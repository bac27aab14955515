--------------------------- MODULE ArchiveProofs ---------------------------
(***************************************************************************)
(* Proof of what compress.* promises: an archive that a call made gives    *)
(* back what its sources held, for any trees, names and archives made      *)
(* elsewhere, and any number of calls.  The walk of a directory visits     *)
(* each place below it once, so the entries of a source are what it held;  *)
(* extracting entries one by one leaves, under each name, the last entry   *)
(* of that name, directories above it, and the rest as it was; so if the   *)
(* entries describe what was held, the destination has it.                 *)
(***************************************************************************)
EXTENDS Archive, SequenceTheorems, FiniteSetTheorems, WellFoundedInduction, TLAPS

\* Numbers are well-founded: what fails for a number fails for a least one.
LEMMA Least ==
  ASSUME NEW T \in SUBSET Nat, T # {}
  PROVE  \E x \in T : \A y \in T : x <= y
<1> DEFINE R == {ss \in Nat \X Nat : ss[1] < ss[2]}
<1>1. IsWellFoundedOn(R, Nat)
  BY NatLessThanWellFounded DEF OpToRel
<1>2. PICK x \in T : \A y \in T : ~ (<<y, x>> \in R)
  <2> HIDE DEF R
  <2> QED BY <1>1, WFMin
<1>3. \A y \in T : ~ (y < x)
  <2> SUFFICES ASSUME NEW y \in T, y < x PROVE FALSE
    OBVIOUS
  <2>1. <<y, x>> \in Nat \X Nat /\ <<y, x>>[1] < <<y, x>>[2]
    OBVIOUS
  <2>2. QED
    BY <1>2, <2>1
<1>4. QED
  BY <1>3

\* A function that satisfies the recursion of FlattenSeq gives what it returns.
LEMMA FlattenIs ==
  ASSUME NEW seqs, Len(seqs) \in Nat, Len(seqs) > 0,
         NEW g, g = [i \in 1..Len(seqs) |-> IF i = 1 THEN seqs[i] ELSE g[i - 1] \o seqs[i]]
  PROVE  Paths!FlattenSeq(seqs) = g[Len(seqs)]
<1> DEFINE n == Len(seqs)
           Flat(h) == h = [i \in 1..n |-> IF i = 1 THEN seqs[i] ELSE h[i - 1] \o seqs[i]]
           flat == CHOOSE h : Flat(h)
<1>1. n \in Nat /\ n > 0 /\ Flat(g)
  OBVIOUS
<1>2. Paths!FlattenSeq(seqs) = flat[n]
  BY <1>1 DEF Paths!FlattenSeq
<1>3. Flat(flat)
  <2> HIDE DEF Flat
  <2>1. QED
    BY <1>1
<1> HIDE DEF flat
<1>4. \A i \in 1..n : flat[i] = g[i]
  <2> DEFINE T == {i \in 1..n : flat[i] # g[i]}
  <2>1. SUFFICES ASSUME T # {} PROVE FALSE
    OBVIOUS
  <2>2. PICK i \in T : \A j \in T : i <= j
    <3>1. T \in SUBSET Nat
      OBVIOUS
    <3> HIDE DEF T
    <3>2. QED
      BY <2>1, <3>1, Least
  <2>3. i \in 1..n /\ flat[i] # g[i]
    OBVIOUS
  <2>4. flat[i] = (IF i = 1 THEN seqs[i] ELSE flat[i - 1] \o seqs[i]) /\ g[i] = (IF i = 1 THEN seqs[i] ELSE g[i - 1] \o seqs[i])
    BY <1>1, <1>3, <2>3
  <2>5. i # 1 => flat[i - 1] = g[i - 1]
    <3>1. SUFFICES ASSUME i # 1 PROVE i - 1 \notin T /\ i - 1 \in 1..n
      OBVIOUS
    <3>2. QED
      BY <1>1, <2>2, <2>3, <3>1
  <2>6. QED
    BY <2>3, <2>4, <2>5
<1>5. n \in 1..n
  BY <1>1
<1>6. QED
  BY <1>2, <1>4, <1>5

--------------------------------------------------------------------------------
(* Places *)
Place == Seq(Nat)
\* q is p or a directory on the way to it.
Begins(q, p) == Len(q) <= Len(p) /\ \A i \in 1..Len(q) : q[i] = p[i]

\* A part of a place is a place, name by name.
LEMMA PartOf ==
  ASSUME NEW p \in Place, NEW a \in Int, NEW b \in Int, 1 <= a, b <= Len(p)
  PROVE  /\ SubSeq(p, a, b) \in Place
         /\ Len(SubSeq(p, a, b)) = IF a <= b THEN b - a + 1 ELSE 0
         /\ \A i \in 1..(b - a + 1) : SubSeq(p, a, b)[i] = p[a + i - 1]
<1>1. Len(p) \in Nat /\ \A i \in 1..Len(p) : p[i] \in Nat
  BY LenProperties, ElementOfSeq DEF Place
<1>2. \A i \in a..b : p[i] \in Nat
  BY <1>1
<1>3. QED
  BY <1>2, SubSeqProperties DEF Place

\* Places are the same if their names are.
LEMMA SamePlace ==
  ASSUME NEW p \in Place, NEW q \in Place, Len(p) = Len(q), \A i \in 1..Len(p) : p[i] = q[i] PROVE p = q
  BY SeqEqual DEF Place

\* The prefixes of the library, said name by name
LEMMA BeginsIs ==
  ASSUME NEW q \in Place, NEW p \in Place
  PROVE  /\ Paths!IsPrefix(q, p) <=> Begins(q, p)
         /\ q \in Paths!Prefixes(p) <=> Begins(q, p)
<1>1. Len(p) \in Nat /\ Len(q) \in Nat
  BY LenProperties DEF Place
<1> DEFINE own == SubSeq(q, 1, Len(q))
           part == SubSeq(p, 1, Len(q))
<1>2. own \in Place /\ own = q
  <2>1. own \in Place /\ Len(own) = Len(q) /\ \A i \in 1..Len(q) : own[i] = q[i]
    <3>1. own \in Place /\ (Len(own) = IF 1 <= Len(q) THEN Len(q) - 1 + 1 ELSE 0)
          /\ \A i \in 1..(Len(q) - 1 + 1) : own[i] = q[1 + i - 1]
      BY <1>1, PartOf
    <3> HIDE DEF own
    <3>2. \A i \in 1..Len(q) : own[i] = q[i]
      BY <1>1, <3>1
    <3>3. QED
      BY <1>1, <3>1, <3>2
  <2> HIDE DEF own
  <2>2. QED
    BY <2>1, SamePlace
<1>3. ASSUME Len(q) <= Len(p)
      PROVE  part \in Place /\ Len(part) = Len(q) /\ \A i \in 1..Len(q) : part[i] = p[i]
  <2>1. part \in Place /\ (Len(part) = IF 1 <= Len(q) THEN Len(q) - 1 + 1 ELSE 0)
        /\ \A i \in 1..(Len(q) - 1 + 1) : part[i] = p[1 + i - 1]
    BY <1>1, <1>3, PartOf
  <2> HIDE DEF part
  <2>2. \A i \in 1..Len(q) : part[i] = p[i]
    BY <1>1, <2>1
  <2>3. QED
    BY <1>1, <2>1, <2>2
<1>4. Paths!IsPrefix(q, p) <=> Len(q) <= Len(p) /\ own = part
  BY DEF Paths!IsPrefix
<1>5. Len(q) <= Len(p) => (q = part <=> \A i \in 1..Len(q) : q[i] = p[i])
  <2> HIDE DEF part
  <2>1. QED
    BY <1>1, <1>3, SamePlace
<1>6. q \in Paths!Prefixes(p) <=> Len(q) <= Len(p) /\ q = part
  <2>1. q \in Paths!Prefixes(p) <=> \E n \in 0..Len(p) : q = SubSeq(p, 1, n)
    BY DEF Paths!Prefixes
  <2>2. ASSUME NEW n \in 0..Len(p), q = SubSeq(p, 1, n) PROVE n = Len(q)
    <3>1. Len(SubSeq(p, 1, n)) = IF 1 <= n THEN n - 1 + 1 ELSE 0
      BY <1>1, PartOf
    <3>2. QED
      BY <1>1, <2>2, <3>1
  <2>3. Len(q) <= Len(p) <=> Len(q) \in 0..Len(p)
    BY <1>1
  <2>4. QED
    BY <2>1, <2>2, <2>3
<1>7. QED
  BY <1>2, <1>4, <1>5, <1>6 DEF Begins

\* A place has finitely many prefixes, itself and the mount among them.
LEMMA PrefixesIs ==
  ASSUME NEW p \in Place
  PROVE  /\ Paths!Prefixes(p) = {q \in Place : Begins(q, p)}
         /\ IsFiniteSet(Paths!Prefixes(p))
         /\ p \in Paths!Prefixes(p) /\ <<>> \in Paths!Prefixes(p)
<1>1. Len(p) \in Nat
  BY LenProperties DEF Place
<1>2. \A n \in 0..Len(p) : SubSeq(p, 1, n) \in Place
  BY <1>1, PartOf
<1>3. Paths!Prefixes(p) \subseteq Place
  BY <1>2 DEF Paths!Prefixes
<1>4. Paths!Prefixes(p) = {q \in Place : Begins(q, p)}
  BY <1>3, BeginsIs
<1>5. IsFiniteSet(Paths!Prefixes(p))
  <2>1. IsFiniteSet(0..Len(p))
    BY <1>1, FS_Interval
  <2> DEFINE cut == [n \in 0..Len(p) |-> SubSeq(p, 1, n)]
  <2>2. cut \in Surjection(0..Len(p), Paths!Prefixes(p))
    BY DEF Surjection, Paths!Prefixes
  <2>3. QED
    BY <2>1, <2>2, FS_Surjection
<1>6. Begins(p, p) /\ Begins(<<>>, p) /\ <<>> \in Place
  BY <1>1, EmptySeq DEF Begins, Place
<1>7. QED
  BY <1>4, <1>5, <1>6

LEMMA BeginsTransitive ==
  ASSUME NEW p \in Place, NEW q \in Place, NEW r \in Place, Begins(p, q), Begins(q, r) PROVE Begins(p, r)
<1>1. Len(p) \in Nat /\ Len(q) \in Nat /\ Len(r) \in Nat
  BY LenProperties DEF Place
<1>2. QED
  BY <1>1 DEF Begins

\* What begins a place is the place or begins its parent.
LEMMA FrontIs ==
  ASSUME NEW p \in Place
  PROVE  /\ Paths!Front(p) \in Place /\ Begins(Paths!Front(p), p)
         /\ p = <<>> => Paths!Front(p) = p
         /\ \A q \in Place : Begins(q, p) => q = p \/ Begins(q, Paths!Front(p))
<1> DEFINE f == Paths!Front(p)
<1>1. Len(p) \in Nat /\ f = SubSeq(p, 1, Len(p) - 1)
  BY LenProperties DEF Paths!Front, Place
<1>2. f \in Place /\ (Len(f) = IF 1 <= Len(p) - 1 THEN Len(p) - 1 - 1 + 1 ELSE 0)
      /\ \A i \in 1..(Len(p) - 1 - 1 + 1) : f[i] = p[1 + i - 1]
  BY <1>1, PartOf
<1> HIDE DEF f
<1>3. \A i \in 1..Len(f) : f[i] = p[i]
  BY <1>1, <1>2
<1>4. Begins(f, p)
  BY <1>1, <1>2, <1>3 DEF Begins
<1>5. p = <<>> => f = p
  <2>1. SUFFICES ASSUME p = <<>> PROVE f = p
    OBVIOUS
  <2>2. Len(p) = 0
    BY <2>1, EmptySeq
  <2>3. Len(f) = 0
    BY <1>2, <2>2
  <2>4. QED
    BY <1>2, <2>2, <2>3, SamePlace
<1>6. ASSUME NEW q \in Place, Begins(q, p) PROVE q = p \/ Begins(q, f)
  <2>1. Len(q) \in Nat /\ Len(q) <= Len(p) /\ \A i \in 1..Len(q) : q[i] = p[i]
    BY <1>6, LenProperties DEF Begins, Place
  <2>2. CASE Len(q) = Len(p)
    BY <2>1, <2>2, SamePlace
  <2>3. CASE Len(q) < Len(p)
    <3>1. Len(f) = Len(p) - 1
      <4>1. Len(p) >= 1 /\ (1 <= Len(p) - 1 \/ Len(p) - 1 = 0)
        <5>1. \A m, n \in Nat : m < n => n >= 1 /\ (1 <= n - 1 \/ n - 1 = 0)
          OBVIOUS
        <5>2. Len(p) \in Nat /\ Len(q) \in Nat
          BY <1>1, <2>1
        <5>3. QED
          BY <2>3, <5>1, <5>2
      <4>2. CASE 1 <= Len(p) - 1
        BY <1>1, <1>2, <4>2
      <4>3. CASE Len(p) - 1 = 0
        BY <1>1, <1>2, <4>3
      <4>4. QED
        BY <4>1, <4>2, <4>3
    <3>2. Len(q) <= Len(f) /\ \A i \in 1..Len(q) : i \in 1..Len(f)
      BY <1>1, <2>1, <2>3, <3>1
    <3>3. QED
      BY <1>3, <2>1, <3>2 DEF Begins
  <2>4. QED
    BY <1>1, <2>1, <2>2, <2>3
<1>7. QED
  BY <1>2, <1>4, <1>5, <1>6 DEF f

--------------------------------------------------------------------------------
(* The tree of a mount *)
\* One function over another is a function.
LEMMA OverrideIsFunction ==
  ASSUME NEW f, NEW g PROVE f \uplus g = [x \in DOMAIN (f \uplus g) |-> (f \uplus g)[x]]
  BY DEF \uplus

\* A tree, said with Begins
LEMMA TreeIs ==
  ASSUME NEW t
  PROVE  IsTree(t) <=> /\ t = [p \in DOMAIN t |-> t[p]] /\ IsFiniteSet(DOMAIN t) /\ DOMAIN t \subseteq Place
                       /\ \A p \in DOMAIN t : \A q \in Place : Begins(q, p) /\ q # p => q \in DOMAIN t /\ t[q] = Dir
<1>1. DOMAIN t \subseteq Place => \A p \in DOMAIN t : \A q : q \in Paths!Prefixes(p) <=> q \in Place /\ Begins(q, p)
  BY PrefixesIs
<1>2. QED
  BY <1>1 DEF IsTree, is_dir, exists, Place

\* Making the directories on the way to a place
LEMMA MakeDirsIs ==
  ASSUME NEW t, IsTree(t), NEW p \in Place
  PROVE  /\ IsTree(create_dir_all(t, p).tree)
         /\ \A x \in DOMAIN t : x \in DOMAIN create_dir_all(t, p).tree /\ create_dir_all(t, p).tree[x] = t[x]
         /\ \A x \in DOMAIN create_dir_all(t, p).tree : x \notin DOMAIN t => create_dir_all(t, p).tree[x] = Dir
         /\ create_dir_all(t, p).ok =>
              /\ DOMAIN create_dir_all(t, p).tree = DOMAIN t \cup Paths!Prefixes(p)
              /\ \A q \in Paths!Prefixes(p) : create_dir_all(t, p).tree[q] = Dir
<1> DEFINE u == create_dir_all(t, p).tree
           made == [q \in Paths!Prefixes(p) |-> Dir]
<1>1. Paths!Prefixes(p) = {q \in Place : Begins(q, p)} /\ IsFiniteSet(Paths!Prefixes(p))
  BY PrefixesIs
<1>2. t = [x \in DOMAIN t |-> t[x]] /\ IsFiniteSet(DOMAIN t) /\ DOMAIN t \subseteq Place
      /\ \A x \in DOMAIN t : \A q \in Place : Begins(q, x) /\ q # x => q \in DOMAIN t /\ t[q] = Dir
  BY TreeIs
<1>3. IsFiniteSet(DOMAIN t)
  BY <1>2
<1>4. CASE \E q \in Paths!Prefixes(p) : is_file(t, q)
  <2>1. u = t /\ ~create_dir_all(t, p).ok
    BY <1>4 DEF create_dir_all, Fails
  <2>2. QED
    BY <2>1
<1>5. CASE ~\E q \in Paths!Prefixes(p) : is_file(t, q)
  <2>1. u = t \uplus made
    BY <1>5 DEF create_dir_all, Ok
  <2>2. u = [x \in DOMAIN u |-> u[x]]
    BY <2>1, OverrideIsFunction
  <2>3. \A q \in Paths!Prefixes(p) : q \in DOMAIN t => t[q] = Dir
    BY <1>5 DEF is_file, exists
  <2>4. DOMAIN u = DOMAIN t \cup Paths!Prefixes(p) /\ (\A x \in DOMAIN t : u[x] = t[x])
        /\ \A q \in Paths!Prefixes(p) : q \notin DOMAIN t => u[q] = Dir
    <3>1. DOMAIN made = Paths!Prefixes(p) /\ \A q \in Paths!Prefixes(p) : made[q] = Dir
      OBVIOUS
    <3> HIDE DEF made, u
    <3>2. QED
      BY <2>1, <3>1 DEF \uplus
  <2> HIDE DEF u, made
  <2>5. \A q \in Paths!Prefixes(p) : u[q] = Dir
    BY <2>3, <2>4
  <2>6. ASSUME NEW x \in DOMAIN u, NEW q \in Place, Begins(q, x), q # x PROVE q \in DOMAIN u /\ u[q] = Dir
    <3>1. CASE x \in DOMAIN t
      BY <1>2, <2>4, <2>6, <3>1
    <3>2. CASE x \in Paths!Prefixes(p)
      <4>1. q \in Paths!Prefixes(p)
        BY <1>1, <2>6, <3>2, BeginsTransitive
      <4>2. QED
        BY <2>4, <2>5, <4>1
    <3>3. QED
      BY <2>4, <3>1, <3>2
  <2>7. DOMAIN u \subseteq Place
    BY <1>1, <1>2, <2>4
  <2>8. IsFiniteSet(DOMAIN u)
    BY <1>1, <1>3, <2>4, FS_Union
  <2>9. IsFiniteSet(DOMAIN u) /\ DOMAIN u \subseteq Place
    BY <2>7, <2>8
  <2>10. IsTree(u)
    BY <2>2, <2>6, <2>9, TreeIs
  <2>11. QED
    BY <2>1, <2>4, <2>5, <2>10 DEF u, made
<1>6. QED
  BY <1>4, <1>5

\* Writing a file leaves a tree.
LEMMA WriteIs ==
  ASSUME NEW t, IsTree(t), NEW p \in Place, NEW node
  PROVE  /\ IsTree(write(t, p, node).tree)
         /\ ~write(t, p, node).ok => write(t, p, node).tree = t
         /\ write(t, p, node).ok =>
              /\ is_dir(t, Paths!Front(p)) /\ ~is_dir(t, p)
              /\ DOMAIN write(t, p, node).tree = DOMAIN t \cup {p} /\ write(t, p, node).tree[p] = node
              /\ \A x \in DOMAIN t : x # p => write(t, p, node).tree[x] = t[x]
<1> DEFINE u == write(t, p, node).tree
<1>1. CASE ~(is_dir(t, Paths!Front(p)) /\ ~is_dir(t, p))
  <2>1. u = t /\ ~write(t, p, node).ok
    BY <1>1 DEF write, Fails
  <2>2. QED
    BY <2>1
<1>2. CASE is_dir(t, Paths!Front(p)) /\ ~is_dir(t, p)
  <2> DEFINE new == [q \in {p} |-> node]
  <2>1. u = new \uplus t /\ write(t, p, node).ok
    BY <1>2 DEF write, Ok
  <2>2. u = [x \in DOMAIN u |-> u[x]]
    BY <2>1, OverrideIsFunction
  <2>3. DOMAIN u = DOMAIN t \cup {p} /\ u[p] = node /\ \A x \in DOMAIN t : x # p => u[x] = t[x]
    <3>1. DOMAIN new = {p} /\ new[p] = node
      OBVIOUS
    <3> HIDE DEF new, u
    <3>2. QED
      BY <2>1, <3>1 DEF \uplus
  <2> HIDE DEF u
  <2>4. t = [x \in DOMAIN t |-> t[x]] /\ IsFiniteSet(DOMAIN t) /\ DOMAIN t \subseteq Place
        /\ \A x \in DOMAIN t : \A q \in Place : Begins(q, x) /\ q # x => q \in DOMAIN t /\ t[q] = Dir
    BY TreeIs
  <2>5. ASSUME NEW x \in DOMAIN u, NEW q \in Place, Begins(q, x), q # x PROVE q \in DOMAIN u /\ u[q] = Dir
    <3>1. q \in DOMAIN t /\ t[q] = Dir
      <4>1. CASE x \in DOMAIN t
        BY <2>4, <2>5, <4>1
      <4>2. CASE x = p
        <5>1. Begins(q, Paths!Front(p)) /\ Paths!Front(p) \in DOMAIN t /\ t[Paths!Front(p)] = Dir
          BY <1>2, <2>5, <4>2, FrontIs DEF is_dir, exists
        <5>2. QED
          BY <2>4, <5>1
      <4>3. QED
        BY <2>3, <4>1, <4>2
    <3>2. q # p
      BY <1>2, <3>1 DEF is_dir, exists
    <3>3. QED
      BY <2>3, <3>1, <3>2
  <2>6. IsFiniteSet(DOMAIN u) /\ DOMAIN u \subseteq Place
    BY <2>3, <2>4, FS_AddElement
  <2>7. IsTree(u)
    BY <2>2, <2>5, <2>6, TreeIs
  <2>8. QED
    BY <1>2, <2>1, <2>3, <2>7 DEF u
<1>3. QED
  BY <1>1, <1>2

\* What a file holds may change.
LEMMA RewriteIs ==
  ASSUME NEW t, IsTree(t), NEW p, is_file(t, p), NEW node PROVE IsTree([t EXCEPT ![p] = node])
<1> DEFINE u == [t EXCEPT ![p] = node]
<1>1. t = [x \in DOMAIN t |-> t[x]] /\ IsFiniteSet(DOMAIN t) /\ DOMAIN t \subseteq Place
      /\ \A x \in DOMAIN t : \A q \in Place : Begins(q, x) /\ q # x => q \in DOMAIN t /\ t[q] = Dir
  BY TreeIs
<1>2. p \in DOMAIN t /\ t[p] # Dir
  BY DEF is_file, exists
<1>3. u = [x \in DOMAIN u |-> u[x]]
  OBVIOUS
<1>4. DOMAIN u = DOMAIN t /\ \A x \in DOMAIN t : x # p => u[x] = t[x]
  OBVIOUS
<1> HIDE DEF u
<1>5. \A x \in DOMAIN u : \A q \in Place : Begins(q, x) /\ q # x => q \in DOMAIN u /\ u[q] = Dir
  BY <1>1, <1>2, <1>4
<1>6. IsTree(u)
  BY <1>1, <1>3, <1>4, <1>5, TreeIs
<1>7. QED
  BY <1>6 DEF u

\* A place below a place, name by name
LEMMA JoinedPlace ==
  ASSUME NEW p \in Place, NEW q \in Place
  PROVE  /\ p \o q \in Place /\ Len(p \o q) = Len(p) + Len(q)
         /\ \A i \in 1..Len(p) : (p \o q)[i] = p[i]
         /\ \A i \in 1..Len(q) : (p \o q)[Len(p) + i] = q[i]
         /\ Begins(p, p \o q)
<1>1. Len(p) \in Nat /\ Len(q) \in Nat
  BY LenProperties DEF Place
<1>2. /\ p \o q \in Place /\ Len(p \o q) = Len(p) + Len(q)
      /\ \A i \in 1..(Len(p) + Len(q)) : (p \o q)[i] = IF i <= Len(p) THEN p[i] ELSE q[i - Len(p)]
  BY ConcatProperties DEF Place
<1>3. \A i \in 1..Len(p) : (p \o q)[i] = p[i]
  BY <1>1, <1>2
<1>4. ASSUME NEW i \in 1..Len(q) PROVE (p \o q)[Len(p) + i] = q[i]
  <2>1. Len(p) + i \in 1..(Len(p) + Len(q)) /\ ~(Len(p) + i <= Len(p)) /\ (Len(p) + i) - Len(p) = i
    BY <1>1
  <2>2. QED
    BY <1>2, <2>1
<1>5. Begins(p, p \o q)
  BY <1>1, <1>2, <1>3 DEF Begins
<1>6. QED
  BY <1>2, <1>3, <1>4, <1>5

\* What the extraction of an entry leaves, and what it needs to succeed
Grown(after, before, out, node) ==
  /\ DOMAIN after = DOMAIN before \cup Paths!Prefixes(out)
  /\ after[out] = node
  /\ \A q \in Paths!Prefixes(out) : q # out => after[q] = Dir /\ (q \in DOMAIN before => before[q] = Dir)
  /\ \A x \in DOMAIN before : x \notin Paths!Prefixes(out) => after[x] = before[x]
Kept(after, before, node) ==
  /\ \A x : is_file(before, x) => is_file(after, x)
  /\ \A x \in DOMAIN after : after[x] \in {Dir, node} \/ (x \in DOMAIN before /\ after[x] = before[x])

\* One entry leaves a tree in which every file is still a file, and the entry if it succeeds.
LEMMA EntryIs ==
  ASSUME NEW state, IsTree(state.tree), NEW dest \in Place, NEW entry, entry.name \in Place
  PROVE  /\ IsTree(extract_entry(dest, state, entry).tree)
         /\ Kept(extract_entry(dest, state, entry).tree, state.tree, entry.node)
         /\ extract_entry(dest, state, entry).ok =>
              /\ state.ok
              /\ Grown(extract_entry(dest, state, entry).tree, state.tree, dest \o entry.name, entry.node)
<1> DEFINE out == dest \o entry.name
           after == extract_entry(dest, state, entry)
           before == state.tree
           parents == create_dir_all(state.tree, Paths!Front(out))
<1>1. out \in Place /\ Paths!Front(out) \in Place
  BY JoinedPlace, FrontIs
<1>2. /\ Paths!Prefixes(out) = {q \in Place : Begins(q, out)}
      /\ Paths!Prefixes(Paths!Front(out)) = {q \in Place : Begins(q, Paths!Front(out))}
      /\ out \in Paths!Prefixes(out)
  BY <1>1, PrefixesIs
<1>3. Paths!Prefixes(out) = Paths!Prefixes(Paths!Front(out)) \cup {out}
  <2>1. \A q \in Place : Begins(q, Paths!Front(out)) => Begins(q, out)
    BY <1>1, FrontIs, BeginsTransitive
  <2>2. \A q \in Place : Begins(q, out) => q = out \/ Begins(q, Paths!Front(out))
    BY <1>1, FrontIs
  <2>3. QED
    BY <1>2, <2>1, <2>2
<1> HIDE DEF out
<1>4. CASE ~state.ok \/ entry.node = Link \/ ~parents.ok
  <2>1. after.tree = before /\ ~after.ok
    <3>1. after = Fails(before)
      BY <1>4 DEF extract_entry, out
    <3>2. QED
      BY <3>1 DEF Fails
  <2>2. QED
    BY <2>1 DEF Kept
<1>5. CASE state.ok /\ entry.node # Link /\ parents.ok
  <2>1. /\ IsTree(parents.tree)
        /\ \A x \in DOMAIN before : x \in DOMAIN parents.tree /\ parents.tree[x] = before[x]
        /\ \A x \in DOMAIN parents.tree : x \notin DOMAIN before => parents.tree[x] = Dir
        /\ DOMAIN parents.tree = DOMAIN before \cup Paths!Prefixes(Paths!Front(out))
        /\ \A q \in Paths!Prefixes(Paths!Front(out)) : parents.tree[q] = Dir
    <3> DEFINE front == Paths!Front(out)
    <3> HIDE DEF front
    <3>1. front \in Place /\ parents = create_dir_all(state.tree, front)
      BY <1>1 DEF front
    <3> HIDE DEF parents
    <3>2. QED
      BY <1>5, <3>1, MakeDirsIs DEF front
  <2>2. CASE entry.node = Dir
    <3> DEFINE last_dirs == create_dir_all(parents.tree, out)
    <3>1. after = last_dirs
      BY <1>5, <2>2 DEF extract_entry, out
    <3>2. /\ IsTree(last_dirs.tree)
          /\ \A x \in DOMAIN parents.tree : x \in DOMAIN last_dirs.tree /\ last_dirs.tree[x] = parents.tree[x]
          /\ \A x \in DOMAIN last_dirs.tree : x \notin DOMAIN parents.tree => last_dirs.tree[x] = Dir
          /\ last_dirs.ok =>
               /\ DOMAIN last_dirs.tree = DOMAIN parents.tree \cup Paths!Prefixes(out)
               /\ \A q \in Paths!Prefixes(out) : last_dirs.tree[q] = Dir
      <4> HIDE DEF parents
      <4>1. QED
        BY <1>1, <2>1, MakeDirsIs
    <3> HIDE DEF last_dirs, parents, before, out, after
    <3>3. Kept(after.tree, before, entry.node)
      BY <2>1, <3>1, <3>2 DEF Kept, is_file, exists
    <3>4. after.ok => Grown(after.tree, before, out, entry.node)
      BY <1>2, <1>3, <2>1, <2>2, <3>1, <3>2 DEF Grown
    <3>5. QED
      BY <1>5, <3>1, <3>2, <3>3, <3>4 DEF after, before, out
  <2>3. CASE entry.node # Dir
    <3> DEFINE written == write(parents.tree, out, entry.node)
    <3>1. after = written
      BY <1>5, <2>3 DEF extract_entry, out
    <3>2. /\ IsTree(written.tree)
          /\ ~written.ok => written.tree = parents.tree
          /\ written.ok =>
               /\ ~is_dir(parents.tree, out)
               /\ DOMAIN written.tree = DOMAIN parents.tree \cup {out} /\ written.tree[out] = entry.node
               /\ \A x \in DOMAIN parents.tree : x # out => written.tree[x] = parents.tree[x]
      <4> HIDE DEF parents
      <4>1. QED
        BY <1>1, <2>1, WriteIs
    <3> HIDE DEF written, parents, before, out, after
    <3>3. CASE ~written.ok
      <4>1. Kept(after.tree, before, entry.node)
        BY <2>1, <3>1, <3>2, <3>3 DEF Kept, is_file, exists
      <4>2. QED
        BY <3>1, <3>2, <3>3, <4>1 DEF after, before, out
    <3>4. CASE written.ok
      <4>1. Kept(after.tree, before, entry.node)
        BY <2>1, <2>3, <3>1, <3>2, <3>4 DEF Kept, is_file, exists
      <4>2. Grown(after.tree, before, out, entry.node)
        BY <1>2, <1>3, <2>1, <3>1, <3>2, <3>4 DEF Grown
      <4>3. QED
        BY <1>5, <3>1, <3>2, <4>1, <4>2 DEF after, before, out
    <3>5. QED
      BY <3>3, <3>4
  <2>4. QED
    BY <2>2, <2>3
<1>6. QED
  BY <1>4, <1>5

--------------------------------------------------------------------------------
(* Extracting *)
\* What extracting the first n entries gives, for each n up to m
Chain(h, t, entries, dest, m) ==
  h = [n \in 0..m |-> IF n = 0 THEN Ok(t) ELSE extract_entry(dest, h[n - 1], entries[n])]

\* The recursion of the extraction has a solution.
LEMMA ChainExists ==
  ASSUME NEW t, NEW entries, NEW dest, NEW m \in Nat
  PROVE  \E h : Chain(h, t, entries, dest, m)
<1> DEFINE Unreached == {n \in 0..m : ~\E h : Chain(h, t, entries, dest, n)}
<1>1. SUFFICES ASSUME Unreached # {} PROVE FALSE
  OBVIOUS
<1>2. PICK n \in Unreached : \A k \in Unreached : n <= k
  <2>1. Unreached \in SUBSET Nat
    OBVIOUS
  <2> HIDE DEF Unreached
  <2>2. QED
    BY <1>1, <2>1, Least
<1>3. n \in 0..m /\ ~\E h : Chain(h, t, entries, dest, n)
  OBVIOUS
<1>4. n # 0
  <2>1. Chain([k \in 0..0 |-> Ok(t)], t, entries, dest, 0)
    <3> DEFINE h == [k \in 0..0 |-> Ok(t)]
    <3>1. \A k \in 0..0 : k = 0
      OBVIOUS
    <3>2. h = [k \in 0..0 |-> IF k = 0 THEN Ok(t) ELSE extract_entry(dest, h[k - 1], entries[k])]
      BY <3>1
    <3>3. QED
      BY <3>2 DEF Chain
  <2>2. QED
    BY <1>3, <2>1
<1>5. PICK h : Chain(h, t, entries, dest, n - 1)
  <2>1. n - 1 \in 0..m /\ n - 1 \notin Unreached
    <3>1. n - 1 \in 0..m /\ ~(n <= n - 1)
      BY <1>3, <1>4
    <3> HIDE DEF Unreached
    <3>2. QED
      BY <1>2, <3>1
  <2>2. QED
    BY <2>1
<1> DEFINE g == [k \in 0..n |-> IF k = n THEN extract_entry(dest, h[n - 1], entries[n]) ELSE h[k]]
<1>6. \A k \in 0..n : g[k] = IF k = 0 THEN Ok(t) ELSE extract_entry(dest, g[k - 1], entries[k])
  <2>1. SUFFICES ASSUME NEW k \in 0..n
                 PROVE  g[k] = IF k = 0 THEN Ok(t) ELSE extract_entry(dest, g[k - 1], entries[k])
    OBVIOUS
  <2>2. k # 0 => k - 1 \in 0..n /\ k - 1 # n
    BY <1>3
  <2>3. k # 0 => g[k - 1] = h[k - 1]
    BY <2>2
  <2>4. CASE k = n
    <3>1. g[k] = extract_entry(dest, h[k - 1], entries[k])
      BY <2>4
    <3> HIDE DEF g
    <3>2. QED
      BY <1>4, <2>3, <2>4, <3>1
  <2>5. CASE k # n
    <3>1. k \in 0..(n - 1)
      BY <1>3, <2>5
    <3>2. g[k] = h[k]
      BY <2>5
    <3>3. h[k] = IF k = 0 THEN Ok(t) ELSE extract_entry(dest, h[k - 1], entries[k])
      BY <1>5, <3>1 DEF Chain
    <3> HIDE DEF g
    <3>4. QED
      BY <2>3, <3>2, <3>3
  <2>6. QED
    BY <2>4, <2>5
<1>7. g = [k \in 0..n |-> g[k]]
  OBVIOUS
<1> HIDE DEF g
<1>8. Chain(g, t, entries, dest, n)
  BY <1>6, <1>7 DEF Chain
<1>9. QED
  BY <1>3, <1>8

\* The extraction, entry by entry
LEMMA ExtractionIs ==
  ASSUME NEW t, NEW entries, NEW dest, Len(entries) \in Nat
  PROVE  \E h : /\ h[0] = Ok(t)
                /\ \A n \in 1..Len(entries) : h[n] = extract_entry(dest, h[n - 1], entries[n])
                /\ extract_tar_from_reader(t, entries, dest) = h[Len(entries)]
<1> DEFINE m == Len(entries)
           h == CHOOSE f : Chain(f, t, entries, dest, m)
<1>1. m \in Nat
  OBVIOUS
<1>2. extract_tar_from_reader(t, entries, dest) = h[m]
  BY DEF extract_tar_from_reader, Chain
<1> HIDE DEF m
<1>3. Chain(h, t, entries, dest, m)
  BY <1>1, ChainExists
<1> HIDE DEF h
<1>4. h[0] = Ok(t)
  BY <1>1, <1>3 DEF Chain
<1>5. ASSUME NEW n \in 1..m PROVE h[n] = extract_entry(dest, h[n - 1], entries[n])
  <2>1. n \in 0..m /\ n # 0
    BY <1>1
  <2>2. QED
    BY <1>3, <2>1 DEF Chain
<1>6. QED
  BY <1>2, <1>4, <1>5 DEF m

\* Files of the tree are among the nodes.
Within(t, nodes) == \A p \in DOMAIN t : t[p] \in nodes
\* Where an entry goes
Out(entries, dest, j) == dest \o entries[j].name

\* The tree u is t into which the first n entries were extracted; of entries with one name the
\* last one is found.
Filled(u, t, entries, dest, n) ==
  /\ DOMAIN u = DOMAIN t \cup UNION {Paths!Prefixes(Out(entries, dest, j)) : j \in 1..n}
  /\ \A j \in 1..n :
       (\A k \in (j + 1)..n : Out(entries, dest, k) # Out(entries, dest, j)) =>
         u[Out(entries, dest, j)] = entries[j].node
  /\ \A p \in DOMAIN u :
       (\A j \in 1..n : Out(entries, dest, j) # p) =>
         /\ (\E j \in 1..n : p \in Paths!Prefixes(Out(entries, dest, j))) => u[p] = Dir
         /\ ~(\E j \in 1..n : p \in Paths!Prefixes(Out(entries, dest, j))) => u[p] = t[p]

\* Entries have names and nodes.
LEMMA EntriesAre ==
  ASSUME NEW nodes, NEW entries \in Entries(nodes)
  PROVE  /\ Len(entries) \in Nat
         /\ \A j \in 1..Len(entries) : entries[j].name \in Place /\ entries[j].node \in nodes
<1>1. entries \in Seq([name : Seq(Nat), node : nodes])
  BY DEF Entries
<1>2. \A j \in 1..Len(entries) : entries[j] \in [name : Seq(Nat), node : nodes]
  BY <1>1, ElementOfSeq
<1>3. QED
  BY <1>1, <1>2, LenProperties DEF Place

\* One more entry
LEMMA FilledNext ==
  ASSUME NEW u, NEW v, NEW t, NEW entries, NEW dest \in Place, NEW n \in Nat,
         \A j \in 1..(n + 1) : entries[j].name \in Place,
         Filled(u, t, entries, dest, n), Grown(v, u, Out(entries, dest, n + 1), entries[n + 1].node)
  PROVE  Filled(v, t, entries, dest, n + 1)
<1> DEFINE out(j) == Out(entries, dest, j)
           new == out(n + 1)
<1>1. \A j \in 1..(n + 1) : out(j) \in Place /\ out(j) \in Paths!Prefixes(out(j))
  BY JoinedPlace, PrefixesIs DEF Out
<1>2. \A j \in 1..(n + 1) : j \in 1..n \/ j = n + 1
  OBVIOUS
<1>3. \A j \in 1..n : j \in 1..(n + 1)
  OBVIOUS
<1>4. n + 1 \in 1..(n + 1)
  OBVIOUS
<1>5. /\ DOMAIN v = DOMAIN u \cup Paths!Prefixes(new)
      /\ v[new] = entries[n + 1].node
      /\ \A q \in Paths!Prefixes(new) : q # new => v[q] = Dir /\ (q \in DOMAIN u => u[q] = Dir)
      /\ \A x \in DOMAIN u : x \notin Paths!Prefixes(new) => v[x] = u[x]
  BY DEF Grown
<1>6. /\ DOMAIN u = DOMAIN t \cup UNION {Paths!Prefixes(out(j)) : j \in 1..n}
      /\ \A j \in 1..n : (\A k \in (j + 1)..n : out(k) # out(j)) => u[out(j)] = entries[j].node
      /\ \A p \in DOMAIN u :
           (\A j \in 1..n : out(j) # p) =>
             /\ (\E j \in 1..n : p \in Paths!Prefixes(out(j))) => u[p] = Dir
             /\ ~(\E j \in 1..n : p \in Paths!Prefixes(out(j))) => u[p] = t[p]
  BY DEF Filled
<1> HIDE DEF out, new
<1>7. new = out(n + 1)
  BY DEF new
<1>8. DOMAIN v = DOMAIN t \cup UNION {Paths!Prefixes(out(j)) : j \in 1..(n + 1)}
  BY <1>2, <1>3, <1>4, <1>5, <1>6, <1>7
<1>9. ASSUME NEW j \in 1..(n + 1), \A k \in (j + 1)..(n + 1) : out(k) # out(j)
      PROVE  v[out(j)] = entries[j].node
  <2>1. CASE j = n + 1
    BY <1>5, <1>7, <2>1
  <2>2. CASE j \in 1..n
    <3>1. n + 1 \in (j + 1)..(n + 1) /\ \A k \in (j + 1)..n : k \in (j + 1)..(n + 1)
      BY <2>2
    <3>2. new # out(j) /\ u[out(j)] = entries[j].node
      BY <1>6, <1>7, <1>9, <2>2, <3>1
    <3>3. out(j) \in DOMAIN u
      BY <1>1, <1>6, <2>2
    <3>4. QED
      BY <1>5, <3>2, <3>3
  <2>3. QED
    BY <1>2, <2>1, <2>2
<1>10. ASSUME NEW p \in DOMAIN v, \A j \in 1..(n + 1) : out(j) # p
       PROVE  /\ (\E j \in 1..(n + 1) : p \in Paths!Prefixes(out(j))) => v[p] = Dir
              /\ ~(\E j \in 1..(n + 1) : p \in Paths!Prefixes(out(j))) => v[p] = t[p]
  <2>1. CASE p \in Paths!Prefixes(new)
    <3>1. v[p] = Dir
      BY <1>4, <1>5, <1>7, <1>10, <2>1
    <3>2. QED
      BY <1>4, <1>7, <2>1, <3>1
  <2>2. CASE p \notin Paths!Prefixes(new)
    <3>1. p \in DOMAIN u /\ v[p] = u[p]
      BY <1>5, <2>2
    <3>2. \A j \in 1..n : out(j) # p
      BY <1>3, <1>10
    <3>3. (\E j \in 1..(n + 1) : p \in Paths!Prefixes(out(j))) <=> \E j \in 1..n : p \in Paths!Prefixes(out(j))
      BY <1>2, <1>3, <1>7, <2>2
    <3>4. QED
      BY <1>6, <3>1, <3>2, <3>3
  <2>3. QED
    BY <2>1, <2>2
<1>11. QED
  BY <1>8, <1>9, <1>10 DEF Filled, out

\* Whatever is extracted leaves a tree, and every file a file; and it gives what the entries say,
\* if it succeeds.
LEMMA ExtractionGives ==
  ASSUME NEW nodes, Dir \in nodes, NEW t, IsTree(t), Within(t, nodes), NEW entries \in Entries(nodes), NEW dest \in Place
  PROVE  /\ IsTree(extract_tar_from_reader(t, entries, dest).tree)
         /\ Within(extract_tar_from_reader(t, entries, dest).tree, nodes)
         /\ \A x : is_file(t, x) => is_file(extract_tar_from_reader(t, entries, dest).tree, x)
         /\ extract_tar_from_reader(t, entries, dest).ok =>
              Filled(extract_tar_from_reader(t, entries, dest).tree, t, entries, dest, Len(entries))
<1> DEFINE m == Len(entries)
<1>1. m \in Nat /\ \A j \in 1..m : entries[j].name \in Place /\ entries[j].node \in nodes
  BY EntriesAre
<1>2. PICK h : /\ h[0] = Ok(t)
               /\ \A n \in 1..m : h[n] = extract_entry(dest, h[n - 1], entries[n])
               /\ extract_tar_from_reader(t, entries, dest) = h[m]
  BY <1>1, ExtractionIs
<1> HIDE DEF m
<1> DEFINE Good(n) == /\ IsTree(h[n].tree) /\ Within(h[n].tree, nodes)
                      /\ \A x : is_file(t, x) => is_file(h[n].tree, x)
                      /\ h[n].ok => Filled(h[n].tree, t, entries, dest, n)
           Failed == {n \in 0..m : ~Good(n)}
<1>3. Good(0)
  <2>1. h[0].tree = t
    BY <1>2 DEF Ok
  <2>2. Filled(t, t, entries, dest, 0)
    <3>1. \A j : j \notin 1..0
      OBVIOUS
    <3>2. QED
      BY <3>1 DEF Filled
  <2>3. QED
    BY <2>1, <2>2
<1>4. ASSUME NEW n \in 0..m, n # 0, Good(n - 1) PROVE Good(n)
  <2> DEFINE before == h[n - 1].tree
             after == h[n].tree
  <2>1. n \in 1..m /\ n - 1 \in Nat /\ n - 1 + 1 = n /\ \A j \in 1..n : j \in 1..m
    BY <1>1, <1>4
  <2>2. h[n] = extract_entry(dest, h[n - 1], entries[n]) /\ entries[n].name \in Place /\ entries[n].node \in nodes
    BY <1>1, <1>2, <2>1
  <2>3. /\ IsTree(after) /\ Kept(after, before, entries[n].node)
        /\ h[n].ok => h[n - 1].ok /\ Grown(after, before, Out(entries, dest, n), entries[n].node)
    BY <1>4, <2>2, EntryIs DEF Out
  <2>4. Within(after, nodes) /\ \A x : is_file(t, x) => is_file(after, x)
    BY <1>4, <2>2, <2>3 DEF Kept, Within
  <2>5. ASSUME h[n].ok PROVE Filled(after, t, entries, dest, n)
    <3>1. Filled(before, t, entries, dest, n - 1)
      BY <1>4, <2>3, <2>5
    <3>2. \A j \in 1..n : entries[j].name \in Place
      BY <1>1, <2>1
    <3>3. PICK k \in Nat : k = n - 1
      BY <2>1
    <3>4. n = k + 1
      BY <2>1, <3>3
    <3>5. /\ Filled(before, t, entries, dest, k)
          /\ Grown(after, before, Out(entries, dest, k + 1), entries[k + 1].node)
          /\ \A j \in 1..(k + 1) : entries[j].name \in Place
      BY <2>3, <2>5, <3>1, <3>2, <3>3, <3>4
    <3> HIDE DEF before, after
    <3>6. Filled(after, t, entries, dest, k + 1)
      BY <3>5, FilledNext
    <3>7. QED
      BY <3>4, <3>6
  <2>6. QED
    BY <2>3, <2>4, <2>5
<1>5. Failed = {}
  <2>1. SUFFICES ASSUME Failed # {} PROVE FALSE
    OBVIOUS
  <2>2. PICK n \in Failed : \A k \in Failed : n <= k
    <3>1. Failed \in SUBSET Nat
      OBVIOUS
    <3> HIDE DEF Failed
    <3>2. QED
      BY <2>1, <3>1, Least
  <2>3. n \in 0..m /\ ~Good(n)
    OBVIOUS
  <2> HIDE DEF Good
  <2>4. n # 0
    BY <1>3, <2>3
  <2>5. n - 1 \in 0..m /\ ~(n <= n - 1)
    BY <1>1, <2>3, <2>4
  <2>6. Good(n - 1)
    BY <2>2, <2>5
  <2>7. QED
    BY <1>4, <2>3, <2>4, <2>6
<1>6. m \in 0..m
  BY <1>1
<1>7. Good(m)
  <2> HIDE DEF Good
  <2>1. QED
    BY <1>5, <1>6
<1>8. QED
  BY <1>2, <1>7 DEF m

\* Of finitely many numbers one is the greatest.
LEMMA Greatest ==
  ASSUME NEW n \in Nat, NEW T \in SUBSET (1..n), T # {}
  PROVE  \E x \in T : \A y \in T : y <= x
<1> DEFINE U == {n - x : x \in T}
<1>1. U \in SUBSET Nat /\ U # {}
  <2>1. \A x \in T : n - x \in Nat
    OBVIOUS
  <2>2. QED
    BY <2>1
<1>2. PICK u \in U : \A v \in U : u <= v
  <2> HIDE DEF U
  <2>1. QED
    BY <1>1, Least
<1>3. PICK x \in T : u = n - x
  OBVIOUS
<1>4. \A y \in T : n - x <= n - y
  BY <1>2, <1>3
<1>5. QED
  BY <1>4

\* What follows a directory's own name
LEMMA RestOf ==
  ASSUME NEW p \in Place, NEW q \in Place
  PROVE  SubSeq(p \o q, Len(p) + 1, Len(p \o q)) = q
<1> DEFINE out == p \o q
           rest == SubSeq(out, Len(p) + 1, Len(out))
<1>1. Len(p) \in Nat /\ Len(q) \in Nat
  BY LenProperties DEF Place
<1>2. out \in Place /\ Len(out) = Len(p) + Len(q) /\ \A i \in 1..Len(q) : out[Len(p) + i] = q[i]
  BY JoinedPlace
<1> HIDE DEF out
<1>3. /\ rest \in Place
      /\ Len(rest) = IF Len(p) + 1 <= Len(out) THEN Len(out) - (Len(p) + 1) + 1 ELSE 0
      /\ \A i \in 1..(Len(out) - (Len(p) + 1) + 1) : rest[i] = out[Len(p) + 1 + i - 1]
  BY <1>1, <1>2, PartOf
<1> HIDE DEF rest
<1>4. Len(rest) = Len(q)
  BY <1>1, <1>2, <1>3
<1>5. \A i \in 1..Len(q) : rest[i] = q[i]
  <2>1. ASSUME NEW i \in 1..Len(q) PROVE rest[i] = q[i]
    <3>1. i \in 1..(Len(out) - (Len(p) + 1) + 1) /\ Len(p) + 1 + i - 1 = Len(p) + i
      BY <1>1, <1>2
    <3>2. QED
      BY <1>2, <1>3, <3>1
  <2>2. QED
    BY <2>1
<1>6. rest = q
  BY <1>3, <1>4, <1>5, SamePlace
<1>7. QED
  BY <1>6 DEF rest, out

\* The entries are those of an archive in which held is kept.
Describes(entries, held) ==
  /\ DOMAIN held = {entries[j].name : j \in 1..Len(entries)}
  /\ \A j \in 1..Len(entries) :
       (\A k \in (j + 1)..Len(entries) : entries[k].name # entries[j].name) =>
         held[entries[j].name] = entries[j].node

\* u is what an extraction into dest leaves of the tree before, if it made the destination first.
Brings(u, before, made, entries, dest, held) ==
  /\ IsTree(u) /\ Filled(u, made, entries, dest, Len(entries))
  /\ Len(entries) \in Nat /\ (\A j \in 1..Len(entries) : entries[j].name \in Place) /\ Describes(entries, held)
  /\ DOMAIN made = DOMAIN before \cup Paths!Prefixes(dest)
  /\ \A q \in Paths!Prefixes(dest) : made[q] = Dir
  /\ \A q \in DOMAIN before : made[q] = before[q]

\* Then it leaves what Unpacked says.
LEMMA UnpackedIs ==
  ASSUME NEW u, NEW before, NEW made, NEW entries, NEW dest \in Place, NEW held,
         Brings(u, before, made, entries, dest, held)
  PROVE  u = Unpacked(before, dest, held)
<1> DEFINE m == Len(entries)
           out(j) == Out(entries, dest, j)
           files == [p \in {dest \o q : q \in DOMAIN held} |-> held[SubSeq(p, Len(dest) + 1, Len(p))]]
           dirs == [p \in UNION {Paths!Prefixes(dest \o q) : q \in DOMAIN held \cup {<<>>}} |-> Dir]
           w == Unpacked(before, dest, held)
<1>1. m \in Nat /\ \A j \in 1..m : entries[j].name \in Place
  BY DEF Brings
<1>2. /\ DOMAIN made = DOMAIN before \cup Paths!Prefixes(dest)
      /\ \A q \in Paths!Prefixes(dest) : made[q] = Dir
      /\ \A q \in DOMAIN before : made[q] = before[q]
      /\ IsTree(u)
  BY DEF Brings
<1>3. DOMAIN held = {entries[j].name : j \in 1..m}
  BY DEF Brings, Describes
<1>4. \A j \in 1..m : (\A k \in (j + 1)..m : entries[k].name # entries[j].name) => held[entries[j].name] = entries[j].node
  BY DEF Brings, Describes
<1>5. /\ DOMAIN u = DOMAIN made \cup UNION {Paths!Prefixes(out(j)) : j \in 1..m}
      /\ \A j \in 1..m : (\A k \in (j + 1)..m : out(k) # out(j)) => u[out(j)] = entries[j].node
      /\ \A p \in DOMAIN u :
           (\A j \in 1..m : out(j) # p) =>
             /\ (\E j \in 1..m : p \in Paths!Prefixes(out(j))) => u[p] = Dir
             /\ ~(\E j \in 1..m : p \in Paths!Prefixes(out(j))) => u[p] = made[p]
  BY DEF Brings, Filled
<1>6. w = (files \uplus dirs) \uplus before
  BY DEF Unpacked
<1>7. \A j \in 1..m : out(j) = dest \o entries[j].name
  BY DEF Out
<1> HIDE DEF m, out
<1>8. dest \o <<>> = dest
  BY LenProperties, ConcatProperties, EmptySeq DEF Place
<1>9. /\ \A q \in DOMAIN held : \E j \in 1..m : dest \o q = out(j)
      /\ \A j \in 1..m : \E q \in DOMAIN held : out(j) = dest \o q
  BY <1>3, <1>7
<1>10. DOMAIN files = {out(j) : j \in 1..m}
  <2>1. DOMAIN files = {dest \o q : q \in DOMAIN held}
    OBVIOUS
  <2>2. QED
    BY <1>9, <2>1
<1>11. DOMAIN dirs = Paths!Prefixes(dest) \cup UNION {Paths!Prefixes(out(j)) : j \in 1..m}
  <2>1. DOMAIN dirs = UNION {Paths!Prefixes(dest \o q) : q \in DOMAIN held \cup {<<>>}}
    OBVIOUS
  <2> HIDE DEF dirs
  <2>2. \A x : (\E q \in DOMAIN held \cup {<<>>} : x \in Paths!Prefixes(dest \o q))
                 <=> x \in Paths!Prefixes(dest) \/ \E j \in 1..m : x \in Paths!Prefixes(out(j))
    <3>1. ASSUME NEW x, NEW q \in DOMAIN held \cup {<<>>}, x \in Paths!Prefixes(dest \o q)
          PROVE  x \in Paths!Prefixes(dest) \/ \E j \in 1..m : x \in Paths!Prefixes(out(j))
      BY <1>8, <1>9, <3>1
    <3>2. ASSUME NEW x, x \in Paths!Prefixes(dest)
          PROVE  \E q \in DOMAIN held \cup {<<>>} : x \in Paths!Prefixes(dest \o q)
      BY <1>8, <3>2
    <3>3. ASSUME NEW x, NEW j \in 1..m, x \in Paths!Prefixes(out(j))
          PROVE  \E q \in DOMAIN held \cup {<<>>} : x \in Paths!Prefixes(dest \o q)
      BY <1>9, <3>3
    <3>4. QED
      BY <3>1, <3>2, <3>3
  <2>3. QED
    BY <2>1, <2>2
<1>12. \A p \in DOMAIN dirs : dirs[p] = Dir
  OBVIOUS
<1>13. \A j \in 1..m : files[out(j)] = held[entries[j].name]
  <2>1. SUFFICES ASSUME NEW j \in 1..m PROVE files[out(j)] = held[entries[j].name]
    OBVIOUS
  <2>2. out(j) \in DOMAIN files
    BY <1>10
  <2>3. SubSeq(out(j), Len(dest) + 1, Len(out(j))) = entries[j].name
    BY <1>1, <1>7, RestOf
  <2>4. QED
    BY <2>2, <2>3
<1> HIDE DEF files, dirs, w
<1>14. /\ DOMAIN w = DOMAIN files \cup DOMAIN dirs \cup DOMAIN before
       /\ \A x \in DOMAIN files : w[x] = files[x]
       /\ \A x \in DOMAIN dirs : x \notin DOMAIN files => w[x] = dirs[x]
       /\ \A x \in DOMAIN before : x \notin DOMAIN files \cup DOMAIN dirs => w[x] = before[x]
  BY <1>6 DEF \uplus
<1>15. w = [p \in DOMAIN w |-> w[p]] /\ u = [p \in DOMAIN u |-> u[p]]
  BY <1>2, <1>6, OverrideIsFunction, TreeIs
<1>16. \A j \in 1..m : out(j) \in Paths!Prefixes(out(j))
  BY <1>1, <1>7, JoinedPlace, PrefixesIs
<1>17. DOMAIN u = DOMAIN w
  BY <1>2, <1>5, <1>10, <1>11, <1>14, <1>16
<1>18. ASSUME NEW p \in DOMAIN w PROVE u[p] = w[p]
  <2>1. CASE p \in DOMAIN files
    <3> DEFINE same == {j \in 1..m : out(j) = p}
    <3>1. same # {} /\ same \in SUBSET (1..m)
      BY <1>10, <2>1
    <3>2. PICK j \in same : \A k \in same : k <= j
      <4> HIDE DEF same
      <4>1. QED
        BY <1>1, <3>1, Greatest
    <3>3. \A k \in (j + 1)..m : out(k) # out(j)
      <4>1. ASSUME NEW k \in (j + 1)..m PROVE k \in 1..m /\ ~(k <= j)
        BY <1>1, <3>2
      <4>2. QED
        BY <3>2, <4>1
    <3>4. \A k \in (j + 1)..m : k \in 1..m
      BY <1>1, <3>2
    <3>5. \A k \in (j + 1)..m : entries[k].name # entries[j].name
      BY <1>7, <3>2, <3>3, <3>4
    <3>6. u[p] = entries[j].node /\ files[p] = entries[j].node
      BY <1>4, <1>5, <1>13, <3>2, <3>3, <3>5
    <3>7. QED
      BY <1>14, <2>1, <3>6
  <2>2. CASE p \notin DOMAIN files /\ p \in DOMAIN dirs
    <3>1. \A j \in 1..m : out(j) # p
      BY <1>10, <2>2
    <3>2. u[p] = Dir
      <4>1. CASE \E j \in 1..m : p \in Paths!Prefixes(out(j))
        BY <1>5, <1>17, <3>1, <4>1
      <4>2. CASE ~\E j \in 1..m : p \in Paths!Prefixes(out(j))
        <5>1. p \in Paths!Prefixes(dest)
          BY <1>11, <2>2, <4>2
        <5>2. QED
          BY <1>2, <1>5, <1>17, <3>1, <4>2, <5>1
      <4>3. QED
        BY <4>1, <4>2
    <3>3. QED
      BY <1>12, <1>14, <2>2, <3>2
  <2>3. CASE p \notin DOMAIN files /\ p \notin DOMAIN dirs
    <3>1. p \in DOMAIN before
      BY <1>14, <2>3
    <3>2. (\A j \in 1..m : out(j) # p) /\ ~\E j \in 1..m : p \in Paths!Prefixes(out(j))
      BY <1>10, <1>11, <2>3
    <3>3. u[p] = made[p]
      BY <1>5, <1>17, <3>2
    <3>4. QED
      BY <1>2, <1>14, <2>3, <3>1, <3>3
  <2>4. QED
    BY <2>1, <2>2, <2>3
<1>19. u = w
  BY <1>15, <1>17, <1>18
<1>20. QED
  BY <1>19 DEF w

--------------------------------------------------------------------------------
(* The walk of a directory *)
\* The first n names of two places are the same.
Alike(p, q, n) == \A i \in 1..n : p[i] = q[i]
\* They differ first in their name n.
Parts(p, q, n) == n \in 1..Len(p) /\ n \in 1..Len(q) /\ Alike(p, q, n - 1) /\ p[n] < q[n]

\* The order of a walk, said with the first name that differs
LEMMA BeforeIs ==
  ASSUME NEW p \in Place, NEW q \in Place
  PROVE  Before(p, q) <=> (Begins(p, q) /\ p # q) \/ \E n \in Nat : Parts(p, q, n)
<1>1. Len(p) \in Nat /\ Len(q) \in Nat
  BY LenProperties DEF Place
<1>2. Paths!IsStrictPrefix(p, q) <=> Begins(p, q) /\ p # q
  BY BeginsIs DEF Paths!IsStrictPrefix
<1>3. ASSUME NEW n \in 1..Len(p), n <= Len(q)
      PROVE  SubSeq(p, 1, n - 1) = SubSeq(q, 1, n - 1) <=> Alike(p, q, n - 1)
  <2> DEFINE a == SubSeq(p, 1, n - 1)
             b == SubSeq(q, 1, n - 1)
  <2>1. n - 1 \in Int /\ n - 1 <= Len(p) /\ n - 1 <= Len(q)
    BY <1>1, <1>3
  <2>2. /\ a \in Place /\ Len(a) = IF 1 <= n - 1 THEN n - 1 - 1 + 1 ELSE 0
        /\ \A i \in 1..(n - 1 - 1 + 1) : a[i] = p[1 + i - 1]
    BY <2>1, PartOf
  <2>3. /\ b \in Place /\ Len(b) = IF 1 <= n - 1 THEN n - 1 - 1 + 1 ELSE 0
        /\ \A i \in 1..(n - 1 - 1 + 1) : b[i] = q[1 + i - 1]
    BY <2>1, PartOf
  <2> HIDE DEF a, b
  <2>4. Len(a) = n - 1 /\ Len(b) = n - 1
    <3>1. 1 <= n - 1 \/ n - 1 = 0
      BY <1>3
    <3>2. QED
      BY <2>1, <2>2, <2>3, <3>1
  <2>5. \A i \in 1..(n - 1) : a[i] = p[i] /\ b[i] = q[i]
    <3>1. SUFFICES ASSUME NEW i \in 1..(n - 1) PROVE a[i] = p[i] /\ b[i] = q[i]
      OBVIOUS
    <3>2. i \in 1..(n - 1 - 1 + 1) /\ 1 + i - 1 = i
      BY <2>1
    <3>3. QED
      BY <2>2, <2>3, <3>2
  <2>6. Alike(p, q, n - 1) => a = b
    BY <2>2, <2>3, <2>4, <2>5, SamePlace DEF Alike
  <2>7. a = b => Alike(p, q, n - 1)
    BY <2>5 DEF Alike
  <2>8. QED
    BY <2>6, <2>7 DEF a, b
<1>4. (\E n \in 1..Len(p) : n <= Len(q) /\ SubSeq(p, 1, n - 1) = SubSeq(q, 1, n - 1) /\ p[n] < q[n])
        <=> \E n \in Nat : Parts(p, q, n)
  <2>1. ASSUME NEW n \in 1..Len(p), n <= Len(q), SubSeq(p, 1, n - 1) = SubSeq(q, 1, n - 1), p[n] < q[n]
        PROVE  \E k \in Nat : Parts(p, q, k)
    <3>1. n \in Nat /\ n \in 1..Len(q)
      BY <1>1, <2>1
    <3>2. QED
      BY <1>3, <2>1, <3>1 DEF Parts
  <2>2. ASSUME NEW n \in Nat, Parts(p, q, n)
        PROVE  n \in 1..Len(p) /\ n <= Len(q) /\ SubSeq(p, 1, n - 1) = SubSeq(q, 1, n - 1) /\ p[n] < q[n]
    BY <1>1, <1>3, <2>2 DEF Parts
  <2>3. QED
    BY <2>1, <2>2
<1>5. QED
  BY <1>2, <1>4 DEF Before

\* It is a strict order in which any two places are comparable.
LEMMA BeforeOrders ==
  ASSUME NEW p \in Place, NEW q \in Place, NEW r \in Place
  PROVE  /\ ~Before(p, p)
         /\ Before(p, q) /\ Before(q, r) => Before(p, r)
         /\ p = q \/ Before(p, q) \/ Before(q, p)
<1>1. /\ Len(p) \in Nat /\ Len(q) \in Nat /\ Len(r) \in Nat
      /\ \A i \in 1..Len(p) : p[i] \in Nat
      /\ \A i \in 1..Len(q) : q[i] \in Nat
      /\ \A i \in 1..Len(r) : r[i] \in Nat
  BY LenProperties, ElementOfSeq DEF Place
<1>2. ~Before(p, p)
  <2>1. \A n \in Nat : ~Parts(p, p, n)
    BY <1>1 DEF Parts
  <2>2. QED
    BY <2>1, BeforeIs
<1>3. ASSUME Before(p, q), Before(q, r) PROVE Before(p, r)
  <2>1. Before(p, r) <=> (Begins(p, r) /\ p # r) \/ \E n \in Nat : Parts(p, r, n)
    BY BeforeIs
  <2>2. (Begins(p, q) /\ p # q) \/ \E n \in Nat : Parts(p, q, n)
    BY <1>3, BeforeIs
  <2>3. (Begins(q, r) /\ q # r) \/ \E n \in Nat : Parts(q, r, n)
    BY <1>3, BeforeIs
  <2>4. CASE Begins(p, q) /\ p # q /\ Begins(q, r) /\ q # r
    <3>1. Begins(p, r)
      BY <2>4, BeginsTransitive
    <3>2. p # r
      <4>1. SUFFICES ASSUME p = r PROVE FALSE
        OBVIOUS
      <4>2. Len(p) = Len(q) /\ \A i \in 1..Len(p) : p[i] = q[i]
        BY <1>1, <2>4, <4>1 DEF Begins
      <4>3. QED
        BY <2>4, <4>2, SamePlace
    <3>3. QED
      BY <2>1, <3>1, <3>2
  <2>5. ASSUME Begins(p, q), p # q, NEW n \in Nat, Parts(q, r, n) PROVE Before(p, r)
    <3>1. CASE n <= Len(p)
      <4>1. Parts(p, r, n)
        <5>1. n \in 1..Len(p) /\ \A i \in 1..(n - 1) : i \in 1..Len(p) /\ i \in 1..n
          BY <1>1, <2>5, <3>1 DEF Parts
        <5>2. QED
          BY <1>1, <2>5, <5>1 DEF Parts, Begins, Alike
      <4>2. QED
        BY <2>1, <4>1
    <3>2. CASE ~(n <= Len(p))
      <4>1. Len(p) < Len(r) /\ \A i \in 1..Len(p) : i \in 1..(n - 1)
        BY <1>1, <2>5, <3>2 DEF Parts
      <4>2. Begins(p, r)
        BY <1>1, <2>5, <4>1 DEF Parts, Begins, Alike
      <4>3. p # r
        BY <1>1, <4>1
      <4>4. QED
        BY <2>1, <4>2, <4>3
    <3>3. QED
      BY <3>1, <3>2
  <2>6. ASSUME NEW n \in Nat, Parts(p, q, n), Begins(q, r) PROVE Before(p, r)
    <3>1. n \in 1..Len(r) /\ \A i \in 1..(n - 1) : i \in 1..Len(q)
      BY <1>1, <2>6 DEF Parts, Begins
    <3>2. Parts(p, r, n)
      BY <1>1, <2>6, <3>1 DEF Parts, Begins, Alike
    <3>3. QED
      BY <2>1, <3>2
  <2>7. ASSUME NEW n \in Nat, Parts(p, q, n), NEW m \in Nat, Parts(q, r, m) PROVE Before(p, r)
    <3>1. /\ n \in 1..Len(p) /\ n \in 1..Len(q) /\ p[n] < q[n] /\ (\A i \in 1..(n - 1) : p[i] = q[i])
          /\ m \in 1..Len(q) /\ m \in 1..Len(r) /\ q[m] < r[m] /\ (\A i \in 1..(m - 1) : q[i] = r[i])
      BY <2>7 DEF Parts, Alike
    <3>2. CASE n < m
      <4>1. n \in 1..(m - 1) /\ n \in 1..Len(r) /\ \A i \in 1..(n - 1) : i \in 1..(m - 1)
        BY <1>1, <3>1, <3>2
      <4>2. Parts(p, r, n)
        BY <3>1, <4>1 DEF Parts, Alike
      <4>3. QED
        BY <2>1, <4>2
    <3>3. CASE m < n
      <4>1. m \in 1..(n - 1) /\ m \in 1..Len(p) /\ \A i \in 1..(m - 1) : i \in 1..(n - 1)
        BY <1>1, <3>1, <3>3
      <4>2. Parts(p, r, m)
        BY <3>1, <4>1 DEF Parts, Alike
      <4>3. QED
        BY <2>1, <4>2
    <3>4. CASE m = n
      <4>1. p[n] < r[n]
        BY <1>1, <3>1, <3>4
      <4>2. Parts(p, r, n)
        BY <3>1, <3>4, <4>1 DEF Parts, Alike
      <4>3. QED
        BY <2>1, <4>2
    <3>5. QED
      BY <3>2, <3>3, <3>4
  <2>8. QED
    BY <2>2, <2>3, <2>4, <2>5, <2>6, <2>7
<1>4. ASSUME p # q PROVE Before(p, q) \/ Before(q, p)
  <2>1. /\ Before(p, q) <=> (Begins(p, q) /\ p # q) \/ \E n \in Nat : Parts(p, q, n)
        /\ Before(q, p) <=> (Begins(q, p) /\ q # p) \/ \E n \in Nat : Parts(q, p, n)
    BY BeforeIs
  <2> DEFINE differing == {n \in Nat : n \in 1..Len(p) /\ n \in 1..Len(q) /\ p[n] # q[n]}
  <2>2. CASE differing = {}
    <3>1. Begins(p, q) \/ Begins(q, p)
      <4>1. \A i \in Nat : i \in 1..Len(p) /\ i \in 1..Len(q) => p[i] = q[i]
        BY <2>2
      <4>2. CASE Len(p) <= Len(q)
        <5>1. \A i \in 1..Len(p) : i \in Nat /\ i \in 1..Len(q)
          BY <1>1, <4>2
        <5>2. QED
          BY <4>1, <4>2, <5>1 DEF Begins
      <4>3. CASE Len(q) <= Len(p)
        <5>1. \A i \in 1..Len(q) : i \in Nat /\ i \in 1..Len(p)
          BY <1>1, <4>3
        <5>2. QED
          BY <4>1, <4>3, <5>1 DEF Begins
      <4>4. QED
        BY <1>1, <4>2, <4>3
    <3>2. QED
      BY <1>4, <2>1, <3>1
  <2>3. CASE differing # {}
    <3>1. PICK n \in differing : \A k \in differing : n <= k
      <4>1. differing \in SUBSET Nat
        OBVIOUS
      <4> HIDE DEF differing
      <4>2. QED
        BY <2>3, <4>1, Least
    <3>2. n \in Nat /\ n \in 1..Len(p) /\ n \in 1..Len(q) /\ p[n] # q[n]
      OBVIOUS
    <3>3. \A i \in 1..(n - 1) : p[i] = q[i]
      <4>1. SUFFICES ASSUME NEW i \in 1..(n - 1), p[i] # q[i] PROVE FALSE
        OBVIOUS
      <4>2. i \in Nat /\ i \in 1..Len(p) /\ i \in 1..Len(q) /\ ~(n <= i)
        BY <1>1, <3>2
      <4>3. i \in differing
        BY <4>1, <4>2
      <4> HIDE DEF differing
      <4>4. QED
        BY <3>1, <4>2, <4>3
    <3>4. p[n] < q[n] \/ q[n] < p[n]
      BY <1>1, <3>2
    <3>5. Parts(p, q, n) \/ Parts(q, p, n)
      BY <3>2, <3>3, <3>4 DEF Parts, Alike
    <3>6. QED
      BY <2>1, <3>2, <3>5
  <2>4. QED
    BY <2>2, <2>3
<1>5. QED
  BY <1>2, <1>3, <1>4

\* A walk visits each of finitely many places once.
LEMMA WalkVisits ==
  ASSUME NEW S \in SUBSET Place, IsFiniteSet(S)
  PROVE  /\ Len(Walk(S)) = Cardinality(S) /\ Cardinality(S) \in Nat
         /\ \A k \in 1..Cardinality(S) : Walk(S)[k] \in S
         /\ \A p \in S : \E k \in 1..Cardinality(S) : Walk(S)[k] = p
         /\ \A j, k \in 1..Cardinality(S) : Walk(S)[j] = Walk(S)[k] => j = k
<1> DEFINE n == Cardinality(S)
           upto(p) == {q \in S : q = p \/ Before(q, p)}
           rank == [p \in S |-> Cardinality(upto(p))]
<1>1. n \in Nat /\ IsFiniteSet(1..n) /\ Cardinality(1..n) = n
  <2>1. n \in Nat
    BY FS_CardinalityType
  <2> HIDE DEF n
  <2>2. IsFiniteSet(1..n) /\ Cardinality(1..n) = IF 1 > n THEN 0 ELSE n - 1 + 1
    BY <2>1, FS_Interval
  <2>3. QED
    BY <2>1, <2>2
<1>2. ASSUME NEW p \in S
      PROVE  p \in upto(p) /\ IsFiniteSet(upto(p)) /\ Cardinality(upto(p)) \in 1..n
  <2>1. p \in upto(p) /\ upto(p) \in SUBSET S
    OBVIOUS
  <2> HIDE DEF upto
  <2>2. IsFiniteSet(upto(p)) /\ Cardinality(upto(p)) <= Cardinality(S)
    BY <2>1, FS_Subset
  <2>3. Cardinality(upto(p)) \in Nat /\ Cardinality(upto(p)) # 0
    BY <2>1, <2>2, FS_CardinalityType, FS_EmptySet
  <2>4. QED
    BY <1>1, <2>1, <2>2, <2>3
<1>3. ASSUME NEW p \in S, NEW q \in S, Before(p, q) PROVE Cardinality(upto(p)) # Cardinality(upto(q))
  <2>1. upto(p) \in SUBSET upto(q)
    <3>1. ASSUME NEW x \in S, x = p \/ Before(x, p) PROVE Before(x, q)
      BY <1>3, <3>1, BeforeOrders
    <3>2. QED
      BY <3>1
  <2>2. q \in upto(q) /\ q \notin upto(p)
    <3>1. q # p /\ ~Before(q, p)
      BY <1>3, BeforeOrders
    <3>2. QED
      BY <3>1
  <2>3. IsFiniteSet(upto(q))
    BY <1>2
  <2> HIDE DEF upto
  <2>4. QED
    BY <2>1, <2>2, <2>3, FS_Subset
<1>4. rank \in Injection(S, 1..n)
  <2>1. rank \in [S -> 1..n]
    BY <1>2
  <2>2. \A p, q \in S : rank[p] = rank[q] => p = q
    <3>1. ASSUME NEW p \in S, NEW q \in S, p # q PROVE Cardinality(upto(p)) # Cardinality(upto(q))
      <4>1. Before(p, q) \/ Before(q, p)
        BY <3>1, BeforeOrders
      <4> HIDE DEF upto
      <4>2. QED
        BY <1>3, <4>1
    <3> HIDE DEF upto
    <3>2. QED
      BY <3>1
  <2> HIDE DEF rank, n
  <2>3. QED
    BY <2>1, <2>2 DEF Injection, IsInjective
<1>5. \A k \in 1..n : \E p \in S : rank[p] = k
  <2>1. Cardinality(S) = Cardinality(1..n)
    BY <1>1
  <2> HIDE DEF rank, n
  <2>2. rank \in Surjection(S, 1..n)
    BY <1>1, <1>4, <2>1, FS_Injection
  <2>3. QED
    BY <2>2 DEF Surjection
<1>6. \A p, q \in S : rank[p] = rank[q] => p = q
  <2> HIDE DEF rank, n
  <2>1. QED
    BY <1>4 DEF Injection, IsInjective
<1>7. Walk(S) = [k \in 1..n |-> CHOOSE p \in S : Cardinality(upto(p)) = k]
  BY DEF Walk
<1>8. \A k \in 1..n : Walk(S)[k] \in S /\ rank[Walk(S)[k]] = k
  <2>1. SUFFICES ASSUME NEW k \in 1..n PROVE Walk(S)[k] \in S /\ rank[Walk(S)[k]] = k
    OBVIOUS
  <2>2. \E p \in S : Cardinality(upto(p)) = k
    BY <1>5
  <2>3. Walk(S)[k] = CHOOSE p \in S : Cardinality(upto(p)) = k
    BY <1>7
  <2> HIDE DEF n, upto
  <2>4. QED
    BY <2>2, <2>3
<1>9. Len(Walk(S)) = n
  BY <1>1, <1>7
<1>10. \A p \in S : rank[p] \in 1..n
  BY <1>2
<1> HIDE DEF rank, upto
<1>11. \A p \in S : Walk(S)[rank[p]] = p
  BY <1>6, <1>8, <1>10
<1>12. QED
  BY <1>1, <1>8, <1>9, <1>10, <1>11

--------------------------------------------------------------------------------
(* What the entries of a source say *)
\* What is below a directory is the directory with a name relative to it.
Rest(p, q) == SubSeq(q, Len(p) + 1, Len(q))

\* A place is what begins it with its rest.
LEMMA RestIs ==
  ASSUME NEW p \in Place, NEW q \in Place, Begins(p, q)
  PROVE  Rest(p, q) \in Place /\ p \o Rest(p, q) = q
<1> DEFINE r == Rest(p, q)
<1>1. Len(p) \in Nat /\ Len(q) \in Nat /\ Len(p) <= Len(q) /\ \A i \in 1..Len(p) : p[i] = q[i]
  BY LenProperties DEF Place, Begins
<1>2. /\ r \in Place
      /\ Len(r) = IF Len(p) + 1 <= Len(q) THEN Len(q) - (Len(p) + 1) + 1 ELSE 0
      /\ \A i \in 1..(Len(q) - (Len(p) + 1) + 1) : r[i] = q[Len(p) + 1 + i - 1]
  BY <1>1, PartOf DEF Rest
<1> HIDE DEF r
<1>3. Len(r) = Len(q) - Len(p)
  BY <1>1, <1>2
<1>4. \A i \in 1..Len(r) : r[i] = q[Len(p) + i]
  <2>1. SUFFICES ASSUME NEW i \in 1..Len(r) PROVE r[i] = q[Len(p) + i]
    OBVIOUS
  <2>2. i \in 1..(Len(q) - (Len(p) + 1) + 1) /\ Len(p) + 1 + i - 1 = Len(p) + i
    BY <1>1, <1>3
  <2>3. QED
    BY <1>2, <2>2
<1>5. /\ p \o r \in Place /\ Len(p \o r) = Len(p) + Len(r)
      /\ \A i \in 1..Len(p) : (p \o r)[i] = p[i]
      /\ \A i \in 1..Len(r) : (p \o r)[Len(p) + i] = r[i]
  BY <1>2, JoinedPlace
<1> DEFINE pr == p \o r
<1> HIDE DEF pr
<1>6. pr \in Place /\ Len(pr) = Len(q) /\ \A i \in 1..Len(pr) : pr[i] = q[i]
  <2>1. Len(pr) = Len(q)
    BY <1>1, <1>3, <1>5 DEF pr
  <2>2. ASSUME NEW i \in 1..Len(q) PROVE pr[i] = q[i]
    <3>1. CASE i \in 1..Len(p)
      BY <1>1, <1>5, <3>1 DEF pr
    <3>2. CASE i \notin 1..Len(p)
      <4>1. PICK k \in 1..Len(r) : i = Len(p) + k
        <5>1. i - Len(p) \in 1..Len(r) /\ i = Len(p) + (i - Len(p))
          BY <1>1, <1>3, <3>2
        <5>2. QED
          BY <5>1
      <4>2. QED
        BY <1>4, <1>5, <4>1 DEF pr
    <3>3. QED
      BY <3>1, <3>2
  <2>3. QED
    BY <1>5, <2>1, <2>2 DEF pr
<1>7. pr = q
  BY <1>6, SamePlace
<1>8. QED
  BY <1>2, <1>7 DEF r, pr

\* The same place relative to itself, and names that are one longer
LEMMA RestsAre ==
  ASSUME NEW p \in Place, NEW q \in Place, NEW x \in Nat
  PROVE  /\ Rest(p, p) = <<>> /\ Rest(p, p \o q) = q
         /\ <<x>> \in Place /\ <<x>> \o q \in Place /\ <<x>> \o <<>> = <<x>>
         /\ SubSeq(<<x>> \o q, 2, Len(<<x>> \o q)) = q /\ SubSeq(<<x>>, 2, Len(<<x>>)) = <<>>
         /\ p \o <<>> = p /\ <<>> \o p = p
<1>1. <<>> \in Place /\ Len(<<>>) = 0
  BY EmptySeq DEF Place
<1>2. p \o <<>> = p /\ <<>> \o p = p
  BY ConcatEmptySeq DEF Place
<1>3. Rest(p, p \o <<>>) = <<>>
  BY <1>1, RestOf DEF Rest
<1>4. Rest(p, p \o q) = q
  BY RestOf DEF Rest
<1> DEFINE name == <<x>>
<1>5. name \in Place /\ Len(name) = 1
  BY DEF Place
<1> HIDE DEF name
<1>6. name \o q \in Place
  BY <1>5, JoinedPlace
<1>7. name \o <<>> = name
  BY <1>5, ConcatEmptySeq DEF Place
<1>8. Rest(name, name \o q) = q /\ Rest(name, name \o <<>>) = <<>>
  BY <1>1, <1>5, RestOf DEF Rest
<1>9. Len(name) + 1 = 2
  BY <1>5
<1>10. SubSeq(name \o q, 2, Len(name \o q)) = q /\ SubSeq(name, 2, Len(name)) = <<>>
  BY <1>7, <1>8, <1>9 DEF Rest
<1>11. QED
  BY <1>2, <1>3, <1>4, <1>5, <1>6, <1>7, <1>10 DEF name

\* One sequence, or two, laid end to end
LEMMA FlattenOne ==
  ASSUME NEW a
  PROVE  Paths!FlattenSeq(<<a>>) = a
<1> DEFINE seqs == <<a>>
           g == [i \in 1..Len(seqs) |-> a]
<1>1. Len(seqs) = 1 /\ seqs[1] = a
  OBVIOUS
<1>2. g = [i \in 1..Len(seqs) |-> IF i = 1 THEN seqs[i] ELSE g[i - 1] \o seqs[i]]
  <2>1. \A i \in 1..Len(seqs) : i = 1
    BY <1>1
  <2>2. QED
    BY <1>1, <2>1
<1>3. g[1] = a
  BY <1>1
<1> HIDE DEF seqs, g
<1>4. Len(seqs) \in Nat /\ Len(seqs) > 0
  BY <1>1
<1>5. Paths!FlattenSeq(seqs) = g[Len(seqs)]
  BY <1>2, <1>4, FlattenIs
<1>6. QED
  BY <1>1, <1>3, <1>5 DEF seqs

LEMMA FlattenTwo ==
  ASSUME NEW a, NEW b
  PROVE  Paths!FlattenSeq(<<a, b>>) = a \o b
<1> DEFINE seqs == <<a, b>>
           g == [i \in 1..Len(seqs) |-> IF i = 1 THEN a ELSE a \o b]
<1>1. Len(seqs) = 2 /\ seqs[1] = a /\ seqs[2] = b
  OBVIOUS
<1>2. g = [i \in 1..Len(seqs) |-> IF i = 1 THEN seqs[i] ELSE g[i - 1] \o seqs[i]]
  <2>1. \A i \in 1..Len(seqs) : i = 1 \/ (i = 2 /\ i - 1 = 1)
    BY <1>1
  <2>2. 1 \in 1..Len(seqs) /\ g[1] = a
    BY <1>1
  <2>3. QED
    BY <1>1, <2>1, <2>2
<1>3. g[2] = a \o b
  BY <1>1
<1> HIDE DEF seqs, g
<1>4. Len(seqs) \in Nat /\ Len(seqs) > 0
  BY <1>1
<1>5. Paths!FlattenSeq(seqs) = g[Len(seqs)]
  BY <1>2, <1>4, FlattenIs
<1>6. QED
  BY <1>1, <1>3, <1>5 DEF seqs

\* The entries are what held says, one for each name.
Lists(entries, held) ==
  /\ DOMAIN held = {entries[j].name : j \in 1..Len(entries)}
  /\ \A j \in 1..Len(entries) : held[entries[j].name] = entries[j].node
\* A source's own name
Own(source) == <<Paths!Last(source)>>

\* What is below a directory of a tree is finite.
LEMMA BelowIs ==
  ASSUME NEW t, IsTree(t), NEW dir \in Place
  PROVE  /\ Below(t, dir) = {p \in DOMAIN t : Begins(dir, p) /\ p # dir}
         /\ Below(t, dir) \in SUBSET Place /\ IsFiniteSet(Below(t, dir))
<1>1. IsFiniteSet(DOMAIN t) /\ DOMAIN t \subseteq Place
  BY TreeIs
<1>2. Below(t, dir) = {p \in DOMAIN t : Begins(dir, p) /\ p # dir}
  BY <1>1, BeginsIs DEF Below, Paths!IsStrictPrefix
<1>3. IsFiniteSet(Below(t, dir))
  <2>1. Below(t, dir) \in SUBSET DOMAIN t
    BY <1>2
  <2>2. IsFiniteSet(DOMAIN t)
    BY <1>1
  <2>3. QED
    BY <2>1, <2>2, FS_Subset
<1>4. QED
  BY <1>1, <1>2, <1>3

\* The entries of a directory: one for each place below it
OfDir(entries, t, dir, prefix) ==
  /\ \A j \in 1..Len(entries) :
       \E q \in Below(t, dir) : entries[j].name = prefix \o Rest(dir, q) /\ entries[j].node = t[q]
  /\ \A q \in Below(t, dir) :
       \E j \in 1..Len(entries) : entries[j].name = prefix \o Rest(dir, q) /\ entries[j].node = t[q]

\* Such are the entries that a walk finds.
LEMMA AddDirIs ==
  ASSUME NEW nodes, NEW t, IsTree(t), Within(t, nodes), NEW dir \in Place, NEW prefix \in Place
  PROVE  /\ add_dir_to_zip(t, dir, prefix) \in Entries(nodes)
         /\ OfDir(add_dir_to_zip(t, dir, prefix), t, dir, prefix)
<1> DEFINE S == Below(t, dir)
           walk == Walk(S)
           entries == add_dir_to_zip(t, dir, prefix)
           n == Cardinality(S)
<1>1. S \in SUBSET Place /\ IsFiniteSet(S) /\ \A q \in S : q \in DOMAIN t /\ Begins(dir, q)
  BY BelowIs
<1> HIDE DEF S
<1>2. /\ Len(walk) = n /\ n \in Nat
      /\ \A k \in 1..n : walk[k] \in S
      /\ \A p \in S : \E k \in 1..n : walk[k] = p
  BY <1>1, WalkVisits
<1>3. DOMAIN walk = 1..n
  BY DEF Walk
<1>4. entries = [i \in DOMAIN walk |-> Entry(prefix \o Rest(dir, walk[i]), t[walk[i]])]
  BY DEF add_dir_to_zip, Rest, S
<1> HIDE DEF walk, entries, n
<1>5. entries = [i \in 1..n |-> Entry(prefix \o Rest(dir, walk[i]), t[walk[i]])]
  BY <1>3, <1>4
<1>6. \A q \in S : prefix \o Rest(dir, q) \in Place /\ t[q] \in nodes
  <2>1. ASSUME NEW q \in S PROVE prefix \o Rest(dir, q) \in Place
    <3>1. q \in Place /\ Begins(dir, q)
      BY <1>1
    <3>2. Rest(dir, q) \in Place
      BY <3>1, RestIs
    <3>3. QED
      BY <3>2, JoinedPlace
  <2>2. QED
    BY <1>1, <2>1 DEF Within
<1>7. \A j \in 1..n : /\ entries[j] \in [name : Seq(Nat), node : nodes]
                      /\ entries[j].name = prefix \o Rest(dir, walk[j]) /\ entries[j].node = t[walk[j]]
  <2>1. SUFFICES ASSUME NEW j \in 1..n
                 PROVE  /\ entries[j] \in [name : Seq(Nat), node : nodes]
                        /\ entries[j].name = prefix \o Rest(dir, walk[j]) /\ entries[j].node = t[walk[j]]
    OBVIOUS
  <2>2. prefix \o Rest(dir, walk[j]) \in Place /\ t[walk[j]] \in nodes
    BY <1>2, <1>6
  <2>3. entries[j] = Entry(prefix \o Rest(dir, walk[j]), t[walk[j]])
    BY <1>5
  <2>4. QED
    BY <2>2, <2>3 DEF Entry, Place
<1> DEFINE E == [name : Seq(Nat), node : nodes]
<1>8. entries \in Seq(E) /\ Len(entries) = n
  <2>1. \A j \in 1..n : entries[j] \in E
    BY <1>7
  <2> HIDE DEF E
  <2>2. entries \in [1..n -> E]
    BY <1>5, <2>1
  <2>3. QED
    BY <1>2, <2>2
<1>9. entries \in Seq([name : Seq(Nat), node : nodes]) /\ Len(entries) = n
  BY <1>8
<1>10. \A j \in 1..n : \E q \in S : entries[j].name = prefix \o Rest(dir, q) /\ entries[j].node = t[q]
  BY <1>2, <1>7
<1>11. ASSUME NEW q \in S PROVE \E j \in 1..n : entries[j].name = prefix \o Rest(dir, q) /\ entries[j].node = t[q]
  <2>1. PICK j \in 1..n : walk[j] = q
    BY <1>2
  <2>2. entries[j].name = prefix \o Rest(dir, q) /\ entries[j].node = t[q]
    BY <1>7, <2>1
  <2>3. QED
    BY <2>2
<1>12. QED
  BY <1>9, <1>10, <1>11 DEF Entries, OfDir, entries, S

\* What a source holds, by name
LEMMA NamedIs ==
  ASSUME NEW t, IsTree(t), NEW source \in Place, source # <<>>
  PROVE  /\ Own(source) \in Place
         /\ \A p \in DOMAIN Named(t, source) :
              \E q \in DOMAIN t : Begins(source, q) /\ p = Own(source) \o Rest(source, q)
         /\ \A q \in DOMAIN t : Begins(source, q) =>
              /\ Own(source) \o Rest(source, q) \in DOMAIN Named(t, source)
              /\ Named(t, source)[Own(source) \o Rest(source, q)] = t[q]
<1> DEFINE name == Own(source)
           inside == {r \in DOMAIN t : Paths!IsPrefix(source, r)}
           named == Named(t, source)
<1>1. DOMAIN t \subseteq Place
  BY TreeIs
<1>2. PICK x \in Nat : name = <<x>>
  <2>1. Len(source) \in Nat /\ Len(source) # 0
    BY LenProperties, EmptySeq DEF Place
  <2>2. source[Len(source)] \in Nat
    BY <2>1, ElementOfSeq DEF Place
  <2>3. QED
    BY <2>2 DEF Own, Paths!Last
<1>3. inside = {r \in DOMAIN t : Begins(source, r)}
  BY <1>1, BeginsIs
<1>4. named = [p \in {name \o Rest(source, q) : q \in inside} |-> t[source \o SubSeq(p, 2, Len(p))]]
  BY DEF Named, Own, Rest
<1> HIDE DEF inside, named, name
<1>5. DOMAIN named = {name \o Rest(source, q) : q \in inside}
  BY <1>4
<1>6. name \in Place
  BY <1>2, RestsAre
<1>7. ASSUME NEW q \in DOMAIN t, Begins(source, q)
      PROVE  /\ name \o Rest(source, q) \in DOMAIN named
             /\ named[name \o Rest(source, q)] = t[q]
  <2>1. Rest(source, q) \in Place /\ source \o Rest(source, q) = q
    BY <1>1, <1>7, RestIs
  <2>2. SubSeq(name \o Rest(source, q), 2, Len(name \o Rest(source, q))) = Rest(source, q)
    BY <1>2, <2>1, RestsAre
  <2>3. name \o Rest(source, q) \in {name \o Rest(source, r) : r \in inside}
    BY <1>3, <1>7
  <2>4. named[name \o Rest(source, q)] = t[source \o SubSeq(name \o Rest(source, q), 2, Len(name \o Rest(source, q)))]
    BY <1>4, <2>3
  <2>5. QED
    BY <1>5, <2>1, <2>2, <2>3, <2>4
<1>8. \A p \in DOMAIN named : \E q \in DOMAIN t : Begins(source, q) /\ p = name \o Rest(source, q)
  BY <1>3, <1>5
<1>9. QED
  BY <1>6, <1>7, <1>8 DEF named, name

\* A source that is there is listed with what it holds, by name; one that is not is missed.
LEMMA AppendedIs ==
  ASSUME NEW nodes, {Dir, Missing} \subseteq nodes, NEW t, IsTree(t), Within(t, nodes), NEW source \in Place, source # <<>>
  PROVE  /\ Appended(t, source) \in Entries(nodes)
         /\ exists(t, source) => Lists(Appended(t, source), Named(t, source))
         /\ ~exists(t, source) => \E j \in 1..Len(Appended(t, source)) : Appended(t, source)[j].node = Missing
<1> DEFINE name == Own(source)
           entries == Appended(t, source)
           E == [name : Seq(Nat), node : nodes]
           named == Named(t, source)
<1>1. /\ name \in Place
      /\ \A p \in DOMAIN named : \E q \in DOMAIN t : Begins(source, q) /\ p = name \o Rest(source, q)
      /\ \A q \in DOMAIN t : Begins(source, q) =>
           name \o Rest(source, q) \in DOMAIN named /\ named[name \o Rest(source, q)] = t[q]
  BY NamedIs
<1>2. name \o Rest(source, source) = name /\ Begins(source, source)
  <2>1. Rest(source, source) = <<>>
    BY RestsAre
  <2>2. name \o <<>> = name
    BY <1>1, RestsAre
  <2>3. QED
    BY <2>1, <2>2, PrefixesIs, BeginsIs
<1>3. /\ DOMAIN t \subseteq Place
      /\ \A p \in DOMAIN t : \A q \in Place : Begins(q, p) /\ q # p => q \in DOMAIN t /\ t[q] = Dir
  BY TreeIs
<1> HIDE DEF named
<1>4. CASE is_dir(t, source)
  <2> DEFINE below == add_dir_to_zip(t, source, name)
  <2>1. entries = <<Entry(name, Dir)>> \o below
    BY <1>4 DEF Appended, Own, is_file, is_dir, exists
  <2> HIDE DEF name, entries
  <2>2. name \in Place
    BY <1>1 DEF name
  <2>3. /\ below \in Entries(nodes)
        /\ \A j \in 1..Len(below) : \E q \in Below(t, source) : below[j].name = name \o Rest(source, q) /\ below[j].node = t[q]
        /\ \A q \in Below(t, source) : \E j \in 1..Len(below) : below[j].name = name \o Rest(source, q) /\ below[j].node = t[q]
    <3>1. below \in Entries(nodes) /\ OfDir(below, t, source, name)
      BY <2>2, AddDirIs
    <3> HIDE DEF below
    <3>2. QED
      BY <3>1 DEF OfDir
  <2>4. Below(t, source) = {p \in DOMAIN t : Begins(source, p) /\ p # source}
    BY BelowIs
  <2>5. Entry(name, Dir) \in E /\ Entry(name, Dir).name = name /\ Entry(name, Dir).node = Dir
    BY <1>1 DEF Entry, Place, name
  <2> HIDE DEF below, entries, E
  <2> DEFINE first == <<Entry(name, Dir)>>
  <2>6. first \in Seq(E) /\ Len(first) = 1 /\ first[1] = Entry(name, Dir)
    BY <2>5
  <2>7. below \in Seq(E) /\ Len(below) \in Nat
    BY <2>3, LenProperties DEF Entries, E
  <2> HIDE DEF first
  <2>8. entries \in Seq(E) /\ Len(entries) = 1 + Len(below)
        /\ \A i \in 1..(1 + Len(below)) : entries[i] = IF i <= 1 THEN first[i] ELSE below[i - 1]
    BY <2>1, <2>6, <2>7, ConcatProperties DEF first
  <2>9. entries[1] = Entry(name, Dir) /\ 1 \in 1..Len(entries)
    BY <2>6, <2>7, <2>8
  <2>10. \A j \in 1..Len(below) : j + 1 \in 1..Len(entries) /\ entries[j + 1] = below[j]
    <3>1. SUFFICES ASSUME NEW j \in 1..Len(below) PROVE j + 1 \in 1..Len(entries) /\ entries[j + 1] = below[j]
      OBVIOUS
    <3>2. j + 1 \in 1..(1 + Len(below)) /\ ~(j + 1 <= 1) /\ j + 1 - 1 = j
      BY <2>7
    <3>3. QED
      BY <2>8, <3>2
  <2>11. \A i \in 1..Len(entries) : i = 1 \/ \E j \in 1..Len(below) : entries[i] = below[j]
    <3>1. SUFFICES ASSUME NEW i \in 1..Len(entries), i # 1 PROVE \E j \in 1..Len(below) : entries[i] = below[j]
      OBVIOUS
    <3>2. i - 1 \in 1..Len(below) /\ ~(i <= 1) /\ i \in 1..(1 + Len(below))
      BY <2>7, <2>8, <3>1
    <3>3. QED
      BY <2>8, <3>2
  <2>12. source \in DOMAIN t /\ t[source] = Dir
    BY <1>4 DEF is_dir, exists
  <2>13. \A i \in 1..Len(entries) :
           \E q \in DOMAIN t : Begins(source, q) /\ entries[i].name = name \o Rest(source, q) /\ entries[i].node = t[q]
    <3>1. SUFFICES ASSUME NEW i \in 1..Len(entries)
                   PROVE  \E q \in DOMAIN t : /\ Begins(source, q)
                                              /\ entries[i].name = name \o Rest(source, q) /\ entries[i].node = t[q]
      OBVIOUS
    <3>2. CASE i = 1
      <4>1. entries[i].name = name \o Rest(source, source) /\ entries[i].node = t[source]
        BY <1>2, <2>5, <2>9, <2>12, <3>2 DEF name
      <4>2. QED
        BY <1>2, <2>12, <4>1
    <3>3. CASE i # 1
      <4>1. PICK j \in 1..Len(below) : entries[i] = below[j]
        BY <2>11, <3>3
      <4>2. PICK q \in Below(t, source) : below[j].name = name \o Rest(source, q) /\ below[j].node = t[q]
        BY <2>3
      <4>3. QED
        BY <2>4, <4>1, <4>2
    <3>4. QED
      BY <3>2, <3>3
  <2>14. \A q \in DOMAIN t : Begins(source, q) =>
           \E i \in 1..Len(entries) : entries[i].name = name \o Rest(source, q)
    <3>1. SUFFICES ASSUME NEW q \in DOMAIN t, Begins(source, q)
                   PROVE  \E i \in 1..Len(entries) : entries[i].name = name \o Rest(source, q)
      OBVIOUS
    <3>2. CASE q = source
      BY <1>2, <2>5, <2>9, <3>2 DEF name
    <3>3. CASE q # source
      <4>1. q \in Below(t, source)
        BY <2>4, <3>1, <3>3
      <4>2. PICK j \in 1..Len(below) : below[j].name = name \o Rest(source, q)
        BY <2>3, <4>1
      <4>3. QED
        BY <2>10, <4>2
    <3>4. QED
      BY <3>2, <3>3
  <2>15. DOMAIN named = {entries[i].name : i \in 1..Len(entries)}
    <3>1. \A p \in DOMAIN named : \E i \in 1..Len(entries) : p = entries[i].name
      <4>1. SUFFICES ASSUME NEW p \in DOMAIN named PROVE \E i \in 1..Len(entries) : p = entries[i].name
        OBVIOUS
      <4>2. PICK q \in DOMAIN t : Begins(source, q) /\ p = name \o Rest(source, q)
        BY <1>1 DEF name
      <4>3. QED
        BY <2>14, <4>2
    <3>2. \A i \in 1..Len(entries) : entries[i].name \in DOMAIN named
      BY <1>1, <2>13 DEF name
    <3>3. QED
      BY <3>1, <3>2
  <2>16. \A i \in 1..Len(entries) : named[entries[i].name] = entries[i].node
    BY <1>1, <2>13 DEF name
  <2>17. QED
    BY <2>8, <2>12, <2>15, <2>16 DEF Entries, Lists, E, entries, named, exists
<1>5. CASE ~is_dir(t, source)
  <2> DEFINE node == IF exists(t, source) THEN t[source] ELSE Missing
  <2>1. entries = <<Entry(name, node)>>
    BY <1>5 DEF Appended, Own, is_file, is_dir, exists
  <2>2. node \in nodes
    BY DEF Within, exists
  <2> HIDE DEF node, entries, name, E
  <2>3. Entry(name, node) \in E /\ Entry(name, node).name = name /\ Entry(name, node).node = node
    BY <1>1, <2>2 DEF Entry, Place, name, E
  <2>4. entries \in Seq(E) /\ Len(entries) = 1 /\ entries[1] = Entry(name, node)
    BY <2>1, <2>3
  <2>5. entries[1].name = name /\ entries[1].node = node /\ 1..Len(entries) = {1}
    BY <2>3, <2>4
  <2>6. ASSUME exists(t, source) PROVE Lists(entries, named)
    <3>1. node = t[source] /\ source \in DOMAIN t /\ t[source] # Dir
      BY <1>5, <2>6 DEF node, exists, is_dir
    <3>2. \A q \in DOMAIN t : Begins(source, q) => q = source
      BY <1>3, <3>1
    <3>3. DOMAIN named = {name} /\ named[name] = node
      BY <1>1, <1>2, <3>1, <3>2 DEF name
    <3>4. QED
      BY <2>5, <3>3 DEF Lists
  <2>7. ASSUME ~exists(t, source) PROVE node = Missing
    BY <2>7 DEF node
  <2>8. QED
    BY <2>4, <2>5, <2>6, <2>7 DEF Entries, E, entries, named
<1>6. QED
  BY <1>4, <1>5

\* Then an archive of these entries keeps held.
LEMMA ListsDescribes ==
  ASSUME NEW entries, NEW held, Lists(entries, held) PROVE Describes(entries, held)
  BY DEF Lists, Describes

\* Of one function the last one is itself,
LEMMA LatestOne ==
  ASSUME NEW f
  PROVE  DOMAIN Latest(<<f>>) = DOMAIN f /\ \A p \in DOMAIN f : Latest(<<f>>)[p] = f[p]
<1> DEFINE named == <<f>>
           with(p) == {i \in DOMAIN named : p \in DOMAIN named[i]}
           latest == Latest(named)
<1>1. DOMAIN named = {1} /\ named[1] = f
  OBVIOUS
<1>2. latest = [p \in UNION {DOMAIN named[i] : i \in DOMAIN named} |-> named[Max(with(p))][p]]
  BY DEF Latest
<1> HIDE DEF named, latest
<1>3. UNION {DOMAIN named[i] : i \in DOMAIN named} = DOMAIN f
  BY <1>1
<1>4. ASSUME NEW p \in DOMAIN f PROVE Max(with(p)) = 1
  <2>1. with(p) = {1}
    BY <1>1, <1>4
  <2> HIDE DEF with
  <2>2. QED
    BY <2>1 DEF Max
<1> HIDE DEF with
<1>5. DOMAIN latest = DOMAIN f /\ \A p \in DOMAIN f : latest[p] = f[p]
  BY <1>1, <1>2, <1>3, <1>4
<1>6. QED
  BY <1>5 DEF latest, named

\* and of two the second, where it has the argument.
LEMMA LatestTwo ==
  ASSUME NEW f, NEW g
  PROVE  /\ DOMAIN Latest(<<f, g>>) = DOMAIN f \cup DOMAIN g
         /\ \A p \in DOMAIN g : Latest(<<f, g>>)[p] = g[p]
         /\ \A p \in DOMAIN f : p \notin DOMAIN g => Latest(<<f, g>>)[p] = f[p]
<1> DEFINE named == <<f, g>>
           with(p) == {i \in DOMAIN named : p \in DOMAIN named[i]}
           latest == Latest(named)
<1>1. DOMAIN named = {1, 2} /\ named[1] = f /\ named[2] = g
  OBVIOUS
<1>2. latest = [p \in UNION {DOMAIN named[i] : i \in DOMAIN named} |-> named[Max(with(p))][p]]
  BY DEF Latest
<1> HIDE DEF named, latest
<1>3. UNION {DOMAIN named[i] : i \in DOMAIN named} = DOMAIN f \cup DOMAIN g
  BY <1>1
<1>4. ASSUME NEW p \in DOMAIN g PROVE Max(with(p)) = 2
  <2>1. 2 \in with(p) /\ \A i \in with(p) : i = 1 \/ i = 2
    BY <1>1, <1>4
  <2> HIDE DEF with
  <2>2. QED
    BY <2>1 DEF Max
<1>5. ASSUME NEW p \in DOMAIN f, p \notin DOMAIN g PROVE Max(with(p)) = 1
  <2>1. with(p) = {1}
    BY <1>1, <1>5
  <2> HIDE DEF with
  <2>2. QED
    BY <2>1 DEF Max
<1> HIDE DEF with
<1>6. /\ DOMAIN latest = DOMAIN f \cup DOMAIN g
      /\ \A p \in DOMAIN g : latest[p] = g[p]
      /\ \A p \in DOMAIN f : p \notin DOMAIN g => latest[p] = f[p]
  BY <1>1, <1>2, <1>3, <1>4, <1>5
<1>7. QED
  BY <1>6 DEF latest, named

\* Of two lists the second overrides the first.
LEMMA TwoLists ==
  ASSUME NEW nodes, NEW a \in Entries(nodes), NEW b \in Entries(nodes), NEW f, NEW g, Lists(a, f), Lists(b, g)
  PROVE  a \o b \in Entries(nodes) /\ Describes(a \o b, Latest(<<f, g>>))
<1> DEFINE E == [name : Seq(Nat), node : nodes]
           c == a \o b
           held == Latest(<<f, g>>)
<1>1. a \in Seq(E) /\ b \in Seq(E)
  BY DEF Entries
<1> HIDE DEF E
<1>2. /\ Len(a) \in Nat /\ Len(b) \in Nat
      /\ c \in Seq(E) /\ Len(c) = Len(a) + Len(b)
      /\ \A i \in 1..(Len(a) + Len(b)) : c[i] = IF i <= Len(a) THEN a[i] ELSE b[i - Len(a)]
  BY <1>1, ConcatProperties, LenProperties
<1>3. /\ DOMAIN f = {a[j].name : j \in 1..Len(a)} /\ \A j \in 1..Len(a) : f[a[j].name] = a[j].node
  BY DEF Lists
<1>4. /\ DOMAIN g = {b[j].name : j \in 1..Len(b)} /\ \A j \in 1..Len(b) : g[b[j].name] = b[j].node
  BY DEF Lists
<1>5. /\ DOMAIN held = DOMAIN f \cup DOMAIN g
      /\ \A p \in DOMAIN g : held[p] = g[p]
      /\ \A p \in DOMAIN f : p \notin DOMAIN g => held[p] = f[p]
  BY LatestTwo
<1> HIDE DEF c, held
<1>6. \A j \in 1..Len(a) : j \in 1..Len(c) /\ c[j] = a[j]
  BY <1>2
<1>7. ASSUME NEW j \in 1..Len(b) PROVE Len(a) + j \in 1..Len(c) /\ c[Len(a) + j] = b[j]
  <2>1. Len(a) + j \in 1..(Len(a) + Len(b)) /\ ~(Len(a) + j <= Len(a)) /\ Len(a) + j - Len(a) = j
    BY <1>2
  <2>2. QED
    BY <1>2, <2>1
<1>8. ASSUME NEW i \in 1..Len(c)
      PROVE  (i \in 1..Len(a) /\ c[i] = a[i]) \/ \E j \in 1..Len(b) : i = Len(a) + j /\ c[i] = b[j]
  <2>1. CASE i <= Len(a)
    BY <1>2, <2>1
  <2>2. CASE ~(i <= Len(a))
    <3>1. i - Len(a) \in 1..Len(b) /\ i = Len(a) + (i - Len(a)) /\ i \in 1..(Len(a) + Len(b))
      BY <1>2, <2>2
    <3>2. QED
      BY <1>2, <2>2, <3>1
  <2>3. QED
    BY <2>1, <2>2
<1>9. DOMAIN held = {c[i].name : i \in 1..Len(c)}
  <2>1. ASSUME NEW p \in DOMAIN held PROVE \E i \in 1..Len(c) : p = c[i].name
    <3>1. CASE p \in DOMAIN f
      BY <1>3, <1>6, <3>1
    <3>2. CASE p \in DOMAIN g
      <4>1. PICK j \in 1..Len(b) : p = b[j].name
        BY <1>4, <3>2
      <4>2. QED
        BY <1>7, <4>1
    <3>3. QED
      BY <1>5, <3>1, <3>2
  <2>2. ASSUME NEW i \in 1..Len(c) PROVE c[i].name \in DOMAIN held
    <3>1. ASSUME i \in 1..Len(a), c[i] = a[i] PROVE c[i].name \in DOMAIN held
      BY <1>3, <1>5, <3>1
    <3>2. ASSUME NEW j \in 1..Len(b), c[i] = b[j] PROVE c[i].name \in DOMAIN held
      BY <1>4, <1>5, <3>2
    <3>3. QED
      BY <1>8, <3>1, <3>2
  <2>3. QED
    BY <2>1, <2>2
<1>10. ASSUME NEW i \in 1..Len(c), \A k \in (i + 1)..Len(c) : c[k].name # c[i].name
       PROVE  held[c[i].name] = c[i].node
  <2>1. ASSUME NEW j \in 1..Len(b), c[i] = b[j] PROVE held[c[i].name] = c[i].node
    BY <1>4, <1>5, <2>1
  <2>2. ASSUME i \in 1..Len(a), c[i] = a[i] PROVE held[c[i].name] = c[i].node
    <3>1. a[i].name \notin DOMAIN g
      <4>1. SUFFICES ASSUME NEW j \in 1..Len(b), a[i].name = b[j].name PROVE FALSE
        BY <1>4
      <4>2. Len(a) + j \in (i + 1)..Len(c)
        BY <1>2, <1>7, <2>2
      <4>3. QED
        BY <1>7, <1>10, <2>2, <4>1, <4>2
    <3>2. QED
      BY <1>3, <1>5, <2>2, <3>1
  <2>3. QED
    BY <1>8, <2>1, <2>2
<1>11. QED
  BY <1>2, <1>9, <1>10 DEF Entries, Describes, c, held, E

\* A directory alone in a zip
LEMMA ZippedIs ==
  ASSUME NEW nodes, NEW t, IsTree(t), Within(t, nodes), NEW dir \in Place,
         NEW held, held = [p \in {Rest(dir, q) : q \in Below(t, dir)} |-> t[dir \o p]]
  PROVE  add_dir_to_zip(t, dir, <<>>) \in Entries(nodes) /\ Lists(add_dir_to_zip(t, dir, <<>>), held)
<1> DEFINE entries == add_dir_to_zip(t, dir, <<>>)
<1>1. <<>> \in Place
  BY EmptySeq DEF Place
<1>2. entries \in Entries(nodes) /\ OfDir(entries, t, dir, <<>>)
  BY <1>1, AddDirIs
<1> HIDE DEF entries
<1>3. \A q \in Below(t, dir) : q \in Place /\ Begins(dir, q)
  BY BelowIs
<1>4. \A q \in Below(t, dir) : <<>> \o Rest(dir, q) = Rest(dir, q) /\ dir \o Rest(dir, q) = q
  <2>1. SUFFICES ASSUME NEW q \in Below(t, dir)
                 PROVE  <<>> \o Rest(dir, q) = Rest(dir, q) /\ dir \o Rest(dir, q) = q
    OBVIOUS
  <2>2. Rest(dir, q) \in Place /\ dir \o Rest(dir, q) = q
    BY <1>3, RestIs
  <2>3. QED
    BY <2>2, ConcatEmptySeq DEF Place
<1>5. \A j \in 1..Len(entries) : \E q \in Below(t, dir) : entries[j].name = Rest(dir, q) /\ entries[j].node = t[q]
  BY <1>2, <1>4 DEF OfDir
<1>6. \A q \in Below(t, dir) : \E j \in 1..Len(entries) : entries[j].name = Rest(dir, q)
  BY <1>2, <1>4 DEF OfDir
<1>7. DOMAIN held = {Rest(dir, q) : q \in Below(t, dir)}
  OBVIOUS
<1>8. \A q \in Below(t, dir) : held[Rest(dir, q)] = t[q]
  BY <1>4
<1> HIDE DEF Rest
<1>9. DOMAIN held = {entries[j].name : j \in 1..Len(entries)}
  <2>1. ASSUME NEW p \in DOMAIN held PROVE \E j \in 1..Len(entries) : p = entries[j].name
    BY <1>6, <1>7
  <2>2. ASSUME NEW j \in 1..Len(entries) PROVE entries[j].name \in DOMAIN held
    BY <1>5, <1>7
  <2>3. QED
    BY <2>1, <2>2
<1>10. \A j \in 1..Len(entries) : held[entries[j].name] = entries[j].node
  BY <1>5, <1>8
<1>11. QED
  BY <1>2, <1>9, <1>10 DEF Lists, entries

--------------------------------------------------------------------------------
(* What an archive holds *)
\* Files whose parts are among them, with all that a call writes
Contained(nodes) == Closed(nodes) /\ {Dir, Torn, Link, Missing, Empty} \subseteq nodes

\* One source or two
LEMMA SourceListsAre ==
  ASSUME NEW sources \in SourceLists
  PROVE  \/ \E s \in Place : s # <<>> /\ sources = <<s>>
         \/ \E s, u \in Place : s # <<>> /\ u # <<>> /\ sources = <<s, u>>
<1>1. \A s \in Sources : s \in Place /\ s # <<>>
  BY NamesAssumption DEF Place
<1>2. QED
  BY <1>1 DEF SourceLists

\* If nothing stops it, everything is written and nothing was missing.
LEMMA NothingMissed ==
  ASSUME NEW kind, NEW entries, Len(entries) \in Nat, DOMAIN entries = 1..Len(entries), StopsAt(kind, entries) = {}
  PROVE  Written(kind, entries) = entries /\ \A j \in 1..Len(entries) : entries[j].node # Missing
  BY DEF Written, StopsAt

\* What is packed of a tree
LEMMA EntriesOfIs ==
  ASSUME NEW nodes, {Dir, Missing} \subseteq nodes, NEW t, IsTree(t), Within(t, nodes), NEW kind, NEW sources \in SourceLists
  PROVE  /\ EntriesOf(kind, t, sources) \in Entries(nodes)
         /\ StopsAt(kind, EntriesOf(kind, t, sources)) = {} =>
              Describes(EntriesOf(kind, t, sources), Held(kind, t, sources))
<1> DEFINE entries == EntriesOf(kind, t, sources)
           held == Held(kind, t, sources)
           E == [name : Seq(Nat), node : nodes]
<1>1. ASSUME entries \in Entries(nodes), StopsAt(kind, entries) = {}
      PROVE  \A j \in 1..Len(entries) : entries[j].node # Missing
  <2>1. entries \in Seq(E)
    BY <1>1 DEF Entries
  <2> HIDE DEF E, entries
  <2>2. Len(entries) \in Nat /\ DOMAIN entries = 1..Len(entries)
    BY <2>1, LenProperties
  <2>3. QED
    BY <1>1, <2>2, NothingMissed
<1>2. ASSUME NEW s \in Place, s # <<>>, sources = <<s>>
      PROVE  entries \in Entries(nodes) /\ (StopsAt(kind, entries) = {} => Describes(entries, held))
  <2>1. Len(sources) = 1 /\ sources[1] = s /\ DOMAIN sources = {1}
    BY <1>2
  <2>2. CASE kind = "zip" /\ is_dir(t, s)
    <3>1. entries = add_dir_to_zip(t, s, <<>>)
      BY <2>1, <2>2 DEF EntriesOf, create_zip
    <3>2. held = [p \in {Rest(s, q) : q \in Below(t, s)} |-> t[s \o p]]
      BY <2>1, <2>2 DEF Held, Rest
    <3> HIDE DEF held, entries
    <3>3. entries \in Entries(nodes) /\ Lists(entries, held)
      BY <3>1, <3>2, ZippedIs
    <3>4. QED
      BY <3>3, ListsDescribes
  <2>3. CASE ~(kind = "zip" /\ is_dir(t, s))
    <3> DEFINE a == Appended(t, s)
               f == Named(t, s)
    <3>1. [i \in DOMAIN sources |-> Appended(t, sources[i])] = <<a>> /\ [i \in DOMAIN sources |-> Named(t, sources[i])] = <<f>>
      BY <1>2
    <3>2. /\ a \in Entries(nodes)
          /\ exists(t, s) => Lists(a, f)
          /\ ~exists(t, s) => \E j \in 1..Len(a) : a[j].node = Missing
      BY <1>2, AppendedIs
    <3>3. entries = a
      <4>1. CASE kind = "zip"
        BY <2>1, <2>3, <4>1 DEF EntriesOf, create_zip
      <4>2. CASE kind # "zip"
        <5>1. entries = Paths!FlattenSeq(<<a>>)
          BY <3>1, <4>2 DEF EntriesOf, append_sources_to_tar
        <5> HIDE DEF a, entries
        <5>2. QED
          BY <5>1, FlattenOne
      <4>3. QED
        BY <4>1, <4>2
    <3>4. held = Latest(<<f>>)
      BY <2>1, <2>3, <3>1 DEF Held
    <3> HIDE DEF a, f, entries, held
    <3>5. ASSUME StopsAt(kind, entries) = {} PROVE Describes(entries, held)
      <4>1. Lists(a, f)
        BY <1>1, <3>2, <3>3, <3>5
      <4>2. Lists(a, held)
        BY <3>4, <4>1, LatestOne DEF Lists
      <4>3. QED
        BY <3>3, <4>2, ListsDescribes
    <3>6. QED
      BY <3>2, <3>3, <3>5
  <2>4. QED
    BY <2>2, <2>3
<1>3. ASSUME NEW s \in Place, NEW u \in Place, s # <<>>, u # <<>>, sources = <<s, u>>
      PROVE  entries \in Entries(nodes) /\ (StopsAt(kind, entries) = {} => Describes(entries, held))
  <2> DEFINE a == Appended(t, s)
             b == Appended(t, u)
             f == Named(t, s)
             g == Named(t, u)
  <2>1. Len(sources) = 2 /\ sources[1] = s /\ sources[2] = u /\ DOMAIN sources = {1, 2}
    BY <1>3
  <2>2. /\ [i \in DOMAIN sources |-> Appended(t, sources[i])] = <<a, b>>
        /\ [i \in DOMAIN sources |-> Named(t, sources[i])] = <<f, g>>
    BY <1>3
  <2>3. /\ a \in Entries(nodes)
        /\ exists(t, s) => Lists(a, f)
        /\ ~exists(t, s) => \E j \in 1..Len(a) : a[j].node = Missing
    BY <1>3, AppendedIs
  <2>4. /\ b \in Entries(nodes)
        /\ exists(t, u) => Lists(b, g)
        /\ ~exists(t, u) => \E j \in 1..Len(b) : b[j].node = Missing
    BY <1>3, AppendedIs
  <2>5. entries = Paths!FlattenSeq(<<a, b>>)
    BY <2>1, <2>2 DEF EntriesOf, append_sources_to_tar, create_zip_multi
  <2>6. held = Latest(<<f, g>>)
    BY <2>1, <2>2 DEF Held
  <2> HIDE DEF a, b, f, g, entries, held
  <2>7. entries = a \o b
    BY <2>5, FlattenTwo
  <2>8. a \in Seq(E) /\ b \in Seq(E)
    BY <2>3, <2>4 DEF Entries
  <2> HIDE DEF E
  <2>9. /\ Len(a) \in Nat /\ Len(b) \in Nat /\ entries \in Seq(E) /\ Len(entries) = Len(a) + Len(b)
        /\ \A i \in 1..(Len(a) + Len(b)) : entries[i] = IF i <= Len(a) THEN a[i] ELSE b[i - Len(a)]
    BY <2>7, <2>8, ConcatProperties, LenProperties
  <2>10. entries \in Entries(nodes)
    BY <2>9 DEF Entries, E
  <2>11. ASSUME StopsAt(kind, entries) = {} PROVE Describes(entries, held)
    <3>1. \A j \in 1..Len(entries) : entries[j].node # Missing
      BY <1>1, <2>10, <2>11
    <3>2. \A j \in 1..Len(a) : a[j].node # Missing
      BY <2>9, <3>1
    <3>3. ASSUME NEW j \in 1..Len(b) PROVE b[j].node # Missing
      <4>1. Len(a) + j \in 1..Len(entries) /\ ~(Len(a) + j <= Len(a)) /\ Len(a) + j - Len(a) = j
        BY <2>9
      <4>2. QED
        BY <2>9, <3>1, <4>1
    <3>4. Lists(a, f) /\ Lists(b, g)
      BY <2>3, <2>4, <3>2, <3>3
    <3>5. Describes(a \o b, Latest(<<f, g>>))
      BY <2>3, <2>4, <3>4, TwoLists
    <3>6. QED
      BY <2>6, <2>7, <3>5
  <2>12. QED
    BY <2>10, <2>11
<1>4. QED
  BY <1>2, <1>3, SourceListsAre

\* What a source holds does not depend on an archive that is not in it.
LEMMA HeldSame ==
  ASSUME NEW t, IsTree(t), NEW u, IsTree(u), NEW archive \in Place,
         DOMAIN u = DOMAIN t \cup {archive}, \A x \in DOMAIN t : x # archive => u[x] = t[x],
         NEW kind, NEW sources \in SourceLists, \A i \in DOMAIN sources : ~Paths!IsPrefix(sources[i], archive)
  PROVE  Held(kind, u, sources) = Held(kind, t, sources)
<1>1. /\ \A x : x \in DOMAIN t /\ x # archive <=> x \in DOMAIN u /\ x # archive
      /\ DOMAIN t \subseteq Place /\ DOMAIN u \subseteq Place
  BY TreeIs
<1>2. ASSUME NEW s \in Place, s # <<>>, ~Paths!IsPrefix(s, archive)
      PROVE  /\ is_dir(u, s) <=> is_dir(t, s)
             /\ \A q \in DOMAIN t : Begins(s, q) => q \in DOMAIN u /\ u[q] = t[q]
             /\ \A q \in DOMAIN u : Begins(s, q) => q \in DOMAIN t
             /\ Named(u, s) = Named(t, s)
  <2>1. ~Begins(s, archive) /\ Begins(s, s)
    BY <1>2, BeginsIs, PrefixesIs
  <2>2. s # archive
    BY <2>1
  <2>3. is_dir(u, s) <=> is_dir(t, s)
    BY <1>1, <2>2 DEF is_dir, exists
  <2>4. \A q \in DOMAIN t : Begins(s, q) => q \in DOMAIN u /\ u[q] = t[q]
    BY <2>1
  <2>5. \A q \in DOMAIN u : Begins(s, q) => q \in DOMAIN t
    BY <2>1
  <2>6. Named(u, s) = Named(t, s)
    <3> DEFINE f == Named(u, s)
               g == Named(t, s)
    <3>1. /\ \A p \in DOMAIN f : \E q \in DOMAIN u : Begins(s, q) /\ p = Own(s) \o Rest(s, q)
          /\ \A q \in DOMAIN u : Begins(s, q) =>
               Own(s) \o Rest(s, q) \in DOMAIN f /\ f[Own(s) \o Rest(s, q)] = u[q]
      BY <1>2, NamedIs
    <3>2. /\ \A p \in DOMAIN g : \E q \in DOMAIN t : Begins(s, q) /\ p = Own(s) \o Rest(s, q)
          /\ \A q \in DOMAIN t : Begins(s, q) =>
               Own(s) \o Rest(s, q) \in DOMAIN g /\ g[Own(s) \o Rest(s, q)] = t[q]
      BY <1>2, NamedIs
    <3>3. f = [p \in DOMAIN f |-> f[p]] /\ g = [p \in DOMAIN g |-> g[p]]
      BY DEF Named
    <3> HIDE DEF f, g
    <3>4. DOMAIN f = DOMAIN g
      BY <2>4, <2>5, <3>1, <3>2
    <3>5. ASSUME NEW p \in DOMAIN f PROVE f[p] = g[p]
      <4>1. PICK q \in DOMAIN u : Begins(s, q) /\ p = Own(s) \o Rest(s, q)
        BY <3>1
      <4>2. f[p] = u[q] /\ q \in DOMAIN t /\ u[q] = t[q]
        BY <2>4, <2>5, <3>1, <4>1
      <4>3. QED
        BY <3>2, <4>1, <4>2
    <3>6. f = g
      BY <3>3, <3>4, <3>5
    <3>7. QED
      BY <3>6 DEF f, g
  <2>7. QED
    BY <2>3, <2>4, <2>5, <2>6
<1>3. ASSUME NEW s \in Place, s # <<>>, sources = <<s>> PROVE Held(kind, u, sources) = Held(kind, t, sources)
  <2>1. Len(sources) = 1 /\ sources[1] = s /\ DOMAIN sources = {1}
    BY <1>3
  <2>2. ~Paths!IsPrefix(s, archive)
    BY <2>1
  <2>3. /\ is_dir(u, s) <=> is_dir(t, s)
        /\ \A q \in DOMAIN t : Begins(s, q) => q \in DOMAIN u /\ u[q] = t[q]
        /\ \A q \in DOMAIN u : Begins(s, q) => q \in DOMAIN t
        /\ Named(u, s) = Named(t, s)
    BY <1>2, <1>3, <2>2
  <2>4. [i \in DOMAIN sources |-> Named(u, sources[i])] = <<Named(u, s)>>
        /\ [i \in DOMAIN sources |-> Named(t, sources[i])] = <<Named(t, s)>>
    BY <1>3
  <2>5. CASE kind = "zip" /\ is_dir(t, s)
    <3> DEFINE S == {Rest(s, q) : q \in Below(t, s)}
    <3>1. Below(u, s) = Below(t, s) /\ \A q \in Below(t, s) : q \in Place /\ Begins(s, q) /\ u[q] = t[q]
      <4>1. /\ Below(u, s) = {p \in DOMAIN u : Begins(s, p) /\ p # s}
            /\ Below(t, s) = {p \in DOMAIN t : Begins(s, p) /\ p # s}
        BY BelowIs
      <4>2. QED
        BY <1>1, <2>3, <4>1
    <3>2. \A p \in S : u[s \o p] = t[s \o p]
      <4>1. \A q \in Below(t, s) : s \o Rest(s, q) = q
        BY <3>1, RestIs
      <4>2. QED
        BY <3>1, <4>1
    <3>3. Held(kind, u, sources) = [p \in S |-> u[s \o p]]
      BY <2>1, <2>3, <2>5, <3>1 DEF Held, Rest
    <3>4. Held(kind, t, sources) = [p \in S |-> t[s \o p]]
      BY <2>1, <2>5 DEF Held, Rest
    <3> HIDE DEF S
    <3>5. QED
      BY <3>2, <3>3, <3>4
  <2>6. CASE ~(kind = "zip" /\ is_dir(t, s))
    <3>1. Held(kind, u, sources) = Latest(<<Named(u, s)>>)
      BY <2>1, <2>3, <2>4, <2>6 DEF Held
    <3>2. Held(kind, t, sources) = Latest(<<Named(t, s)>>)
      BY <2>1, <2>4, <2>6 DEF Held
    <3>3. QED
      BY <2>3, <3>1, <3>2
  <2>7. QED
    BY <2>5, <2>6
<1>4. ASSUME NEW s \in Place, NEW v \in Place, s # <<>>, v # <<>>, sources = <<s, v>>
      PROVE  Held(kind, u, sources) = Held(kind, t, sources)
  <2>1. Len(sources) = 2 /\ sources[1] = s /\ sources[2] = v /\ DOMAIN sources = {1, 2}
    BY <1>4
  <2>2. Named(u, s) = Named(t, s) /\ Named(u, v) = Named(t, v)
    BY <1>2, <1>4, <2>1
  <2>3. /\ [i \in DOMAIN sources |-> Named(u, sources[i])] = <<Named(u, s), Named(u, v)>>
        /\ [i \in DOMAIN sources |-> Named(t, sources[i])] = <<Named(t, s), Named(t, v)>>
    BY <1>4
  <2>4. /\ Held(kind, u, sources) = Latest(<<Named(u, s), Named(u, v)>>)
        /\ Held(kind, t, sources) = Latest(<<Named(t, s), Named(t, v)>>)
    BY <2>1, <2>3 DEF Held
  <2>5. QED
    BY <2>2, <2>4
<1>5. QED
  BY <1>3, <1>4, SourceListsAre

\* Entries of some nodes are entries of more.
LEMMA EntriesGrow ==
  ASSUME NEW nodes, NEW more, nodes \subseteq more, NEW entries \in Entries(nodes) PROVE entries \in Entries(more)
<1> DEFINE E == [name : Seq(Nat), node : nodes]
           F == [name : Seq(Nat), node : more]
<1>1. E \subseteq F /\ entries \in Seq(E)
  BY DEF Entries
<1> HIDE DEF E, F
<1>2. entries \in Seq(F)
  BY <1>1, SeqMonotonic
<1>3. QED
  BY <1>2 DEF Entries, F

\* The first of some entries, with one more or none
LEMMA EntriesCut ==
  ASSUME NEW nodes, NEW entries \in Entries(nodes), NEW n \in Nat, n <= Len(entries)
  PROVE  /\ SubSeq(entries, 1, n) \in Entries(nodes)
         /\ n = Len(entries) => SubSeq(entries, 1, n) = entries
<1> DEFINE E == [name : Seq(Nat), node : nodes]
           cut == SubSeq(entries, 1, n)
<1>1. entries \in Seq(E)
  BY DEF Entries
<1> HIDE DEF E
<1>2. Len(entries) \in Nat /\ \A i \in 1..n : entries[i] \in E
  BY <1>1, LenProperties, ElementOfSeq
<1>3. /\ cut \in Seq(E)
      /\ Len(cut) = IF 1 <= n THEN n - 1 + 1 ELSE 0
      /\ \A i \in 1..(n - 1 + 1) : cut[i] = entries[1 + i - 1]
  BY <1>2, SubSeqProperties
<1> HIDE DEF cut
<1>4. ASSUME n = Len(entries) PROVE cut = entries
  <2>1. Len(cut) = Len(entries)
    BY <1>2, <1>3, <1>4
  <2>2. \A i \in 1..Len(entries) : cut[i] = entries[i]
    <3>1. SUFFICES ASSUME NEW i \in 1..Len(entries) PROVE cut[i] = entries[i]
      OBVIOUS
    <3>2. i \in 1..(n - 1 + 1) /\ 1 + i - 1 = i
      BY <1>2, <1>4
    <3>3. QED
      BY <1>3, <3>2
  <2>3. QED
    BY <1>1, <1>3, <2>1, <2>2, SeqEqual
<1>5. QED
  BY <1>3, <1>4 DEF Entries, E, cut

\* What is written of entries are entries.
LEMMA WrittenIs ==
  ASSUME NEW nodes, Empty \in nodes, NEW kind, NEW entries \in Entries(nodes)
  PROVE  Written(kind, entries) \in Entries(nodes)
<1> DEFINE E == [name : Seq(Nat), node : nodes]
           stops == StopsAt(kind, entries)
           stop == Min(stops)
           before == SubSeq(entries, 1, stop - 1)
           extra == IF kind = "zip" /\ entries[stop].node = Missing THEN <<Entry(entries[stop].name, Empty)>> ELSE <<>>
<1>1. entries \in Seq(E)
  BY DEF Entries
<1>2. CASE stops = {}
  BY <1>2 DEF Written
<1>3. CASE stops # {}
  <2>1. Written(kind, entries) = before \o extra
    BY <1>3 DEF Written
  <2>2. Len(entries) \in Nat /\ DOMAIN entries = 1..Len(entries)
    <3> HIDE DEF E
    <3>1. QED
      BY <1>1, LenProperties
  <2>3. stops \in SUBSET (1..Len(entries))
    BY <2>2 DEF StopsAt
  <2>4. stop \in 1..Len(entries)
    <3>1. stops \in SUBSET Nat
      <4>1. \A i \in 1..Len(entries) : i \in Nat
        OBVIOUS
      <4> HIDE DEF stops
      <4>2. QED
        BY <2>3, <4>1
    <3> HIDE DEF stops
    <3>2. \E x \in stops : \A y \in stops : x <= y
      BY <1>3, <3>1, Least
    <3>3. stop \in stops
      BY <3>2 DEF Min
    <3>4. QED
      BY <2>3, <3>3
  <2> HIDE DEF stop, stops
  <2>5. stop - 1 \in Nat /\ stop - 1 <= Len(entries)
    <3>1. PICK k \in 1..Len(entries) : k = stop
      BY <2>4
    <3>2. QED
      BY <2>2, <3>1
  <2>6. before \in Seq(E)
    BY <2>5, EntriesCut DEF Entries
  <2>7. entries[stop].name \in Seq(Nat)
    BY <2>4, EntriesAre DEF Place
  <2>8. Entry(entries[stop].name, Empty) \in E
    BY <2>7 DEF Entry
  <2> HIDE DEF E
  <2>9. extra \in Seq(E)
    <3>1. <<Entry(entries[stop].name, Empty)>> \in Seq(E)
      BY <2>8
    <3>2. <<>> \in Seq(E)
      OBVIOUS
    <3>3. QED
      BY <3>1, <3>2
  <2> HIDE DEF before, extra
  <2>10. before \o extra \in Seq(E)
    BY <2>6, <2>9, ConcatProperties
  <2>11. QED
    BY <2>1, <2>10 DEF Entries, E
<1>4. QED
  BY <1>2, <1>3

\* A file made of them is one of them.
LEMMA ContainedArchive ==
  ASSUME NEW nodes, Contained(nodes), NEW kind, NEW entries \in Entries(nodes), NEW whole
  PROVE  Contained(nodes \cup {Bundle(kind, entries, whole)})
<1> DEFINE bundle == Bundle(kind, entries, whole)
           more == nodes \cup {bundle}
<1>1. bundle.type = "archive" /\ bundle.entries = entries
  BY DEF Bundle
<1> HIDE DEF bundle
<1>2. ASSUME NEW node \in more, node.type = "archive" PROVE node.entries \in Entries(more \cup {Dir, Link})
  <2>1. CASE node = bundle
    BY <1>1, <2>1, EntriesGrow
  <2>2. CASE node \in nodes
    <3>1. node.entries \in Entries(nodes \cup {Dir, Link})
      BY <1>2, <2>2 DEF Contained, Closed
    <3>2. QED
      BY <3>1, EntriesGrow
  <2>3. QED
    BY <2>1, <2>2
<1>3. ASSUME NEW node \in more, node.type = "packed" PROVE node.of \in more
  BY <1>1, <1>3 DEF Contained, Closed
<1>4. QED
  BY <1>2, <1>3 DEF Contained, Closed, bundle

\* So is one that packs one of them,
LEMMA ContainedPacked ==
  ASSUME NEW nodes, Contained(nodes), NEW by, NEW node \in nodes
  PROVE  Contained(nodes \cup {Packed(by, node)})
<1> DEFINE pack == Packed(by, node)
           more == nodes \cup {pack}
<1>1. pack.type = "packed" /\ pack.of = node
  BY DEF Packed
<1> HIDE DEF pack
<1>2. ASSUME NEW x \in more, x.type = "archive" PROVE x.entries \in Entries(more \cup {Dir, Link})
  <2>1. x \in nodes
    BY <1>1, <1>2
  <2>2. x.entries \in Entries(nodes \cup {Dir, Link})
    BY <1>2, <2>1 DEF Contained, Closed
  <2>3. QED
    BY <2>2, EntriesGrow
<1>3. ASSUME NEW x \in more, x.type = "packed" PROVE x.of \in more
  BY <1>1, <1>3 DEF Contained, Closed
<1>4. QED
  BY <1>2, <1>3 DEF Contained, Closed, pack

\* and the entries of one are made of them.
LEMMA ArchiveParts ==
  ASSUME NEW nodes, Contained(nodes), NEW node \in nodes, node.type = "archive"
  PROVE  node.entries \in Entries(nodes)
<1>1. node.entries \in Entries(nodes \cup {Dir, Link}) /\ nodes \cup {Dir, Link} = nodes
  BY DEF Contained, Closed
<1>2. QED
  BY <1>1

\* An empty file is no archive.
LEMMA EmptyIs == Empty.type = "text"
<1>1. \A x : Text(x).type = "text"
  BY DEF Text
<1>2. Empty = Text("")
  BY DEF Empty
<1>3. QED
  BY <1>1, <1>2, Zenon

--------------------------------------------------------------------------------
(* The invariant, and what it gives *)
\* The mount holds a tree, of files whose parts are files, and the archives made hold
\* what their sources did.
ArchivesHold ==
  /\ IsTree(tree)
  /\ \E nodes : Contained(nodes) /\ Within(tree, nodes)
  /\ \A pack \in packs : Describes(pack.node.entries, pack.held)

\* So it is at first: TreesAssumption is what it takes.
LEMMA ArchivesAtFirst == ArchiveInit => ArchivesHold
<1> SUFFICES ASSUME ArchiveInit PROVE ArchivesHold
  OBVIOUS
<1> DEFINE nodes == Stored \cup {Dir, Torn, Link, Missing, Empty}
<1>1. Closed(Stored) /\ IsTree(tree) /\ \A p \in DOMAIN tree : tree[p] \in Stored \cup {Dir}
  BY TreesAssumption DEF ArchiveInit
<1>2. packs = {}
  BY DEF ArchiveInit
<1>3. Within(tree, nodes)
  BY <1>1 DEF Within
<1>4. \A x \in {Dir, Torn, Link, Missing, Empty} : x.type # "archive" /\ x.type # "packed"
  BY EmptyIs DEF Dir, Torn, Link, Missing
<1>5. ASSUME NEW node \in nodes, node.type = "archive" PROVE node.entries \in Entries(nodes \cup {Dir, Link})
  <2>1. node \in Stored
    BY <1>4, <1>5
  <2>2. node.entries \in Entries(Stored \cup {Dir, Link})
    BY <1>1, <1>5, <2>1 DEF Closed
  <2>3. QED
    BY <2>2, EntriesGrow
<1>6. ASSUME NEW node \in nodes, node.type = "packed" PROVE node.of \in nodes
  BY <1>1, <1>4, <1>6 DEF Closed
<1>7. Contained(nodes)
  BY <1>5, <1>6 DEF Contained, Closed
<1> HIDE DEF nodes
<1>8. QED
  BY <1>1, <1>2, <1>3, <1>7 DEF ArchivesHold

\* Making an archive keeps that, and the sources are read when the archive is there already.
LEMMA CreateKeeps ==
  ASSUME ArchivesHold, NEW kind, NEW sources \in SourceLists, NEW archive \in Targets, Create(kind, sources, archive)
  PROVE  ArchivesHold' /\ last' = last
<1> DEFINE made == write(tree, archive, Torn)
           entries == EntriesOf(kind, made.tree, sources)
           fails == StopsAt(kind, entries) # {}
           selfish == \E i \in DOMAIN sources : Paths!IsPrefix(sources[i], archive)
           bundle(whole) == Bundle(kind, Written(kind, entries), whole)
<1>1. IsTree(tree) /\ \A pack \in packs : Describes(pack.node.entries, pack.held)
  BY DEF ArchivesHold
<1>2. PICK nodes : Contained(nodes) /\ Within(tree, nodes)
  BY DEF ArchivesHold
<1>3. last' = last
  BY DEF Create
<1>4. archive \in Place
  BY NamesAssumption DEF Place
<1>5. \/ tree' = tree /\ packs' = packs
      \/ /\ made.ok
         /\ \/ \E whole \in BOOLEAN :
                 /\ tree' = [made.tree EXCEPT ![archive] = bundle(whole)]
                 /\ packs' = packs \cup (IF fails \/ selfish THEN {}
                                         ELSE {[node |-> bundle(whole), held |-> Held(kind, tree, sources)]})
            \/ tree' = made.tree /\ packs' = packs
  BY DEF Create
<1>6. CASE tree' = tree /\ packs' = packs
  BY <1>1, <1>2, <1>3, <1>6 DEF ArchivesHold
<1>7. ASSUME made.ok
      PROVE  /\ IsTree(made.tree) /\ Within(made.tree, nodes) /\ is_file(made.tree, archive)
             /\ DOMAIN made.tree = DOMAIN tree \cup {archive}
             /\ \A x \in DOMAIN tree : x # archive => made.tree[x] = tree[x]
             /\ entries \in Entries(nodes)
             /\ StopsAt(kind, entries) = {} => Describes(entries, Held(kind, made.tree, sources))
  <2>1. /\ IsTree(made.tree)
        /\ DOMAIN made.tree = DOMAIN tree \cup {archive} /\ made.tree[archive] = Torn
        /\ \A x \in DOMAIN tree : x # archive => made.tree[x] = tree[x]
    BY <1>1, <1>4, <1>7, WriteIs
  <2>2. {Dir, Missing} \subseteq nodes /\ Torn \in nodes
    BY <1>2 DEF Contained
  <2> HIDE DEF made
  <2>3. Within(made.tree, nodes)
    BY <1>2, <2>1, <2>2 DEF Within
  <2>4. is_file(made.tree, archive)
    BY <2>1 DEF is_file, exists, Torn, Dir
  <2>5. /\ EntriesOf(kind, made.tree, sources) \in Entries(nodes)
        /\ StopsAt(kind, EntriesOf(kind, made.tree, sources)) = {} =>
             Describes(EntriesOf(kind, made.tree, sources), Held(kind, made.tree, sources))
    BY <2>1, <2>2, <2>3, EntriesOfIs
  <2>6. QED
    BY <2>1, <2>3, <2>4, <2>5
<1>8. ASSUME made.ok, tree' = made.tree, packs' = packs PROVE ArchivesHold'
  BY <1>1, <1>2, <1>7, <1>8 DEF ArchivesHold
<1>9. ASSUME made.ok, NEW whole \in BOOLEAN,
             tree' = [made.tree EXCEPT ![archive] = bundle(whole)],
             packs' = packs \cup (IF fails \/ selfish THEN {}
                                  ELSE {[node |-> bundle(whole), held |-> Held(kind, tree, sources)]})
      PROVE  ArchivesHold'
  <2> DEFINE b == bundle(whole)
             written == Written(kind, entries)
             more == nodes \cup {b}
  <2>1. /\ IsTree(made.tree) /\ Within(made.tree, nodes) /\ is_file(made.tree, archive)
        /\ DOMAIN made.tree = DOMAIN tree \cup {archive}
        /\ \A x \in DOMAIN tree : x # archive => made.tree[x] = tree[x]
        /\ entries \in Entries(nodes)
        /\ StopsAt(kind, entries) = {} => Describes(entries, Held(kind, made.tree, sources))
    BY <1>7, <1>9
  <2>2. written \in Entries(nodes)
    <3>1. Empty \in nodes
      BY <1>2 DEF Contained
    <3> HIDE DEF entries
    <3>2. QED
      BY <2>1, <3>1, WrittenIs
  <2>3. Contained(more)
    <3> HIDE DEF written
    <3>1. Contained(nodes \cup {Bundle(kind, written, whole)})
      BY <1>2, <2>2, ContainedArchive
    <3>2. QED
      BY <3>1 DEF written
  <2>4. b.entries = written
    BY DEF Bundle
  <2>5. tree' = [made.tree EXCEPT ![archive] = b]
    BY <1>9
  <2>6. packs' = packs \cup (IF fails \/ selfish THEN {} ELSE {[node |-> b, held |-> Held(kind, tree, sources)]})
    BY <1>9
  <2>7. ~fails => written = entries
    BY DEF Written
  <2>8. ~selfish => Held(kind, made.tree, sources) = Held(kind, tree, sources)
    <3>1. ASSUME ~selfish PROVE \A i \in DOMAIN sources : ~Paths!IsPrefix(sources[i], archive)
      BY <3>1
    <3> HIDE DEF made, selfish
    <3>2. QED
      BY <1>1, <1>4, <2>1, <3>1, HeldSame
  <2> HIDE DEF made, entries, selfish, b, written, more
  <2>9. IsTree(tree')
    BY <2>1, <2>5, RewriteIs
  <2>10. Within(tree', more)
    BY <2>1, <2>5 DEF Within, more
  <2>11. \A pack \in packs' : Describes(pack.node.entries, pack.held)
    <3>1. SUFFICES ASSUME NEW pack \in packs', pack \notin packs PROVE Describes(pack.node.entries, pack.held)
      BY <1>1
    <3>2. ~fails /\ ~selfish /\ pack = [node |-> b, held |-> Held(kind, tree, sources)]
      BY <2>6, <3>1
    <3>3. pack.node.entries = entries /\ pack.held = Held(kind, made.tree, sources)
      BY <2>4, <2>7, <2>8, <3>2
    <3>4. QED
      BY <2>1, <3>2, <3>3
  <2>12. QED
    BY <2>3, <2>9, <2>10, <2>11 DEF ArchivesHold
<1>10. QED
  BY <1>3, <1>5, <1>6, <1>8, <1>9

\* A file becomes one that is made of a file or was in one.
LEMMA ConvertKeeps ==
  ASSUME ArchivesHold, NEW output \in Targets, NEW node,
         tree' = tree \/ tree' = write(tree, output, node).tree, packs' = packs,
         tree' # tree => \E nodes : Contained(nodes) /\ Within(tree, nodes) /\ node \in nodes
  PROVE  ArchivesHold'
<1> DEFINE written == write(tree, output, node)
<1>1. CASE tree' = tree
  BY <1>1 DEF ArchivesHold
<1>2. CASE tree' = written.tree /\ tree' # tree
  <2>1. PICK nodes : Contained(nodes) /\ Within(tree, nodes) /\ node \in nodes
    BY <1>2
  <2>2. IsTree(tree) /\ output \in Place
    BY NamesAssumption DEF ArchivesHold, Place
  <2>3. /\ IsTree(written.tree)
        /\ ~written.ok => written.tree = tree
        /\ written.ok =>
             /\ DOMAIN written.tree = DOMAIN tree \cup {output} /\ written.tree[output] = node
             /\ \A x \in DOMAIN tree : x # output => written.tree[x] = tree[x]
    BY <2>2, WriteIs
  <2> HIDE DEF written
  <2>4. IsTree(tree') /\ Within(tree', nodes)
    BY <1>2, <2>1, <2>3 DEF Within
  <2>5. QED
    BY <2>1, <2>4 DEF ArchivesHold
<1>3. QED
  BY <1>1, <1>2

\* What an extraction leaves, and what it brings back if it says that it succeeded
LEMMA ExtractKeeps ==
  ASSUME ArchivesHold, NEW kind, NEW archive \in Targets, NEW dest \in Dests, Extract(kind, archive, dest)
  PROVE  /\ ArchivesHold' /\ packs' = packs
         /\ \A pack \in packs :
              last' # last /\ last'.ok /\ last'.bundle = pack.node => tree' = Unpacked(tree, last'.dest, pack.held)
<1> DEFINE made == create_dir_all(tree, dest)
           bundle == tree[archive]
           entries == bundle.entries
           over == {i \in DOMAIN entries : dest \o entries[i].name = archive}
           all(n) == n = Len(entries) /\ bundle.whole
           done(n) == extract_tar_from_reader(made.tree, SubSeq(entries, 1, n), dest)
<1>1. IsTree(tree) /\ \A pack \in packs : Describes(pack.node.entries, pack.held)
  BY DEF ArchivesHold
<1>2. PICK nodes : Contained(nodes) /\ Within(tree, nodes)
  BY DEF ArchivesHold
<1>3. packs' = packs
  BY DEF Extract
<1>4. archive \in Place /\ dest \in Place
  BY NamesAssumption DEF Place
<1>5. \A n : Extracted(kind, made.tree, SubSeq(entries, 1, n), dest) = done(n)
  BY DEF Extracted, extract_zip, extract_7z
<1>6. \/ (tree' = tree \/ tree' = made.tree) /\ last' = last
      \/ /\ made.ok /\ is_file(tree, archive) /\ bundle.type = "archive"
         /\ \E n \in 0..Len(entries) :
              /\ tree' = IF over # {} /\ n >= Min(over) THEN [done(n).tree EXCEPT ![archive] = Torn] ELSE done(n).tree
              /\ last' = [call |-> calls', bundle |-> bundle, dest |-> dest,
                          ok |-> all(n) /\ done(n).ok /\ over = {} /\ bundle.kind = kind]
  <2> HIDE DEF done
  <2>1. CASE ~resolve(tree, archive) \/ ~made.ok
    BY <2>1 DEF Extract
  <2>2. CASE resolve(tree, archive) /\ made.ok /\ (~is_file(tree, archive) \/ bundle.type # "archive")
    BY <2>2 DEF Extract
  <2>3. CASE made.ok /\ is_file(tree, archive) /\ bundle.type = "archive" /\ resolve(tree, archive)
    BY <1>5, <2>3 DEF Extract
  <2>4. QED
    BY <2>1, <2>2, <2>3
<1>7. /\ IsTree(made.tree)
      /\ \A x \in DOMAIN tree : x \in DOMAIN made.tree /\ made.tree[x] = tree[x]
      /\ \A x \in DOMAIN made.tree : x \notin DOMAIN tree => made.tree[x] = Dir
      /\ made.ok => /\ DOMAIN made.tree = DOMAIN tree \cup Paths!Prefixes(dest)
                    /\ \A q \in Paths!Prefixes(dest) : made.tree[q] = Dir
  BY <1>1, <1>4, MakeDirsIs
<1>8. Dir \in nodes /\ Torn \in nodes
  BY <1>2 DEF Contained
<1>9. Within(made.tree, nodes)
  <2> HIDE DEF made
  <2>1. QED
    BY <1>2, <1>7, <1>8 DEF Within
<1>10. CASE (tree' = tree \/ tree' = made.tree) /\ last' = last
  BY <1>1, <1>2, <1>3, <1>7, <1>9, <1>10 DEF ArchivesHold
<1>11. ASSUME made.ok, is_file(tree, archive), bundle.type = "archive", NEW n \in 0..Len(entries),
              tree' = IF over # {} /\ n >= Min(over) THEN [done(n).tree EXCEPT ![archive] = Torn] ELSE done(n).tree,
              last' = [call |-> calls', bundle |-> bundle, dest |-> dest,
                       ok |-> all(n) /\ done(n).ok /\ over = {} /\ bundle.kind = kind]
       PROVE  /\ ArchivesHold'
              /\ \A pack \in packs :
                   last'.ok /\ last'.bundle = pack.node => tree' = Unpacked(tree, last'.dest, pack.held)
  <2> DEFINE cut == SubSeq(entries, 1, n)
             u == extract_tar_from_reader(made.tree, cut, dest).tree
             ok == extract_tar_from_reader(made.tree, cut, dest).ok
  <2>1. bundle \in nodes /\ archive \in DOMAIN tree /\ tree[archive] # Dir
    BY <1>2, <1>11 DEF Within, is_file, exists
  <2>2. entries \in Entries(nodes)
    <3>1. tree[archive] \in nodes /\ tree[archive].type = "archive"
      BY <1>11, <2>1
    <3>2. QED
      BY <1>2, <3>1, ArchiveParts
  <2>3. is_file(made.tree, archive)
    <3> HIDE DEF made
    <3>1. QED
      BY <1>7, <2>1 DEF is_file, exists
  <2>4. cut \in Entries(nodes) /\ (n = Len(entries) => cut = entries)
    <3>1. n \in Nat /\ n <= Len(entries)
      BY <1>11, <2>2, EntriesAre
    <3> HIDE DEF entries, bundle
    <3>2. QED
      BY <2>2, <3>1, EntriesCut
  <2>5. tree' = IF over # {} /\ n >= Min(over) THEN [u EXCEPT ![archive] = Torn] ELSE u
    BY <1>11
  <2>6. last'.bundle = bundle /\ last'.dest = dest
    BY <1>11
  <2>7. last'.ok => n = Len(entries) /\ ok /\ over = {}
    BY <1>11
  <2> HIDE DEF cut, entries, bundle
  <2>8. /\ IsTree(u) /\ Within(u, nodes)
        /\ \A x : is_file(made.tree, x) => is_file(u, x)
        /\ ok => Filled(u, made.tree, cut, dest, Len(cut))
    <3> DEFINE t == made.tree
    <3>1. IsTree(t) /\ Within(t, nodes)
      BY <1>7, <1>9
    <3> HIDE DEF t
    <3>2. /\ IsTree(extract_tar_from_reader(t, cut, dest).tree)
          /\ Within(extract_tar_from_reader(t, cut, dest).tree, nodes)
          /\ \A x : is_file(t, x) => is_file(extract_tar_from_reader(t, cut, dest).tree, x)
          /\ extract_tar_from_reader(t, cut, dest).ok =>
               Filled(extract_tar_from_reader(t, cut, dest).tree, t, cut, dest, Len(cut))
      BY <1>4, <1>8, <2>4, <3>1, ExtractionGives
    <3>3. QED
      BY <3>2 DEF t
  <2> HIDE DEF u, ok, over
  <2>9. IsTree(tree') /\ Within(tree', nodes)
    <3>1. CASE tree' = u
      BY <2>8, <3>1
    <3>2. CASE tree' = [u EXCEPT ![archive] = Torn]
      <4>1. is_file(u, archive)
        BY <2>3, <2>8
      <4>2. IsTree(tree')
        BY <2>8, <3>2, <4>1, RewriteIs
      <4>3. Within(tree', nodes)
        BY <1>8, <2>8, <3>2 DEF Within
      <4>4. QED
        BY <4>2, <4>3
    <3>3. QED
      BY <2>5, <3>1, <3>2
  <2>10. ASSUME NEW pack \in packs, last'.ok, last'.bundle = pack.node
         PROVE  tree' = Unpacked(tree, last'.dest, pack.held)
    <3>1. cut = entries /\ ok /\ tree' = u
      BY <2>4, <2>5, <2>7, <2>10
    <3>2. Describes(entries, pack.held)
      BY <1>1, <2>6, <2>10 DEF entries
    <3> DEFINE t == made.tree
               held == pack.held
    <3>3. Filled(u, t, entries, dest, Len(entries))
      BY <2>8, <3>1
    <3>4. /\ DOMAIN t = DOMAIN tree \cup Paths!Prefixes(dest)
          /\ \A q \in Paths!Prefixes(dest) : t[q] = Dir
          /\ \A q \in DOMAIN tree : t[q] = tree[q]
      BY <1>7, <1>11
    <3> HIDE DEF t, held
    <3>5. Describes(entries, held)
      BY <3>2 DEF held
    <3>6. Brings(u, tree, t, entries, dest, held)
      BY <2>2, <2>8, <3>3, <3>4, <3>5, EntriesAre DEF Brings
    <3>7. u = Unpacked(tree, dest, held)
      BY <1>4, <3>6, UnpackedIs
    <3>8. QED
      BY <2>6, <3>1, <3>7 DEF held
  <2>11. ArchivesHold'
    BY <1>1, <1>2, <1>3, <2>9 DEF ArchivesHold
  <2>12. QED
    BY <2>10, <2>11
<1> HIDE DEF made, bundle, entries, over, all, done
<1>12. QED
  BY <1>3, <1>6, <1>10, <1>11

\* What a converted file is made of
LEMMA ConvertedParts ==
  ASSUME ArchivesHold, NEW input, is_file(tree, input)
  PROVE  /\ \A by : \E nodes : Contained(nodes) /\ Within(tree, nodes) /\ Packed(by, tree[input]) \in nodes
         /\ tree[input].type = "packed" =>
              \E nodes : Contained(nodes) /\ Within(tree, nodes) /\ tree[input].of \in nodes
<1>1. PICK nodes : Contained(nodes) /\ Within(tree, nodes)
  BY DEF ArchivesHold
<1>2. tree[input] \in nodes
  BY <1>1 DEF Within, is_file, exists
<1>3. ASSUME NEW by PROVE \E more : Contained(more) /\ Within(tree, more) /\ Packed(by, tree[input]) \in more
  <2> DEFINE node == tree[input]
             more == nodes \cup {Packed(by, node)}
  <2> HIDE DEF node
  <2>1. Contained(nodes \cup {Packed(by, node)})
    BY <1>1, <1>2, ContainedPacked DEF node
  <2>2. Within(tree, more)
    BY <1>1 DEF Within
  <2>3. QED
    BY <2>1, <2>2 DEF node
<1>4. tree[input].type = "packed" => tree[input].of \in nodes
  BY <1>1, <1>2 DEF Contained, Closed
<1>5. QED
  BY <1>1, <1>3, <1>4

\* What every call preserves, and what an extraction brings back
LEMMA ArchiveSteps ==
  ASSUME ArchivesHold, [ArchiveNext]_archiving
  PROVE  /\ ArchivesHold'
         /\ \A pack \in packs :
              last' # last /\ last'.ok /\ last'.bundle = pack.node => tree' = Unpacked(tree, last'.dest, pack.held)
<1>1. CASE UNCHANGED archiving
  BY <1>1 DEF archiving, ArchivesHold
<1>2. ASSUME NEW sources \in SourceLists, NEW archive \in Targets,
             zip(sources, archive) \/ tar(sources, archive) \/ targz(sources, archive)
      PROVE  ArchivesHold' /\ last' = last
  <2>1. PICK kind : Create(kind, sources, archive)
    BY <1>2 DEF zip, tar, targz
  <2>2. QED
    BY <2>1, CreateKeeps
<1>3. ASSUME NEW archive \in Targets, NEW dest \in Dests,
             unzip(archive, dest) \/ untar(archive, dest) \/ untargz(archive, dest) \/ un7z(archive, dest)
      PROVE  /\ ArchivesHold'
             /\ \A pack \in packs :
                  last' # last /\ last'.ok /\ last'.bundle = pack.node => tree' = Unpacked(tree, last'.dest, pack.held)
  <2>1. PICK kind : Extract(kind, archive, dest)
    BY <1>3 DEF unzip, untar, untargz, un7z
  <2>2. QED
    BY <2>1, ExtractKeeps
<1>4. ASSUME NEW input \in Targets, NEW output \in Targets,
             bzip2(input, output) \/ bunzip2(input, output) \/ xz(input, output) \/ unxz(input, output)
      PROVE  ArchivesHold' /\ last' = last
  <2>1. packs' = packs /\ last' = last
    BY <1>4 DEF bzip2, bunzip2, xz, unxz, Convert
  <2>2. \/ tree' = tree
        \/ /\ is_file(tree, input)
           /\ \/ \E by : tree' = write(tree, output, Packed(by, tree[input])).tree
              \/ tree[input].type = "packed" /\ tree' = write(tree, output, tree[input].of).tree
    BY <1>4 DEF bzip2, bunzip2, xz, unxz, Convert
  <2>3. CASE tree' = tree
    BY <2>1, <2>3 DEF ArchivesHold
  <2>4. ASSUME is_file(tree, input), NEW by, tree' = write(tree, output, Packed(by, tree[input])).tree
        PROVE  ArchivesHold'
    <3> DEFINE node == Packed(by, tree[input])
    <3>1. \E nodes : Contained(nodes) /\ Within(tree, nodes) /\ node \in nodes
      BY <2>4, ConvertedParts
    <3> HIDE DEF node
    <3>2. tree' = write(tree, output, node).tree
      BY <2>4 DEF node
    <3>3. QED
      BY <2>1, <3>1, <3>2, ConvertKeeps
  <2>5. ASSUME is_file(tree, input), tree[input].type = "packed", tree' = write(tree, output, tree[input].of).tree
        PROVE  ArchivesHold'
    <3> DEFINE node == tree[input].of
    <3>1. \E nodes : Contained(nodes) /\ Within(tree, nodes) /\ node \in nodes
      BY <2>5, ConvertedParts
    <3> HIDE DEF node
    <3>2. tree' = write(tree, output, node).tree
      BY <2>5 DEF node
    <3>3. QED
      BY <2>1, <3>1, <3>2, ConvertKeeps
  <2>6. QED
    BY <2>1, <2>2, <2>3, <2>4, <2>5
<1>5. QED
  BY <1>1, <1>2, <1>3, <1>4 DEF ArchiveNext

\* The mount stays a tree of files whose parts are files, and each archive that was made by a call
\* that returned describes what its sources held then (compress.rs).
THEOREM ArchivesHoldAlways == ArchiveSpec => []ArchivesHold
<1>1. ArchiveInit => ArchivesHold
  BY ArchivesAtFirst
<1>2. ArchivesHold /\ [ArchiveNext]_archiving => ArchivesHold'
  BY ArchiveSteps
<1>3. QED
  BY <1>1, <1>2, PTL DEF ArchiveSpec

\* What a call packed, an extraction of it brings back, whatever was written, replaced, extracted
\* or converted in between and whatever the destination held (compress.rs): for any trees, names,
\* number of calls and archives made elsewhere.
THEOREM RoundTripAlways == ArchiveSpec => RoundTrip
<1> DEFINE Step == \A pack \in packs :
                     last' # last /\ last'.ok /\ last'.bundle = pack.node =>
                       tree' = Unpacked(tree, last'.dest, pack.held)
<1>1. ArchivesHold /\ [ArchiveNext]_archiving => [Step]_archiving
  BY ArchiveSteps
<1>2. ArchiveSpec => []ArchivesHold
  BY ArchivesHoldAlways
<1>3. RoundTrip <=> [][Step]_archiving
  BY DEF RoundTrip
<1> HIDE DEF Step
<1>4. QED
  BY <1>1, <1>2, <1>3, PTL DEF ArchiveSpec
=============================================================================
