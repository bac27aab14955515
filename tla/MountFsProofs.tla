--------------------------- MODULE MountFsProofs ---------------------------
(***************************************************************************)
(* Type correctness and the four properties of MountFs, for every          *)
(* namespace, every host tree and every table of mounts, nested or         *)
(* overlapping (what the paths need to be is in PathsAssumption); and that *)
(* a read of FileWindow returns the range asked for, of one content of the *)
(* file, for any contents, ranges, limits and edits.                       *)
(***************************************************************************)
EXTENDS MountFs, FileWindow, SequenceTheorems, FiniteSetTheorems, WellFoundedInduction, TLAPS

LEMMA Least ==
  ASSUME NEW T \in SUBSET Nat, T # {}
  PROVE  \E x \in T : \A y \in T : x <= y
<1> DEFINE R == {ss \in Nat \X Nat : ss[1] < ss[2]}
<1>1. IsWellFoundedOn(R, Nat)
  BY NatLessThanWellFounded DEF OpToRel
<1>2. PICK x \in T : \A y \in T : ~ (<<y, x>> \in R)
  <2> HIDE DEF R
  <2> QED BY <1>1, WFMin
<1>3. \A y \in T : ~ (y < x)
  <2> SUFFICES ASSUME NEW y \in T, y < x PROVE FALSE
    OBVIOUS
  <2>1. <<y, x>> \in Nat \X Nat /\ <<y, x>>[1] < <<y, x>>[2]
    OBVIOUS
  <2>2. QED
    BY <1>2, <2>1
<1>4. QED
  BY <1>3

---------------------------------------------------------------------------
(* Paths *)

LEMMA UnderTransitive ==
  ASSUME NEW a \in Seq(Names), NEW b \in Seq(Names), NEW c \in Seq(Names), Under(a, b), Under(b, c)
  PROVE  Under(a, c)
<1>1. Len(a) \in Nat /\ Len(b) \in Nat /\ Len(c) \in Nat
  BY LenProperties
<1>2. QED
  BY <1>1 DEF Under

LEMMA UnderItself == \A a \in Seq(Names) : Under(a, a)
BY LenProperties DEF Under

LEMMA BothAbove ==
  ASSUME NEW a \in Seq(Names), NEW b \in Seq(Names), NEW c \in Seq(Names), Under(c, a), Under(c, b)
  PROVE  Under(a, b) \/ Under(b, a)
BY LenProperties DEF Under

\* An ancestor of a path that is no shorter is the path.
LEMMA UnderProper ==
  ASSUME NEW a \in Seq(Names), NEW b \in Seq(Names), Under(a, b), a # b
  PROVE  Len(b) < Len(a)
<1>1. Len(a) \in Nat /\ Len(b) \in Nat
  BY LenProperties
<1>2. SUFFICES ASSUME Len(a) = Len(b) PROVE FALSE
  BY <1>1 DEF Under
<1>3. QED
  BY <1>2, SeqEqual DEF Under

LEMMA ParentIs ==
  ASSUME NEW a \in Seq(Names), a # <<>>
  PROVE  /\ Len(a) \in Nat \ {0} /\ Parent(a) \in Seq(Names) /\ Len(Parent(a)) = Len(a) - 1
         /\ \A i \in 1..(Len(a) - 1) : Parent(a)[i] = a[i]
         /\ Under(a, Parent(a))
<1>1. Len(a) \in Nat \ {0}
  BY LenProperties, EmptySeq
<1>2. \A i \in 1..(Len(a) - 1) : a[i] \in Names
  BY <1>1, ElementOfSeq
<1>3. Parent(a) \in Seq(Names) /\ Len(Parent(a)) = Len(a) - 1 /\ \A i \in 1..(Len(a) - 1) : Parent(a)[i] = a[i]
  <2> DEFINE n == Len(a) - 1
  <2>1. n \in Nat /\ n + 1 = Len(a) /\ \A i \in 1..n : a[i] \in Names
    BY <1>1, <1>2
  <2> HIDE DEF n
  <2>2. /\ SubSeq(a, 1, n) \in Seq(Names) /\ Len(SubSeq(a, 1, n)) = n
        /\ \A i \in 1..n : SubSeq(a, 1, n)[i] = a[i]
    BY <2>1, SubSeqProperties
  <2>3. QED
    BY <2>2 DEF Parent, n
<1>4. QED
  BY <1>1, <1>3 DEF Under

\* What is below a directory has its parent there or is the directory.
LEMMA UnderParent ==
  ASSUME NEW a \in Seq(Names), NEW b \in Seq(Names), Under(a, b), a # b
  PROVE  a # <<>> /\ Under(Parent(a), b)
<1>1. Len(b) < Len(a) /\ Len(a) \in Nat /\ Len(b) \in Nat
  BY UnderProper, LenProperties
<1>2. a # <<>>
  BY <1>1, EmptySeq
<1>3. QED
  BY <1>1, <1>2, ParentIs DEF Under

LEMMA AboveParent ==
  ASSUME NEW a \in Seq(Names), a # <<>>, NEW b \in Seq(Names), Under(Parent(a), b)
  PROVE  Under(a, b)
BY ParentIs, UnderTransitive

\* The path below s that a has below m
LEMMA Joined ==
  ASSUME NEW s \in Seq(Names), NEW a \in Seq(Names), NEW m \in Seq(Names), Under(a, m)
  PROVE  LET j == s \o Relative(a, m) IN
         /\ Len(s) \in Nat /\ Len(a) \in Nat /\ Len(m) \in Nat /\ Len(m) <= Len(a)
         /\ j \in Seq(Names) /\ Len(j) = Len(s) + (Len(a) - Len(m))
         /\ \A i \in 1..Len(s) : j[i] = s[i]
         /\ \A i \in 1..(Len(a) - Len(m)) : j[Len(s) + i] = a[Len(m) + i]
<1> DEFINE r == Relative(a, m)
<1>1. Len(s) \in Nat /\ Len(a) \in Nat /\ Len(m) \in Nat /\ Len(m) <= Len(a)
  BY LenProperties DEF Under
<1>2. \A i \in Len(m) + 1 .. Len(a) : a[i] \in Names
  BY <1>1, ElementOfSeq
<1>3. /\ r \in Seq(Names) /\ Len(r) = Len(a) - Len(m)
      /\ \A i \in 1..(Len(a) - Len(m)) : r[i] = a[Len(m) + i]
  BY <1>1, <1>2, SubSeqProperties DEF Relative
<1> HIDE DEF r
<1>4. /\ s \o r \in Seq(Names) /\ Len(s \o r) = Len(s) + Len(r)
      /\ \A i \in 1..Len(s) + Len(r) : (s \o r)[i] = IF i <= Len(s) THEN s[i] ELSE r[i - Len(s)]
  BY <1>3, ConcatProperties
<1>5. \A i \in 1..Len(s) : (s \o r)[i] = s[i]
  BY <1>1, <1>3, <1>4
<1>6. ASSUME NEW i \in 1..(Len(a) - Len(m)) PROVE (s \o r)[Len(s) + i] = a[Len(m) + i]
  <2>1. Len(s) + i \in 1..Len(s) + Len(r) /\ ~(Len(s) + i <= Len(s)) /\ (Len(s) + i) - Len(s) = i
    BY <1>1, <1>3
  <2>2. QED
    BY <1>3, <1>4, <2>1
<1>7. QED
  BY <1>1, <1>3, <1>4, <1>5, <1>6 DEF r

LEMMA JoinedParent ==
  ASSUME NEW s \in Seq(Names), NEW a \in Seq(Names), NEW m \in Seq(Names), Under(a, m), a # m
  PROVE  /\ s \o Relative(a, m) # <<>>
         /\ Parent(s \o Relative(a, m)) = s \o Relative(Parent(a), m)
<1> DEFINE j == s \o Relative(a, m)
           k == s \o Relative(Parent(a), m)
<1>1. Len(m) < Len(a) /\ Under(Parent(a), m) /\ a # <<>>
  BY UnderProper, UnderParent
<1>2. /\ Len(Parent(a)) = Len(a) - 1 /\ Parent(a) \in Seq(Names)
      /\ \A i \in 1..(Len(a) - 1) : Parent(a)[i] = a[i]
  BY <1>1, ParentIs
<1>3. /\ Len(s) \in Nat /\ Len(a) \in Nat /\ Len(m) \in Nat
      /\ j \in Seq(Names) /\ Len(j) = Len(s) + (Len(a) - Len(m))
      /\ \A i \in 1..Len(s) : j[i] = s[i]
      /\ \A i \in 1..(Len(a) - Len(m)) : j[Len(s) + i] = a[Len(m) + i]
  BY Joined
<1>4. /\ k \in Seq(Names) /\ Len(k) = Len(s) + ((Len(a) - 1) - Len(m))
      /\ \A i \in 1..Len(s) : k[i] = s[i]
      /\ \A i \in 1..((Len(a) - 1) - Len(m)) : k[Len(s) + i] = Parent(a)[Len(m) + i]
  <2>a. Parent(a) \in Seq(Names) /\ Under(Parent(a), m)
    BY <1>1, <1>2
  <2>1. /\ k \in Seq(Names) /\ Len(k) = Len(s) + (Len(Parent(a)) - Len(m))
        /\ \A i \in 1..Len(s) : k[i] = s[i]
        /\ \A i \in 1..(Len(Parent(a)) - Len(m)) : k[Len(s) + i] = Parent(a)[Len(m) + i]
    BY <2>a, Joined
  <2>2. QED
    BY <1>2, <2>1
<1> HIDE DEF j, k
<1>5. j # <<>>
  BY <1>1, <1>3, EmptySeq
<1>6. Parent(j) \in Seq(Names) /\ Len(Parent(j)) = Len(j) - 1 /\ \A i \in 1..(Len(j) - 1) : Parent(j)[i] = j[i]
  BY <1>3, <1>5, ParentIs
<1>7. Len(Parent(j)) = Len(k)
  BY <1>1, <1>3, <1>4, <1>6
<1>8. ASSUME NEW i \in 1..Len(k) PROVE Parent(j)[i] = k[i]
  <2>1. Len(k) = Len(j) - 1 /\ i \in Nat /\ Parent(j)[i] = j[i]
    BY <1>3, <1>4, <1>6, <1>7, LenProperties
  <2>2. CASE i <= Len(s)
    BY <1>3, <1>4, <2>1, <2>2
  <2>3. CASE ~(i <= Len(s))
    <3> DEFINE l == i - Len(s)
    <3>1. l \in 1..((Len(a) - 1) - Len(m)) /\ l \in 1..(Len(a) - Len(m)) /\ i = Len(s) + l
      BY <1>1, <1>3, <1>4, <2>1, <2>3
    <3>2. Len(m) + l \in 1..(Len(a) - 1)
      BY <1>1, <1>3, <3>1
    <3> HIDE DEF l
    <3>3. QED
      BY <1>2, <1>3, <1>4, <2>1, <3>1, <3>2
  <2>4. QED
    BY <2>2, <2>3
<1>9. Parent(j) = k
  BY <1>4, <1>6, <1>7, <1>8, SeqEqual
<1>10. QED
  BY <1>5, <1>9 DEF j, k

\* What is last in a path
LEMMA LastName ==
  ASSUME NEW a \in Seq(Names), a # <<>>
  PROVE  a[Len(a)] \in Names /\ a = Append(Parent(a), a[Len(a)])
<1> DEFINE x == a[Len(a)]
<1>1. /\ Len(a) \in Nat \ {0} /\ Parent(a) \in Seq(Names) /\ Len(Parent(a)) = Len(a) - 1
      /\ \A i \in 1..(Len(a) - 1) : Parent(a)[i] = a[i]
  BY ParentIs
<1>2. x \in Names
  BY <1>1, ElementOfSeq
<1> HIDE DEF x
<1>3. /\ Append(Parent(a), x) \in Seq(Names) /\ Len(Append(Parent(a), x)) = (Len(a) - 1) + 1
      /\ \A i \in 1..(Len(a) - 1) : Append(Parent(a), x)[i] = Parent(a)[i]
      /\ Append(Parent(a), x)[(Len(a) - 1) + 1] = x
  BY <1>1, <1>2, AppendProperties
<1>4. Len(Append(Parent(a), x)) = Len(a) /\ Append(Parent(a), x)[Len(a)] = a[Len(a)]
  BY <1>1, <1>3 DEF x
<1>5. \A i \in 1..Len(a) : i \in 1..(Len(a) - 1) \/ i = Len(a)
  BY <1>1
<1>6. \A i \in 1..Len(a) : a[i] = Append(Parent(a), x)[i]
  BY <1>1, <1>3, <1>4, <1>5
<1>7. a = Append(Parent(a), x)
  BY <1>3, <1>4, <1>6, SeqEqual
<1>8. QED
  BY <1>2, <1>7 DEF x

LEMMA ParentOfAppend ==
  ASSUME NEW a \in Seq(Names), NEW x \in Names
  PROVE  Parent(Append(a, x)) = a
<1> DEFINE b == Append(a, x)
<1>1. b \in Seq(Names) /\ b # <<>>
  BY AppendProperties
<1>2. Parent(b) \in Seq(Names) /\ b[Len(b)] \in Names /\ b = Append(Parent(b), b[Len(b)])
  BY <1>1, ParentIs, LastName
<1>3. QED
  BY <1>2, AppendInjective

---------------------------------------------------------------------------
(* Where a path of the host leads *)

\* The walk along a path is well defined: each place is one name on from the last.
LEMMA PlacesAre ==
  ASSUME NEW h \in Seq(Names)
  PROVE  /\ Places(h)[0] = <<>>
         /\ \A i \in 1..Len(h) : Places(h)[i] = Go(Places(h)[i - 1], h[i])
<1> DEFINE Walk(at, n) == at = [i \in 0..n |-> IF i = 0 THEN <<>> ELSE Go(at[i - 1], h[i])]
           T == {n \in Nat : ~ \E at : Walk(at, n)}
<1>1. T = {}
  <2> SUFFICES ASSUME T # {} PROVE FALSE
    OBVIOUS
  <2>1. PICK n \in T : \A m \in T : n <= m
    <3> HIDE DEF T
    <3>1. T \subseteq Nat
      BY DEF T
    <3>2. QED
      BY <3>1, Least
  <2>2. n \in Nat /\ ~ \E at : Walk(at, n)
    OBVIOUS
  <2>3. n # 0
    <3>1. Walk([i \in 0..0 |-> <<>>], 0)
      OBVIOUS
    <3>2. QED
      BY <2>2, <3>1
  <2>4. n - 1 \in Nat /\ n - 1 \notin T
    <3> HIDE DEF T
    <3> QED BY <2>1, <2>2, <2>3
  <2>5. PICK at : Walk(at, n - 1)
    BY <2>4
  <2> DEFINE on == [i \in 0..n |-> IF i = n THEN Go(at[n - 1], h[n]) ELSE at[i]]
  <2>6. ASSUME NEW i \in 0..n PROVE on[i] = IF i = 0 THEN <<>> ELSE Go(on[i - 1], h[i])
    <3>1. CASE i = n
      <4>1. on[i - 1] = at[n - 1]
        BY <2>2, <2>3, <3>1
      <4>2. QED
        BY <2>2, <2>3, <3>1, <4>1
    <3>2. CASE i # n
      <4>1. i \in 0..(n - 1) /\ on[i] = at[i]
        BY <2>2, <3>2
      <4>2. i # 0 => i - 1 \in 0..n /\ i - 1 # n /\ on[i - 1] = at[i - 1]
        BY <2>2, <3>2
      <4>3. at[i] = IF i = 0 THEN <<>> ELSE Go(at[i - 1], h[i])
        BY <2>5, <4>1
      <4>4. QED
        BY <4>1, <4>2, <4>3
    <3>3. QED
      BY <3>1, <3>2
  <2>7. Walk(on, n)
    <3>1. [i \in 0..n |-> IF i = 0 THEN <<>> ELSE Go(on[i - 1], h[i])] = [i \in 0..n |-> on[i]]
      BY <2>6
    <3>2. QED
      BY <3>1
  <2>8. QED
    BY <2>2, <2>7
<1>2. Len(h) \in Nat
  BY LenProperties
<1>3. \E at : Walk(at, Len(h))
  BY <1>1, <1>2
<1>4. Places(h) = CHOOSE at : Walk(at, Len(h))
  BY DEF Places
<1>5. Walk(Places(h), Len(h))
  <2> HIDE DEF Walk
  <2> QED BY <1>3, <1>4
<1>6. QED
  BY <1>2, <1>5

\* Induction along a path: what holds at its start and after each name holds at its end.
LEMMA AlongPath ==
  ASSUME NEW n \in Nat, NEW T \in SUBSET Nat, 0 \in T, \A i \in 1..n : i - 1 \in T => i \in T
  PROVE  \A i \in 0..n : i \in T
<1> DEFINE Missing == {i \in 0..n : i \notin T}
<1> SUFFICES ASSUME Missing # {} PROVE FALSE
  OBVIOUS
<1>1. Missing \subseteq Nat
  OBVIOUS
<1>2. PICK i \in Missing : \A j \in Missing : i <= j
  <2> HIDE DEF Missing
  <2> QED BY <1>1, Least
<1>3. i \in 0..n /\ i \notin T /\ i # 0 /\ i \in Nat
  OBVIOUS
<1>4. i - 1 \in 0..n /\ i - 1 \notin Missing
  <2> HIDE DEF Missing
  <2> QED BY <1>2, <1>3
<1>5. i - 1 \in T
  BY <1>4
<1>6. i \in 1..n
  BY <1>3
<1>7. QED
  BY <1>3, <1>5, <1>6

LEMMA GoIs ==
  ASSUME NEW at \in Seq(Names), NEW name \in Names
  PROVE  Go(at, name) \in Seq(Names)
<1>1. Append(at, name) \in Seq(Names)
  BY AppendProperties
<1>2. Parent(at) \in Seq(Names)
  <2>1. CASE at = <<>>
    <3>1. Len(at) = 0
      BY <2>1, EmptySeq
    <3>2. Parent(at) = <<>>
      BY <3>1, SubSeqEmpty DEF Parent
    <3>3. QED
      BY <3>2, EmptySeq
  <2>2. CASE at # <<>>
    BY <2>2, ParentIs
  <2>3. QED
    BY <2>1, <2>2
<1>3. QED
  BY <1>1, <1>2 DEF Go

LEMMA PlacesTyped ==
  ASSUME NEW h \in Seq(Names)
  PROVE  \A i \in 0..Len(h) : Places(h)[i] \in Seq(Names)
<1> DEFINE T == {i \in Nat : Places(h)[i] \in Seq(Names)}
<1>1. Len(h) \in Nat /\ \A i \in 1..Len(h) : h[i] \in Names
  BY LenProperties, ElementOfSeq
<1>2. 0 \in T
  BY PlacesAre, EmptySeq
<1>3. ASSUME NEW i \in 1..Len(h), i - 1 \in T PROVE i \in T
  <2>1. Places(h)[i] = Go(Places(h)[i - 1], h[i]) /\ i \in Nat
    BY PlacesAre, <1>1
  <2>2. Places(h)[i - 1] \in Seq(Names) /\ h[i] \in Names
    BY <1>1, <1>3
  <2>3. Places(h)[i] \in Seq(Names)
    BY <2>1, <2>2, GoIs
  <2>4. QED
    BY <2>1, <2>3
<1> HIDE DEF T
<1>4. \A i \in 0..Len(h) : i \in T
  <2>1. T \in SUBSET Nat
    BY DEF T
  <2>2. QED
    BY <1>1, <1>2, <1>3, <2>1, AlongPath
<1>5. QED
  BY <1>4 DEF T

\* A walk that goes down, and never up, stays below where it has come to.
LEMMA WalkDown ==
  ASSUME NEW h \in Seq(Names), NEW n \in 0..Len(h), \A i \in 1..n : h[i] \notin {Up, Here},
         \A i \in 1..Len(h) : h[i] # Up
  PROVE  n <= Len(Place(h)) /\ \A k \in 1..n : Place(h)[k] = h[k]
<1> DEFINE Kept(i) == LET at == Places(h)[i] IN
             /\ i <= n => Len(at) = i
             /\ n <= i => n <= Len(at)
             /\ \A k \in 1..n : k <= i => at[k] = h[k]
           T == {i \in 0..Len(h) : Kept(i)}
<1>1. Len(h) \in Nat /\ n \in Nat /\ n <= Len(h) /\ \A i \in 1..Len(h) : h[i] \in Names
  BY LenProperties, ElementOfSeq
<1>2. 0 \in T
  <2>1. Places(h)[0] = <<>> /\ Len(<<>>) = 0
    BY PlacesAre, EmptySeq
  <2>2. QED
    BY <1>1, <2>1
<1>3. ASSUME NEW i \in 1..Len(h), i - 1 \in T PROVE i \in T
  <2> DEFINE at == Places(h)[i - 1]
  <2>1. i - 1 \in 0..Len(h) /\ i \in Nat /\ i \in 0..Len(h) /\ Kept(i - 1)
    BY <1>1, <1>3
  <2>2. at \in Seq(Names) /\ Len(at) \in Nat /\ Places(h)[i] = Go(at, h[i])
    BY <2>1, PlacesTyped, PlacesAre, LenProperties
  <2>3. /\ i - 1 <= n => Len(at) = i - 1
        /\ n <= i - 1 => n <= Len(at)
        /\ \A k \in 1..n : k <= i - 1 => at[k] = h[k]
    BY <2>1
  <2> HIDE DEF at
  <2>4. CASE h[i] = Here
    <3>1. Places(h)[i] = at
      BY <2>2, <2>4, PathsAssumption DEF Go
    <3>2. ~(i <= n)
      BY <2>1, <2>4
    <3>3. n <= i - 1
      BY <1>1, <2>1, <3>2
    <3>4. \A k \in 1..n : k <= i - 1
      BY <1>1, <2>1, <3>3
    <3>5. Kept(i)
      BY <2>3, <3>1, <3>2, <3>3, <3>4
    <3>6. QED
      BY <2>1, <3>5
  <2>5. CASE h[i] # Here
    <3>1. Places(h)[i] = Append(at, h[i])
      BY <2>2, <2>5 DEF Go
    <3>2. /\ Len(Append(at, h[i])) = Len(at) + 1
          /\ \A k \in 1..Len(at) : Append(at, h[i])[k] = at[k]
          /\ Append(at, h[i])[Len(at) + 1] = h[i]
      BY <1>1, <2>2, AppendProperties
    <3>3. /\ i <= n => Len(Append(at, h[i])) = i
          /\ n <= i => n <= Len(Append(at, h[i]))
      BY <1>1, <2>1, <2>2, <2>3, <3>2
    <3>4. ASSUME NEW k \in 1..n, k <= i PROVE Append(at, h[i])[k] = h[k]
      <4>1. CASE k <= i - 1
        <5>1. k \in 1..Len(at)
          BY <1>1, <2>1, <2>2, <2>3, <4>1
        <5>2. QED
          BY <2>3, <3>2, <4>1, <5>1
      <4>2. CASE k = i
        <5>1. Len(at) + 1 = i
          BY <1>1, <2>1, <2>2, <2>3, <4>2
        <5>2. QED
          BY <3>2, <4>2, <5>1
      <4>3. k <= i - 1 \/ k = i
        BY <1>1, <3>4
      <4>4. QED
        BY <4>1, <4>2, <4>3
    <3>5. Kept(i)
      BY <3>1, <3>3, <3>4
    <3> HIDE DEF Kept
    <3>6. QED
      BY <2>1, <3>5
  <2>6. QED
    BY <2>4, <2>5
<1>4. T \in SUBSET Nat
  BY <1>1
<1> HIDE DEF T
<1>5. Len(h) \in T
  <2>1. \A i \in 0..Len(h) : i \in T
    BY <1>1, <1>2, <1>3, <1>4, AlongPath
  <2>2. QED
    BY <1>1, <2>1
<1>6. Kept(Len(h))
  BY <1>5 DEF T
<1>7. n <= Len(Places(h)[Len(h)]) /\ \A k \in 1..n : Places(h)[Len(h)][k] = h[k]
  BY <1>1, <1>6
<1>8. QED
  BY <1>1, <1>7 DEF Place

\* The walk to the parent is the walk without its last step.
LEMMA PlacesParent ==
  ASSUME NEW h \in Seq(Names), h # <<>>
  PROVE  \A i \in 0..(Len(h) - 1) : Places(Parent(h))[i] = Places(h)[i]
<1> DEFINE g == Parent(h)
           T == {i \in Nat : Places(g)[i] = Places(h)[i]}
<1>1. /\ Len(h) \in Nat \ {0} /\ g \in Seq(Names) /\ Len(g) = Len(h) - 1
      /\ \A i \in 1..(Len(h) - 1) : g[i] = h[i]
  BY ParentIs
<1> HIDE DEF g
<1>2. 0 \in T
  BY <1>1, PlacesAre
<1>3. ASSUME NEW i \in 1..(Len(h) - 1), i - 1 \in T PROVE i \in T
  <2>1. i \in Nat /\ i \in 1..Len(h) /\ i \in 1..Len(g)
    BY <1>1
  <2>2. Places(g)[i] = Go(Places(g)[i - 1], g[i]) /\ Places(h)[i] = Go(Places(h)[i - 1], h[i])
    BY <1>1, <2>1, PlacesAre
  <2>3. QED
    BY <1>1, <1>3, <2>1, <2>2
<1> HIDE DEF T
<1>4. T \in SUBSET Nat /\ Len(h) - 1 \in Nat
  BY <1>1 DEF T
<1>5. \A i \in 0..(Len(h) - 1) : i \in T
  BY <1>2, <1>3, <1>4, AlongPath
<1>6. QED
  BY <1>5 DEF T, g

\* A path leads to what its last name names where its parent leads.
LEMMA PlaceParent ==
  ASSUME NEW h \in Seq(Names), h # <<>>, h[Len(h)] \notin {Up, Here}
  PROVE  /\ Place(Parent(h)) \in Seq(Names) /\ h[Len(h)] \in Names
         /\ Place(h) = Append(Place(Parent(h)), h[Len(h)])
         /\ CanGo(h) <=> CanGo(Parent(h))
<1> DEFINE g == Parent(h)
           x == h[Len(h)]
           n == Len(h) - 1
<1>1. /\ Len(h) \in Nat \ {0} /\ g \in Seq(Names) /\ Len(g) = n
      /\ \A i \in 1..n : g[i] = h[i]
  BY ParentIs
<1>2. x \in Names /\ h = Append(g, x)
  BY LastName
<1>3. \A i \in 1..Len(h) : i \in 1..n \/ i = Len(h)
  BY <1>1
<1>4. n \in Nat /\ \A i \in 1..n : i \in 1..Len(h) /\ i - 1 \in 0..n
  BY <1>1
<1>5. Direct(h) <=> Direct(g)
  BY <1>1, <1>3, <1>4 DEF Direct
<1>6. Places(h)[Len(h)] = Append(Places(g)[n], x)
  <2>1. Places(h)[Len(h)] = Go(Places(h)[n], x)
    BY <1>1, PlacesAre
  <2>2. n \in 0..n /\ Places(h)[n] = Places(g)[n]
    BY <1>4, PlacesParent
  <2>3. QED
    BY <2>1, <2>2 DEF Go
<1>7. Place(g) \in Seq(Names) /\ Place(h) = Append(Place(g), x)
  <2>1. Places(g)[n] \in Seq(Names)
    BY <1>1, <1>4, PlacesTyped
  <2>2. QED
    BY <1>1, <1>2, <1>5, <1>6, <2>1 DEF Place
<1>8. CanGo(h) <=> CanGo(g)
  <2>1. \A i \in 1..n : Places(g)[i - 1] = Places(h)[i - 1] /\ g[i] = h[i]
    BY <1>1, <1>4, PlacesParent
  <2> HIDE DEF n, g
  <2>2. CanGo(h) <=> \A i \in 1..n : h[i] = Up => Node(Places(h)[i - 1]) = "dir"
    BY <1>3, <1>4 DEF CanGo, n
  <2>3. CanGo(g) <=> \A i \in 1..n : g[i] = Up => Node(Places(g)[i - 1]) = "dir"
    BY <1>1 DEF CanGo
  <2>4. QED
    BY <2>1, <2>2, <2>3
<1>9. QED
  BY <1>2, <1>7, <1>8

\* A direct path leads where it says, and there always is a way.
LEMMA DirectPlace ==
  ASSUME NEW h, Direct(h)
  PROVE  Place(h) = h /\ CanGo(h)
BY DEF Place, CanGo, Direct

---------------------------------------------------------------------------
(* Mounts and the paths they cover *)

MountsTyped ==
  DOMAIN mounts \subseteq VPaths /\ \A m \in DOMAIN mounts : mounts[m].host \in HPaths /\ Direct(m)

\* Where a mount covers a path, one of them is the longest.
LEMMA MountOfCovers ==
  ASSUME MountsTyped, NEW p \in VPaths, Covering(p) # {}
  PROVE  MountOf(p) \in Covering(p) /\ \A n \in Covering(p) : Len(n) <= Len(MountOf(p))
<1> DEFINE T == {n \in Nat : \E m \in Covering(p) : n = Len(p) - Len(m)}
<1>1. \A m \in Covering(p) : Len(m) \in Nat /\ Len(p) - Len(m) \in Nat
  <2> SUFFICES ASSUME NEW m \in Covering(p) PROVE Len(m) \in Nat /\ Len(p) - Len(m) \in Nat
    OBVIOUS
  <2>1. m \in Seq(Names) /\ p \in Seq(Names) /\ Under(p, m)
    BY PathsAssumption DEF MountsTyped, Covering
  <2>2. Len(m) \in Nat /\ Len(p) \in Nat
    BY <2>1, LenProperties
  <2>3. QED
    BY <2>1, <2>2 DEF Under
<1>2. T # {} /\ T \subseteq Nat
  BY <1>1
<1>3. PICK x \in T : \A y \in T : x <= y
  <2> HIDE DEF T
  <2> QED BY <1>2, Least
<1>4. PICK m \in Covering(p) : x = Len(p) - Len(m)
  BY <1>3
<1>5. \A n \in Covering(p) : Len(n) <= Len(m)
  <2> SUFFICES ASSUME NEW n \in Covering(p) PROVE Len(n) <= Len(m)
    OBVIOUS
  <2>1. Len(p) - Len(n) \in T
    BY <1>1
  <2>2. Len(p) - Len(m) <= Len(p) - Len(n)
    BY <1>3, <1>4, <2>1
  <2>3. Len(p) \in Nat
    BY PathsAssumption, LenProperties
  <2>4. QED
    BY <1>1, <2>2, <2>3
<1>6. QED
  BY <1>4, <1>5 DEF MountOf

\* The path on the host starts with the host directory of the mount and goes on as the path does.
LEMMA JoinedIs ==
  ASSUME MountsTyped, NEW p \in VPaths, Covering(p) # {}
  PROVE  LET m == MountOf(p)
             h == HostOf(p)
             j == JoinedPath(p)
         IN  /\ m \in DOMAIN mounts /\ Under(p, m) /\ h \in HPaths /\ j \in Seq(Names)
             /\ Len(h) \in Nat /\ Len(m) \in Nat /\ Len(p) \in Nat /\ Len(m) <= Len(p)
             /\ Len(j) = Len(h) + (Len(p) - Len(m)) /\ (p # m => Len(m) < Len(p))
             /\ \A i \in 1..Len(h) : j[i] = h[i]
             /\ \A i \in 1..(Len(p) - Len(m)) : j[Len(h) + i] = p[Len(m) + i]
<1> DEFINE m == MountOf(p)
           h == HostOf(p)
<1>1. m \in DOMAIN mounts /\ Under(p, m)
  BY MountOfCovers DEF Covering
<1>2. p \in Seq(Names) /\ m \in Seq(Names) /\ h \in HPaths /\ h \in Seq(Names)
  BY <1>1, PathsAssumption DEF MountsTyped, HostOf
<1>3. JoinedPath(p) = h \o Relative(p, m)
  BY DEF JoinedPath
<1> HIDE DEF m, h
<1>4. /\ Len(h) \in Nat /\ Len(p) \in Nat /\ Len(m) \in Nat /\ Len(m) <= Len(p)
      /\ h \o Relative(p, m) \in Seq(Names) /\ Len(h \o Relative(p, m)) = Len(h) + (Len(p) - Len(m))
      /\ \A i \in 1..Len(h) : (h \o Relative(p, m))[i] = h[i]
      /\ \A i \in 1..(Len(p) - Len(m)) : (h \o Relative(p, m))[Len(h) + i] = p[Len(m) + i]
  BY <1>1, <1>2, Joined
<1>5. p # m => Len(m) < Len(p)
  BY <1>1, <1>2, UnderProper
<1>6. QED
  BY <1>1, <1>2, <1>3, <1>4, <1>5 DEF m, h

\* Its names are those of the path and those of a direct path.
LEMMA JoinedNames ==
  ASSUME MountsTyped, NEW p \in VPaths, Covering(p) # {}, NEW i \in 1..Len(JoinedPath(p))
  PROVE  JoinedPath(p)[i] \notin {Up, Here} \/ \E k \in 1..Len(p) : JoinedPath(p)[i] = p[k]
<1> DEFINE m == MountOf(p)
           h == HostOf(p)
           j == JoinedPath(p)
<1>1. /\ h \in HPaths /\ Len(h) \in Nat /\ Len(m) \in Nat /\ Len(p) \in Nat /\ Len(m) <= Len(p)
      /\ Len(j) = Len(h) + (Len(p) - Len(m))
      /\ \A k \in 1..Len(h) : j[k] = h[k]
      /\ \A k \in 1..(Len(p) - Len(m)) : j[Len(h) + k] = p[Len(m) + k]
  BY JoinedIs
<1>2. \A k \in 1..Len(h) : h[k] \notin {Up, Here}
  BY <1>1, PathsAssumption DEF Direct
<1> HIDE DEF m, h
<1>3. CASE i <= Len(h)
  BY <1>1, <1>2, <1>3
<1>4. CASE ~(i <= Len(h))
  <2> DEFINE k == i - Len(h)
  <2>1. k \in 1..(Len(p) - Len(m)) /\ i = Len(h) + k /\ Len(m) + k \in 1..Len(p)
    BY <1>1, <1>4
  <2>2. j[i] = p[Len(m) + k]
    BY <1>1, <2>1
  <2>3. QED
    BY <2>1, <2>2
<1>5. QED
  BY <1>3, <1>4

\* A direct path leads below the host directory of its mount, and strictly
\* below unless the path is the mount root.
LEMMA HostPathUnder ==
  ASSUME MountsTyped, NEW p \in VPaths, Covering(p) # {}, Direct(p)
  PROVE  /\ MountOf(p) \in DOMAIN mounts /\ HostOf(p) \in Seq(Names) /\ HostPath(p) \in Seq(Names)
         /\ Direct(JoinedPath(p)) /\ HostPath(p) = JoinedPath(p) /\ CanGo(JoinedPath(p))
         /\ Under(HostPath(p), HostOf(p))
         /\ p \notin DOMAIN mounts => Len(HostOf(p)) < Len(HostPath(p))
<1>1. Direct(JoinedPath(p))
  BY JoinedNames DEF Direct
<1>2. HostPath(p) = JoinedPath(p) /\ CanGo(JoinedPath(p))
  BY <1>1, DirectPlace DEF HostPath
<1>3. Under(JoinedPath(p), HostOf(p))
  BY JoinedIs DEF Under
<1>4. p \notin DOMAIN mounts => Len(HostOf(p)) < Len(JoinedPath(p))
  BY JoinedIs
<1>5. QED
  BY <1>1, <1>2, <1>3, <1>4, JoinedIs, PathsAssumption

\* What resolves is at or below the host directory of its mount: `resolve` looks, and a path
\* that `resolve_write_deep` takes never goes up.
LEMMA ResolvedUnder ==
  ASSUME MountsTyped, NEW p \in VPaths, Resolves(p) \/ ResolvesDeep(p)
  PROVE  MountOf(p) \in DOMAIN mounts /\ HostOf(p) \in HPaths /\ Under(HostPath(p), HostOf(p))
<1>1. Covering(p) # {}
  BY DEF Resolves, ResolvesDeep
<1>2. MountOf(p) \in DOMAIN mounts /\ HostOf(p) \in HPaths
  BY <1>1, JoinedIs
<1>3. CASE Resolves(p)
  BY <1>2, <1>3 DEF Resolves
<1>4. CASE ResolvesDeep(p)
  <2> DEFINE j == JoinedPath(p)
             h == HostOf(p)
  <2>1. /\ h \in HPaths /\ j \in Seq(Names) /\ Len(h) \in Nat /\ Len(h) <= Len(j)
        /\ \A i \in 1..Len(h) : j[i] = h[i]
    BY <1>1, JoinedIs
  <2>2. \A i \in 1..Len(h) : j[i] \notin {Up, Here}
    BY <2>1, PathsAssumption DEF Direct
  <2>3. \A i \in 1..Len(j) : j[i] # Up
    BY <1>1, <1>4, JoinedNames DEF ResolvesDeep
  <2> HIDE DEF j, h
  <2>4. Len(h) \in 0..Len(j)
    BY <2>1, LenProperties
  <2>5. Len(h) <= Len(Place(j)) /\ \A k \in 1..Len(h) : Place(j)[k] = j[k]
    BY <2>1, <2>2, <2>3, <2>4, WalkDown
  <2>6. QED
    BY <1>2, <2>1, <2>5 DEF HostPath, Under, j, h
<1>5. QED
  BY <1>3, <1>4

\* What is there has a path.
LEMMA PresentIsPath ==
  ASSUME NEW h, Present(h) \/ h \in HPaths
  PROVE  h \in Seq(Names)
BY PathsAssumption, EmptySeq DEF Present, Node

---------------------------------------------------------------------------
(* The inductive invariant.  An operation may recreate a directory above   *)
(* the host directory of a mount, but only one that a script had removed   *)
(* through a read-write mount.                                             *)

WritableHost(h) == \E m \in DOMAIN mounts : mounts[m].perm = "rw" /\ Under(h, mounts[m].host)

Mounting ==
  phase = "mounting" =>
    /\ host \in InitialHosts /\ ownTmp = FALSE
    /\ \A m \in DOMAIN mounts : host[mounts[m].host] # "absent"

OwnTmpMounted ==
  ownTmp => Tmp \in DOMAIN mounts /\ mounts[Tmp].host = TmpHost /\ mounts[Tmp].perm = "rw"

AncestorsKept ==
  phase = "built" =>
    \A m \in DOMAIN mounts, g \in HPaths :
      Under(mounts[m].host, g) /\ host[g] = "absent" => WritableHost(g)

IInv ==
  /\ phase \in {"mounting", "built", "dropped"} /\ host \in [HPaths -> Nodes]
  /\ MountsTyped /\ Mounting /\ OwnTmpMounted /\ AncestorsKept

HostChanges ==
  \A h \in HPaths : host'[h] # host[h] =>
    \E m \in DOMAIN mounts' : mounts'[m].perm = "rw" /\ Under(h, mounts'[m].host)

\* What resolves for writing is below a read-write mount.
LEMMA WriteTarget ==
  ASSUME MountsTyped, NEW p \in VPaths, ResolvesWrite(p) \/ ResolvesDeep(p), HostPath(p) \in Seq(Names),
         NEW g \in HPaths, Under(g, HostPath(p))
  PROVE  WritableHost(g)
<1>1. mounts[MountOf(p)].perm = "rw" /\ MountOf(p) \in DOMAIN mounts
      /\ HostOf(p) \in HPaths /\ Under(HostPath(p), HostOf(p))
  BY ResolvedUnder DEF ResolvesWrite, ResolvesDeep, ReadWrite
<1>2. g \in Seq(Names) /\ HostOf(p) \in Seq(Names)
  BY <1>1, PathsAssumption
<1>3. Under(g, HostOf(p))
  BY <1>1, <1>2, UnderTransitive
<1>4. QED
  BY <1>1, <1>3 DEF WritableHost, HostOf

\* A step that keeps the mounts and changes only what is writable
LEMMA ScriptStep ==
  ASSUME IInv, phase = "built", UNCHANGED <<phase, mounts, ownTmp>>, host' \in [HPaths -> Nodes],
         \A h \in HPaths : host'[h] # host[h] => WritableHost(h)
  PROVE  IInv' /\ HostChanges
<1>1. HostChanges
  BY DEF HostChanges, WritableHost
<1>2. AncestorsKept'
  BY DEF IInv, AncestorsKept, WritableHost
<1>3. QED
  BY <1>1, <1>2 DEF IInv, MountsTyped, Mounting, OwnTmpMounted

LEMMA WritesStep ==
  ASSUME IInv, NEW p \in VPaths, NEW filled \in Files,
         Write(p, filled) \/ WriteFails(p) \/ Remove(p) \/ RemoveFails(p)
  PROVE  IInv' /\ HostChanges
<1>1. ResolvesWrite(p) /\ phase = "built" /\ UNCHANGED <<phase, mounts, ownTmp>>
  BY DEF Write, WriteFails, Remove, RemoveFails, CanRemove, CanWrite, Fs
<1>2. HostPath(p) \in Seq(Names) /\ MountsTyped
  BY PresentIsPath DEF IInv, Write, WriteFails, Remove, RemoveFails, CanRemove, CanHoldFile
<1>3. host' \in [HPaths -> Nodes] /\ \A h \in HPaths : host'[h] # host[h] => Under(h, HostPath(p))
  <2>1. CASE Write(p, filled) \/ WriteFails(p)
    BY <1>2, <2>1, UnderItself DEF Write, WriteFails, Put, Nodes, Files, IInv
  <2>2. CASE Remove(p)
    BY <2>2 DEF Remove, RemoveTree, Nodes, IInv
  <2>3. CASE RemoveFails(p)
    <3>1. PICK g \in HPaths : Under(g, HostPath(p)) /\ host' = RemoveTree(g)
      BY <2>3 DEF RemoveFails
    <3>2. \A h \in HPaths : Under(h, g) => Under(h, HostPath(p))
      BY <1>2, <3>1, UnderTransitive, PathsAssumption
    <3>3. QED
      BY <3>1, <3>2 DEF RemoveTree, Nodes, IInv
  <2>4. QED
    BY <2>1, <2>2, <2>3
<1>4. \A h \in HPaths : host'[h] # host[h] => WritableHost(h)
  BY <1>1, <1>2, <1>3, WriteTarget
<1>5. QED
  BY <1>1, <1>3, <1>4, ScriptStep

LEMMA MkdirStep ==
  ASSUME IInv, NEW p \in VPaths, Mkdir(p) \/ MkdirFails(p)
  PROVE  IInv' /\ HostChanges
<1> DEFINE m == MountOf(p)
<1>1. ResolvesDeep(p) /\ phase = "built" /\ UNCHANGED <<phase, mounts, ownTmp>> /\ HostPath(p) \in HPaths
  BY DEF Mkdir, MkdirFails, CanMkdir, Fs, CanMakeDirs
<1>2. HostPath(p) \in Seq(Names)
  BY <1>1, PathsAssumption
<1>3. PICK target \in HPaths : Under(HostPath(p), target) /\ host' = MakeDirs(target)
  BY <1>1, <1>2, UnderItself DEF Mkdir, MkdirFails
<1>4. /\ m \in DOMAIN mounts /\ mounts[m].perm = "rw" /\ mounts[m].host \in HPaths
      /\ Under(HostPath(p), mounts[m].host)
  BY <1>1, ResolvedUnder DEF IInv, ResolvesDeep, ReadWrite, HostOf
<1> HIDE DEF m
<1>5. host' \in [HPaths -> Nodes]
      /\ \A g \in HPaths : host'[g] # host[g] => Under(target, g) /\ host[g] = "absent"
  BY <1>3 DEF MakeDirs, IInv, Nodes
<1>6. ASSUME NEW g \in HPaths, host'[g] # host[g] PROVE WritableHost(g)
  <2>1. target \in Seq(Names) /\ g \in Seq(Names) /\ mounts[m].host \in Seq(Names)
    BY <1>3, <1>4, PathsAssumption
  <2>2. Under(HostPath(p), g) /\ host[g] = "absent"
    BY <1>2, <1>3, <1>5, <1>6, <2>1, UnderTransitive
  <2>3. Under(g, mounts[m].host) \/ Under(mounts[m].host, g)
    BY <1>2, <1>4, <2>1, <2>2, BothAbove
  <2>4. QED
    BY <1>1, <1>4, <2>2, <2>3 DEF WritableHost, IInv, AncestorsKept
<1>7. QED
  BY <1>1, <1>5, <1>6, ScriptStep

LEMMA RenameStep ==
  ASSUME IInv, NEW src \in VPaths, NEW dst \in VPaths, Rename(src, dst)
  PROVE  IInv' /\ HostChanges
<1>1. /\ ResolvesWrite(src) /\ ResolvesWrite(dst) /\ phase = "built" /\ MountsTyped
      /\ UNCHANGED <<phase, mounts, ownTmp>> /\ host' = MoveTree(HostPath(src), HostPath(dst))
      /\ HostPath(src) \in Seq(Names) /\ HostPath(dst) \in Seq(Names)
  BY PresentIsPath DEF Rename, CanRename, CanWrite, CanMove, Fs, IInv
<1>2. host' \in [HPaths -> Nodes]
  BY <1>1 DEF MoveTree, Node, Nodes, IInv
<1>3. \A h \in HPaths : host'[h] # host[h] => Under(h, HostPath(src)) \/ Under(h, HostPath(dst))
  BY <1>1 DEF MoveTree, IInv
<1>4. \A h \in HPaths : host'[h] # host[h] => WritableHost(h)
  BY <1>1, <1>3, WriteTarget
<1>5. QED
  BY <1>1, <1>2, <1>4, ScriptStep

LEMMA CopyStep ==
  ASSUME IInv, NEW src \in VPaths, NEW dst \in VPaths, Copy(src, dst)
  PROVE  IInv' /\ HostChanges
<1>1. /\ ResolvesWrite(dst) /\ phase = "built" /\ MountsTyped /\ UNCHANGED <<phase, mounts, ownTmp>>
      /\ HostPath(dst) \in HPaths /\ Node(HostPath(src)) \in Files
  BY DEF Copy, CanCopy, CanWrite, CanHoldFile, Fs, IInv
<1>2. HostPath(src) \in HPaths
  BY <1>1 DEF Node, Files
<1>3. \E node \in Nodes : Put(HostPath(dst), node)
  BY <1>2 DEF Copy, IInv, Nodes
<1>4. host' \in [HPaths -> Nodes] /\ \A h \in HPaths : host'[h] # host[h] => h = HostPath(dst)
  BY <1>1, <1>3 DEF Put, IInv
<1>5. \A h \in HPaths : host'[h] # host[h] => WritableHost(h)
  BY <1>1, <1>4, UnderItself, PathsAssumption, WriteTarget
<1>6. QED
  BY <1>1, <1>4, <1>5, ScriptStep

LEMMA MountingStep ==
  ASSUME IInv, NEW v \in MountPoints, NEW h \in MountHosts, NEW perm, AddMount(v, h, perm)
  PROVE  IInv' /\ HostChanges
<1>1. phase = "mounting" /\ phase' = phase /\ host' = host /\ ownTmp' = ownTmp /\ host[h] # "absent"
  BY PathsAssumption DEF AddMount, Present, Node
<1>2. /\ DOMAIN mounts' = DOMAIN mounts \cup {v}
      /\ \A m \in DOMAIN mounts' : mounts'[m].host = IF m = v THEN h ELSE mounts[m].host
  BY DEF AddMount, Mounted
<1>3. v \in VPaths /\ h \in HPaths /\ Direct(v)
  BY PathsAssumption
<1>4. QED
  BY <1>1, <1>2, <1>3 DEF IInv, MountsTyped, Mounting, OwnTmpMounted, AncestorsKept, HostChanges

\* build() finds everything above a mount in its place.
LEMMA BuildStep ==
  ASSUME IInv, NEW auto_tmp \in BOOLEAN, Build(auto_tmp)
  PROVE  IInv' /\ HostChanges
<1>1. phase = "mounting" /\ phase' = "built" /\ MountsTyped /\ ownTmp = FALSE
  BY DEF Build, IInv, Mounting
<1>2. \A m \in DOMAIN mounts, g \in HPaths : Under(mounts[m].host, g) => host[g] # "absent"
  BY <1>1, HostsAssumption DEF IInv, Mounting, MountsTyped
<1>3. CASE mounts' = Mounted(Tmp, TmpHost, "rw") /\ host' = MakeDirs(TmpHost)
  <2>1. /\ DOMAIN mounts' = DOMAIN mounts \cup {Tmp}
        /\ \A m \in DOMAIN mounts' : mounts'[m] = IF m = Tmp THEN [host |-> TmpHost, perm |-> "rw"] ELSE mounts[m]
    BY <1>3 DEF Mounted
  <2>2. /\ host' \in [HPaths -> Nodes]
        /\ \A g \in HPaths : host'[g] = "absent" => host[g] = "absent" /\ ~Under(TmpHost, g)
        /\ \A g \in HPaths : host'[g] # host[g] => Under(TmpHost, g) /\ host[g] = "absent"
    BY <1>3 DEF MakeDirs, IInv, Nodes
  <2>3. AncestorsKept'
    BY <1>2, <2>1, <2>2 DEF AncestorsKept
  <2>4. \A g \in HPaths : host'[g] # host[g] => g = TmpHost
    BY <1>1, <2>2, HostsAssumption DEF IInv, Mounting
  <2>5. HostChanges
    <3>1. Tmp \in DOMAIN mounts' /\ mounts'[Tmp].host = TmpHost /\ mounts'[Tmp].perm = "rw"
      BY <2>1
    <3>2. Under(TmpHost, TmpHost)
      BY UnderItself, PathsAssumption
    <3>3. QED
      BY <2>4, <3>1, <3>2 DEF HostChanges
  <2>6. QED
    BY <1>1, <2>1, <2>2, <2>3, <2>5, PathsAssumption DEF IInv, MountsTyped, Mounting, OwnTmpMounted
<1>4. CASE /\ mounts' = mounts /\ ownTmp' = ownTmp
           /\ ResolvesDeep(Tmp) /\ CanMakeDirs(HostPath(Tmp)) /\ host' = MakeDirs(HostPath(Tmp))
  <2> DEFINE m == MountOf(Tmp)
             target == HostPath(Tmp)
  <2>1. /\ m \in DOMAIN mounts /\ mounts[m].perm = "rw" /\ mounts[m].host \in HPaths
        /\ Under(target, mounts[m].host) /\ target \in HPaths
    BY <1>1, <1>4, ResolvedUnder, PathsAssumption DEF ResolvesDeep, ReadWrite, CanMakeDirs, HostOf
  <2> HIDE DEF m, target
  <2>2. /\ host' \in [HPaths -> Nodes]
        /\ \A g \in HPaths : host'[g] = "absent" => host[g] = "absent"
        /\ \A g \in HPaths : host'[g] # host[g] => Under(target, g) /\ host[g] = "absent"
    BY <1>4 DEF MakeDirs, IInv, Nodes, target
  <2>3. AncestorsKept'
    BY <1>2, <1>4, <2>2 DEF AncestorsKept
  <2>4. ASSUME NEW g \in HPaths, host'[g] # host[g] PROVE Under(g, mounts[m].host)
    <3>1. Under(target, g) /\ ~Under(mounts[m].host, g)
      BY <1>2, <2>1, <2>2, <2>4
    <3>2. target \in Seq(Names) /\ g \in Seq(Names) /\ mounts[m].host \in Seq(Names)
      BY <2>1, PathsAssumption
    <3>3. QED
      BY <2>1, <3>1, <3>2, LenProperties DEF Under
  <2>5. HostChanges
    BY <1>4, <2>1, <2>4 DEF HostChanges
  <2>6. QED
    BY <1>1, <1>4, <2>2, <2>3, <2>5 DEF IInv, MountsTyped, Mounting, OwnTmpMounted
<1>5. CASE mounts' = mounts /\ ownTmp' = ownTmp /\ host' = host
  BY <1>1, <1>2, <1>5 DEF IInv, MountsTyped, Mounting, OwnTmpMounted, AncestorsKept, HostChanges
<1>6. QED
  BY <1>3, <1>4, <1>5 DEF Build

LEMMA DropStep ==
  ASSUME IInv, Drop
  PROVE  IInv' /\ HostChanges
BY DEF Drop, RemoveTree, IInv, MountsTyped, Mounting, OwnTmpMounted, AncestorsKept, HostChanges, Nodes

LEMMA ReadsStep ==
  ASSUME IInv, UNCHANGED <<phase, mounts, host, ownTmp>>
  PROVE  IInv' /\ HostChanges
<1>1. AncestorsKept'
  BY DEF IInv, AncestorsKept, WritableHost
<1>2. QED
  BY <1>1 DEF IInv, MountsTyped, Mounting, OwnTmpMounted, HostChanges

LEMMA StepInv == IInv /\ [Next]_vars => IInv' /\ HostChanges
<1> SUFFICES ASSUME IInv, [Next]_vars PROVE IInv' /\ HostChanges
  OBVIOUS
<1>1. ASSUME NEW v \in MountPoints, NEW h \in MountHosts, NEW perm \in {"ro", "rw"}, AddMount(v, h, perm)
      PROVE  IInv' /\ HostChanges
  BY <1>1, MountingStep
<1>2. ASSUME NEW auto_tmp \in BOOLEAN, Build(auto_tmp) PROVE IInv' /\ HostChanges
  BY <1>2, BuildStep
<1>3. CASE Drop
  BY <1>3, DropStep
<1>4. ASSUME NEW p \in VPaths, Read(p) \/ List(p) PROVE IInv' /\ HostChanges
  BY <1>4, ReadsStep DEF Read, List, Fs
<1>5. ASSUME NEW p \in VPaths, Mkdir(p) \/ MkdirFails(p) PROVE IInv' /\ HostChanges
  BY <1>5, MkdirStep
<1>6. ASSUME NEW p \in VPaths, NEW filled \in Files,
             Write(p, filled) \/ WriteFails(p) \/ Remove(p) \/ RemoveFails(p)
      PROVE  IInv' /\ HostChanges
  BY <1>6, WritesStep
<1>7. ASSUME NEW src \in VPaths, NEW dst \in VPaths, Rename(src, dst) \/ Copy(src, dst)
      PROVE  IInv' /\ HostChanges
  BY <1>7, RenameStep, CopyStep
<1>8. CASE UNCHANGED vars
  BY <1>8, ReadsStep DEF vars
<1>9. "data" \in Files
  BY DEF Files
<1>10. QED
  BY <1>1, <1>2, <1>3, <1>4, <1>5, <1>6, <1>7, <1>8, <1>9 DEF Next

LEMMA InitInv == Init => IInv
BY PathsAssumption DEF Init, IInv, MountsTyped, Mounting, OwnTmpMounted, AncestorsKept

THEOREM InvariantHolds == Spec => []IInv
BY InitInv, StepInv, PTL DEF Spec

\* Whatever scripts do, only the host directories of read-write mounts change.
THEOREM OnlyWritableHostChangesAlways == Spec => OnlyWritableHostChanges
<1>1. IInv /\ [Next]_vars => [HostChanges]_vars
  BY StepInv
<1>2. QED
  BY InvariantHolds, <1>1, PTL DEF Spec, OnlyWritableHostChanges, HostChanges

---------------------------------------------------------------------------
(* Mounts stay *)

\* Where no two mounts overlap, no direct path but a mount root leads to the
\* host directory of a mount or to a directory above it.
LEMMA NotAboveMount ==
  ASSUME MountsTyped, HostsDisjoint, NEW p \in VPaths, p \notin DOMAIN mounts, Covering(p) # {}, Direct(p),
         NEW n \in DOMAIN mounts
  PROVE  ~Under(mounts[n].host, HostPath(p))
<1> DEFINE m == MountOf(p)
<1>1. /\ m \in DOMAIN mounts /\ Under(HostPath(p), mounts[m].host)
      /\ Len(mounts[m].host) < Len(HostPath(p)) /\ HostPath(p) \in Seq(Names)
      /\ mounts[m].host \in Seq(Names) /\ mounts[n].host \in Seq(Names)
  BY HostPathUnder, PathsAssumption DEF MountsTyped, HostOf
<1> SUFFICES ASSUME Under(mounts[n].host, HostPath(p)) PROVE FALSE
  OBVIOUS
<1>2. Under(mounts[n].host, mounts[m].host)
  BY <1>1, UnderTransitive
<1>3. n # m
  BY <1>1, LenProperties DEF Under
<1>4. QED
  BY <1>1, <1>2, <1>3 DEF HostsDisjoint

\* A step of a script is one of the fs operations, and only those write through a path.
LEMMA ScriptsDo ==
  ASSUME [Next]_vars, phase = "built", phase' = "built"
  PROVE  /\ UNCHANGED <<phase, mounts, ownTmp>>
         /\ \/ host' = host
            \/ \E p \in VPaths : Remove(p) \/ RemoveFails(p) \/ Mkdir(p) \/ MkdirFails(p)
            \/ \E p \in VPaths : WriteFails(p) \/ \E filled \in Files : Write(p, filled)
            \/ \E src, dst \in VPaths : Rename(src, dst) \/ Copy(src, dst)
<1> USE DEF Fs
<1>1. ASSUME Next PROVE /\ UNCHANGED <<phase, mounts, ownTmp>>
  BY <1>1 DEF Next, AddMount, Build, Drop, Read, List, Mkdir, MkdirFails, Remove, RemoveFails, WriteFails,
              Write, Rename, Copy
<1>2. CASE UNCHANGED vars
  BY <1>2 DEF vars
<1>3. CASE Next
  BY <1>1, <1>3 DEF Next, AddMount, Build, Drop, Read, List
<1>4. QED
  BY <1>2, <1>3

\* An operation through direct paths leaves the mounts in place.
LEMMA DirectlyStays ==
  ASSUME IInv, [Next]_vars, phase = "built", phase' = "built", HostsDisjoint, ~indirect',
         NEW n \in DOMAIN mounts, host[mounts[n].host] # "absent"
  PROVE  host'[mounts[n].host] # "absent"
<1> DEFINE h == mounts[n].host
<1>1. h \in HPaths /\ h \in Seq(Names) /\ host \in [HPaths -> Nodes] /\ host[h] # "absent" /\ MountsTyped
  BY PathsAssumption DEF IInv, MountsTyped
<1>2. ASSUME NEW p \in VPaths, CanRename(p), Direct(p) PROVE ~Under(h, HostPath(p))
  BY <1>1, <1>2, NotAboveMount DEF CanRename, CanWrite, ResolvesWrite, Resolves, NotMountRoot
<1> HIDE DEF h
<1>3. ASSUME NEW p \in VPaths, Remove(p) PROVE host'[h] # "absent"
  BY <1>1, <1>2, <1>3 DEF Remove, CanRemove, CanRename, RemoveTree, Through
<1>4. ASSUME NEW p \in VPaths, RemoveFails(p) PROVE host'[h] # "absent"
  <2>1. CanRename(p) /\ Direct(p) /\ HostPath(p) \in Seq(Names)
    BY <1>4, PresentIsPath DEF RemoveFails, CanRemove, CanRename, Through
  <2>2. PICK g \in HPaths : Under(g, HostPath(p)) /\ host' = RemoveTree(g)
    BY <1>4 DEF RemoveFails
  <2>3. ~Under(h, g)
    BY <1>1, <1>2, <2>1, <2>2, UnderTransitive, PathsAssumption
  <2>4. QED
    BY <1>1, <2>2, <2>3 DEF RemoveTree
<1>5. ASSUME NEW src \in VPaths, NEW dst \in VPaths, Rename(src, dst) PROVE host'[h] # "absent"
  BY <1>1, <1>2, <1>5 DEF Rename, MoveTree, Through
<1>6. ASSUME NEW src \in VPaths, NEW dst \in VPaths, Copy(src, dst) PROVE host'[h] # "absent"
  BY <1>1, <1>6 DEF Copy, CanCopy, Node, Put, Files
<1>7. ASSUME NEW p \in VPaths, NEW filled \in Files,
             Write(p, filled) \/ WriteFails(p) \/ Mkdir(p) \/ MkdirFails(p)
      PROVE  host'[h] # "absent"
  BY <1>1, <1>7 DEF Write, WriteFails, Mkdir, MkdirFails, Put, MakeDirs, Files
<1>8. "data" \in Files
  BY DEF Files
<1>9. QED
  BY <1>1, <1>3, <1>4, <1>5, <1>6, <1>7, <1>8, ScriptsDo DEF h

\* No operation reaches into a read-only mount.
LEMMA ReadOnlyStays ==
  ASSUME IInv, [Next]_vars, phase = "built", phase' = "built", HostsDisjoint,
         NEW n \in DOMAIN mounts, mounts[n].perm = "ro"
  PROVE  host'[mounts[n].host] = host[mounts[n].host]
<1>1. mounts' = mounts /\ mounts[n].host \in HPaths /\ HostChanges
  BY ScriptsDo, StepInv DEF IInv, MountsTyped
<1>2. QED
  BY <1>1 DEF HostChanges, HostsDisjoint

\* Mounts that do not overlap on the host are not removed, renamed or made a file through a
\* direct path, nor the read-only ones through any path (core/src/sandbox.rs, fs.remove and
\* fs.rename).
THEOREM MountsStayAlways == Spec => MountsStay
<1>1. ASSUME IInv, [Next]_vars, phase = "built", phase' = "built", HostsDisjoint, NEW m \in DOMAIN mounts,
             Present(mounts[m].host), mounts[m].perm = "ro" \/ ~indirect'
      PROVE  Present(mounts[m].host)'
  <2>1. mounts' = mounts /\ mounts[m].host \in HPaths
    BY <1>1, ScriptsDo DEF IInv, MountsTyped
  <2>2. host[mounts[m].host] # "absent"
    BY <1>1, <2>1 DEF Present, Node
  <2>3. host'[mounts[m].host] # "absent"
    BY <1>1, <2>2, DirectlyStays, ReadOnlyStays
  <2>4. QED
    BY <2>1, <2>3 DEF Present, Node
<1>2. IInv /\ [Next]_vars =>
        [phase = "built" /\ phase' = "built" /\ HostsDisjoint =>
           \A m \in DOMAIN mounts :
             Present(mounts[m].host) /\ (mounts[m].perm = "ro" \/ ~indirect') => Present(mounts[m].host)']_vars
  BY <1>1
<1>3. QED
  BY InvariantHolds, <1>2, PTL DEF Spec, MountsStay

---------------------------------------------------------------------------
(* The host stays a tree *)

\* A path of the host has its parent there, or is below the root.
LEMMA HostParent ==
  ASSUME NEW h \in HPaths
  PROVE  h \in Seq(Names) /\ h # <<>> /\ (Parent(h) \in HPaths \/ Parent(h) = <<>>) /\ <<>> \notin HPaths
BY PathsAssumption

LEMMA PutTree ==
  ASSUME host \in [HPaths -> Nodes], HostIsTree, NEW h, CanHoldFile(h), NEW node \in Files, Put(h, node)
  PROVE  HostIsTree'
<1>1. SUFFICES ASSUME NEW c \in HPaths, host'[c] # "absent", Parent(c) \in HPaths
               PROVE  host'[Parent(c)] = "dir"
  BY DEF HostIsTree
<1>2. /\ h \in HPaths /\ host[h] # "dir" /\ (Parent(h) \in HPaths => host[Parent(h)] = "dir")
      /\ \A g \in HPaths : host'[g] = IF g = h THEN node ELSE host[g]
  BY DEF CanHoldFile, Node, Put
<1>3. Len(Parent(c)) = Len(c) - 1 /\ Len(c) \in Nat
  BY <1>1, HostParent, ParentIs
<1>4. Parent(c) # c
  BY <1>3
<1>5. QED
  BY <1>1, <1>2, <1>4 DEF HostIsTree

LEMMA MakeDirsTree ==
  ASSUME host \in [HPaths -> Nodes], HostIsTree, NEW h \in HPaths,
         \A g \in HPaths : Under(h, g) => host[g] \notin Files,
         host' = MakeDirs(h)
  PROVE  HostIsTree'
<1>1. SUFFICES ASSUME NEW c \in HPaths, host'[c] # "absent", Parent(c) \in HPaths
               PROVE  host'[Parent(c)] = "dir"
  BY DEF HostIsTree
<1>2. \A g \in HPaths : host'[g] = IF Under(h, g) /\ host[g] = "absent" THEN "dir" ELSE host[g]
  BY DEF MakeDirs
<1>3. Under(h, c) => Under(h, Parent(c))
  BY <1>1, HostParent, ParentIs, UnderTransitive
<1>4. \A g \in HPaths : host[g] \in {"absent", "dir"} \cup Files
  BY DEF Nodes, Files
<1>5. QED
  BY <1>1, <1>2, <1>3, <1>4 DEF HostIsTree

LEMMA RemoveTreeTree ==
  ASSUME host \in [HPaths -> Nodes], HostIsTree, NEW h \in Seq(Names), host' = RemoveTree(h)
  PROVE  HostIsTree'
<1>1. SUFFICES ASSUME NEW c \in HPaths, host'[c] # "absent", Parent(c) \in HPaths
               PROVE  host'[Parent(c)] = "dir"
  BY DEF HostIsTree
<1>2. \A g \in HPaths : host'[g] = IF Under(g, h) THEN "absent" ELSE host[g]
  BY DEF RemoveTree
<1>3. Under(Parent(c), h) => Under(c, h)
  BY <1>1, HostParent, AboveParent
<1>4. QED
  BY <1>1, <1>2, <1>3 DEF HostIsTree

LEMMA MoveTreeTree ==
  ASSUME host \in [HPaths -> Nodes], HostIsTree, NEW s \in Seq(Names), NEW d \in Seq(Names),
         CanMove(s, d), host' = MoveTree(s, d)
  PROVE  HostIsTree'
<1>1. CASE s = d
  BY <1>1 DEF MoveTree, HostIsTree
<1>2. CASE s # d
  <2>1. SUFFICES ASSUME NEW c \in HPaths, host'[c] # "absent", Parent(c) \in HPaths
                 PROVE  host'[Parent(c)] = "dir"
    BY DEF HostIsTree
  <2>2. /\ d \in HPaths /\ Node(Parent(d)) = "dir" /\ ~Under(d, s)
        /\ \A g \in HPaths : host'[g] = IF Under(g, d) THEN Node(s \o Relative(g, d))
                                        ELSE IF Under(g, s) THEN "absent" ELSE host[g]
    BY <1>2 DEF CanMove, MoveTree
  <2>3. c \in Seq(Names) /\ c # <<>> /\ Parent(c) \in Seq(Names)
    BY <2>1, HostParent, ParentIs
  <2>4. CASE c = d
    <3>1. Len(Parent(d)) = Len(d) - 1 /\ Len(d) \in Nat /\ host[Parent(d)] = "dir"
      BY <2>1, <2>2, <2>3, <2>4, ParentIs DEF Node
    <3>2. ~Under(Parent(d), d)
      BY <3>1 DEF Under
    <3>3. ~Under(Parent(d), s)
      BY <2>2, <2>3, <2>4, AboveParent
    <3>4. QED
      BY <2>1, <2>2, <2>4, <3>1, <3>2, <3>3
  <2>5. CASE c # d /\ Under(c, d)
    <3> DEFINE e == s \o Relative(c, d)
    <3>1. Under(Parent(c), d) /\ e # <<>> /\ Parent(e) = s \o Relative(Parent(c), d)
      BY <2>3, <2>5, UnderParent, JoinedParent
    <3>2. host'[c] = Node(e) /\ host'[Parent(c)] = Node(Parent(e))
      BY <2>1, <2>2, <2>5, <3>1
    <3> HIDE DEF e
    <3>3. e \in HPaths /\ host[e] # "absent"
      BY <2>1, <3>1, <3>2 DEF Node
    <3>4. Parent(e) \in HPaths \/ Parent(e) = <<>>
      BY <3>3, HostParent
    <3>5. QED
      BY <3>2, <3>3, <3>4, HostParent DEF Node, HostIsTree
  <2>6. CASE ~Under(c, d)
    <3>1. ~Under(Parent(c), d)
      BY <2>3, <2>6, AboveParent
    <3>2. ~Under(c, s) /\ host[c] # "absent"
      BY <2>1, <2>2, <2>6
    <3>3. ~Under(Parent(c), s)
      BY <2>3, <3>2, AboveParent
    <3>4. QED
      BY <2>1, <2>2, <3>1, <3>2, <3>3 DEF HostIsTree
  <2>7. QED
    BY <2>4, <2>5, <2>6
<1>3. QED
  BY <1>1, <1>2

\* Every operation leaves the host a tree.
LEMMA TreeStep == ASSUME IInv, HostIsTree, [Next]_vars PROVE HostIsTree'
<1>1. host \in [HPaths -> Nodes] /\ MountsTyped
  BY DEF IInv
<1>2. ASSUME host' = host PROVE HostIsTree'
  BY <1>2 DEF HostIsTree
<1>3. ASSUME NEW p \in VPaths, NEW filled \in Files, Write(p, filled) \/ WriteFails(p) PROVE HostIsTree'
  BY <1>1, <1>3, PutTree DEF Write, WriteFails, Files
<1>4. ASSUME NEW src \in VPaths, NEW dst \in VPaths, Copy(src, dst) PROVE HostIsTree'
  <2>1. HostPath(src) \in HPaths /\ host[HostPath(src)] \in Files /\ CanHoldFile(HostPath(dst))
    BY <1>4 DEF Copy, CanCopy, Node, Files
  <2>2. \E node \in Files : Put(HostPath(dst), node)
    BY <1>4, <2>1 DEF Copy, Files
  <2>3. QED
    BY <1>1, <2>1, <2>2, PutTree
<1>5. ASSUME NEW p \in VPaths, Mkdir(p) \/ MkdirFails(p) PROVE HostIsTree'
  <2>1. /\ HostPath(p) \in HPaths /\ HostPath(p) \in Seq(Names)
        /\ \A g \in HPaths : Under(HostPath(p), g) => host[g] \notin Files
    BY <1>5, PathsAssumption DEF Mkdir, MkdirFails, CanMkdir, CanMakeDirs
  <2>2. PICK h \in HPaths : Under(HostPath(p), h) /\ host' = MakeDirs(h)
    BY <1>5, <2>1, UnderItself DEF Mkdir, MkdirFails
  <2>3. \A g \in HPaths : Under(h, g) => host[g] \notin Files
    BY <2>1, <2>2, UnderTransitive, PathsAssumption
  <2>4. QED
    BY <1>1, <2>2, <2>3, MakeDirsTree
<1>6. ASSUME NEW p \in VPaths, Remove(p) \/ RemoveFails(p) PROVE HostIsTree'
  <2>1. HostPath(p) \in Seq(Names)
    BY <1>6, PresentIsPath DEF Remove, RemoveFails, CanRemove
  <2>2. \E h \in Seq(Names) : host' = RemoveTree(h)
    BY <1>6, <2>1, PathsAssumption DEF Remove, RemoveFails
  <2>3. QED
    BY <1>1, <2>2, RemoveTreeTree
<1>7. ASSUME NEW src \in VPaths, NEW dst \in VPaths, Rename(src, dst) PROVE HostIsTree'
  <2>1. HostPath(src) \in Seq(Names) /\ HostPath(dst) \in Seq(Names)
    BY <1>7, PresentIsPath DEF Rename, CanMove
  <2>2. QED
    BY <1>1, <1>7, <2>1, MoveTreeTree DEF Rename
<1>8. ASSUME NEW auto_tmp \in BOOLEAN, Build(auto_tmp) PROVE HostIsTree'
  <2>1. CASE host' = MakeDirs(TmpHost)
    <3>1. host \in InitialHosts
      BY <1>8 DEF Build, IInv, Mounting
    <3>2. \A g \in HPaths : Under(TmpHost, g) /\ g # TmpHost => host[g] = "dir"
      BY <3>1, HostsAssumption
    <3>3. TmpHost \in HPaths /\ TmpHost \in Seq(Names)
      BY PathsAssumption
    <3>4. SUFFICES ASSUME NEW c \in HPaths, host'[c] # "absent", Parent(c) \in HPaths
                   PROVE  host'[Parent(c)] = "dir"
      BY DEF HostIsTree
    <3>5. \A g \in HPaths : host'[g] = IF Under(TmpHost, g) /\ host[g] = "absent" THEN "dir" ELSE host[g]
      BY <2>1 DEF MakeDirs
    <3>6. CASE host[c] # "absent"
      BY <3>4, <3>5, <3>6 DEF HostIsTree
    <3>7. CASE host[c] = "absent"
      <4>1. Under(TmpHost, c)
        BY <3>4, <3>5, <3>7
      <4>2. Under(TmpHost, Parent(c)) /\ Len(Parent(c)) = Len(c) - 1 /\ Len(c) \in Nat
        BY <3>3, <3>4, <4>1, HostParent, ParentIs, UnderTransitive
      <4>3. Parent(c) # TmpHost
        BY <4>1, <4>2 DEF Under
      <4>4. QED
        BY <3>2, <3>4, <3>5, <4>2, <4>3
    <3>8. QED
      BY <3>6, <3>7
  <2>2. CASE CanMakeDirs(HostPath(Tmp)) /\ host' = MakeDirs(HostPath(Tmp))
    BY <1>1, <2>2, MakeDirsTree DEF CanMakeDirs
  <2>3. QED
    BY <1>2, <1>8, <2>1, <2>2 DEF Build
<1>9. ASSUME Drop PROVE HostIsTree'
  BY <1>1, <1>2, <1>9, RemoveTreeTree, PathsAssumption DEF Drop
<1>10. "data" \in Files
  BY DEF Files
<1>11. QED
  BY <1>2, <1>3, <1>4, <1>5, <1>6, <1>7, <1>8, <1>9, <1>10 DEF Next, vars, AddMount, Read, List

LEMMA InitialTree == Init => HostIsTree
<1>1. SUFFICES ASSUME Init, NEW c \in HPaths, host[c] # "absent", Parent(c) \in HPaths
               PROVE  host[Parent(c)] = "dir"
  BY DEF HostIsTree
<1>2. Under(c, Parent(c)) /\ Len(Parent(c)) = Len(c) - 1 /\ Len(c) \in Nat
  BY <1>1, HostParent, ParentIs
<1>3. Parent(c) # c
  BY <1>2
<1>4. QED
  BY <1>1, <1>2, <1>3, HostsAssumption DEF Init

\* The rest of TypeOK
Labelled ==
  /\ \A m \in DOMAIN mounts : mounts[m].perm \in {"ro", "rw"}
  /\ ownTmp \in BOOLEAN /\ indirect \in BOOLEAN
  /\ event \in [path : VPaths \cup {<<>>}, kind : {"none", "read", "write"}]

Typed == TypeOK /\ IInv

LEMMA TypedStep == Typed /\ [Next]_vars => Typed'
<1>1. SUFFICES ASSUME Typed, [Next]_vars PROVE Typed'
  OBVIOUS
<1>2. IInv' /\ HostIsTree'
  BY <1>1, StepInv, TreeStep DEF Typed, TypeOK
<1>3. Labelled'
  <2>1. Labelled /\ NoEvent \in [path : VPaths \cup {<<>>}, kind : {"none", "read", "write"}]
    BY <1>1 DEF Typed, TypeOK, Labelled, NoEvent
  <2>2. ASSUME NEW v \in MountPoints, NEW h \in MountHosts, NEW perm \in {"ro", "rw"}, AddMount(v, h, perm)
        PROVE  Labelled'
    BY <2>1, <2>2 DEF AddMount, Mounted, Labelled
  <2>3. ASSUME NEW auto_tmp \in BOOLEAN, Build(auto_tmp) PROVE Labelled'
    <3>1. mounts' = Mounted(Tmp, TmpHost, "rw") \/ mounts' = mounts
      BY <2>3 DEF Build
    <3>2. ownTmp' \in BOOLEAN /\ event' = event /\ indirect' = indirect
      BY <2>1, <2>3 DEF Build, Labelled
    <3>3. QED
      BY <2>1, <3>1, <3>2 DEF Mounted, Labelled
  <2>4. CASE Drop
    BY <2>1, <2>4 DEF Drop, Labelled
  <2>5. ASSUME NEW p \in VPaths, NEW filled,
               \/ Read(p) \/ List(p) \/ Mkdir(p) \/ MkdirFails(p)
               \/ Remove(p) \/ RemoveFails(p) \/ WriteFails(p) \/ Write(p, filled)
        PROVE  Labelled'
    <3>1. UNCHANGED <<mounts, ownTmp>> /\ indirect' \in BOOLEAN
      BY <2>5 DEF Read, List, Mkdir, MkdirFails, Remove, RemoveFails, WriteFails, Write, Fs, Through
    <3>2. event' = NoEvent \/ \E kind \in {"read", "write"} : Report(p, kind)
      BY <2>5 DEF Read, List, Mkdir, MkdirFails, Remove, RemoveFails, WriteFails, Write, Silent
    <3>3. QED
      BY <2>1, <3>1, <3>2 DEF Report, Labelled
  <2>6. ASSUME NEW src \in VPaths, NEW dst \in VPaths, Rename(src, dst) \/ Copy(src, dst) PROVE Labelled'
    <3>1. UNCHANGED <<mounts, ownTmp>> /\ indirect' \in BOOLEAN
      BY <2>6 DEF Rename, Copy, Fs, Through
    <3>2. Report(dst, "write")
      BY <2>6 DEF Rename, Copy
    <3>3. QED
      BY <2>1, <3>1, <3>2 DEF Report, Labelled
  <2>7. CASE UNCHANGED vars
    BY <2>1, <2>7 DEF vars, Labelled
  <2>8. QED
    BY <1>1, <2>2, <2>3, <2>4, <2>5, <2>6, <2>7 DEF Next
<1>4. QED
  BY <1>2, <1>3 DEF Typed, TypeOK, Labelled, IInv, MountsTyped

\* Type correctness; in particular, whatever scripts do, and wherever an operation fails, what
\* is on the host stays in a directory (core/src/sandbox.rs, fs.rename and fs.mkdir).
THEOREM TypeCorrect == Spec => []TypeOK
<1>1. ASSUME Init PROVE Typed
  <2>1. event \in [path : VPaths \cup {<<>>}, kind : {"none", "read", "write"}]
    BY <1>1 DEF Init, NoEvent
  <2>2. DOMAIN mounts = {} /\ ownTmp \in BOOLEAN /\ indirect \in BOOLEAN
    BY <1>1 DEF Init
  <2>3. IInv /\ HostIsTree
    BY <1>1, InitInv, InitialTree
  <2>4. QED
    BY <2>1, <2>2, <2>3 DEF Typed, TypeOK, IInv
<1>2. QED
  BY <1>1, TypedStep, PTL DEF Spec, Typed

---------------------------------------------------------------------------
(* What one operation says of a path, another does not deny *)

\* Where a mount is, it is the longest that covers the path.
LEMMA AtMount ==
  ASSUME MountsTyped, NEW p \in VPaths, p \in DOMAIN mounts
  PROVE  Covering(p) # {} /\ HostOf(p) = mounts[p].host /\ HostPath(p) = mounts[p].host /\ CanGo(JoinedPath(p))
<1>1. p \in Covering(p) /\ p \in Seq(Names)
  BY UnderItself, PathsAssumption DEF Covering
<1>2. /\ MountOf(p) \in Covering(p) /\ MountOf(p) \in Seq(Names)
      /\ \A n \in Covering(p) : Len(n) <= Len(MountOf(p))
  BY <1>1, MountOfCovers, PathsAssumption DEF Covering, MountsTyped
<1>3. Len(p) <= Len(MountOf(p)) /\ Under(p, MountOf(p)) /\ Len(p) \in Nat /\ Len(MountOf(p)) \in Nat
  BY <1>1, <1>2, LenProperties DEF Covering
<1>4. MountOf(p) = p
  BY <1>1, <1>2, <1>3, UnderProper
<1>5. mounts[p].host \in Seq(Names) /\ Direct(mounts[p].host)
  BY PathsAssumption DEF MountsTyped
<1>6. Relative(p, p) = <<>>
  BY <1>3, SubSeqEmpty DEF Relative
<1>7. mounts[p].host \o <<>> = mounts[p].host
  BY <1>5, ConcatEmptySeq
<1>8. JoinedPath(p) = mounts[p].host /\ HostOf(p) = mounts[p].host
  BY <1>4, <1>6, <1>7 DEF JoinedPath, HostOf
<1>9. QED
  BY <1>1, <1>5, <1>8, DirectPlace DEF HostPath

\* A path that is no mount is on the mount of its parent, and leads to what its last name
\* names there.
LEMMA WithParent ==
  ASSUME MountsTyped, NEW p \in VPaths, p # <<>>, p \notin DOMAIN mounts, p[Len(p)] \notin {Up, Here}
  PROVE  /\ Covering(Parent(p)) = Covering(p)
         /\ Covering(p) # {} =>
              /\ HostOf(Parent(p)) = HostOf(p) /\ HostPath(Parent(p)) \in Seq(Names) /\ p[Len(p)] \in Names
              /\ HostPath(p) = Append(HostPath(Parent(p)), p[Len(p)])
              /\ CanGo(JoinedPath(p)) <=> CanGo(JoinedPath(Parent(p)))
<1> DEFINE d == Parent(p)
<1>1. p \in Seq(Names) /\ d \in Seq(Names) /\ DOMAIN mounts \subseteq Seq(Names)
  BY ParentIs, PathsAssumption DEF MountsTyped
<1>2. Covering(d) = Covering(p)
  <2>1. \A m \in DOMAIN mounts : Under(p, m) => Under(d, m)
    BY <1>1, UnderParent
  <2>2. \A m \in DOMAIN mounts : Under(d, m) => Under(p, m)
    BY <1>1, AboveParent
  <2>3. QED
    BY <2>1, <2>2 DEF Covering
<1> HIDE DEF d
<1>3. MountOf(d) = MountOf(p) /\ HostOf(d) = HostOf(p)
  BY <1>2 DEF MountOf, HostOf
<1>4. ASSUME Covering(p) # {}
      PROVE  /\ HostPath(d) \in Seq(Names) /\ p[Len(p)] \in Names
             /\ HostPath(p) = Append(HostPath(d), p[Len(p)])
             /\ CanGo(JoinedPath(p)) <=> CanGo(JoinedPath(d))
  <2> DEFINE m == MountOf(p)
             h == HostOf(p)
             j == JoinedPath(p)
  <2>1. /\ m \in DOMAIN mounts /\ Under(p, m) /\ h \in HPaths /\ j \in Seq(Names)
        /\ Len(h) \in Nat /\ Len(m) \in Nat /\ Len(p) \in Nat
        /\ Len(j) = Len(h) + (Len(p) - Len(m)) /\ (p # m => Len(m) < Len(p))
        /\ \A i \in 1..(Len(p) - Len(m)) : j[Len(h) + i] = p[Len(m) + i]
    BY <1>4, JoinedIs
  <2>2. m \in Seq(Names) /\ h \in Seq(Names) /\ p # m
    BY <1>1, <2>1, PathsAssumption
  <2>3. j = h \o Relative(p, m) /\ JoinedPath(d) = h \o Relative(d, m)
    BY <1>3 DEF JoinedPath
  <2> HIDE DEF m, h, j
  <2>4. j # <<>> /\ Parent(j) = JoinedPath(d)
    BY <1>1, <2>1, <2>2, <2>3, JoinedParent DEF d
  <2>5. j[Len(j)] = p[Len(p)]
    <3>1. Len(p) - Len(m) \in 1..(Len(p) - Len(m)) /\ Len(m) + (Len(p) - Len(m)) = Len(p)
      BY <2>1, <2>2
    <3>2. QED
      BY <2>1, <3>1
  <2>6. QED
    BY <2>1, <2>4, <2>5, PlaceParent DEF HostPath, j
<1>5. QED
  BY <1>2, <1>3, <1>4 DEF d

\* What is mounted or synthetic, or above that, has a direct path.
LEMMA VirtualIsDirect ==
  ASSUME MountsTyped, NEW p, VirtualDir(p) \/ p \in DOMAIN mounts
  PROVE  Direct(p)
<1>1. \A q \in DOMAIN mounts \cup DOMAIN Synthetic : Direct(q) /\ q \in Seq(Names)
  BY PathsAssumption DEF MountsTyped
<1>2. CASE p \in DOMAIN mounts \cup DOMAIN Synthetic
  BY <1>1, <1>2
<1>3. CASE p = <<>>
  BY <1>3, EmptySeq DEF Direct
<1>4. ASSUME NEW q \in DOMAIN mounts \cup DOMAIN Synthetic, Under(q, p) PROVE Direct(p)
  <2>1. Direct(q) /\ Len(q) \in Nat
    BY <1>1, LenProperties
  <2>2. QED
    BY <1>4, <2>1 DEF Direct, Under
<1>5. QED
  BY <1>2, <1>3, <1>4 DEF VirtualDir

\* The last name of a path is a child of its parent among Q, if Q has the path or one below it.
LEMMA ChildOf ==
  ASSUME NEW p \in Seq(Names), p # <<>>, NEW Q \in SUBSET Seq(Names)
  PROVE  p[Len(p)] \in ChildNames(Parent(p), Q) <=> \E q \in Q : Under(q, p)
<1> DEFINE d == Parent(p)
<1>1. /\ Len(p) \in Nat \ {0} /\ d \in Seq(Names) /\ Len(d) = Len(p) - 1 /\ Len(d) + 1 = Len(p)
      /\ \A i \in 1..(Len(p) - 1) : d[i] = p[i]
  BY ParentIs
<1> HIDE DEF d
<1>2. ASSUME NEW q \in Q, Under(q, p) PROVE q # d /\ Under(q, d) /\ q[Len(d) + 1] = p[Len(p)]
  BY <1>1, <1>2, LenProperties DEF Under
<1>3. ASSUME NEW q \in Q, q # d, Under(q, d), q[Len(d) + 1] = p[Len(p)] PROVE Under(q, p)
  <2>1. Len(d) < Len(q) /\ Len(q) \in Nat
    BY <1>1, <1>3, UnderProper, LenProperties
  <2>2. \A i \in 1..(Len(p) - 1) : q[i] = p[i]
    BY <1>1, <1>3 DEF Under
  <2>3. \A i \in 1..Len(p) : i \in 1..(Len(p) - 1) \/ i = Len(p)
    BY <1>1
  <2>4. QED
    BY <1>1, <1>3, <2>1, <2>2, <2>3 DEF Under
<1>4. p[Len(p)] \in ChildNames(d, Q) <=> \E q \in Q : q # d /\ Under(q, d) /\ q[Len(d) + 1] = p[Len(p)]
  BY DEF ChildNames
<1>5. QED
  BY <1>2, <1>3, <1>4 DEF d

\* ... and one of the names on the host, if its host path is there.
LEMMA HostNameOf ==
  ASSUME host \in [HPaths -> Nodes], HostIsTree, NEW h \in Seq(Names), h # <<>>
  PROVE  h[Len(h)] \in HostNames(Parent(h)) <=> Present(h)
<1> DEFINE d == Parent(h)
<1>1. /\ Len(h) \in Nat \ {0} /\ d \in Seq(Names) /\ Len(d) = Len(h) - 1
      /\ \A i \in 1..(Len(h) - 1) : d[i] = h[i]
  BY ParentIs
<1> HIDE DEF d
<1>2. ASSUME Present(h) PROVE Node(d) = "dir" /\ h \in HPaths
  <2>1. h \in HPaths /\ host[h] # "absent"
    BY <1>2 DEF Present, Node
  <2>2. d \in HPaths \/ d = <<>>
    BY <2>1, HostParent DEF d
  <2>3. QED
    BY <2>1, <2>2, HostParent DEF Node, HostIsTree, d
<1>3. ASSUME NEW g \in HPaths, g # <<>>, Parent(g) = d, g[Len(g)] = h[Len(h)] PROVE g = h
  <2>1. /\ g \in Seq(Names) /\ Len(g) \in Nat \ {0} /\ Len(d) = Len(g) - 1
        /\ \A i \in 1..(Len(g) - 1) : d[i] = g[i]
    BY <1>3, ParentIs, PathsAssumption
  <2>2. Len(g) = Len(h) /\ \A i \in 1..Len(h) : i \in 1..(Len(h) - 1) \/ i = Len(h)
    BY <1>1, <2>1
  <2>3. \A i \in 1..Len(g) : g[i] = h[i]
    BY <1>1, <1>3, <2>1, <2>2
  <2>4. QED
    BY <2>1, <2>2, <2>3, SeqEqual
<1>4. h[Len(h)] \in HostNames(d) <=>
        Node(d) = "dir" /\ \E g \in HPaths : g # <<>> /\ Parent(g) = d /\ Present(g) /\ g[Len(g)] = h[Len(h)]
  BY DEF HostNames
<1>5. QED
  BY <1>2, <1>3, <1>4 DEF d

LEMMA ListAgrees ==
  ASSUME TypeOK, MountsTyped
  PROVE  ListAgreesWithExists
<1>1. SUFFICES ASSUME \A m \in DOMAIN mounts : Present(mounts[m].host),
                      NEW p \in VPaths, p # <<>>, p[Len(p)] \notin {Up, Here}, Listable(Parent(p))
               PROVE  p[Len(p)] \in Listed(Parent(p)) <=> Exists(p)
  BY DEF ListAgreesWithExists
<1> DEFINE d == Parent(p)
           x == p[Len(p)]
           Q == DOMAIN mounts \cup DOMAIN Synthetic
<1>2. p \in Seq(Names) /\ Q \in SUBSET Seq(Names)
  BY PathsAssumption DEF MountsTyped
<1>3. x \in ChildNames(d, Q) <=> VirtualDir(p) \/ p \in DOMAIN mounts
  <2>1. x \in ChildNames(d, Q) <=> \E q \in Q : Under(q, p)
    BY <1>1, <1>2, ChildOf
  <2>2. (\E q \in Q : Under(q, p)) <=> p \in Q \/ \E q \in Q : q # p /\ Under(q, p)
    BY <1>2, UnderItself
  <2>3. QED
    BY <1>1, <2>1, <2>2 DEF VirtualDir
<1>4. d \in DOMAIN Synthetic /\ x \in Synthetic[d] <=> SyntheticEntry(p)
  BY <1>1 DEF SyntheticEntry
<1>5. ASSUME p \in DOMAIN mounts PROVE Exists(p)
  <2>1. Resolves(p) /\ Present(HostPath(p))
    <3>1. Covering(p) # {} /\ HostOf(p) = HostPath(p) /\ HostPath(p) = mounts[p].host /\ CanGo(JoinedPath(p))
      BY <1>5, AtMount
    <3>2. mounts[p].host \in Seq(Names) /\ Present(mounts[p].host)
      BY <1>1, <1>5, PathsAssumption DEF MountsTyped
    <3>3. QED
      BY <3>1, <3>2, UnderItself DEF Resolves
  <2>2. QED
    BY <2>1 DEF Exists
<1>6. ASSUME p \notin DOMAIN mounts
      PROVE  (d \in DOMAIN mounts \/ Resolves(d)) /\ x \in HostNames(HostPath(d)) <=> Resolves(p) /\ Present(HostPath(p))
  <2>1. Covering(d) = Covering(p)
    BY <1>1, <1>6, WithParent
  <2>2. d \in DOMAIN mounts => Covering(d) # {}
    BY <1>2, UnderItself DEF Covering
  <2>3. SUFFICES ASSUME Covering(p) # {}
                 PROVE  (d \in DOMAIN mounts \/ Resolves(d)) /\ x \in HostNames(HostPath(d))
                          <=> Resolves(p) /\ Present(HostPath(p))
    BY <2>1, <2>2 DEF Resolves
  <2>4. /\ HostOf(d) = HostOf(p) /\ HostPath(d) \in Seq(Names) /\ x \in Names
        /\ HostPath(p) = Append(HostPath(d), x) /\ (CanGo(JoinedPath(p)) <=> CanGo(JoinedPath(d)))
    BY <1>1, <1>6, <2>3, WithParent
  <2>5. /\ HostPath(p) \in Seq(Names) /\ HostPath(p) # <<>>
        /\ HostPath(p)[Len(HostPath(p))] = x /\ Parent(HostPath(p)) = HostPath(d)
    BY <2>4, AppendProperties, ParentOfAppend
  <2>6. x \in HostNames(HostPath(d)) <=> Present(HostPath(p))
    <3>1. host \in [HPaths -> Nodes] /\ HostIsTree
      BY DEF TypeOK
    <3>2. QED
      BY <2>5, <3>1, HostNameOf
  <2>7. x \in HostNames(HostPath(d)) => Present(HostPath(d))
    BY DEF HostNames, Present
  <2>8. HostOf(p) \in Seq(Names)
    BY <2>3, JoinedIs, PathsAssumption
  <2>9. ASSUME d \in DOMAIN mounts
        PROVE  CanGo(JoinedPath(d)) /\ Under(HostPath(d), HostOf(d))
    <3>1. d \in VPaths
      BY <2>9 DEF MountsTyped
    <3>2. QED
      BY <2>4, <2>8, <2>9, <3>1, AtMount, UnderItself
  <2>10. ASSUME d \in DOMAIN mounts \/ Resolves(d), x \in HostNames(HostPath(d))
         PROVE  Resolves(p) /\ Present(HostPath(p))
    <3>1. CanGo(JoinedPath(d)) /\ Under(HostPath(d), HostOf(d))
      BY <2>9, <2>10 DEF Resolves
    <3>2. Under(HostPath(p), HostPath(d))
      BY <2>5, ParentIs
    <3>3. Under(HostPath(p), HostOf(p))
      BY <2>4, <2>5, <2>8, <3>1, <3>2, UnderTransitive
    <3>4. QED
      BY <2>3, <2>4, <2>6, <2>10, <3>1, <3>3 DEF Resolves
  <2>11. ASSUME Resolves(p), Present(HostPath(p))
         PROVE  (d \in DOMAIN mounts \/ Resolves(d)) /\ x \in HostNames(HostPath(d))
    <3>1. x \in HostNames(HostPath(d)) /\ Present(HostPath(d)) /\ CanGo(JoinedPath(d))
      BY <2>4, <2>6, <2>7, <2>11 DEF Resolves
    <3>2. CASE ~Direct(d)
      BY <1>1, <3>1, <3>2, VirtualIsDirect DEF Listable
    <3>3. CASE Direct(d)
      <4>1. Direct(p)
        <5>1. Len(p) \in Nat \ {0} /\ Len(d) = Len(p) - 1 /\ \A i \in 1..(Len(p) - 1) : d[i] = p[i]
          BY <1>1, <1>2, ParentIs
        <5>2. \A i \in 1..Len(p) : i \in 1..(Len(p) - 1) \/ i = Len(p)
          BY <5>1
        <5>3. QED
          BY <1>1, <3>3, <5>1, <5>2 DEF Direct
      <4>2. Under(HostPath(p), HostOf(p)) /\ HostPath(p) # HostOf(p)
        BY <1>6, <2>3, <2>5, <2>8, <4>1, HostPathUnder, LenProperties
      <4>3. Under(HostPath(d), HostOf(d))
        BY <2>4, <2>5, <2>8, <4>2, UnderParent
      <4>4. QED
        BY <2>1, <2>3, <3>1, <4>3 DEF Resolves
    <3>4. QED
      BY <3>2, <3>3
  <2>12. QED
    BY <2>10, <2>11
<1>7. x \in Listed(d) <=> \/ x \in ChildNames(d, Q)
                          \/ (d \in DOMAIN mounts \/ Resolves(d)) /\ x \in HostNames(HostPath(d))
                          \/ d \in DOMAIN Synthetic /\ x \in Synthetic[d]
  BY DEF Listed
<1> HIDE DEF d, x, Q
<1>8. x \in Listed(d) <=> Exists(p)
  BY <1>3, <1>4, <1>5, <1>6, <1>7 DEF Exists
<1>9. QED
  BY <1>8 DEF d, x

\* Whatever is mounted where: fs.list, fs.exists, fs.writable and fs.write, which look a path
\* up in their own ways, agree on it (core/src/mount.rs and sandbox.rs).
THEOREM AnswersAgreeAlways == Spec => []AnswersAgree
<1>1. TypeOK /\ IInv => AnswersAgree
  <2>1. IInv /\ TypeOK => ListAgreesWithExists
    BY ListAgrees DEF IInv
  <2>2. WritableAgreesWithWrite
    BY DEF WritableAgreesWithWrite, Writable, ResolvesWrite, ResolvesDeep, WriteDenied
  <2>3. QED
    BY <2>1, <2>2 DEF AnswersAgree
<1>2. QED
  BY <1>1, TypeCorrect, InvariantHolds, PTL

---------------------------------------------------------------------------
(* What cannot be written looks the same after every operation *)

\* Where no two mounts overlap, direct paths are above each other on the host only if
\* they are for scripts.
LEMMA UnderOnHost ==
  ASSUME MountsTyped, HostsDisjoint, NEW p \in VPaths, NEW q \in VPaths,
         Covering(p) # {}, Covering(q) # {}, Direct(p), Direct(q), Under(HostPath(q), HostPath(p))
  PROVE  Under(q, p)
<1> DEFINE m == MountOf(p)
           n == MountOf(q)
           h == mounts[m].host
<1>1. /\ m \in DOMAIN mounts /\ Under(p, m) /\ h \in Seq(Names) /\ Under(HostPath(p), h)
      /\ n \in DOMAIN mounts /\ Under(q, n) /\ mounts[n].host \in Seq(Names)
      /\ Under(HostPath(q), mounts[n].host)
      /\ HostPath(p) \in Seq(Names) /\ HostPath(q) \in Seq(Names)
  BY HostPathUnder, MountOfCovers DEF Covering, HostOf
<1>2. p \in Seq(Names) /\ q \in Seq(Names) /\ m \in Seq(Names)
  BY <1>1, PathsAssumption DEF MountsTyped
<1> HIDE DEF m, n, h
<1>3. Under(HostPath(q), h)
  BY <1>1, UnderTransitive
<1>4. Under(h, mounts[n].host) \/ Under(mounts[n].host, h)
  BY <1>1, <1>3, LenProperties DEF Under
<1>5. n = m
  BY <1>1, <1>4 DEF HostsDisjoint, h
<1>6. HostPath(p) = h \o Relative(p, m) /\ HostPath(q) = h \o Relative(q, m)
  BY <1>5, HostPathUnder DEF JoinedPath, HostOf, h, m, n
<1>7. /\ Len(h) \in Nat /\ Len(p) \in Nat /\ Len(m) \in Nat /\ Len(m) <= Len(p)
      /\ Len(HostPath(p)) = Len(h) + (Len(p) - Len(m))
      /\ \A i \in 1..(Len(p) - Len(m)) : HostPath(p)[Len(h) + i] = p[Len(m) + i]
  <2>1. /\ Len(h) \in Nat /\ Len(p) \in Nat /\ Len(m) \in Nat /\ Len(m) <= Len(p)
        /\ Len(h \o Relative(p, m)) = Len(h) + (Len(p) - Len(m))
        /\ \A i \in 1..(Len(p) - Len(m)) : (h \o Relative(p, m))[Len(h) + i] = p[Len(m) + i]
    <3>1. h \in Seq(Names) /\ p \in Seq(Names) /\ m \in Seq(Names) /\ Under(p, m)
      BY <1>1, <1>2
    <3>2. QED
      BY <3>1, Joined
  <2>2. QED
    BY <1>6, <2>1
<1>8. /\ Len(q) \in Nat /\ Len(m) <= Len(q) /\ Len(HostPath(q)) = Len(h) + (Len(q) - Len(m))
      /\ \A i \in 1..(Len(q) - Len(m)) : HostPath(q)[Len(h) + i] = q[Len(m) + i]
  <2>1. Under(q, m)
    BY <1>1, <1>5
  <2>2. /\ Len(q) \in Nat /\ Len(m) <= Len(q)
        /\ Len(h \o Relative(q, m)) = Len(h) + (Len(q) - Len(m))
        /\ \A i \in 1..(Len(q) - Len(m)) : (h \o Relative(q, m))[Len(h) + i] = q[Len(m) + i]
    <3>1. h \in Seq(Names) /\ q \in Seq(Names) /\ m \in Seq(Names) /\ Under(q, m)
      BY <1>1, <1>2, <2>1
    <3>2. QED
      BY <3>1, Joined
  <2>3. QED
    BY <1>6, <2>2
<1>9. Len(p) <= Len(q)
  BY <1>7, <1>8 DEF Under
<1>10. ASSUME NEW i \in 1..Len(p) PROVE q[i] = p[i]
  <2>1. CASE i <= Len(m)
    BY <1>1, <1>5, <1>7, <2>1 DEF Under
  <2>2. CASE ~(i <= Len(m))
    <3>1. PICK j \in 1..(Len(p) - Len(m)) : i = Len(m) + j
      <4>1. i - Len(m) \in 1..(Len(p) - Len(m)) /\ i = Len(m) + (i - Len(m))
        BY <1>7, <2>2
      <4>2. QED
        BY <4>1
    <3>2. j \in 1..(Len(q) - Len(m)) /\ Len(h) + j \in 1..Len(HostPath(p))
      BY <1>7, <1>8, <1>9
    <3>3. HostPath(q)[Len(h) + j] = HostPath(p)[Len(h) + j]
      BY <3>2 DEF Under
    <3>4. QED
      BY <1>7, <1>8, <3>1, <3>2, <3>3
  <2>3. QED
    BY <2>1, <2>2
<1>11. QED
  BY <1>9, <1>10 DEF Under

\* What scripts write is neither below a path of a synthetic directory nor, unless it is a
\* mount root, above one.
LEMMA OutOfReach ==
  ASSUME MountsTyped, HostsDisjoint, NEW p \in VPaths, InSynthetic(p), Covering(p) # {}, Direct(p),
         NEW q \in VPaths, ~InSynthetic(q), Covering(q) # {}, Direct(q)
  PROVE  /\ ~Under(HostPath(q), HostPath(p))
         /\ CanRename(q) => ~Under(HostPath(p), HostPath(q))
<1>1. PICK d \in DOMAIN Synthetic : Under(p, d)
  BY DEF InSynthetic
<1>2. p \in Seq(Names) /\ q \in Seq(Names) /\ d \in Seq(Names)
  BY PathsAssumption
<1>3. ~Under(q, d)
  BY <1>1 DEF InSynthetic
<1>4. ~Under(q, p)
  BY <1>1, <1>2, <1>3, UnderTransitive
<1>5. ASSUME CanRename(q) PROVE ~Under(p, q)
  <2>1. SUFFICES ASSUME Under(p, q) PROVE FALSE
    OBVIOUS
  <2>2. Under(d, q) \/ Under(q, d)
    BY <1>1, <1>2, <2>1, LenProperties DEF Under
  <2>3. Under(d, q) /\ d # q
    BY <1>2, <1>3, <2>2, UnderItself
  <2>4. VirtualDir(q)
    BY <2>3 DEF VirtualDir
  <2>5. QED
    BY <1>5, <2>4 DEF CanRename, CanWrite, ResolvesWrite, NotMountRoot
<1>6. QED
  BY <1>4, <1>5, UnderOnHost

\* What a script sees at a direct path is decided by the mounts, what is at its host path, and
\* whether there is a directory for it.
LEMMA SameView ==
  ASSUME UNCHANGED mounts, NEW p \in VPaths, MountsTyped, Direct(p),
         Covering(p) # {} => Node(HostPath(p))' = Node(HostPath(p))
  PROVE  View(p)' = View(p)
<1>1. Covering(p)' = Covering(p) /\ (VirtualDir(p)' <=> VirtualDir(p)) /\ (SyntheticEntry(p)' <=> SyntheticEntry(p))
  BY DEF Covering, VirtualDir, SyntheticEntry
<1>2. JoinedPath(p)' = JoinedPath(p) /\ HostPath(p)' = HostPath(p) /\ HostOf(p)' = HostOf(p)
  BY DEF HostPath, JoinedPath, HostOf, MountOf, Covering
<1>3. Covering(p) # {} => Direct(JoinedPath(p)) /\ Under(HostPath(p), HostOf(p))
  BY HostPathUnder
<1>4. Covering(p) # {} => CanGo(JoinedPath(p)) /\ CanGo(JoinedPath(p))'
  BY <1>2, <1>3 DEF CanGo, Direct
<1>5. (Resolves(p) /\ Present(HostPath(p)))' <=> Resolves(p) /\ Present(HostPath(p))
  BY <1>1, <1>2, <1>3, <1>4 DEF Resolves, Present
<1>6. Resolves(p) /\ Present(HostPath(p)) => Node(HostPath(p))' = Node(HostPath(p))
  BY DEF Resolves
<1>7. Exists(p)' = Exists(p)
  BY <1>1, <1>5 DEF Exists
<1>8. IsDir(p)' = IsDir(p)
  BY <1>1, <1>5, <1>6 DEF IsDir, Present
<1>9. IsFile(p)' = IsFile(p)
  BY <1>1, <1>5, <1>6 DEF IsFile, Present, Files
<1>10. (ReadsHost(p)' <=> ReadsHost(p)) /\ (ReadsHost(p) => Resolves(p) /\ Present(HostPath(p)))
  BY <1>1, <1>5, <1>6 DEF ReadsHost, Present, Files
<1>11. QED
  BY <1>6, <1>7, <1>8, <1>9, <1>10 DEF View

\* An operation through direct paths writes outside the synthetic directories.
LEMMA SyntheticUntouched ==
  ASSUME IInv, [Next]_vars, phase = "built", phase' = "built", HostsDisjoint, ~indirect',
         NEW p \in VPaths, InSynthetic(p), Covering(p) # {}, Direct(p), HostPath(p) \in HPaths
  PROVE  host'[HostPath(p)] = host[HostPath(p)]
<1> DEFINE h == HostPath(p)
<1>1. h \in HPaths /\ h \in Seq(Names) /\ host \in [HPaths -> Nodes] /\ MountsTyped
  BY PathsAssumption DEF IInv
<1>2. ASSUME NEW q \in VPaths, ~InSynthetic(q), Covering(q) # {}, Direct(q)
      PROVE  /\ HostPath(q) \in Seq(Names) /\ ~Under(HostPath(q), h) /\ h # HostPath(q)
             /\ CanRename(q) => ~Under(h, HostPath(q))
  BY <1>1, <1>2, OutOfReach, UnderItself, HostPathUnder
<1> HIDE DEF h
<1>3. ASSUME NEW q \in VPaths, NEW filled, Write(q, filled) \/ WriteFails(q) PROVE host'[h] = host[h]
  <2>1. ~InSynthetic(q) /\ Covering(q) # {} /\ Direct(q)
    BY <1>3 DEF Write, WriteFails, CanWrite, ResolvesWrite, Resolves, Through
  <2>2. QED
    BY <1>1, <1>2, <1>3, <2>1 DEF Write, WriteFails, Put
<1>4. ASSUME NEW src \in VPaths, NEW dst \in VPaths, Copy(src, dst) PROVE host'[h] = host[h]
  <2>1. ~InSynthetic(dst) /\ Covering(dst) # {} /\ Direct(dst)
    BY <1>4 DEF Copy, CanWrite, ResolvesWrite, Resolves, Through
  <2>2. \E node : Put(HostPath(dst), node)
    BY <1>4 DEF Copy
  <2>3. QED
    BY <1>1, <1>2, <2>1, <2>2 DEF Put
<1>5. ASSUME NEW q \in VPaths, Mkdir(q) \/ MkdirFails(q) PROVE host'[h] = host[h]
  <2>1. ~InSynthetic(q) /\ Covering(q) # {} /\ Direct(q)
    BY <1>5 DEF Mkdir, MkdirFails, CanMkdir, ResolvesDeep, Through
  <2>2. HostPath(q) \in Seq(Names) /\ ~Under(HostPath(q), h)
    BY <1>2, <2>1
  <2>3. PICK g \in Seq(Names) : Under(HostPath(q), g) /\ host' = MakeDirs(g)
    BY <1>5, <2>2, UnderItself, PathsAssumption DEF Mkdir, MkdirFails
  <2>4. ~Under(g, h)
    BY <1>1, <2>2, <2>3, UnderTransitive
  <2>5. QED
    BY <1>1, <2>3, <2>4 DEF MakeDirs
<1>6. ASSUME NEW q \in VPaths, Remove(q) \/ RemoveFails(q) PROVE host'[h] = host[h]
  <2>1. ~InSynthetic(q) /\ Covering(q) # {} /\ CanRename(q) /\ Direct(q)
    BY <1>6 DEF Remove, RemoveFails, CanRemove, CanRename, CanWrite, ResolvesWrite, Resolves, Through
  <2>2. HostPath(q) \in Seq(Names) /\ ~Under(h, HostPath(q))
    BY <1>2, <2>1
  <2>3. PICK g \in Seq(Names) : Under(g, HostPath(q)) /\ host' = RemoveTree(g)
    BY <1>6, <2>2, UnderItself, PathsAssumption DEF Remove, RemoveFails
  <2>4. ~Under(h, g)
    BY <1>1, <2>2, <2>3, UnderTransitive
  <2>5. QED
    BY <1>1, <2>3, <2>4 DEF RemoveTree
<1>7. ASSUME NEW src \in VPaths, NEW dst \in VPaths, Rename(src, dst) PROVE host'[h] = host[h]
  <2>1. /\ ~InSynthetic(src) /\ Covering(src) # {} /\ CanRename(src) /\ Direct(src)
        /\ ~InSynthetic(dst) /\ Covering(dst) # {} /\ CanRename(dst) /\ Direct(dst)
    BY <1>7 DEF Rename, CanRename, CanWrite, ResolvesWrite, Resolves, Through
  <2>2. ~Under(h, HostPath(src)) /\ ~Under(h, HostPath(dst))
    BY <1>2, <2>1
  <2>3. QED
    BY <1>1, <1>7, <2>2 DEF Rename, MoveTree
<1>8. ASSUME host' = host PROVE host'[h] = host[h]
  BY <1>8
<1>9. "data" \in Files
  BY DEF Files
<1>10. QED
  BY <1>3, <1>4, <1>5, <1>6, <1>7, <1>8, <1>9, ScriptsDo DEF h

\* A path that fs.writable denies looks the same after every operation of a script, through whatever
\* path, however read-only mounts and synthetic directories are nested; what is under a synthetic
\* directory, after every operation through a direct path (core/src/mount.rs and sandbox.rs).
THEOREM UnwritableUntouchedAlways == Spec => UnwritableUntouched
<1>1. ASSUME IInv, [Next]_vars, phase' = "built", phase = "built", HostsDisjoint,
             NEW p \in VPaths, Direct(p), ~Writable(p), ~(InSynthetic(p) /\ indirect')
      PROVE  View(p)' = View(p)
  <2>1. mounts' = mounts /\ MountsTyped
    BY <1>1, ScriptsDo DEF IInv
  <2>2. HostPath(p)' = HostPath(p)
    BY <2>1 DEF HostPath, JoinedPath, HostOf, MountOf, Covering
  <2>3. ASSUME Covering(p) # {}, HostPath(p) \in HPaths, ~InSynthetic(p)
        PROVE  host'[HostPath(p)] = host[HostPath(p)]
    <3> DEFINE h == HostPath(p)
               m == MountOf(p)
    <3>1. mounts[m].perm # "rw"
      BY <1>1, <2>3 DEF Writable, ResolvesDeep, ReadWrite, Direct
    <3>2. m \in DOMAIN mounts /\ h \in HPaths /\ h \in Seq(Names) /\ mounts[m].host \in Seq(Names) /\ Under(h, mounts[m].host)
      BY <1>1, <2>1, <2>3, HostPathUnder DEF HostOf
    <3> HIDE DEF h, m
    <3>3. SUFFICES ASSUME host'[h] # host[h] PROVE FALSE
      BY DEF h
    <3>4. PICK n \in DOMAIN mounts : mounts[n].perm = "rw" /\ Under(h, mounts[n].host)
      BY <1>1, <2>1, <3>2, <3>3, StepInv DEF HostChanges
    <3>5. mounts[n].host \in Seq(Names)
      BY <2>1, <3>4, PathsAssumption DEF MountsTyped
    <3>6. Under(mounts[m].host, mounts[n].host) \/ Under(mounts[n].host, mounts[m].host)
      BY <3>2, <3>4, <3>5, BothAbove
    <3>7. QED
      BY <1>1, <3>1, <3>2, <3>4, <3>6 DEF HostsDisjoint
  <2>4. Covering(p) # {} /\ HostPath(p) \in HPaths => host'[HostPath(p)] = host[HostPath(p)]
    BY <1>1, <2>3, SyntheticUntouched
  <2>5. Covering(p) # {} => Node(HostPath(p))' = Node(HostPath(p))
    BY <2>2, <2>4 DEF Node
  <2>6. QED
    BY <1>1, <2>1, <2>5, SameView
<1>2. IInv /\ [Next]_vars =>
        [phase' = "built" /\ phase = "built" /\ host' # host /\ HostsDisjoint =>
           \A p \in VPaths :
             Direct(p) /\ ~Writable(p) /\ ~(InSynthetic(p) /\ indirect') => View(p)' = View(p)]_vars
  BY <1>1
<1>3. QED
  BY InvariantHolds, <1>2, PTL DEF Spec, UnwritableUntouched

--------------------------------------------------------------------------------
(* Windows of a file.  A copy that nobody cut is a window of what the file     *)
(* holds now; one of a file that nobody grew is a window of what it held when  *)
(* it was opened, of which the file still is a prefix.                         *)

Characters == {"a", "b", "n", "x"}
Amount == {None} \cup {Some(n) : n \in Nat}
Modes == {"text", "buffer", "base64"}
Asked == [mode : Modes, offset : Amount, length : Amount]
Argument == {None} \cup {Some(n) : n \in Numbers}
Meant == [way : Ways, kind : {"regular", "dynamic", "synthetic"}, mode : Modes, offset : Argument, length : Argument]

LEMMA MaxOf == ASSUME NEW m \in Int, NEW n \in Int PROVE Max({m, n}) = IF m >= n THEN m ELSE n
  BY DEF Max

LEMMA MinOf == ASSUME NEW m \in Int, NEW n \in Int PROVE Min({m, n}) = IF m <= n THEN m ELSE n
  BY DEF Min

LEMMA OrOf ==
  ASSUME NEW option \in Amount, NEW default \in Nat
  PROVE  Or(option, default) \in Nat /\ (option # None => option = Some(Or(option, default)))
  BY DEF Or, Amount, Some, None

LEMMA Texts == ASSUME NEW text \in Contents PROVE text \in Seq(Characters) /\ Len(text) \in Nat /\ Len(text) < NoLimit
  BY ContentsAssumption, LenProperties DEF Characters

LEMMA PrefixIs ==
  ASSUME NEW s \in Seq(Characters), NEW t \in Seq(Characters), Seqs!IsStrictPrefix(s, t)
  PROVE  Len(s) <= Len(t) /\ \A i \in 1..Len(s) : s[i] = t[i]
<1>1. Len(s) <= Len(t) /\ SubSeq(s, 1, Len(s)) = SubSeq(t, 1, Len(s))
  BY DEF Seqs!IsStrictPrefix, Seqs!IsPrefix
<1>2. ASSUME NEW i \in 1..Len(s) PROVE s[i] = t[i]
  <2>1. SubSeq(s, 1, Len(s))[i] = s[i] /\ SubSeq(t, 1, Len(s))[i] = t[i]
    BY <1>1, <1>2
  <2>2. QED
    BY <1>1, <2>1
<1>3. QED
  BY <1>1, <1>2

LEMMA Limits == \A mode \in Modes : mode_input_limit(mode) \in Nat
<1>1. NoLimit \in Nat /\ BufferLimit \in Nat
  BY NumbersAssumption DEF NoLimit
<1>2. (BufferLimit \div 4) * 3 \in Nat
  BY <1>1
<1>3. QED
  BY <1>1, <1>2 DEF mode_input_limit, Modes, Base64Limit

--------------------------------------------------------------------------------
(* The request: options are tables whose numbers are those of the call. *)

Counts == {"offset", "limit", "count", "2", "3"}
Numeric(table) == \A key \in DOMAIN table : key \in Counts => table[key] \in Int

LEMMA GetIs ==
  ASSUME NEW table, Numeric(table), NEW key \in Counts
  PROVE  Get(table, key) = None \/ \E n \in Int : Get(table, key) = Some(n)
  BY DEF Numeric, Get

LEMMA ValueIs ==
  ASSUME NEW table, Numeric(table), NEW name \in Counts, NEW index \in Counts
  PROVE  table_value(table, name, index) = None \/ \E n \in Int : table_value(table, name, index) = Some(n)
  BY GetIs DEF table_value

LEMMA LinesAre ==
  ASSUME NEW value, value = None \/ \E n \in Int : value = Some(n)
  PROVE  parse_line_range(value) \in Amount
<1>1. CASE value = None
  BY <1>1 DEF parse_line_range, Amount
<1>2. ASSUME NEW n \in Int, value = Some(n) PROVE parse_line_range(value) \in Amount
  <2>1. value # None /\ value[1] = n
    BY <1>2 DEF Some, None
  <2>2. Max({0, n}) \in Nat
    BY MaxOf
  <2>3. PICK m \in Nat : m = Max({0, n})
    BY <2>2
  <2>4. m \div 2 \in Nat
    BY <2>3
  <2>5. QED
    BY <2>1, <2>3, <2>4 DEF parse_line_range, Amount
<1>3. QED
  BY <1>1, <1>2

LEMMA BytesAre ==
  ASSUME NEW value, value = None \/ \E n \in Int : value = Some(n), ~BadBytes(value)
  PROVE  parse_byte_range(value) \in Amount
<1>1. CASE value = None
  BY <1>1 DEF parse_byte_range, Amount
<1>2. ASSUME NEW n \in Int, value = Some(n) PROVE parse_byte_range(value) \in Amount
  <2>1. value # None /\ value[1] = n
    BY <1>2 DEF Some, None
  <2>2. n >= 0
    BY <2>1 DEF BadBytes
  <2>3. n \div 2 \in Nat
    BY <2>2
  <2>4. QED
    BY <2>1, <2>3 DEF parse_byte_range, Amount
<1>3. QED
  BY <1>1, <1>2

LEMMA Failing == ASSUME NEW why PROVE IsError(Error(why))
  BY DEF IsError, Error

LEMMA LegacyIs ==
  ASSUME NEW offset, offset = None \/ \E n \in Int : offset = Some(n),
         NEW limit, limit = None \/ \E n \in Int : limit = Some(n)
  PROVE  from_legacy_args(offset, limit) \in Asked
  BY LinesAre DEF from_legacy_args, ReadRequest, Asked, Modes

LEMMA OptionsAre ==
  ASSUME NEW options, Numeric(options), NEW combined
  PROVE  IsError(from_options(options, combined)) \/ from_options(options, combined) \in Asked
<1> DEFINE mode == parse_mode(options)
           offset == table_value(options, "offset", "2")
           limit == table_value(options, "limit", "3")
           count == table_value(options, "count", "3")
<1>1. (offset = None \/ \E n \in Int : offset = Some(n)) /\ (limit = None \/ \E n \in Int : limit = Some(n))
      /\ (count = None \/ \E n \in Int : count = Some(n))
  BY ValueIs DEF Counts
<1>2. from_legacy_args(offset, limit) \in Asked
  BY <1>1, LegacyIs
<1>3. mode \in Modes /\ ~BadBytes(offset) /\ ~BadBytes(count) =>
        ReadRequest(mode, parse_byte_range(offset), parse_byte_range(count)) \in Asked
  BY <1>1, BytesAre DEF ReadRequest, Asked
<1> HIDE DEF mode, offset, limit, count
<1>4. \/ \E why \in {"unknown option", "not a byte range"} : from_options(options, combined) = Error(why)
      \/ from_options(options, combined) = from_legacy_args(offset, limit)
      \/ /\ mode \in Modes /\ ~BadBytes(offset) /\ ~BadBytes(count)
         /\ from_options(options, combined) = ReadRequest(mode, parse_byte_range(offset), parse_byte_range(count))
  BY DEF from_options, mode, offset, limit, count, Modes
<1>5. QED
  BY <1>2, <1>3, <1>4, Failing DEF Modes

LEMMA JoinIs ==
  ASSUME NEW f, NEW g, Numeric(f), Numeric(g) PROVE Numeric(f ++ g)
  BY DEF Numeric, ++

LEMMA KeyIs ==
  ASSUME NEW key, NEW value, value # None /\ key \in Counts => value[1] \in Int PROVE Numeric(Key(key, value))
  BY DEF Numeric, Key

\* Every form of a call is an error or a request whose range is of natural numbers.
LEMMA ParseIs ==
  ASSUME NEW form \in Ways, NEW offset \in Argument, NEW length \in Argument, NEW mode \in Modes
  PROVE  IsError(parse(form, offset, length, mode)) \/ parse(form, offset, length, mode) \in Asked
<1> DEFINE lengthKey == IF mode = "text" THEN "limit" ELSE "count"
           named == Key("offset", offset) ++ Key(lengthKey, length) ++ Key("mode", Some(mode))
           counted == Key("2", offset) ++ Key("3", length) ++ Key("mode", Some(mode))
           path == Key("path", Some("file"))
           first == Key("1", Some("file"))
           other == Key(IF mode = "text" THEN "count" ELSE "limit", Some(2))
<1>1. Numeric(named) /\ Numeric(counted)
  <2>1. \A key : Numeric(Key(key, offset)) /\ Numeric(Key(key, length))
    BY KeyIs, NumbersAssumption DEF Argument, Some, None
  <2>2. Numeric(Key("mode", Some(mode)))
    BY KeyIs DEF Counts
  <2>3. Numeric(Key("offset", offset) ++ Key(lengthKey, length)) /\ Numeric(Key("2", offset) ++ Key("3", length))
    BY <2>1, JoinIs
  <2>4. QED
    BY <2>2, <2>3, JoinIs
<1>2. Numeric(path) /\ Numeric(first) /\ Numeric(other)
  BY KeyIs DEF Counts, Some
<1> HIDE DEF named, counted, path, first, other
<1>3. Numeric(path ++ named) /\ Numeric(first ++ counted) /\ Numeric(named ++ other)
  BY <1>1, <1>2, JoinIs
<1>4. from_legacy_args(offset, length) \in Asked
  <2>1. (offset = None \/ \E n \in Int : offset = Some(n)) /\ (length = None \/ \E n \in Int : length = Some(n))
    BY NumbersAssumption DEF Argument
  <2>2. QED
    BY <2>1, LegacyIs
<1>5. parse(form, offset, length, mode) \in
        {from_legacy_args(offset, length), from_options(named, FALSE), from_options(counted, FALSE),
         Error("unknown argument"), from_options(path ++ named, TRUE), from_options(first ++ counted, TRUE),
         from_options(path ++ named, FALSE), from_options(named ++ other, FALSE)}
  BY DEF parse, Ways, named, counted, path, first, other
<1>6. QED
  BY <1>1, <1>3, <1>4, <1>5, OptionsAre, Failing

--------------------------------------------------------------------------------
Most == Or(request.length, NoLimit)
Start == IF request.mode = "text" THEN 0 ELSE Offset
Wants == IF Presized THEN selected ELSE ReadLimit
Window(text) == \A i \in 1..Len(got) : Start + i <= Len(text) /\ got[i] = text[Start + i]
Left(text) == IF Len(text) > Offset THEN Len(text) - Offset ELSE 0
Extent(text) == IF Most <= Left(text) THEN Most ELSE Left(text)
Prefix(s, t) == Len(s) <= Len(t) /\ \A i \in 1..Len(s) : s[i] = t[i]

\* What a copy holds of the content that the file had when it was opened
Opened(text) ==
  /\ Prefix(content, text) /\ Window(text)
  /\ edits = {} => content = text
  /\ selected = IF request.mode = "buffer" /\ meant.kind = "regular" /\ text # <<>> THEN Extent(text) ELSE NoLimit

Copying ==
  /\ request \in Asked /\ meant.kind # "synthetic"
  /\ meant.kind = "dynamic" => edits = {} /\ (request.mode # "text" => Offset = 0)
  /\ content \in seen /\ seen \subseteq Contents /\ edits \subseteq {"grew", "shrank"}
  /\ got \in Seq(Characters) /\ Len(got) <= Wants
  /\ selected \in Nat /\ (Presized => selected <= Most)
  /\ "shrank" \notin edits => Window(content)
  /\ "grew" \notin edits => \E text \in seen : Opened(text)

ReadInv ==
  /\ meant \in Meant /\ content \in Contents
  /\ stage \in {"written", "parsed", "copying", "probing", "done"}
  /\ stage \in {"written", "parsed"} => edits = {} /\ got = <<>> /\ seen = {}
  /\ stage = "parsed" => request \in Asked
  /\ stage \in {"copying", "probing"} => Copying
  /\ stage = "probing" => Presized /\ Len(got) = selected
  /\ stage = "done" => WindowOfAVersion

LEMMA ReadInitInv == ReadInit => ReadInv
  BY DEF ReadInit, ReadInv, Meant, Argument, Modes

--------------------------------------------------------------------------------
\* Numbers of a request
LEMMA Requested ==
  ASSUME request \in Asked
  PROVE  /\ request.mode \in Modes /\ Offset \in Nat /\ Most \in Nat /\ Start \in Nat
         /\ NoLimit \in Nat /\ mode_input_limit(request.mode) \in Nat
         /\ ReadLimit \in Nat
         /\ ReadLimit = IF request.mode = "text" THEN NoLimit
                        ELSE IF Most <= mode_input_limit(request.mode) + 1 THEN Most
                        ELSE mode_input_limit(request.mode) + 1
<1>1. request.mode \in Modes /\ request.offset \in Amount /\ request.length \in Amount
  BY DEF Asked
<1>2. NoLimit \in Nat /\ 0 \in Nat
  BY DEF NoLimit
<1>3. Offset \in Nat /\ Most \in Nat
  BY <1>1, <1>2, OrOf DEF Offset, Most
<1>4. mode_input_limit(request.mode) \in Nat
  BY <1>1, Limits
<1>5. Min({Most, mode_input_limit(request.mode) + 1})
        = IF Most <= mode_input_limit(request.mode) + 1 THEN Most ELSE mode_input_limit(request.mode) + 1
  BY <1>3, <1>4, MinOf
<1>6. QED
  BY <1>1, <1>2, <1>3, <1>4, <1>5 DEF Start, ReadLimit, Most

LEMMA ExtentIs ==
  ASSUME request \in Asked, NEW text \in Contents
  PROVE  /\ Left(text) \in Nat /\ Extent(text) \in Nat /\ Extent(text) <= Most /\ Extent(text) < NoLimit
         /\ Extent(text) <= Left(text)
  BY Requested, Texts DEF Left, Extent

\* A window as wide as the range is the range.
LEMMA SliceIs ==
  ASSUME request \in Asked, request.mode # "text", NEW text \in Contents,
         got \in Seq(Characters), Window(text), Len(got) = Extent(text)
  PROVE  got = slice_bytes(text, request.offset, request.length)
<1>1. Offset \in Nat /\ Most \in Nat /\ Start = Offset
  BY Requested DEF Start
<1>2. text \in Seq(Characters) /\ Len(text) \in Nat
  BY Texts
<1> DEFINE start == Min({Offset, Len(text)})
           end == Min({start + Most, Len(text)})
<1>3. slice_bytes(text, request.offset, request.length) = SubSeq(text, start + 1, end)
  BY DEF slice_bytes, Offset, Most
<1>4. start = IF Offset <= Len(text) THEN Offset ELSE Len(text)
  BY <1>1, <1>2, MinOf
<1>5. start \in Nat /\ (end = IF start + Most <= Len(text) THEN start + Most ELSE Len(text))
  <2>1. start \in Nat
    BY <1>1, <1>2, <1>4
  <2> HIDE DEF start
  <2>2. start + Most \in Int /\ Len(text) \in Int
    BY <1>1, <1>2, <2>1
  <2>3. QED
    BY <2>1, <2>2, MinOf
<1> HIDE DEF start, end
<1>6. end \in Nat /\ end - start = Extent(text) /\ end <= Len(text) /\ start <= end
  <2>1. CASE Offset < Len(text)
    <3>1. start = Offset /\ Left(text) = Len(text) - Offset
      BY <1>1, <1>2, <1>4, <2>1 DEF Left
    <3>2. CASE Most <= Left(text)
      BY <1>1, <1>2, <1>5, <3>1, <3>2 DEF Extent
    <3>3. CASE ~(Most <= Left(text))
      BY <1>1, <1>2, <1>5, <3>1, <3>3 DEF Extent
    <3>4. QED
      BY <3>2, <3>3
  <2>2. CASE ~(Offset < Len(text))
    <3>1. start = Len(text) /\ Left(text) = 0
      BY <1>1, <1>2, <1>4, <2>2 DEF Left
    <3>2. Extent(text) = 0 /\ end = Len(text)
      BY <1>1, <1>2, <1>5, <3>1 DEF Extent
    <3>3. QED
      BY <1>2, <3>1, <3>2
  <2>3. QED
    BY <2>1, <2>2
<1>7. Extent(text) > 0 => start = Offset
  BY <1>1, <1>2, <1>4 DEF Extent, Left
<1> DEFINE slice == SubSeq(text, start + 1, end)
<1>8. slice \in Seq(Characters) /\ Len(slice) = Len(got)
      /\ \A i \in 1..Len(got) : slice[i] = text[start + i]
  BY <1>2, <1>5, <1>6, SubSeqProperties
<1>9. \A i \in 1..Len(got) : slice[i] = got[i]
  BY <1>1, <1>2, <1>6, <1>7, <1>8 DEF Window
<1> HIDE DEF slice
<1>10. got = slice
  BY <1>8, <1>9, SeqEqual
<1>11. QED
  BY <1>3, <1>10 DEF slice

LEMMA WindowEnds ==
  ASSUME request \in Asked, NEW text \in Contents, got \in Seq(Characters), Window(text)
  PROVE  Len(got) \in Nat /\ (Len(got) > 0 => Start + Len(got) <= Len(text))
<1>1. Len(got) \in Nat
  BY LenProperties
<1>2. QED
  BY <1>1 DEF Window

\* A window that is as long as asked for, or ends where the file ends, is as wide as the range.
LEMMA Whole ==
  ASSUME request \in Asked, request.mode # "text", NEW text \in Contents, got \in Seq(Characters), Window(text),
         Len(got) <= Most, Len(got) = Most \/ Offset + Len(got) >= Len(text)
  PROVE  Len(got) = Extent(text)
<1>1. Offset \in Nat /\ Most \in Nat /\ Start = Offset
  BY Requested DEF Start
<1>2. Len(text) \in Nat /\ Len(got) \in Nat /\ (Len(got) > 0 => Offset + Len(got) <= Len(text))
  BY <1>1, Texts, WindowEnds
<1>3. CASE Len(text) > Offset
  <2>1. Left(text) = Len(text) - Offset
    BY <1>3 DEF Left
  <2>2. Len(got) <= Left(text)
    BY <1>1, <1>2, <1>3, <2>1
  <2>3. Len(got) = Most \/ Len(got) = Left(text)
    BY <1>1, <1>2, <1>3, <2>1
  <2>4. Left(text) \in Nat
    BY <1>1, <1>2, <1>3, <2>1
  <2>5. QED
    BY <1>1, <1>2, <2>2, <2>3, <2>4 DEF Extent
<1>4. CASE ~(Len(text) > Offset)
  <2>1. Left(text) = 0 /\ Len(got) = 0
    BY <1>1, <1>2, <1>4 DEF Left
  <2>2. QED
    BY <1>1, <2>1 DEF Extent
<1>5. QED
  BY <1>3, <1>4

--------------------------------------------------------------------------------
\* A call that returns has nothing more to keep.
LEMMA Ends ==
  ASSUME ReadInv, UNCHANGED <<meant, content>>, stage' = "done", WindowOfAVersion' PROVE ReadInv'
  BY DEF ReadInv, Meant

LEMMA EndsInError ==
  ASSUME ReadInv, UNCHANGED <<meant, content>>, stage' = "done", IsError(result') PROVE ReadInv'
  BY Ends DEF WindowOfAVersion, Returned

Undisturbed == IF request.mode = "buffer" THEN edits # {"grew", "shrank"} ELSE "shrank" \notin edits
Slice(text) ==
  IF request.mode = "text" THEN slice_lines(text, request.offset, request.length)
  ELSE slice_bytes(text, request.offset, request.length)

LEMMA EndsInWindow ==
  ASSUME ReadInv, Copying, UNCHANGED <<meant, request, content, seen, edits>>, stage' = "done",
         Undisturbed /\ ~IsError(result') => \E text \in seen : result'.value = Slice(text)
  PROVE  ReadInv'
<1>1. SUFFICES ASSUME Undisturbed, ~IsError(result') PROVE WindowOfAVersion'
  BY Ends DEF WindowOfAVersion, Returned, Undisturbed
<1>2. PICK text \in seen : result'.value = Slice(text)
  BY <1>1
<1>3. meant.kind = "dynamic" => request.mode = "text" \/ Offset = 0
  BY DEF Copying
<1>4. result'.value = IF request.mode = "text" THEN slice_lines(text, request.offset, request.length)
                      ELSE slice_bytes(text, IF meant.kind = "dynamic" /\ Offset # 0 THEN Some(NoLimit)
                                             ELSE request.offset, request.length)
  BY <1>2, <1>3 DEF Slice
<1>5. text \in seen' /\ Offset' = Offset
  BY <1>2 DEF Offset
<1>6. QED
  BY <1>4, <1>5 DEF WindowOfAVersion

LEMMA LuaIs ==
  ASSUME NEW bytes
  PROVE  \/ IsError(to_lua(bytes))
         \/ /\ ensure_mode_input_size(request.mode, Len(bytes))
            /\ to_lua(bytes).value = IF request.mode = "text" THEN slice_lines(bytes, request.offset, request.length)
                                     ELSE bytes
<1>1. CASE ~ensure_mode_input_size(request.mode, Len(bytes))
  BY <1>1, Failing DEF to_lua
<1>2. CASE ensure_mode_input_size(request.mode, Len(bytes)) /\ request.mode = "text"
  BY <1>2, Failing DEF to_lua
<1>3. CASE ensure_mode_input_size(request.mode, Len(bytes)) /\ request.mode # "text"
  BY <1>3 DEF to_lua
<1>4. QED
  BY <1>1, <1>2, <1>3

--------------------------------------------------------------------------------
LEMMA ParseStep == ASSUME ReadInv, Parse PROVE ReadInv'
<1>1. IsError(request') \/ request' \in Asked
  BY ParseIs DEF ReadInv, Meant, Parse
<1>2. CASE IsError(request')
  BY <1>2, EndsInError DEF Parse, Return
<1>3. CASE ~IsError(request')
  BY <1>1, <1>3 DEF ReadInv, Meant, Parse
<1>4. QED
  BY <1>2, <1>3

LEMMA SyntheticStep == ASSUME ReadInv, synthetic_value PROVE ReadInv'
<1>1. stage = "parsed" /\ meant.kind = "synthetic" /\ seen = {} /\ stage' = "done"
      /\ UNCHANGED <<meant, request, content, seen, edits>>
  BY DEF ReadInv, synthetic_value, Return
<1>2. SUFFICES ASSUME ~IsError(result') PROVE WindowOfAVersion'
  BY <1>1, Ends DEF WindowOfAVersion, Returned
<1>3. result'.value = Slice(content)
  BY <1>2, LuaIs DEF synthetic_value, Return, Slice
<1>4. QED
  BY <1>1, <1>3 DEF WindowOfAVersion, Slice

LEMMA AvailableIs ==
  ASSUME request \in Asked, content \in Contents, meant.kind = "regular"
  PROVE  ReportedLen = Len(content) /\ Available = Extent(content)
<1>1. Offset \in Nat /\ Most \in Nat /\ Len(content) \in Nat
  BY Requested, Texts
<1>2. ReportedLen = Len(content)
  BY DEF ReportedLen
<1>3. Max({0, Len(content) - Offset}) = Left(content)
  BY <1>1, MaxOf DEF Left
<1>4. Left(content) \in Int
  BY <1>1 DEF Left
<1>5. Min({Most, Left(content)}) = Extent(content)
  BY <1>1, <1>4, MinOf DEF Extent
<1>6. QED
  BY <1>2, <1>3, <1>5 DEF Available, Most

LEMMA OpenStep == ASSUME ReadInv, Open PROVE ReadInv'
<1>1. /\ stage = "parsed" /\ request \in Asked /\ content \in Contents /\ edits = {} /\ got = <<>>
      /\ meant.kind \in {"regular", "dynamic"} /\ seen' = {content}
      /\ UNCHANGED <<meant, request, content, edits, got>>
  BY DEF ReadInv, Open, Meant
<1>2. Offset \in Nat /\ Len(content) \in Nat /\ content \in Seq(Characters)
  BY <1>1, Requested, Texts
<1>3. CASE BeyondEnd
  <2>1. stage' = "done" /\ result' = [value |-> <<>>] /\ request.mode # "text" /\ Offset # 0
    BY <1>3 DEF Open, Return, BeyondEnd
  <2>2. meant.kind = "regular" => slice_bytes(content, request.offset, request.length) = <<>>
    <3>1. SUFFICES ASSUME meant.kind = "regular" PROVE slice_bytes(content, request.offset, request.length) = <<>>
      OBVIOUS
    <3>2. Offset >= Len(content)
      BY <1>3, <3>1 DEF BeyondEnd, ReportedLen
    <3>3. Extent(content) = 0
      <4>1. Left(content) = 0 /\ Most \in Nat
        BY <1>1, <1>2, <3>2, Requested DEF Left
      <4>2. QED
        BY <4>1 DEF Extent
    <3>4. got \in Seq(Characters) /\ Window(content) /\ Len(got) = Extent(content)
      BY <1>1, <3>3, EmptySeq DEF Window
    <3>5. QED
      BY <1>1, <2>1, <3>4, SliceIs
  <2>3. meant.kind = "dynamic" => slice_bytes(content, Some(NoLimit), request.length) = <<>>
    <3>1. Min({NoLimit, Len(content)}) = Len(content)
      BY <1>1, <1>2, Texts, MinOf DEF NoLimit
    <3>2. Or(Some(NoLimit), 0) = NoLimit
      BY DEF Or, Some, None
    <3>3. Most \in Nat /\ Min({Len(content) + Most, Len(content)}) = Len(content)
      <4>1. Most \in Nat
        BY <1>1, Requested
      <4>2. QED
        BY <1>2, <4>1, MinOf
    <3>4. slice_bytes(content, Some(NoLimit), request.length) = SubSeq(content, Len(content) + 1, Len(content))
      BY <3>1, <3>2, <3>3 DEF slice_bytes, Most
    <3>5. QED
      BY <1>2, <3>4, SubSeqEmpty
  <2>4. WindowOfAVersion'
    <3>1. seen' = {content} /\ content' = content /\ meant' = meant /\ request' = request /\ Offset' = Offset
      BY <1>1 DEF Offset
    <3>2. <<>> = slice_bytes(content, IF meant.kind = "dynamic" /\ Offset # 0 THEN Some(NoLimit) ELSE request.offset,
                             request.length)
      BY <1>1, <2>1, <2>2, <2>3
    <3>3. result'.value = <<>> /\ request'.mode # "text"
      BY <2>1, <3>1
    <3>4. QED
      BY <3>1, <3>2, <3>3 DEF WindowOfAVersion
  <2>5. QED
    BY <1>1, <2>1, <2>4, Ends
<1>4. CASE ~BeyondEnd /\ stage' = "done"
  <2>1. result' = Error("too large")
    BY <1>1, <1>4 DEF Open, Return
  <2>2. QED
    BY <1>1, <1>4, <2>1, Failing, EndsInError
<1>5. CASE ~BeyondEnd /\ stage' # "done"
  <2>1. /\ stage' = "copying"
        /\ selected' = IF request.mode = "buffer" /\ ReportedLen > 0 THEN Available ELSE NoLimit
    BY <1>5 DEF Open, Return
  <2>2. meant.kind = "regular" => ReportedLen = Len(content) /\ Available = Extent(content)
    BY <1>1, AvailableIs
  <2>3. meant.kind = "dynamic" => ReportedLen = 0
    BY DEF ReportedLen
  <2>4. content # <<>> <=> Len(content) > 0
    BY <1>2, EmptySeq, LenProperties
  <2>5. selected' = IF request.mode = "buffer" /\ meant.kind = "regular" /\ content # <<>>
                    THEN Extent(content) ELSE NoLimit
    BY <1>1, <1>2, <2>1, <2>2, <2>3, <2>4
  <2>6. Extent(content) \in Nat /\ Extent(content) <= Most /\ NoLimit \in Nat /\ ReadLimit \in Nat
    BY <1>1, ExtentIs, Requested
  <2>7. selected' \in Nat /\ (selected' # NoLimit => selected' <= Most) /\ Most' = Most /\ ReadLimit' = ReadLimit
        /\ Extent(content)' = Extent(content)
    BY <1>1, <2>5, <2>6 DEF Most, ReadLimit, Extent, Left, Offset
  <2>8. Len(got') = 0 /\ got' \in Seq(Characters)
    BY <1>1, EmptySeq
  <2>9. Window(content)'
    BY <2>8 DEF Window
  <2>10. Prefix(content, content)'
    BY <1>1, <1>2 DEF Prefix
  <2>11. Opened(content)'
    BY <1>1, <2>5, <2>7, <2>9, <2>10 DEF Opened
  <2>12. meant.kind = "dynamic" => request.mode = "text" \/ Offset = 0
    BY <1>2, <1>5, <2>3 DEF BeyondEnd
  <2>13. Wants' \in Nat /\ (Presized' => selected' <= Most')
    BY <2>6, <2>7 DEF Wants, Presized
  <2>14. Copying'
    BY <1>1, <2>7, <2>8, <2>9, <2>11, <2>12, <2>13 DEF Copying, Offset
  <2>15. QED
    BY <1>1, <2>1, <2>14 DEF ReadInv
<1>6. QED
  BY <1>3, <1>4, <1>5

LEMMA CopyByteStep == ASSUME ReadInv, CopyByte PROVE ReadInv'
<1>1. /\ stage = "copying" /\ Copying /\ content \in Contents /\ ~Enough /\ ~AtEnd /\ got' = Append(got, NextByte)
      /\ UNCHANGED <<meant, stage, request, content, seen, edits, selected, result>>
  BY DEF ReadInv, CopyByte
<1>2. /\ Start \in Nat /\ Len(content) \in Nat /\ content \in Seq(Characters) /\ got \in Seq(Characters)
      /\ Len(got) \in Nat /\ request \in Asked /\ ReadLimit \in Nat /\ selected \in Nat
  BY <1>1, Requested, Texts, LenProperties DEF Copying
<1>3. Start + Len(got) + 1 <= Len(content) /\ NextByte = content[Start + Len(got) + 1]
  BY <1>1, <1>2 DEF AtEnd, NextByte, Start
<1>4. NextByte \in Characters
  BY <1>2, <1>3, ElementOfSeq
<1>5. /\ got' \in Seq(Characters) /\ Len(got') = Len(got) + 1
      /\ \A i \in 1..Len(got) : got'[i] = got[i]
      /\ got'[Len(got) + 1] = content[Start + Len(got) + 1]
  BY <1>1, <1>2, <1>3, <1>4, AppendProperties
<1>6. Start' = Start /\ Wants' = Wants /\ Presized' = Presized /\ Most' = Most /\ Offset' = Offset
  BY <1>1 DEF Start, Wants, Presized, Most, Offset, ReadLimit
<1>7. Len(got') <= Wants
  <2>1. Len(got) # Wants /\ Wants \in Nat
    BY <1>1, <1>2 DEF Enough, Wants
  <2>2. QED
    BY <1>1, <1>2, <1>5, <2>1 DEF Copying
<1>8. ASSUME NEW text \in Contents, Prefix(content, text), Window(text)
      PROVE  \A i \in 1..Len(got') : Start + i <= Len(text) /\ got'[i] = text[Start + i]
  <2>1. Len(text) \in Nat
    BY Texts
  <2>2. ASSUME NEW i \in 1..Len(got) PROVE Start + i <= Len(text) /\ got'[i] = text[Start + i]
    BY <1>5, <1>8, <2>2 DEF Window
  <2>3. Start + (Len(got) + 1) <= Len(text) /\ got'[Len(got) + 1] = text[Start + (Len(got) + 1)]
    <3>1. Start + (Len(got) + 1) \in 1..Len(content)
      BY <1>2, <1>3
    <3>2. QED
      BY <1>2, <1>5, <1>8, <2>1, <3>1 DEF Prefix
  <2>4. \A i \in 1..Len(got') : i \in 1..Len(got) \/ i = Len(got) + 1
    BY <1>2, <1>5
  <2>5. QED
    BY <2>2, <2>3, <2>4
<1>9. Prefix(content, content)
  BY <1>2 DEF Prefix
<1>10. "shrank" \notin edits' => Window(content)'
  BY <1>1, <1>6, <1>8, <1>9 DEF Copying, Window
<1>11. ASSUME "grew" \notin edits' PROVE \E text \in seen' : Opened(text)'
  <2>1. PICK text \in seen : Opened(text)
    BY <1>1, <1>11 DEF Copying
  <2>2. text \in Contents /\ Prefix(content, text) /\ Window(text)
    BY <1>1, <2>1 DEF Copying, Opened
  <2>3. \A i \in 1..Len(got') : Start' + i <= Len(text) /\ got'[i] = text[Start' + i]
    BY <1>6, <1>8, <2>2
  <2>4. Extent(text)' = Extent(text)
    BY <1>6 DEF Extent, Left
  <2>5. Opened(text)'
    BY <1>1, <2>1, <2>3, <2>4 DEF Opened, Window, Prefix
  <2>6. QED
    BY <1>1, <2>1, <2>5
<1>12. Copying'
  BY <1>1, <1>2, <1>5, <1>6, <1>7, <1>10, <1>11 DEF Copying
<1>13. QED
  BY <1>1, <1>12 DEF ReadInv

\* What a call that read to its limit, or to the end, returns
LEMMA CopiedIs ==
  ASSUME ReadInv, stage = "copying", Copying, Undisturbed, Enough \/ AtEnd, ~(Presized /\ ~ensure_complete_copy),
         ~(Presized /\ ensure_complete_copy /\ Probed), ensure_mode_input_size(request.mode, Len(got))
  PROVE  \E text \in seen :
           /\ edits = {} => text = content
           /\ IF request.mode = "text" THEN got = text
              ELSE got = slice_bytes(text, request.offset, request.length)
<1>1. /\ request \in Asked /\ content \in Contents /\ content \in seen /\ got \in Seq(Characters)
      /\ seen \subseteq Contents
  BY DEF ReadInv, Copying
<1>2. /\ Offset \in Nat /\ Most \in Nat /\ Start \in Nat /\ Len(content) \in Nat /\ content \in Seq(Characters)
      /\ Len(content) < NoLimit /\ NoLimit \in Nat /\ Len(got) \in Nat /\ ReadLimit \in Nat /\ selected \in Nat
      /\ mode_input_limit(request.mode) \in Nat
  BY <1>1, Requested, Texts, LenProperties DEF Copying
<1>3. CASE request.mode = "text"
  <2>1. Start = 0 /\ Wants = NoLimit /\ "shrank" \notin edits
    BY <1>1, <1>3, Requested DEF Start, Wants, Presized, Undisturbed
  <2>2. Window(content)
    BY <2>1 DEF Copying
  <2>3. Len(got) <= Len(content)
    BY <1>1, <1>2, <2>1, <2>2, WindowEnds
  <2>4. AtEnd
    BY <1>2, <2>1, <2>3 DEF Enough, Wants
  <2>5. Len(got) = Len(content)
    BY <1>2, <1>3, <2>3, <2>4 DEF AtEnd
  <2>6. \A i \in 1..Len(got) : got[i] = content[i]
    <3>1. \A i \in 1..Len(got) : 0 + i = i
      BY <1>2
    <3>2. QED
      BY <2>1, <2>2, <3>1 DEF Window
  <2>7. got = content
    BY <1>1, <1>2, <2>5, <2>6, SeqEqual
  <2>8. QED
    BY <1>1, <1>3, <2>7
<1>4. CASE request.mode # "text" /\ Presized
  <2>1. Len(got) = selected /\ ~Probed
    BY <1>4 DEF ensure_complete_copy
  <2>2. Len(got) = Most
    BY <1>2, <1>4, <2>1 DEF Probed, Copying, Most
  <2>3. PICK text \in seen : Window(text) /\ (edits = {} => text = content)
    <3>1. "shrank" \notin edits \/ ("grew" \notin edits /\ edits # {})
      <4>1. request.mode = "buffer" /\ edits \subseteq {"grew", "shrank"}
        BY <1>4 DEF Presized, Copying
      <4>2. QED
        BY <4>1 DEF Undisturbed
    <3>2. QED
      BY <1>1, <3>1 DEF Copying, Opened
  <2>4. text \in Contents
    BY <1>1
  <2>5. Len(got) = Extent(text)
    BY <1>1, <1>2, <1>4, <2>2, <2>3, <2>4, Whole
  <2>6. got = slice_bytes(text, request.offset, request.length)
    BY <1>1, <1>4, <2>3, <2>4, <2>5, SliceIs
  <2>7. QED
    BY <1>4, <2>3, <2>6
<1>5. CASE request.mode # "text" /\ ~Presized
  <2>1. Window(content)
    <3>1. CASE "shrank" \notin edits
      BY <3>1 DEF Copying
    <3>2. CASE "shrank" \in edits
      <4>1. request.mode = "buffer" /\ "grew" \notin edits
        <5>1. request.mode = "buffer" /\ edits # {"grew", "shrank"} /\ edits \subseteq {"grew", "shrank"}
          BY <3>2 DEF Undisturbed, Copying
        <5>2. QED
          BY <3>2, <5>1
      <4>2. PICK text \in seen : Opened(text)
        BY <4>1 DEF Copying
      <4>3. selected = NoLimit /\ meant.kind = "regular"
        <5>1. meant.kind # "dynamic" /\ meant.kind # "synthetic"
          BY <3>2 DEF Copying
        <5>2. QED
          BY <1>5, <4>1, <5>1 DEF Presized, ReadInv, Meant
      <4>4. text = <<>>
        BY <1>1, <4>1, <4>2, <4>3, ExtentIs DEF Opened
      <4>5. Window(text)
        BY <4>2 DEF Opened
      <4>6. Len(got) = 0
        <5>1. Len(text) = 0 /\ text \in Contents
          BY <1>1, <4>4
        <5>2. QED
          BY <1>1, <1>2, <4>5, <5>1, WindowEnds
      <4>7. QED
        BY <4>6 DEF Window
    <3>3. QED
      BY <3>1, <3>2
  <2>2. Wants = ReadLimit /\ Len(got) <= ReadLimit /\ ReadLimit <= Most
    BY <1>1, <1>2, <1>5, Requested DEF Wants, Copying
  <2>3. Len(got) <= mode_input_limit(request.mode)
    BY DEF ensure_mode_input_size
  <2>4. Enough => Len(got) = Most
    BY <1>1, <1>2, <1>5, <2>2, <2>3, Requested DEF Enough
  <2>5. AtEnd => Offset + Len(got) >= Len(content)
    BY <1>5 DEF AtEnd
  <2>6. Len(got) = Extent(content)
    BY <1>1, <1>2, <1>5, <2>1, <2>2, <2>4, <2>5, Whole
  <2>7. got = slice_bytes(content, request.offset, request.length)
    BY <1>1, <1>5, <2>1, <2>6, SliceIs
  <2>8. QED
    BY <1>1, <1>5, <2>7
<1>6. QED
  BY <1>3, <1>4, <1>5

LEMMA CopiedStep == ASSUME ReadInv, Copied PROVE ReadInv'
<1>1. stage = "copying" /\ Copying /\ (Enough \/ AtEnd) /\ UNCHANGED <<meant, request, content, seen, edits, selected, got>>
  BY DEF ReadInv, Copied
<1>2. CASE Presized /\ ~ensure_complete_copy
  <2>1. stage' = "done" /\ result' = Error("file changed")
    BY <1>2 DEF Copied, Return
  <2>2. QED
    BY <1>1, <2>1, Failing, EndsInError
<1>3. CASE Presized /\ ensure_complete_copy /\ Probed
  <2>1. stage' = "probing"
    BY <1>3 DEF Copied
  <2>2. Copying' = Copying /\ Presized' /\ Len(got') = selected'
    BY <1>1, <1>3 DEF Copying, Presized, Wants, ReadLimit, Most, Window, Start, Offset, Opened, Prefix, Extent, Left,
                      ensure_complete_copy
  <2>3. QED
    BY <1>1, <2>1, <2>2 DEF ReadInv
<1>4. CASE ~(Presized /\ ~ensure_complete_copy) /\ ~(Presized /\ ensure_complete_copy /\ Probed)
  <2>1. stage' = "done" /\ result' = to_lua(got)
    BY <1>4 DEF Copied, Return
  <2>2. ASSUME Undisturbed, ~IsError(result') PROVE \E text \in seen : result'.value = Slice(text)
    <3>1. /\ ensure_mode_input_size(request.mode, Len(got))
          /\ result'.value = IF request.mode = "text" THEN slice_lines(got, request.offset, request.length) ELSE got
      BY <2>1, <2>2, LuaIs
    <3>2. PICK text \in seen : IF request.mode = "text" THEN got = text
                               ELSE got = slice_bytes(text, request.offset, request.length)
      BY <1>1, <1>4, <2>2, <3>1, CopiedIs
    <3>3. QED
      BY <3>1, <3>2 DEF Slice
  <2>3. QED
    BY <1>1, <2>1, <2>2, EndsInWindow
<1>5. QED
  BY <1>2, <1>3, <1>4

LEMMA ProbeStep == ASSUME ReadInv, Probe PROVE ReadInv'
<1>1. /\ Copying /\ Presized /\ Len(got) = selected /\ stage' = "done"
      /\ UNCHANGED <<meant, request, content, seen, edits>>
      /\ result' = IF AtEnd THEN [value |-> got] ELSE Error("file changed")
  BY DEF ReadInv, Probe, Return
<1>2. request.mode = "buffer" /\ request \in Asked /\ got \in Seq(Characters) /\ selected # NoLimit
      /\ seen \subseteq Contents /\ content \in seen
  BY <1>1 DEF Copying, Presized
<1>3. ASSUME Undisturbed, ~IsError(result') PROVE \E text \in seen : result'.value = Slice(text)
  <2>1. AtEnd /\ result'.value = got
    BY <1>1, <1>3, Failing
  <2>2. \E text \in seen : Window(text) /\ Len(got) = Extent(text)
    <3>1. CASE "shrank" \notin edits
      <4>1. Window(content)
        BY <1>1, <3>1 DEF Copying
      <4>2. Offset + Len(got) >= Len(content)
        BY <1>2, <2>1 DEF AtEnd
      <4>3. Len(got) <= Most
        BY <1>1 DEF Copying
      <4>4. QED
        BY <1>2, <4>1, <4>2, <4>3, Whole
    <3>2. CASE "shrank" \in edits
      <4>1. edits # {"grew", "shrank"} /\ edits \subseteq {"grew", "shrank"}
        BY <1>1, <1>2, <1>3 DEF Undisturbed, Copying
      <4>2. "grew" \notin edits
        BY <3>2, <4>1
      <4>3. PICK text \in seen : Opened(text)
        BY <1>1, <4>2 DEF Copying
      <4>4. Window(text) /\ selected = Extent(text)
        BY <1>2, <4>3 DEF Opened
      <4>5. QED
        BY <1>1, <4>3, <4>4
    <3>3. QED
      BY <3>1, <3>2
  <2>3. PICK text \in seen : Window(text) /\ Len(got) = Extent(text)
    BY <2>2
  <2>4. got = slice_bytes(text, request.offset, request.length)
    BY <1>2, <2>3, SliceIs
  <2>5. QED
    BY <1>2, <2>1, <2>3, <2>4 DEF Slice
<1>4. QED
  BY <1>1, <1>3, EndsInWindow

LEMMA EditStep == ASSUME ReadInv, HostEdits PROVE ReadInv'
<1>1. /\ stage \in {"copying", "probing"} /\ meant.kind = "regular" /\ Copying /\ content \in Contents
      /\ UNCHANGED <<meant, stage, request, selected, got, result>>
  BY DEF ReadInv, HostEdits
<1>2. PICK new \in Contents :
        /\ \/ Seqs!IsStrictPrefix(content, new) /\ edits' = edits \cup {"grew"}
           \/ Seqs!IsStrictPrefix(new, content) /\ edits' = edits \cup {"shrank"}
        /\ content' = new /\ seen' = seen \cup {new}
  BY DEF HostEdits
<1>3. content \in Seq(Characters) /\ new \in Seq(Characters) /\ Len(content) \in Nat /\ Len(new) \in Nat
  BY <1>1, Texts
<1>4. Start' = Start /\ Wants' = Wants /\ Presized' = Presized /\ Most' = Most /\ Offset' = Offset
  BY <1>1 DEF Start, Wants, Presized, Most, Offset, ReadLimit
<1>5. "shrank" \notin edits' => Window(content)'
  <2>1. SUFFICES ASSUME "shrank" \notin edits' PROVE Window(content)'
    OBVIOUS
  <2>2. Seqs!IsStrictPrefix(content, new) /\ "shrank" \notin edits
    BY <1>2, <2>1
  <2>3. Window(content) /\ Prefix(content, new)
    BY <1>1, <1>3, <2>2, PrefixIs DEF Copying, Prefix
  <2>4. Start \in Nat
    BY <1>1, Requested DEF Copying
  <2>5. ASSUME NEW i \in 1..Len(got) PROVE Start + i <= Len(new) /\ got[i] = new[Start + i]
    <3>1. Start + i <= Len(content) /\ got[i] = content[Start + i]
      BY <2>3 DEF Window
    <3>2. Start + i \in 1..Len(content)
      <4>1. Len(got) \in Nat
        BY <1>1, LenProperties DEF Copying
      <4>2. QED
        BY <1>3, <2>4, <3>1, <4>1
    <3>3. QED
      BY <1>3, <2>3, <3>1, <3>2 DEF Prefix
  <2>6. QED
    BY <1>1, <1>2, <1>4, <2>5 DEF Window
<1>6. ASSUME "grew" \notin edits' PROVE \E text \in seen' : Opened(text)'
  <2>1. Seqs!IsStrictPrefix(new, content) /\ "grew" \notin edits /\ edits' # {}
    BY <1>2, <1>6
  <2>2. PICK text \in seen : Opened(text)
    BY <1>1, <2>1 DEF Copying
  <2>3. Prefix(new, text)
    <3>1. Prefix(new, content) /\ Prefix(content, text)
      BY <1>3, <2>1, <2>2, PrefixIs DEF Prefix, Opened
    <3>2. text \in Contents /\ Len(text) \in Nat
      BY <1>1, <2>2, Texts DEF Copying
    <3>3. QED
      BY <1>3, <3>1, <3>2 DEF Prefix
  <2>4. Window(text)' /\ Extent(text)' = Extent(text)
    BY <1>1, <1>4, <2>2 DEF Window, Extent, Left, Opened
  <2>5. Opened(text)'
    <3>1. Prefix(content', text)
      BY <1>2, <2>3
    <3>2. QED
      BY <1>1, <2>1, <2>2, <2>4, <3>1 DEF Opened, Prefix
  <2>6. QED
    BY <1>2, <2>2, <2>5
<1>7. Copying'
  <2>1. edits' \subseteq {"grew", "shrank"} /\ content' \in seen' /\ seen' \subseteq Contents
    BY <1>1, <1>2 DEF Copying
  <2>2. QED
    BY <1>1, <1>4, <1>5, <1>6, <2>1 DEF Copying
<1>8. QED
  BY <1>1, <1>2, <1>4, <1>7 DEF ReadInv

LEMMA ReadStep == ReadInv /\ [ReadNext]_reading => ReadInv'
<1>1. SUFFICES ASSUME ReadInv, [ReadNext]_reading PROVE ReadInv'
  OBVIOUS
<1>2. CASE UNCHANGED reading
  <2>1. UNCHANGED <<meant, stage, request, content, seen, edits, selected, got, result>>
    BY <1>2 DEF reading
  <2>2. Copying' = Copying /\ Presized' = Presized
    BY <2>1 DEF Copying, Presized, Wants, ReadLimit, Most, Window, Start, Offset, Opened, Prefix, Extent, Left
  <2>3. WindowOfAVersion' = WindowOfAVersion
    BY <2>1 DEF WindowOfAVersion, Returned, Offset
  <2>4. QED
    BY <1>1, <2>1, <2>2, <2>3 DEF ReadInv, Meant
<1>3. CASE ReadNext
  BY <1>1, <1>3, ParseStep, SyntheticStep, OpenStep, CopyByteStep, CopiedStep, ProbeStep, EditStep DEF ReadNext
<1>4. QED
  BY <1>1, <1>2, <1>3

\* What has been copied so far is a window of the file as it is, or as it was when it was
\* opened, according to what the host has done to it (read_host_buffer).
THEOREM ReadInductive == ReadSpec => []ReadInv
  BY ReadInitInv, ReadStep, PTL DEF ReadSpec

\* A buffer is the range of one content that the file had during the read, unless the file both
\* shrank and grew; base64 and text are, unless it shrank (fs_read.rs).
THEOREM WindowOfAVersionAlways == ReadSpec => []WindowOfAVersion
<1>1. ReadInv => WindowOfAVersion
  BY DEF ReadInv, WindowOfAVersion, Returned
<1>2. QED
  BY <1>1, ReadInductive, PTL
--------------------------------------------------------------------------------
(* The elements of a set of numbers in their order: the k-th one is the one of *)
(* rank k.                                                                     *)

Rank(N, p) == Cardinality({q \in N : q <= p})

LEMMA RankIs ==
  ASSUME NEW m \in Nat, NEW N \in SUBSET (1..m)
  PROVE  /\ IsFiniteSet(N) /\ Cardinality(N) \in Nat
         /\ \A p \in Int : IsFiniteSet({q \in N : q <= p}) /\ Rank(N, p) \in Nat
         /\ Rank(N, 0) = 0 /\ Rank(N, m) = Cardinality(N)
<1>1. N \in SUBSET (1..m) /\ \A q \in N : q \in Int /\ 1 <= q /\ q <= m
  OBVIOUS
<1>2. IsFiniteSet(N)
  <2>1. IsFiniteSet(1..m)
    BY FS_Interval
  <2>2. QED
    BY <1>1, <2>1, FS_Subset
<1>3. \A p \in Int : IsFiniteSet({q \in N : q <= p})
  BY <1>2, FS_Subset
<1>4. Cardinality(N) \in Nat /\ \A p \in Int : Rank(N, p) \in Nat
  BY <1>2, <1>3, FS_CardinalityType DEF Rank
<1>5. Rank(N, 0) = 0
  <2>1. \A q \in N : ~(q <= 0)
    BY <1>1
  <2>2. {q \in N : q <= 0} = {}
    BY <2>1
  <2>3. QED
    BY <2>2, FS_EmptySet DEF Rank
<1>6. Rank(N, m) = Cardinality(N)
  <2>1. {q \in N : q <= m} = N
    BY <1>1
  <2>2. QED
    BY <2>1 DEF Rank
<1>7. QED
  BY <1>2, <1>3, <1>4, <1>5, <1>6

LEMMA RankNext ==
  ASSUME NEW m \in Nat, NEW N \in SUBSET (1..m), NEW p \in 1..m
  PROVE  Rank(N, p) = IF p \in N THEN Rank(N, p - 1) + 1 ELSE Rank(N, p - 1)
<1>1. \A q \in N : q \in Int
  OBVIOUS
<1>2. CASE p \in N
  <2>1. {q \in N : q <= p} = {q \in N : q <= p - 1} \cup {p}
    <3>1. \A q \in N : q <= p <=> q <= p - 1 \/ q = p
      BY <1>1
    <3>2. p <= p
      OBVIOUS
    <3>3. QED
      BY <1>2, <3>1, <3>2
  <2>2. p \notin {q \in N : q <= p - 1} /\ IsFiniteSet({q \in N : q <= p - 1})
    <3>1. p - 1 \in Int /\ ~(p <= p - 1)
      OBVIOUS
    <3>2. QED
      BY <3>1, RankIs
  <2>3. Cardinality({q \in N : q <= p - 1} \cup {p}) = Cardinality({q \in N : q <= p - 1}) + 1
    BY <2>2, FS_AddElement
  <2>4. QED
    BY <1>2, <2>1, <2>3 DEF Rank
<1>3. CASE p \notin N
  <2>1. {q \in N : q <= p} = {q \in N : q <= p - 1}
    <3>1. \A q \in N : q <= p <=> q <= p - 1
      BY <1>1, <1>3
    <3>2. QED
      BY <3>1
  <2>2. QED
    BY <1>3, <2>1 DEF Rank
<1>4. QED
  BY <1>2, <1>3

LEMMA RankMonotone ==
  ASSUME NEW m \in Nat, NEW N \in SUBSET (1..m), NEW p \in Int, NEW q \in Int, p <= q
  PROVE  Rank(N, p) <= Rank(N, q)
<1>1. \A r \in N : r \in Int /\ (r <= p => r <= q)
  OBVIOUS
<1>2. {r \in N : r <= p} \in SUBSET {r \in N : r <= q}
  BY <1>1
<1>3. IsFiniteSet({r \in N : r <= q})
  BY RankIs
<1>4. QED
  BY <1>2, <1>3, FS_Subset DEF Rank

LEMMA NthIs ==
  ASSUME NEW m \in Nat, NEW N \in SUBSET (1..m), NEW k \in 1..Cardinality(N)
  PROVE  Nth(N)[k] \in N /\ Rank(N, Nth(N)[k]) = k
<1> DEFINE T == {p \in 0..m : Rank(N, p) >= k}
<1>1. m \in T
  BY RankIs
<1>2. PICK p \in T : \A q \in T : p <= q
  <2>1. T \in SUBSET Nat /\ T # {}
    BY <1>1
  <2> HIDE DEF T
  <2>2. QED
    BY <2>1, Least
<1>3. p \in 1..m
  <2>1. Rank(N, 0) = 0 /\ k \in Nat /\ k > 0
    BY RankIs
  <2>2. p # 0
    BY <1>2, <2>1
  <2>3. QED
    BY <2>2
<1>4. p - 1 \notin T /\ p - 1 \in 0..m
  BY <1>2, <1>3
<1>5. Rank(N, p - 1) < k /\ Rank(N, p) >= k /\ Rank(N, p - 1) \in Nat
  <2>1. p - 1 \in Int
    BY <1>3
  <2>2. Rank(N, p - 1) \in Nat
    BY <2>1, RankIs
  <2>3. QED
    BY <1>3, <1>4, <2>2
<1>6. Rank(N, p) = IF p \in N THEN Rank(N, p - 1) + 1 ELSE Rank(N, p - 1)
  BY <1>3, RankNext
<1>7. p \in N /\ Rank(N, p) = k
  BY <1>5, <1>6
<1>8. Nth(N)[k] = CHOOSE q \in N : Rank(N, q) = k
  BY DEF Nth, Rank
<1>9. QED
  BY <1>7, <1>8

\* Positions and ranks say the same.
LEMMA Order ==
  ASSUME NEW m \in Nat, NEW N \in SUBSET (1..m), NEW k \in 1..Cardinality(N), NEW p \in Int
  PROVE  Nth(N)[k] <= p <=> k <= Rank(N, p)
<1> DEFINE n == Nth(N)[k]
<1>1. n \in N /\ Rank(N, n) = k /\ n \in 1..m
  BY NthIs
<1> HIDE DEF n
<1>2. n \in Int /\ n - 1 \in Int /\ k \in Int
  BY <1>1
<1>3. Rank(N, n) = Rank(N, n - 1) + 1
  BY <1>1, RankNext
<1>4. Rank(N, n - 1) \in Nat /\ Rank(N, p) \in Nat
  BY <1>2, RankIs
<1>5. n <= p => k <= Rank(N, p)
  BY <1>1, <1>2, RankMonotone
<1>6. p < n => Rank(N, p) < k
  <2>1. p < n => p <= n - 1
    BY <1>2
  <2>2. p < n => Rank(N, p) <= Rank(N, n - 1)
    BY <1>2, <2>1, RankMonotone
  <2>3. QED
    BY <1>1, <1>3, <1>4, <2>2
<1>7. QED
  BY <1>2, <1>4, <1>5, <1>6 DEF n

LEMMA Ordered ==
  ASSUME NEW m \in Nat, NEW N \in SUBSET (1..m), NEW j \in 1..Cardinality(N), NEW k \in 1..Cardinality(N), j < k
  PROVE  Nth(N)[j] < Nth(N)[k]
<1>1. Nth(N)[j] \in 1..m /\ Nth(N)[k] \in 1..m /\ Rank(N, Nth(N)[j]) = j /\ Rank(N, Nth(N)[k]) = k
  BY NthIs
<1>2. ~(Nth(N)[k] <= Nth(N)[j])
  <2>1. \A p \in Int : Nth(N)[k] <= p <=> k <= Rank(N, p)
    BY Order
  <2>3. Nth(N)[k] <= Nth(N)[j] <=> k <= j
    BY <1>1, <2>1
  <2>4. QED
    BY <2>3, RankIs
<1>3. QED
  BY <1>1, <1>2

LEMMA NthOfInterval ==
  ASSUME NEW m \in Nat, NEW a \in 1..m + 1, NEW b \in 0..m
  PROVE  /\ Cardinality(a..b) = IF a > b THEN 0 ELSE b - a + 1
         /\ \A k \in 1..Cardinality(a..b) : Nth(a..b)[k] = a + k - 1
<1>1. Cardinality(a..b) = IF a > b THEN 0 ELSE b - a + 1
  BY FS_Interval
<1>2. a..b \in SUBSET (1..m)
  OBVIOUS
<1>3. ASSUME NEW k \in 1..Cardinality(a..b) PROVE Nth(a..b)[k] = a + k - 1
  <2>1. Nth(a..b)[k] \in a..b /\ Rank(a..b, Nth(a..b)[k]) = k
    BY <1>2, NthIs
  <2>2. PICK p \in a..b : p = Nth(a..b)[k]
    BY <2>1
  <2>3. {q \in a..b : q <= p} = a..p
    OBVIOUS
  <2>4. Rank(a..b, p) = p - a + 1
    <3>1. a \in Int /\ p \in Int /\ a <= p
      OBVIOUS
    <3>2. Cardinality(a..p) = p - a + 1
      BY <3>1, FS_Interval
    <3>3. QED
      BY <2>3, <3>2 DEF Rank
  <2>5. k \in Int
    OBVIOUS
  <2>6. QED
    BY <2>1, <2>2, <2>4, <2>5
<1>4. QED
  BY <1>1, <1>3

\* What is picked at an interval of positions is a slice.
LEMMA PickIs ==
  ASSUME NEW text \in Seq(Characters), NEW a \in 1..Len(text) + 1, NEW b \in 0..Len(text)
  PROVE  Pick(text, a..b) = SubSeq(text, a, b)
<1> DEFINE n == IF a > b THEN 0 ELSE b - a + 1
           picked == Pick(text, a..b)
           slice == SubSeq(text, a, b)
<1>1. Len(text) \in Nat /\ a \in Nat /\ b \in Nat /\ n \in Nat
  BY LenProperties
<1>2. Cardinality(a..b) = n /\ \A k \in 1..n : Nth(a..b)[k] = a + k - 1
  BY <1>1, NthOfInterval
<1>3. picked = [k \in 1..n |-> text[a + k - 1]]
  <2>1. DOMAIN Nth(a..b) = 1..n
    BY <1>2 DEF Nth
  <2>2. picked = [k \in 1..n |-> text[Nth(a..b)[k]]]
    BY <2>1 DEF Pick
  <2>3. QED
    BY <1>2, <2>2
<1>4. \A k \in 1..n : a + k - 1 \in 1..Len(text) /\ text[a + k - 1] \in Characters
  BY <1>1, ElementOfSeq
<1>5. picked \in Seq(Characters) /\ Len(picked) = n
  BY <1>1, <1>3, <1>4
<1>6. slice \in Seq(Characters) /\ Len(slice) = n /\ \A k \in 1..n : slice[k] = text[a + k - 1]
  BY <1>1, SubSeqProperties
<1>7. \A k \in 1..n : picked[k] = slice[k]
  BY <1>3, <1>6
<1> HIDE DEF picked, slice, n
<1>8. picked = slice
  BY <1>5, <1>6, <1>7, SeqEqual
<1>9. QED
  BY <1>8 DEF picked, slice
--------------------------------------------------------------------------------
(* Lines: the k-th one is between the stop before it and its own. *)

Count(text) == Cardinality(Stops(text))
StopOf(text, k) == Nth(Stops(text))[k]
Begin(text, k) == IF k = 1 THEN 1 ELSE StopOf(text, k - 1) + 1

LEMMA StopsAre ==
  ASSUME NEW text \in Seq(Characters)
  PROVE  /\ Stops(text) \in SUBSET (1..(Len(text) + 1)) /\ Len(text) + 1 \in Nat /\ Count(text) \in Nat
         /\ \A q \in 1..Len(text) : q \in Stops(text) <=> text[q] = "n"
         /\ Len(text) + 1 \in Stops(text) <=> Len(text) > 0 /\ text[Len(text)] # "n"
<1>1. Len(text) \in Nat /\ (text # <<>> <=> Len(text) > 0) /\ DOMAIN text = 1..Len(text)
  BY EmptySeq, LenProperties
<1>2. Seqs!Last(text) = text[Len(text)]
  BY DEF Seqs!Last
<1>3. Stops(text) = {q \in 1..Len(text) : text[q] = "n"}
                      \cup (IF Len(text) > 0 /\ text[Len(text)] # "n" THEN {Len(text) + 1} ELSE {})
  BY <1>1, <1>2 DEF Stops, Newlines
<1>4. Len(text) + 1 \notin 1..Len(text)
  BY <1>1
<1>5. Stops(text) \in SUBSET (1..(Len(text) + 1)) /\ Len(text) + 1 \in Nat
  BY <1>1, <1>3
<1>6. Count(text) \in Nat
  BY <1>5, RankIs DEF Count
<1>7. QED
  BY <1>1, <1>3, <1>4, <1>5, <1>6

LEMMA LineEnds ==
  ASSUME NEW text \in Seq(Characters), NEW k \in 1..Count(text)
  PROVE  /\ StopOf(text, k) \in 1..(Len(text) + 1) /\ StopOf(text, k) \in Stops(text)
         /\ Begin(text, k) \in 1..StopOf(text, k)
         /\ StopOf(text, k) <= Len(text) => text[StopOf(text, k)] = "n"
         /\ \A j \in 1..Count(text) : j < k => StopOf(text, j) < StopOf(text, k)
<1> DEFINE m == Len(text) + 1
<1>1. m \in Nat /\ Stops(text) \in SUBSET (1..m) /\ k \in 1..Cardinality(Stops(text)) /\ Count(text) \in Nat
  BY StopsAre DEF Count
<1> HIDE DEF m
<1>2. StopOf(text, k) \in Stops(text) /\ StopOf(text, k) \in 1..m
  BY <1>1, NthIs DEF StopOf
<1>3. ASSUME NEW j \in 1..Count(text), j < k PROVE StopOf(text, j) < StopOf(text, k) /\ StopOf(text, j) \in 1..m
  <2>1. j \in 1..Cardinality(Stops(text))
    BY <1>1 DEF Count
  <2>2. QED
    BY <1>1, <1>3, <2>1, NthIs, Ordered DEF StopOf
<1>4. Begin(text, k) \in 1..StopOf(text, k)
  <2>1. CASE k = 1
    BY <1>2, <2>1 DEF Begin
  <2>2. CASE k # 1
    <3>1. k - 1 \in 1..Count(text) /\ k - 1 < k
      BY <1>1, <2>2
    <3>2. StopOf(text, k - 1) < StopOf(text, k) /\ StopOf(text, k - 1) \in 1..m
      BY <1>3, <3>1
    <3>3. QED
      BY <1>2, <2>2, <3>2 DEF Begin
  <2>3. QED
    BY <2>1, <2>2
<1>5. StopOf(text, k) <= Len(text) => text[StopOf(text, k)] = "n"
  <2>1. StopOf(text, k) <= Len(text) => StopOf(text, k) \in 1..Len(text)
    BY <1>2, LenProperties
  <2>2. QED
    BY <1>2, <2>1, StopsAre
<1>6. QED
  BY <1>2, <1>3, <1>4, <1>5 DEF m

LEMMA LinesIs ==
  ASSUME NEW text \in Seq(Characters)
  PROVE  /\ lines(text) = [k \in 1..Count(text) |-> SubSeq(text, Begin(text, k), StopOf(text, k) - 1)]
         /\ Len(lines(text)) = Count(text)
<1>1. lines(text) = [k \in 1..Count(text) |-> SubSeq(text, Begin(text, k), StopOf(text, k) - 1)]
  <2>1. DOMAIN Nth(Stops(text)) = 1..Count(text)
    BY DEF Nth, Count
  <2>2. QED
    BY <2>1 DEF lines, Begin, StopOf
<1>2. Count(text) \in Nat
  BY StopsAre
<1>3. QED
  BY <1>1, <1>2

--------------------------------------------------------------------------------
(* Joining lines gives back the text that they were split from. *)

\* A function that satisfies the recursion of FlattenSeq gives what it returns.
LEMMA FlattenIs ==
  ASSUME NEW seqs, Len(seqs) \in Nat, Len(seqs) > 0,
         NEW g, g = [i \in 1..Len(seqs) |-> IF i = 1 THEN seqs[i] ELSE g[i - 1] \o seqs[i]]
  PROVE  Seqs!FlattenSeq(seqs) = g[Len(seqs)]
<1> DEFINE n == Len(seqs)
           Flat(h) == h = [i \in 1..n |-> IF i = 1 THEN seqs[i] ELSE h[i - 1] \o seqs[i]]
           flat == CHOOSE h : Flat(h)
<1>1. n \in Nat /\ n > 0 /\ Flat(g)
  OBVIOUS
<1>2. Seqs!FlattenSeq(seqs) = flat[n]
  BY <1>1 DEF Seqs!FlattenSeq
<1>3. Flat(flat)
  <2> HIDE DEF Flat
  <2>1. QED
    BY <1>1
<1> HIDE DEF flat
<1>4. \A i \in 1..n : flat[i] = g[i]
  <2> DEFINE T == {i \in 1..n : flat[i] # g[i]}
  <2>1. SUFFICES ASSUME T # {} PROVE FALSE
    OBVIOUS
  <2>2. PICK i \in T : \A j \in T : i <= j
    <3>1. T \in SUBSET Nat
      OBVIOUS
    <3> HIDE DEF T
    <3>2. QED
      BY <2>1, <3>1, Least
  <2>3. i \in 1..n /\ flat[i] # g[i]
    OBVIOUS
  <2>4. flat[i] = (IF i = 1 THEN seqs[i] ELSE flat[i - 1] \o seqs[i]) /\ g[i] = (IF i = 1 THEN seqs[i] ELSE g[i - 1] \o seqs[i])
    BY <1>1, <1>3, <2>3
  <2>5. i # 1 => flat[i - 1] = g[i - 1]
    <3>1. SUFFICES ASSUME i # 1 PROVE i - 1 \notin T /\ i - 1 \in 1..n
      OBVIOUS
    <3>2. QED
      BY <1>1, <2>2, <2>3, <3>1
  <2>6. QED
    BY <2>3, <2>4, <2>5
<1>5. n \in 1..n
  BY <1>1
<1>6. QED
  BY <1>2, <1>4, <1>5

\* Two pieces of a text and the newline between them
LEMMA Glue ==
  ASSUME NEW text \in Seq(Characters), NEW b \in 0..Len(text), NEW c \in 1..b, NEW a \in 1..c, text[c] = "n"
  PROVE  SubSeq(text, a, c - 1) \o (<<"n">> \o SubSeq(text, c + 1, b)) = SubSeq(text, a, b)
<1> DEFINE left == SubSeq(text, a, c - 1)
           right == SubSeq(text, c + 1, b)
           tail == <<"n">> \o right
           slice == SubSeq(text, a, b)
<1>1. Len(text) \in Nat /\ a \in Nat /\ b \in Nat /\ c \in Nat /\ 1 <= a /\ a <= c /\ c <= b /\ b <= Len(text)
  BY LenProperties
<1>2. \A i \in 1..Len(text) : text[i] \in Characters
  BY ElementOfSeq
<1>3. left \in Seq(Characters) /\ Len(left) = c - a /\ \A i \in 1..(c - a) : left[i] = text[a + i - 1]
  <2>1. \A i \in a..(c - 1) : text[i] \in Characters
    BY <1>1, <1>2
  <2>2. QED
    BY <1>1, <2>1, SubSeqProperties
<1>4. right \in Seq(Characters) /\ Len(right) = b - c /\ \A i \in 1..(b - c) : right[i] = text[c + i]
  <2>1. \A i \in (c + 1)..b : text[i] \in Characters
    BY <1>1, <1>2
  <2>2. right \in Seq(Characters) /\ (Len(right) = IF c + 1 <= b THEN b - (c + 1) + 1 ELSE 0)
        /\ \A i \in 1..(b - (c + 1) + 1) : right[i] = text[(c + 1) + i - 1]
    BY <1>1, <2>1, SubSeqProperties
  <2>3. \A i \in 1..(b - c) : i \in 1..(b - (c + 1) + 1) /\ (c + 1) + i - 1 = c + i
    BY <1>1
  <2>4. QED
    BY <1>1, <2>2, <2>3
<1>5. slice \in Seq(Characters) /\ Len(slice) = b - a + 1 /\ \A i \in 1..(b - a + 1) : slice[i] = text[a + i - 1]
  <2>1. \A i \in a..b : text[i] \in Characters
    BY <1>1, <1>2
  <2>2. QED
    BY <1>1, <2>1, SubSeqProperties
<1> HIDE DEF left, right, slice
<1>6. tail \in Seq(Characters) /\ Len(tail) = b - c + 1
      /\ \A i \in 1..(b - c + 1) : tail[i] = IF i = 1 THEN "n" ELSE right[i - 1]
  <2>1. <<"n">> \in Seq(Characters) /\ Len(<<"n">>) = 1 /\ <<"n">>[1] = "n"
    BY DEF Characters
  <2>2. tail \in Seq(Characters) /\ Len(tail) = 1 + Len(right)
        /\ \A i \in 1..(1 + Len(right)) : tail[i] = IF i <= 1 THEN <<"n">>[i] ELSE right[i - 1]
    BY <1>4, <2>1, ConcatProperties
  <2>3. QED
    BY <1>1, <1>4, <2>1, <2>2
<1> HIDE DEF tail
<1>7. left \o tail \in Seq(Characters) /\ Len(left \o tail) = b - a + 1
      /\ \A i \in 1..(b - a + 1) : (left \o tail)[i] = IF i <= c - a THEN left[i] ELSE tail[i - (c - a)]
  <2>1. left \o tail \in Seq(Characters) /\ Len(left \o tail) = Len(left) + Len(tail)
        /\ \A i \in 1..(Len(left) + Len(tail)) :
             (left \o tail)[i] = IF i <= Len(left) THEN left[i] ELSE tail[i - Len(left)]
    BY <1>3, <1>6, ConcatProperties
  <2>2. Len(left) + Len(tail) = b - a + 1
    BY <1>1, <1>3, <1>6
  <2>3. QED
    BY <1>3, <2>1, <2>2
<1>8. ASSUME NEW i \in 1..(b - a + 1) PROVE (left \o tail)[i] = slice[i]
  <2>1. slice[i] = text[a + i - 1]
    BY <1>5
  <2>2. CASE i <= c - a
    <3>1. i \in 1..(c - a)
      BY <1>1, <2>2
    <3>2. QED
      BY <1>3, <1>7, <2>1, <2>2, <3>1
  <2>3. CASE i = c - a + 1
    <3>1. ~(i <= c - a) /\ i - (c - a) = 1 /\ a + i - 1 = c /\ 1 \in 1..(b - c + 1)
      BY <1>1, <2>3
    <3>2. QED
      BY <1>6, <1>7, <2>1, <3>1
  <2>4. CASE i > c - a + 1
    <3>1. ~(i <= c - a) /\ i - (c - a) # 1 /\ i - (c - a) \in 1..(b - c + 1)
          /\ i - (c - a) - 1 \in 1..(b - c) /\ c + (i - (c - a) - 1) = a + i - 1
      BY <1>1, <2>4
    <3>2. QED
      BY <1>4, <1>6, <1>7, <2>1, <3>1
  <2>5. i \in Int /\ c - a \in Int
    BY <1>1
  <2>6. i <= c - a \/ i = c - a + 1 \/ i > c - a + 1
    BY <2>5
  <2>7. QED
    BY <2>2, <2>3, <2>4, <2>6
<1>9. left \o tail = slice
  BY <1>5, <1>7, <1>8, SeqEqual
<1>10. QED
  BY <1>9 DEF left, right, tail, slice

LEMMA JoinLines ==
  ASSUME NEW text \in Seq(Characters), NEW a \in 1..Count(text), NEW b \in a..Count(text)
  PROVE  Join(SubSeq(lines(text), a, b)) = SubSeq(text, Begin(text, a), StopOf(text, b) - 1)
<1> DEFINE ls == SubSeq(lines(text), a, b)
           n == b - a + 1
           Piece(k) == SubSeq(text, Begin(text, k), StopOf(text, k) - 1)
           pieces == [i \in DOMAIN ls |-> IF i = 1 THEN ls[i] ELSE <<"n">> \o ls[i]]
           g == [i \in 1..n |-> SubSeq(text, Begin(text, a), StopOf(text, a + i - 1) - 1)]
<1>1. Count(text) \in Nat /\ a \in Nat /\ b \in Nat /\ n \in Nat /\ n > 0 /\ 1 <= a /\ b <= Count(text)
  <2>1. Count(text) \in Nat
    BY StopsAre
  <2>2. QED
    BY <2>1
<1>2. \A i \in 1..n : a + i - 1 \in 1..Count(text) /\ a + i - 1 \in a..b
  BY <1>1
<1>3. DOMAIN ls = 1..n /\ \A i \in 1..n : ls[i] = Piece(a + i - 1)
  <2> DEFINE S == {lines(text)[k] : k \in 1..Count(text)}
  <2>1. \A k \in a..b : k \in 1..Count(text) /\ lines(text)[k] \in S
    BY <1>1
  <2> HIDE DEF S
  <2>2. ls \in Seq(S) /\ (Len(ls) = IF a <= b THEN b - a + 1 ELSE 0)
        /\ \A i \in 1..(b - a + 1) : ls[i] = lines(text)[a + i - 1]
    BY <1>1, <2>1, SubSeqProperties
  <2>3. \A k \in 1..Count(text) : lines(text)[k] = Piece(k)
    BY LinesIs
  <2> HIDE DEF ls, Piece
  <2>4. DOMAIN ls = 1..n
    BY <1>1, <2>2
  <2>5. QED
    BY <1>2, <2>2, <2>3, <2>4
<1> HIDE DEF ls
<1>4. pieces = [i \in 1..n |-> IF i = 1 THEN Piece(a) ELSE <<"n">> \o Piece(a + i - 1)]
  <2> HIDE DEF Piece
  <2>1. a + 1 - 1 = a
    BY <1>1
  <2>2. \A i \in 1..n : i = 1 => ls[i] = Piece(a)
    BY <1>3, <2>1
  <2>3. QED
    BY <1>3, <2>2
<1>5. ASSUME NEW i \in 1..n, i # 1 PROVE g[i] = g[i - 1] \o (<<"n">> \o Piece(a + i - 1))
  <2> DEFINE c == StopOf(text, a + i - 2)
             d == StopOf(text, a + i - 1)
             e == Begin(text, a)
  <2>1. i - 1 \in 1..n /\ a + i - 2 \in 1..Count(text) /\ a + i - 1 \in 1..Count(text) /\ a + i - 2 < a + i - 1
        /\ a + (i - 1) - 1 = a + i - 2 /\ a + i - 1 # 1 /\ a + i - 1 - 1 = a + i - 2
        /\ (a = a + i - 2 \/ a < a + i - 2)
    BY <1>1, <1>5
  <2>2. Len(text) \in Nat /\ c \in 1..(Len(text) + 1) /\ d \in 1..(Len(text) + 1) /\ c < d
        /\ (c <= Len(text) => text[c] = "n")
    BY <2>1, LineEnds, LenProperties
  <2>3. e \in 1..StopOf(text, a) /\ StopOf(text, a) \in 1..(Len(text) + 1) /\ StopOf(text, a) <= c
    <3>1. a < a + i - 2 => StopOf(text, a) < c
      BY <2>1, LineEnds
    <3>2. e \in 1..StopOf(text, a) /\ StopOf(text, a) \in 1..(Len(text) + 1)
      BY LineEnds
    <3>3. QED
      BY <2>1, <2>2, <3>1, <3>2
  <2>4. Piece(a + i - 1) = SubSeq(text, c + 1, d - 1)
    <3>1. StopOf(text, a + i - 1 - 1) = c
      BY <2>1
    <3>2. Begin(text, a + i - 1) = StopOf(text, a + i - 1 - 1) + 1
      BY <2>1 DEF Begin
    <3> HIDE DEF c
    <3>3. Begin(text, a + i - 1) = c + 1
      BY <3>1, <3>2
    <3>4. QED
      BY <3>3
  <2> HIDE DEF c, d, e, Piece
  <2>5. d - 1 \in 0..Len(text) /\ c \in 1..(d - 1) /\ e \in 1..c /\ text[c] = "n"
    BY <2>2, <2>3
  <2>6. SubSeq(text, e, c - 1) \o (<<"n">> \o SubSeq(text, c + 1, d - 1)) = SubSeq(text, e, d - 1)
    BY <2>5, Glue
  <2>7. g[i] = SubSeq(text, e, d - 1) /\ g[i - 1] = SubSeq(text, e, c - 1)
    BY <2>1 DEF c, d, e
  <2>8. QED
    BY <2>4, <2>6, <2>7
<1>6. g = [i \in 1..Len(pieces) |-> IF i = 1 THEN pieces[i] ELSE g[i - 1] \o pieces[i]] /\ Len(pieces) = n
  <2>1. Len(pieces) = n /\ pieces[1] = Piece(a) /\ \A i \in 1..n : i # 1 => pieces[i] = <<"n">> \o Piece(a + i - 1)
    <3> HIDE DEF Piece, pieces
    <3>1. 1 \in 1..n
      BY <1>1
    <3>2. QED
      BY <1>1, <1>4, <3>1
  <2>2. g[1] = Piece(a)
    <3>1. a + 1 - 1 = a /\ 1 \in 1..n
      BY <1>1
    <3>2. QED
      BY <3>1
  <2> DEFINE h == [i \in 1..Len(pieces) |-> IF i = 1 THEN pieces[i] ELSE g[i - 1] \o pieces[i]]
  <2>3. \A i \in 1..n : h[i] = IF i = 1 THEN pieces[i] ELSE g[i - 1] \o pieces[i]
    BY <2>1
  <2>4. DOMAIN g = 1..n /\ DOMAIN h = 1..n /\ g = [i \in 1..n |-> g[i]] /\ h = [i \in 1..n |-> h[i]]
    <3> HIDE DEF pieces
    <3>1. DOMAIN g = 1..n /\ g = [i \in 1..n |-> g[i]]
      OBVIOUS
    <3> HIDE DEF g
    <3>2. DOMAIN h = 1..n /\ h = [i \in 1..n |-> h[i]]
      BY <2>1
    <3>3. QED
      BY <3>1, <3>2
  <2> HIDE DEF Piece, pieces, g, h
  <2>5. \A i \in 1..n : g[i] = h[i]
    BY <1>5, <2>1, <2>2, <2>3
  <2>6. g = h
    BY <2>4, <2>5
  <2>7. QED
    BY <2>1, <2>6 DEF h
<1> HIDE DEF pieces, g
<1>7. Join(ls) = g[n]
  <2>1. Seqs!FlattenSeq(pieces) = g[Len(pieces)]
    BY <1>1, <1>6, FlattenIs
  <2>2. Join(ls) = Seqs!FlattenSeq(pieces)
    BY DEF Join, pieces
  <2>3. QED
    BY <1>6, <2>1, <2>2
<1>8. g[n] = SubSeq(text, Begin(text, a), StopOf(text, b) - 1)
  <2>1. n \in 1..n /\ a + n - 1 = b
    BY <1>1
  <2>2. QED
    BY <2>1 DEF g
<1>9. QED
  BY <1>7, <1>8 DEF ls

--------------------------------------------------------------------------------
(* The number of a line is one more than the newlines before it. *)

LEMMA LineNumbers ==
  ASSUME NEW text \in Seq(Characters), NEW i \in 1..Len(text)
  PROVE  /\ LineOf(text, i) \in Nat /\ LineOf(text, i) >= 1 /\ LineOf(text, i) <= Count(text)
         /\ \A k \in 1..Count(text) : LineOf(text, i) <= k <=> i <= StopOf(text, k)
<1> DEFINE N == Stops(text)
           m == Len(text) + 1
           before == Rank(N, i - 1)
<1>1. N \in SUBSET (1..m) /\ m \in Nat /\ Cardinality(N) = Count(text) /\ Count(text) \in Nat
      /\ \A q \in 1..Len(text) : q \in N <=> text[q] = "n"
  BY StopsAre DEF Count
<1>2. i \in Int /\ i - 1 \in Int /\ i - 1 >= 0 /\ i <= Len(text) /\ Len(text) \in Nat
  BY LenProperties
<1>3. LineOf(text, i) = before + 1
  <2>1. \A q : q \in 1..(i - 1) /\ text[q] = "n" <=> q \in N /\ q <= i - 1
    BY <1>1, <1>2
  <2>2. {q \in 1..(i - 1) : text[q] = "n"} = {q \in N : q <= i - 1}
    BY <2>1
  <2>3. QED
    BY <2>2 DEF LineOf, Rank
<1> HIDE DEF N, m
<1>4. before \in Nat
  BY <1>1, <1>2, RankIs
<1>5. ASSUME NEW k \in 1..Count(text) PROVE LineOf(text, i) <= k <=> i <= StopOf(text, k)
  <2>1. k \in 1..Cardinality(N) /\ k \in Int
    BY <1>1
  <2>2. Nth(N)[k] <= i - 1 <=> k <= before
    BY <1>1, <1>2, <2>1, Order
  <2>3. StopOf(text, k) = Nth(N)[k] /\ StopOf(text, k) \in Int
    BY LineEnds DEF StopOf, N
  <2> HIDE DEF before
  <2>4. QED
    BY <1>2, <1>3, <1>4, <2>1, <2>2, <2>3
<1>6. before + 1 <= Count(text)
  <2>1. PICK q \in N : i <= q
    <3>1. Len(text) \in 1..Len(text) /\ (Len(text) + 1 \in N <=> Len(text) > 0 /\ text[Len(text)] # "n")
      BY <1>2, StopsAre DEF N
    <3>2. CASE text[Len(text)] = "n"
      BY <1>1, <1>2, <3>1, <3>2
    <3>3. CASE text[Len(text)] # "n"
      BY <1>1, <1>2, <3>1, <3>3
    <3>4. QED
      BY <3>2, <3>3
  <2>2. q \in 1..m /\ q \in Int /\ q - 1 \in Int /\ i - 1 <= q - 1 /\ q <= m /\ m \in Int
    BY <1>1, <1>2, <2>1
  <2>3. before <= Rank(N, q - 1)
    BY <1>1, <1>2, <2>2, RankMonotone
  <2>4. Rank(N, q) = Rank(N, q - 1) + 1
    BY <1>1, <2>1, <2>2, RankNext
  <2>5. Rank(N, q) <= Rank(N, m)
    BY <1>1, <2>2, RankMonotone
  <2>6. Rank(N, m) = Count(text) /\ Rank(N, q - 1) \in Nat
    BY <1>1, <2>2, RankIs
  <2> HIDE DEF before
  <2>7. QED
    BY <1>1, <1>4, <2>3, <2>4, <2>5, <2>6
<1> HIDE DEF before
<1>7. QED
  BY <1>3, <1>4, <1>5, <1>6

\* Only the last line may end without a newline.
LEMMA LastStop ==
  ASSUME NEW text \in Seq(Characters), NEW k \in 1..Count(text), StopOf(text, k) > Len(text)
  PROVE  k = Count(text) /\ StopOf(text, k) = Len(text) + 1 /\ Len(text) > 0 /\ text[Len(text)] # "n"
<1>1. StopOf(text, k) \in 1..(Len(text) + 1) /\ StopOf(text, k) \in Stops(text) /\ Len(text) \in Nat
      /\ Count(text) \in Nat
  BY LineEnds, StopsAre, LenProperties
<1>2. StopOf(text, k) = Len(text) + 1
  BY <1>1
<1>3. k = Count(text)
  <2>1. SUFFICES ASSUME k # Count(text) PROVE FALSE
    OBVIOUS
  <2>2. Count(text) \in 1..Count(text) /\ k < Count(text)
    BY <1>1, <2>1
  <2>3. StopOf(text, k) < StopOf(text, Count(text)) /\ StopOf(text, Count(text)) \in 1..(Len(text) + 1)
    BY <2>2, LineEnds
  <2>4. QED
    BY <1>1, <1>2, <2>3
<1>4. QED
  BY <1>1, <1>2, <1>3, StopsAre

\* The lines that are wanted are between the first one and the stop of the last one.
LEMMA WantedIs ==
  ASSUME NEW text \in Seq(Characters), NEW start \in Nat, NEW amount \in Nat, NEW end \in Nat,
         end = IF start + amount <= Count(text) THEN start + amount ELSE Count(text)
  PROVE  /\ start >= Count(text) \/ amount = 0 => WantedLines(text, start + 1, amount) = {}
         /\ start < Count(text) /\ amount > 0 =>
              WantedLines(text, start + 1, amount) =
                Begin(text, start + 1)..(IF StopOf(text, end) <= Len(text) THEN StopOf(text, end) ELSE Len(text))
<1> DEFINE wanted == WantedLines(text, start + 1, amount)
<1>1. Len(text) \in Nat /\ Count(text) \in Nat /\ DOMAIN text = 1..Len(text)
  BY StopsAre, LenProperties
<1>2. \A i \in 1..Len(text) : LineOf(text, i) \in Nat /\ LineOf(text, i) >= 1 /\ LineOf(text, i) <= Count(text)
  BY LineNumbers
<1>3. wanted = {i \in 1..Len(text) : LineOf(text, i) >= start + 1 /\ LineOf(text, i) < start + 1 + amount}
  BY <1>1 DEF WantedLines
<1> HIDE DEF wanted
<1>4. ASSUME start >= Count(text) \/ amount = 0 PROVE wanted = {}
  <2>1. \A i \in 1..Len(text) : ~(LineOf(text, i) >= start + 1 /\ LineOf(text, i) < start + 1 + amount)
    BY <1>1, <1>2, <1>4
  <2>2. QED
    BY <1>3, <2>1
<1>5. ASSUME start < Count(text), amount > 0
      PROVE  wanted = Begin(text, start + 1)..(IF StopOf(text, end) <= Len(text) THEN StopOf(text, end) ELSE Len(text))
  <2> DEFINE stop == IF StopOf(text, end) <= Len(text) THEN StopOf(text, end) ELSE Len(text)
             first == Begin(text, start + 1)
  <2>1. end \in 1..Count(text) /\ start + 1 \in 1..Count(text)
    BY <1>1, <1>5
  <2>2. StopOf(text, end) \in Int /\ first \in Nat /\ first >= 1
    BY <2>1, LineEnds
  <2>3. ASSUME NEW i \in 1..Len(text) PROVE LineOf(text, i) < start + 1 + amount <=> i <= stop
    <3>1. LineOf(text, i) < start + 1 + amount <=> LineOf(text, i) <= end
      BY <1>1, <1>2
    <3>2. LineOf(text, i) <= end <=> i <= StopOf(text, end)
      BY <2>1, LineNumbers
    <3>3. i \in Int /\ i <= Len(text)
      BY <1>1
    <3>4. QED
      BY <1>1, <2>2, <3>1, <3>2, <3>3
  <2>4. ASSUME NEW i \in 1..Len(text) PROVE LineOf(text, i) >= start + 1 <=> i >= first
    <3>1. i \in Int /\ i >= 1
      BY <1>1
    <3>2. CASE start = 0
      BY <1>2, <3>1, <3>2 DEF Begin
    <3>3. CASE start # 0
      <4>1. start \in 1..Count(text) /\ start + 1 # 1 /\ start + 1 - 1 = start
        BY <1>1, <1>5, <3>3
      <4>2. first = StopOf(text, start) + 1
        BY <4>1 DEF Begin
      <4>3. LineOf(text, i) <= start <=> i <= StopOf(text, start)
        BY <4>1, LineNumbers
      <4>4. StopOf(text, start) \in Int
        BY <4>1, LineEnds
      <4> HIDE DEF first
      <4>5. QED
        BY <1>2, <3>1, <4>2, <4>3, <4>4
    <3>4. QED
      BY <3>2, <3>3
  <2>5. stop \in Int /\ stop <= Len(text)
    BY <1>1, <2>2
  <2> HIDE DEF stop, first
  <2>6. wanted = {i \in 1..Len(text) : i >= first /\ i <= stop}
    BY <1>3, <2>3, <2>4
  <2>7. wanted = first..stop
    BY <1>1, <2>2, <2>5, <2>6
  <2>8. QED
    BY <2>7 DEF stop, first
<1>6. QED
  BY <1>4, <1>5 DEF wanted

LEMMA LastLine ==
  ASSUME NEW text \in Seq(Characters)
  PROVE  /\ Count(text) \in Nat /\ Len(text) \in Nat /\ Count(text) <= Len(text) + 1
         /\ Len(text) > 0 <=> Count(text) > 0
         /\ Count(text) > 0 => StopOf(text, Count(text)) \in {Len(text), Len(text) + 1}
<1>1. Count(text) \in Nat /\ Len(text) \in Nat
  BY StopsAre, LenProperties
<1>2. Count(text) <= Len(text) + 1
  <2>1. Stops(text) \in SUBSET (1..(Len(text) + 1)) /\ IsFiniteSet(1..(Len(text) + 1))
        /\ Cardinality(1..(Len(text) + 1)) = Len(text) + 1
    BY <1>1, StopsAre, FS_Interval
  <2>2. QED
    BY <2>1, FS_Subset DEF Count
<1>3. ASSUME Len(text) > 0
      PROVE  Count(text) > 0 /\ (Count(text) > 0 => StopOf(text, Count(text)) \in {Len(text), Len(text) + 1})
  <2>1. Len(text) \in 1..Len(text)
    BY <1>1, <1>3
  <2>2. LineOf(text, Len(text)) \in Nat /\ LineOf(text, Len(text)) >= 1 /\ LineOf(text, Len(text)) <= Count(text)
    BY <2>1, LineNumbers
  <2>3. Count(text) \in 1..Count(text)
    BY <1>1, <2>2
  <2>4. Len(text) <= StopOf(text, Count(text))
    BY <2>1, <2>2, <2>3, LineNumbers
  <2>5. StopOf(text, Count(text)) \in 1..(Len(text) + 1)
    BY <2>3, LineEnds
  <2>6. QED
    BY <1>1, <2>3, <2>4, <2>5
<1>4. ASSUME Count(text) > 0 PROVE Len(text) > 0
  <2>1. Count(text) \in 1..Count(text)
    BY <1>1, <1>4
  <2>2. StopOf(text, Count(text)) \in 1..(Len(text) + 1)
    BY <2>1, LineEnds
  <2>3. StopOf(text, Count(text)) <= Len(text) => Len(text) > 0
    BY <1>1, <2>2
  <2>4. StopOf(text, Count(text)) > Len(text) => Len(text) > 0
    BY <2>1, LastStop
  <2>5. QED
    BY <1>1, <2>2, <2>3, <2>4
<1>5. QED
  BY <1>1, <1>2, <1>3, <1>4

LEMMA SliceOf ==
  ASSUME NEW text \in Seq(Characters), NEW a \in 1..(Len(text) + 1), NEW b \in 0..Len(text)
  PROVE  /\ SubSeq(text, a, b) \in Seq(Characters)
         /\ Len(SubSeq(text, a, b)) = IF a <= b THEN b - a + 1 ELSE 0
         /\ \A i \in 1..(b - a + 1) : SubSeq(text, a, b)[i] = text[a + i - 1]
<1>1. a \in Int /\ b \in Int /\ \A i \in a..b : i \in 1..Len(text)
  BY LenProperties
<1>2. \A i \in a..b : text[i] \in Characters
  BY <1>1, ElementOfSeq
<1>3. QED
  BY <1>1, <1>2, SubSeqProperties

\* A slice that ends after a line, without the newline of that line
LEMMA BareSlice ==
  ASSUME NEW text \in Seq(Characters), NEW k \in 1..Count(text), NEW f \in 1..StopOf(text, k)
  PROVE  Bare(SubSeq(text, f, IF StopOf(text, k) <= Len(text) THEN StopOf(text, k) ELSE Len(text)), TRUE)
           = SubSeq(text, f, StopOf(text, k) - 1)
<1> DEFINE s == StopOf(text, k)
<1>1. s \in 1..(Len(text) + 1) /\ Len(text) \in Nat /\ (s <= Len(text) => text[s] = "n") /\ f \in 1..s
  BY LineEnds, LenProperties
<1>2. s > Len(text) => s = Len(text) + 1 /\ Len(text) > 0 /\ text[Len(text)] # "n"
  BY LastStop
<1> HIDE DEF s
<1>3. CASE s <= Len(text)
  <2> DEFINE slice == SubSeq(text, f, s)
             bare == SubSeq(text, f, s - 1)
             front == SubSeq(slice, 1, Len(slice) - 1)
  <2>1. f \in Int /\ f \in 1..(Len(text) + 1) /\ s \in 0..Len(text) /\ s - 1 \in 0..Len(text) /\ s \in Int /\ f <= s
    BY <1>1, <1>3
  <2>2. slice \in Seq(Characters) /\ Len(slice) = s - f + 1 /\ \A i \in 1..(s - f + 1) : slice[i] = text[f + i - 1]
    BY <2>1, SliceOf
  <2>3. bare \in Seq(Characters) /\ Len(bare) = s - f /\ \A i \in 1..(s - f) : bare[i] = text[f + i - 1]
    <3>1. bare \in Seq(Characters) /\ (Len(bare) = IF f <= s - 1 THEN (s - 1) - f + 1 ELSE 0)
          /\ \A i \in 1..((s - 1) - f + 1) : bare[i] = text[f + i - 1]
      BY <2>1, SliceOf
    <3>2. (s - 1) - f + 1 = s - f /\ (f <= s - 1 \/ s - f = 0)
      BY <2>1
    <3>3. QED
      BY <3>1, <3>2
  <2> HIDE DEF slice, bare
  <2>4. slice[s - f + 1] = "n"
    <3>1. s - f + 1 \in 1..(s - f + 1) /\ f + (s - f + 1) - 1 = s
      BY <2>1
    <3>2. QED
      BY <1>1, <1>3, <2>2, <3>1
  <2>5. Seqs!Last(slice) = "n" /\ slice # <<>> /\ Seqs!Front(slice) = front
    <3>1. slice # <<>>
      BY <2>1, <2>2
    <3>2. QED
      BY <2>2, <2>4, <3>1 DEF Seqs!Last, Seqs!Front
  <2>6. front \in Seq(Characters) /\ Len(front) = s - f /\ \A i \in 1..(s - f) : front[i] = slice[i]
    <3>1. Len(slice) - 1 \in 0..Len(slice) /\ 1 \in 1..(Len(slice) + 1) /\ Len(slice) - 1 - 1 + 1 = s - f
          /\ (1 <= Len(slice) - 1 \/ s - f = 0)
      BY <2>1, <2>2
    <3>2. front \in Seq(Characters) /\ (Len(front) = IF 1 <= Len(slice) - 1 THEN Len(slice) - 1 - 1 + 1 ELSE 0)
          /\ \A i \in 1..(Len(slice) - 1 - 1 + 1) : front[i] = slice[1 + i - 1]
      BY <2>2, <3>1, SliceOf
    <3>3. \A i \in 1..(s - f) : 1 + i - 1 = i
      OBVIOUS
    <3>4. QED
      BY <3>1, <3>2, <3>3
  <2>7. \A i \in 1..(s - f) : i \in 1..(s - f + 1)
    BY <2>1
  <2> HIDE DEF front
  <2>8. front = bare
    BY <2>2, <2>3, <2>6, <2>7, SeqEqual
  <2>9. Bare(slice, TRUE) = bare
    BY <2>5, <2>8 DEF Bare
  <2>10. QED
    BY <1>3, <2>9 DEF slice, bare, s
<1>4. CASE s > Len(text)
  <2> DEFINE slice == SubSeq(text, f, Len(text))
  <2>1. s - 1 = Len(text) /\ f \in 1..(Len(text) + 1) /\ Len(text) \in 0..Len(text) /\ ~(s <= Len(text)) /\ f \in Int
    BY <1>1, <1>2, <1>4
  <2>2. slice \in Seq(Characters) /\ (Len(slice) = IF f <= Len(text) THEN Len(text) - f + 1 ELSE 0)
        /\ \A i \in 1..(Len(text) - f + 1) : slice[i] = text[f + i - 1]
    BY <2>1, SliceOf
  <2> HIDE DEF slice
  <2>3. Bare(slice, TRUE) = slice
    <3>1. CASE f <= Len(text)
      <4>1. Len(slice) = Len(text) - f + 1 /\ Len(slice) \in 1..(Len(text) - f + 1) /\ f + Len(slice) - 1 = Len(text)
        BY <1>1, <2>1, <2>2, <3>1
      <4>2. slice[Len(slice)] = text[Len(text)]
        BY <2>2, <4>1
      <4>3. Seqs!Last(slice) # "n"
        BY <1>2, <1>4, <4>2 DEF Seqs!Last
      <4>4. QED
        BY <4>3 DEF Bare
    <3>2. CASE ~(f <= Len(text))
      <4>1. slice = <<>>
        BY <2>2, <3>2, EmptySeq
      <4>2. QED
        BY <4>1 DEF Bare
    <3>3. QED
      BY <3>1, <3>2
  <2>4. QED
    BY <2>1, <2>3 DEF slice, s
<1>5. s <= Len(text) \/ s > Len(text)
  BY <1>1
<1>6. QED
  BY <1>3, <1>4, <1>5

\* slice_lines returns the lines that were asked for.
LEMMA SliceLinesIs ==
  ASSUME NEW text \in Contents, NEW offset \in Amount, NEW limit \in Amount
  PROVE  slice_lines(text, offset, limit)
           = Bare(Pick(text, WantedLines(text, Max({1, Or(offset, 0)}), Or(limit, NoLimit))), limit # None)
<1> DEFINE n == Count(text)
           first == Or(offset, 0)
           amount == Or(limit, NoLimit)
           start == Max({0, first - 1})
           end == IF start + amount <= n THEN start + amount ELSE n
           s == StopOf(text, end)
           f == Begin(text, start + 1)
           wanted == WantedLines(text, start + 1, amount)
           all == lines(text)
<1>1. /\ text \in Seq(Characters) /\ Len(text) \in Nat /\ Len(text) < NoLimit /\ n \in Nat /\ n <= Len(text) + 1
      /\ (Len(text) > 0 <=> n > 0) /\ (text # <<>> <=> Len(text) > 0)
  BY Texts, LastLine, EmptySeq
<1>2. first \in Nat /\ amount \in Nat /\ NoLimit \in Nat
  <2>1. 0 \in Nat /\ NoLimit \in Nat
    BY DEF NoLimit
  <2>2. QED
    BY <2>1, OrOf
<1>3. limit = None => amount = NoLimit
  BY DEF Or
<1>4. limit # None => limit[1] = amount /\ (amount = 0 <=> limit = Some(0))
  BY DEF Or, Some, Amount, None
<1>5. (amount = 0 <=> limit = Some(0)) /\ (limit = None => limit # Some(0))
  <2>1. NoLimit # 0
    BY DEF NoLimit
  <2>2. None # Some(0)
    BY DEF Some, None
  <2> HIDE DEF amount
  <2>3. QED
    BY <1>3, <1>4, <2>1, <2>2
<1>6. start = (IF first >= 1 THEN first - 1 ELSE 0) /\ start \in Nat /\ Max({1, first}) = start + 1
  <2>1. start = IF 0 >= first - 1 THEN 0 ELSE first - 1
    BY <1>2, MaxOf
  <2>2. Max({1, first}) = IF 1 >= first THEN 1 ELSE first
    BY <1>2, MaxOf
  <2> HIDE DEF start
  <2>3. QED
    BY <1>2, <2>1, <2>2
<1>7. offset = None => start = 0
  <2>1. offset = None => first = 0
    BY DEF Or
  <2>2. QED
    BY <1>6, <2>1
<1> HIDE DEF n, first, amount, start
<1>8. end \in Nat /\ (limit = None => end = n)
  BY <1>1, <1>2, <1>3, <1>6
<1>9. /\ start >= n \/ amount = 0 => wanted = {}
      /\ start < n /\ amount > 0 => wanted = f..(IF s <= Len(text) THEN s ELSE Len(text))
  BY <1>1, <1>2, <1>6, <1>8, WantedIs DEF n
<1>10. start < n /\ amount > 0 => end \in (start + 1)..n /\ start + 1 \in 1..n /\ end \in 1..n
  BY <1>1, <1>2, <1>6
<1>11. ASSUME wanted = {} PROVE Pick(text, wanted) = <<>>
  <2>1. {} = 1..0 /\ 1 \in 1..Len(text) + 1 /\ 0 \in 0..Len(text)
    BY <1>1
  <2>2. Pick(text, 1..0) = SubSeq(text, 1, 0)
    BY <1>1, <2>1, PickIs
  <2>3. SubSeq(text, 1, 0) = <<>>
    BY SubSeqEmpty
  <2>4. QED
    BY <1>11, <2>1, <2>2, <2>3
<1>12. ASSUME start < n, amount > 0
       PROVE  /\ s \in 1..(Len(text) + 1) /\ f \in 1..s
              /\ Pick(text, wanted) = SubSeq(text, f, IF s <= Len(text) THEN s ELSE Len(text))
              /\ Join(SubSeq(all, start + 1, end)) = SubSeq(text, f, s - 1)
  <2>1. end \in (start + 1)..n /\ start + 1 \in 1..n /\ end \in 1..n /\ end \in Int /\ start + 1 \in Int
    BY <1>8, <1>10, <1>12
  <2>2. s \in 1..(Len(text) + 1)
    BY <1>1, <2>1, LineEnds DEF n
  <2>3. f \in 1..StopOf(text, start + 1) /\ StopOf(text, start + 1) \in 1..(Len(text) + 1)
    BY <1>1, <2>1, LineEnds DEF n
  <2>4. StopOf(text, start + 1) <= s
    <3>1. CASE start + 1 = end
      BY <2>2, <3>1
    <3>2. CASE start + 1 # end
      <4>1. start + 1 < end
        BY <2>1, <3>2
      <4> HIDE DEF end
      <4>2. StopOf(text, start + 1) < StopOf(text, end)
        BY <1>1, <2>1, <4>1, LineEnds DEF n
      <4>3. QED
        BY <2>2, <2>3, <4>2
    <3>3. QED
      BY <3>1, <3>2
  <2>5. f \in 1..s
    BY <2>2, <2>3, <2>4
  <2> DEFINE e == IF s <= Len(text) THEN s ELSE Len(text)
  <2>6. e \in 0..Len(text) /\ f \in 1..Len(text) + 1
    BY <1>1, <2>2, <2>5
  <2>7. Pick(text, f..e) = SubSeq(text, f, e)
    BY <1>1, <2>6, PickIs
  <2>8. Join(SubSeq(all, start + 1, end)) = SubSeq(text, f, s - 1)
    BY <1>1, <2>1, JoinLines DEF n
  <2>9. QED
    BY <1>9, <1>12, <2>2, <2>5, <2>7, <2>8
<1>13. Len(all) = n /\ (limit # None => Min({start + limit[1], Len(all)}) = end)
  <2>1. Len(all) = n
    BY <1>1, LinesIs DEF n
  <2>2. limit # None => Min({start + limit[1], n}) = end
    <3>1. start + amount \in Int /\ n \in Int
      BY <1>1, <1>2, <1>6
    <3>2. Min({start + amount, n}) = end
      BY <3>1, MinOf
    <3> HIDE DEF end
    <3>3. QED
      BY <1>4, <3>2
  <2>3. QED
    BY <2>1, <2>2
<1> DEFINE tail == IF limit = None /\ Seqs!Last(text) = "n" THEN <<"n">> ELSE <<>>
           slice == slice_lines(text, offset, limit)
<1>14. /\ offset = None /\ limit = None => slice = text
       /\ ~(offset = None /\ limit = None) /\ (start >= n \/ limit = Some(0)) => slice = <<>>
       /\ ~(offset = None /\ limit = None) /\ ~(start >= n \/ limit = Some(0)) =>
            slice = Join(SubSeq(all, start + 1, end)) \o tail
  <2>1. (IF limit = None THEN Len(all) ELSE Min({start + limit[1], Len(all)})) = end
    BY <1>8, <1>13
  <2> HIDE DEF end, tail, all
  <2>2. slice = IF offset = None /\ limit = None THEN text
                ELSE IF start >= n \/ limit = Some(0) THEN <<>> ELSE Join(SubSeq(all, start + 1, end)) \o tail
    BY <1>13, <2>1 DEF slice_lines, start, first, all, tail
  <2> HIDE DEF slice
  <2>3. QED
    BY <2>2
<1> HIDE DEF wanted, s, f, end, slice, all, tail
<1>15. slice = Bare(Pick(text, wanted), limit # None)
  <2>1. CASE offset = None /\ limit = None /\ n = 0
    <3>1. text = <<>> /\ start >= n
      BY <1>1, <1>7, <2>1
    <3>2. Pick(text, wanted) = <<>>
      BY <1>9, <1>11, <3>1
    <3>3. QED
      BY <1>14, <2>1, <3>1, <3>2 DEF Bare
  <2>2. CASE offset = None /\ limit = None /\ n > 0
    <3>1. start = 0 /\ end = n /\ amount > 0 /\ start < n
      BY <1>1, <1>3, <1>7, <1>8, <2>2 DEF NoLimit
    <3>2. f = 1 /\ s \in {Len(text), Len(text) + 1}
      BY <1>1, <2>2, <3>1, LastLine DEF f, s, Begin, n
    <3>3. Pick(text, wanted) = SubSeq(text, 1, Len(text))
      <4>1. (IF s <= Len(text) THEN s ELSE Len(text)) = Len(text)
        BY <1>1, <3>2
      <4>2. QED
        BY <1>12, <3>1, <3>2, <4>1
    <3>4. SubSeq(text, 1, Len(text)) = text
      <4>1. 1 \in 1..(Len(text) + 1) /\ Len(text) \in 0..Len(text)
        BY <1>1
      <4>2. SubSeq(text, 1, Len(text)) \in Seq(Characters)
            /\ (Len(SubSeq(text, 1, Len(text))) = IF 1 <= Len(text) THEN Len(text) - 1 + 1 ELSE 0)
            /\ \A i \in 1..(Len(text) - 1 + 1) : SubSeq(text, 1, Len(text))[i] = text[1 + i - 1]
        BY <1>1, <4>1, SliceOf
      <4>3. Len(text) - 1 + 1 = Len(text) /\ \A i \in 1..Len(text) : 1 + i - 1 = i
        BY <1>1
      <4>4. Len(SubSeq(text, 1, Len(text))) = Len(text) /\ \A i \in 1..Len(text) : SubSeq(text, 1, Len(text))[i] = text[i]
        BY <1>1, <2>2, <4>2, <4>3
      <4>5. QED
        BY <1>1, <4>2, <4>4, SeqEqual
    <3>5. QED
      BY <1>14, <2>2, <3>3, <3>4 DEF Bare
  <2>3. CASE ~(offset = None /\ limit = None) /\ (start >= n \/ limit = Some(0))
    <3>1. Pick(text, wanted) = <<>>
      BY <1>5, <1>9, <1>11, <2>3
    <3>2. QED
      BY <1>14, <2>3, <3>1 DEF Bare
  <2>4. CASE ~(offset = None /\ limit = None) /\ ~(start >= n \/ limit = Some(0))
    <3>1. start < n /\ amount > 0
      BY <1>1, <1>2, <1>5, <1>6, <2>4
    <3>2. slice = SubSeq(text, f, s - 1) \o tail /\ s \in 1..(Len(text) + 1) /\ f \in 1..s
          /\ Pick(text, wanted) = SubSeq(text, f, IF s <= Len(text) THEN s ELSE Len(text))
      BY <1>12, <1>14, <2>4, <3>1
    <3>3. s - 1 \in 0..Len(text) /\ f \in 1..(Len(text) + 1)
      BY <1>1, <3>2
    <3>4. SubSeq(text, f, s - 1) \in Seq(Characters)
      BY <1>1, <3>3, SliceOf
    <3>5. CASE limit # None
      <4>1. slice = SubSeq(text, f, s - 1)
        BY <3>2, <3>4, <3>5, ConcatEmptySeq DEF tail
      <4>2. end \in 1..Count(text)
        BY <1>10, <3>1 DEF n
      <4>3. Bare(Pick(text, wanted), TRUE) = SubSeq(text, f, s - 1)
        BY <1>1, <3>2, <4>2, BareSlice DEF s
      <4>4. QED
        BY <3>5, <4>1, <4>3
    <3>6. CASE limit = None
      <4>1. end = n /\ n > 0 /\ n \in 1..n
        BY <1>1, <1>6, <1>8, <3>1, <3>6
      <4>2. s \in {Len(text), Len(text) + 1}
        BY <1>1, <4>1, LastLine DEF s, n
      <4>3. Seqs!Last(text) = text[Len(text)]
        BY DEF Seqs!Last
      <4>4. CASE s = Len(text)
        <5>1. text[s] = "n"
          BY <1>1, <4>1, <4>4, LineEnds DEF s, n
        <5>2. tail = <<"n">>
          BY <3>6, <4>3, <4>4, <5>1 DEF tail
        <5>3. SubSeq(text, s + 1, s) = <<>>
          BY <1>1, <4>4, SubSeqEmpty
        <5>4. s \in 0..Len(text) /\ s \in 1..s
          BY <1>1, <3>2, <4>4
        <5>5. SubSeq(text, f, s - 1) \o (<<"n">> \o SubSeq(text, s + 1, s)) = SubSeq(text, f, s)
          BY <1>1, <3>2, <5>1, <5>4, Glue
        <5>6. <<"n">> \o <<>> = <<"n">>
          <6>1. <<"n">> \in Seq(Characters)
            BY DEF Characters
          <6>2. QED
            BY <6>1, ConcatEmptySeq
        <5>7. slice = SubSeq(text, f, s)
          BY <3>2, <5>2, <5>3, <5>5, <5>6
        <5>8. QED
          BY <1>1, <3>2, <3>6, <4>4, <5>7 DEF Bare
      <4>5. CASE s = Len(text) + 1
        <5>1. text[Len(text)] # "n"
          <6>1. s > Len(text)
            BY <1>1, <4>5
          <6>2. QED
            BY <1>1, <4>1, <6>1, LastStop DEF s, n
        <5>2. tail = <<>>
          BY <4>3, <5>1 DEF tail
        <5>3. slice = SubSeq(text, f, s - 1) /\ s - 1 = Len(text) /\ ~(s <= Len(text))
          BY <1>1, <3>2, <3>4, <4>5, <5>2, ConcatEmptySeq
        <5>4. QED
          BY <3>2, <3>6, <5>3 DEF Bare
      <4>6. QED
        BY <4>2, <4>4, <4>5
    <3>7. QED
      BY <3>5, <3>6
  <2>5. QED
    BY <1>1, <2>1, <2>2, <2>3, <2>4
<1>16. QED
  BY <1>6, <1>15 DEF slice, wanted, amount, first

From(text, offset) == Min({offset, Len(text)})
To(text, offset, amount) == Min({From(text, offset) + amount, Len(text)})

LEMMA BoundsIs ==
  ASSUME NEW text \in Contents, NEW offset \in Nat, NEW amount \in Nat
  PROVE  /\ From(text, offset) \in Int /\ 0 <= From(text, offset) /\ From(text, offset) <= Len(text)
         /\ To(text, offset, amount) \in Int /\ From(text, offset) <= To(text, offset, amount)
         /\ To(text, offset, amount) <= Len(text)
         /\ (From(text, offset) = IF offset <= Len(text) THEN offset ELSE Len(text))
         /\ (To(text, offset, amount) = IF From(text, offset) + amount <= Len(text)
                                        THEN From(text, offset) + amount ELSE Len(text))
<1>1. Len(text) \in Nat
  BY Texts
<1>2. From(text, offset) = IF offset <= Len(text) THEN offset ELSE Len(text)
  BY <1>1, MinOf DEF From
<1>3. /\ From(text, offset) \in Int /\ 0 <= From(text, offset) /\ From(text, offset) <= Len(text)
      /\ From(text, offset) + amount \in Int /\ Len(text) \in Int
  BY <1>1, <1>2
<1>4. Min({From(text, offset) + amount, Len(text)})
        = IF From(text, offset) + amount <= Len(text) THEN From(text, offset) + amount ELSE Len(text)
  BY <1>3, MinOf
<1>5. QED
  BY <1>1, <1>2, <1>3, <1>4 DEF To

\* slice_bytes returns the bytes that were asked for.
LEMMA SliceBytesIs ==
  ASSUME NEW text \in Contents, NEW offset \in Amount, NEW amount \in Amount
  PROVE  /\ slice_bytes(text, offset, amount) = Pick(text, WantedBytes(text, Or(offset, 0), Or(amount, NoLimit)))
         /\ slice_bytes(text, offset, amount) \in Seq(Characters)
<1> DEFINE first == Or(offset, 0)
           most == Or(amount, NoLimit)
           start == From(text, first)
           end == To(text, first, most)
           wanted == WantedBytes(text, first, most)
<1>1. text \in Seq(Characters) /\ Len(text) \in Nat /\ DOMAIN text = 1..Len(text)
  BY Texts, LenProperties
<1>2. first \in Nat /\ most \in Nat
  <2>1. 0 \in Nat /\ NoLimit \in Nat
    BY DEF NoLimit
  <2>2. QED
    BY <2>1, OrOf
<1> HIDE DEF first, most
<1>3. /\ start \in Int /\ 0 <= start /\ start <= Len(text) /\ end \in Int /\ start <= end /\ end <= Len(text)
      /\ (start = IF first <= Len(text) THEN first ELSE Len(text))
      /\ (end = IF start + most <= Len(text) THEN start + most ELSE Len(text))
  BY <1>2, BoundsIs
<1>4. slice_bytes(text, offset, amount) = SubSeq(text, start + 1, end)
  BY DEF slice_bytes, first, most, From, To
<1> HIDE DEF start, end
<1>5. wanted = {i \in 1..Len(text) : i > first /\ i <= first + most}
  BY <1>1 DEF WantedBytes
<1> HIDE DEF wanted
<1>6. wanted = (start + 1)..end
  <2>1. start \in Int /\ end \in Int /\ 0 <= start /\ end <= Len(text)
    BY <1>3
  <2>2. \A i \in 1..Len(text) : i > first /\ i <= first + most <=> i >= start + 1 /\ i <= end
    <3>1. CASE first <= Len(text)
      <4>1. start = first
        BY <1>3, <3>1
      <4>2. end = IF first + most <= Len(text) THEN first + most ELSE Len(text)
        BY <1>3, <4>1
      <4>3. ASSUME NEW i \in 1..Len(text) PROVE i <= first + most <=> i <= end
        <5>1. i \in Int /\ i <= Len(text)
          BY <1>1
        <5>2. CASE first + most <= Len(text)
          BY <4>2, <5>2
        <5>3. CASE ~(first + most <= Len(text))
          BY <1>1, <1>2, <4>2, <5>1, <5>3
        <5>4. QED
          BY <5>2, <5>3
      <4>4. \A i \in 1..Len(text) : i > first <=> i >= start + 1
        BY <1>1, <1>2, <4>1
      <4>5. QED
        BY <4>3, <4>4
    <3>2. CASE ~(first <= Len(text))
      <4>1. start = Len(text) /\ end <= Len(text)
        BY <1>3, <2>1, <3>2
      <4>2. QED
        BY <1>1, <1>2, <3>2, <4>1
    <3>3. QED
      BY <3>1, <3>2
  <2>3. \A i \in (start + 1)..end : i \in 1..Len(text)
    BY <1>1, <2>1
  <2>4. wanted = {i \in 1..Len(text) : i >= start + 1 /\ i <= end}
    BY <1>5, <2>2
  <2>5. QED
    BY <1>1, <2>1, <2>3, <2>4
<1>7. start + 1 \in 1..Len(text) + 1 /\ end \in 0..Len(text)
  <2>1. start \in Int /\ 0 <= start /\ start <= Len(text)
    BY <1>3
  <2>2. end \in Int /\ 0 <= end /\ end <= Len(text)
    BY <1>3
  <2>3. QED
    BY <1>1, <2>1, <2>2
<1>8. Pick(text, wanted) = SubSeq(text, start + 1, end)
  BY <1>1, <1>6, <1>7, PickIs
<1>9. SubSeq(text, start + 1, end) \in Seq(Characters)
  BY <1>1, <1>7, SliceOf
<1>10. QED
  BY <1>4, <1>8, <1>9 DEF wanted, first, most

LEMMA SliceLen ==
  ASSUME request \in Asked, NEW text \in Contents
  PROVE  Len(slice_bytes(text, request.offset, request.length)) = Extent(text)
<1> DEFINE start == From(text, Offset)
           end == To(text, Offset, Most)
<1>1. Offset \in Nat /\ Most \in Nat /\ Len(text) \in Nat /\ text \in Seq(Characters)
  BY Requested, Texts
<1>2. slice_bytes(text, request.offset, request.length) = SubSeq(text, start + 1, end)
  BY DEF slice_bytes, Offset, Most, From, To
<1>3. /\ start \in Int /\ 0 <= start /\ start <= Len(text) /\ end \in Int /\ start <= end /\ end <= Len(text)
      /\ (start = IF Offset <= Len(text) THEN Offset ELSE Len(text))
      /\ (end = IF start + Most <= Len(text) THEN start + Most ELSE Len(text))
  BY <1>1, BoundsIs
<1> HIDE DEF start, end
<1>4. start + 1 \in 1..(Len(text) + 1) /\ end \in 0..Len(text) /\ start \in Int /\ end \in Int
  BY <1>1, <1>3
<1>5. Len(SubSeq(text, start + 1, end)) = end - start
  <2>1. Len(SubSeq(text, start + 1, end)) = IF start + 1 <= end THEN end - (start + 1) + 1 ELSE 0
    BY <1>1, <1>4, SliceOf
  <2>2. QED
    BY <1>3, <1>4, <2>1
<1>6. Left(text) \in Nat /\ (Left(text) = IF Len(text) > Offset THEN Len(text) - Offset ELSE 0)
  BY <1>1 DEF Left
<1>7. end - start = Extent(text)
  <2>1. Extent(text) = IF Most <= Left(text) THEN Most ELSE Left(text)
    BY DEF Extent
  <2>2. CASE Len(text) > Offset
    <3>1. start = Offset /\ Left(text) = Len(text) - Offset
      BY <1>1, <1>3, <1>6, <2>2
    <3>2. CASE Offset + Most <= Len(text)
      <4>1. end = Offset + Most /\ Most <= Left(text)
        BY <1>1, <1>3, <3>1, <3>2
      <4>2. QED
        BY <1>1, <2>1, <3>1, <4>1
    <3>3. CASE ~(Offset + Most <= Len(text))
      <4>1. end = Len(text) /\ ~(Most <= Left(text))
        BY <1>1, <1>3, <3>1, <3>3
      <4>2. QED
        BY <1>1, <2>1, <3>1, <4>1
    <3>4. QED
      BY <3>2, <3>3
  <2>3. CASE ~(Len(text) > Offset)
    <3>1. start = Len(text) /\ Left(text) = 0
      BY <1>1, <1>3, <1>6, <2>3
    <3>2. end = Len(text)
      BY <1>1, <1>3, <3>1
    <3>3. QED
      BY <1>1, <2>1, <3>1, <3>2
  <2>4. QED
    BY <2>2, <2>3
<1>8. QED
  BY <1>2, <1>5, <1>7

--------------------------------------------------------------------------------
(* Every form of a call is read as what it says. *)

Exact(mode, offset, length) ==
  IF mode = "text" THEN ReadRequest(mode, parse_line_range(offset), parse_line_range(length))
  ELSE ReadRequest(mode, parse_byte_range(offset), parse_byte_range(length))
LengthKey(mode) == IF mode = "text" THEN "limit" ELSE "count"
Options(table, mode, offset, length) ==
  /\ table_value(table, "offset", "2") = offset /\ table_value(table, LengthKey(mode), "3") = length
  /\ "mode" \in DOMAIN table /\ table["mode"] = mode
  /\ DOMAIN table \subseteq {"offset", LengthKey(mode), "2", "3", "mode"}

LEMMA TableKeys == ASSUME NEW s, NEW t PROVE DOMAIN (s ++ t) = DOMAIN s \cup DOMAIN t
  BY DEF ++

LEMMA TableFirst ==
  ASSUME NEW s, NEW t, NEW key \in DOMAIN s PROVE Get(s ++ t, key) = Get(s, key) /\ (s ++ t)[key] = s[key]
  BY DEF ++, Get, Some, None

LEMMA TableSecond ==
  ASSUME NEW s, NEW t, NEW key, key \notin DOMAIN s
  PROVE  Get(s ++ t, key) = Get(t, key) /\ (key \in DOMAIN t => (s ++ t)[key] = t[key])
  BY DEF ++, Get, Some, None

LEMMA KeyTable ==
  ASSUME NEW name, NEW value
  PROVE  /\ DOMAIN Key(name, value) = IF value = None THEN {} ELSE {name}
         /\ value # None => Key(name, value)[name] = value[1]
         /\ value \in Argument => Get(Key(name, value), name) = value
<1>1. DOMAIN Key(name, value) = IF value = None THEN {} ELSE {name}
  BY DEF Key
<1>2. value # None => Key(name, value)[name] = value[1]
  BY DEF Key
<1>3. ASSUME value \in Argument PROVE Get(Key(name, value), name) = value
  <2>1. CASE value = None
    BY <1>1, <2>1 DEF Get
  <2>2. CASE value # None
    <3>1. PICK n \in Numbers : value = Some(n)
      BY <1>3, <2>2 DEF Argument
    <3>2. value = Some(value[1])
      BY <3>1 DEF Some
    <3>3. QED
      BY <1>1, <1>2, <2>2, <3>2 DEF Get
  <2>3. QED
    BY <2>1, <2>2
<1>4. QED
  BY <1>1, <1>2, <1>3

Answer(mode, offset, length) ==
  IF mode # "text" /\ (BadBytes(offset) \/ BadBytes(length)) THEN Error("not a byte range")
  ELSE Exact(mode, offset, length)

\* What the options of a table are
Says(table) ==
  Answer(table["mode"], table_value(table, "offset", "2"), table_value(table, LengthKey(table["mode"]), "3"))
Proper(table) ==
  /\ "mode" \in DOMAIN table /\ table["mode"] \in Modes
  /\ (IF table["mode"] = "text" THEN "count" ELSE "limit") \notin DOMAIN table

LEMMA FromOptions ==
  ASSUME NEW table, Proper(table)
  PROVE  /\ validate_option_keys(table, FALSE) => from_options(table, FALSE) = Says(table)
         /\ validate_option_keys(table, TRUE) => from_options(table, TRUE) = Says(table)
<1> DEFINE mode == table["mode"]
           offset == table_value(table, "offset", "2")
           length == table_value(table, LengthKey(mode), "3")
<1>1. parse_mode(table) = mode /\ mode \in Modes /\ (IF mode = "text" THEN "count" ELSE "limit") \notin DOMAIN table
  BY DEF parse_mode, Proper
<1>2. CASE mode = "text"
  <2>1. /\ validate_option_keys(table, FALSE) => from_options(table, FALSE) = from_legacy_args(offset, length)
        /\ validate_option_keys(table, TRUE) => from_options(table, TRUE) = from_legacy_args(offset, length)
    BY <1>1, <1>2 DEF from_options, LengthKey
  <2>2. QED
    BY <1>2, <2>1 DEF from_legacy_args, Exact, Answer, Says
<1>3. CASE mode # "text"
  BY <1>1, <1>3 DEF from_options, LengthKey, Modes, Exact, Answer, Says
<1>4. QED
  BY <1>2, <1>3

\* Adding the path to options leaves what they say.
LEMMA WithPath ==
  ASSUME NEW t, Proper(t), DOMAIN t \subseteq {"offset", "limit", "count", "2", "3", "mode"}, NEW key \in {"path", "1"}
  PROVE  from_options(Key(key, Some("file")) ++ t, TRUE) = Says(t)
<1> DEFINE table == Key(key, Some("file")) ++ t
<1>1. DOMAIN Key(key, Some("file")) = {key}
  BY DEF Key, Some, None
<1>2. DOMAIN table = {key} \cup DOMAIN t
  BY <1>1, TableKeys
<1>3. ASSUME NEW k, k # key
      PROVE  /\ Get(table, k) = Get(t, k)
             /\ k \in DOMAIN table <=> k \in DOMAIN t
             /\ k \in DOMAIN t => table[k] = t[k]
  <2>1. k \notin DOMAIN Key(key, Some("file"))
    BY <1>1, <1>3
  <2>2. Get(table, k) = Get(t, k) /\ (k \in DOMAIN t => table[k] = t[k])
    BY <2>1, TableSecond
  <2>3. QED
    BY <1>2, <1>3, <2>2
<1>4. key \notin {"offset", "2", "3", "limit", "count", "mode"}
  OBVIOUS
<1> HIDE DEF table
<1>5. table["mode"] = t["mode"] /\ Proper(table)
  BY <1>3, <1>4 DEF Proper
<1>6. table_value(table, "offset", "2") = table_value(t, "offset", "2")
  BY <1>3, <1>4 DEF table_value
<1>7. table_value(table, LengthKey(t["mode"]), "3") = table_value(t, LengthKey(t["mode"]), "3")
  <2>1. LengthKey(t["mode"]) # key /\ "3" # key
    BY <1>4 DEF LengthKey
  <2>2. QED
    BY <1>3, <2>1 DEF table_value
<1>8. Says(table) = Says(t)
  BY <1>5, <1>6, <1>7 DEF Says
<1>9. validate_option_keys(table, TRUE)
  BY <1>2 DEF validate_option_keys
<1>10. from_options(table, TRUE) = Says(table)
  BY <1>5, <1>9, FromOptions
<1>11. QED
  BY <1>8, <1>10 DEF table

LEMMA OptionsFrom ==
  ASSUME NEW mode \in Modes, NEW offset, NEW length, NEW t, Options(t, mode, offset, length)
  PROVE  /\ from_options(t, FALSE) = Answer(mode, offset, length)
         /\ \A key \in {"path", "1"} : from_options(Key(key, Some("file")) ++ t, TRUE) = Answer(mode, offset, length)
<1>1. LengthKey(mode) \in {"limit", "count"} /\ LengthKey(mode) # (IF mode = "text" THEN "count" ELSE "limit")
  BY DEF LengthKey
<1>2. Proper(t) /\ Says(t) = Answer(mode, offset, length)
  BY <1>1 DEF Options, Proper, Says
<1>3. DOMAIN t \subseteq {"offset", "limit", "count", "2", "3", "mode"} /\ validate_option_keys(t, FALSE)
  BY <1>1 DEF Options, validate_option_keys
<1>4. QED
  BY <1>2, <1>3, FromOptions, WithPath

LEMMA ThreeKeys ==
  ASSUME NEW mode \in Modes, NEW offset \in Argument, NEW length \in Argument,
         NEW o \in {"offset", "2"}, NEW l \in {LengthKey(mode), "3"}, (o = "offset" <=> l = LengthKey(mode)),
         NEW table, table = Key(o, offset) ++ Key(l, length) ++ Key("mode", Some(mode))
  PROVE  Options(table, mode, offset, length)
<1> DEFINE ranges == Key(o, offset) ++ Key(l, length)
           last == Key("mode", Some(mode))
<1>1. LengthKey(mode) \in {"limit", "count"} /\ o # l /\ o # "mode" /\ l # "mode"
  BY DEF LengthKey
<1>2. DOMAIN Key(o, offset) \subseteq {o} /\ Get(Key(o, offset), o) = offset
      /\ DOMAIN Key(l, length) \subseteq {l} /\ Get(Key(l, length), l) = length
  BY KeyTable
<1>3. DOMAIN last = {"mode"} /\ last["mode"] = mode
  BY DEF Key, Some, None
<1>4. /\ DOMAIN ranges = DOMAIN Key(o, offset) \cup DOMAIN Key(l, length)
      /\ \A k \in DOMAIN Key(o, offset) : Get(ranges, k) = Get(Key(o, offset), k)
      /\ \A k : k \notin DOMAIN Key(o, offset) => Get(ranges, k) = Get(Key(l, length), k)
  <2>1. DOMAIN ranges = DOMAIN Key(o, offset) \cup DOMAIN Key(l, length)
    BY TableKeys
  <2>2. \A k \in DOMAIN Key(o, offset) : Get(ranges, k) = Get(Key(o, offset), k)
    BY TableFirst
  <2>3. \A k : k \notin DOMAIN Key(o, offset) => Get(ranges, k) = Get(Key(l, length), k)
    BY TableSecond
  <2>4. QED
    BY <2>1, <2>2, <2>3
<1>5. /\ DOMAIN table = DOMAIN ranges \cup {"mode"}
      /\ \A k \in DOMAIN ranges : Get(table, k) = Get(ranges, k)
  BY <1>3, TableKeys, TableFirst
<1>6. "mode" \notin DOMAIN ranges
  BY <1>1, <1>2, <1>4
<1>7. "mode" \in DOMAIN table /\ table["mode"] = mode
  <2>1. table = ranges ++ last
    OBVIOUS
  <2> HIDE DEF ranges, last
  <2>2. "mode" \in DOMAIN last /\ "mode" \notin DOMAIN ranges => table["mode"] = last["mode"]
    BY <2>1, TableSecond
  <2>3. QED
    BY <1>3, <1>5, <1>6, <2>2
<1> HIDE DEF ranges, last
<1>8. \A k : k \notin DOMAIN table => Get(table, k) = None
  BY DEF Get
<1>9. \A t, k : k \notin DOMAIN t => Get(t, k) = None
  BY DEF Get
<1>10. Get(table, o) = offset
  <2>1. CASE o \in DOMAIN Key(o, offset)
    BY <1>2, <1>4, <1>5, <2>1
  <2>2. CASE o \notin DOMAIN Key(o, offset)
    <3>1. offset = None /\ o \notin DOMAIN table
      BY <1>1, <1>2, <1>4, <1>5, <1>9, <2>2
    <3>2. QED
      BY <1>9, <3>1
  <2>3. QED
    BY <2>1, <2>2
<1>11. Get(table, l) = length
  <2>1. l \notin DOMAIN Key(o, offset)
    BY <1>1, <1>2
  <2>2. CASE l \in DOMAIN Key(l, length)
    BY <1>2, <1>4, <1>5, <2>1, <2>2
  <2>3. CASE l \notin DOMAIN Key(l, length)
    <3>1. length = None /\ l \notin DOMAIN table
      BY <1>1, <1>2, <1>4, <1>5, <1>9, <2>1, <2>3
    <3>2. QED
      BY <1>9, <3>1
  <2>4. QED
    BY <2>2, <2>3
<1>12. DOMAIN table \subseteq {o, l, "mode"}
  BY <1>2, <1>4, <1>5
<1>13. table_value(table, "offset", "2") = offset
  <2>1. CASE o = "offset"
    <3>1. "2" \notin DOMAIN table
      BY <1>1, <1>12, <2>1
    <3>2. QED
      BY <1>9, <1>10, <2>1, <3>1 DEF table_value
  <2>2. CASE o = "2"
    <3>1. "offset" \notin DOMAIN table
      BY <1>1, <1>12, <2>2
    <3>2. QED
      BY <1>10, <2>2, <3>1 DEF table_value
  <2>3. QED
    BY <2>1, <2>2
<1>14. table_value(table, LengthKey(mode), "3") = length
  <2>1. CASE l = LengthKey(mode)
    <3>1. "3" \notin DOMAIN table
      BY <1>1, <1>12, <2>1
    <3>2. QED
      BY <1>9, <1>11, <2>1, <3>1 DEF table_value
  <2>2. CASE l = "3"
    <3>1. LengthKey(mode) \notin DOMAIN table
      BY <1>1, <1>12, <2>2
    <3>2. QED
      BY <1>11, <2>2, <3>1 DEF table_value
  <2>3. QED
    BY <2>1, <2>2
<1>15. QED
  BY <1>7, <1>12, <1>13, <1>14 DEF Options

Bad(form, mode, offset, length) ==
  form \in {"path in options", "other length"} \/ (mode # "text" /\ (BadBytes(offset) \/ BadBytes(length)))

LEMMA ParseExact ==
  ASSUME NEW form \in Ways, NEW offset \in Argument, NEW length \in Argument, NEW mode \in Modes,
         form = "legacy" => mode = "text"
  PROVE  /\ Bad(form, mode, offset, length) => IsError(parse(form, offset, length, mode))
         /\ ~Bad(form, mode, offset, length) => parse(form, offset, length, mode) = Exact(mode, offset, length)
<1> DEFINE named == Key("offset", offset) ++ Key(LengthKey(mode), length) ++ Key("mode", Some(mode))
           counted == Key("2", offset) ++ Key("3", length) ++ Key("mode", Some(mode))
           path == Key("path", Some("file"))
           first == Key("1", Some("file"))
           opts == Key("opts", Some(named))
           other == Key(IF mode = "text" THEN "count" ELSE "limit", Some(2))
           answer == Answer(mode, offset, length)
<1>1. Options(named, mode, offset, length) /\ Options(counted, mode, offset, length)
  <2>1. LengthKey(mode) # "3"
    BY DEF LengthKey
  <2>2. QED
    BY <2>1, ThreeKeys
<1>2. /\ parse("legacy", offset, length, mode) = from_legacy_args(offset, length)
      /\ parse("options", offset, length, mode) = from_options(named, FALSE)
      /\ parse("counted options", offset, length, mode) = from_options(counted, FALSE)
      /\ parse("wrapper", offset, length, mode) = IF validate_wrapper_keys(path ++ opts) THEN from_options(named, FALSE)
                                                  ELSE Error("unknown argument")
      /\ parse("combined", offset, length, mode) = from_options(path ++ named, TRUE)
      /\ parse("counted", offset, length, mode) = from_options(first ++ counted, TRUE)
      /\ parse("path in options", offset, length, mode) = from_options(path ++ named, FALSE)
      /\ parse("other length", offset, length, mode) = from_options(named ++ other, FALSE)
  BY DEF parse, LengthKey
<1> HIDE DEF named, counted, answer
<1>3. validate_wrapper_keys(path ++ opts)
  <2>1. DOMAIN path = {"path"} /\ DOMAIN opts = {"opts"}
    BY DEF Key, Some, None
  <2> HIDE DEF path, opts
  <2>2. DOMAIN (path ++ opts) = DOMAIN path \cup DOMAIN opts
    BY TableKeys
  <2>3. QED
    BY <2>1, <2>2 DEF validate_wrapper_keys
<1>4. /\ from_options(named, FALSE) = answer /\ from_options(counted, FALSE) = answer
      /\ from_options(path ++ named, TRUE) = answer /\ from_options(first ++ counted, TRUE) = answer
  BY <1>1, OptionsFrom DEF answer
<1>5. IsError(from_options(path ++ named, FALSE))
  <2>1. "path" \in DOMAIN (path ++ named)
    <3>1. DOMAIN path = {"path"}
      BY DEF Key, Some, None
    <3> HIDE DEF path
    <3>2. QED
      BY <3>1, TableKeys
  <2>2. ~validate_option_keys(path ++ named, FALSE)
    BY <2>1 DEF validate_option_keys
  <2>3. from_options(path ++ named, FALSE) = Error("unknown option")
    BY <2>2 DEF from_options
  <2>4. QED
    BY <2>3, Failing
<1>6. IsError(from_options(named ++ other, FALSE))
  <2> DEFINE table == named ++ other
             key == IF mode = "text" THEN "count" ELSE "limit"
  <2>1. DOMAIN other = {key}
    BY DEF Key, Some, None
  <2>2. key # "mode"
    OBVIOUS
  <2> HIDE DEF other
  <2>3. key \in DOMAIN table /\ table["mode"] = mode /\ "mode" \in DOMAIN table
    <3>1. "mode" \in DOMAIN named /\ named["mode"] = mode
      BY <1>1 DEF Options
    <3>2. DOMAIN table = DOMAIN named \cup DOMAIN other
      BY TableKeys
    <3>3. table["mode"] = named["mode"]
      BY <3>1, TableFirst
    <3>4. QED
      BY <2>1, <3>1, <3>2, <3>3
  <2> HIDE DEF table
  <2>4. from_options(table, FALSE) = Error("unknown option")
    BY <2>3 DEF from_options, parse_mode
  <2>5. QED
    BY <2>4, Failing DEF table
<1>7. ~(mode # "text" /\ (BadBytes(offset) \/ BadBytes(length))) => answer = Exact(mode, offset, length)
  BY DEF answer, Answer
<1>8. mode # "text" /\ (BadBytes(offset) \/ BadBytes(length)) => IsError(answer)
  BY Failing DEF answer, Answer
<1>9. mode = "text" => from_legacy_args(offset, length) = Exact(mode, offset, length)
  BY DEF from_legacy_args, Exact
<1>10. form \in {"options", "counted options", "wrapper", "combined", "counted"} =>
         parse(form, offset, length, mode) = answer
  <2> HIDE DEF path, first, opts
  <2>1. QED
    BY <1>2, <1>3, <1>4
<1> HIDE DEF path, first, opts, other
<1>11. QED
  BY <1>2, <1>5, <1>6, <1>7, <1>8, <1>9, <1>10 DEF Bad, Ways

--------------------------------------------------------------------------------
(* An undisturbed call returns the range that was asked for. *)

Exactly == ~BadCall /\ request = Exact(meant.mode, meant.offset, meant.length)

AsAsked(r) ==
  CASE BadCall -> IsError(r)
    [] ~BadCall /\ meant.mode = "text" /\ "x" \in Range(content) -> r = Error("not UTF-8")
    [] ~BadCall /\ meant.kind = "dynamic" /\ meant.mode # "text" /\ WantedOffset > 0 -> r = [value |-> <<>>]
    [] OTHER -> r = IF meant.mode # "text" /\ Len(WantedRange) > mode_input_limit(meant.mode)
                    THEN Error("too large") ELSE [value |-> WantedRange]

RangeInv ==
  /\ ReadInv
  /\ meant.way = "legacy" => meant.mode = "text"
  /\ stage \in {"parsed", "copying", "probing"} => Exactly
  /\ stage \in {"copying", "probing"} /\ Presized => selected <= BufferLimit
  /\ stage = "probing" => Probed
  /\ stage = "done" => RangeAsAsked

LEMMA RangeInitInv == ReadInit => RangeInv
  BY ReadInitInv DEF RangeInv, ReadInit

\* Cutting off a fraction and taking the first line for a negative number
LEMMA Halved == ASSUME NEW n \in Int PROVE Max({0, n}) \div 2 = Max({0, n \div 2}) /\ Max({0, n \div 2}) \in Nat
<1>1. n \div 2 \in Int /\ (n >= 0 => n \div 2 >= 0) /\ (n < 0 => n \div 2 < 0) /\ 0 \div 2 = 0
  OBVIOUS
<1>2. Max({0, n}) = (IF 0 >= n THEN 0 ELSE n) /\ Max({0, n \div 2}) = IF 0 >= n \div 2 THEN 0 ELSE n \div 2
  BY <1>1, MaxOf
<1>3. CASE n >= 0
  <2>1. Max({0, n}) = n /\ Max({0, n \div 2}) = n \div 2
    BY <1>1, <1>2, <1>3
  <2>2. QED
    BY <1>1, <1>3, <2>1
<1>4. CASE n < 0
  <2>1. Max({0, n}) = 0 /\ Max({0, n \div 2}) = 0
    BY <1>1, <1>2, <1>4
  <2>2. QED
    BY <1>1, <2>1
<1>5. QED
  BY <1>3, <1>4

LEMMA LinesAsked ==
  ASSUME NEW value \in Argument
  PROVE  /\ parse_line_range(value) \in Amount /\ (parse_line_range(value) # None <=> value # None)
         /\ \A default : Or(parse_line_range(value), default)
                           = IF value = None THEN default ELSE Max({0, value[1] \div 2})
<1>1. CASE value = None
  BY <1>1 DEF parse_line_range, Amount, Or
<1>2. ASSUME NEW n \in Numbers, value = Some(n)
      PROVE  /\ parse_line_range(value) = Some(Max({0, n \div 2})) /\ value # None /\ value[1] = n
             /\ Max({0, n \div 2}) \in Nat
  <2>1. n \in Int /\ value # None /\ value[1] = n
    BY <1>2, NumbersAssumption DEF Some, None
  <2>2. Max({0, n}) \div 2 = Max({0, n \div 2}) /\ Max({0, n \div 2}) \in Nat
    BY <2>1, Halved
  <2>3. parse_line_range(value) = Some(Max({0, value[1]}) \div 2)
    BY <2>1 DEF parse_line_range
  <2>4. QED
    BY <2>1, <2>2, <2>3
<1>3. ASSUME value # None
      PROVE  /\ parse_line_range(value) \in Amount /\ parse_line_range(value) # None
             /\ parse_line_range(value)[1] = Max({0, value[1] \div 2})
  <2>1. PICK n \in Numbers : value = Some(n)
    BY <1>3 DEF Argument
  <2>2. parse_line_range(value) = Some(Max({0, n \div 2})) /\ value[1] = n /\ Max({0, n \div 2}) \in Nat
    BY <1>2, <2>1
  <2>3. PICK m \in Nat : m = Max({0, n \div 2})
    BY <2>2
  <2>4. parse_line_range(value) = Some(m) /\ Some(m) # None /\ Some(m)[1] = m
    BY <2>2, <2>3 DEF Some, None
  <2>5. QED
    BY <2>2, <2>3, <2>4 DEF Amount
<1>4. QED
  BY <1>1, <1>3 DEF Or

LEMMA BytesAsked ==
  ASSUME NEW value \in Argument, ~BadBytes(value)
  PROVE  /\ parse_byte_range(value) \in Amount /\ (parse_byte_range(value) # None <=> value # None)
         /\ \A default : Or(parse_byte_range(value), default)
                           = IF value = None THEN default ELSE Max({0, value[1] \div 2})
<1>1. CASE value = None
  BY <1>1 DEF parse_byte_range, Amount, Or
<1>2. ASSUME value # None
      PROVE  /\ parse_byte_range(value) \in Amount /\ parse_byte_range(value) # None
             /\ parse_byte_range(value)[1] = Max({0, value[1] \div 2})
  <2>1. PICK n \in Numbers : value = Some(n)
    BY <1>2 DEF Argument
  <2>2. n \in Int /\ value[1] = n
    BY <2>1, NumbersAssumption DEF Some
  <2>3. n >= 0
    BY <1>2, <2>2 DEF BadBytes
  <2>4. n \div 2 \in Nat
    BY <2>2, <2>3
  <2>5. Max({0, n \div 2}) = n \div 2
    <3>1. Max({0, n \div 2}) = IF 0 >= n \div 2 THEN 0 ELSE n \div 2
      BY <2>4, MaxOf
    <3>2. QED
      BY <2>4, <3>1
  <2>6. PICK m \in Nat : m = n \div 2
    BY <2>4
  <2>7. parse_byte_range(value) = Some(m) /\ Some(m) # None /\ Some(m)[1] = m
    BY <1>2, <2>2, <2>6 DEF parse_byte_range, Some, None
  <2>8. QED
    BY <2>2, <2>5, <2>6, <2>7 DEF Amount
<1>3. QED
  BY <1>1, <1>2 DEF Or

\* The range of the request is the one that the call asks for.
LEMMA RangeOf ==
  ASSUME meant \in Meant, Exactly, content \in Contents
  PROVE  /\ request \in Asked /\ request.mode = meant.mode /\ Offset = WantedOffset
         /\ WantedRange = IF request.mode = "text" THEN slice_lines(content, request.offset, request.length)
                          ELSE slice_bytes(content, request.offset, request.length)
<1>1. meant.mode \in Modes /\ meant.offset \in Argument /\ meant.length \in Argument
  BY DEF Meant
<1>2. meant.mode # "text" => ~BadBytes(meant.offset) /\ ~BadBytes(meant.length)
  BY DEF Exactly, BadCall
<1>3. request.mode = meant.mode
      /\ (request.offset = IF meant.mode = "text" THEN parse_line_range(meant.offset) ELSE parse_byte_range(meant.offset))
      /\ (request.length = IF meant.mode = "text" THEN parse_line_range(meant.length) ELSE parse_byte_range(meant.length))
      /\ request = ReadRequest(request.mode, request.offset, request.length)
  BY DEF Exactly, Exact, ReadRequest
<1>4. /\ request.offset \in Amount /\ \A default : Or(request.offset, default)
                                         = IF meant.offset = None THEN default ELSE Max({0, meant.offset[1] \div 2})
      /\ request.length \in Amount /\ (request.length # None <=> meant.length # None)
      /\ \A default : Or(request.length, default)
                                         = IF meant.length = None THEN default ELSE Max({0, meant.length[1] \div 2})
  <2>1. CASE meant.mode = "text"
    <3>1. request.offset = parse_line_range(meant.offset) /\ request.length = parse_line_range(meant.length)
      BY <1>3, <2>1
    <3>2. QED
      BY <1>1, <3>1, LinesAsked
  <2>2. CASE meant.mode # "text"
    <3>1. request.offset = parse_byte_range(meant.offset) /\ request.length = parse_byte_range(meant.length)
      BY <1>3, <2>2
    <3>2. QED
      BY <1>1, <1>2, <2>2, <3>1, BytesAsked
  <2>3. QED
    BY <2>1, <2>2
<1>5. request \in Asked
  BY <1>1, <1>3, <1>4 DEF Asked, ReadRequest
<1>6. Offset = WantedOffset /\ Or(request.offset, 0) = WantedOffset /\ Or(request.length, NoLimit) = WantedLength
  BY <1>4 DEF Offset, WantedOffset, WantedLength
<1>7. CASE meant.mode = "text"
  <2>1. slice_lines(content, request.offset, request.length)
          = Bare(Pick(content, WantedLines(content, Max({1, WantedOffset}), WantedLength)), request.length # None)
    BY <1>4, <1>6, SliceLinesIs
  <2>2. QED
    BY <1>3, <1>4, <1>5, <1>6, <1>7, <2>1 DEF WantedRange
<1>8. CASE meant.mode # "text"
  <2>1. slice_bytes(content, request.offset, request.length)
          = Pick(content, WantedBytes(content, WantedOffset, WantedLength))
    BY <1>4, <1>6, SliceBytesIs
  <2>2. QED
    BY <1>3, <1>5, <1>6, <1>8, <2>1 DEF WantedRange
<1>9. QED
  BY <1>7, <1>8

\* What is to be returned, said of the request
LEMMA Meets ==
  ASSUME meant \in Meant, Exactly, content \in Contents, NEW r,
         request.mode = "text" =>
           r = IF "x" \in Range(content) THEN Error("not UTF-8")
               ELSE [value |-> slice_lines(content, request.offset, request.length)],
         request.mode # "text" /\ meant.kind = "dynamic" /\ Offset > 0 => r = [value |-> <<>>],
         request.mode # "text" /\ ~(meant.kind = "dynamic" /\ Offset > 0) =>
           r = IF Extent(content) > mode_input_limit(request.mode) THEN Error("too large")
               ELSE [value |-> slice_bytes(content, request.offset, request.length)]
  PROVE  AsAsked(r)
<1>1. /\ request \in Asked /\ request.mode = meant.mode /\ Offset = WantedOffset /\ ~BadCall
      /\ request.mode = "text" => WantedRange = slice_lines(content, request.offset, request.length)
      /\ request.mode # "text" => WantedRange = slice_bytes(content, request.offset, request.length)
  BY RangeOf DEF Exactly
<1>2. CASE meant.mode = "text"
  BY <1>1, <1>2 DEF AsAsked
<1>3. CASE meant.mode # "text"
  <2>1. Len(WantedRange) = Extent(content)
    BY <1>1, <1>3, SliceLen
  <2>2. QED
    BY <1>1, <1>3, <2>1 DEF AsAsked
<1>4. QED
  BY <1>2, <1>3

LEMMA EndsAsAsked ==
  ASSUME RangeInv, ReadInv', stage' = "done", UNCHANGED <<meant, content, edits>>, edits = {} => AsAsked(result')
  PROVE  RangeInv'
<1>1. BadCall' = BadCall /\ WantedOffset' = WantedOffset /\ WantedRange' = WantedRange
  BY DEF BadCall, WantedRange, WantedOffset, WantedLength
<1>2. ASSUME edits = {} PROVE RangeAsAsked'
  BY <1>1, <1>2 DEF RangeAsAsked, AsAsked
<1>3. RangeAsAsked'
  BY <1>2 DEF RangeAsAsked
<1>4. QED
  BY <1>3 DEF RangeInv

LEMMA LuaAnswer ==
  ASSUME request \in Asked, NEW bytes
  PROVE  /\ request.mode = "text" /\ Len(bytes) <= NoLimit =>
              to_lua(bytes) = IF "x" \in Range(bytes) THEN Error("not UTF-8")
                              ELSE [value |-> slice_lines(bytes, request.offset, request.length)]
         /\ request.mode # "text" /\ Len(bytes) <= mode_input_limit(request.mode) => to_lua(bytes) = [value |-> bytes]
         /\ request.mode # "text" /\ ~(Len(bytes) <= mode_input_limit(request.mode)) =>
              to_lua(bytes) = Error("too large")
<1>1. request.mode = "text" => mode_input_limit(request.mode) = NoLimit
  BY DEF mode_input_limit
<1>2. QED
  BY <1>1 DEF to_lua, ensure_mode_input_size

LEMMA ParseRange == ASSUME RangeInv, Parse PROVE RangeInv'
<1>1. /\ ReadInv' /\ meant \in Meant /\ (meant.way = "legacy" => meant.mode = "text")
      /\ request' = parse(meant.way, meant.offset, meant.length, meant.mode)
      /\ UNCHANGED <<meant, content, seen, edits, selected, got>>
  BY ReadStep DEF RangeInv, ReadInv, Parse, ReadNext
<1>2. /\ meant.way \in Ways /\ meant.offset \in Argument /\ meant.length \in Argument /\ meant.mode \in Modes
  BY <1>1 DEF Meant
<1>3. /\ BadCall => IsError(request')
      /\ ~BadCall => request' = Exact(meant.mode, meant.offset, meant.length)
  <2>1. BadCall <=> Bad(meant.way, meant.mode, meant.offset, meant.length)
    BY DEF BadCall, Bad
  <2>2. QED
    BY <1>1, <1>2, <2>1, ParseExact
<1>4. ~IsError(Exact(meant.mode, meant.offset, meant.length))
  BY DEF Exact, ReadRequest, IsError
<1>5. CASE BadCall
  <2>1. stage' = "done" /\ result' = request'
    BY <1>3, <1>5 DEF Parse, Return
  <2>2. AsAsked(result')
    BY <1>3, <1>5, <2>1 DEF AsAsked
  <2>3. QED
    BY <1>1, <2>1, <2>2, EndsAsAsked
<1>6. CASE ~BadCall
  <2>1. stage' = "parsed" /\ ~BadCall'
    BY <1>1, <1>3, <1>4, <1>6 DEF Parse, BadCall
  <2>2. Exactly'
    BY <1>1, <1>3, <1>6, <2>1 DEF Exactly
  <2>3. QED
    BY <1>1, <2>1, <2>2 DEF RangeInv
<1>7. QED
  BY <1>5, <1>6

LEMMA SyntheticRange == ASSUME RangeInv, synthetic_value PROVE RangeInv'
<1>1. /\ ReadInv' /\ meant \in Meant /\ content \in Contents /\ Exactly /\ meant.kind = "synthetic"
      /\ stage' = "done" /\ UNCHANGED <<meant, content, edits>>
      /\ result' = to_lua(IF request.mode = "text" THEN content
                          ELSE slice_bytes(content, request.offset, request.length))
  BY ReadStep DEF RangeInv, ReadInv, synthetic_value, ReadNext, Return
<1>2. request \in Asked
  BY <1>1, RangeOf
<1>3. Len(content) \in Nat /\ Len(content) < NoLimit /\ NoLimit \in Nat /\ mode_input_limit(request.mode) \in Nat
      /\ Extent(content) \in Nat /\ Len(slice_bytes(content, request.offset, request.length)) = Extent(content)
  BY <1>1, <1>2, Requested, Texts, ExtentIs, SliceLen
<1>4. request.mode = "text" =>
        result' = IF "x" \in Range(content) THEN Error("not UTF-8")
                  ELSE [value |-> slice_lines(content, request.offset, request.length)]
  <2>1. SUFFICES ASSUME request.mode = "text"
                 PROVE  result' = IF "x" \in Range(content) THEN Error("not UTF-8")
                                  ELSE [value |-> slice_lines(content, request.offset, request.length)]
    OBVIOUS
  <2>2. result' = to_lua(content) /\ Len(content) <= NoLimit
    BY <1>1, <1>3, <2>1
  <2>3. QED
    BY <1>2, <2>1, <2>2, LuaAnswer
<1>5. request.mode # "text" =>
        result' = IF Extent(content) > mode_input_limit(request.mode) THEN Error("too large")
                  ELSE [value |-> slice_bytes(content, request.offset, request.length)]
  <2>1. SUFFICES ASSUME request.mode # "text"
                 PROVE  result' = IF Extent(content) > mode_input_limit(request.mode) THEN Error("too large")
                                  ELSE [value |-> slice_bytes(content, request.offset, request.length)]
    OBVIOUS
  <2>2. PICK slice : slice = slice_bytes(content, request.offset, request.length)
    OBVIOUS
  <2>3. result' = to_lua(slice) /\ Len(slice) = Extent(content)
    BY <1>1, <1>3, <2>1, <2>2
  <2>4. /\ Len(slice) <= mode_input_limit(request.mode) => result' = [value |-> slice]
        /\ ~(Len(slice) <= mode_input_limit(request.mode)) => result' = Error("too large")
    BY <1>2, <2>1, <2>3, LuaAnswer
  <2>5. CASE Len(slice) <= mode_input_limit(request.mode)
    <3>1. ~(Extent(content) > mode_input_limit(request.mode))
      BY <1>3, <2>3, <2>5
    <3>2. QED
      BY <2>2, <2>4, <2>5, <3>1
  <2>6. CASE ~(Len(slice) <= mode_input_limit(request.mode))
    <3>1. Extent(content) > mode_input_limit(request.mode)
      BY <1>3, <2>3, <2>6
    <3>2. QED
      BY <2>4, <2>6, <3>1
  <2>7. QED
    BY <2>5, <2>6
<1>6. AsAsked(result')
  BY <1>1, <1>4, <1>5, Meets
<1>7. QED
  BY <1>1, <1>6, EndsAsAsked

LEMMA OpenRange == ASSUME RangeInv, Open PROVE RangeInv'
<1>1. /\ ReadInv' /\ meant \in Meant /\ content \in Contents /\ Exactly /\ meant.kind \in {"regular", "dynamic"}
      /\ edits = {} /\ UNCHANGED <<meant, request, content, edits, got>>
  BY ReadStep DEF RangeInv, ReadInv, Open, ReadNext, Meant
<1>2. request \in Asked
  BY <1>1, RangeOf
<1>3. /\ Offset \in Nat /\ Len(content) \in Nat /\ mode_input_limit(request.mode) \in Nat
      /\ Extent(content) \in Nat /\ Extent(content) <= Left(content)
      /\ Len(slice_bytes(content, request.offset, request.length)) = Extent(content)
      /\ slice_bytes(content, request.offset, request.length) \in Seq(Characters)
  <2>1. slice_bytes(content, request.offset, request.length) \in Seq(Characters)
    BY <1>1, <1>2, SliceBytesIs DEF Asked
  <2>2. QED
    BY <1>1, <1>2, <2>1, Requested, Texts, ExtentIs, SliceLen
<1>4. /\ meant.kind = "regular" => ReportedLen = Len(content) /\ Available = Extent(content)
      /\ meant.kind = "dynamic" => ReportedLen = 0
  BY <1>1, <1>2, AvailableIs DEF ReportedLen
<1>5. CASE BeyondEnd
  <2>1. stage' = "done" /\ result' = [value |-> <<>>] /\ request.mode # "text" /\ Offset # 0 /\ Offset >= ReportedLen
    BY <1>5 DEF Open, Return, BeyondEnd
  <2>2. ASSUME meant.kind # "dynamic"
        PROVE  slice_bytes(content, request.offset, request.length) = <<>> /\ Extent(content) = 0
    <3>1. Left(content) = 0
      BY <1>1, <1>3, <1>4, <2>1, <2>2 DEF Left
    <3>2. Extent(content) = 0
      BY <1>3, <3>1
    <3>3. QED
      BY <1>3, <3>2, EmptySeq
  <2>3. ~(meant.kind = "dynamic" /\ Offset > 0) =>
          result' = IF Extent(content) > mode_input_limit(request.mode) THEN Error("too large")
                    ELSE [value |-> slice_bytes(content, request.offset, request.length)]
    <3>1. Offset > 0
      BY <1>3, <2>1
    <3>2. meant.kind # "dynamic" => ~(Extent(content) > mode_input_limit(request.mode))
      BY <1>3, <2>2
    <3>3. QED
      BY <2>1, <2>2, <3>1, <3>2
  <2>4. AsAsked(result')
    BY <1>1, <2>1, <2>3, Meets
  <2>5. QED
    BY <1>1, <2>1, <2>4, EndsAsAsked
<1>6. CASE ~BeyondEnd /\ stage' = "done"
  <2>1. /\ ReportedLen > 0 /\ result' = Error("too large")
        /\ ~ensure_mode_input_size(request.mode, IF request.mode = "text" THEN 0 ELSE Available)
    BY <1>6 DEF Open, Return
  <2>2. request.mode # "text"
    <3>1. ensure_mode_input_size("text", 0)
      BY DEF ensure_mode_input_size, mode_input_limit, NoLimit
    <3>2. QED
      BY <2>1, <3>1
  <2>3. meant.kind # "dynamic" /\ Extent(content) > mode_input_limit(request.mode)
    <3>1. meant.kind # "dynamic" /\ Available = Extent(content)
      <4>1. ReportedLen > 0
        BY <2>1
      <4>2. ReportedLen # 0
        BY <4>1
      <4>3. meant.kind # "dynamic"
        BY <1>4, <4>2
      <4>4. QED
        BY <1>1, <1>4, <4>3
    <3>2. ~ensure_mode_input_size(request.mode, Extent(content))
      BY <2>1, <2>2, <3>1
    <3>3. QED
      BY <1>3, <3>1, <3>2 DEF ensure_mode_input_size
  <2>4. AsAsked(result')
    BY <1>1, <2>1, <2>2, <2>3, Meets
  <2>5. QED
    BY <1>1, <1>6, <2>4, EndsAsAsked
<1>7. CASE ~BeyondEnd /\ stage' # "done"
  <2>1. /\ stage' = "copying"
        /\ selected' = IF request.mode = "buffer" /\ ReportedLen > 0 THEN Available ELSE NoLimit
        /\ ~(ReportedLen > 0 /\ ~ensure_mode_input_size(request.mode, IF request.mode = "text" THEN 0 ELSE Available))
    BY <1>7 DEF Open, Return
  <2>2. Presized' => selected' <= BufferLimit
    <3>1. SUFFICES ASSUME Presized' PROVE selected' <= BufferLimit
      OBVIOUS
    <3>2. request.mode = "buffer" /\ ReportedLen > 0 /\ selected' = Available
      BY <1>1, <2>1, <3>1 DEF Presized
    <3>3. ensure_mode_input_size("buffer", Available)
      BY <2>1, <3>2
    <3>4. QED
      BY <3>2, <3>3 DEF ensure_mode_input_size, mode_input_limit
  <2>3. Exactly'
    BY <1>1 DEF Exactly, BadCall
  <2>4. QED
    BY <1>1, <2>1, <2>2, <2>3 DEF RangeInv
<1>8. QED
  BY <1>5, <1>6, <1>7

\* Steps that do not end the call
LEMMA StillAsked ==
  ASSUME RangeInv, ReadInv', UNCHANGED <<meant, request, selected>>,
         stage \in {"copying", "probing"}, stage' \in {"copying", "probing"}, stage' = "probing" => Probed
  PROVE  RangeInv'
<1>1. Exactly' = Exactly /\ Presized' = Presized /\ Probed' = Probed
  BY DEF Exactly, BadCall, Presized, Probed
<1>2. Exactly /\ (Presized => selected <= BufferLimit) /\ (meant.way = "legacy" => meant.mode = "text")
  BY DEF RangeInv
<1>3. QED
  BY <1>1, <1>2 DEF RangeInv

\* What a copy holds of a file that nobody touched
LEMMA Untouched ==
  ASSUME Copying, edits = {}
  PROVE  Window(content) /\ (Presized => selected = Extent(content))
<1>1. PICK text \in seen : Opened(text)
  BY DEF Copying
<1>2. content = text
  BY <1>1 DEF Opened
<1>3. QED
  BY <1>1, <1>2 DEF Opened, Presized

\* What was copied is at most what there is of the range.
LEMMA CopiedAtMost ==
  ASSUME request \in Asked, request.mode # "text", content \in Contents, got \in Seq(Characters), Window(content),
         Len(got) <= Most
  PROVE  Len(got) <= Extent(content)
<1>1. Offset \in Nat /\ Most \in Nat /\ Start = Offset
  BY Requested DEF Start
<1>2. Len(content) \in Nat /\ Len(got) \in Nat /\ (Len(got) > 0 => Offset + Len(got) <= Len(content))
  BY <1>1, Texts, WindowEnds
<1>3. Len(got) <= Left(content)
  BY <1>1, <1>2 DEF Left
<1>4. QED
  BY <1>3 DEF Extent

LEMMA CopiedRange == ASSUME RangeInv, Copied PROVE RangeInv'
<1>1. /\ ReadInv /\ ReadInv' /\ Copying /\ meant \in Meant /\ content \in Contents /\ Exactly /\ stage = "copying"
      /\ (Enough \/ AtEnd) /\ (Presized => selected <= BufferLimit)
      /\ UNCHANGED <<meant, request, content, seen, edits, selected, got>>
  BY ReadStep DEF RangeInv, ReadInv, Copied, ReadNext
<1>2. /\ request \in Asked /\ got \in Seq(Characters) /\ Len(got) <= Wants /\ selected \in Nat
      /\ (Presized => selected <= Most) /\ (meant.kind = "dynamic" /\ request.mode # "text" => Offset = 0)
  BY <1>1 DEF Copying
<1>3. /\ Offset \in Nat /\ Most \in Nat /\ Len(content) \in Nat /\ Len(got) \in Nat
      /\ mode_input_limit(request.mode) \in Nat /\ ReadLimit \in Nat
      /\ Extent(content) \in Nat /\ NoLimit \in Nat
  BY <1>1, <1>2, Requested, Texts, ExtentIs, LenProperties
<1>4. ~(meant.kind = "dynamic" /\ request.mode # "text" /\ Offset > 0)
  BY <1>2, <1>3
<1>5. Presized => request.mode # "text" /\ Len(got) <= Most /\ mode_input_limit(request.mode) = BufferLimit
  BY <1>2, <1>3 DEF Presized, Wants, mode_input_limit
<1>6. CASE Presized /\ ~ensure_complete_copy
  <2>1. stage' = "done"
    BY <1>6 DEF Copied, Return
  <2>2. ASSUME edits = {} PROVE FALSE
    <3>1. Window(content) /\ selected = Extent(content)
      BY <1>1, <1>6, <2>2, Untouched
    <3>2. ~Enough /\ Len(got) # selected
      BY <1>6 DEF Enough, ensure_complete_copy
    <3>3. Offset + Len(got) >= Len(content)
      BY <1>1, <1>5, <1>6, <3>2 DEF AtEnd
    <3>4. Len(got) = Extent(content)
      BY <1>1, <1>2, <1>5, <1>6, <3>1, <3>3, Whole
    <3>5. QED
      BY <3>1, <3>2, <3>4
  <2>3. QED
    BY <1>1, <2>1, <2>2, EndsAsAsked
<1>7. CASE Presized /\ ensure_complete_copy /\ Probed
  <2>1. stage' = "probing"
    BY <1>7 DEF Copied
  <2>2. QED
    BY <1>1, <1>7, <2>1, StillAsked
<1>8. CASE ~(Presized /\ ~ensure_complete_copy) /\ ~(Presized /\ ensure_complete_copy /\ Probed)
  <2>1. stage' = "done" /\ result' = to_lua(got)
    BY <1>8 DEF Copied, Return
  <2>2. ASSUME edits = {}, ensure_mode_input_size(request.mode, Len(got))
        PROVE  IF request.mode = "text" THEN got = content
               ELSE got = slice_bytes(content, request.offset, request.length)
    <3>1. Undisturbed
      BY <2>2 DEF Undisturbed
    <3>2. QED
      BY <1>1, <1>8, <2>2, <3>1, CopiedIs
  <2>3. ASSUME edits = {}, request.mode = "text"
        PROVE  result' = IF "x" \in Range(content) THEN Error("not UTF-8")
                         ELSE [value |-> slice_lines(content, request.offset, request.length)]
    <3>1. Len(got) <= NoLimit
      BY <1>2, <2>3 DEF Wants, Presized, ReadLimit
    <3>2. ensure_mode_input_size(request.mode, Len(got))
      BY <2>3, <3>1 DEF ensure_mode_input_size, mode_input_limit
    <3>3. got = content
      BY <2>2, <2>3, <3>2
    <3>4. QED
      BY <1>2, <2>1, <2>3, <3>1, <3>3, LuaAnswer
  <2>4. ASSUME edits = {}, request.mode # "text"
        PROVE  result' = IF Extent(content) > mode_input_limit(request.mode) THEN Error("too large")
                         ELSE [value |-> slice_bytes(content, request.offset, request.length)]
    <3>1. CASE Len(got) <= mode_input_limit(request.mode)
      <4>1. got = slice_bytes(content, request.offset, request.length)
        BY <2>2, <2>4, <3>1 DEF ensure_mode_input_size
      <4>2. Len(got) = Extent(content)
        BY <1>1, <1>2, <4>1, SliceLen
      <4>3. ~(Extent(content) > mode_input_limit(request.mode))
        BY <1>3, <3>1, <4>2
      <4>4. result' = [value |-> got]
        BY <1>2, <2>1, <2>4, <3>1, LuaAnswer
      <4>5. QED
        BY <4>1, <4>3, <4>4
    <3>2. CASE ~(Len(got) <= mode_input_limit(request.mode))
      <4>1. result' = Error("too large")
        BY <1>2, <2>1, <2>4, <3>2, LuaAnswer
      <4>2. Window(content)
        BY <1>1, <2>4, Untouched
      <4>3. Len(got) <= Most
        <5>1. CASE Presized
          BY <1>5, <5>1
        <5>2. CASE ~Presized
          <6>1. Len(got) <= ReadLimit /\ ReadLimit <= Most
            BY <1>2, <1>3, <2>4, <5>2, Requested DEF Wants
          <6>2. QED
            BY <1>3, <6>1
        <5>3. QED
          BY <5>1, <5>2
      <4>4. Len(got) <= Extent(content)
        BY <1>1, <1>2, <2>4, <4>2, <4>3, CopiedAtMost
      <4>5. Extent(content) > mode_input_limit(request.mode)
        BY <1>3, <3>2, <4>4
      <4>6. QED
        BY <4>1, <4>5
    <3>3. QED
      BY <3>1, <3>2
  <2>5. ASSUME edits = {} PROVE AsAsked(result')
    BY <1>1, <1>4, <2>3, <2>4, <2>5, Meets
  <2>6. QED
    BY <1>1, <2>1, <2>5, EndsAsAsked
<1>9. QED
  BY <1>6, <1>7, <1>8

LEMMA ProbeRange == ASSUME RangeInv, Probe PROVE RangeInv'
<1>1. /\ ReadInv' /\ Copying /\ meant \in Meant /\ content \in Contents /\ Exactly /\ stage' = "done"
      /\ Presized /\ Len(got) = selected /\ selected <= BufferLimit /\ Probed
      /\ UNCHANGED <<meant, request, content, edits>>
      /\ result' = IF AtEnd THEN [value |-> got] ELSE Error("file changed")
  BY ReadStep DEF RangeInv, ReadInv, Probe, ReadNext, Return
<1>2. /\ request \in Asked /\ got \in Seq(Characters) /\ request.mode = "buffer" /\ selected \in Nat
      /\ selected <= Most /\ (meant.kind = "dynamic" => Offset = 0)
  BY <1>1 DEF Copying, Presized
<1>3. /\ Offset \in Nat /\ Most \in Nat /\ Len(content) \in Nat /\ mode_input_limit(request.mode) = BufferLimit
      /\ Extent(content) \in Nat /\ BufferLimit \in Nat
  <2>1. mode_input_limit(request.mode) = BufferLimit
    BY <1>2 DEF mode_input_limit
  <2>2. QED
    BY <1>1, <1>2, <2>1, Requested, Texts, ExtentIs, NumbersAssumption
<1>4. ASSUME edits = {} PROVE AsAsked(result')
  <2>1. Window(content) /\ selected = Extent(content)
    BY <1>1, <1>4, Untouched
  <2>2. Most # Extent(content)
    <3>1. Most > selected
      BY <1>1 DEF Probed, Most
    <3>2. QED
      BY <1>2, <1>3, <2>1, <3>1
  <2>3. Len(got) = Left(content)
    BY <1>1, <2>1, <2>2 DEF Extent
  <2>4. AtEnd
    BY <1>2, <1>3, <2>3 DEF AtEnd, Left
  <2>5. got = slice_bytes(content, request.offset, request.length)
    BY <1>1, <1>2, <2>1, SliceIs
  <2>6. ~(Extent(content) > mode_input_limit(request.mode)) /\ result' = [value |-> got]
    BY <1>1, <1>3, <2>1, <2>4
  <2>7. ~(meant.kind = "dynamic" /\ Offset > 0)
    BY <1>2, <1>3
  <2>8. QED
    BY <1>1, <1>2, <2>5, <2>6, <2>7, Meets
<1>5. QED
  BY <1>1, <1>4, EndsAsAsked

LEMMA RangeStep == RangeInv /\ [ReadNext]_reading => RangeInv'
<1>1. SUFFICES ASSUME RangeInv, [ReadNext]_reading PROVE RangeInv'
  OBVIOUS
<1>2. ReadInv'
  BY <1>1, ReadStep DEF RangeInv
<1>3. CASE UNCHANGED reading
  <2>1. UNCHANGED <<meant, stage, request, content, seen, edits, selected, got, result>>
    BY <1>3 DEF reading
  <2>2. Exactly' = Exactly /\ Presized' = Presized /\ Probed' = Probed
    BY <2>1 DEF Exactly, BadCall, Presized, Probed
  <2>3. RangeAsAsked' = RangeAsAsked
    BY <2>1 DEF RangeAsAsked, BadCall, WantedRange, WantedOffset, WantedLength
  <2>4. QED
    BY <1>1, <1>2, <2>1, <2>2, <2>3 DEF RangeInv
<1>4. CASE CopyByte
  BY <1>1, <1>2, <1>4, StillAsked DEF CopyByte
<1>5. CASE HostEdits
  <2>1. stage = "probing" => Probed
    BY <1>1 DEF RangeInv
  <2>2. stage \in {"copying", "probing"} /\ UNCHANGED <<meant, stage, request, selected>>
    BY <1>5 DEF HostEdits
  <2>3. QED
    BY <1>1, <1>2, <2>1, <2>2, StillAsked
<1>6. CASE Parse \/ synthetic_value \/ Open \/ Copied \/ Probe
  BY <1>1, <1>6, ParseRange, SyntheticRange, OpenRange, CopiedRange, ProbeRange
<1>7. QED
  BY <1>1, <1>3, <1>4, <1>5, <1>6 DEF ReadNext

\* Until it returns, a call reads the range that it asks for, in the mode that it asks for, and
\* a buffer that is made before it is filled is within the limit (ReadRequest, read_host_buffer).
THEOREM RangeInductive == ReadSpec => []RangeInv
  BY RangeInitInv, RangeStep, PTL DEF ReadSpec

\* What a call returns is the range that it asks for, of one content the file had: in all forms
\* and modes, of regular, dynamic and synthetic files, and whatever the host does to the file
\* meanwhile (fs_read.rs; docs/module-api-design.md, fs.read).
THEOREM ReadsAsAskedAlways == ReadSpec => []ReadsAsAsked
<1>1. RangeInv => ReadsAsAsked
  BY DEF RangeInv, ReadInv, ReadsAsAsked, WindowOfAVersion, Returned, RangeAsAsked
<1>2. QED
  BY <1>1, RangeInductive, PTL
=============================================================================
