------------------------- MODULE DocFuturesProofs -------------------------
(***************************************************************************)
(* The safety properties of DocFutures, for any number of sessions, reads, *)
(* keys and permits.                                                       *)
(***************************************************************************)
EXTENDS DocFutures, FiniteSetTheorems, TLAPS

USE DEF Permitted, Waiting, Direct, Resolving, Resting, Stages, InCache

LEMMA HoldersFinite ==
  ASSUME NEW s \in Sessions
  PROVE  /\ IsFiniteSet(Holders(s)) /\ Cardinality(Holders(s)) \in Nat
         /\ IsFiniteSet(Holders(s)') /\ Cardinality(Holders(s)') \in Nat
<1>1. Holders(s) \subseteq Reads /\ Holders(s)' \subseteq Reads
  BY DEF Holders, ReadsOf
<1>2. QED
  BY <1>1, ReadsAssumption, FS_Subset, FS_CardinalityType

\* What a step that moves read r does to the stages
LEMMA GoType ==
  ASSUME TypeOK, NEW r \in Reads, NEW to \in Stages, Go(r, to) \/ Enter(r, to)
  PROVE  /\ stage' \in [Reads -> Stages] /\ spoiled' \subseteq Keys
         /\ stage'[r] = to /\ \A q \in Reads : q # r => stage'[q] = stage[q]
  BY DEF TypeOK, Go, Enter, Move, Shared

\* The semaphore of a session is in account after a step that gives or takes
\* nothing of it.
Account(s) == permits[s] + Cardinality(Holders(s)) = MAX_CONCURRENT_READS

LEMMA AccountKept ==
  ASSUME NEW s \in Sessions, Account(s), permits'[s] = permits[s],
         \A r \in ReadsOf(s) : stage'[r] \in Permitted <=> stage[r] \in Permitted
  PROVE  Account(s)'
<1>1. Holders(s)' = Holders(s)
  BY DEF Holders, ReadsOf
<1>2. QED
  BY <1>1 DEF Account

LEMMA AccountFresh ==
  ASSUME NEW s \in Sessions, permits'[s] = MAX_CONCURRENT_READS,
         \A r \in ReadsOf(s) : stage'[r] \notin Permitted
  PROVE  Account(s)'
<1>1. Holders(s)' = {}
  BY DEF Holders, ReadsOf
<1>2. QED
  BY <1>1, FS_EmptySet, ReadsAssumption DEF Account

LEMMA AccountTaken ==
  ASSUME TypeOK, NEW r \in Reads, Account(Owner[r]), permits[Owner[r]] > 0,
         stage[r] \notin Permitted, stage'[r] \in Permitted,
         \A q \in Reads : q # r => stage'[q] = stage[q],
         permits'[Owner[r]] = permits[Owner[r]] - 1
  PROVE  Account(Owner[r])'
<1> DEFINE s == Owner[r]
<1>1. s \in Sessions
  BY ReadsAssumption
<1>2. Holders(s)' = Holders(s) \cup {r} /\ r \notin Holders(s)
  BY DEF Holders, ReadsOf
<1>3. Cardinality(Holders(s)') = Cardinality(Holders(s)) + 1
  BY <1>1, <1>2, HoldersFinite, FS_AddElement
<1>4. QED
  BY <1>1, <1>3, HoldersFinite, ReadsAssumption DEF Account, TypeOK

LEMMA AccountGiven ==
  ASSUME TypeOK, NEW r \in Reads, Account(Owner[r]),
         stage[r] \in Permitted, stage'[r] \notin Permitted,
         \A q \in ReadsOf(Owner[r]) :
           q # r => (stage'[q] \in Permitted <=> stage[q] \in Permitted),
         permits'[Owner[r]] = permits[Owner[r]] + 1
  PROVE  Account(Owner[r])' /\ permits'[Owner[r]] \in 0..MAX_CONCURRENT_READS
<1> DEFINE s == Owner[r]
<1>1. s \in Sessions
  BY ReadsAssumption
<1>2. Holders(s)' = Holders(s) \ {r} /\ r \in Holders(s)
  BY DEF Holders, ReadsOf
<1>3. Cardinality(Holders(s)') = Cardinality(Holders(s)) - 1
  BY <1>1, <1>2, HoldersFinite, FS_RemoveElement
<1>4. QED
  BY <1>1, <1>3, HoldersFinite, ReadsAssumption DEF Account, TypeOK

---------------------------------------------------------------------------
(* The inductive invariant.  A script that runs has no worker; a slot is    *)
(* full exactly from the step that fills it on; a cut cache file has a      *)
(* writer at work or is recorded in spoiled, and so is a key that two       *)
(* threads resolve.                                                        *)

Idle == \A r \in Reads : script[Owner[r]] = "run" => stage[r] \in Resting

SlotFilled == \A r \in Reads : slot[r] # "empty" <=> stage[r] \in {"release", "done"}

Writing(r) == stage[r] \in {"write", "d_write"}

CutFileExplained ==
  \A k \in Keys : cache[k] = "torn" => k \in spoiled \/ \E r \in Reads : KeyOf[r] = k /\ Writing(r)

SharedKeysSpoiled == Shared(stage) \subseteq spoiled

IInv == TypeOK /\ PermitsAccounted /\ Idle /\ SlotFilled
          /\ TornOnlyIfSpoiled /\ CutFileExplained /\ SharedKeysSpoiled

USE DEF On, Onward, Finished, ReadsOf

\* Every invariant holds initially.
LEMMA InitInv == Init => IInv
<1> SUFFICES ASSUME Init PROVE IInv
  OBVIOUS
<1>1. TypeOK /\ Idle /\ SlotFilled /\ TornOnlyIfSpoiled /\ CutFileExplained
  BY ReadsAssumption DEF Init, TypeOK, Idle, SlotFilled, TornOnlyIfSpoiled, CutFileExplained
<1>2. PermitsAccounted
  <2> SUFFICES ASSUME NEW s \in Sessions PROVE permits[s] + Cardinality(Holders(s)) = MAX_CONCURRENT_READS
    BY DEF PermitsAccounted
  <2>1. Holders(s) = {}
    BY DEF Init, Holders
  <2>2. QED
    BY <2>1, FS_EmptySet, ReadsAssumption DEF Init
<1>3. SharedKeysSpoiled
  BY DEF Init, SharedKeysSpoiled, Shared
<1>4. QED
  BY <1>1, <1>2, <1>3 DEF IInv

\* A release gives back the permit of the thread that held one.
LEMMA ReleaseAccount ==
  ASSUME TypeOK, NEW r \in Reads, Account(Owner[r]), Release(r)
  PROVE  Account(Owner[r])' /\ permits'[Owner[r]] \in 0..MAX_CONCURRENT_READS
<1> DEFINE s == Owner[r]
<1>1. s \in Sessions
  BY ReadsAssumption
<1>2. stage[r] \in Permitted /\ permits'[s] = permits[s] + 1
  BY <1>1 DEF Release, GivenBack, TypeOK
<1>3. \A q \in Reads : stage'[q] = IF q = r THEN IF stage[r] = "release" THEN "done" ELSE "panicked"
                                  ELSE IF stage'[q] = stage[q] THEN stage[q] ELSE "acquire"
  BY DEF Release, Move
<1>4. \A q \in Reads : stage'[q] # stage[q] => q = r \/ stage[q] = "waiting"
  BY DEF Release, Move, Wakes, Sleepers
<1>5. QED
  BY <1>2, <1>3, <1>4, AccountGiven

LEMMA TypeStep ==
  ASSUME IInv, [Next]_vars
  PROVE  TypeOK'
<1> USE ReadsAssumption DEF IInv, TypeOK, Go, Enter, Move, Shared, Fill
<1>1. ASSUME NEW r \in Reads, ReadAsync(r) PROVE TypeOK'
  BY <1>1 DEF ReadAsync, CacheRead
<1>2. ASSUME NEW r \in Reads, Read(r) PROVE TypeOK'
  BY <1>2 DEF Read
<1>3. ASSUME NEW r \in Reads, Await(r) PROVE TypeOK'
  BY <1>3 DEF Await, Batch
<1>4. ASSUME NEW r \in Reads, SpuriousWake(r) PROVE TypeOK'
  BY <1>4 DEF SpuriousWake
<1>5. ASSUME NEW r \in Reads, Acquire(r) PROVE TypeOK'
  BY <1>5 DEF Acquire
<1>6. ASSUME NEW r \in Reads, Lookup(r) PROVE TypeOK'
  BY <1>6 DEF Lookup, CacheRead
<1>7. ASSUME NEW r \in Reads, CallOk(r) \/ CallErr(r) \/ CallPanic(r) PROVE TypeOK'
  BY <1>7 DEF CallOk, CallErr, CallPanic
<1>8. ASSUME NEW r \in Reads, Create(r) \/ Write(r) \/ WriteFails(r) PROVE TypeOK'
  BY <1>8 DEF Create, Write, WriteFails, WriteAll, SetCache
<1>9. ASSUME NEW r \in Reads, FillText(r) PROVE TypeOK'
  BY <1>9 DEF FillText
<1>10. ASSUME NEW r \in Reads, Release(r) PROVE TypeOK'
  <2>1. Account(Owner[r])
    BY ReadsAssumption DEF PermitsAccounted, Account
  <2>2. permits'[Owner[r]] \in 0..MAX_CONCURRENT_READS
    BY <1>10, <2>1, ReleaseAccount
  <2>3. permits' \in [Sessions -> 0..MAX_CONCURRENT_READS]
    BY <1>10, <2>2 DEF Release
  <2>4. QED
    BY <1>10, <2>3 DEF Release
<1>11. ASSUME NEW s \in Sessions, Return(s) \/ Crash(s) PROVE TypeOK'
  BY <1>11 DEF Return, Crash
<1>12. CASE UNCHANGED vars
  BY <1>12 DEF vars
<1>13. QED
  BY <1>1, <1>2, <1>3, <1>4, <1>5, <1>6, <1>7, <1>8, <1>9, <1>10, <1>11, <1>12 DEF Next, Resolve

\* No step loses or invents a permit.
LEMMA PermitsStep ==
  ASSUME IInv, [Next]_vars
  PROVE  PermitsAccounted'
<1> USE ReadsAssumption DEF IInv, Go, Enter, Move
<1> SUFFICES ASSUME NEW s \in Sessions PROVE Account(s)'
  BY DEF PermitsAccounted, Account
<1>0. Account(s)
  BY DEF PermitsAccounted, Account
<1>1. ASSUME NEW r \in Reads, ReadAsync(r) PROVE Account(s)'
  BY <1>0, <1>1, AccountKept DEF ReadAsync, TypeOK
<1>2. ASSUME NEW r \in Reads, Read(r) PROVE Account(s)'
  BY <1>0, <1>2, AccountKept DEF Read, TypeOK
<1>3. ASSUME NEW r \in Reads, Await(r) PROVE Account(s)'
  <2>1. CASE s = Owner[r]
    BY <1>3, <2>1, AccountFresh DEF Await, Batch, Idle, TypeOK
  <2>2. CASE s # Owner[r]
    BY <1>0, <1>3, <2>2, AccountKept DEF Await, Batch, TypeOK
  <2>3. QED
    BY <2>1, <2>2
<1>4. ASSUME NEW r \in Reads, SpuriousWake(r) PROVE Account(s)'
  BY <1>0, <1>4, AccountKept DEF SpuriousWake, TypeOK
<1>5. ASSUME NEW r \in Reads, Acquire(r) PROVE Account(s)'
  <2>1. CASE s = Owner[r] /\ permits[s] > 0
    <3>1. stage'[r] \in Permitted /\ permits'[s] = permits[s] - 1
      BY <1>5, <2>1 DEF Acquire, TypeOK
    <3>2. stage[r] \notin Permitted /\ \A q \in Reads : q # r => stage'[q] = stage[q]
      BY <1>5 DEF Acquire, TypeOK
    <3>3. QED
      BY <1>0, <2>1, <3>1, <3>2, AccountTaken
  <2>2. CASE ~ (s = Owner[r] /\ permits[s] > 0)
    BY <1>0, <1>5, <2>2, AccountKept DEF Acquire, TypeOK
  <2>3. QED
    BY <2>1, <2>2
<1>6. ASSUME NEW r \in Reads, Lookup(r) PROVE Account(s)'
  BY <1>0, <1>6, AccountKept DEF Lookup, TypeOK
<1>7. ASSUME NEW r \in Reads, CallOk(r) \/ CallErr(r) \/ CallPanic(r) PROVE Account(s)'
  BY <1>0, <1>7, AccountKept DEF CallOk, CallErr, CallPanic, TypeOK
<1>8. ASSUME NEW r \in Reads, Create(r) \/ Write(r) \/ WriteFails(r) PROVE Account(s)'
  BY <1>0, <1>8, AccountKept DEF Create, Write, WriteFails, TypeOK
<1>9. ASSUME NEW r \in Reads, FillText(r) PROVE Account(s)'
  BY <1>0, <1>9, AccountKept DEF FillText, TypeOK
<1>10. ASSUME NEW r \in Reads, Release(r) PROVE Account(s)'
  <2>1. CASE s = Owner[r]
    BY <1>0, <1>10, <2>1, ReleaseAccount
  <2>2. CASE s # Owner[r]
    BY <1>0, <1>10, <2>2, AccountKept DEF Release, Wakes, Sleepers, TypeOK
  <2>3. QED
    BY <2>1, <2>2
<1>11. ASSUME NEW t \in Sessions, Return(t) PROVE Account(s)'
  BY <1>0, <1>11, AccountKept DEF Return
<1>12. ASSUME NEW t \in Sessions, Crash(t) PROVE Account(s)'
  <2>1. CASE s = t
    BY <1>12, <2>1, AccountFresh DEF Crash, TypeOK
  <2>2. CASE s # t
    BY <1>0, <1>12, <2>2, AccountKept DEF Crash, TypeOK
  <2>3. QED
    BY <2>1, <2>2
<1>13. CASE UNCHANGED vars
  BY <1>0, <1>13, AccountKept DEF vars
<1>14. QED
  BY <1>1, <1>2, <1>3, <1>4, <1>5, <1>6, <1>7, <1>8, <1>9, <1>10, <1>11, <1>12, <1>13 DEF Next, Resolve

\* A script runs only when its workers are gone, and a slot is filled in the
\* step that finishes its read.
LEMMA SlotStep ==
  ASSUME IInv, [Next]_vars
  PROVE  Idle' /\ SlotFilled'
<1> USE ReadsAssumption DEF IInv, TypeOK, Idle, SlotFilled, Go, Enter, Move, Fill
<1>1. ASSUME NEW r \in Reads, ReadAsync(r) PROVE Idle' /\ SlotFilled'
  BY <1>1 DEF ReadAsync, CacheRead
<1>2. ASSUME NEW r \in Reads, Read(r) PROVE Idle' /\ SlotFilled'
  BY <1>2 DEF Read
<1>3. ASSUME NEW r \in Reads, Await(r) PROVE Idle' /\ SlotFilled'
  BY <1>3 DEF Await, Batch
<1>4. ASSUME NEW r \in Reads, SpuriousWake(r) \/ Acquire(r) PROVE Idle' /\ SlotFilled'
  BY <1>4 DEF SpuriousWake, Acquire
<1>5. ASSUME NEW r \in Reads, Lookup(r) PROVE Idle' /\ SlotFilled'
  BY <1>5 DEF Lookup, CacheRead
<1>6. ASSUME NEW r \in Reads, CallOk(r) \/ CallErr(r) \/ CallPanic(r) PROVE Idle' /\ SlotFilled'
  BY <1>6 DEF CallOk, CallErr, CallPanic
<1>7. ASSUME NEW r \in Reads, Create(r) \/ Write(r) \/ WriteFails(r) PROVE Idle' /\ SlotFilled'
  BY <1>7 DEF Create, Write, WriteFails
<1>8. ASSUME NEW r \in Reads, FillText(r) PROVE Idle' /\ SlotFilled'
  BY <1>8 DEF FillText
<1>9. ASSUME NEW r \in Reads, Release(r) PROVE Idle' /\ SlotFilled'
  BY <1>9 DEF Release, Wakes, Sleepers
<1>10. ASSUME NEW s \in Sessions, Return(s) PROVE Idle' /\ SlotFilled'
  BY <1>10 DEF Return, Joined
<1>11. ASSUME NEW s \in Sessions, Crash(s) PROVE Idle' /\ SlotFilled'
  BY <1>11 DEF Crash
<1>12. CASE UNCHANGED vars
  BY <1>12 DEF vars
<1>13. QED
  BY <1>1, <1>2, <1>3, <1>4, <1>5, <1>6, <1>7, <1>8, <1>9, <1>10, <1>11, <1>12 DEF Next, Resolve

\* Stages that differ only outside the cache share no more keys.
LEMMA SharedMonotone ==
  ASSUME NEW st1, NEW st2, \A r \in Reads : st1[r] \in InCache => st2[r] \in InCache
  PROVE  Shared(st1) \subseteq Shared(st2)
BY DEF Shared

\* A key that two threads resolve is recorded in the step that brings the
\* second one in.
LEMMA SharedStep ==
  ASSUME IInv, [Next]_vars
  PROVE  SharedKeysSpoiled'
<1> USE DEF IInv, TypeOK, SharedKeysSpoiled
<1>1. ASSUME NEW st, Move(st) PROVE SharedKeysSpoiled'
  BY <1>1 DEF Move, Shared
<1>2. ASSUME spoiled \subseteq spoiled', \A r \in Reads : stage'[r] \in InCache => stage[r] \in InCache
      PROVE  SharedKeysSpoiled'
  BY <1>2 DEF Shared
<1>3. ASSUME NEW r \in Reads, ReadAsync(r) PROVE SharedKeysSpoiled'
  BY <1>2, <1>3 DEF ReadAsync, Enter
<1>4. ASSUME NEW r \in Reads, Read(r) \/ Await(r) \/ SpuriousWake(r) \/ Acquire(r) \/ Release(r)
      PROVE  SharedKeysSpoiled'
  BY <1>1, <1>4 DEF Read, Await, SpuriousWake, Acquire, Release, Go
<1>5. ASSUME NEW r \in Reads, Lookup(r) \/ CallOk(r) \/ CallErr(r) \/ CallPanic(r)
      PROVE  SharedKeysSpoiled'
  BY <1>1, <1>5 DEF Lookup, CallOk, CallErr, CallPanic, Go
<1>6. ASSUME NEW r \in Reads, Create(r) \/ Write(r) \/ FillText(r) PROVE SharedKeysSpoiled'
  BY <1>1, <1>6 DEF Create, Write, FillText, Go
<1>7. ASSUME NEW r \in Reads, WriteFails(r) PROVE SharedKeysSpoiled'
  BY <1>2, <1>7 DEF WriteFails
<1>8. ASSUME NEW s \in Sessions, Return(s) \/ Crash(s) PROVE SharedKeysSpoiled'
  BY <1>2, <1>8 DEF Return, Crash
<1>9. CASE UNCHANGED vars
  BY <1>2, <1>9 DEF vars
<1>10. QED
  BY <1>3, <1>4, <1>5, <1>6, <1>7, <1>8, <1>9 DEF Next, Resolve

\* A cut file keeps its writer, or is recorded when it loses it.
LEMMA CutFileStep ==
  ASSUME IInv, [Next]_vars
  PROVE  CutFileExplained'
<1> USE ReadsAssumption DEF IInv, TypeOK, CutFileExplained, Writing
<1>1. ASSUME cache' = cache, spoiled \subseteq spoiled',
             \A r \in Reads : Writing(r) => Writing(r)' \/ KeyOf[r] \in spoiled'
      PROVE  CutFileExplained'
  BY <1>1
<1>2. ASSUME NEW r \in Reads,
             ReadAsync(r) \/ Read(r) \/ Await(r) \/ SpuriousWake(r) \/ Acquire(r) \/ Release(r)
      PROVE  CutFileExplained'
  <2>1. cache' = cache /\ spoiled \subseteq spoiled'
    BY <1>2 DEF ReadAsync, Read, Await, SpuriousWake, Acquire, Release, Go, Enter, Move
  <2>2. CASE ReadAsync(r) \/ Read(r) \/ SpuriousWake(r) \/ Acquire(r)
    BY <1>1, <2>1, <2>2 DEF ReadAsync, Read, SpuriousWake, Acquire, Go, Enter, Move
  <2>3. CASE Await(r)
    <3>1. \A q \in Reads : Writing(q) => Writing(q)'
      BY <2>3 DEF Await, Batch, Move
    <3>2. QED
      BY <1>1, <2>1, <3>1
  <2>4. CASE Release(r)
    <3>1. \A q \in Reads : Writing(q) => Writing(q)'
      BY <2>4 DEF Release, Wakes, Sleepers, Move
    <3>2. QED
      BY <1>1, <2>1, <3>1
  <2>5. QED
    BY <1>2, <2>2, <2>3, <2>4
<1>3. ASSUME NEW r \in Reads, Lookup(r) \/ CallOk(r) \/ CallErr(r) \/ CallPanic(r) \/ FillText(r)
      PROVE  CutFileExplained'
  BY <1>1, <1>3 DEF Lookup, CallOk, CallErr, CallPanic, FillText, Go, Move
<1>4. ASSUME NEW r \in Reads, Create(r) PROVE CutFileExplained'
  BY <1>4 DEF Create, SetCache, Go, Move
<1>5. ASSUME NEW r \in Reads, Write(r) PROVE CutFileExplained'
  BY <1>5 DEF Write, WriteAll, SetCache, Go, Move
<1>6. ASSUME NEW r \in Reads, WriteFails(r) PROVE CutFileExplained'
  BY <1>1, <1>6 DEF WriteFails
<1>7. ASSUME NEW s \in Sessions, Return(s) \/ Crash(s) PROVE CutFileExplained'
  BY <1>1, <1>7 DEF Return, Crash
<1>8. CASE UNCHANGED vars
  BY <1>1, <1>8 DEF vars
<1>9. QED
  BY <1>2, <1>3, <1>4, <1>5, <1>6, <1>7, <1>8 DEF Next, Resolve

\* A read that gets a cut text gets it of a recorded key: the writer the file
\* still has is another thread in the cache under the same key.
LEMMA CutReadSpoiled ==
  ASSUME IInv, NEW r \in Reads, "torn" \in CacheRead(KeyOf[r]), ~Writing(r),
         NEW st, st[r] \in InCache, \A q \in Reads : q # r => st[q] = stage[q]
  PROVE  KeyOf[r] \in spoiled \cup Shared(st)
<1>1. KeyOf[r] \in Keys /\ cache[KeyOf[r]] = "torn"
  BY ReadsAssumption DEF CacheRead
<1>2. CASE KeyOf[r] \in spoiled
  BY <1>2
<1>3. CASE \E q \in Reads : KeyOf[q] = KeyOf[r] /\ Writing(q)
  BY <1>1, <1>3 DEF Shared, Writing
<1>4. QED
  BY <1>1, <1>2, <1>3 DEF IInv, CutFileExplained

LEMMA TornStep ==
  ASSUME IInv, [Next]_vars
  PROVE  TornOnlyIfSpoiled'
<1> USE ReadsAssumption DEF IInv, TypeOK, TornOnlyIfSpoiled, Fill
<1>1. ASSUME spoiled \subseteq spoiled', \A r \in Reads : slot'[r] = "torn" => slot[r] = "torn"
      PROVE  TornOnlyIfSpoiled'
  BY <1>1
<1>2. ASSUME NEW r \in Reads, ReadAsync(r) PROVE TornOnlyIfSpoiled'
  <2> DEFINE st == [stage EXCEPT ![r] = "lookup"]
  <2>1. spoiled' = spoiled \cup Shared(st)
    BY <1>2 DEF ReadAsync, Enter
  <2>2. "torn" \in CacheRead(KeyOf[r]) => KeyOf[r] \in spoiled'
    <3>1. st[r] \in InCache /\ ~Writing(r) /\ \A q \in Reads : q # r => st[q] = stage[q]
      BY <1>2 DEF ReadAsync, Writing
    <3> HIDE DEF st
    <3>2. QED
      BY <2>1, <3>1, CutReadSpoiled
  <2>3. QED
    BY <1>2, <2>1, <2>2 DEF ReadAsync
<1>3. ASSUME NEW r \in Reads, Read(r) \/ Await(r) \/ SpuriousWake(r) \/ Acquire(r) \/ Release(r)
      PROVE  TornOnlyIfSpoiled'
  BY <1>1, <1>3 DEF Read, Await, SpuriousWake, Acquire, Release, Go, Move
<1>4. ASSUME NEW r \in Reads, Lookup(r) PROVE TornOnlyIfSpoiled'
  <2>1. spoiled \subseteq spoiled'
    BY <1>4 DEF Lookup, Go, Move
  <2>2. "torn" \in CacheRead(KeyOf[r]) => KeyOf[r] \in spoiled
    BY <1>4, CutReadSpoiled DEF Lookup, Writing, SharedKeysSpoiled
  <2>3. QED
    BY <1>4, <2>1, <2>2 DEF Lookup
<1>5. ASSUME NEW r \in Reads, CallOk(r) \/ CallErr(r) \/ CallPanic(r) \/ FillText(r)
      PROVE  TornOnlyIfSpoiled'
  BY <1>1, <1>5 DEF CallOk, CallErr, CallPanic, FillText, Go, Move
<1>6. ASSUME NEW r \in Reads, Create(r) \/ Write(r) \/ WriteFails(r) PROVE TornOnlyIfSpoiled'
  BY <1>1, <1>6 DEF Create, Write, WriteFails, Go, Move
<1>7. ASSUME NEW s \in Sessions, Return(s) \/ Crash(s) PROVE TornOnlyIfSpoiled'
  BY <1>1, <1>7 DEF Return, Crash
<1>8. CASE UNCHANGED vars
  BY <1>1, <1>8 DEF vars
<1>9. QED
  BY <1>2, <1>3, <1>4, <1>5, <1>6, <1>7, <1>8 DEF Next, Resolve

THEOREM InvariantHolds == Spec => []IInv
<1>1. IInv /\ [Next]_vars => IInv'
  BY TypeStep, PermitsStep, SlotStep, SharedStep, CutFileStep, TornStep DEF IInv
<1>2. QED
  BY InitInv, <1>1, PTL DEF Spec

---------------------------------------------------------------------------
\* The state keeps its types; permits stay between 0 and the maximum.
THEOREM TypeCorrect == Spec => []TypeOK
<1>1. IInv => TypeOK
  BY DEF IInv
<1>2. QED
  BY InvariantHolds, <1>1, PTL

\* No panic, failure, wake-up or restart loses or invents a permit, so the
\* vision callback runs in at most MAX_CONCURRENT_READS threads of an await.
THEOREM PermitsAccountedAlways == Spec => []PermitsAccounted
<1>1. IInv => PermitsAccounted
  BY DEF IInv
<1>2. QED
  BY InvariantHolds, <1>1, PTL

\* await returns only once every read of its batch has a result or panicked.
THEOREM BatchResolvedAlways == Spec => []BatchResolved
<1>1. IInv => BatchResolved
  BY DEF IInv, TypeOK, Idle, SlotFilled, BatchResolved
<1>2. QED
  BY InvariantHolds, <1>1, PTL

\* However many sandboxes share the cache directory, a cut text comes only of
\* an interrupted write or of two threads resolving one key.
THEOREM TornOnlyIfSpoiledAlways == Spec => []TornOnlyIfSpoiled
<1>1. IInv => TornOnlyIfSpoiled
  BY DEF IInv
<1>2. QED
  BY InvariantHolds, <1>1, PTL

\* The result of a read never changes once it is there.
THEOREM ResolvedOnceAlways == Spec => ResolvedOnce
<1> DEFINE Keeps == \A r \in Reads : slot[r] # "empty" /\ stage'[r] # "unused" => slot'[r] = slot[r]
<1>1. IInv /\ [Next]_vars => [Keeps]_vars
  <2> SUFFICES ASSUME IInv, Next, NEW r \in Reads, slot[r] # "empty", stage'[r] # "unused"
               PROVE  slot'[r] = slot[r]
    BY DEF vars
  <2>1. stage[r] \in {"release", "done"}
    BY DEF IInv, SlotFilled
  <2>2. ASSUME NEW q \in Reads, ReadAsync(q) \/ Read(q) \/ Await(q) \/ SpuriousWake(q)
        PROVE  slot'[r] = slot[r]
    BY <2>1, <2>2 DEF ReadAsync, Read, Await, SpuriousWake, Fill, IInv, TypeOK
  <2>3. ASSUME NEW q \in Reads, Resolve(q) PROVE slot'[r] = slot[r]
    BY <2>1, <2>3 DEF Resolve, Acquire, Lookup, CallOk, CallErr, CallPanic, Create, Write, WriteFails,
       FillText, Release, Fill, IInv, TypeOK
  <2>4. ASSUME NEW s \in Sessions, Return(s) \/ Crash(s) PROVE slot'[r] = slot[r]
    BY <2>4 DEF Return, Crash, IInv, TypeOK
  <2>5. QED
    BY <2>2, <2>3, <2>4 DEF Next
<1>2. QED
  BY InvariantHolds, <1>1, PTL DEF Spec, ResolvedOnce

---------------------------------------------------------------------------
(* Refinement: every step is a step of AsyncReads or none of its.           *)

USE DEF Promise!Answers, Promise!ReadsOf, Promise!Becomes

LEMMA InitRefines == Init => Promise!Init
  BY DEF Init, Promise!Init, Outcome

\* What happens to a read between its start and its end a script cannot tell.
Working == Resolving \ {"unwind"}

LEMMA Hidden ==
  ASSUME script' = script, slot' = slot,
         \A q \in Reads : stage'[q] = stage[q] \/ (stage[q] \in Working /\ stage'[q] \in Working)
  PROVE  UNCHANGED Promise!vars
<1>1. \A q \in Reads : Outcome(q)' = Outcome(q)
  BY DEF Outcome, Working
<1>2. QED
  BY <1>1 DEF Promise!vars

LEMMA OnlyBecomes ==
  ASSUME NEW r \in Reads, NEW to, Outcome(r)' = to, \A q \in Reads \ {r} : Outcome(q)' = Outcome(q)
  PROVE  Promise!Becomes(r, to)
  OBVIOUS

LEMMA AskRefines ==
  ASSUME IInv, NEW r \in Reads, ReadAsync(r)
  PROVE  Promise!Ask(r)
<1> USE ReadsAssumption DEF IInv, TypeOK
<1>1. /\ stage'[r] \in {"done", "pending"} /\ \A q \in Reads \ {r} : stage'[q] = stage[q] /\ slot'[q] = slot[q]
      /\ stage'[r] = "done" => slot'[r] \in {"text", "torn", "error"}
      /\ stage'[r] = "pending" => slot'[r] = "empty"
      /\ slot[r] = "empty"
  BY DEF ReadAsync, CacheRead, Enter, Fill, SlotFilled
<1>2. Outcome(r)' \in {"text", "torn", "error", "queued"} /\ \A q \in Reads \ {r} : Outcome(q)' = Outcome(q)
  BY <1>1 DEF Outcome
<1>3. Outcome(r) = "unasked" /\ script[Owner[r]] # "join" /\ script' = script
  BY <1>1 DEF ReadAsync, Outcome
<1>4. PICK to \in {"text", "torn", "error", "queued"} : Promise!Becomes(r, to)
  BY <1>2, OnlyBecomes
<1>5. QED
  BY <1>3, <1>4, ReadsAssumption DEF Promise!Ask

LEMMA WaitRefines ==
  ASSUME IInv, NEW r \in Reads, Await(r)
  PROVE  Promise!Wait(Owner[r])
<1> USE ReadsAssumption DEF IInv, TypeOK
<1> DEFINE s == Owner[r]
<1>1. \A q \in Reads : slot'[q] = slot[q] /\ stage'[q] = IF q \in Batch(s) THEN "acquire" ELSE stage[q]
  BY DEF Await, Move
<1>2. \A q \in Reads : q \in Batch(s) <=> Owner[q] = s /\ Outcome(q) = "queued"
  BY DEF Batch, Outcome, SlotFilled
<1>3. \A q \in Reads : Outcome(q)' = IF Owner[q] = s /\ Outcome(q) = "queued" THEN "awaited" ELSE Outcome(q)
  BY <1>1, <1>2 DEF Outcome, Batch, SlotFilled
<1>4. /\ s \in Sessions /\ script[s] = "run"
      /\ \A t \in Sessions : script'[t] = IF t = s THEN "join" ELSE script[t]
  BY DEF Await
<1>5. \E q \in Reads : Owner[q] = s /\ Outcome(q) = "queued"
  BY <1>2 DEF Await, Batch
<1>6. QED
  BY <1>3, <1>4, <1>5 DEF Promise!Wait

LEMMA AskAndWaitRefines ==
  ASSUME IInv, NEW r \in Reads, Read(r)
  PROVE  Promise!AskAndWait(r)
<1> USE ReadsAssumption DEF IInv, TypeOK
<1>1. /\ stage'[r] = "d_lookup" /\ slot'[r] = "empty" /\ slot[r] = "empty"
      /\ \A q \in Reads \ {r} : stage'[q] = stage[q] /\ slot'[q] = slot[q]
  BY DEF Read, Go, Move, SlotFilled
<1>2. Outcome(r)' = "awaited" /\ Outcome(r) = "unasked" /\ \A q \in Reads \ {r} : Outcome(q)' = Outcome(q)
  BY <1>1 DEF Outcome, Read
<1>3. /\ Owner[r] \in Sessions /\ script[Owner[r]] = "run"
      /\ \A t \in Sessions : script'[t] = IF t = Owner[r] THEN "join" ELSE script[t]
  BY DEF Read
<1>4. Promise!Becomes(r, "awaited")
  BY <1>2, OnlyBecomes
<1>5. QED
  BY <1>2, <1>3, <1>4 DEF Promise!AskAndWait

\* The steps that fill the slot of a read, and the panic that never will
LEMMA AnswerRefines ==
  ASSUME IInv, NEW r \in Reads, slot[r] = "empty", stage[r] \in Working,
         script' = script,
         \A q \in Reads \ {r} : stage'[q] = stage[q] /\ slot'[q] = slot[q],
         slot'[r] \in {"text", "torn", "error"} \/ (slot'[r] = "empty" /\ stage'[r] = "unwind")
  PROVE  Promise!Answer(r)
<1>1. Outcome(r) = "awaited"
  BY DEF Outcome, Working
<1>2. Outcome(r)' \in {"text", "torn", "error", "lost"} /\ \A q \in Reads \ {r} : Outcome(q)' = Outcome(q)
  BY DEF Outcome
<1>3. QED
  BY <1>1, <1>2 DEF Promise!Answer

LEMMA ResolveRefines ==
  ASSUME IInv, NEW r \in Reads, Resolve(r)
  PROVE  Promise!Answer(r) \/ UNCHANGED Promise!vars
<1> USE ReadsAssumption DEF IInv, TypeOK, Go, Move, Enter, Fill
<1>1. CASE Acquire(r)
  BY <1>1, Hidden DEF Acquire, Working
<1>2. CASE Lookup(r)
  <2>1. slot[r] = "empty"
    BY <1>2 DEF Lookup, SlotFilled
  <2>2. CASE slot' = slot
    BY <1>2, <2>2, Hidden DEF Lookup, CacheRead, SlotFilled, Working
  <2>3. CASE slot' # slot
    BY <1>2, <2>1, <2>3, AnswerRefines DEF Lookup, CacheRead, Working
  <2>4. QED
    BY <2>2, <2>3
<1>3. CASE CallOk(r) \/ Create(r) \/ Write(r) \/ WriteFails(r)
  BY <1>3, Hidden DEF CallOk, Create, Write, WriteFails, Working
<1>4. CASE CallErr(r) \/ CallPanic(r) \/ FillText(r)
  BY <1>4, AnswerRefines DEF CallErr, CallPanic, FillText, SlotFilled, Working
<1>5. CASE Release(r)
  <2>1. /\ script' = script /\ slot' = slot
        /\ \A q \in Reads \ {r} : stage'[q] = stage[q] \/ (stage[q] = "waiting" /\ stage'[q] = "acquire")
    BY <1>5 DEF Release, Wakes, Sleepers
  <2>2. \/ stage[r] = "release" /\ stage'[r] = "done" /\ slot[r] # "empty"
        \/ stage[r] = "unwind" /\ stage'[r] = "panicked" /\ slot[r] = "empty"
    BY <1>5 DEF Release, SlotFilled
  <2>3. \A q \in Reads : Outcome(q)' = Outcome(q)
    BY <2>1, <2>2 DEF Outcome
  <2>4. QED
    BY <2>1, <2>3 DEF Promise!vars
<1>6. QED
  BY <1>1, <1>2, <1>3, <1>4, <1>5 DEF Resolve

LEMMA GoOnRefines ==
  ASSUME IInv, NEW s \in Sessions, Return(s)
  PROVE  Promise!GoOn(s)
<1> USE ReadsAssumption DEF IInv, TypeOK
<1>1. \A q \in Reads : Outcome(q)' = Outcome(q)
  BY DEF Return, Outcome
<1>2. \A q \in Reads : Owner[q] = s => Outcome(q) # "awaited"
  BY DEF Return, Joined, Outcome, SlotFilled
<1>3. script[s] = "join" /\ \A t \in Sessions : script'[t] = IF t = s THEN "run" ELSE script[t]
  BY DEF Return
<1>4. QED
  BY <1>1, <1>2, <1>3 DEF Promise!GoOn

LEMMA RestartRefines ==
  ASSUME IInv, NEW s \in Sessions, Crash(s)
  PROVE  Promise!Restart(s)
<1> USE ReadsAssumption DEF IInv, TypeOK
<1>1. \A q \in Reads : Outcome(q)' = IF Owner[q] = s THEN "unasked" ELSE Outcome(q)
  BY DEF Crash, Outcome
<1>2. \A t \in Sessions : script'[t] = IF t = s THEN "run" ELSE script[t]
  BY DEF Crash
<1>3. QED
  BY <1>1, <1>2 DEF Promise!Restart

\* DocFutures implements AsyncReads: whatever the threads, the semaphore and the
\* cache do, a script sees its reads asked, awaited and answered once.
THEOREM KeepsPromiseAlways == Spec => KeepsPromise
<1>1. IInv /\ [Next]_vars => [Promise!Next]_(Promise!vars)
  <2> SUFFICES ASSUME IInv, [Next]_vars PROVE Promise!Next \/ UNCHANGED Promise!vars
    OBVIOUS
  <2>1. ASSUME NEW r \in Reads, ReadAsync(r) \/ Read(r) \/ Await(r) PROVE Promise!Next
    BY <2>1, AskRefines, AskAndWaitRefines, WaitRefines, ReadsAssumption DEF Promise!Next
  <2>2. ASSUME NEW r \in Reads, SpuriousWake(r) PROVE UNCHANGED Promise!vars
    BY <2>2, Hidden DEF SpuriousWake, Go, Move, IInv, TypeOK, Working
  <2>3. ASSUME NEW r \in Reads, Resolve(r) PROVE Promise!Next \/ UNCHANGED Promise!vars
    BY <2>3, ResolveRefines DEF Promise!Next
  <2>4. ASSUME NEW s \in Sessions, Return(s) \/ Crash(s) PROVE Promise!Next
    BY <2>4, GoOnRefines, RestartRefines DEF Promise!Next
  <2>5. CASE UNCHANGED vars
    BY <2>5 DEF vars, Promise!vars, Outcome
  <2>6. QED
    BY <2>1, <2>2, <2>3, <2>4, <2>5 DEF Next
<1>2. QED
  BY InitRefines, InvariantHolds, <1>1, PTL DEF Spec, KeepsPromise, Promise!Spec
=============================================================================
