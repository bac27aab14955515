-------------------------- MODULE FfiSessionProofs --------------------------
(***************************************************************************)
(* What FfiSession promises for any number of threads, workers, sessions   *)
(* and any callback groups passed.  The inductive invariant follows the    *)
(* order of validation: while a constructor runs, each group before the    *)
(* current one is settled (owned by a bridge or released, never both), and *)
(* none after it is.  And what Calendar promises: its calls run on host    *)
(* threads such as these, and the second half of the module is about them. *)
(***************************************************************************)
EXTENDS FfiSession, Calendar, SequenceTheorems, FiniteSetTheorems, WellFoundedInduction, TLAPS

\* The groups settled when a session is in phase p.
Settled(p) ==
    IF p \in {"unused", "file"} THEN {}
    ELSE IF p = "browser" THEN {"file"}
    ELSE IF p = "calendar" THEN {"file", "browser"}
    ELSE IF p = "location" THEN {"file", "browser", "calendar"}
    ELSE IF p = "vision" THEN {"file", "browser", "calendar", "location"}
    ELSE Families

\* A context is owned by one bridge or was released, and only if it was passed.
Owned ==
    \A s \in Sessions :
        /\ twice[s] = {}
        /\ bridges[s] \cap released[s] = {}
        /\ bridges[s] \cup released[s] \subseteq Passed(s) \cap Settled(phase[s])
        /\ phase[s] = "dead" => bridges[s] = {}

\* Without a missing handler, every settled context is owned or released.
NoneForgotten ==
    \A s \in Sessions :
        (\A f \in Families : given[s][f] # "broken") =>
            Passed(s) \cap Settled(phase[s]) \subseteq bridges[s] \cup released[s]

\* One thread at a time is inside a call about a session.
OneThreadPerSession ==
    /\ \A t, u \in Threads : InFlight(t) /\ task[t] = task[u] => t = u
    /\ \A t \in Threads : InFlight(t) => phase[task[t]] \notin {"unused", "dead"}

\* A caller works for a live session some thread evaluates in.
CallersAccounted ==
    \A c \in Callers :
        /\ where[c] = "outside" <=> onBehalf[c] = Idle
        /\ where[c] # "outside" =>
              /\ \E t \in Threads : task[t] = onBehalf[c]
              /\ phase[onBehalf[c]] = "live"
              /\ target[c] \in bridges[onBehalf[c]]
        /\ where[c] = "inside" => holder[onBehalf[c]][target[c]] = c

\* While a lone failure is owed, nobody is in a call that could replace it.
FailureUndisturbed ==
    owed # NoError /\ alone =>
        /\ lastError = owed
        /\ \A u \in Threads : InFlight(u) => u = owed /\ phase[task[u]] = "unwind"

IInv == /\ TypeOK /\ Owned /\ NoneForgotten /\ OneThreadPerSession
        /\ CallersAccounted /\ FailureUndisturbed

USE DEF Families, Optional, Phases, Offer, ownership, calling, errors

-----------------------------------------------------------------------------

LEMMA InitInv == Init => IInv
<1> SUFFICES ASSUME Init PROVE IInv
  OBVIOUS
<1>1. TypeOK
  BY DEF Init, TypeOK
<1>2. Owned /\ NoneForgotten
  BY DEF Init, Owned, NoneForgotten, Settled, Passed
<1>3. OneThreadPerSession /\ CallersAccounted /\ FailureUndisturbed
  BY NamesAssumption DEF Init, OneThreadPerSession, CallersAccounted, FailureUndisturbed, InFlight
<1> QED BY <1>1, <1>2, <1>3 DEF IInv

\* The order of validation: what a failed group releases by hand is not settled.
LEMMA ByHandUnsettled ==
  ASSUME NEW f \in Families
  PROVE  /\ FreedByHand(f) \subseteq Families
         /\ FreedByHand(f) \cap Settled(f) = {}
         /\ f \notin Settled(f)
         /\ Settled(After[f]) = Settled(f) \cup {f}
         /\ f \in {"file", "browser"} => FreedByHand(f) = {"calendar", "location", "vision"}
BY DEF FreedByHand, Settled, After

LEMMA BeginNewInv ==
  ASSUME IInv, NEW t \in Threads, NEW s \in Sessions, BeginNew(t, s)
  PROVE  IInv'
<1> USE DEF IInv
<1>0. PICK offer \in Offers : given' = [given EXCEPT ![s] = offer]
  BY DEF BeginNew
<1>1. TypeOK'
  BY <1>0, OffersAssumption DEF TypeOK, BeginNew, CallBegins
<1>2. bridges[s] = {} /\ released[s] = {}
  BY DEF Owned, BeginNew, Settled
<1>3. Owned' /\ NoneForgotten'
  BY <1>2 DEF TypeOK, BeginNew, Owned, NoneForgotten, Passed, Settled
<1>4. OneThreadPerSession'
  BY DEF TypeOK, BeginNew, OneThreadPerSession, InFlight
<1>5. CallersAccounted'
  BY NamesAssumption DEF TypeOK, BeginNew, CallersAccounted
<1>6. FailureUndisturbed'
  BY DEF BeginNew, FailureUndisturbed, CallBegins
<1> QED BY <1>1, <1>3, <1>4, <1>5, <1>6

LEMMA ValidateInv ==
  ASSUME IInv, NEW t \in Threads, NEW f \in Families, Validate(t, f)
  PROVE  IInv'
<1> USE DEF IInv
<1> DEFINE s == task[t]
<1>0. s \in Sessions /\ phase[s] = f /\ s # Idle
  BY DEF Validate, TypeOK, InFlight
<1>a. After[f] \in Phases \ {"unused", "dead", "unwind", "live"}
  BY DEF After
<1>1. TypeOK'
  BY <1>0, <1>a DEF TypeOK, Validate
<1>2. Owned'
  BY <1>0, <1>a, ByHandUnsettled DEF TypeOK, Validate, Owned, Passed
<1>3. NoneForgotten'
  BY <1>0, <1>a, ByHandUnsettled DEF TypeOK, Validate, NoneForgotten, Passed
<1>4. OneThreadPerSession'
  BY <1>0, <1>a DEF TypeOK, Validate, OneThreadPerSession, InFlight
<1>5. CallersAccounted'
  BY <1>0, <1>a DEF TypeOK, Validate, CallersAccounted
<1>6. FailureUndisturbed'
  BY <1>0 DEF TypeOK, Validate, FailureUndisturbed, InFlight
<1> QED BY <1>1, <1>2, <1>3, <1>4, <1>5, <1>6

LEMMA IgnoreInv ==
  ASSUME IInv, NEW t \in Threads, NEW f \in Families, Ignore(t, f)
  PROVE  IInv'
<1> USE DEF IInv
<1> DEFINE s == task[t]
<1>0. s \in Sessions /\ phase[s] = f /\ s # Idle
  BY DEF Ignore, TypeOK, InFlight
<1>a. After[f] \in Phases \ {"unused", "dead", "unwind", "live"}
  BY DEF After
<1>1. TypeOK'
  BY <1>0, <1>a DEF TypeOK, Ignore, Release
<1>2. Owned'
  BY <1>0, <1>a, ByHandUnsettled DEF TypeOK, Ignore, Release, Owned, Passed
<1>3. NoneForgotten'
  BY <1>0, <1>a, ByHandUnsettled DEF TypeOK, Ignore, Release, NoneForgotten, Passed
<1>4. OneThreadPerSession'
  BY <1>0, <1>a DEF TypeOK, Ignore, OneThreadPerSession, InFlight
<1>5. CallersAccounted'
  BY <1>0, <1>a DEF TypeOK, Ignore, CallersAccounted
<1>6. FailureUndisturbed'
  BY <1>0 DEF TypeOK, Ignore, FailureUndisturbed, InFlight
<1> QED BY <1>1, <1>2, <1>3, <1>4, <1>5, <1>6

LEMMA RefuseInv ==
  ASSUME IInv, NEW t \in Threads, NEW f \in Families, Refuse(t, f)
  PROVE  IInv'
<1> USE DEF IInv
<1> DEFINE s == task[t]
           F == (FreedByHand(f) \cup ({f} \cap ({"browser"} \ features))) \cap Passed(s)
<1>0. s \in Sessions /\ phase[s] = f /\ s # Idle
  BY DEF Refuse, TypeOK, InFlight
<1>r. Release(s, F) /\ phase' = [phase EXCEPT ![s] = "unwind"]
  BY DEF Refuse
<1>b. F \subseteq Families /\ F \subseteq Passed(s) /\ F \cap Settled(f) = {}
  BY ByHandUnsettled DEF Passed
<1>c. (\A g \in Families : given[s][g] # "broken") =>
         f = "browser" /\ Passed(s) \subseteq Settled(f) \cup F
  BY <1>0, ByHandUnsettled DEF Refuse, Passed, Settled
<1>1. TypeOK'
  BY <1>0, <1>b, <1>r DEF TypeOK, Refuse, Release, SetLastError
<1>2. Owned'
  <2>1. \A r \in Sessions : Passed(r)' = Passed(r)
    BY DEF Refuse, Passed
  <2>2. released[s] \cap F = {} /\ bridges[s] \cap F = {}
    BY <1>0, <1>b DEF Owned
  <2>3. Settled("unwind") = Families
    BY DEF Settled
  <2> HIDE DEF F
  <2> QED BY <1>0, <1>b, <1>r, <2>1, <2>2, <2>3 DEF TypeOK, Refuse, Release, Owned, Passed
<1>3. NoneForgotten'
  <2>1. \A r \in Sessions : Passed(r)' = Passed(r)
    BY DEF Refuse, Passed
  <2> HIDE DEF F
  <2>2. ASSUME NEW r \in Sessions, \A g \in Families : given[r][g] # "broken"
        PROVE  Passed(r) \cap Settled(phase'[r]) \subseteq bridges[r] \cup released'[r]
    BY <1>0, <1>b, <1>c, <1>r, <2>2 DEF TypeOK, Release, NoneForgotten, Passed
  <2> QED BY <2>1, <2>2 DEF Refuse, NoneForgotten
<1>4. OneThreadPerSession'
  BY <1>0 DEF TypeOK, Refuse, OneThreadPerSession, InFlight
<1>5. CallersAccounted'
  BY <1>0 DEF TypeOK, Refuse, CallersAccounted
<1>6. FailureUndisturbed'
  BY <1>0 DEF TypeOK, Refuse, FailureUndisturbed, InFlight, SetLastError
<1> QED BY <1>1, <1>2, <1>3, <1>4, <1>5, <1>6

\* Dropping the bridges of a session settles every context for good.
LEMMA DropInv ==
  ASSUME TypeOK, Owned, NoneForgotten, NEW s \in Sessions,
         Settled(phase[s]) = Families, DropBridges(s),
         given' = given, phase' = [phase EXCEPT ![s] = "dead"]
  PROVE  /\ Owned' /\ NoneForgotten'
         /\ released' \in [Sessions -> SUBSET Families]
         /\ bridges' \in [Sessions -> SUBSET Families]
         /\ twice' \in [Sessions -> SUBSET Families]
<1>1. Settled("dead") = Families
  BY DEF Settled
<1>2. bridges[s] \cap released[s] = {}
  BY DEF Owned
<1>3. Owned'
  BY <1>1, <1>2 DEF TypeOK, DropBridges, Release, Owned, Passed
<1>4. NoneForgotten'
  BY <1>1 DEF TypeOK, DropBridges, Release, NoneForgotten, Passed
<1> QED BY <1>3, <1>4 DEF TypeOK, DropBridges, Release

LEMMA UnwindInv ==
  ASSUME IInv, NEW t \in Threads, Unwind(t)
  PROVE  IInv'
<1> USE DEF IInv
<1>0. task[t] \in Sessions /\ phase[task[t]] = "unwind" /\ task[t] # Idle
  BY DEF Unwind, TypeOK, InFlight
<1>1. Settled(phase[task[t]]) = Families
  BY <1>0 DEF Settled
<1>2. /\ Owned' /\ NoneForgotten'
      /\ released' \in [Sessions -> SUBSET Families]
      /\ bridges' \in [Sessions -> SUBSET Families]
      /\ twice' \in [Sessions -> SUBSET Families]
  BY <1>0, <1>1, DropInv DEF Unwind
<1>3. TypeOK'
  BY <1>0, <1>2 DEF TypeOK, Unwind
<1>4. OneThreadPerSession'
  BY <1>0 DEF TypeOK, Unwind, OneThreadPerSession, InFlight
<1>5. CallersAccounted'
  BY <1>0 DEF TypeOK, Unwind, CallersAccounted, DropBridges
<1>6. FailureUndisturbed'
  BY <1>0 DEF TypeOK, Unwind, FailureUndisturbed, OneThreadPerSession, InFlight
<1> QED BY <1>2, <1>3, <1>4, <1>5, <1>6

LEMMA BuildInv ==
  ASSUME IInv, NEW t \in Threads, Build(t) \/ BuildFails(t)
  PROVE  IInv'
<1> USE DEF IInv
<1>0. task[t] \in Sessions /\ phase[task[t]] = "build" /\ task[t] # Idle
  BY DEF Build, BuildFails, TypeOK, InFlight
<1>1. Settled(phase[task[t]]) = Families /\ Settled("live") = Families
  BY <1>0 DEF Settled
<1>2. CASE Build(t)
  <2>1. TypeOK'
    BY <1>0, <1>2 DEF TypeOK, Build, ClearLastError
  <2>2. Owned' /\ NoneForgotten'
    BY <1>0, <1>1, <1>2 DEF TypeOK, Build, Owned, NoneForgotten, Passed
  <2>3. OneThreadPerSession'
    BY <1>0, <1>2 DEF TypeOK, Build, OneThreadPerSession, InFlight
  <2>4. CallersAccounted'
    BY <1>0, <1>2 DEF TypeOK, Build, CallersAccounted
  <2>5. FailureUndisturbed'
    BY <1>0, <1>2 DEF TypeOK, Build, FailureUndisturbed, InFlight, ClearLastError
  <2> QED BY <2>1, <2>2, <2>3, <2>4, <2>5
<1>3. CASE BuildFails(t)
  <2>1. /\ Owned' /\ NoneForgotten'
        /\ released' \in [Sessions -> SUBSET Families]
        /\ bridges' \in [Sessions -> SUBSET Families]
        /\ twice' \in [Sessions -> SUBSET Families]
    BY <1>0, <1>1, <1>3, DropInv DEF BuildFails
  <2>2. TypeOK'
    BY <1>0, <1>3, <2>1 DEF TypeOK, BuildFails, SetLastError
  <2>3. OneThreadPerSession'
    BY <1>0, <1>3 DEF TypeOK, BuildFails, OneThreadPerSession, InFlight
  <2>4. CallersAccounted'
    BY <1>0, <1>3 DEF TypeOK, BuildFails, CallersAccounted, DropBridges
  <2>5. FailureUndisturbed'
    BY <1>0, <1>3 DEF TypeOK, BuildFails, FailureUndisturbed, InFlight, SetLastError
  <2> QED BY <2>1, <2>2, <2>3, <2>4, <2>5
<1> QED BY <1>2, <1>3

LEMMA FreeSessionInv ==
  ASSUME IInv, NEW t \in Threads, NEW s \in Sessions, FreeSession(t, s)
  PROVE  IInv'
<1> USE DEF IInv
<1>1. Settled(phase[s]) = Families
  BY DEF FreeSession, Settled
<1>2. /\ Owned' /\ NoneForgotten'
      /\ released' \in [Sessions -> SUBSET Families]
      /\ bridges' \in [Sessions -> SUBSET Families]
      /\ twice' \in [Sessions -> SUBSET Families]
  BY <1>1, DropInv DEF FreeSession
<1>3. TypeOK'
  BY <1>2 DEF TypeOK, FreeSession, CallBegins
<1>4. OneThreadPerSession'
  BY DEF TypeOK, FreeSession, OneThreadPerSession, InFlight
<1>5. CallersAccounted'
  BY DEF TypeOK, FreeSession, CallersAccounted, DropBridges
<1>6. FailureUndisturbed'
  BY DEF FreeSession, FailureUndisturbed, CallBegins
<1> QED BY <1>2, <1>3, <1>4, <1>5, <1>6

-----------------------------------------------------------------------------

LEMMA BeginEvalInv ==
  ASSUME IInv, NEW t \in Threads, NEW s \in Sessions, BeginEval(t, s)
  PROVE  IInv'
<1> USE DEF IInv
<1>1. TypeOK'
  BY DEF TypeOK, BeginEval, CallBegins
<1>2. Owned' /\ NoneForgotten'
  BY DEF BeginEval, Owned, NoneForgotten, Passed
<1>3. OneThreadPerSession'
  BY DEF TypeOK, BeginEval, OneThreadPerSession, InFlight
<1>4. CallersAccounted'
  BY NamesAssumption DEF TypeOK, BeginEval, CallersAccounted
<1>5. FailureUndisturbed'
  BY DEF BeginEval, FailureUndisturbed, CallBegins
<1> QED BY <1>1, <1>2, <1>3, <1>4, <1>5

\* Queueing on a callback lock keeps the callers accounted for.
LEMMA QueueInv ==
  ASSUME IInv, NEW t \in Threads, Evaluating(t),
         NEW C \in SUBSET Callers, NEW f \in Families, Queue(C, task[t], f),
         UNCHANGED <<ownership, task, errors>>
  PROVE  IInv'
<1> USE DEF IInv
<1>0. task[t] \in Sessions /\ task[t] # Idle /\ phase[task[t]] = "live"
  BY DEF Evaluating, InFlight, TypeOK
<1>1. TypeOK'
  BY <1>0 DEF TypeOK, Queue
<1>2. Owned' /\ NoneForgotten' /\ OneThreadPerSession' /\ FailureUndisturbed'
  BY DEF Owned, NoneForgotten, Passed, OneThreadPerSession, FailureUndisturbed, InFlight
<1>3. CallersAccounted'
  BY <1>0 DEF TypeOK, Queue, CallersAccounted
<1> QED BY <1>1, <1>2, <1>3

LEMMA HandlerInv ==
  ASSUME IInv, NEW c \in Callers, EnterHandler(c) \/ LeaveHandler(c)
  PROVE  IInv'
<1> USE DEF IInv
<1>0. onBehalf[c] \in Sessions /\ target[c] \in Families
  BY DEF EnterHandler, LeaveHandler, CallersAccounted, TypeOK
<1>1. TypeOK'
  <2>1. CASE EnterHandler(c)
    BY <1>0, <2>1 DEF TypeOK, EnterHandler
  <2>2. CASE LeaveHandler(c)
    BY <1>0, <2>2 DEF TypeOK, LeaveHandler
  <2> QED BY <2>1, <2>2
<1>2. Owned' /\ NoneForgotten' /\ OneThreadPerSession' /\ FailureUndisturbed'
  BY DEF EnterHandler, LeaveHandler, Owned, NoneForgotten, Passed, OneThreadPerSession,
         FailureUndisturbed, InFlight
<1>3. CallersAccounted'
  <2>1. CASE EnterHandler(c)
    BY <1>0, <2>1, NamesAssumption DEF TypeOK, EnterHandler, CallersAccounted
  <2>2. CASE LeaveHandler(c)
    BY <1>0, <2>2 DEF TypeOK, LeaveHandler, CallersAccounted
  <2> QED BY <2>1, <2>2
<1> QED BY <1>1, <1>2, <1>3

LEMMA EvalReturnsInv ==
  ASSUME IInv, NEW t \in Threads, EndEval(t) \/ EvalFails(t)
  PROVE  IInv'
<1> USE DEF IInv
<1>0. task[t] \in Sessions /\ task[t] # Idle /\ phase[task[t]] = "live"
  BY DEF EndEval, EvalFails, Evaluating, InFlight, TypeOK
<1>1. TypeOK'
  <2>1. CASE EndEval(t)
    BY <1>0, <2>1 DEF TypeOK, EndEval, ClearLastError
  <2>2. CASE EvalFails(t)
    BY <1>0, <2>2 DEF TypeOK, EvalFails, SetLastError
  <2> QED BY <2>1, <2>2
<1>2. Owned' /\ NoneForgotten'
  BY DEF EndEval, EvalFails, Owned, NoneForgotten, Passed
<1>3. OneThreadPerSession'
  BY <1>0 DEF TypeOK, EndEval, EvalFails, OneThreadPerSession, InFlight
<1>4. \A c \in Callers : onBehalf[c] # task[t]
  BY DEF EndEval, EvalFails, CallersOf
<1>5. CallersAccounted'
  BY <1>0, <1>4 DEF TypeOK, EndEval, EvalFails, CallersAccounted
<1>6. FailureUndisturbed'
  <2>1. CASE EndEval(t)
    BY <1>0, <2>1 DEF TypeOK, EndEval, FailureUndisturbed, InFlight, ClearLastError
  <2>2. CASE EvalFails(t)
    BY <1>0, <2>2 DEF TypeOK, EvalFails, FailureUndisturbed, InFlight, SetLastError
  <2> QED BY <2>1, <2>2
<1> QED BY <1>1, <1>2, <1>3, <1>5, <1>6

LEMMA QuickCallInv ==
  ASSUME IInv, NEW t \in Threads, QuickCall(t)
  PROVE  IInv'
BY DEF IInv, QuickCall, CallBegins, TypeOK, Owned, NoneForgotten, Passed, OneThreadPerSession,
       CallersAccounted, FailureUndisturbed, InFlight

LEMMA NextInv == IInv /\ [Next]_vars => IInv'
<1> SUFFICES ASSUME IInv, [Next]_vars PROVE IInv'
  OBVIOUS
<1>1. ASSUME NEW t \in Threads, NEW s \in Sessions,
             BeginNew(t, s) \/ BeginEval(t, s) \/ FreeSession(t, s)
      PROVE  IInv'
  BY <1>1, BeginNewInv, BeginEvalInv, FreeSessionInv
<1>2. ASSUME NEW t \in Threads, NEW f \in Families, ScriptCalls(t, f)
      PROVE  IInv'
  <2>1. {t} \in SUBSET Callers
    BY DEF Callers
  <2> QED BY <1>2, <2>1, QueueInv DEF ScriptCalls
<1>3. ASSUME NEW t \in Threads, NEW f \in Families,
             Validate(t, f) \/ Ignore(t, f) \/ Refuse(t, f)
      PROVE  IInv'
  BY <1>3, ValidateInv, IgnoreInv, RefuseInv
<1>4. ASSUME NEW t \in Threads, ScriptReadsDocuments(t)
      PROVE  IInv'
  <2>1. PICK C \in SUBSET Callers : Queue(C, task[t], "vision")
    BY <1>4 DEF ScriptReadsDocuments, Callers
  <2> QED BY <1>4, <2>1, QueueInv DEF ScriptReadsDocuments
<1>5. ASSUME NEW t \in Threads,
             \/ Unwind(t) \/ Build(t) \/ BuildFails(t)
             \/ EndEval(t) \/ EvalFails(t) \/ QuickCall(t)
      PROVE  IInv'
  BY <1>5, UnwindInv, BuildInv, EvalReturnsInv, QuickCallInv
<1>6. CASE UNCHANGED vars
  BY <1>6 DEF vars, IInv, TypeOK, Owned, NoneForgotten, Passed, OneThreadPerSession,
     CallersAccounted, FailureUndisturbed, InFlight
<1> QED BY <1>1, <1>2, <1>3, <1>4, <1>5, <1>6, HandlerInv DEF Next

\* The inductive invariant holds in every reachable state of the C ABI.
THEOREM InvariantHolds == Spec => []IInv
BY InitInv, NextInv, PTL DEF Spec

\* Every variable keeps its type, for any threads, workers, sessions and offers.
THEOREM TypeCorrect == Spec => []TypeOK
BY InvariantHolds, PTL DEF IInv

\* No path through the constructors and cpsl_session_free releases a context
\* twice, or one that was not passed.
THEOREM FreedAtMostOnceAlways == Spec => []FreedAtMostOnce
<1>1. IInv => FreedAtMostOnce
  BY DEF IInv, Owned, FreedAtMostOnce
<1> QED BY <1>1, InvariantHolds, PTL

\* When a session is gone and no handler was missing, every context passed to
\* it was released.
THEOREM EverythingHandedBackAlways == Spec => []EverythingHandedBack
<1>1. Settled("dead") = Families
  BY DEF Settled
<1>2. IInv => EverythingHandedBack
  BY <1>1 DEF IInv, Owned, NoneForgotten, EverythingHandedBack, Passed
<1> QED BY <1>2, InvariantHolds, PTL

\* A host handler runs only while a bridge owns its context.
THEOREM NoCallAfterFreeAlways == Spec => []NoCallAfterFree
<1>1. IInv => NoCallAfterFree
  BY DEF IInv, Owned, CallersAccounted, NoCallAfterFree, TypeOK
<1> QED BY <1>1, InvariantHolds, PTL

\* The callback lock keeps the calls of one handler apart.
THEOREM HandlersSerializedAlways == Spec => []HandlersSerialized
<1>1. IInv => HandlersSerialized
  BY DEF IInv, CallersAccounted, HandlersSerialized
<1> QED BY <1>1, InvariantHolds, PTL

\* An error that no overlapping call can replace is there until a call begins.
THEOREM ErrorShownAlways == Spec => []ErrorShownWithoutOverlap
<1>1. IInv => ErrorShownWithoutOverlap
  BY DEF IInv, FailureUndisturbed, ErrorShownWithoutOverlap
<1> QED BY <1>1, InvariantHolds, PTL

---------------------------------------------------------------------------
(* Calendar.  The inductive invariant follows each call through its stages: *)
(* which command it waits for, and, if nothing else changes its event, how  *)
(* the files of the event differ from those that its notes list.            *)

Attachment == [scope : Events \cup {"none"}, name : Sources, n : Nat]
Ids == Events \cup {"none"}
Busy == [at : {"waiting", "answered", "copying"},
         op : {"reads", "create", "edit", "update", "attach", "delete"},
         event : Ids, step : {"read", "last"}, ok : BOOLEAN,
         listed : SUBSET Attachment, todo : Seq(Attachment), copied : SUBSET Attachment,
         created : SUBSET Attachment]
Commands == [caller : Scripts, event : Ids, paths : SUBSET SUBSET Attachment,
             kind : {"Status", "RequestFullAccess", "List", "Get", "Create", "Update", "Delete"}]

Active(c) == call[c].at # "idle"

CalendarTyped ==
  /\ files \subseteq Attachment /\ IsFiniteSet(files)
  /\ access \in {"NotDetermined", "FullAccess", "Denied"} /\ worker \in {"ready", "asking", "stopped"}
  /\ queue \in Seq(Commands)
  /\ call \in [Scripts -> {AtRest} \cup Busy]
  /\ worker = "asking" => access = "NotDetermined"

\* Notes list files of their own event only.
StoreTyped(store) ==
  /\ DOMAIN store \subseteq Events
  /\ store \in [DOMAIN store -> [recurs : BOOLEAN, paths : SUBSET Attachment]]
  /\ \A e \in DOMAIN store : \A f \in store[e].paths : f.scope = e

\* What the stage of a call says of it; it handles its event's files only.
Shaped(s) ==
  /\ s.event = "none" <=> s.op = "reads"
  /\ s.at = "copying" => s.op \in {"update", "attach"} /\ s.step = "read"
  /\ s.step = "read" => s.op \in {"update", "attach", "delete"} /\ (s.at = "waiting" => s.listed = {})
  /\ s.op = "update" => s.todo = <<>> /\ s.copied = {} /\ s.created = {}
  /\ s.op # "reads" => \A f \in s.listed \cup s.copied \cup s.created : f.scope = s.event

\* A command in the queue is the one that its caller waits for.
Matches(command, s) ==
  /\ s.at = "waiting"
  /\ IF s.op = "reads" THEN command.kind \in {"Status", "RequestFullAccess", "List", "Get"}
     ELSE /\ command.event = s.event
          /\ s.step = "read" => command.kind = "Get"
          /\ s.op = "create" => command.kind = "Create"
          /\ s.op = "edit" => command.kind = "Update" /\ command.paths = {}
          /\ s.step = "last" /\ s.op = "delete" => command.kind = "Delete"
          /\ s.step = "last" /\ s.op \in {"update", "attach"} =>
               command.kind = "Update" /\ command.paths = {s.listed \cup s.copied}

Held(e) == {f \in files : f.scope = e}
NotedIn(store, e) == IF e \in DOMAIN store THEN store[e].paths ELSE {}
Noted(e) == NotedIn(events, e)
Hopeless == access = "Denied" \/ worker = "stopped"

\* The copies made so far are there besides the files the notes list.
Copies(s, held, noted) ==
  /\ s.listed = noted /\ held = noted \cup s.created
  /\ s.created \cap noted = {} /\ s.copied \cup noted = s.created \cup noted

\* What a call knows of the files and the notes of its event
Stands(s, held, noted, hopeless) ==
  /\ s.op = "create" => held = {} /\ noted = {}
  /\ s.op = "edit" => held = noted
  /\ s.op = "delete" =>
       IF s.at = "answered" /\ s.step = "last" /\ s.ok THEN noted = {} /\ held = s.listed
       ELSE /\ held = noted
            /\ \/ s.at = "answered" /\ s.step = "read"
               \/ s.at = "waiting" /\ s.step = "last"
               => s.listed = noted \/ hopeless
  /\ s.op \in {"update", "attach"} =>
       /\ s.step = "read" /\ s.at # "copying" =>
            held = noted /\ s.copied = {} /\ s.created = {} /\ (s.at = "answered" /\ s.ok => s.listed = noted)
       /\ s.at = "copying" => Copies(s, held, noted)
       /\ s.step = "last" => IF s.at = "answered" /\ s.ok THEN held = noted ELSE Copies(s, held, noted)

Queued(q, who) ==
  /\ \A i \in 1..Len(q) : Matches(q[i], who[q[i].caller])
  /\ \A i, j \in 1..Len(q) : q[i].caller = q[j].caller => i = j

Alone ==
  \A c, d \in Scripts :
    Active(c) /\ Active(d) /\ call[c].event = call[d].event /\ call[c].event \in Events \ mixed => c = d

Standing ==
  \A c \in Scripts, e \in Events \ mixed :
    Active(c) /\ call[c].event = e => Stands(call[c], Held(e), Noted(e), Hopeless)

Stages == \A c \in Scripts : Active(c) => Shaped(call[c])

Accounts == Alone /\ Standing /\ AttachmentsAccounted

CInv == CalendarTyped /\ StoreTyped(events) /\ Stages /\ Queued(queue, call) /\ Accounts

LEMMA RestIs == AtRest.at = "idle" /\ AtRest.event = "none"
BY DEF AtRest

LEMMA StandsStill ==
  ASSUME NEW s, NEW held, NEW noted, NEW hopeless, NEW more, hopeless => more,
         Stands(s, held, noted, hopeless)
  PROVE  Stands(s, held, noted, more)
BY DEF Stands

\* A step of one call that touches no event but its own
LEMMA OneCall ==
  ASSUME CInv, NEW c \in Scripts, NEW s \in {AtRest} \cup Busy, NEW e \in Ids,
         call' = [call EXCEPT ![c] = s],
         s.at # "idle" => s.event = e,
         Active(c) => call[c].event = e,
         mixed \subseteq mixed',
         ~Active(c) /\ e \in Events => Overlaps(c, e) \subseteq mixed',
         \A x \in Events : x # e => Held(x)' = Held(x) /\ Noted(x)' = Noted(x),
         Hopeless => Hopeless',
         s.at # "idle" /\ e \in Events \ mixed' => Stands(s, Held(e)', Noted(e)', Hopeless'),
         s.at = "idle" /\ e \in Events \ mixed' => Held(e)' = Noted(e)'
  PROVE  Accounts'
<1>1. call \in [Scripts -> {AtRest} \cup Busy] /\ \A d \in Scripts : call'[d] = IF d = c THEN s ELSE call[d]
  BY DEF CInv, CalendarTyped
<1>2. ASSUME NEW d \in Scripts, d # c, Active(d), call[d].event = e, e \in Events, e \notin mixed', s.at # "idle" \/ Active(c)
      PROVE  FALSE
  <2>1. CASE Active(c)
    BY <1>2, <2>1 DEF CInv, Accounts, Alone
  <2>2. CASE ~Active(c)
    BY <1>2, <2>2 DEF Overlaps, Active
  <2>3. QED
    BY <2>1, <2>2
<1>3. Alone'
  <2>1. SUFFICES ASSUME NEW d \in Scripts, NEW b \in Scripts, call'[d].at # "idle", call'[b].at # "idle",
                        call'[d].event = call'[b].event, call'[d].event \in Events \ mixed', d # b
                 PROVE  FALSE
    BY DEF Alone, Active
  <2>2. CASE d # c /\ b # c
    BY <1>1, <2>1, <2>2 DEF CInv, Accounts, Alone, Active
  <2>3. CASE d = c
    BY <1>1, <1>2, <2>1, <2>3 DEF Active
  <2>4. CASE b = c
    BY <1>1, <1>2, <2>1, <2>4 DEF Active
  <2>5. QED
    BY <2>2, <2>3, <2>4
<1>4. Standing'
  <2>1. SUFFICES ASSUME NEW d \in Scripts, NEW x \in Events \ mixed', call'[d].at # "idle", call'[d].event = x
                 PROVE  Stands(call'[d], Held(x)', Noted(x)', Hopeless')
    BY DEF Standing, Active
  <2>2. CASE d = c
    BY <1>1, <2>1, <2>2
  <2>3. CASE d # c
    <3>1. call'[d] = call[d] /\ Active(d) /\ call[d].event = x /\ x \in Events \ mixed
      BY <1>1, <2>1, <2>3 DEF Active
    <3>2. Stands(call[d], Held(x), Noted(x), Hopeless)
      BY <3>1 DEF CInv, Accounts, Standing
    <3>3. CASE x # e
      <4>1. Held(x)' = Held(x) /\ Noted(x)' = Noted(x)
        BY <2>1, <3>3
      <4>2. Stands(call[d], Held(x)', Noted(x)', Hopeless')
        BY <3>2, <4>1, StandsStill
      <4>3. QED
        BY <3>1, <4>2
    <3>4. CASE x = e
      <4>1. s.at = "idle" /\ ~Active(c)
        BY <1>2, <2>1, <2>3, <3>1, <3>4
      <4>2. call[d].event \in Overlaps(c, e)
        BY <2>3, <3>1, <3>4 DEF Overlaps, Active
      <4>3. QED
        BY <2>1, <3>1, <3>4, <4>1, <4>2
    <3>5. QED
      BY <3>3, <3>4
  <2>4. QED
    BY <2>2, <2>3
<1>5. AttachmentsAccounted'
  <2>1. SUFFICES ASSUME NEW x \in Events \ mixed',
                        \A d \in Scripts : call'[d].at = "idle" \/ call'[d].event # x
                 PROVE  Held(x)' = Noted(x)'
    BY DEF AttachmentsAccounted, Held, Noted, NotedIn
  <2>2. CASE x = e
    BY <1>1, <2>1, <2>2
  <2>3. CASE x # e
    <3>1. \A d \in Scripts : call[d].at = "idle" \/ call[d].event # x
      BY <1>1, <2>1, <2>3 DEF Active
    <3>2. Held(x) = Noted(x)
      BY <2>1, <3>1 DEF CInv, Accounts, AttachmentsAccounted, Held, Noted, NotedIn
    <3>3. QED
      BY <2>1, <2>3, <3>2
  <2>4. QED
    BY <2>2, <2>3
<1>6. QED
  BY <1>3, <1>4, <1>5 DEF Accounts

---------------------------------------------------------------------------
(* The queue *)

LEMMA CommandsTyped ==
  ASSUME CInv
  PROVE  /\ queue \in Seq(Commands) /\ Len(queue) \in Nat
         /\ \A i \in 1..Len(queue) : queue[i] \in Commands /\ queue[i].caller \in Scripts
         /\ queue # <<>> => Head(queue) \in Commands /\ Head(queue).caller \in Scripts
<1>1. queue \in Seq(Commands)
  BY DEF CInv, CalendarTyped
<1>2. /\ Len(queue) \in Nat /\ \A i \in 1..Len(queue) : queue[i] \in Commands
      /\ queue # <<>> => Head(queue) \in Commands
  BY <1>1, LenProperties, ElementOfSeq, HeadTailProperties
<1>3. \A command \in Commands : command.caller \in Scripts
  BY DEF Commands
<1>4. QED
  BY <1>1, <1>2, <1>3

\* A call that changes while it waits for nothing leaves the queue as it was.
LEMMA QueueRests ==
  ASSUME CInv, NEW c \in Scripts, Active(c) => call[c].at # "waiting", NEW s,
         call' = [call EXCEPT ![c] = s], queue' = queue
  PROVE  Queued(queue, call)'
<1>1. \A i \in 1..Len(queue) : queue[i].caller \in Scripts
  BY CommandsTyped
<1>2. \A i \in 1..Len(queue) : queue[i].caller # c
  BY <1>1 DEF CInv, Queued, Matches, Active
<1>3. \A d \in Scripts : d # c => call'[d] = call[d]
  BY DEF CInv, CalendarTyped
<1>4. QED
  BY <1>1, <1>2, <1>3 DEF CInv, Queued

\* A command is sent, or answered at once by a worker that stopped.
LEMMA Sent ==
  ASSUME CInv, NEW c \in Scripts, Active(c) => call[c].at # "waiting", NEW s \in Busy, NEW command \in Commands,
         command.caller = c, Matches(command, s), Sends(c, command, s)
  PROVE  /\ queue' \in Seq(Commands) /\ Queued(queue, call)'
         /\ \E t \in Busy : /\ call' = [call EXCEPT ![c] = t]
                            /\ t = s \/ (worker = "stopped" /\ t = [s EXCEPT !.at = "answered", !.ok = FALSE])
<1>1. CASE worker = "stopped"
  <2> DEFINE t == [s EXCEPT !.at = "answered", !.ok = FALSE]
  <2>1. t \in Busy
    BY DEF Busy
  <2>2. queue' = queue /\ call' = [call EXCEPT ![c] = t]
    BY <1>1 DEF Sends, Goes
  <2>3. QED
    BY <1>1, <2>1, <2>2, QueueRests DEF CInv, CalendarTyped
<1>2. CASE worker # "stopped"
  <2>1. queue' = Append(queue, command) /\ call' = [call EXCEPT ![c] = s]
    BY <1>2 DEF Sends, Goes
  <2>2. queue \in Seq(Commands) /\ \A d \in Scripts : call'[d] = IF d = c THEN s ELSE call[d]
    BY <2>1 DEF CInv, CalendarTyped
  <2>a. \A i \in 1..Len(queue) : queue[i].caller \in Scripts
    BY CommandsTyped
  <2>3. /\ queue' \in Seq(Commands) /\ Len(queue') = Len(queue) + 1 /\ Len(queue) \in Nat
        /\ \A i \in 1..Len(queue) : queue'[i] = queue[i] /\ queue[i].caller \in Scripts
        /\ queue'[Len(queue) + 1] = command
    BY <2>1, <2>2, <2>a, AppendProperties, LenProperties
  <2>4. \A i \in 1..Len(queue) : queue[i].caller # c
    BY <2>3 DEF CInv, Queued, Matches, Active
  <2>5. \A i \in 1..Len(queue') : i \in 1..Len(queue) \/ i = Len(queue) + 1
    BY <2>3
  <2>6. \A i \in 1..Len(queue') : Matches(queue'[i], call'[queue'[i].caller])
    BY <2>2, <2>3, <2>4, <2>5 DEF CInv, Queued
  <2>7. \A i, j \in 1..Len(queue') : queue'[i].caller = queue'[j].caller => i = j
    BY <2>3, <2>4, <2>5 DEF CInv, Queued
  <2>8. QED
    BY <2>1, <2>3, <2>6, <2>7 DEF Queued
<1>3. QED
  BY <1>1, <1>2

\* The worker answers the first command.
LEMMA Answered ==
  ASSUME CInv, queue # <<>>, NEW s, call' = [call EXCEPT ![Head(queue).caller] = s], queue' = Tail(queue)
  PROVE  queue' \in Seq(Commands) /\ Queued(queue, call)'
<1> DEFINE c == Head(queue).caller
<1>1. queue \in Seq(Commands) /\ c \in Scripts /\ \A d \in Scripts : d # c => call'[d] = call[d]
  BY CommandsTyped DEF CInv, CalendarTyped
<1>2. /\ queue' \in Seq(Commands) /\ Len(queue') = Len(queue) - 1 /\ Len(queue) \in Nat \ {0}
      /\ \A i \in 1..Len(queue') : queue'[i] = queue[i + 1]
  BY <1>1, HeadTailProperties, EmptySeq
<1>3. \A i \in 1..Len(queue') : i + 1 \in 1..Len(queue) /\ queue[i + 1].caller \in Scripts
  <2>1. \A i \in 1..Len(queue') : i + 1 \in 1..Len(queue)
    BY <1>2
  <2>2. QED
    BY <2>1, CommandsTyped
<1>4. queue[1].caller = c /\ 1 \in 1..Len(queue)
  BY <1>2
<1>5. \A i \in 1..Len(queue') : queue[i + 1].caller # c
  <2>1. SUFFICES ASSUME NEW i \in 1..Len(queue'), queue[i + 1].caller = c PROVE FALSE
    OBVIOUS
  <2>2. i + 1 = 1
    BY <1>3, <1>4, <2>1 DEF CInv, Queued
  <2>3. QED
    BY <2>2
<1> HIDE DEF c
<1>6. \A i \in 1..Len(queue') : Matches(queue'[i], call'[queue'[i].caller])
  BY <1>1, <1>2, <1>3, <1>5 DEF CInv, Queued
<1>7. ASSUME NEW i \in 1..Len(queue'), NEW j \in 1..Len(queue'), queue'[i].caller = queue'[j].caller PROVE i = j
  <2>1. queue[i + 1].caller = queue[j + 1].caller
    BY <1>2, <1>7
  <2>2. i + 1 = j + 1
    BY <1>3, <2>1 DEF CInv, Queued
  <2>3. QED
    BY <1>2, <2>2
<1>8. QED
  BY <1>2, <1>6, <1>7 DEF Queued

---------------------------------------------------------------------------
(* Starting *)

\* Two kinds of call begin; each waits for its first command.
LEMMA Begun ==
  ASSUME CInv, NEW c \in Scripts, NEW e \in Ids, NEW s \in Busy, NEW command \in Commands,
         Begins(c), command.caller = c, Matches(command, s), Sends(c, command, s), Shaped(s), s.event = e,
         s.op = "create" => e \notin DOMAIN events,
         s.copied = {} /\ s.created = {} /\ s.listed = {}, s.op \in {"update", "attach", "delete"} => s.step = "read",
         mixed' = mixed \cup Overlaps(c, e) \/ (e = "none" /\ mixed' = mixed),
         UNCHANGED <<events, files, access, worker>>
  PROVE  CInv'
<1>1. call[c].at = "idle" /\ call[c] = AtRest
  <2>1. call[c].at = "idle" /\ call[c] \in {AtRest} \cup Busy
    BY DEF Begins, CInv, CalendarTyped
  <2>2. \A t \in Busy : t.at # "idle"
    BY DEF Busy
  <2>3. QED
    BY <2>1, <2>2
<1>2. /\ queue' \in Seq(Commands) /\ Queued(queue, call)'
  BY <1>1, Sent DEF Active
<1>3. PICK t \in Busy : /\ call' = [call EXCEPT ![c] = t]
                        /\ t = s \/ (worker = "stopped" /\ t = [s EXCEPT !.at = "answered", !.ok = FALSE])
  BY <1>1, Sent DEF Active
<1>4. /\ t.event = e /\ t.at \in {"waiting", "answered"} /\ t.op = s.op /\ t.step = s.step /\ t.listed = s.listed
      /\ t.copied = {} /\ t.created = {} /\ t.todo = s.todo
      /\ t.at = "waiting" \/ t.ok = FALSE
      /\ t.at = "answered" => worker = "stopped"
  BY <1>3 DEF Busy, Matches
<1>5. Shaped(t)
  BY <1>4 DEF Shaped
<1>6. Stages'
  BY <1>3, <1>5 DEF Stages, CInv, CalendarTyped, Active
<1>7. CalendarTyped' /\ StoreTyped(events)'
  BY <1>2, <1>3 DEF CInv, CalendarTyped, StoreTyped
<1>8. ASSUME e \in Events, e \notin mixed' PROVE Held(e) = Noted(e)
  <2>1. \A d \in Scripts : Active(d) => call[d].event # e
    BY <1>1, <1>8, EventsAssumption, RestIs DEF Overlaps, Active
  <2>2. QED
    BY <1>8, <2>1 DEF CInv, Accounts, AttachmentsAccounted, Active, Held, Noted, NotedIn
<1>9. \A x \in Ids : Held(x)' = Held(x) /\ Noted(x)' = Noted(x)
  BY DEF Held, Noted
<1>10. (Hopeless => Hopeless') /\ (worker = "stopped" => Hopeless')
  BY DEF Hopeless
<1>11. ASSUME e \in Events, e \notin mixed' PROVE Stands(t, Held(e)', Noted(e)', Hopeless')
  <2>1. Held(e)' = Noted(e)' /\ (s.op = "create" => Noted(e)' = {})
    BY <1>8, <1>9, <1>11 DEF Noted, NotedIn
  <2>2. t.op \in {"create", "edit", "update", "attach", "delete", "reads"}
    BY DEF Busy
  <2>3. QED
    BY <1>4, <1>10, <2>1, <2>2 DEF Stands
<1>12. mixed \subseteq mixed' /\ Overlaps(c, e) \subseteq mixed' \cup {"none"}
  BY DEF Overlaps
<1>13. e \in Events => Overlaps(c, e) \subseteq mixed'
  BY EventsAssumption DEF Overlaps
<1>14. t.at # "idle" /\ ~Active(c)
  BY <1>1, <1>4 DEF Active
<1>16. Accounts'
  BY <1>3, <1>4, <1>9, <1>10, <1>11, <1>12, <1>13, <1>14, OneCall DEF Ids
<1>17. QED
  BY <1>2, <1>6, <1>7, <1>16 DEF CInv

LEMMA StartsStep ==
  ASSUME CInv, NEW c \in Scripts, Starts(c)
  PROVE  CInv'
<1>1. ASSUME NEW kind \in {"Status", "RequestFullAccess", "List", "Get"}, NEW e \in Ids, Reading(c, kind, e)
      PROVE  CInv'
  <2> DEFINE s == Waiting("reads", "none")
             command == Command(c, kind, e, Keep)
  <2>1. s \in Busy /\ s.at = "waiting" /\ s.op = "reads" /\ s.event = "none" /\ s.step = "last"
        /\ s.copied = {} /\ s.created = {} /\ s.listed = {}
    BY EmptySeq DEF Waiting, Busy, Ids
  <2>2. command \in Commands /\ command.caller = c /\ command.kind = kind
    BY <1>1 DEF Command, Commands, Keep
  <2>3. Begins(c) /\ Sends(c, command, s) /\ mixed' = mixed /\ UNCHANGED <<events, files, access, worker>>
    BY <1>1 DEF Reading
  <2> HIDE DEF s, command
  <2>4. Matches(command, s) /\ Shaped(s) /\ "none" \in Ids
    BY <2>1, <2>2 DEF Matches, Shaped, Ids
  <2>5. QED
    BY <2>1, <2>2, <2>3, <2>4, Begun
<1>2. ASSUME NEW op \in {"create", "edit", "update", "attach", "delete"}, NEW kind \in {"Get", "Create", "Update"},
             NEW e \in Events, NEW todo \in Seq(Attachment), Changing(c, op, kind, e, todo),
             op = "create" => kind = "Create" /\ e \notin DOMAIN events,
             op = "edit" => kind = "Update",
             op \in {"update", "attach", "delete"} => kind = "Get",
             op = "update" => todo = <<>>
      PROVE  CInv'
  <2> DEFINE s == [Waiting(op, e) EXCEPT !.step = IF kind = "Get" THEN "read" ELSE "last", !.todo = todo]
             command == Command(c, kind, e, Keep)
  <2>1. /\ s \in Busy /\ s.at = "waiting" /\ s.op = op /\ s.event = e /\ s.copied = {} /\ s.created = {} /\ s.listed = {}
        /\ s.step = (IF kind = "Get" THEN "read" ELSE "last") /\ s.todo = todo
    <3> DEFINE w == Waiting(op, e)
               step == IF kind = "Get" THEN "read" ELSE "last"
    <3>1. /\ w \in Busy /\ w.at = "waiting" /\ w.op = op /\ w.event = e
          /\ w.copied = {} /\ w.created = {} /\ w.listed = {}
      BY EmptySeq DEF Waiting, Busy, Ids
    <3>2. step \in {"read", "last"} /\ todo \in Seq(Attachment)
      BY <1>2
    <3> HIDE DEF w, step
    <3>3. LET t == [w EXCEPT !.step = step, !.todo = todo] IN
          /\ t \in Busy /\ t.at = w.at /\ t.op = w.op /\ t.event = w.event
          /\ t.copied = w.copied /\ t.created = w.created /\ t.listed = w.listed
          /\ t.step = step /\ t.todo = todo
      BY <3>1, <3>2 DEF Busy
    <3>4. QED
      BY <3>1, <3>3 DEF w, step
  <2>2. command \in Commands /\ command.caller = c /\ command.kind = kind /\ command.event = e /\ command.paths = {}
    BY DEF Command, Commands, Keep, Ids
  <2>3. Begins(c) /\ Sends(c, command, s) /\ mixed' = mixed \cup Overlaps(c, e) /\ UNCHANGED <<events, files, access, worker>>
    BY <1>2 DEF Changing
  <2> HIDE DEF s, command
  <2>4. Matches(command, s) /\ Shaped(s) /\ e \in Ids
    BY <1>2, <2>1, <2>2, EventsAssumption DEF Matches, Shaped, Ids
  <2>5. s.op = "create" => e \notin DOMAIN events
    BY <1>2, <2>1
  <2>6. s.op \in {"update", "attach", "delete"} => s.step = "read"
    BY <1>2, <2>1
  <2>7. QED
    BY <2>1, <2>2, <2>3, <2>4, <2>5, <2>6, Begun
<1>3. Events \subseteq Ids /\ "none" \in Ids /\ <<>> \in Seq(Attachment)
  BY EmptySeq DEF Ids
<1>4. ASSUME NEW e \in Events, attach(c, e) PROVE CInv'
  <2> DEFINE all == {File(name) : name \in Sources} \cup files
  <2>1. PICK first \in all, second \in all :
          \E todo \in {<<first>>, <<first, second>>} : Changing(c, "attach", "Get", e, todo)
    BY <1>4 DEF attach
  <2>a. PICK todo \in {<<first>>, <<first, second>>} : Changing(c, "attach", "Get", e, todo)
    BY <2>1
  <2>2. {File(name) : name \in Sources} \cup files \subseteq Attachment
    BY DEF File, Managed, Attachment, CInv, CalendarTyped
  <2>3. todo \in Seq(Attachment)
    <3>1. first \in Attachment /\ second \in Attachment
      BY <2>2
    <3>2. <<first>> \in Seq(Attachment) /\ <<first, second>> \in Seq(Attachment)
      BY <3>1
    <3>3. QED
      BY <2>a, <3>2
  <2>4. QED
    BY <1>2, <2>a, <2>3
<1>5. ASSUME NEW e \in Events, update(c, e) PROVE CInv'
  BY <1>2, <1>3, <1>5 DEF update
<1>6. ASSUME NEW e \in Events, create(c, e) PROVE CInv'
  BY <1>2, <1>3, <1>6 DEF create
<1>7. ASSUME NEW e \in Events, delete(c, e) PROVE CInv'
  BY <1>2, <1>3, <1>7 DEF delete
<1>8. ASSUME NEW e \in Events, get(c, e) PROVE CInv'
  BY <1>1, <1>3, <1>8 DEF get
<1>9. ASSUME status(c) \/ request_access(c) \/ calendars(c) \/ default_calendar(c) \/ list_events(c) PROVE CInv'
  BY <1>1, <1>3, <1>9 DEF status, request_access, calendars, default_calendar, list_events
<1>10. QED
  BY <1>4, <1>5, <1>6, <1>7, <1>8, <1>9 DEF Starts

---------------------------------------------------------------------------
(* The worker *)

\* What a command does to the store
LEMMA StoreChanged ==
  ASSUME CInv, queue # <<>>, NEW command, command = Head(queue), Allowed(command),
         NEW store, store = Changed(command), NEW s, s = call[command.caller]
  PROVE  /\ StoreTyped(store)
         /\ \A x \in Events : x # command.event => NotedIn(store, x) = Noted(x)
         /\ command.kind \in {"Status", "RequestFullAccess", "List", "Get"} \/ (command.paths = {} /\ command.kind = "Update")
              => store = events
         /\ command.kind \in {"Create", "Delete"} => NotedIn(store, command.event) = {}
         /\ command.kind = "Update" /\ command.paths # {} => NotedIn(store, command.event) = s.listed \cup s.copied
         /\ command \in Commands /\ command.caller \in Scripts /\ command.event \in Ids
         /\ s \in Busy /\ Shaped(s) /\ Matches(command, s)
         /\ command.kind \in {"Status", "RequestFullAccess", "List", "Get", "Create", "Update", "Delete"}
<1> DEFINE e == command.event
<1>1. command \in Commands /\ command.caller \in Scripts /\ e \in Ids /\ StoreTyped(events)
      /\ command.kind \in {"Status", "RequestFullAccess", "List", "Get", "Create", "Update", "Delete"}
  <2>1. command \in Commands /\ command.caller \in Scripts
    BY CommandsTyped
  <2>2. QED
    BY <2>1 DEF Commands, CInv
<1>2. Matches(command, s) /\ command = queue[1]
  <2>1. 1 \in 1..Len(queue) /\ Head(queue) = queue[1]
    BY CommandsTyped, EmptySeq, LenProperties
  <2>2. QED
    BY <2>1 DEF CInv, Queued
<1>3. s \in Busy /\ Shaped(s)
  <2>1. s \in {AtRest} \cup Busy /\ s.at # "idle"
    BY <1>1, <1>2 DEF CInv, CalendarTyped, Matches
  <2>2. QED
    BY <1>1, <2>1, RestIs DEF CInv, Stages, Active
<1>4. CASE command.kind = "Create"
  <2>1. e \in Events
    BY <1>1, <1>2, <1>3, <1>4 DEF Matches, Shaped, Ids
  <2>2. store = [x \in DOMAIN events \cup {e} |-> IF x = e THEN [recurs |-> FALSE, paths |-> {}] ELSE events[x]]
    BY <1>4 DEF Changed
  <2>3. /\ DOMAIN store = DOMAIN events \cup {e} /\ store[e] = [recurs |-> FALSE, paths |-> {}]
        /\ \A x \in DOMAIN events : x # e => store[x] = events[x]
    BY <2>2
  <2>4. store[e] \in [recurs : BOOLEAN, paths : SUBSET Attachment] /\ store[e].paths = {}
    <3> DEFINE r == [recurs |-> FALSE, paths |-> {}]
    <3>1. r \in [recurs : BOOLEAN, paths : SUBSET Attachment] /\ r.paths = {}
      OBVIOUS
    <3>2. store[e] = r
      BY <2>3
    <3> HIDE DEF r
    <3>3. QED
      BY <3>1, <3>2
  <2>5. \A x \in DOMAIN store : store[x] \in [recurs : BOOLEAN, paths : SUBSET Attachment]
    BY <1>1, <2>3, <2>4 DEF StoreTyped
  <2>6. StoreTyped(store)
    BY <1>1, <2>1, <2>2, <2>3, <2>4, <2>5 DEF StoreTyped
  <2>7. \A x \in Events : x # e => NotedIn(store, x) = Noted(x)
    BY <2>3 DEF Noted, NotedIn
  <2>8. NotedIn(store, e) = {}
    BY <2>3, <2>4 DEF NotedIn
  <2>9. QED
    BY <1>1, <1>2, <1>3, <1>4, <2>6, <2>7, <2>8
<1>5. CASE command.kind = "Delete"
  <2>1. store = [x \in DOMAIN events \ {e} |-> events[x]]
    BY <1>5 DEF Changed
  <2>2. QED
    BY <1>1, <1>2, <1>3, <1>5, <2>1 DEF StoreTyped, Noted, NotedIn
<1>6. CASE command.kind = "Update" /\ command.paths # {}
  <2> DEFINE p == s.listed \cup s.copied
  <2>1. command.paths = {p} /\ e = s.event /\ s.op # "reads"
    BY <1>2, <1>3, <1>6 DEF Matches, Busy
  <2>2. p \subseteq Attachment /\ \A f \in p : f.scope = e
    BY <1>3, <2>1 DEF Shaped, Busy
  <2>3. e \in DOMAIN events
    BY <1>6 DEF Allowed, find_event
  <2>4. store = [events EXCEPT ![e].paths = CHOOSE paths \in command.paths : TRUE]
    BY <1>6 DEF Changed, Keep
  <2>5. (CHOOSE paths \in command.paths : TRUE) = p
    BY <2>1
  <2> HIDE DEF p
  <2>6. store = [events EXCEPT ![e].paths = p]
    BY <2>4, <2>5
  <2>7. /\ DOMAIN store = DOMAIN events /\ \A x \in DOMAIN events : x # e => store[x] = events[x]
        /\ store[e].paths = p /\ store[e].recurs = events[e].recurs /\ store[e] \in [recurs : BOOLEAN, paths : SUBSET Attachment]
        /\ store \in [DOMAIN events -> [recurs : BOOLEAN, paths : SUBSET Attachment]]
    BY <1>1, <2>2, <2>3, <2>6 DEF StoreTyped
  <2>8. StoreTyped(store)
    BY <1>1, <2>2, <2>7 DEF StoreTyped
  <2>9. QED
    BY <1>1, <1>2, <1>3, <1>6, <2>3, <2>7, <2>8 DEF Noted, NotedIn, p
<1>7. CASE command.kind \in {"Status", "RequestFullAccess", "List", "Get"} \/ (command.paths = {} /\ command.kind = "Update")
  <2>1. store = events
    BY <1>7 DEF Changed, Keep
  <2>2. QED
    BY <1>1, <1>2, <1>3, <1>7, <2>1 DEF Noted, NotedIn
<1>8. QED
  BY <1>1, <1>2, <1>3, <1>4, <1>5, <1>6, <1>7

\* What a call knows once its command was refused
LEMMA StandsRefused ==
  ASSUME NEW s \in Busy, NEW t \in Busy, NEW held, NEW noted,
         s.at = "waiting", s.op # "reads", Stands(s, held, noted, Hopeless), Hopeless => Hopeless',
         t.at = "answered" /\ t.ok = FALSE /\ t.op = s.op /\ t.step = s.step,
         t.listed = s.listed /\ t.copied = s.copied /\ t.created = s.created,
         s.step = "read" /\ s.op = "delete" => s.listed = noted \/ Hopeless'
  PROVE  Stands(t, held, noted, Hopeless')
<1>1. s.op \in {"create", "edit", "delete", "update", "attach"} /\ s.step \in {"read", "last"}
  BY DEF Busy
<1>2. CASE s.op = "create"
  BY <1>2 DEF Stands
<1>3. CASE s.op = "edit"
  BY <1>3 DEF Stands
<1>4. CASE s.op = "delete"
  BY <1>1, <1>4 DEF Stands
<1>5. CASE s.op \in {"update", "attach"}
  BY <1>1, <1>5 DEF Stands, Copies
<1>6. QED
  BY <1>1, <1>2, <1>3, <1>4, <1>5

\* A step of worker or user that touches no call and no store
LEMMA Stays ==
  ASSUME CInv, UNCHANGED <<events, files, call, mixed>>, Hopeless => Hopeless'
  PROVE  Accounts'
<1>1. \A x \in Events : Held(x)' = Held(x) /\ Noted(x)' = Noted(x)
  BY DEF Held, Noted, NotedIn
<1>2. Alone' /\ AttachmentsAccounted'
  BY DEF CInv, Accounts, Alone, AttachmentsAccounted, Active
<1>3. ASSUME NEW c \in Scripts, NEW e \in Events \ mixed, Active(c), call[c].event = e
      PROVE  Stands(call[c], Held(e)', Noted(e)', Hopeless')
  <2>1. Stands(call[c], Held(e), Noted(e), Hopeless) /\ Held(e)' = Held(e) /\ Noted(e)' = Noted(e)
    BY <1>1, <1>3 DEF CInv, Accounts, Standing
  <2>2. QED
    BY <2>1, StandsStill
<1>4. QED
  BY <1>2, <1>3 DEF Accounts, Standing, Active

LEMMA WorkerAnswers ==
  ASSUME CInv, worker_loop, queue # <<>>, UNCHANGED <<files, access, worker>>, queue' = Tail(queue),
         NEW command \in Commands, command = Head(queue), ~Asks(command),
         NEW c \in Scripts, c = command.caller, NEW s \in Busy, s = call[c], NEW e \in Ids, e = s.event,
         Shaped(s), Matches(command, s)
  PROVE  CInv'
<1>1. Active(c) /\ call[c].event = e /\ s.at = "waiting" /\ (e \in Events => s.op # "reads")
  BY EventsAssumption DEF Active, Matches, Shaped
<1>2. e \in Events \ mixed => Stands(s, Held(e), Noted(e), Hopeless)
  BY <1>1 DEF CInv, Accounts, Standing
<1>3. Hopeless' = Hopeless /\ \A x \in Ids : Held(x)' = Held(x)
  BY DEF Hopeless, Held
\* What is left to show of each answer
<1>4. ASSUME NEW t \in Busy, call' = [call EXCEPT ![c] = t], t.event = e, t.at = "answered",
             t.op = s.op, t.step = s.step, t.todo = s.todo, t.copied = s.copied, t.created = s.created,
             \A f \in t.listed : s.op # "reads" => f.scope = e,
             StoreTyped(events'), mixed \subseteq mixed',
             \A x \in Events : x # e => Noted(x)' = Noted(x),
             e \in Events \ mixed' => Stands(t, Held(e), Noted(e)', Hopeless')
      PROVE  CInv'
  <2>1. queue' \in Seq(Commands) /\ Queued(queue, call)'
    BY <1>4, Answered
  <2>2. CalendarTyped' /\ StoreTyped(events)'
    BY <1>4, <2>1 DEF CInv, CalendarTyped, StoreTyped
  <2>3. Shaped(t)
    BY <1>4 DEF Shaped
  <2>4. Stages'
    BY <1>4, <2>3 DEF CInv, Stages, CalendarTyped, Active
  <2>5. \A x \in Events : x # e => Held(x)' = Held(x) /\ Noted(x)' = Noted(x)
    BY <1>3, <1>4 DEF Ids
  <2>6. e \in Events \ mixed' => Stands(t, Held(e)', Noted(e)', Hopeless')
    BY <1>3, <1>4
  <2>7. Accounts'
    BY <1>1, <1>3, <1>4, <2>5, <2>6, OneCall
  <2>8. QED
    BY <2>1, <2>2, <2>4, <2>7 DEF CInv
<1>5. ASSUME Fails(command), Denies(c), UNCHANGED <<events, mixed>> PROVE CInv'
  <2>p. PICK t : t = [s EXCEPT !.at = "answered", !.ok = FALSE, !.listed = s.listed]
    OBVIOUS
  <2>1. /\ t \in Busy /\ call' = [call EXCEPT ![c] = t] /\ t.at = "answered" /\ t.ok = FALSE /\ t.listed = s.listed
        /\ t.op = s.op /\ t.event = s.event /\ t.step = s.step /\ t.todo = s.todo
        /\ t.copied = s.copied /\ t.created = s.created
    <3>1. s.listed \in SUBSET Attachment /\ FALSE \in BOOLEAN
      BY DEF Busy
    <3>2. call' = [call EXCEPT ![c] = t]
      BY <2>p, <1>5 DEF Answer, Denies
    <3>3. QED
      BY <2>p, <3>1, <3>2 DEF Busy
  <2>2. \A x \in Ids : Noted(x)' = Noted(x)
    BY <1>5 DEF Noted
  <2>3. ASSUME s.step = "read", s.op = "delete" PROVE s.listed = Noted(e) \/ Hopeless
    <3>1. command.kind = "Get" /\ command.event = e /\ s.listed = {}
      BY <1>1, <2>3 DEF Matches, Shaped
    <3>2. access = "Denied" \/ e \notin DOMAIN events
      BY <1>5, <3>1 DEF Fails, Asks, NeedsAccess, ensure_full_access, Allowed, find_event, CInv, CalendarTyped
    <3>3. QED
      BY <3>1, <3>2 DEF Hopeless, Noted, NotedIn
  <2>4. e \in Events \ mixed => Stands(t, Held(e), Noted(e), Hopeless')
    BY <1>1, <1>2, <1>3, <2>1, <2>3, StandsRefused
  <2>5. StoreTyped(events') /\ mixed \subseteq mixed' /\ \A x \in Events : x # e => Noted(x)' = Noted(x)
    BY <1>5, <2>2 DEF CInv, Ids
  <2>6. \A f \in t.listed : s.op # "reads" => f.scope = e
    BY <2>1 DEF Shaped
  <2>7. e \in Events \ mixed' => Stands(t, Held(e), Noted(e)', Hopeless')
    BY <1>5, <2>2, <2>4
  <2>8. QED
    BY <1>4, <2>1, <2>5, <2>6, <2>7
<1>6. ASSUME NeedsAccess(command) => ensure_full_access /\ Allowed(command), events' = Changed(command),
             \/ /\ Answer(c, TRUE, IF command.kind = "Get" THEN events[command.event].paths ELSE s.listed)
                /\ UNCHANGED mixed
             \/ /\ command.kind \in {"Create", "Update"} /\ Denies(c)
                /\ mixed' = mixed \cup {command.event}
      PROVE  CInv'
  <2>1. Allowed(command)
    BY <1>6 DEF NeedsAccess, Allowed
  <2> DEFINE store == Changed(command)
  <2>2. /\ StoreTyped(store)
        /\ \A x \in Events : x # command.event => NotedIn(store, x) = Noted(x)
        /\ command.kind \in {"Status", "RequestFullAccess", "List", "Get"} \/ (command.paths = {} /\ command.kind = "Update")
             => store = events
        /\ command.kind \in {"Create", "Delete"} => NotedIn(store, command.event) = {}
        /\ command.kind = "Update" /\ command.paths # {} => NotedIn(store, command.event) = s.listed \cup s.copied
        /\ command.kind \in {"Status", "RequestFullAccess", "List", "Get", "Create", "Update", "Delete"}
    BY <2>1, StoreChanged
  <2> HIDE DEF store
  <2>3. events' = store /\ \A x \in Ids : Noted(x)' = NotedIn(store, x)
    BY <1>6 DEF Noted, NotedIn, store
  <2>4. s.op # "reads" => command.event = e
    BY DEF Matches
  <2>5. s.op = "reads" => store = events
    BY <2>2 DEF Matches
  <2>6. \A x \in Events : x # e => Noted(x)' = Noted(x)
    BY <2>2, <2>3, <2>4, <2>5 DEF Noted, Ids
  <2>7. ASSUME Answer(c, TRUE, IF command.kind = "Get" THEN events[command.event].paths ELSE s.listed), mixed' = mixed
        PROVE  CInv'
    <3> DEFINE listed == IF command.kind = "Get" THEN events[command.event].paths ELSE s.listed
    <3>1. command.kind = "Get" => command.event \in DOMAIN events
      BY <2>1 DEF Allowed, find_event
    <3>2. listed \in SUBSET Attachment /\ \A f \in listed : s.op # "reads" => f.scope = e
      BY <2>4, <3>1 DEF CInv, StoreTyped, Busy, Shaped
    <3>3. s.op # "reads" => listed = IF command.kind = "Get" THEN Noted(e) ELSE s.listed
      BY <2>4, <3>1 DEF Noted, NotedIn
    <3> HIDE DEF listed
    <3>p. PICK t : t = [s EXCEPT !.at = "answered", !.ok = TRUE, !.listed = listed]
      OBVIOUS
    <3>4. /\ t \in Busy /\ call' = [call EXCEPT ![c] = t] /\ t.at = "answered" /\ t.ok = TRUE /\ t.listed = listed
          /\ t.op = s.op /\ t.event = s.event /\ t.step = s.step /\ t.todo = s.todo
          /\ t.copied = s.copied /\ t.created = s.created
      <4>1. listed \in SUBSET Attachment /\ TRUE \in BOOLEAN
        BY <3>2
      <4>2. call' = [call EXCEPT ![c] = t]
        BY <3>p, <2>7 DEF Answer, Denies, listed
      <4>3. QED
        BY <3>p, <4>1, <4>2 DEF Busy
    <3>5. ASSUME e \in Events \ mixed PROVE Stands(t, Held(e), Noted(e)', Hopeless')
      <4>1. s.op # "reads" /\ command.event = e /\ Noted(e)' = NotedIn(store, e) /\ Stands(s, Held(e), Noted(e), Hopeless)
        BY <1>1, <1>2, <2>3, <2>4, <3>5
      <4>2. NeedsAccess(command) /\ access = "FullAccess" /\ ~Hopeless
        <5>1. command.kind \notin {"Status", "RequestFullAccess"}
          BY <4>1 DEF Matches, Busy
        <5>2. QED
          BY <1>6, <5>1 DEF NeedsAccess, ensure_full_access, Hopeless, worker_loop
      <4>3. command.kind = "Get" \/ (command.kind = "Update" /\ command.paths = {}) => Noted(e)' = Noted(e)
        BY <2>2, <4>1 DEF Noted
      <4> DEFINE after == NotedIn(store, e)
      <4>4. /\ command.kind \in {"Create", "Delete"} => after = {}
            /\ command.kind = "Update" /\ command.paths # {} => after = s.listed \cup s.copied
            /\ command.kind = "Get" \/ (command.kind = "Update" /\ command.paths = {}) => after = Noted(e)
        BY <2>2, <4>1, <4>3
      <4>5. (command.kind = "Get" => t.listed = Noted(e)) /\ (command.kind # "Get" => t.listed = s.listed)
        BY <3>3, <3>4, <4>1
      <4> HIDE DEF after
      <4>6. Stands(t, Held(e), after, Hopeless)
        <5>1. s.op \in {"create", "edit", "delete", "update", "attach"} /\ s.step \in {"read", "last"}
          BY <4>1 DEF Busy
        <5>2. CASE s.op \in {"create", "edit"}
          BY <3>4, <4>1, <4>4, <5>2 DEF Stands, Matches
        <5>3. CASE s.op = "delete"
          BY <3>4, <4>1, <4>2, <4>4, <4>5, <5>1, <5>3 DEF Stands, Matches
        <5>4. CASE s.op \in {"update", "attach"} /\ s.step = "read"
          BY <3>4, <4>1, <4>4, <4>5, <5>4 DEF Stands, Matches
        <5>5. CASE s.op \in {"update", "attach"} /\ s.step = "last"
          <6>1. Copies(s, Held(e), Noted(e)) /\ command.kind = "Update" /\ command.paths = {s.listed \cup s.copied}
            BY <1>1, <4>1, <5>5 DEF Stands, Matches
          <6>2. after = s.listed \cup s.copied
            BY <4>4, <6>1
          <6>3. after = Held(e)
            BY <6>1, <6>2 DEF Copies
          <6>4. QED
            BY <3>4, <5>5, <6>3 DEF Stands
        <5>6. QED
          BY <5>1, <5>2, <5>3, <5>4, <5>5
      <4>7. QED
        BY <1>3, <4>1, <4>6 DEF after
    <3>6. QED
      BY <1>4, <2>2, <2>3, <2>6, <2>7, <3>2, <3>4, <3>5
  <2>8. ASSUME command.kind \in {"Create", "Update"}, Denies(c), mixed' = mixed \cup {command.event}
        PROVE  CInv'
    <3>p. PICK t : t = [s EXCEPT !.at = "answered", !.ok = FALSE, !.listed = s.listed]
      OBVIOUS
    <3>1. /\ t \in Busy /\ call' = [call EXCEPT ![c] = t] /\ t.at = "answered" /\ t.ok = FALSE /\ t.listed = s.listed
          /\ t.op = s.op /\ t.event = s.event /\ t.step = s.step /\ t.todo = s.todo
          /\ t.copied = s.copied /\ t.created = s.created
      <4>1. s.listed \in SUBSET Attachment /\ FALSE \in BOOLEAN
        BY DEF Busy
      <4>2. call' = [call EXCEPT ![c] = t]
        BY <3>p, <2>8 DEF Answer, Denies
      <4>3. QED
        BY <3>p, <4>1, <4>2 DEF Busy
    <3>2. e \in mixed'
      BY <2>4, <2>8 DEF Matches
    <3>3. \A f \in t.listed : s.op # "reads" => f.scope = e
      BY <3>1 DEF Shaped
    <3>4. QED
      BY <1>4, <2>2, <2>3, <2>6, <2>8, <3>1, <3>2, <3>3
  <2>9. QED
    BY <1>6, <2>7, <2>8
<1>7. QED
  BY <1>5, <1>6 DEF worker_loop, Denies

LEMMA WorkerStep ==
  ASSUME CInv, worker_loop
  PROVE  CInv'
<1>1. worker = "ready" /\ queue # <<>> /\ UNCHANGED <<files, access, calls>>
  BY DEF worker_loop
<1>2. CASE Asks(Head(queue))
  <2>1. worker' = "asking" /\ UNCHANGED <<events, queue, call, mixed>> /\ access = "NotDetermined"
    BY <1>2 DEF worker_loop, Asks
  <2>2. (Hopeless => Hopeless') /\ access' = access
    BY <1>1, <2>1 DEF Hopeless
  <2>3. Accounts'
    BY <1>1, <2>1, <2>2, Stays
  <2>4. QED
    BY <1>1, <2>1, <2>2, <2>3 DEF CInv, CalendarTyped, StoreTyped, Stages, Queued, Active
<1>3. CASE ~Asks(Head(queue))
  <2>1. PICK command \in Commands : command = Head(queue)
    BY <1>1, CommandsTyped
  <2>2. PICK c \in Scripts : c = command.caller
    BY <1>1, <2>1, CommandsTyped
  <2>3. PICK s \in {AtRest} \cup Busy : s = call[c]
    BY <2>2 DEF CInv, CalendarTyped
  <2>4. Matches(command, s) /\ s.at = "waiting"
    <3>1. 1 \in 1..Len(queue) /\ Head(queue) = queue[1]
      BY <1>1, CommandsTyped, EmptySeq
    <3>2. QED
      BY <2>1, <2>2, <2>3, <3>1 DEF CInv, Queued, Matches
  <2>5. s \in Busy
    BY <2>3, <2>4, RestIs
  <2>6. Shaped(s)
    BY <2>3, <2>4 DEF CInv, Stages, Active
  <2>7. PICK e \in Ids : e = s.event
    BY <2>5 DEF Busy
  <2>8. queue' = Tail(queue) /\ UNCHANGED worker /\ ~Asks(command)
    BY <1>3, <2>1 DEF worker_loop
  <2>9. QED
    BY <1>1, <2>1, <2>2, <2>3, <2>4, <2>5, <2>6, <2>7, <2>8, WorkerAnswers
<1>4. QED
  BY <1>2, <1>3

---------------------------------------------------------------------------
(* The functions, after an answer *)

LEMMA CallIs ==
  ASSUME CInv, NEW c \in Scripts, Active(c)
  PROVE  call[c] \in Busy /\ Shaped(call[c]) /\ call[c].event \in Ids
<1>1. call[c] \in Busy
  BY RestIs DEF CInv, CalendarTyped, Active
<1>2. QED
  BY <1>1 DEF CInv, Stages, Busy

\* A call that waits for nothing goes on, or ends, with files of its event only.
LEMMA OnlyCall ==
  ASSUME CInv, NEW c \in Scripts, NEW s \in Busy, s = call[c], NEW e \in Ids, e = s.event, s.at # "waiting",
         NEW t \in {AtRest} \cup Busy, call' = [call EXCEPT ![c] = t], queue' = queue,
         UNCHANGED <<events, access, worker, mixed>>,
         files' \subseteq Attachment, IsFiniteSet(files'),
         t.at # "idle" => t.event = e /\ Shaped(t),
         \A x \in Events : x # e => Held(x)' = Held(x),
         t.at # "idle" /\ e \in Events \ mixed => Stands(t, Held(e)', Noted(e), Hopeless),
         t.at = "idle" /\ e \in Events \ mixed => Held(e)' = Noted(e)
  PROVE  CInv'
<1>1. s.at # "idle" /\ Active(c) /\ call[c].event = e
  BY DEF Busy, Active
<1>2. Queued(queue, call)'
  BY QueueRests
<1>3. CalendarTyped' /\ StoreTyped(events)'
  BY DEF CInv, CalendarTyped, StoreTyped
<1>4. Stages'
  BY DEF CInv, Stages, CalendarTyped, Active
<1>5. (\A x \in Ids : Noted(x)' = Noted(x)) /\ Hopeless' = Hopeless
  BY DEF Noted, NotedIn, Hopeless
<1>6. /\ \A x \in Events : x # e => Held(x)' = Held(x) /\ Noted(x)' = Noted(x)
      /\ t.at # "idle" /\ e \in Events \ mixed' => Stands(t, Held(e)', Noted(e)', Hopeless')
      /\ t.at = "idle" /\ e \in Events \ mixed' => Held(e)' = Noted(e)'
      /\ mixed \subseteq mixed' /\ (Hopeless => Hopeless')
  BY <1>5 DEF Ids
<1>7. Accounts'
  BY <1>1, <1>6, OneCall
<1>8. QED
  BY <1>2, <1>3, <1>4, <1>7 DEF CInv

\* A call sends its last command.
LEMMA OnlySends ==
  ASSUME CInv, NEW c \in Scripts, NEW s \in Busy, s = call[c], NEW e \in Ids, e = s.event, s.at # "waiting",
         NEW u \in Busy, NEW command \in Commands, command.caller = c, Matches(command, u), Sends(c, command, u),
         UNCHANGED <<events, files, access, worker, mixed>>,
         Shaped(u), u.event = e, u.op # "reads", u.step = "last",
         e \in Events \ mixed => Stands(u, Held(e), Noted(e), Hopeless)
  PROVE  CInv'
<1>1. s.at # "idle" /\ Active(c) /\ call[c].event = e /\ u.at = "waiting"
  BY DEF Busy, Active, Matches
<1>2. queue' \in Seq(Commands) /\ Queued(queue, call)'
  BY Sent
<1>3. PICK t \in Busy : /\ call' = [call EXCEPT ![c] = t]
                        /\ t = u \/ (worker = "stopped" /\ t = [u EXCEPT !.at = "answered", !.ok = FALSE])
  BY Sent
<1>4. /\ t.event = e /\ t.at # "idle" /\ t.op = u.op /\ t.step = u.step /\ t.listed = u.listed
      /\ t.copied = u.copied /\ t.created = u.created /\ t.todo = u.todo
      /\ t = u \/ (t.at = "answered" /\ t.ok = FALSE)
  BY <1>1, <1>3 DEF Busy
<1>5. Shaped(t)
  BY <1>4 DEF Shaped
<1>6. CalendarTyped' /\ StoreTyped(events)'
  BY <1>2, <1>3 DEF CInv, CalendarTyped, StoreTyped
<1>7. Stages'
  BY <1>3, <1>5 DEF CInv, Stages, CalendarTyped, Active
<1>8. (\A x \in Ids : Noted(x)' = Noted(x) /\ Held(x)' = Held(x)) /\ Hopeless' = Hopeless
  BY DEF Noted, NotedIn, Held, Hopeless
<1>9. ASSUME e \in Events \ mixed PROVE Stands(t, Held(e), Noted(e), Hopeless')
  <2>1. CASE t = u
    BY <1>8, <1>9, <2>1
  <2>2. CASE t.at = "answered" /\ t.ok = FALSE
    BY <1>1, <1>4, <1>8, <1>9, <2>2, StandsRefused
  <2>3. QED
    BY <1>4, <2>1, <2>2
<1>10. /\ \A x \in Events : x # e => Held(x)' = Held(x) /\ Noted(x)' = Noted(x)
       /\ e \in Events \ mixed' => Stands(t, Held(e)', Noted(e)', Hopeless')
       /\ mixed \subseteq mixed' /\ (Hopeless => Hopeless')
  BY <1>8, <1>9 DEF Ids
<1>11. Accounts'
  BY <1>1, <1>3, <1>4, <1>10, OneCall
<1>12. QED
  BY <1>2, <1>6, <1>7, <1>11 DEF CInv

LEMMA SendUpdateStep ==
  ASSUME CInv, NEW c \in Scripts, SendUpdate(c)
  PROVE  CInv'
<1>1. call[c].at = "copying" /\ UNCHANGED <<events, files, access, worker, mixed>>
  BY DEF SendUpdate
<1>2. PICK s \in Busy : s = call[c] /\ Shaped(s) /\ s.event \in Ids
  BY <1>1, CallIs DEF Active
<1>3. PICK e \in Ids : e = s.event
  BY <1>2
<1>4. PICK u : u = [s EXCEPT !.at = "waiting", !.step = "last"]
  OBVIOUS
<1>5. /\ u \in Busy /\ u.at = "waiting" /\ u.step = "last" /\ u.op = s.op /\ u.event = e /\ u.ok = s.ok
      /\ u.listed = s.listed /\ u.todo = s.todo /\ u.copied = s.copied /\ u.created = s.created
  BY <1>3, <1>4 DEF Busy
<1>6. s.op \in {"update", "attach"} /\ s.at = "copying"
  BY <1>1, <1>2 DEF Shaped
<1>7. PICK command : command = Command(c, "Update", s.event, {s.listed \cup s.copied})
  OBVIOUS
<1>8. /\ command \in Commands /\ command.caller = c /\ command.kind = "Update" /\ command.event = e
      /\ command.paths = {s.listed \cup s.copied}
  BY <1>3, <1>7 DEF Command, Commands, Busy
<1>9. Matches(command, u) /\ Shaped(u) /\ u.op # "reads"
  BY <1>2, <1>3, <1>5, <1>6, <1>8 DEF Matches, Shaped
<1>10. Sends(c, command, u)
  BY <1>2, <1>4, <1>7 DEF SendUpdate, notes_with_attachments
<1>11. ASSUME e \in Events \ mixed PROVE Stands(u, Held(e), Noted(e), Hopeless)
  <2>1. Stands(s, Held(e), Noted(e), Hopeless)
    BY <1>2, <1>3, <1>6, <1>11 DEF CInv, Accounts, Standing, Active
  <2>2. Copies(s, Held(e), Noted(e))
    BY <1>6, <2>1 DEF Stands
  <2>3. QED
    BY <1>5, <1>6, <2>2 DEF Stands, Copies
<1>12. s.at # "waiting"
  BY <1>6
<1>13. QED
  BY <1>1, <1>2, <1>3, <1>5, <1>8, <1>9, <1>10, <1>11, <1>12, OnlySends

LEMMA ReadStep ==
  ASSUME CInv, NEW c \in Scripts, Read(c)
  PROVE  CInv'
<1>1. call[c].at = "answered" /\ call[c].step = "read" /\ UNCHANGED <<events, files, access, worker, mixed>>
  BY DEF Read
<1>2. PICK s \in Busy : s = call[c] /\ Shaped(s) /\ s.event \in Ids
  BY <1>1, CallIs DEF Active
<1>3. PICK e \in Ids : e = s.event
  BY <1>2
<1>4. s.at = "answered" /\ s.step = "read" /\ s.op \in {"update", "attach", "delete"} /\ s.at # "waiting"
  BY <1>1, <1>2 DEF Shaped
<1>5. e \in Events \ mixed => Stands(s, Held(e), Noted(e), Hopeless)
  BY <1>2, <1>3, <1>4 DEF CInv, Accounts, Standing, Active
<1>6. /\ files' \subseteq Attachment /\ IsFiniteSet(files') /\ \A x \in Ids : Held(x)' = Held(x)
  BY <1>1 DEF CInv, CalendarTyped, Held
<1>7. CASE s.op = "delete"
  <2>1. PICK u : u = [s EXCEPT !.at = "waiting", !.step = "last", !.ok = TRUE]
    OBVIOUS
  <2>2. /\ u \in Busy /\ u.at = "waiting" /\ u.step = "last" /\ u.op = s.op /\ u.event = e
        /\ u.listed = s.listed /\ u.todo = s.todo /\ u.copied = s.copied /\ u.created = s.created
    BY <1>3, <2>1 DEF Busy
  <2>3. PICK command : command = Command(c, "Delete", s.event, Keep)
    OBVIOUS
  <2>4. command \in Commands /\ command.caller = c /\ command.kind = "Delete" /\ command.event = e
    BY <1>3, <2>3 DEF Command, Commands, Keep
  <2>5. Matches(command, u) /\ Shaped(u) /\ u.op # "reads"
    BY <1>2, <1>3, <1>7, <2>2, <2>4 DEF Matches, Shaped
  <2>6. Sends(c, command, u)
    BY <1>2, <1>7, <2>1, <2>3 DEF Read
  <2>7. e \in Events \ mixed => Stands(u, Held(e), Noted(e), Hopeless)
    BY <1>4, <1>5, <1>7, <2>2 DEF Stands
  <2>8. QED
    BY <1>1, <1>2, <1>3, <1>4, <2>2, <2>4, <2>5, <2>6, <2>7, OnlySends
<1>8. CASE s.op # "delete" /\ s.ok
  <2>1. PICK t : t = [s EXCEPT !.at = "copying"]
    OBVIOUS
  <2>2. /\ t \in Busy /\ t.at = "copying" /\ t.step = s.step /\ t.op = s.op /\ t.event = e
        /\ t.listed = s.listed /\ t.todo = s.todo /\ t.copied = s.copied /\ t.created = s.created
    BY <1>3, <2>1 DEF Busy
  <2>3. call' = [call EXCEPT ![c] = t] /\ queue' = queue
    BY <1>2, <1>8, <2>1 DEF Read, Goes
  <2>4. Shaped(t) /\ t.at # "idle"
    BY <1>2, <1>3, <1>4, <1>8, <2>2 DEF Shaped
  <2>5. ASSUME e \in Events \ mixed PROVE Stands(t, Held(e)', Noted(e), Hopeless)
    <3>1. Held(e) = Noted(e) /\ s.copied = {} /\ s.created = {} /\ s.listed = Noted(e)
      BY <1>4, <1>5, <1>8, <2>5 DEF Stands
    <3>2. Copies(t, Held(e), Noted(e)) /\ Held(e)' = Held(e)
      BY <1>6, <2>2, <3>1 DEF Copies
    <3>3. QED
      BY <1>4, <1>8, <2>2, <3>2 DEF Stands
  <2>6. \A x \in Events : x # e => Held(x)' = Held(x)
    BY <1>6 DEF Ids
  <2>7. QED
    BY <1>1, <1>2, <1>3, <1>4, <1>6, <2>2, <2>3, <2>4, <2>5, <2>6, OnlyCall
<1>9. CASE s.op # "delete" /\ ~s.ok
  <2>1. PICK t \in {AtRest} \cup Busy : t = AtRest
    OBVIOUS
  <2>2. call' = [call EXCEPT ![c] = t] /\ queue' = queue /\ t.at = "idle"
    BY <1>2, <1>9, <2>1, RestIs DEF Read, Goes, Ends
  <2>3. ASSUME e \in Events \ mixed PROVE Held(e)' = Noted(e)
    BY <1>4, <1>5, <1>6, <1>9, <2>3 DEF Stands, Ids
  <2>4. \A x \in Events : x # e => Held(x)' = Held(x)
    BY <1>6 DEF Ids
  <2>5. QED
    BY <1>1, <1>2, <1>3, <1>4, <1>6, <2>2, <2>3, <2>4, OnlyCall
<1>10. QED
  BY <1>7, <1>8, <1>9

LEMMA Least ==
  ASSUME NEW T \in SUBSET Nat, T # {}
  PROVE  \E x \in T : \A y \in T : x <= y
<1> DEFINE R == {ss \in Nat \X Nat : ss[1] < ss[2]}
<1>1. IsWellFoundedOn(R, Nat)
  BY NatLessThanWellFounded DEF OpToRel
<1>2. PICK x \in T : \A y \in T : ~ (<<y, x>> \in R)
  <2> HIDE DEF R
  <2> QED BY <1>1, WFMin
<1>3. \A y \in T : ~ (y < x)
  <2> SUFFICES ASSUME NEW y \in T, y < x PROVE FALSE
    OBVIOUS
  <2>1. <<y, x>> \in Nat \X Nat /\ <<y, x>>[1] < <<y, x>>[2]
    OBVIOUS
  <2>2. QED
    BY <1>2, <2>1
<1>4. QED
  BY <1>3

\* Of one suffix more than there are files, one is free.
LEMMA FreshPath ==
  ASSUME files \subseteq Attachment, IsFiniteSet(files), NEW e \in Events, NEW name \in Sources
  PROVE  /\ unique_attachment_path(e, name) \in Attachment \ files
         /\ unique_attachment_path(e, name).scope = e
<1> DEFINE k == Cardinality(files)
           free == {n \in 1..(k + 1) : Managed(e, name, n) \notin files}
           f == [n \in 1..(k + 1) |-> Managed(e, name, n)]
<1>1. k \in Nat
  BY FS_CardinalityType
<1> HIDE DEF k
<1>2. \A n, m \in 1..(k + 1) : f[n] = f[m] => n = m
  BY DEF Managed
<1>3. IsFiniteSet(1..(k + 1)) /\ Cardinality(1..(k + 1)) = k + 1
  BY <1>1, FS_Interval
<1>4. free # {}
  <2>1. SUFFICES ASSUME free = {} PROVE FALSE
    OBVIOUS
  <2>2. f \in [1..(k + 1) -> files]
    BY <2>1
  <2> HIDE DEF f
  <2>3. Cardinality(files) < Cardinality(1..(k + 1))
    BY <1>1, <1>3 DEF k
  <2>4. \E n, m \in 1..(k + 1) : n # m /\ f[n] = f[m]
    BY <1>3, <2>2, <2>3, FS_PigeonHole
  <2>5. QED
    BY <1>2, <2>4
<1>5. free \subseteq Nat
  BY <1>1
<1>6. Min(free) \in free
  <2> HIDE DEF free
  <2>1. \E x \in free : \A y \in free : x <= y
    BY <1>4, <1>5, Least
  <2>2. QED
    BY <2>1 DEF Min
<1>7. unique_attachment_path(e, name) = Managed(e, name, Min(free))
  BY DEF unique_attachment_path, k
<1>8. \A n \in free : Managed(e, name, n) \in Attachment \ files /\ Managed(e, name, n).scope = e
  <2>1. SUFFICES ASSUME NEW n \in free PROVE Managed(e, name, n) \in Attachment \ files /\ Managed(e, name, n).scope = e
    OBVIOUS
  <2>2. n \in Nat /\ Managed(e, name, n) \notin files
    BY <1>5
  <2>3. QED
    BY <2>2 DEF Managed, Attachment
<1> HIDE DEF free
<1>9. QED
  BY <1>6, <1>7, <1>8

LEMMA CopyStep ==
  ASSUME CInv, NEW c \in Scripts, Copy(c)
  PROVE  CInv'
<1>1. call[c].at = "copying" /\ call[c].todo # <<>> /\ UNCHANGED <<events, access, worker, mixed>> /\ queue' = queue
  BY DEF Copy
<1>2. PICK s \in Busy : s = call[c] /\ Shaped(s) /\ s.event \in Ids
  BY <1>1, CallIs DEF Active
<1>3. PICK e \in Ids : e = s.event
  BY <1>2
<1>4. s.at = "copying" /\ s.step = "read" /\ s.op = "attach" /\ e \in Events /\ s.todo # <<>> /\ s.at # "waiting"
  BY <1>1, <1>2, <1>3 DEF Shaped, Ids
<1>5. \A f \in s.listed \cup s.copied \cup s.created : f.scope = e
  BY <1>2, <1>3, <1>4 DEF Shaped
<1>6. e \notin mixed => Copies(s, Held(e), Noted(e))
  <2>1. SUFFICES ASSUME e \notin mixed PROVE Copies(s, Held(e), Noted(e))
    OBVIOUS
  <2>2. Stands(s, Held(e), Noted(e), Hopeless)
    BY <1>2, <1>3, <1>4, <2>1 DEF CInv, Accounts, Standing, Active
  <2>3. QED
    BY <1>4, <2>2 DEF Stands
<1>7. PICK source : source = Head(s.todo)
  OBVIOUS
<1>8. source \in Attachment /\ Tail(s.todo) \in Seq(Attachment)
  <2>1. s.todo \in Seq(Attachment)
    BY DEF Busy
  <2>2. QED
    BY <1>4, <1>7, <2>1, HeadTailProperties
<1>9. files \subseteq Attachment /\ IsFiniteSet(files)
  BY DEF CInv, CalendarTyped
\* What is left to show of each copy
<1>10. ASSUME NEW copied \in SUBSET Attachment, NEW created \in SUBSET Attachment,
              Goes(c, [s EXCEPT !.todo = Tail(@), !.copied = copied, !.created = created]),
              \A f \in copied \cup created : f.scope = e,
              files' \subseteq Attachment, IsFiniteSet(files'), \A x \in Events : x # e => Held(x)' = Held(x),
              e \notin mixed => /\ Held(e)' = Noted(e) \cup created /\ created \cap Noted(e) = {}
                                /\ copied \cup Noted(e) = created \cup Noted(e)
       PROVE  CInv'
  <2>1. PICK t : t = [s EXCEPT !.todo = Tail(@), !.copied = copied, !.created = created]
    OBVIOUS
  <2>2. /\ t \in Busy /\ t.at = s.at /\ t.step = s.step /\ t.op = s.op /\ t.event = e
        /\ t.listed = s.listed /\ t.copied = copied /\ t.created = created
    BY <1>3, <1>8, <2>1 DEF Busy
  <2>3. call' = [call EXCEPT ![c] = t]
    BY <1>10, <2>1 DEF Goes
  <2>4. Shaped(t) /\ t.at # "idle"
    BY <1>2, <1>3, <1>4, <1>5, <1>10, <2>2 DEF Shaped
  <2>5. ASSUME e \in Events \ mixed PROVE Stands(t, Held(e)', Noted(e), Hopeless)
    <3>1. Copies(t, Held(e)', Noted(e))
      BY <1>6, <1>10, <2>2, <2>5 DEF Copies
    <3>2. QED
      BY <1>4, <2>2, <3>1 DEF Stands
  <2>6. QED
    BY <1>1, <1>2, <1>3, <1>4, <1>10, <2>2, <2>3, <2>4, <2>5, OnlyCall
<1>11. ASSUME source \in s.listed, files' = files,
              Goes(c, [s EXCEPT !.todo = Tail(@), !.copied = s.copied \cup {source}, !.created = s.created])
       PROVE  CInv'
  <2>1. s.copied \cup {source} \in SUBSET Attachment /\ s.created \in SUBSET Attachment
    BY <1>8 DEF Busy
  <2>2. \A f \in (s.copied \cup {source}) \cup s.created : f.scope = e
    BY <1>5, <1>11
  <2>3. \A x \in Events : Held(x)' = Held(x)
    BY <1>11 DEF Held
  <2>4. e \notin mixed => /\ Held(e)' = Noted(e) \cup s.created /\ s.created \cap Noted(e) = {}
                          /\ (s.copied \cup {source}) \cup Noted(e) = s.created \cup Noted(e)
    BY <1>4, <1>6, <1>11, <2>3 DEF Copies
  <2>5. QED
    BY <1>9, <1>10, <1>11, <2>1, <2>2, <2>3, <2>4
<1>12. ASSUME NEW path, path = unique_attachment_path(e, source.name), files' = files \cup {path},
              Goes(c, [s EXCEPT !.todo = Tail(@), !.copied = s.copied \cup {path}, !.created = s.created \cup {path}])
       PROVE  CInv'
  <2>1. source.name \in Sources
    BY <1>8 DEF Attachment
  <2>2. path \in Attachment /\ path \notin files /\ path.scope = e
    BY <1>4, <1>9, <1>12, <2>1, FreshPath
  <2>3. PICK copied \in SUBSET Attachment, created \in SUBSET Attachment :
          copied = s.copied \cup {path} /\ created = s.created \cup {path}
    BY <2>2 DEF Busy
  <2>4. \A f \in copied \cup created : f.scope = e
    BY <1>5, <2>2, <2>3
  <2>5. Held(e)' = Held(e) \cup {path} /\ \A x \in Events : x # e => Held(x)' = Held(x)
    BY <1>12, <2>2 DEF Held
  <2>6. files' \subseteq Attachment /\ IsFiniteSet(files')
    BY <1>9, <1>12, <2>2, FS_AddElement
  <2>7. e \notin mixed => /\ Held(e)' = Noted(e) \cup created /\ created \cap Noted(e) = {}
                          /\ copied \cup Noted(e) = created \cup Noted(e)
    <3>1. path \notin Held(e)
      BY <2>2 DEF Held
    <3>2. QED
      BY <1>6, <2>3, <2>5, <3>1 DEF Copies
  <2>8. Goes(c, [s EXCEPT !.todo = Tail(@), !.copied = copied, !.created = created])
    BY <1>12, <2>3
  <2>9. QED
    BY <1>10, <2>4, <2>5, <2>6, <2>7, <2>8
<1>13. ASSUME files' = files \ s.created, Goes(c, AtRest)
       PROVE  CInv'
  <2>1. PICK t \in {AtRest} \cup Busy : t = AtRest
    OBVIOUS
  <2>2. call' = [call EXCEPT ![c] = t] /\ t.at = "idle"
    BY <1>13, <2>1, RestIs DEF Goes
  <2>3. Held(e)' = Held(e) \ s.created /\ \A x \in Events : x # e => Held(x)' = Held(x)
    BY <1>5, <1>13 DEF Held
  <2>4. files' \subseteq Attachment /\ IsFiniteSet(files')
    BY <1>9, <1>13, FS_Difference
  <2>5. e \notin mixed => Held(e)' = Noted(e)
    BY <1>6, <2>3 DEF Copies
  <2>6. QED
    BY <1>1, <1>2, <1>3, <1>4, <2>2, <2>3, <2>4, <2>5, OnlyCall
<1>14. QED
  BY <1>2, <1>3, <1>7, <1>11, <1>12, <1>13 DEF Copy, cleanup_copied_attachments

\* The files of a call that ended
LEMMA ReturnStep ==
  ASSUME CInv, NEW c \in Scripts, Return(c)
  PROVE  CInv'
<1>1. call[c].at = "answered" /\ call[c].step = "last" /\ UNCHANGED <<events, access, worker, mixed>> /\ Ends(c)
  BY DEF Return
<1>2. PICK s \in Busy : s = call[c] /\ Shaped(s) /\ s.event \in Ids
  BY <1>1, CallIs DEF Active
<1>3. PICK e \in Ids : e = s.event
  BY <1>2
<1>4. s.at = "answered" /\ s.step = "last" /\ s.at # "waiting"
  BY <1>1, <1>2
<1>5. s.op # "reads" => \A f \in s.listed \cup s.copied \cup s.created : f.scope = e
  BY <1>2, <1>3 DEF Shaped
<1>6. e \in Events \ mixed => s.op # "reads" /\ Stands(s, Held(e), Noted(e), Hopeless)
  <2>1. SUFFICES ASSUME e \in Events \ mixed PROVE s.op # "reads" /\ Stands(s, Held(e), Noted(e), Hopeless)
    OBVIOUS
  <2>2. s.op # "reads"
    BY <1>2, <1>3, <2>1, EventsAssumption DEF Shaped
  <2>3. QED
    BY <1>2, <1>3, <1>4, <2>1, <2>2 DEF CInv, Accounts, Standing, Active
<1>7. files \subseteq Attachment /\ IsFiniteSet(files)
  BY DEF CInv, CalendarTyped
<1>8. PICK t \in {AtRest} \cup Busy : t = AtRest
  OBVIOUS
<1>9. call' = [call EXCEPT ![c] = t] /\ t.at = "idle" /\ queue' = queue
  BY <1>1, <1>8, RestIs DEF Goes, Ends
\* What is left to show is which files go.
<1>10. ASSUME NEW gone \in SUBSET Attachment, files' = files \ gone, \A f \in gone : f.scope = e,
              e \in Events \ mixed => Held(e) \ gone = Noted(e)
       PROVE  CInv'
  <2>1. Held(e)' = Held(e) \ gone /\ \A x \in Events : x # e => Held(x)' = Held(x)
    BY <1>10 DEF Held
  <2>2. files' \subseteq Attachment /\ IsFiniteSet(files')
    BY <1>7, <1>10, FS_Difference
  <2>3. QED
    BY <1>1, <1>2, <1>3, <1>4, <1>9, <1>10, <2>1, <2>2, OnlyCall
<1>11. CASE s.op = "delete" /\ s.ok
  <2>1. files' = files \ s.listed /\ s.listed \in SUBSET Attachment
    BY <1>2, <1>11 DEF Return, cleanup_copied_attachments, Busy
  <2>2. ASSUME e \in Events \ mixed PROVE Held(e) \ s.listed = Noted(e)
    BY <1>4, <1>6, <1>11, <2>2 DEF Stands
  <2>3. \A f \in s.listed : f.scope = e
    BY <1>5, <1>11
  <2>4. QED
    BY <1>10, <2>1, <2>2, <2>3
<1>12. CASE s.op = "attach" /\ ~s.ok
  <2>1. PICK gone \in SUBSET Attachment : gone = s.copied \ s.listed
    BY DEF Busy
  <2>2. files' = files \ gone
    BY <1>2, <1>12, <2>1 DEF Return, cleanup_copied_attachments
  <2>3. ASSUME e \in Events \ mixed PROVE Held(e) \ gone = Noted(e)
    <3>1. Copies(s, Held(e), Noted(e))
      BY <1>4, <1>6, <1>12, <2>3 DEF Stands
    <3>2. QED
      BY <2>1, <3>1 DEF Copies
  <2>4. \A f \in gone : f.scope = e
    BY <1>5, <1>12, <2>1
  <2>5. QED
    BY <1>10, <2>2, <2>3, <2>4
<1>13. CASE ~(s.op = "delete" /\ s.ok) /\ ~(s.op = "attach" /\ ~s.ok)
  <2>1. files' = files
    BY <1>2, <1>13 DEF Return
  <2>2. ASSUME e \in Events \ mixed PROVE Held(e) = Noted(e)
    <3>1. s.op \in {"create", "edit", "delete", "update", "attach"} /\ Stands(s, Held(e), Noted(e), Hopeless)
      BY <1>6, <2>2 DEF Busy
    <3>2. CASE s.op \in {"create", "edit"}
      BY <3>1, <3>2 DEF Stands
    <3>3. CASE s.op = "delete"
      BY <1>4, <1>13, <3>1, <3>3 DEF Stands
    <3>4. CASE s.op = "attach"
      BY <1>4, <1>13, <3>1, <3>4 DEF Stands
    <3>5. CASE s.op = "update" /\ s.ok
      BY <1>4, <3>1, <3>5 DEF Stands
    <3>6. CASE s.op = "update" /\ ~s.ok
      <4>1. Copies(s, Held(e), Noted(e)) /\ s.created = {}
        BY <1>2, <1>4, <3>1, <3>6 DEF Stands, Shaped
      <4>2. QED
        BY <4>1 DEF Copies
    <3>7. QED
      BY <3>1, <3>2, <3>3, <3>4, <3>5, <3>6
  <2>3. PICK gone \in SUBSET Attachment : gone = {}
    OBVIOUS
  <2>4. files' = files \ gone /\ (\A f \in gone : f.scope = e) /\ (e \in Events \ mixed => Held(e) \ gone = Noted(e))
    BY <2>1, <2>2, <2>3
  <2>5. QED
    BY <1>10, <2>4
<1>14. QED
  BY <1>11, <1>12, <1>13

---------------------------------------------------------------------------
(* The user, and the end of the worker *)

LEMMA UserStep ==
  ASSUME CInv, UserAnswers
  PROVE  CInv'
<1>1. /\ worker = "asking" /\ worker' = "ready" /\ access' \in {"FullAccess", "Denied"} /\ access = "NotDetermined"
      /\ UNCHANGED <<events, files, queue, call, mixed>>
  BY DEF UserAnswers, CInv, CalendarTyped
<1>2. Accounts'
  BY <1>1, Stays DEF Hopeless
<1>3. QED
  BY <1>1, <1>2 DEF CInv, CalendarTyped, StoreTyped, Stages, Queued, Active

LEMMA StopStep ==
  ASSUME CInv, WorkerStops
  PROVE  CInv'
<1>1. /\ worker = "ready" /\ queue # <<>> /\ worker' = "stopped" /\ queue' = <<>> /\ UNCHANGED <<files, access>>
      /\ mixed' = mixed \cup {Head(queue).event}
      /\ call' = [c \in Scripts |-> IF call[c].at = "waiting"
                                    THEN [call[c] EXCEPT !.at = "answered", !.ok = FALSE] ELSE call[c]]
  BY DEF WorkerStops
<1>2. Hopeless' /\ \A x \in Ids : Held(x)' = Held(x)
  BY <1>1 DEF Hopeless, Held
<1>3. StoreTyped(events') /\ \A x \in Events : x # Head(queue).event => Noted(x)' = Noted(x)
  <2>1. CASE events' = events
    BY <2>1 DEF CInv, Noted, NotedIn
  <2>2. CASE Allowed(Head(queue)) /\ events' = Changed(Head(queue))
    <3>1. PICK command : command = Head(queue)
      OBVIOUS
    <3>2. PICK store : store = Changed(command)
      OBVIOUS
    <3>3. PICK s : s = call[command.caller]
      OBVIOUS
    <3>4. StoreTyped(store) /\ \A x \in Events : x # command.event => NotedIn(store, x) = Noted(x)
      BY <1>1, <2>2, <3>1, <3>2, <3>3, StoreChanged
    <3>5. events' = store
      BY <2>2, <3>1, <3>2
    <3>6. QED
      BY <3>1, <3>4, <3>5 DEF Noted, NotedIn
  <2>3. QED
    BY <2>1, <2>2 DEF WorkerStops
\* What becomes of a call that waited, and of one that did not
<1>4. ASSUME NEW c \in Scripts, Active(c)
      PROVE  /\ call'[c] \in Busy /\ call'[c].at # "idle" /\ call'[c].event = call[c].event /\ Shaped(call'[c])
             /\ \A e \in Events \ mixed : call[c].event = e =>
                  Stands(call'[c], Held(e), Noted(e), Hopeless')
  <2>1. PICK s \in Busy : s = call[c] /\ Shaped(s)
    BY <1>4, CallIs
  <2>2. s.at # "idle" /\ \A e \in Events \ mixed : s.event = e => s.op # "reads" /\ Stands(s, Held(e), Noted(e), Hopeless)
    BY <1>4, <2>1, EventsAssumption DEF CInv, Accounts, Standing, Active, Shaped
  <2>3. CASE s.at # "waiting"
    <3>1. call'[c] = s
      BY <1>1, <2>1, <2>3
    <3>2. \A e \in Events \ mixed : s.event = e => Stands(s, Held(e), Noted(e), Hopeless')
      <4>1. SUFFICES ASSUME NEW e \in Events \ mixed, s.event = e PROVE Stands(s, Held(e), Noted(e), Hopeless')
        OBVIOUS
      <4>2. Stands(s, Held(e), Noted(e), Hopeless)
        BY <2>2, <4>1
      <4>3. QED
        BY <1>2, <4>2, StandsStill
    <3>3. QED
      BY <2>1, <2>2, <3>1, <3>2
  <2>4. CASE s.at = "waiting"
    <3>1. PICK t : t = [s EXCEPT !.at = "answered", !.ok = FALSE]
      OBVIOUS
    <3>2. call'[c] = t
      BY <1>1, <2>1, <2>4, <3>1
    <3>3. /\ t \in Busy /\ t.at = "answered" /\ t.ok = FALSE /\ t.op = s.op /\ t.step = s.step /\ t.event = s.event
          /\ t.listed = s.listed /\ t.copied = s.copied /\ t.created = s.created /\ t.todo = s.todo
      BY <3>1 DEF Busy
    <3>4. Shaped(t)
      BY <2>1, <3>3 DEF Shaped
    <3>5. \A e \in Events \ mixed : s.event = e => Stands(t, Held(e), Noted(e), Hopeless')
      <4>1. SUFFICES ASSUME NEW e \in Events \ mixed, s.event = e PROVE Stands(t, Held(e), Noted(e), Hopeless')
        OBVIOUS
      <4>2. s.op # "reads" /\ Stands(s, Held(e), Noted(e), Hopeless)
        BY <2>2, <4>1
      <4>3. QED
        BY <1>2, <2>4, <3>3, <4>2, StandsRefused
    <3>6. QED
      BY <2>1, <3>2, <3>3, <3>4, <3>5
  <2>5. QED
    BY <2>3, <2>4
<1>5. ASSUME NEW c \in Scripts, ~Active(c) PROVE call'[c] = AtRest /\ call'[c].at = "idle"
  <2>1. call[c].at = "idle" /\ call[c] \in {AtRest} \cup Busy
    BY <1>5 DEF Active, CInv, CalendarTyped
  <2>2. call[c] = AtRest
    BY <2>1 DEF Busy
  <2>3. QED
    BY <1>1, <2>1, <2>2
<1>6. \A c \in Scripts : call'[c].at # "idle" => Active(c)
  BY <1>5
<1>7. CalendarTyped'
  <2>1. call' \in [Scripts -> {AtRest} \cup Busy]
    <3>1. \A c \in Scripts : call'[c] \in {AtRest} \cup Busy
      BY <1>4, <1>5
    <3>2. QED
      BY <1>1, <3>1
  <2>2. queue' \in Seq(Commands)
    BY <1>1, EmptySeq
  <2>3. QED
    BY <1>1, <2>1, <2>2 DEF CInv, CalendarTyped
<1>8. Stages'
  BY <1>4, <1>6 DEF Stages, Active
<1>9. Queued(queue, call)'
  <2>1. queue' = <<>>
    BY <1>1
  <2>2. Len(queue') = 0
    BY <2>1
  <2>3. \A i \in 1..Len(queue') : FALSE
    BY <2>2
  <2>4. QED
    BY <2>3 DEF Queued
<1>10. Alone'
  <2>1. SUFFICES ASSUME NEW c \in Scripts, NEW d \in Scripts, call'[c].at # "idle", call'[d].at # "idle",
                        call'[c].event = call'[d].event, call'[c].event \in Events \ mixed'
                 PROVE  c = d
    BY DEF Alone, Active
  <2>2. mixed \subseteq mixed'
    BY <1>1
  <2>3. Active(c) /\ Active(d)
    BY <1>6, <2>1
  <2>4. call'[c].event = call[c].event /\ call'[d].event = call[d].event
    BY <1>4, <2>3
  <2>5. call[c].event = call[d].event /\ call[c].event \in Events \ mixed
    BY <2>1, <2>2, <2>4
  <2>6. QED
    BY <2>3, <2>5 DEF Alone, CInv, Accounts
<1>11. ASSUME NEW x \in Events \ mixed' PROVE x \in Events \ mixed /\ Noted(x)' = Noted(x) /\ Held(x)' = Held(x)
  BY <1>1, <1>2, <1>3, <1>11 DEF Ids
<1>12. Standing'
  <2>1. SUFFICES ASSUME NEW c \in Scripts, NEW x \in Events \ mixed', call'[c].at # "idle", call'[c].event = x
                 PROVE  Stands(call'[c], Held(x)', Noted(x)', Hopeless')
    BY DEF Standing, Active
  <2>2. Active(c) /\ call[c].event = x /\ Stands(call'[c], Held(x), Noted(x), Hopeless')
    BY <1>4, <1>6, <1>11, <2>1
  <2>3. QED
    BY <1>11, <2>2
<1>13. AttachmentsAccounted'
  <2>1. SUFFICES ASSUME NEW x \in Events \ mixed', \A d \in Scripts : call'[d].at = "idle" \/ call'[d].event # x
                 PROVE  Held(x)' = Noted(x)'
    BY DEF AttachmentsAccounted, Held, Noted, NotedIn
  <2>2. \A d \in Scripts : call[d].at = "idle" \/ call[d].event # x
    BY <1>4, <2>1 DEF Active
  <2>3. Held(x) = Noted(x)
    BY <1>11, <2>1, <2>2 DEF CInv, Accounts, AttachmentsAccounted, Held, Noted, NotedIn
  <2>4. QED
    BY <1>11, <2>1, <2>3
<1>14. QED
  BY <1>3, <1>7, <1>8, <1>9, <1>10, <1>12, <1>13 DEF CInv, Accounts

---------------------------------------------------------------------------
(* The theorems *)

LEMMA CalendarStarts == CalendarInit => CInv
<1>1. SUFFICES ASSUME CalendarInit PROVE CInv
  OBVIOUS
<1>2. PICK D \in SUBSET Events : events \in [D -> [recurs : BOOLEAN, paths : {{}}]]
  BY <1>1 DEF CalendarInit
<1>3. files = {} /\ queue = <<>> /\ worker = "ready" /\ access \in {"NotDetermined", "FullAccess"}
      /\ call = [c \in Scripts |-> AtRest]
  BY <1>1 DEF CalendarInit
<1>4. \A x \in DOMAIN events : events[x] \in [recurs : BOOLEAN, paths : SUBSET Attachment] /\ events[x].paths = {}
  BY <1>2
<1>5. StoreTyped(events)
  BY <1>2, <1>4 DEF StoreTyped
<1>6. CalendarTyped
  BY <1>3, EmptySeq, FS_EmptySet DEF CalendarTyped
<1>7. \A c \in Scripts : ~Active(c)
  BY <1>3, RestIs DEF Active
<1>8. \A x \in Events : Held(x) = {} /\ Noted(x) = {}
  BY <1>3, <1>4 DEF Held, Noted, NotedIn
<1>9. Queued(queue, call)
  BY <1>3, EmptySeq DEF Queued
<1>10. AttachmentsAccounted
  BY <1>8 DEF AttachmentsAccounted, Held, Noted, NotedIn
<1>11. QED
  BY <1>5, <1>6, <1>7, <1>9, <1>10 DEF CInv, Stages, Accounts, Alone, Standing

LEMMA CalendarSteps == CInv /\ [CalendarNext]_calendar => CInv'
<1>1. SUFFICES ASSUME CInv, [CalendarNext]_calendar PROVE CInv'
  OBVIOUS
<1>2. CASE UNCHANGED calendar
  <2>1. UNCHANGED <<events, files, access, queue, worker, call, mixed>>
    BY <1>2 DEF calendar
  <2>2. Accounts'
    BY <1>1, <2>1, Stays DEF Hopeless
  <2>3. QED
    BY <1>1, <2>1, <2>2 DEF CInv, CalendarTyped, StoreTyped, Stages, Queued, Active
<1>3. CASE worker_loop
  BY <1>1, <1>3, WorkerStep
<1>4. CASE UserAnswers
  BY <1>1, <1>4, UserStep
<1>5. CASE WorkerStops
  BY <1>1, <1>5, StopStep
<1>6. ASSUME NEW c \in Scripts, Starts(c) PROVE CInv'
  BY <1>1, <1>6, StartsStep
<1>7. ASSUME NEW c \in Scripts, Continues(c) PROVE CInv'
  BY <1>1, <1>7, CopyStep, SendUpdateStep, ReadStep, ReturnStep DEF Continues
<1>8. QED
  BY <1>1, <1>2, <1>3, <1>4, <1>5, <1>6, <1>7 DEF CalendarNext

\* The inductive invariant of the calendar: which command each call waits for, and how
\* the files of its event differ from those the notes list while it works.
THEOREM CalendarInductive == CalendarSpec => []CInv
BY CalendarStarts, CalendarSteps, PTL DEF CalendarSpec

\* Whatever calls, refusals, panics of the worker and late answers of the user come
\* together, the files of an event at rest are those its notes list, unless calls changed
\* it at the same time or a saved change was reported as failed (calendar.rs, attach,
\* delete, copy_calendar_attachments and cleanup_copied_attachments).
THEOREM AttachmentsAccountedAlways == CalendarSpec => []AttachmentsAccounted
<1>1. CInv => AttachmentsAccounted
  BY DEF CInv, Accounts
<1>2. QED
  BY <1>1, CalendarInductive, PTL
=============================================================================
