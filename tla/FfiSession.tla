----------------------------- MODULE FfiSession -----------------------------
(***************************************************************************)
(* The C ABI of CPSL: who owns a host's callback contexts, when a host     *)
(* callback runs, and what cpsl_last_error shows (ffi/src/lib.rs,          *)
(* ffi/src/vision.rs).                                                     *)
(*                                                                         *)
(* A host passes up to five callback groups to a session constructor, each *)
(* with a user_data that CPSL takes over and must hand back through        *)
(* user_data_free.  Every constructor is the last one (_v3) with NULL for  *)
(* the groups its signature lacks.  Host threads run calls at the same     *)
(* time on different sessions; the document workers of one evaluation call *)
(* the vision callback from threads of their own.                          *)
(***************************************************************************)
EXTENDS FiniteSets

CONSTANTS
    Threads,    \* host threads that call the C functions
    Workers,    \* document worker threads of the evaluations
    Sessions,   \* constructor calls the host ever makes
    Offers,     \* the callback groups a host may pass to a constructor
    Idle,       \* a thread outside every C function; an unlocked callback lock
    NoError     \* the empty string of cpsl_last_error

\* The callback groups in the order the constructor validates them.
Families == {"file", "browser", "calendar", "location", "vision"}

\* The groups that a build of the library may be without.
Optional == {"browser", "calendar", "location"}

Callers == Threads \cup Workers

\* A group is not passed (NULL), passed with its handlers, or passed with a
\* required handler left NULL.
Offer == [Families -> {"absent", "whole", "broken"}]

ASSUME NamesAssumption == /\ Threads \cap Workers = {}
                          /\ Idle \notin Sessions \cup Callers
                          /\ NoError \notin Threads
ASSUME OffersAssumption == Offers \subseteq Offer

VARIABLES
    features,   \* the optional groups this build of the library has
    given,      \* what the host passed to each constructor call
    phase,      \* where each session is in its life
    bridges,    \* the groups whose context a Rust bridge of the session owns
    released,   \* the contexts user_data_free was called on
    twice,      \* the contexts it was called on more than once
    task,       \* the session each host thread is inside a call about
    where,      \* whether a caller is outside, waiting for or inside a handler
    target,     \* the group it calls
    onBehalf,   \* the session it calls for
    holder,     \* who holds each bridge's callback lock
    lastError,  \* the thread whose failure LAST_ERROR describes
    owed,       \* the failure after which no call has begun
    alone       \* no other call was under way when it happened

vars == <<features, given, phase, bridges, released, twice, task, where,
          target, onBehalf, holder, lastError, owed, alone>>

ownership == <<features, given, phase, bridges, released, twice>>
calling == <<where, target, onBehalf, holder>>
errors == <<lastError, owed, alone>>

Passed(s) == {f \in Families : given[s][f] # "absent"}

InFlight(t) == task[t] # Idle

\* What the constructor turns to after group f.
After == [file |-> "browser", browser |-> "calendar", calendar |-> "location",
          location |-> "vision", vision |-> "build"]

Phases == {"unused", "build", "unwind", "live", "dead"} \cup Families

Init ==
    /\ features \in SUBSET Optional
    /\ given = [s \in Sessions |-> [f \in Families |-> "absent"]]
    /\ phase = [s \in Sessions |-> "unused"]
    /\ bridges = [s \in Sessions |-> {}]
    /\ released = [s \in Sessions |-> {}]
    /\ twice = [s \in Sessions |-> {}]
    /\ task = [t \in Threads |-> Idle]
    /\ where = [c \in Callers |-> "outside"]
    /\ target = [c \in Callers |-> "file"]
    /\ onBehalf = [c \in Callers |-> Idle]
    /\ holder = [s \in Sessions |-> [f \in Families |-> Idle]]
    /\ lastError = NoError
    /\ owed = NoError
    /\ alone = FALSE

-----------------------------------------------------------------------------
(* Contexts and the last error *)

\* user_data_free is called on the contexts of groups F.
Release(s, F) ==
    /\ released' = [released EXCEPT ![s] = @ \cup F]
    /\ twice' = [twice EXCEPT ![s] = @ \cup (released[s] \cap F)]

\* Dropping the last reference to a bridge releases its context.
DropBridges(s) ==
    /\ Release(s, bridges[s])
    /\ bridges' = [bridges EXCEPT ![s] = {}]

\* A call by t fails.
SetLastError(t) ==
    /\ lastError' = t
    /\ owed' = t
    /\ alone' = \A u \in Threads \ {t} : ~InFlight(u)

ClearLastError == lastError' = NoError /\ UNCHANGED <<owed, alone>>

\* A call begins: from here on it may replace the error of an earlier one.
CallBegins == owed' = NoError /\ UNCHANGED alone

-----------------------------------------------------------------------------
(* The constructors *)

FreedByHand_Calendar(f) == \* Mutant: the calendar context, already in a bridge, is released again.
    IF f = "vision" THEN {"vision"}
    ELSE {"calendar", "location", "vision"}

\* The contexts released by hand when the validation of group f fails.
FreedByHand(f) ==
    IF f = "vision" THEN {"vision"}
    ELSE IF f = "location" THEN {"location", "vision"}
    ELSE {"calendar", "location", "vision"}

BeginNew(t, s) ==
    /\ task[t] = Idle
    /\ phase[s] = "unused"
    /\ given' \in {[given EXCEPT ![s] = offer] : offer \in Offers}
    /\ phase' = [phase EXCEPT ![s] = "file"]
    /\ task' = [task EXCEPT ![t] = s]
    /\ CallBegins
    /\ UNCHANGED <<features, bridges, released, twice, calling, lastError>>

\* A group whose handlers are there becomes a bridge that owns its context.
Validate(t, f) ==
    LET s == task[t] IN
    /\ InFlight(t)
    /\ phase[s] = f
    /\ given[s][f] = "absent" \/ (f \notin Optional \ features /\ given[s][f] = "whole")
    /\ bridges' = IF given[s][f] = "absent" THEN bridges
                  ELSE [bridges EXCEPT ![s] = @ \cup {f}]
    /\ phase' = [phase EXCEPT ![s] = After[f]]
    /\ UNCHANGED <<features, given, released, twice, task, calling, errors>>

\* A group this build has no support for: the context of calendar or location
\* is released and the constructor goes on.
Ignore(t, f) ==
    LET s == task[t] IN
    /\ InFlight(t)
    /\ phase[s] = f
    /\ f \in {"calendar", "location"} \ features
    /\ given[s][f] # "absent"
    /\ Release(s, {f})
    /\ phase' = [phase EXCEPT ![s] = After[f]]
    /\ UNCHANGED <<features, given, bridges, task, calling, errors>>

Refuse_Keeps(t, f) == \* Mutant: a rejected web browser context is not released.
    LET s == task[t]
        rejected == {"browser"} \ features
    IN
    /\ InFlight(t)
    /\ phase[s] = f
    /\ \/ f \in rejected /\ given[s][f] # "absent"
       \/ f \notin Optional \ features /\ given[s][f] = "broken"
    /\ Release(s, FreedByHand(f) \cap Passed(s))
    /\ phase' = [phase EXCEPT ![s] = "unwind"]
    /\ SetLastError(t)
    /\ UNCHANGED <<features, given, bridges, task, calling>>

\* A missing handler, or a web browser group without support for it, fails the
\* constructor.  Its local bridges are dropped when it returns: see Unwind.
Refuse(t, f) ==
    LET s == task[t]
        rejected == {"browser"} \ features
    IN
    /\ InFlight(t)
    /\ phase[s] = f
    /\ \/ f \in rejected /\ given[s][f] # "absent"
       \/ f \notin Optional \ features /\ given[s][f] = "broken"
    /\ Release(s, (FreedByHand(f) \cup ({f} \cap rejected)) \cap Passed(s))
    /\ phase' = [phase EXCEPT ![s] = "unwind"]
    /\ SetLastError(t)
    /\ UNCHANGED <<features, given, bridges, task, calling>>

\* The refused constructor returns NULL.
Unwind(t) ==
    LET s == task[t] IN
    /\ InFlight(t)
    /\ phase[s] = "unwind"
    /\ DropBridges(s)
    /\ phase' = [phase EXCEPT ![s] = "dead"]
    /\ task' = [task EXCEPT ![t] = Idle]
    /\ UNCHANGED <<features, given, calling, errors>>

\* session_new_inner: the configuration is good and the sandbox is built.
Build(t) ==
    LET s == task[t] IN
    /\ InFlight(t)
    /\ phase[s] = "build"
    /\ phase' = [phase EXCEPT ![s] = "live"]
    /\ task' = [task EXCEPT ![t] = Idle]
    /\ ClearLastError
    /\ UNCHANGED <<features, given, bridges, released, twice, calling>>

BuildFails_Clears(t) == \* Mutant: the error is cleared on the way out.
    LET s == task[t] IN
    /\ InFlight(t)
    /\ phase[s] = "build"
    /\ DropBridges(s)
    /\ phase' = [phase EXCEPT ![s] = "dead"]
    /\ task' = [task EXCEPT ![t] = Idle]
    /\ lastError' = NoError
    /\ owed' = t
    /\ alone' = \A u \in Threads \ {t} : ~InFlight(u)
    /\ UNCHANGED <<features, given, calling>>

\* Or it is not: the bridges go with the closure that owned them, and then the
\* error is set.
BuildFails(t) ==
    LET s == task[t] IN
    /\ InFlight(t)
    /\ phase[s] = "build"
    /\ DropBridges(s)
    /\ phase' = [phase EXCEPT ![s] = "dead"]
    /\ task' = [task EXCEPT ![t] = Idle]
    /\ SetLastError(t)
    /\ UNCHANGED <<features, given, calling>>

-----------------------------------------------------------------------------
(* Evaluation and the callbacks it makes *)

\* A host evaluates in, and frees, a session from one thread at a time.
BeginEval(t, s) ==
    /\ task[t] = Idle
    /\ phase[s] = "live"
    /\ \A u \in Threads : task[u] # s
    /\ task' = [task EXCEPT ![t] = s]
    /\ CallBegins
    /\ UNCHANGED <<ownership, calling, lastError>>

\* The callers that work for session s.
CallersOf(s) == {c \in Callers : onBehalf[c] = s}

\* The script reaches a callback: caller c queues on the lock of its bridge.
Queue(C, s, f) ==
    /\ f \in bridges[s]
    /\ where' = [c \in Callers |-> IF c \in C THEN "waiting" ELSE where[c]]
    /\ target' = [c \in Callers |-> IF c \in C THEN f ELSE target[c]]
    /\ onBehalf' = [c \in Callers |-> IF c \in C THEN s ELSE onBehalf[c]]
    /\ UNCHANGED holder

Evaluating(t) == InFlight(t) /\ phase[task[t]] = "live"

ScriptCalls(t, f) ==
    /\ Evaluating(t)
    /\ CallersOf(task[t]) = {}
    /\ Queue({t}, task[t], f)
    /\ UNCHANGED <<ownership, task, errors>>

\* doc.await* runs its document reads on worker threads and waits for them.
ScriptReadsDocuments(t) ==
    /\ Evaluating(t)
    /\ CallersOf(task[t]) = {}
    /\ \E C \in SUBSET {w \in Workers : onBehalf[w] = Idle} :
          C # {} /\ Queue(C, task[t], "vision")
    /\ UNCHANGED <<ownership, task, errors>>

EnterHandler(c) ==
    /\ where[c] = "waiting"
    /\ holder[onBehalf[c]][target[c]] = Idle
    /\ where' = [where EXCEPT ![c] = "inside"]
    /\ holder' = [holder EXCEPT ![onBehalf[c]][target[c]] = c]
    /\ UNCHANGED <<ownership, task, target, onBehalf, errors>>

LeaveHandler_KeepsLock(c) == \* Mutant: the lock guard is leaked.
    /\ where[c] = "inside"
    /\ where' = [where EXCEPT ![c] = "outside"]
    /\ onBehalf' = [onBehalf EXCEPT ![c] = Idle]
    /\ UNCHANGED <<ownership, task, target, holder, errors>>

LeaveHandler(c) ==
    /\ where[c] = "inside"
    /\ where' = [where EXCEPT ![c] = "outside"]
    /\ holder' = [holder EXCEPT ![onBehalf[c]][target[c]] = Idle]
    /\ onBehalf' = [onBehalf EXCEPT ![c] = Idle]
    /\ UNCHANGED <<ownership, task, target, errors>>

EndEval_Detached(t) == \* Mutant: the document workers are not waited for.
    /\ Evaluating(t)
    /\ where[t] = "outside"
    /\ task' = [task EXCEPT ![t] = Idle]
    /\ ClearLastError
    /\ UNCHANGED <<ownership, calling>>

\* The evaluation returns JSON, also for a script that failed.
EndEval(t) ==
    /\ Evaluating(t)
    /\ CallersOf(task[t]) = {}
    /\ task' = [task EXCEPT ![t] = Idle]
    /\ ClearLastError
    /\ UNCHANGED <<ownership, calling>>

\* The request does not parse, or a Rust panic is caught: NULL.
EvalFails(t) ==
    /\ Evaluating(t)
    /\ CallersOf(task[t]) = {}
    /\ task' = [task EXCEPT ![t] = Idle]
    /\ SetLastError(t)
    /\ UNCHANGED <<ownership, calling>>

\* cpsl_session_free: the error is cleared, then the session is dropped.
FreeSession(t, s) ==
    /\ task[t] = Idle
    /\ phase[s] = "live"
    /\ \A u \in Threads : task[u] # s
    /\ DropBridges(s)
    /\ phase' = [phase EXCEPT ![s] = "dead"]
    /\ lastError' = NoError
    /\ CallBegins
    /\ UNCHANGED <<features, given, task, calling>>

\* cpsl_abi_version, cpsl_string_free, ...: calls that only clear the error.
QuickCall(t) ==
    /\ task[t] = Idle
    /\ lastError' = NoError
    /\ CallBegins
    /\ UNCHANGED <<ownership, task, calling>>

Next ==
    \/ \E t \in Threads, s \in Sessions :
          BeginNew(t, s) \/ BeginEval(t, s) \/ FreeSession(t, s)
    \/ \E t \in Threads, f \in Families :
          Validate(t, f) \/ Ignore(t, f) \/ Refuse(t, f) \/ ScriptCalls(t, f)
    \/ \E t \in Threads :
          \/ Unwind(t) \/ Build(t) \/ BuildFails(t)
          \/ ScriptReadsDocuments(t) \/ EndEval(t) \/ EvalFails(t)
          \/ QuickCall(t)
    \/ \E c \in Callers : EnterHandler(c) \/ LeaveHandler(c)

\* The host's handlers return, and a thread that finds the lock free takes it.
Fairness == \A c \in Callers : WF_vars(EnterHandler(c)) /\ WF_vars(LeaveHandler(c))

Spec == Init /\ [][Next]_vars

FairSpec == Spec /\ Fairness

-----------------------------------------------------------------------------
(* Properties *)

\* Type correctness.
TypeOK ==
    /\ features \subseteq Optional
    /\ given \in [Sessions -> Offer]
    /\ phase \in [Sessions -> Phases]
    /\ bridges \in [Sessions -> SUBSET Families]
    /\ released \in [Sessions -> SUBSET Families]
    /\ twice \in [Sessions -> SUBSET Families]
    /\ task \in [Threads -> Sessions \cup {Idle}]
    /\ where \in [Callers -> {"outside", "waiting", "inside"}]
    /\ target \in [Callers -> Families]
    /\ onBehalf \in [Callers -> Sessions \cup {Idle}]
    /\ holder \in [Sessions -> [Families -> Callers \cup {Idle}]]
    /\ lastError \in Threads \cup {NoError}
    /\ owed \in Threads \cup {NoError}
    /\ alone \in BOOLEAN

\* No path through a constructor or a free calls user_data_free twice on one
\* context, nor on a context the host did not pass: what is released by hand
\* and what the bridges release when they are dropped never overlap.
FreedAtMostOnce ==
    \A s \in Sessions : twice[s] = {} /\ released[s] \subseteq Passed(s)

\* A host handler only runs on a context that was not released, and its bridge
\* outlives the call, whatever thread makes it.
NoCallAfterFree ==
    \A c \in Callers : where[c] # "outside" =>
        target[c] \in bridges[onBehalf[c]] \ released[onBehalf[c]]

\* Two calls of one handler of one session never overlap, also when document
\* workers make them (cpsl.h:92, "serialized per session").
HandlersSerialized ==
    \A c, d \in Callers :
        where[c] = "inside" /\ where[d] = "inside"
            /\ onBehalf[c] = onBehalf[d] /\ target[c] = target[d]
        => c = d

\* Once a session is gone, or its creation failed for another reason than a
\* missing handler, the host has every context back, in every build of the
\* library.
EverythingHandedBack ==
    \A s \in Sessions :
        phase[s] = "dead" /\ (\A f \in Families : given[s][f] # "broken")
            => released[s] = Passed(s)

\* A call that failed while no other call was under way leaves its error for
\* the host to read until the next call begins.
ErrorShownWithoutOverlap == owed # NoError /\ alone => lastError = owed

\* A document worker that waits for the vision callback gets its turn, and its
\* handler returns.
WaitingCallersServed ==
    \A w \in Workers : where[w] = "waiting" ~> where[w] = "outside"
=============================================================================
