---------------------------- MODULE DocFutures ----------------------------
(***************************************************************************)
(* doc.read, doc.readAsync and DocFuture:await of core/src/doc.rs, with    *)
(* the counting semaphore and the disk cache of core/src/doc/vision.rs.    *)
(*                                                                         *)
(* A session is one sandbox: its script runs on one thread, issues reads,  *)
(* and blocks in `await` while a batch of worker threads, one per pending  *)
(* read, resolves every read the script has issued so far.  Sessions share *)
(* nothing but the cache directory.  std::fs::write opens the file, which  *)
(* truncates it, and then writes it: the two are separate actions, and a   *)
(* crash or an I/O error can fall between them.                            *)
(***************************************************************************)
EXTENDS Naturals, FiniteSets

CONSTANTS
  Sessions,   \* sandboxes with the same cache directory
  Reads,      \* the reads scripts issue, each at most once per process
  Owner,      \* the session whose script issues a read
  Keys,       \* cache keys: hash of the file and of the query
  KeyOf,      \* the key of a read
  MAX_CONCURRENT_READS

ASSUME ReadsAssumption ==
  /\ IsFiniteSet(Reads)
  /\ Owner \in [Reads -> Sessions]
  /\ KeyOf \in [Reads -> Keys]
  /\ MAX_CONCURRENT_READS \in Nat \ {0}

VARIABLES
  script,     \* per session: "run", or "join" while blocked for its reads
  stage,      \* where each read is
  slot,       \* result_slot of each read
  permits,    \* the semaphore of each session's current await
  cache,      \* what the file of each key holds
  caching,    \* whether sessions were built with a cache directory
  spoiled     \* history: keys whose file an interrupted write left truncated,
              \* or that two threads were resolving at the same time

vars == <<script, stage, slot, permits, cache, caching, spoiled>>

---------------------------------------------------------------------------
(* A read goes unused -> pending -> acquire -> lookup -> call -> create ->  *)
(* write -> fill -> release -> done; doc.read enters at d_lookup, on the    *)
(* script's own thread and without a permit.                               *)

Permitted == {"lookup", "call", "create", "write", "fill", "release", "unwind"}
Waiting   == {"acquire", "waiting"}
Direct    == {"d_lookup", "d_call", "d_create", "d_write", "d_fill"}
Resolving == Permitted \cup Waiting \cup Direct
Resting   == {"unused", "pending", "done", "panicked"}
Stages    == Resolving \cup Resting

\* Where a read may touch the cache file of its key
InCache == {"lookup", "call", "create", "write", "d_lookup", "d_call", "d_create", "d_write"}

ReadsOf(s) == {r \in Reads : Owner[r] = s}
Holders(s) == {r \in ReadsOf(s) : stage[r] \in Permitted}

TypeOK ==
  /\ script \in [Sessions -> {"run", "join"}]
  /\ stage \in [Reads -> Stages]
  /\ slot \in [Reads -> {"empty", "text", "torn", "error"}]
  /\ permits \in [Sessions -> 0..MAX_CONCURRENT_READS]
  /\ cache \in [Keys -> {"absent", "torn", "whole"}]
  /\ caching \in BOOLEAN
  /\ spoiled \subseteq Keys

Init ==
  /\ script = [s \in Sessions |-> "run"]
  /\ stage = [r \in Reads |-> "unused"]
  /\ slot = [r \in Reads |-> "empty"]
  /\ permits = [s \in Sessions |-> MAX_CONCURRENT_READS]
  /\ cache = [k \in Keys |-> "absent"]
  /\ caching \in BOOLEAN
  /\ spoiled = {}

---------------------------------------------------------------------------
(* Steps of the parts.  Move records the keys that are now being resolved   *)
(* by two threads.                                                         *)

Shared(st) == {k \in Keys : \E r1, r2 \in Reads :
                 /\ r1 # r2 /\ KeyOf[r1] = k /\ KeyOf[r2] = k
                 /\ st[r1] \in InCache /\ st[r2] \in InCache}

Move(st) == stage' = st /\ spoiled' = spoiled \cup Shared(st)

Go(r, to) == Move([stage EXCEPT ![r] = to])

\* Like Go, for a step that reads the cache without stopping at a stage
Enter(r, to) ==
  /\ stage' = [stage EXCEPT ![r] = to]
  /\ spoiled' = spoiled \cup Shared([stage EXCEPT ![r] = "lookup"])

\* result_slot := Some(result)
Fill(r, result) == slot' = [slot EXCEPT ![r] = result]

\* cache_read: no file, or one whose cut text is not UTF-8, is a miss
CacheRead(k) ==
  IF ~caching \/ cache[k] = "absent" THEN {"miss"}
  ELSE IF cache[k] = "torn" THEN {"torn", "miss"} ELSE {"text"}

SetCache(k, file) == cache' = [cache EXCEPT ![k] = file]

---------------------------------------------------------------------------
(* doc.readAsync: a structural read, a cached one, a session without a      *)
(* vision callback and a failing vision_inputs resolve in place; any other *)
(* read is queued.                                                         *)

ReadAsync(r) ==
  /\ script[Owner[r]] = "run" /\ stage[r] = "unused"
  /\ \/ \E result \in {"text", "error"} : Enter(r, "done") /\ Fill(r, result)
     \/ \E hit \in CacheRead(KeyOf[r]) \ {"miss"} : Enter(r, "done") /\ Fill(r, hit)
     \/ "miss" \in CacheRead(KeyOf[r]) /\ Enter(r, "pending") /\ UNCHANGED slot
  /\ UNCHANGED <<script, permits, cache, caching>>

\* doc.read in vision mode: the same stages on the script's thread
Read(r) ==
  /\ script[Owner[r]] = "run" /\ stage[r] = "unused"
  /\ script' = [script EXCEPT ![Owner[r]] = "join"]
  /\ Go(r, "d_lookup")
  /\ UNCHANGED <<slot, permits, cache, caching>>

\* The reads await drains from the queue: all of the session's
Batch(s) == {r \in ReadsOf(s) : stage[r] = "pending"}

\* DocFuture:await on an unresolved future.  A resolved one returns its slot
\* and an empty queue is an error: neither changes anything.
Await(r) ==
  LET s == Owner[r]
  IN  /\ script[s] = "run" /\ stage[r] # "unused" /\ slot[r] = "empty"
      /\ Batch(s) # {}
      /\ script' = [script EXCEPT ![s] = "join"]
      /\ permits' = [permits EXCEPT ![s] = MAX_CONCURRENT_READS]
      /\ Move([q \in Reads |-> IF q \in Batch(s) THEN "acquire" ELSE stage[q]])
      /\ UNCHANGED <<slot, cache, caching>>

\* Every thread of the scope has been joined
Joined(s) == \A r \in ReadsOf(s) : stage[r] \in Resting

Return(s) ==
  /\ script[s] = "join" /\ Joined(s)
  /\ script' = [script EXCEPT ![s] = "run"]
  /\ UNCHANGED <<stage, slot, permits, cache, caching, spoiled>>

---------------------------------------------------------------------------
(* Semaphore *)

Acquire(r) ==
  LET s == Owner[r]
  IN  /\ stage[r] = "acquire"
      /\ \/ permits[s] > 0 /\ Go(r, "lookup") /\ permits' = [permits EXCEPT ![s] = @ - 1]
         \/ permits[s] = 0 /\ Go(r, "waiting") /\ UNCHANGED permits
      /\ UNCHANGED <<script, slot, cache, caching>>

\* Condvar::wait may return without a notification.
SpuriousWake(r) ==
  /\ stage[r] = "waiting"
  /\ Go(r, "acquire")
  /\ UNCHANGED <<script, slot, permits, cache, caching>>

Sleepers(s) == {r \in ReadsOf(s) : stage[r] = "waiting"}

\* Mutant: gives the permit back without notifying
Wakes_None(s) == {{}}

\* notify_one: one waiter, if there is one
Wakes(s) == IF Sleepers(s) = {} THEN {{}} ELSE {{r} : r \in Sleepers(s)}

\* SemaphoreGuard::drop runs on return and when the thread unwinds
GivenBack(r) == 1

Release(r) ==
  LET s == Owner[r]
  IN  /\ stage[r] \in {"release", "unwind"}
      /\ permits' = [permits EXCEPT ![s] = @ + GivenBack(r)]
      /\ \E woken \in Wakes(s) :
           Move([q \in Reads |-> IF q = r THEN IF stage[r] = "release" THEN "done" ELSE "panicked"
                                 ELSE IF q \in woken THEN "acquire" ELSE stage[q]])
      /\ UNCHANGED <<script, slot, cache, caching>>

---------------------------------------------------------------------------
(* resolve_pending_read, and the same steps of doc.read.  `at` and `to`     *)
(* name the stages of a worker; doc.read's carry the prefix.               *)

On(r, at, d_at) == stage[r] \in {at, d_at}

Onward(r, to, d_to) == Go(r, IF stage[r] \in Direct THEN d_to ELSE to)

Finished(r) == Onward(r, "release", "done")

Lookup(r) ==
  /\ On(r, "lookup", "d_lookup")
  /\ \E hit \in CacheRead(KeyOf[r]) :
       IF hit = "miss" THEN Onward(r, "call", "d_call") /\ UNCHANGED slot
       ELSE Fill(r, hit) /\ Finished(r)
  /\ UNCHANGED <<script, permits, cache, caching>>

\* The callback answers with text, which goes to the cache if there is one.
CallOk(r) ==
  /\ On(r, "call", "d_call")
  /\ IF caching THEN Onward(r, "create", "d_create") ELSE Onward(r, "fill", "d_fill")
  /\ UNCHANGED <<script, slot, permits, cache, caching>>

CallErr_Silent(r) == \* Mutant: the error is reported nowhere.
  /\ On(r, "call", "d_call")
  /\ Finished(r)
  /\ UNCHANGED <<script, slot, permits, cache, caching>>

\* Or with an error, which is not cached.
CallErr(r) ==
  /\ On(r, "call", "d_call")
  /\ Fill(r, "error")
  /\ Finished(r)
  /\ UNCHANGED <<script, permits, cache, caching>>

\* A panic of the callback kills the worker; its slot stays empty.
CallPanic(r) ==
  /\ stage[r] = "call"
  /\ Go(r, "unwind")
  /\ UNCHANGED <<script, slot, permits, cache, caching>>

\* cache_write: create_dir_all, then fs::write opens and truncates the file,
\* or fails to; errors are ignored.
Create(r) ==
  /\ On(r, "create", "d_create")
  /\ \/ SetCache(KeyOf[r], "torn") /\ Onward(r, "write", "d_write")
     \/ Onward(r, "fill", "d_fill") /\ UNCHANGED cache
  /\ UNCHANGED <<script, slot, permits, caching>>

\* Mutant: stops after the first chunk of the text
WriteAll_Partial(r) == SetCache(KeyOf[r], "torn")

WriteAll(r) == SetCache(KeyOf[r], "whole")

Write(r) ==
  /\ On(r, "write", "d_write")
  /\ WriteAll(r)
  /\ Onward(r, "fill", "d_fill")
  /\ UNCHANGED <<script, slot, permits, caching>>

\* The write fails half way, the disk being full: the file stays cut.
WriteFails(r) ==
  /\ On(r, "write", "d_write")
  /\ stage' = [stage EXCEPT ![r] = IF stage[r] = "write" THEN "fill" ELSE "d_fill"]
  /\ spoiled' = spoiled \cup {KeyOf[r]}
  /\ UNCHANGED <<script, slot, permits, cache, caching>>

FillText(r) ==
  /\ On(r, "fill", "d_fill")
  /\ Fill(r, "text")
  /\ Finished(r)
  /\ UNCHANGED <<script, permits, cache, caching>>

---------------------------------------------------------------------------
\* The process of a session dies and a new one starts; the cache stays.
Crash(s) ==
  /\ script' = [script EXCEPT ![s] = "run"]
  /\ permits' = [permits EXCEPT ![s] = MAX_CONCURRENT_READS]
  /\ stage' = [r \in Reads |-> IF Owner[r] = s THEN "unused" ELSE stage[r]]
  /\ slot' = [r \in Reads |-> IF Owner[r] = s THEN "empty" ELSE slot[r]]
  /\ spoiled' = spoiled \cup {KeyOf[r] : r \in {q \in ReadsOf(s) : On(q, "write", "d_write")}}
  /\ UNCHANGED <<cache, caching>>

Resolve(r) ==
  \/ Acquire(r) \/ Lookup(r) \/ CallOk(r) \/ CallErr(r) \/ CallPanic(r)
  \/ Create(r) \/ Write(r) \/ WriteFails(r) \/ FillText(r) \/ Release(r)

Next ==
  \/ \E r \in Reads : ReadAsync(r) \/ Read(r) \/ Await(r) \/ SpuriousWake(r) \/ Resolve(r)
  \/ \E s \in Sessions : Return(s) \/ Crash(s)

Spec == Init /\ [][Next]_vars

\* Threads are scheduled and vision callbacks return; scripts owe nothing.
Fairness ==
  /\ \A r \in Reads : WF_vars(Resolve(r))
  /\ \A s \in Sessions : WF_vars(Return(s))

FairSpec == Spec /\ Fairness

---------------------------------------------------------------------------
(* Properties *)

\* At most MAX_CONCURRENT_READS threads of an await are past the semaphore,
\* and none of its permits is ever lost, panics included (vision.rs:15).
PermitsAccounted ==
  \A s \in Sessions : permits[s] + Cardinality(Holders(s)) = MAX_CONCURRENT_READS

\* When await returns, every read the script has issued is resolved, except
\* one whose callback panicked: the batch is joined as a whole (doc.rs:698).
BatchResolved ==
  \A r \in Reads :
    /\ script[Owner[r]] = "run"
    /\ stage[r] \notin {"unused", "pending", "panicked"}
    => slot[r] # "empty"

\* A result handed out stays what it was: awaiting again, or awaiting another
\* future, resolves nothing twice (doc.rs:607, "already resolved").
ResolvedOnce ==
  [][\A r \in Reads : slot[r] # "empty" /\ stage'[r] # "unused" => slot'[r] = slot[r]]_vars

\* A read yields a truncated text only if two threads had been resolving its
\* key at once or a write of its file was cut short.
TornOnlyIfSpoiled == \A r \in Reads : slot[r] = "torn" => KeyOf[r] \in spoiled

\* A resolved read has the whole text of its document, or an error
\* (doc.rs:582, "Read a document file and extract its text").
WholeText == \A r \in Reads : slot[r] # "torn"

\* An await that has drained the queue returns: no wake-up of the semaphore
\* is lost, whatever panics.
AwaitReturns == \A s \in Sessions : script[s] = "join" ~> script[s] = "run"

\* What a script can tell of a read.
Outcome(r) ==
  IF slot[r] # "empty" THEN slot[r]
  ELSE IF stage[r] = "unused" THEN "unasked"
  ELSE IF stage[r] = "pending" THEN "queued"
  ELSE IF stage[r] \in {"unwind", "panicked"} THEN "lost" ELSE "awaited"

Promise == INSTANCE AsyncReads
  WITH blocked <- {s \in Sessions : script[s] = "join"}, answer <- [r \in Reads |-> Outcome(r)]

\* Threads, permits, wake-ups and the cache do what a script is promised: it
\* waits exactly for the reads that were queued when it began to, each gets one
\* answer, only while it waits, and the reads of other scripts get nothing of it.
KeepsPromise == Promise!Spec
=============================================================================
