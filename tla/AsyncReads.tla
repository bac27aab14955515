----------------------------- MODULE AsyncReads -----------------------------
(***************************************************************************)
(* What doc.read, doc.readAsync and DocFuture:await promise to scripts,    *)
(* without the threads, the semaphore and the cache that keep the promise: *)
(* DocFutures implements it.                                               *)
(*                                                                         *)
(* A script asks for reads.  When it waits, it waits for all of the reads  *)
(* that are queued, and it goes on when each of them is answered or lost.  *)
(* An answer stays.                                                        *)
(***************************************************************************)

CONSTANTS
  Sessions,   \* scripts
  Reads,      \* the reads they ask for, each at most once
  Owner       \* the session whose script asks for a read

VARIABLES
  blocked,    \* the sessions whose script waits
  answer      \* what became of each read so far

vars == <<blocked, answer>>

Answers == {"text", "torn", "error"}

ReadsOf(s) == {r \in Reads : Owner[r] = s}

Becomes(r, to) == answer' = [answer EXCEPT ![r] = to]

Init ==
  /\ blocked = {}
  /\ answer = [r \in Reads |-> "unasked"]

\* A read is queued, or answered at once.
Ask(r) ==
  /\ Owner[r] \notin blocked /\ answer[r] = "unasked"
  /\ \E to \in Answers \cup {"queued"} : Becomes(r, to)
  /\ UNCHANGED blocked

\* The script asks for one read and waits for that one.
AskAndWait(r) ==
  /\ Owner[r] \notin blocked /\ answer[r] = "unasked"
  /\ Becomes(r, "awaited")
  /\ blocked' = blocked \cup {Owner[r]}

\* The script waits for every read of its queue.
Wait(s) ==
  /\ s \notin blocked
  /\ \E r \in ReadsOf(s) : answer[r] = "queued"
  /\ answer' = [r \in Reads |-> IF r \in ReadsOf(s) /\ answer[r] = "queued" THEN "awaited" ELSE answer[r]]
  /\ blocked' = blocked \cup {s}

\* A read is answered while its script waits for it, or lost to a panic.
Answer(r) ==
  /\ answer[r] = "awaited"
  /\ \E to \in Answers \cup {"lost"} : Becomes(r, to)
  /\ UNCHANGED blocked

GoOn(s) ==
  /\ s \in blocked
  /\ \A r \in ReadsOf(s) : answer[r] # "awaited"
  /\ blocked' = blocked \ {s}
  /\ UNCHANGED answer

\* A new process knows nothing of the reads of the old one.
Restart(s) ==
  /\ answer' = [r \in Reads |-> IF r \in ReadsOf(s) THEN "unasked" ELSE answer[r]]
  /\ blocked' = blocked \ {s}

Next ==
  \/ \E r \in Reads : Ask(r) \/ AskAndWait(r) \/ Answer(r)
  \/ \E s \in Sessions : Wait(s) \/ GoOn(s) \/ Restart(s)

Spec == Init /\ [][Next]_vars
=============================================================================
