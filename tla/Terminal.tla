------------------------------ MODULE Terminal ------------------------------
(* The terminal of the web page (web/public/main.js, cpsl.worker.js and        *)
(* cpsl-web/src/main.rs): the page sends a line to a worker, which holds the   *)
(* session that collects lines into chunks and runs them.  Beside it, the      *)
(* read-eval-print loops of the command line (cli/src/main.rs) take the same   *)
(* lines: one loop per mode, a new one whenever the mode changes.              *)
EXTENDS Naturals, Sequences, FiniteSets

CONSTANTS
  MaxLines,   \* lines typed in one behaviour
  MaxClicks   \* changes of the mode

VARIABLES
  mode, prompt, ready, busy,   \* of the page
  toWorker, toPage,            \* messages posted and not yet taken
  session,                     \* of the worker: its mode, its buffer, and if a chunk is open
  loop,                        \* of the command line
  lines, clicks, clicked       \* lines typed, changes of the mode, and if any since the last line
terminal == <<mode, prompt, ready, busy, toWorker, toPage, session, loop, lines, clicks, clicked>>

(* A line, by what the programs tell apart: a "blank" one, one that "opens" a  *)
(* block, one that "closes" one, one that stands on its own ("whole"), and a   *)
(* Lua line that fails at run time with a text that looks like an unfinished   *)
(* chunk ("looks").                                                            *)
LineKinds == [bash |-> {"blank", "whole"}, python |-> {"blank", "whole", "opens"},
          lua |-> {"blank", "whole", "opens", "closes", "looks"}]
Mode == DOMAIN LineKinds

Prompt(m, incomplete) ==
  CASE m = "bash" -> "$"
    [] m = "python" -> IF incomplete THEN "..." ELSE ">>>"
    [] m = "lua" -> IF incomplete THEN ">>" ELSE ">"

\* A session, or a loop: `ran` are the chunks that ran or were refused for good.
Fresh(m, ran) == [mode |-> m, buffer |-> <<>>, multi |-> FALSE, ran |-> ran]
Runs(s, chunk) == [s EXCEPT !.buffer = <<>>, !.multi = FALSE, !.ran = Append(@, chunk)]
Collects(s, buffer) == [s EXCEPT !.buffer = buffer, !.multi = TRUE]

Count(chunk, kind) == Cardinality({i \in DOMAIN chunk : chunk[i].kind = kind})
Unfinished(chunk) == Count(chunk, "opens") > Count(chunk, "closes")
Has(chunk, kind) == \E i \in DOMAIN chunk : chunk[i].kind = kind
LooksUnfinished(chunk) == Has(chunk, "looks") /\ Count(chunk, "opens") = Count(chunk, "closes")

--------------------------------------------------------------------------------
(* The session of the worker (cpsl-web/src/main.rs) *)

eval_bash(s, line) == IF line.kind = "blank" THEN s ELSE Runs(s, <<line>>)

\* Mutant: the first line of a block is not kept.
eval_python_NoOpener(s, line) ==
  IF s.multi THEN IF line.kind = "blank" THEN Runs(s, s.buffer) ELSE Collects(s, Append(s.buffer, line))
  ELSE CASE line.kind = "blank" -> s [] line.kind = "opens" -> Collects(s, <<>>) [] OTHER -> Runs(s, <<line>>)
starts_python_block(line) == line.kind = "opens"
eval_python(s, line) ==
  CASE s.multi /\ line.kind = "blank" -> Runs(s, s.buffer)
    [] s.multi /\ line.kind # "blank" -> Collects(s, Append(s.buffer, line))
    [] ~s.multi /\ line.kind = "blank" -> s
    [] ~s.multi /\ line.kind # "blank" ->
         IF starts_python_block(line) THEN Collects(s, <<line>>) ELSE Runs(s, <<line>>)

\* A chunk that fails as an unfinished one stays, whether it ran or not.
is_incomplete_lua(chunk) == Unfinished(chunk) \/ LooksUnfinished(chunk)
eval_lua(s, line) ==
  LET chunk == IF s.multi THEN Append(s.buffer, line) ELSE <<line>> IN
  CASE line.kind = "blank" /\ ~s.multi -> s
    [] (line.kind # "blank" \/ s.multi) /\ is_incomplete_lua(chunk) ->
         [Collects(s, chunk) EXCEPT !.ran = IF Unfinished(chunk) THEN @ ELSE Append(@, chunk)]
    [] OTHER -> Runs(s, chunk)

\* Mutant: a change of the mode keeps the open chunk.
reset_buffers_Keeps(s) == s
reset_buffers(s) == Fresh(s.mode, s.ran)
eval(s, m, line) ==
  LET now == IF s.mode = m THEN s ELSE [reset_buffers(s) EXCEPT !.mode = m] IN
  CASE m = "bash" -> eval_bash(now, line)
    [] m = "python" -> eval_python(now, line)
    [] m = "lua" -> eval_lua(now, line)

--------------------------------------------------------------------------------
(* The loops of the command line (cli/src/main.rs) *)

bash_repl(s, line) == IF line.kind = "blank" THEN s ELSE Runs(s, <<line>>)

python_repl(s, line) ==
  IF line.kind = "blank" THEN IF s.multi THEN Runs(s, s.buffer) ELSE s
  ELSE IF s.multi THEN Collects(s, Append(s.buffer, line))
  ELSE IF line.kind = "opens" THEN Collects(s, <<line>>)
  ELSE Runs(s, <<line>>)

is_incomplete_error(chunk) == Unfinished(chunk) \/ LooksUnfinished(chunk)
repl(s, line) ==
  LET buffer == IF s.multi THEN Append(s.buffer, line) ELSE <<line>>
      tried == [s EXCEPT !.ran = IF Unfinished(buffer) THEN @ ELSE Append(@, buffer)] IN
  IF line.kind = "blank" /\ ~s.multi THEN s
  ELSE IF is_incomplete_error(buffer) THEN Collects(tried, buffer)
  ELSE [tried EXCEPT !.buffer = <<>>, !.multi = FALSE]

Readline(s, m, line) ==
  LET now == IF s.mode = m THEN s ELSE Fresh(m, s.ran) IN
  CASE m = "bash" -> bash_repl(now, line)
    [] m = "python" -> python_repl(now, line)
    [] m = "lua" -> repl(now, line)

--------------------------------------------------------------------------------
(* The page *)

\* A click on a mode, at any time
setMode(m) ==
  /\ clicks < MaxClicks /\ clicks' = clicks + 1
  /\ mode' = m /\ prompt' = Prompt(m, FALSE)
  /\ clicked' = TRUE
  /\ UNCHANGED <<ready, busy, toWorker, toPage, session, loop, lines>>

sendEval(kind) ==
  /\ ready /\ ~busy
  /\ Len(lines) < MaxLines
  /\ LET line == [n |-> Len(lines) + 1, mode |-> mode, kind |-> kind] IN
     /\ lines' = Append(lines, line)
     /\ toWorker' = Append(toWorker, [type |-> "eval", line |-> line])
  /\ busy' = TRUE /\ clicked' = FALSE
  /\ UNCHANGED <<mode, prompt, ready, toPage, session, loop, clicks>>

onMessage ==
  /\ toPage # <<>>
  /\ toPage' = Tail(toPage)
  /\ LET message == Head(toPage) IN
     \/ message.type = "ready" /\ ready' = TRUE /\ UNCHANGED prompt
     \/ message.type = "result" /\ prompt' = message.prompt /\ UNCHANGED ready
     \/ message.type = "error" /\ ready' = FALSE /\ UNCHANGED prompt
  /\ busy' = FALSE
  /\ UNCHANGED <<mode, toWorker, session, loop, lines, clicks, clicked>>

--------------------------------------------------------------------------------
(* The worker *)

\* EvalResponse::to_json
\* Mutant: the prompt is always that of a new chunk.
Response_Complete(m, s) == [type |-> "result", prompt |-> Prompt(m, FALSE)]
Response(m, s) == [type |-> "result", prompt |-> Prompt(m, s.multi)]
Posts(message) == toPage' = Append(toPage, message)
Takes(type) ==
  /\ toWorker # <<>> /\ Head(toWorker).type = type
  /\ toWorker' = Tail(toWorker)
  /\ UNCHANGED <<mode, prompt, ready, busy, lines, clicks, clicked>>

\* The session is made when the page loads; the program may be missing, or fail.
createSession ==
  /\ Takes("init")
  /\ Posts([type |-> "ready"]) \/ Posts([type |-> "error"])
  /\ UNCHANGED <<session, loop>>

\* The worker runs a line, and the command line takes it too.
evalLine ==
  /\ Takes("eval")
  /\ LET line == Head(toWorker).line
         after == eval(session, line.mode, line) IN
     /\ session' = after
     /\ Posts(Response(line.mode, after))
     /\ loop' = Readline(loop, line.mode, line)

\* The program traps: nothing is said of the session, and the page gives up.
Traps ==
  /\ Takes("eval")
  /\ Posts([type |-> "error"])
  /\ UNCHANGED <<session, loop>>

--------------------------------------------------------------------------------
TerminalInit ==
  /\ mode = "bash" /\ prompt = "$" /\ ready = FALSE /\ busy = TRUE
  /\ toWorker = <<[type |-> "init"]>> /\ toPage = <<>>
  /\ session = Fresh("bash", <<>>) /\ loop = Fresh("bash", <<>>)
  /\ lines = <<>> /\ clicks = 0 /\ clicked = FALSE

TerminalNext ==
  \/ \E m \in Mode : setMode(m)
  \/ \E kind \in LineKinds[mode] : sendEval(kind)
  \/ onMessage \/ createSession \/ evalLine \/ Traps
TerminalSpec == TerminalInit /\ [][TerminalNext]_terminal

--------------------------------------------------------------------------------
\* The prompt says how the next line is taken: as the first of a chunk, or as one
\* more of an open one (cpsl-web, EvalResponse; main.js, the result handler).  After a
\* click it may not: a click back to the mode of an open chunk shows the prompt of a
\* new one, and one before the answer is overwritten by it.
PromptTruthful ==
  ready /\ ~busy /\ ~clicked => prompt = Prompt(mode, session.mode = mode /\ session.multi)

Ids(chunk) == {chunk[i].n : i \in DOMAIN chunk}
InOrder(chunks) ==
  \A k, l \in DOMAIN chunks : \A i \in DOMAIN chunks[k], j \in DOMAIN chunks[l] :
    k < l \/ (k = l /\ i < j) => chunks[k][i].n < chunks[l][j].n
HasRun(i) == \E k \in DOMAIN session.ran : i \in Ids(session.ran[k])
OnItsWay(i) == \E j \in DOMAIN toWorker : toWorker[j].type = "eval" /\ toWorker[j].line.n = i
\* No line runs twice or before an earlier one, and none is lost: one that did not run
\* waits in the open chunk, is on its way (unless the program trapped), is blank, or a
\* later one is of another mode (cpsl-web, eval_python, eval_lua and reset_buffers).
\* Exempt are lines after one whose failure looks like an unfinished chunk: they run it
\* again.
LinesAccounted ==
  ready /\ (\A i \in DOMAIN toPage : toPage[i].type # "error") /\ ~Has(lines, "looks") =>
    /\ InOrder(session.ran)
    /\ \A i \in DOMAIN lines :
         \/ HasRun(i) \/ OnItsWay(i) \/ i \in Ids(session.buffer)
         \/ lines[i].kind = "blank"
         \/ \E j \in i..Len(lines) : lines[j].mode # lines[i].mode

\* The page runs what the command line runs (cli/src/main.rs, bash_repl, python_repl, repl).
SameAsCommandLine == session.ran = loop.ran
=============================================================================
