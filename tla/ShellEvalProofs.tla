-------------------------- MODULE ShellEvalProofs --------------------------
(***************************************************************************)
(* What ShellEval promises for any texts, exit codes and bounds.  The      *)
(* inductive invariant says that pipe_depth counts the contexts that are   *)
(* open, and that the buffer and the newline still due make up what a      *)
(* process would have written.                                             *)
(*                                                                         *)
(* Then what Terminal promises for any number of lines and clicks.         *)
(***************************************************************************)
EXTENDS ShellEval, Terminal, SequenceTheorems, TLAPS

\* pipe_depth counts the open contexts, and there is none between evaluations.
Balanced == pipe_depth = Len(nest) /\ (phase = "idle" => nest = <<>>)

\* What was written is the buffer and the newline it still owes.
Buffered == ~returned => shown = print_buf \o Due(needs_newline)

\* The answer has the buffer and its final newline, which only a lone empty
\* print loses.
Answered ==
    phase = "idle" /\ response.via = "end" => response.stdout = Stdout

\* The code an exit raises is in $? until the host reads it.
CodeKept ==
    /\ phase = "raised" /\ raised # NoText => language = "bash" /\ raised = last_exit_code
    /\ phase = "idle" /\ response.ok /\ language = "bash" => response.exit_code = last_exit_code

IInv == TypeOK /\ Balanced /\ Buffered /\ Answered /\ CodeKept

USE DEF Kinds, output, control, context

LEMMA DueTyped ==
  ASSUME NEW nl \in BOOLEAN
  PROVE  Due(nl) \in Seq(Char)
BY TextsAssumption DEF Due

LEMMA StrippedTyped ==
  ASSUME NEW t \in Seq(Char)
  PROVE  Stripped(t) \in Seq(Char)
<1>1. CASE t # <<>> /\ t[Len(t)] = NL
  BY <1>1, SubSeqProperties, LenProperties, EmptySeq DEF Stripped
<1>2. CASE ~(t # <<>> /\ t[Len(t)] = NL)
  BY <1>2 DEF Stripped
<1> QED BY <1>1, <1>2

\* The three variables of the output, as an action leaves them.
OutputKept ==
    /\ print_buf' \in Seq(Char) /\ shown' \in Seq(Char) /\ needs_newline' \in BOOLEAN
    /\ ~returned => shown' = print_buf' \o Due(needs_newline')

LEMMA PrintKeeps ==
  ASSUME TypeOK, Buffered, NEW t \in Seq(Char), PrintFn(t)
  PROVE  OutputKept
<1>1. <<NL>> \in Seq(Char) /\ Due(TRUE) = <<NL>>
  BY TextsAssumption DEF Due
<1>2. Due(needs_newline) \in Seq(Char)
  BY DueTyped DEF TypeOK
<1>3. print_buf \o Due(needs_newline) \in Seq(Char)
  BY <1>2, ConcatProperties DEF TypeOK
<1>4. print_buf' \in Seq(Char)
  BY <1>3, ConcatProperties DEF PrintFn
<1>5. shown \o t \in Seq(Char)
  BY ConcatProperties DEF TypeOK
<1>6. shown' \in Seq(Char)
  BY <1>1, <1>5, ConcatProperties DEF PrintFn
<1>7. ~returned => shown' = print_buf' \o Due(needs_newline')
  BY <1>1 DEF PrintFn, Buffered
<1> QED BY <1>4, <1>6, <1>7 DEF OutputKept, PrintFn

LEMMA WriteKeeps ==
  ASSUME TypeOK, Buffered, NEW t \in Seq(Char), WriteFn(t)
  PROVE  OutputKept
<1>1. Due(FALSE) = <<>>
  BY DEF Due
<1>2. Due(needs_newline) \in Seq(Char)
  BY DueTyped DEF TypeOK
<1>3. print_buf \o Due(needs_newline) \in Seq(Char)
  BY <1>2, ConcatProperties DEF TypeOK
<1>4. print_buf' \in Seq(Char)
  BY <1>3, ConcatProperties DEF WriteFn
<1>5. shown' \in Seq(Char)
  BY ConcatProperties DEF WriteFn, TypeOK
<1>6. print_buf' \o <<>> = print_buf'
  BY <1>4, ConcatEmptySeq
<1>7. ~returned => shown' = print_buf' \o Due(needs_newline')
  BY <1>1, <1>6 DEF WriteFn, Buffered
<1> QED BY <1>4, <1>5, <1>7 DEF OutputKept, WriteFn

LEMMA UnchangedKeeps ==
  ASSUME TypeOK, Buffered, UNCHANGED output
  PROVE  OutputKept
BY DEF OutputKept, TypeOK, Buffered

LEMMA EmitKeeps ==
  ASSUME TypeOK, Buffered, NEW t \in Seq(Char),
         NEW d, IF d = 0 /\ Stripped(t) # <<>> THEN PrintFn(Stripped(t)) ELSE UNCHANGED output
  PROVE  OutputKept
<1>1. Stripped(t) \in Seq(Char)
  BY StrippedTyped
<1> QED BY <1>1, PrintKeeps, UnchangedKeeps

-----------------------------------------------------------------------------

LEMMA InitInv == Init => IInv
<1> SUFFICES ASSUME Init PROVE IInv
  OBVIOUS
<1>1. TypeOK
  BY CodesAssumption, EmptySeq DEF Init, TypeOK, NoResponse
<1>2. Balanced
  BY EmptySeq DEF Init, Balanced
<1>3. Buffered
  <2>1. <<>> \o <<>> = <<>>
    BY EmptySeq, ConcatEmptySeq
  <2> QED BY <2>1 DEF Init, Buffered, Due
<1>4. Answered /\ CodeKept
  BY DEF Init, Answered, CodeKept, NoResponse
<1> QED BY <1>1, <1>2, <1>3, <1>4 DEF IInv

\* A command outside and inside contexts: only outputs, codes, value and steps
\* change.
LEMMA CommandInv ==
  ASSUME IInv, phase = "running", OutputKept,
         UNCHANGED <<control, context>>,
         steps' = steps + 1, value' \in Seq(Char) \cup {NoText, Bool},
         last_exit_code' \in Codes
  PROVE  IInv'
<1> USE DEF IInv
<1>1. TypeOK'
  BY DEF TypeOK, OutputKept
<1>2. Balanced' /\ Buffered' /\ Answered' /\ CodeKept'
  BY DEF Balanced, Buffered, Answered, CodeKept, OutputKept
<1> QED BY <1>1, <1>2

LEMMA BashCommandInv ==
  ASSUME IInv, NEW t \in Texts,
         Echo(t) \/ EchoN(t) \/ Show(t) \/ Fail(t) \/ Warn(t) \/ Tell(t)
  PROVE  IInv'
<1> USE DEF IInv
<1>1. t \in Seq(Char) /\ <<>> \in Seq(Char) /\ 0 \in Codes /\ 1 \in Codes
  BY TextsAssumption, CodesAssumption, EmptySeq
<1>2. ASSUME emit(t) PROVE OutputKept
  BY <1>1, <1>2, EmitKeeps DEF emit
<1>3. CASE Echo(t)
  BY <1>1, <1>2, <1>3, CommandInv DEF Echo, Bash, Ready, TypeOK
<1>4. CASE EchoN(t)
  <2>1. OutputKept
    BY <1>1, <1>4, WriteKeeps, UnchangedKeeps DEF EchoN
  <2> QED BY <1>1, <1>4, <2>1, CommandInv DEF EchoN, Bash, Ready, TypeOK
<1>5. CASE Show(t)
  BY <1>1, <1>2, <1>5, CommandInv DEF Show, Bash, Ready, TypeOK
<1>6. CASE Fail(t)
  BY <1>1, <1>2, <1>6, CommandInv DEF Fail, Bash, Ready, TypeOK
<1>7. CASE Warn(t)
  BY <1>1, <1>7, PrintKeeps, CommandInv DEF Warn, Bash, Ready, TypeOK
<1>8. CASE Tell(t)
  BY <1>1, <1>8, PrintKeeps, CommandInv DEF Tell, Bash, Ready, TypeOK
<1> QED BY <1>3, <1>4, <1>5, <1>6, <1>7, <1>8

LEMMA DecideInv ==
  ASSUME IInv, NEW code \in {0, 1}, Decide(code)
  PROVE  IInv'
BY TextsAssumption, CodesAssumption, UnchangedKeeps, CommandInv
   DEF IInv, Decide, Bash, Ready, TypeOK

LEMMA LuauCommandInv ==
  ASSUME IInv, NEW t \in Texts, LuauPrint(t) \/ LuauWrite(t)
  PROVE  IInv'
<1> USE DEF IInv
<1>1. t \in Seq(Char)
  BY TextsAssumption
<1>2. OutputKept
  BY <1>1, PrintKeeps, WriteKeeps DEF LuauPrint, LuauWrite
<1> QED BY <1>2, CommandInv DEF LuauPrint, LuauWrite, Luau, Ready, TypeOK

LEMMA LuauReturnInv ==
  ASSUME IInv, NEW t \in Texts, LuauReturn(t)
  PROVE  IInv'
<1> USE DEF IInv
<1>1. t \in Seq(Char) /\ <<NL>> \in Seq(Char)
  BY TextsAssumption
<1>2. <<NL>> \o t \in Seq(Char)
  BY <1>1, ConcatProperties
<1>3. print_buf' \in Seq(Char)
  BY <1>1, <1>2, ConcatProperties DEF LuauReturn, TypeOK
<1>4. TypeOK'
  BY <1>3 DEF LuauReturn, Luau, TypeOK
<1>5. Balanced' /\ Buffered' /\ Answered' /\ CodeKept'
  BY DEF LuauReturn, Luau, Ready, Balanced, Buffered, Answered, CodeKept
<1> QED BY <1>4, <1>5

LEMMA CrashInv ==
  ASSUME IInv, Crash
  PROVE  IInv'
<1> USE DEF IInv
<1>1. TypeOK'
  BY DEF Crash, TypeOK
<1>2. Balanced' /\ Buffered' /\ Answered' /\ CodeKept'
  BY DEF Crash, Ready, Balanced, Buffered, Answered, CodeKept
<1> QED BY <1>1, <1>2

LEMMA ExitInv ==
  ASSUME IInv, NEW code \in Codes, Exit(code)
  PROVE  IInv'
<1> USE DEF IInv
<1>1. TypeOK'
  BY DEF Exit, TypeOK
<1>2. Balanced' /\ Buffered' /\ Answered' /\ CodeKept'
  BY DEF Exit, Ready, Balanced, Buffered, Answered, CodeKept
<1> QED BY <1>1, <1>2

LEMMA OpenInv ==
  ASSUME IInv, NEW kind \in Kinds, Open(kind)
  PROVE  IInv'
<1> USE DEF IInv
<1>1. nest' \in Seq(Kinds) /\ Len(nest') = Len(nest) + 1
  BY AppendProperties DEF Open, TypeOK
<1>2. TypeOK'
  BY <1>1 DEF Open, TypeOK
<1>3. Balanced' /\ Buffered' /\ Answered' /\ CodeKept'
  BY <1>1 DEF Open, Ready, Balanced, Buffered, Answered, CodeKept
<1> QED BY <1>2, <1>3

\* The stack of contexts without its innermost one.
LEMMA Shorter ==
  ASSUME NEW s \in Seq(Kinds), s # <<>>
  PROVE  /\ SubSeq(s, 1, Len(s) - 1) \in Seq(Kinds)
         /\ Len(SubSeq(s, 1, Len(s) - 1)) = Len(s) - 1
         /\ Len(s) - 1 \in Nat
BY SubSeqProperties, LenProperties, EmptySeq

\* The end of a context: the file, the codes and the value may change too.
LEMMA LeavingInv ==
  ASSUME IInv, NEW kind \in Kinds, Leaving(kind), OutputKept, UNCHANGED <<control, steps>>,
         value' \in Seq(Char) \cup {NoText, Bool},
         last_exit_code' \in Codes
  PROVE  IInv'
<1> USE DEF IInv
<1>1. nest # <<>> /\ phase = "running"
      /\ nest' = SubSeq(nest, 1, Len(nest) - 1) /\ pipe_depth' = pipe_depth - 1
  BY DEF Leaving
<1>2. nest' \in Seq(Kinds) /\ pipe_depth' \in Nat /\ pipe_depth' = Len(nest')
  BY <1>1, Shorter DEF TypeOK, Balanced
<1>3. TypeOK'
  BY <1>2 DEF TypeOK, OutputKept
<1>4. Balanced' /\ Buffered' /\ Answered' /\ CodeKept'
  BY <1>1, <1>2 DEF Balanced, Buffered, Answered, CodeKept, OutputKept
<1> QED BY <1>3, <1>4

LEMMA ClosePipeInv ==
  ASSUME IInv, ClosePipe
  PROVE  IInv'
<1> USE DEF IInv
<1>1. CASE value = Bool
  <2>1. pipe_depth' # 0
    BY <1>1 DEF ClosePipe
  <2> QED BY <2>1, UnchangedKeeps, LeavingInv DEF ClosePipe, TypeOK
<1>2. CASE value # Bool
  <2>1. value \in Seq(Char)
    BY <1>2 DEF ClosePipe, Leaving, TypeOK
  <2>2. OutputKept
    <3>1. PrintFn(Stripped(value)) \/ UNCHANGED output
      BY DEF ClosePipe
    <3>2. Stripped(value) \in Seq(Char)
      BY <2>1, StrippedTyped
    <3> QED BY <3>1, <3>2, PrintKeeps, UnchangedKeeps
  <2>3. /\ Leaving("pipe") /\ UNCHANGED <<control, steps, value, last_exit_code>>
        /\ "pipe" \in Kinds
    BY DEF ClosePipe
  <2> QED BY <2>2, <2>3, LeavingInv DEF TypeOK
<1> QED BY <1>1, <1>2

LEMMA PipeRaisesInv ==
  ASSUME IInv, PipeRaises
  PROVE  IInv'
<1> USE DEF IInv
<1>1. nest # <<>> /\ nest' = SubSeq(nest, 1, Len(nest) - 1) /\ pipe_depth' = pipe_depth - 1
  BY DEF PipeRaises, Leaving
<1>2. nest' \in Seq(Kinds) /\ pipe_depth' \in Nat /\ pipe_depth' = Len(nest')
  BY <1>1, Shorter DEF TypeOK, Balanced
<1>3. TypeOK'
  BY <1>2 DEF PipeRaises, TypeOK
<1>4. Balanced' /\ Buffered' /\ Answered' /\ CodeKept'
  BY <1>1, <1>2 DEF PipeRaises, Balanced, Buffered, Answered, CodeKept
<1> QED BY <1>3, <1>4

LEMMA CloseCaptureInv ==
  ASSUME IInv, CloseCapture
  PROVE  IInv'
BY UnchangedKeeps, LeavingInv DEF IInv, CloseCapture, TypeOK

LEMMA CloseRedirectInv ==
  ASSUME IInv, CloseRedirect
  PROVE  IInv'
BY CodesAssumption, EmptySeq, UnchangedKeeps, LeavingInv DEF IInv, CloseRedirect, TypeOK

LEMMA RedirectNullInv ==
  ASSUME IInv, RedirectNull
  PROVE  IInv'
BY EmptySeq, UnchangedKeeps, LeavingInv DEF IInv, RedirectNull, TypeOK

LEMMA RedirectFailsInv ==
  ASSUME IInv, NEW t \in Texts, RedirectFails(t)
  PROVE  IInv'
<1> USE DEF IInv
<1>1. t \in Seq(Char) /\ <<>> \in Seq(Char) /\ 1 \in Codes
  BY TextsAssumption, CodesAssumption, EmptySeq
<1>2. OutputKept
  BY <1>1, EmitKeeps DEF RedirectFails
<1> QED BY <1>1, <1>2, LeavingInv DEF RedirectFails, TypeOK

LEMMA UnwindInv ==
  ASSUME IInv, Unwind
  PROVE  IInv'
<1> USE DEF IInv
<1>1. nest' \in Seq(Kinds) /\ pipe_depth' \in Nat /\ pipe_depth' = Len(nest')
  BY Shorter DEF Unwind, TypeOK, Balanced
<1>2. TypeOK'
  BY <1>1 DEF Unwind, TypeOK
<1>3. Balanced' /\ Buffered' /\ Answered' /\ CodeKept'
  BY <1>1 DEF Unwind, Balanced, Buffered, Answered, CodeKept
<1> QED BY <1>2, <1>3

LEMMA EvalInv ==
  ASSUME IInv, NEW lang \in {"bash", "luau"}, Eval(lang)
  PROVE  IInv'
<1> USE DEF IInv
<1>1. <<>> \in Seq(Char) /\ <<>> \o <<>> = <<>>
  BY EmptySeq, ConcatEmptySeq
<1>2. TypeOK'
  BY <1>1, CodesAssumption DEF Eval, TypeOK, NoResponse
<1>3. Buffered'
  BY <1>1 DEF Eval, Buffered, Due
<1>4. Balanced' /\ Answered' /\ CodeKept'
  BY DEF Eval, Balanced, Answered, CodeKept
<1> QED BY <1>2, <1>3, <1>4

LEMMA FinishInv ==
  ASSUME IInv, Finish \/ FinishRaised
  PROVE  IInv'
<1> USE DEF IInv
<1>1. <<>> \in Seq(Char) /\ <<NL>> \in Seq(Char)
  BY TextsAssumption, EmptySeq
<1>2. print_buf \o <<NL>> \in Seq(Char)
  BY <1>1, ConcatProperties DEF TypeOK
<1>3. Stdout \in Seq(Char)
  BY <1>2 DEF Stdout, TypeOK
<1>4. CASE Finish
  <2>1. response' \in [ok : BOOLEAN, stdout : Seq(Char), exit_code : Codes,
                       via : {"none", "end", "error"}]
    BY <1>3, <1>4, CodesAssumption DEF Finish, Answer, TypeOK
  <2>2. TypeOK'
    BY <1>4, <2>1 DEF Finish, Answer, TypeOK
  <2>3. Balanced' /\ Buffered' /\ CodeKept'
    BY <1>4 DEF Finish, Answer, Balanced, Buffered, CodeKept
  <2>4. Answered'
    BY <1>4 DEF Finish, Answer, Answered, Stdout
  <2> QED BY <2>2, <2>3, <2>4
<1>5. CASE FinishRaised
  <2>1. response' \in [ok : BOOLEAN, stdout : Seq(Char), exit_code : Codes,
                       via : {"none", "end", "error"}]
    BY <1>1, <1>5, CodesAssumption DEF FinishRaised, Answer, TypeOK
  <2>2. TypeOK'
    BY <1>5, <2>1 DEF FinishRaised, Answer, TypeOK
  <2>3. Balanced' /\ Buffered' /\ Answered' /\ CodeKept'
    BY <1>5 DEF FinishRaised, Answer, Balanced, Buffered, Answered, CodeKept
  <2> QED BY <2>2, <2>3
<1> QED BY <1>4, <1>5

LEMMA NextInv == IInv /\ [Next]_vars => IInv'
<1> SUFFICES ASSUME IInv, [Next]_vars PROVE IInv'
  OBVIOUS
<1>1. ASSUME NEW t \in Texts,
             Echo(t) \/ EchoN(t) \/ Show(t) \/ Fail(t) \/ Warn(t) \/ Tell(t)
      PROVE  IInv'
  BY <1>1, BashCommandInv
<1>2. ASSUME NEW t \in Texts,
             RedirectFails(t) \/ LuauPrint(t) \/ LuauWrite(t) \/ LuauReturn(t)
      PROVE  IInv'
  BY <1>2, RedirectFailsInv, LuauCommandInv, LuauReturnInv
<1>3. ASSUME NEW code \in {0, 1}, Decide(code) PROVE IInv'
  BY <1>3, DecideInv
<1>4. ASSUME NEW code \in Codes, Exit(code) PROVE IInv'
  BY <1>4, ExitInv
<1>5. ASSUME NEW kind \in Kinds, Open(kind) PROVE IInv'
  BY <1>5, OpenInv
<1>6. ASSUME NEW lang \in {"bash", "luau"}, Eval(lang) PROVE IInv'
  BY <1>6, EvalInv
<1>7. CASE ClosePipe \/ PipeRaises \/ CloseCapture \/ CloseRedirect \/ RedirectNull \/ Unwind
  BY <1>7, ClosePipeInv, PipeRaisesInv, CloseCaptureInv, CloseRedirectInv, RedirectNullInv, UnwindInv
<1>8. CASE Crash \/ Finish \/ FinishRaised
  BY <1>8, CrashInv, FinishInv
<1>9. CASE UNCHANGED vars
  BY <1>9 DEF vars, IInv, TypeOK, Balanced, Buffered, Answered, CodeKept, Stdout
<1> QED BY <1>1, <1>2, <1>3, <1>4, <1>5, <1>6, <1>7, <1>8, <1>9 DEF Next

\* The invariant holds in every reachable state.
THEOREM InvariantHolds == Spec => []IInv
BY InitInv, NextInv, PTL DEF Spec

\* Every variable keeps its type, whatever the texts, codes and bounds.
THEOREM TypeCorrect == Spec => []TypeOK
<1>1. IInv => TypeOK
  BY DEF IInv
<1> QED BY <1>1, InvariantHolds, PTL

\* No error, however deep in pipelines and substitutions, leaves a later
\* evaluation of the session without output (with_output_suppressed).
THEOREM NextEvalPrintsAlways == Spec => []NextEvalPrints
<1>1. IInv => NextEvalPrints
  BY EmptySeq DEF IInv, Balanced, NextEvalPrints
<1> QED BY <1>1, InvariantHolds, PTL

\* An evaluation that runs to its end answers with what a process would have
\* written, but for a lone empty print (exec_stdout).
THEOREM StdoutAsWrittenAlways == Spec => []StdoutAsWritten
<1>1. ASSUME IInv PROVE StdoutAsWritten
  <2> SUFFICES ASSUME phase = "idle", response.via = "end", ~returned, shown # <<NL>>
               PROVE  response.stdout = shown
    BY DEF StdoutAsWritten
  <2>1. response.stdout = Stdout /\ shown = print_buf \o Due(needs_newline)
    BY <1>1 DEF IInv, Answered, Buffered
  <2>2. print_buf \in Seq(Char) /\ <<NL>> \in Seq(Char) /\ needs_newline \in BOOLEAN
    BY <1>1, TextsAssumption DEF IInv, TypeOK
  <2>3. <<>> \o <<NL>> = <<NL>> /\ print_buf \o <<>> = print_buf
    BY <2>2, ConcatEmptySeq
  <2>4. CASE needs_newline
    BY <2>1, <2>3, <2>4 DEF Stdout, Due
  <2>5. CASE ~needs_newline
    BY <2>1, <2>3, <2>5 DEF Stdout, Due
  <2> QED BY <2>2, <2>4, <2>5
<1> QED BY <1>1, InvariantHolds, PTL

\* The exit code of an answer is the one $? has in the next evaluation, after
\* an exit from any depth too (eval_bash).
THEOREM QuestionMarkIsReportedAlways == Spec => []QuestionMarkIsReported
<1>1. IInv => QuestionMarkIsReported
  BY DEF IInv, CodeKept, QuestionMarkIsReported
<1> QED BY <1>1, InvariantHolds, PTL

--------------------------------------------------------------------------------
(***************************************************************************)
(* The terminals that send a session its lines (Terminal), for any number  *)
(* of lines and clicks.                                                     *)
(***************************************************************************)

Line == [n : Nat, mode : Mode, kind : {"blank", "whole", "opens", "closes", "looks"}]
Chunk == Seq(Line)
Session == [mode : Mode, buffer : Chunk, multi : BOOLEAN, ran : Seq(Chunk)]

\* The prompt for the session's chunk, if it is of the mode that the page shows
Truth == prompt = Prompt(mode, session.mode = mode /\ session.multi)

\* There is one message between page and worker while the page is busy, and none if not.
Quiet == ~busy /\ toWorker = <<>> /\ toPage = <<>> /\ (ready /\ ~clicked => Truth)
Making ==
  /\ busy /\ toPage = <<>> /\ toWorker = <<[type |-> "init"]>>
  /\ ~ready /\ lines = <<>> /\ (~clicked => Truth)
Asked ==
  /\ busy /\ ready /\ toPage = <<>> /\ lines # <<>>
  /\ toWorker = <<[type |-> "eval", line |-> lines[Len(lines)]]>>
  /\ ~clicked => lines[Len(lines)].mode = mode
Said ==
  /\ busy /\ toWorker = <<>>
  /\ \E message :
       /\ toPage = <<message>>
       /\ \/ message.type = "ready" /\ lines = <<>> /\ (~clicked => Truth)
          \/ /\ message.type = "result"
             /\ ~clicked => session.mode = mode /\ message.prompt = Prompt(mode, session.multi)
          \/ message.type = "error"

\* The lines that the worker has taken
Taken == IF toWorker = <<>> \/ lines = <<>> THEN Len(lines) ELSE Len(lines) - 1
NoLooks == \A i \in DOMAIN lines : lines[i].kind # "looks"

\* What a session holds are the lines below n, in their order.
Kept(chunk, n) == \A i \in DOMAIN chunk : chunk[i].n \in 1..n /\ lines[chunk[i].n] = chunk[i]
Below(chunk, next) == \A i \in DOMAIN chunk, j \in DOMAIN next : chunk[i].n < next[j].n
Rising(chunk) == \A i, j \in DOMAIN chunk : i < j => chunk[i].n < chunk[j].n
Ordered(chunks) == NoLooks => \A k, l \in DOMAIN chunks : k < l => Below(chunks[k], chunks[l])
Follows(chunks, next) == NoLooks => \A k \in DOMAIN chunks : Below(chunks[k], next)
Good(chunk, n) == chunk \in Chunk /\ Kept(chunk, n) /\ Rising(chunk)
Fits(s, n) ==
  /\ s \in Session
  /\ Good(s.buffer, n) /\ \A k \in DOMAIN s.ran : Good(s.ran[k], n)
  /\ Ordered(s.ran) /\ Follows(s.ran, s.buffer)
  /\ \A i \in DOMAIN s.buffer : s.buffer[i].mode = s.mode
  /\ ~s.multi => s.buffer = <<>>
  /\ s.mode = "bash" => ~s.multi

\* None of the first n lines is lost.
In(i, chunk) == \E j \in DOMAIN chunk : chunk[j].n = i
Safe(s, i, n) ==
  \/ In(i, s.buffer) \/ \E k \in DOMAIN s.ran : In(i, s.ran[k])
  \/ lines[i].kind = "blank"
  \/ \E j \in i..n : lines[j].mode # lines[i].mode
Whole(s, n) == NoLooks => \A i \in 1..n : Safe(s, i, n)

Alive == ready /\ \A i \in DOMAIN toPage : toPage[i].type # "error"

TermInv ==
  /\ mode \in Mode
  /\ lines \in Seq(Line) /\ \A i \in DOMAIN lines : lines[i].n = i
  /\ session = loop
  /\ Quiet \/ Making \/ Asked \/ Said
  /\ Fits(session, Taken) /\ (Alive => Whole(session, Taken))

--------------------------------------------------------------------------------
\* The two evaluators

LEMMA Modes == Mode = {"bash", "python", "lua"}
  BY DEF Mode, LineKinds

\* A chunk and one line more
LEMMA Extended ==
  ASSUME NEW chunk \in Chunk, NEW line \in Line
  PROVE  /\ Append(chunk, line) \in Chunk /\ DOMAIN chunk = 1..Len(chunk) /\ Len(chunk) \in Nat
         /\ DOMAIN Append(chunk, line) = 1..(Len(chunk) + 1)
         /\ \A i \in DOMAIN chunk : Append(chunk, line)[i] = chunk[i]
         /\ Append(chunk, line)[Len(chunk) + 1] = line
         /\ chunk = <<>> => Append(chunk, line) = <<line>>
<1>1. Append(<<>>, line) = <<line>>
  OBVIOUS
<1>2. chunk = <<>> => Append(chunk, line) = <<line>>
  BY <1>1
<1>3. Append(chunk, line) \in Chunk /\ Len(chunk) \in Nat /\ Len(Append(chunk, line)) = Len(chunk) + 1
      /\ (\A i \in 1..Len(chunk) : Append(chunk, line)[i] = chunk[i]) /\ Append(chunk, line)[Len(chunk) + 1] = line
  BY AppendProperties, LenProperties DEF Chunk
<1>4. DOMAIN chunk = 1..Len(chunk) /\ DOMAIN Append(chunk, line) = 1..Len(Append(chunk, line))
  BY <1>3, LenProperties DEF Chunk
<1>5. QED
  BY <1>2, <1>3, <1>4

\* Sessions with the same fields are the same.
LEMMA SameSession ==
  ASSUME NEW s \in Session, NEW u \in Session,
         s.mode = u.mode, s.buffer = u.buffer, s.multi = u.multi, s.ran = u.ran
  PROVE  s = u
  BY DEF Session

\* What the evaluators start from
Now(s, m) == IF s.mode = m THEN s ELSE Fresh(m, s.ran)

\* A change of the mode resets a session to a fresh one that keeps what ran.
LEMMA NowIs ==
  ASSUME NEW s \in Session, NEW m \in Mode
  PROVE  /\ Now(s, m) \in Session /\ Now(s, m).mode = m
         /\ (IF s.mode = m THEN s ELSE [reset_buffers(s) EXCEPT !.mode = m]) = Now(s, m)
<1>1. <<>> \in Chunk
  BY EmptySeq DEF Chunk
<1>2. [reset_buffers(s) EXCEPT !.mode = m] = Fresh(m, s.ran)
  <2> DEFINE f == [Fresh(s.mode, s.ran) EXCEPT !.mode = m]
  <2>1. Fresh(s.mode, s.ran) \in Session /\ Fresh(m, s.ran) \in Session
    BY <1>1 DEF Session, Fresh
  <2>2. f \in Session
    BY <2>1 DEF Session
  <2>3. f.mode = m /\ f.buffer = <<>> /\ f.multi = FALSE /\ f.ran = s.ran
    BY <2>1 DEF Session, Fresh
  <2>4. f = Fresh(m, s.ran)
    BY <2>1, <2>2, <2>3, SameSession DEF Fresh
  <2>5. QED
    BY <2>4 DEF reset_buffers
<1>3. Fresh(m, s.ran) \in Session /\ Fresh(m, s.ran).mode = m
  BY <1>1 DEF Session, Fresh
<1>4. QED
  BY <1>2, <1>3 DEF Now

\* A chunk that is tried, and stays if it looks unfinished
Tried(s, chunk) ==
  IF Unfinished(chunk) THEN Collects(s, chunk)
  ELSE IF LooksUnfinished(chunk) THEN [Collects(s, chunk) EXCEPT !.ran = Append(s.ran, chunk)]
  ELSE Runs(s, chunk)

Chunked(s, line) == IF s.multi THEN Append(s.buffer, line) ELSE <<line>>

\* The worker and the command line do the same with a line of Lua...
LEMMA LuaIs ==
  ASSUME NEW s \in Session, NEW line \in Line
  PROVE  LET after == IF line.kind = "blank" /\ ~s.multi THEN s ELSE Tried(s, Chunked(s, line)) IN
         eval_lua(s, line) = after /\ repl(s, line) = after
<1> DEFINE chunk == Chunked(s, line)
<1>1. chunk \in Chunk
  BY Extended, EmptySeq DEF Session, Chunked, Chunk
<1>2. s.multi \in BOOLEAN
  BY DEF Session
<1>3. /\ Collects(s, chunk).ran = s.ran
      /\ [Collects(s, chunk) EXCEPT !.ran = s.ran] = Collects(s, chunk)
  BY DEF Session, Collects
<1>4. eval_lua(s, line) = IF line.kind = "blank" /\ ~s.multi THEN s ELSE Tried(s, chunk)
  BY <1>2, <1>3 DEF eval_lua, is_incomplete_lua, Tried, Chunked
<1>5. Collects([s EXCEPT !.ran = Append(s.ran, chunk)], chunk)
        = [Collects(s, chunk) EXCEPT !.ran = Append(s.ran, chunk)]
  BY DEF Session, Collects
<1>6. [[s EXCEPT !.ran = Append(@, chunk)] EXCEPT !.buffer = <<>>, !.multi = FALSE] = Runs(s, chunk)
  BY DEF Session, Runs
<1>7. [s EXCEPT !.ran = s.ran] = s
  BY DEF Session
<1>8. repl(s, line) = IF line.kind = "blank" /\ ~s.multi THEN s ELSE Tried(s, chunk)
  BY <1>2, <1>5, <1>6, <1>7 DEF repl, is_incomplete_error, Tried, Chunked
<1>9. QED
  BY <1>4, <1>8

\* ... and with one of Python...
LEMMA PythonIs ==
  ASSUME NEW s \in Session, NEW line \in Line
  PROVE  LET after == IF line.kind = "blank" THEN IF s.multi THEN Runs(s, s.buffer) ELSE s
                      ELSE IF s.multi THEN Collects(s, Append(s.buffer, line))
                      ELSE IF line.kind = "opens" THEN Collects(s, <<line>>)
                      ELSE Runs(s, <<line>>) IN
         eval_python(s, line) = after /\ python_repl(s, line) = after
<1>1. s.multi \in BOOLEAN
  BY DEF Session
<1>2. QED
  BY <1>1 DEF eval_python, python_repl, starts_python_block

\* ... and so with every line, whatever mode the session was in.
LEMMA SameEvaluators ==
  ASSUME NEW s \in Session, NEW m \in Mode, NEW line \in Line
  PROVE  eval(s, m, line) = Readline(s, m, line)
<1>1. Now(s, m) \in Session
  BY NowIs
<1>2. /\ eval_lua(Now(s, m), line) = repl(Now(s, m), line)
      /\ eval_python(Now(s, m), line) = python_repl(Now(s, m), line)
  BY <1>1, LuaIs, PythonIs
<1>3. eval_bash(Now(s, m), line) = bash_repl(Now(s, m), line)
  BY DEF eval_bash, bash_repl
<1>4. eval(s, m, line) = CASE m = "bash" -> eval_bash(Now(s, m), line)
                           [] m = "python" -> eval_python(Now(s, m), line)
                           [] m = "lua" -> eval_lua(Now(s, m), line)
  BY NowIs DEF eval
<1>5. Readline(s, m, line) = CASE m = "bash" -> bash_repl(Now(s, m), line)
                               [] m = "python" -> python_repl(Now(s, m), line)
                               [] m = "lua" -> repl(Now(s, m), line)
  BY DEF Readline, Now
<1>6. QED
  BY <1>2, <1>3, <1>4, <1>5

--------------------------------------------------------------------------------
\* What the evaluators make of a session

LEMMA Grows ==
  ASSUME NEW chunks \in Seq(Chunk), NEW n, NEW chunk, Good(chunk, n),
         \A k \in DOMAIN chunks : Good(chunks[k], n), Ordered(chunks), Follows(chunks, chunk)
  PROVE  /\ Append(chunks, chunk) \in Seq(Chunk)
         /\ \A k \in DOMAIN Append(chunks, chunk) : Good(Append(chunks, chunk)[k], n)
         /\ Ordered(Append(chunks, chunk))
         /\ \A i : In(i, chunk) => \E k \in DOMAIN Append(chunks, chunk) : In(i, Append(chunks, chunk)[k])
         /\ \A i : (\E k \in DOMAIN chunks : In(i, chunks[k]))
                     => \E k \in DOMAIN Append(chunks, chunk) : In(i, Append(chunks, chunk)[k])
<1> DEFINE more == Append(chunks, chunk)
           l == Len(chunks)
<1>1. chunk \in Chunk
  BY DEF Good
<1>2. /\ more \in Seq(Chunk) /\ l \in Nat /\ DOMAIN chunks = 1..l /\ DOMAIN more = 1..(l + 1)
      /\ more[l + 1] = chunk /\ \A k \in 1..l : more[k] = chunks[k]
  BY <1>1, AppendProperties, LenProperties
<1> HIDE DEF more, l
<1>3. \A k \in DOMAIN more : Good(more[k], n)
  BY <1>2
<1>4. Ordered(more)
  BY <1>2 DEF Ordered, Follows
<1>5. /\ \A i : In(i, chunk) => \E k \in DOMAIN more : In(i, more[k])
      /\ \A i : (\E k \in DOMAIN chunks : In(i, chunks[k])) => \E k \in DOMAIN more : In(i, more[k])
  BY <1>2
<1>6. QED
  BY <1>2, <1>3, <1>4, <1>5 DEF more

\* A session without a buffer
LEMMA NoBuffer ==
  ASSUME NEW n PROVE Good(<<>>, n) /\ \A chunks : Follows(chunks, <<>>)
  BY EmptySeq DEF Good, Chunk, Kept, Rising, Follows, Below

\* The reset loses nothing that ran.
LEMMA NowFits ==
  ASSUME NEW n \in Nat, NEW s, Fits(s, n), NEW m \in Mode
  PROVE  Fits(Now(s, m), n)
<1>1. CASE s.mode = m
  BY <1>1 DEF Now
<1>2. CASE s.mode # m
  <2>1. Now(s, m) \in Session /\ Now(s, m) = Fresh(m, s.ran)
    BY <1>2, NowIs DEF Now, Fits
  <2>2. QED
    BY <2>1, NoBuffer DEF Fits, Fresh
<1>3. QED
  BY <1>1, <1>2

\* The next line with the buffer
LEMMA NextLine ==
  ASSUME NEW s, NEW n \in Nat, Fits(s, n),
         NEW line \in Line, line.n = n + 1, lines[n + 1] = line, line.mode = s.mode
  PROVE  LET chunk == Append(s.buffer, line) IN
         /\ Good(chunk, n + 1) /\ Follows(s.ran, chunk)
         /\ Good(s.buffer, n + 1) /\ \A k \in DOMAIN s.ran : Good(s.ran[k], n + 1)
         /\ \A i \in DOMAIN chunk : chunk[i].mode = s.mode
         /\ \A i : In(i, s.buffer) => In(i, chunk)
         /\ In(n + 1, chunk)
<1> DEFINE chunk == Append(s.buffer, line)
           l == Len(s.buffer)
<1>1. /\ chunk \in Chunk /\ l \in Nat /\ DOMAIN s.buffer = 1..l /\ DOMAIN chunk = 1..(l + 1)
      /\ chunk[l + 1] = line /\ \A i \in 1..l : chunk[i] = s.buffer[i]
  BY Extended DEF Fits, Session
<1> HIDE DEF chunk, l
<1>2. Good(s.buffer, n + 1) /\ \A k \in DOMAIN s.ran : Good(s.ran[k], n + 1)
  BY DEF Fits, Good, Kept
<1>3. Kept(chunk, n + 1) /\ Rising(chunk)
  <2>1. \A i \in 1..l : chunk[i].n \in 1..n /\ lines[chunk[i].n] = chunk[i]
    BY <1>1 DEF Fits, Good, Kept
  <2>2. \A i, j \in 1..l : i < j => chunk[i].n < chunk[j].n
    BY <1>1 DEF Fits, Good, Rising
  <2>3. \A i \in 1..(l + 1) : i \in 1..l \/ i = l + 1
    BY <1>1
  <2>4. Kept(chunk, n + 1)
    BY <1>1, <2>1, <2>3 DEF Kept
  <2>5. Rising(chunk)
    BY <1>1, <2>1, <2>2, <2>3 DEF Rising
  <2>6. QED
    BY <2>4, <2>5
<1>4. Follows(s.ran, chunk)
  <2>1. \A k \in DOMAIN s.ran : \A i \in DOMAIN s.ran[k] : s.ran[k][i].n \in 1..n
    BY DEF Fits, Good, Kept
  <2>2. QED
    BY <1>1, <2>1 DEF Fits, Follows, Below
<1>5. \A i \in DOMAIN chunk : chunk[i].mode = s.mode
  BY <1>1 DEF Fits
<1>6. (\A i : In(i, s.buffer) => In(i, chunk)) /\ In(n + 1, chunk)
  BY <1>1 DEF In
<1>7. QED
  BY <1>1, <1>2, <1>3, <1>4, <1>5, <1>6 DEF chunk, Good

\* The ways in which an evaluator leaves a session, given the next line
Tries(s, line) == Append(s.buffer, line)
Shape(s, line, after) ==
  \/ after = s /\ line.kind = "blank"
  \/ after = Runs(s, s.buffer) /\ line.kind = "blank"
  \/ after = Runs(s, Tries(s, line))
  \/ after = Collects(s, Tries(s, line)) /\ s.mode # "bash"
  \/ /\ after = [Collects(s, Tries(s, line)) EXCEPT !.ran = Append(s.ran, Tries(s, line))]
     /\ s.mode # "bash" /\ LooksUnfinished(Tries(s, line))

\* Every evaluator leaves the session in one of these ways.
LEMMA EvalShape ==
  ASSUME NEW s, NEW n, Fits(s, n), NEW line \in Line, NEW m \in Mode, Fits(Now(s, m), n)
  PROVE  Shape(Now(s, m), line, eval(s, m, line))
<1> DEFINE u == Now(s, m)
<1>1. s \in Session /\ u \in Session /\ u.mode = m /\ (~u.multi => u.buffer = <<>>) /\ (m = "bash" => ~u.multi)
  BY NowIs DEF Fits
<1>2. u.buffer \in Chunk /\ u.multi \in BOOLEAN
  BY <1>1 DEF Session
<1>3. ~u.multi => Tries(u, line) = <<line>>
  BY <1>1, <1>2, Extended DEF Tries
<1>4. eval(s, m, line) = CASE m = "bash" -> eval_bash(u, line)
                           [] m = "python" -> eval_python(u, line)
                           [] m = "lua" -> eval_lua(u, line)
  BY <1>1, NowIs DEF eval
<1> HIDE DEF u
<1>5. CASE m = "bash"
  <2>1. eval(s, m, line) = eval_bash(u, line)
    BY <1>4, <1>5
  <2>2. eval(s, m, line) = IF line.kind = "blank" THEN u ELSE Runs(u, Tries(u, line))
    BY <1>1, <1>3, <1>5, <2>1 DEF eval_bash
  <2>3. QED
    BY <2>2 DEF Shape, u
<1>6. CASE m = "python"
  <2>1. eval(s, m, line) = eval_python(u, line)
    BY <1>4, <1>6
  <2>2. /\ u.multi => eval(s, m, line) = IF line.kind = "blank" THEN Runs(u, u.buffer)
                                              ELSE Collects(u, Tries(u, line))
        /\ ~u.multi => eval(s, m, line) = IF line.kind = "blank" THEN u
                                          ELSE IF line.kind = "opens" THEN Collects(u, Tries(u, line))
                                          ELSE Runs(u, Tries(u, line))
    BY <1>1, <1>3, <2>1, PythonIs DEF Tries
  <2>3. QED
    BY <1>1, <1>6, <2>2 DEF Shape, u
<1>7. CASE m = "lua"
  <2>1. eval(s, m, line) = eval_lua(u, line)
    BY <1>4, <1>7
  <2>2. Chunked(u, line) = Tries(u, line)
    BY <1>3 DEF Chunked, Tries
  <2>3. eval(s, m, line) = IF line.kind = "blank" /\ ~u.multi THEN u ELSE Tried(u, Tries(u, line))
    BY <1>1, <2>1, <2>2, LuaIs
  <2>4. QED
    BY <1>1, <1>7, <2>3 DEF Shape, Tried, u
<1>8. QED
  BY <1>5, <1>6, <1>7, Modes DEF u

\* A chunk that looks unfinished has a line that looks so.
LEMMA Looking ==
  ASSUME NEW chunk, NEW n \in Nat, Good(chunk, n), 1..n \subseteq DOMAIN lines, LooksUnfinished(chunk)
  PROVE  ~NoLooks
<1>1. SUFFICES ASSUME NoLooks PROVE FALSE
  OBVIOUS
<1>2. \A i \in DOMAIN chunk : chunk[i].kind # "looks"
  BY <1>1 DEF Good, Kept, NoLooks
<1>3. QED
  BY <1>2 DEF LooksUnfinished, Has

\* Each of them keeps the lines in their order, and holds the next one unless it is blank.
LEMMA ShapeFits ==
  ASSUME NEW u, NEW n \in Nat, Fits(u, n), n + 1 \in DOMAIN lines, 1..(n + 1) \subseteq DOMAIN lines,
         NEW line \in Line, line.n = n + 1, lines[n + 1] = line, line.mode = u.mode,
         NEW after, Shape(u, line, after)
  PROVE  /\ Fits(after, n + 1)
         /\ \A i : In(i, u.buffer) \/ (\E k \in DOMAIN u.ran : In(i, u.ran[k]))
                     => In(i, after.buffer) \/ \E k \in DOMAIN after.ran : In(i, after.ran[k])
         /\ \/ line.kind = "blank" \/ In(n + 1, after.buffer)
            \/ \E k \in DOMAIN after.ran : In(n + 1, after.ran[k])
<1> DEFINE chunk == Tries(u, line)
<1>1. /\ Good(chunk, n + 1) /\ Follows(u.ran, chunk)
      /\ Good(u.buffer, n + 1) /\ \A k \in DOMAIN u.ran : Good(u.ran[k], n + 1)
      /\ \A i \in DOMAIN chunk : chunk[i].mode = u.mode
      /\ \A i : In(i, u.buffer) => In(i, chunk)
      /\ In(n + 1, chunk)
  BY NextLine DEF Tries
<1>2. /\ u \in Session /\ u.ran \in Seq(Chunk) /\ Ordered(u.ran) /\ Follows(u.ran, u.buffer)
      /\ chunk \in Chunk /\ u.buffer \in Chunk /\ <<>> \in Chunk
  BY <1>1, NoBuffer DEF Fits, Session, Good
<1> HIDE DEF chunk
<1>3. ASSUME NEW tried \in Chunk, Good(tried, n + 1), Follows(u.ran, tried), after = Runs(u, tried)
      PROVE  /\ Fits(after, n + 1) /\ after.ran = Append(u.ran, tried)
  <2>1. after \in Session /\ after.ran = Append(u.ran, tried) /\ after.buffer = <<>> /\ ~after.multi /\ after.mode = u.mode
    BY <1>2, <1>3, AppendProperties DEF Runs, Session
  <2>2. (\A k \in DOMAIN after.ran : Good(after.ran[k], n + 1)) /\ Ordered(after.ran)
    BY <1>1, <1>2, <1>3, <2>1, Grows
  <2>3. Good(after.buffer, n + 1) /\ Follows(after.ran, after.buffer)
    BY <2>1, NoBuffer
  <2>4. QED
    BY <2>1, <2>2, <2>3 DEF Fits
<1>4. CASE after = u /\ line.kind = "blank"
  BY <1>1, <1>2, <1>4 DEF Fits
<1>5. CASE after = Runs(u, u.buffer) /\ line.kind = "blank"
  <2>1. Fits(after, n + 1) /\ after.ran = Append(u.ran, u.buffer)
    BY <1>1, <1>2, <1>3, <1>5
  <2>2. QED
    BY <1>1, <1>2, <1>5, <2>1, Grows
<1>6. CASE after = Runs(u, chunk)
  BY <1>1, <1>2, <1>3, <1>6, Grows
<1>7. CASE after = Collects(u, chunk) /\ u.mode # "bash"
  <2>1. after \in Session /\ after.ran = u.ran /\ after.buffer = chunk /\ after.multi /\ after.mode = u.mode
    BY <1>2, <1>7 DEF Collects, Session
  <2>2. QED
    BY <1>1, <1>2, <1>7, <2>1 DEF Fits
<1>8. CASE /\ after = [Collects(u, chunk) EXCEPT !.ran = Append(u.ran, chunk)]
           /\ u.mode # "bash" /\ LooksUnfinished(chunk)
  <2>1. after \in Session /\ after.ran = Append(u.ran, chunk) /\ after.buffer = chunk /\ after.multi /\ after.mode = u.mode
    BY <1>2, <1>8, AppendProperties DEF Collects, Session
  <2>2. ~NoLooks
    BY <1>1, <1>8, Looking
  <2>3. Follows(after.ran, after.buffer)
    BY <2>2 DEF Follows
  <2>4. (\A k \in DOMAIN after.ran : Good(after.ran[k], n + 1)) /\ Ordered(after.ran)
    BY <1>1, <1>2, <2>1, Grows
  <2>5. Fits(after, n + 1)
    BY <1>1, <1>8, <2>1, <2>3, <2>4 DEF Fits
  <2>6. QED
    BY <1>1, <1>2, <2>1, <2>5, Grows
<1>9. QED
  BY <1>4, <1>5, <1>6, <1>7, <1>8 DEF Shape, chunk

\* So does eval, and a line that it drops is followed by one of another mode.
LEMMA EvalFits ==
  ASSUME NEW s, NEW n \in Nat, Fits(s, n), n + 1 \in DOMAIN lines, 1..(n + 1) \subseteq DOMAIN lines,
         NEW line \in Line, line.n = n + 1, lines[n + 1] = line
  PROVE  LET after == eval(s, line.mode, line) IN
         Fits(after, n + 1) /\ (Whole(s, n) => Whole(after, n + 1))
<1> DEFINE m == line.mode
           u == Now(s, m)
           after == eval(s, m, line)
           Holds(x, i) == In(i, x.buffer) \/ \E k \in DOMAIN x.ran : In(i, x.ran[k])
<1>1. m \in Mode
  BY DEF Line
<1>2. Fits(u, n) /\ u.mode = m
  BY <1>1, NowFits, NowIs DEF Fits
<1>3. Shape(u, line, after)
  BY <1>1, <1>2, EvalShape
<1> HIDE DEF u, after
<1>4. /\ Fits(after, n + 1) /\ \A i : Holds(u, i) => Holds(after, i)
      /\ line.kind = "blank" \/ Holds(after, n + 1)
  BY <1>2, <1>3, ShapeFits
<1>5. ASSUME NEW i \in 1..n, Holds(s, i), lines[i].mode = m PROVE Holds(u, i)
  <2>1. CASE s.mode = m
    BY <1>5, <2>1 DEF u, Now
  <2>2. CASE s.mode # m
    <3>1. u.ran = s.ran /\ ~In(i, s.buffer)
      BY <1>5, <2>2 DEF u, Now, Fresh, Fits, Good, Kept, In
    <3>2. QED
      BY <1>5, <3>1
  <2>3. QED
    BY <2>1, <2>2
<1>6. ASSUME Whole(s, n) PROVE Whole(after, n + 1)
  <2>1. SUFFICES ASSUME NoLooks, NEW i \in 1..(n + 1) PROVE Safe(after, i, n + 1)
    BY DEF Whole
  <2>2. CASE i = n + 1
    BY <1>4, <2>2 DEF Safe
  <2>3. CASE i \in 1..n
    <3>1. Safe(s, i, n)
      BY <1>6, <2>1, <2>3 DEF Whole
    <3>2. CASE lines[i].mode # m
      BY <2>3, <3>2 DEF Safe
    <3>3. CASE lines[i].mode = m
      BY <1>4, <1>5, <2>3, <3>1, <3>3 DEF Safe
    <3>4. QED
      BY <3>2, <3>3
  <2>4. QED
    BY <2>2, <2>3
<1>7. QED
  BY <1>4, <1>6 DEF after

--------------------------------------------------------------------------------
\* The steps

LEMMA One ==
  ASSUME NEW m
  PROVE  /\ Head(<<m>>) = m /\ Tail(<<m>>) = <<>> /\ Append(<<>>, m) = <<m>>
         /\ <<m>> # <<>> /\ DOMAIN <<m>> = {1} /\ <<m>>[1] = m
  OBVIOUS

LEMMA TermInitInv == TerminalInit => TermInv
<1>1. SUFFICES ASSUME TerminalInit PROVE TermInv
  OBVIOUS
<1>2. Fresh("bash", <<>>) \in Session /\ "bash" \in Mode
  BY EmptySeq, Modes DEF Session, Fresh, Chunk
<1>3. Fits(session, 0)
  BY <1>1, <1>2, NoBuffer DEF TerminalInit, Fits, Fresh, Ordered, Follows
<1>4. Making
  BY <1>1 DEF TerminalInit, Making, Truth, Fresh, Prompt
<1>5. lines \in Seq(Line) /\ lines = <<>> /\ Len(lines) = 0 /\ Taken = 0
  BY <1>1, EmptySeq DEF TerminalInit, Taken
<1>6. QED
  BY <1>1, <1>2, <1>3, <1>4, <1>5 DEF TerminalInit, TermInv, Whole

\* What the page shows does not touch the session: its steps keep what is said of it.
LEMMA SessionKept ==
  ASSUME TermInv, UNCHANGED <<session, loop, lines>>, Taken' = Taken, mode' \in Mode,
         Quiet' \/ Making' \/ Asked' \/ Said', Alive' => Alive \/ lines = <<>>
  PROVE  TermInv'
<1>1. lines = <<>> => Taken = 0
  BY EmptySeq DEF Taken
<1>2. Fits(session, Taken)'
  BY DEF TermInv, Fits, Good, Kept, Rising, Ordered, Follows, NoLooks, Below
<1>3. Whole(session, Taken) => Whole(session, Taken)'
  BY DEF Whole, Safe, NoLooks
<1>4. lines = <<>> => Whole(session, Taken)
  BY <1>1 DEF Whole
<1>5. QED
  BY <1>2, <1>3, <1>4 DEF TermInv

LEMMA SetModeStep == ASSUME TermInv, NEW m \in Mode, setMode(m) PROVE TermInv'
<1>1. UNCHANGED <<session, loop, lines, toWorker, toPage, ready, busy>> /\ clicked' /\ mode' = m
  BY DEF setMode
<1>2. Quiet' \/ Making' \/ Asked' \/ Said'
  BY <1>1 DEF TermInv, Quiet, Making, Asked, Said
<1>3. QED
  BY <1>1, <1>2, SessionKept DEF Taken, Alive

LEMMA OnMessageStep == ASSUME TermInv, onMessage PROVE TermInv'
<1>1. Said
  BY DEF onMessage, TermInv, Quiet, Making, Asked
<1>2. PICK message : /\ toPage = <<message>>
                     /\ \/ message.type = "ready" /\ lines = <<>> /\ (~clicked => Truth)
                        \/ /\ message.type = "result"
                           /\ ~clicked => session.mode = mode /\ message.prompt = Prompt(mode, session.multi)
                        \/ message.type = "error"
  BY <1>1 DEF Said
<1>3. Head(toPage) = message /\ Tail(toPage) = <<>> /\ DOMAIN toPage = {1} /\ toPage[1] = message
  BY <1>2, One
<1>4. /\ toPage' = <<>> /\ ~busy' /\ toWorker = <<>>
      /\ UNCHANGED <<mode, toWorker, session, loop, lines, clicks, clicked>>
      /\ \/ message.type = "ready" /\ ready' = TRUE /\ UNCHANGED prompt
         \/ message.type = "result" /\ prompt' = message.prompt /\ UNCHANGED ready
         \/ message.type = "error" /\ ready' = FALSE /\ UNCHANGED prompt
  BY <1>1, <1>3 DEF onMessage, Said
<1>5. Quiet' /\ (Alive' => Alive \/ lines = <<>>)
  <2>1. CASE message.type = "ready"
    BY <1>2, <1>4, <2>1 DEF Quiet, Truth
  <2>2. CASE message.type = "result"
    <3>1. prompt' = message.prompt /\ UNCHANGED ready /\ ~(message.type = "error")
      BY <1>4, <2>2
    <3>2. ~clicked => session.mode = mode /\ message.prompt = Prompt(mode, session.multi)
      BY <1>2, <2>2
    <3>3. session.multi \in BOOLEAN
      BY DEF TermInv, Fits, Session
    <3>4. ~clicked => prompt' = Prompt(mode, session.mode = mode /\ session.multi)
      BY <3>1, <3>2, <3>3
    <3>5. Quiet'
      BY <1>4, <3>4 DEF Quiet, Truth
    <3>6. Alive' => Alive
      BY <1>3, <3>1 DEF Alive
    <3>7. QED
      BY <3>5, <3>6
  <2>3. CASE message.type = "error"
    BY <1>2, <1>4, <2>3 DEF Quiet, Alive
  <2>4. QED
    BY <1>2, <2>1, <2>2, <2>3
<1>6. QED
  BY <1>4, <1>5, SessionKept DEF Taken, TermInv

LEMMA CreateSessionStep == ASSUME TermInv, createSession PROVE TermInv'
<1>1. Making
  BY One DEF createSession, Takes, TermInv, Quiet, Making, Asked, Said
<1>2. /\ toWorker' = <<>> /\ UNCHANGED <<mode, prompt, ready, busy, lines, clicks, clicked, session, loop>>
      /\ \E type \in {"ready", "error"} : toPage' = <<[type |-> type]>>
  BY <1>1, One DEF createSession, Takes, Making, Posts
<1>3. Said'
  BY <1>1, <1>2 DEF Said, Making, Truth
<1>4. Taken' = Taken /\ ~Alive'
  BY <1>1, <1>2, EmptySeq DEF Taken, Making, Alive
<1>5. QED
  BY <1>2, <1>3, <1>4, SessionKept DEF TermInv

\* The line that is on its way
LEMMA AskedLine ==
  ASSUME TermInv, Takes("eval")
  PROVE  LET n == Len(lines) line == lines[n] IN
         /\ Asked /\ Head(toWorker).line = line /\ toWorker' = <<>>
         /\ line \in Line /\ line.n = n /\ n \in DOMAIN lines /\ 1..n \subseteq DOMAIN lines
         /\ n - 1 \in Nat /\ n = (n - 1) + 1 /\ Taken = n - 1
         /\ UNCHANGED <<mode, prompt, ready, busy, lines, clicks, clicked>> /\ Taken' = n
<1>1. Asked
  BY One DEF Takes, TermInv, Quiet, Making, Asked, Said
<1>2. Len(lines) \in Nat /\ DOMAIN lines = 1..Len(lines) /\ Len(lines) > 0
  BY <1>1, LenProperties, EmptySeq DEF TermInv, Asked
<1>3. lines[Len(lines)] \in Line
  BY <1>2, ElementOfSeq DEF TermInv
<1>4. toWorker # <<>> /\ toWorker' = <<>>
  BY <1>1, One DEF Takes, Asked
<1>5. QED
  BY <1>1, <1>2, <1>3, <1>4, One DEF Takes, TermInv, Asked, Taken

LEMMA TrapsStep == ASSUME TermInv, Traps PROVE TermInv'
<1> DEFINE n == Len(lines)
<1>1. /\ Asked /\ n - 1 \in Nat /\ n \in Nat /\ Taken = n - 1 /\ Taken' = n /\ toWorker' = <<>>
      /\ UNCHANGED <<mode, prompt, ready, busy, lines, clicks, clicked, session, loop>>
  BY AskedLine DEF Traps
<1>2. toPage' = <<[type |-> "error"]>>
  BY <1>1, One DEF Traps, Posts, Asked
<1>3. Said' /\ ~Alive'
  BY <1>1, <1>2, One DEF Said, Asked, Alive
<1>4. Fits(session, n)'
  BY <1>1 DEF TermInv, Fits, Good, Kept, Rising, Ordered, Follows, NoLooks, Below
<1>5. QED
  BY <1>1, <1>3, <1>4 DEF TermInv

LEMMA EvalLineStep == ASSUME TermInv, evalLine PROVE TermInv'
<1> DEFINE n == Len(lines)
           line == lines[n]
           m == line.mode
<1>1. /\ Asked /\ Head(toWorker).line = line /\ line \in Line /\ line.n = n
      /\ n \in DOMAIN lines /\ 1..n \subseteq DOMAIN lines
      /\ n - 1 \in Nat /\ n = (n - 1) + 1 /\ Taken = n - 1 /\ Taken' = n /\ toWorker' = <<>>
      /\ UNCHANGED <<mode, prompt, ready, busy, lines, clicks, clicked>>
  BY AskedLine DEF evalLine
<1>2. m \in Mode /\ session \in Session /\ session = loop /\ Fits(session, n - 1)
  BY <1>1 DEF TermInv, Fits, Line
<1>3. session' = eval(session, m, line) /\ loop' = session'
  BY <1>1, <1>2, SameEvaluators DEF evalLine
<1>4. toPage' = <<Response(m, session')>>
  BY <1>1, <1>3, One DEF evalLine, Posts, Asked
<1>5. Fits(session', n) /\ (Whole(session, n - 1) => Whole(session', n))
  BY <1>1, <1>2, <1>3, EvalFits
<1>6. session'.mode = m
  <2>1. Fits(Now(session, m), n - 1) /\ Now(session, m) \in Session /\ Now(session, m).mode = m
    BY <1>1, <1>2, NowFits, NowIs
  <2>2. Shape(Now(session, m), line, session')
    BY <1>1, <1>2, <1>3, <2>1, EvalShape
  <2>3. QED
    BY <2>1, <2>2 DEF Shape, Runs, Collects, Session
<1>7. Said'
  <2>1. /\ Response(m, session').type = "result"
        /\ Response(m, session').prompt = Prompt(m, session'.multi)
    BY DEF Response
  <2>2. ~clicked => m = mode
    BY <1>1 DEF Asked
  <2>3. QED
    BY <1>1, <1>4, <1>6, <2>1, <2>2 DEF Said, Asked
<1>8. Fits(session, n)' /\ (Whole(session, n - 1) => Whole(session, n)')
  BY <1>1, <1>5 DEF Fits, Good, Kept, Rising, Ordered, Follows, NoLooks, Below, Whole, Safe
<1>9. Alive
  BY <1>1 DEF Asked, Alive
<1>10. QED
  BY <1>1, <1>3, <1>7, <1>8, <1>9 DEF TermInv

LEMMA SendEvalStep == ASSUME TermInv, NEW kind \in LineKinds[mode], sendEval(kind) PROVE TermInv'
<1>a. PICK n \in Nat : n = Len(lines)
  BY LenProperties DEF TermInv
<1> DEFINE line == [n |-> n + 1, mode |-> mode, kind |-> kind]
<1>1. /\ n = Len(lines) /\ DOMAIN lines = 1..n /\ lines \in Seq(Line) /\ mode \in Mode
      /\ lines' = Append(lines, line) /\ busy' /\ ~clicked' /\ ready /\ ~busy
      /\ toWorker' = Append(toWorker, [type |-> "eval", line |-> line])
      /\ UNCHANGED <<mode, prompt, ready, toPage, session, loop, clicks>>
  BY <1>a, LenProperties DEF TermInv, sendEval
<1>2. line \in Line
  BY <1>1 DEF Line, Mode, LineKinds
<1>3. /\ lines' \in Seq(Line) /\ Len(lines') = n + 1 /\ DOMAIN lines' = 1..(n + 1)
      /\ lines'[n + 1] = line /\ \A i \in 1..n : lines'[i] = lines[i]
  BY <1>1, <1>2, AppendProperties, LenProperties
<1>4. Quiet
  BY <1>1 DEF TermInv, Quiet, Making, Asked, Said
<1>5. toWorker = <<>> /\ toPage = <<>> /\ toWorker' = <<[type |-> "eval", line |-> line]>> /\ Taken = n
  BY <1>1, <1>4, One DEF Quiet, Taken
<1>6. toWorker' # <<>> /\ lines' # <<>>
  BY <1>3, <1>5, One, EmptySeq
<1> HIDE DEF line
<1>7. Taken' = n
  BY <1>1, <1>3, <1>6 DEF Taken
<1>8. Asked'
  <2>1. line.mode = mode
    BY DEF line
  <2>2. QED
    BY <1>1, <1>3, <1>5, <1>6, <2>1 DEF Asked
<1>9. \A i \in DOMAIN lines' : lines'[i].n = i
  <2>1. line.n = n + 1 /\ \A i \in 1..n : lines[i].n = i
    BY <1>1 DEF line, TermInv
  <2>2. QED
    BY <1>1, <1>3, <2>1
<1>10. NoLooks' => NoLooks
  BY <1>1, <1>3 DEF NoLooks
<1>11. Fits(session, n) /\ (Alive => Whole(session, n)) /\ Alive' = Alive
  BY <1>1, <1>5 DEF TermInv, Alive
<1>12. Good(session.buffer, n)' /\ \A k \in DOMAIN session.ran : Good(session.ran[k], n)'
  <2>1. \A i \in 1..n : lines'[i] = lines[i]
    BY <1>3
  <2>2. ASSUME NEW chunk, Good(chunk, n), NEW next, next = chunk
        PROVE  /\ next \in Chunk /\ Rising(next)
               /\ \A i \in DOMAIN next : next[i].n \in 1..n /\ lines'[next[i].n] = next[i]
    BY <2>1, <2>2 DEF Good, Kept
  <2>3. Good(session.buffer, n) /\ (\A k \in DOMAIN session.ran : Good(session.ran[k], n))
    BY <1>11 DEF Fits
  <2>4. Good(session.buffer, n)'
    BY <1>1, <2>2, <2>3 DEF Good, Kept, Rising
  <2>5. QED
    BY <1>1, <2>2, <2>3, <2>4 DEF Good, Kept, Rising
<1>13. Fits(session, n)'
  BY <1>1, <1>10, <1>11, <1>12 DEF Fits, Ordered, Follows, Below
<1>14. Whole(session, n) => Whole(session, n)'
  <2>1. ASSUME NEW i \in 1..n, Safe(session, i, n) PROVE Safe(session, i, n)'
    <3>1. lines'[i] = lines[i] /\ \A j \in i..n : lines'[j] = lines[j]
      BY <1>1, <1>3
    <3>2. session' = session
      BY <1>1
    <3>3. QED
      BY <2>1, <3>1, <3>2 DEF Safe, In
  <2>2. QED
    BY <1>10, <2>1 DEF Whole
<1>15. QED
  BY <1>1, <1>3, <1>7, <1>8, <1>9, <1>11, <1>13, <1>14 DEF TermInv

LEMMA TermNextInv == TermInv /\ [TerminalNext]_terminal => TermInv'
<1>1. CASE UNCHANGED terminal
  BY <1>1 DEF terminal, TermInv, Quiet, Making, Asked, Said, Truth, Taken, Alive, NoLooks, Fits, Whole, Safe,
                Good, Kept, Rising, Ordered, Follows, Below
<1>2. CASE TerminalNext
  BY <1>2, SetModeStep, SendEvalStep, OnMessageStep, CreateSessionStep, EvalLineStep, TrapsStep DEF TerminalNext
<1>3. QED
  BY <1>1, <1>2

\* The invariant of the terminals holds in every state.
THEOREM TerminalInductive == TerminalSpec => []TermInv
<1>1. QED
  BY TermInitInv, TermNextInv, PTL DEF TerminalSpec

\* For any number of lines: unless the mode was clicked since the last line, the prompt says
\* if the next line opens a chunk or continues one (cpsl-web, EvalResponse; main.js, onmessage).
THEOREM PromptTruthfulAlways == TerminalSpec => []PromptTruthful
<1>1. TermInv => PromptTruthful
  BY DEF TermInv, PromptTruthful, Quiet, Making, Asked, Said, Truth
<1>2. QED
  BY <1>1, TerminalInductive, PTL

\* The worker's session runs the chunks that the loop of the command line runs
\* (cpsl-web, eval; cli/src/main.rs, bash_repl, python_repl and repl).
THEOREM SameAsCommandLineAlways == TerminalSpec => []SameAsCommandLine
<1>1. TermInv => SameAsCommandLine
  BY DEF TermInv, SameAsCommandLine
<1>2. QED
  BY <1>1, TerminalInductive, PTL

\* What LinesAccounted says of the lines the worker took is Whole; the line it did not take
\* is on its way.
LEMMA Accounted == TermInv => LinesAccounted
<1>1. SUFFICES ASSUME TermInv, Alive, ~Has(lines, "looks")
      PROVE  /\ InOrder(session.ran)
             /\ \A i \in DOMAIN lines :
                  \/ HasRun(i) \/ OnItsWay(i) \/ i \in Ids(session.buffer)
                  \/ lines[i].kind = "blank"
                  \/ \E j \in i..Len(lines) : lines[j].mode # lines[i].mode
  BY DEF LinesAccounted, Alive
<1>2. NoLooks
  BY <1>1 DEF NoLooks, Has
<1>3. InOrder(session.ran)
  BY <1>1, <1>2 DEF InOrder, TermInv, Fits, Good, Rising, Ordered, Below, Session
<1>4. DOMAIN lines = 1..Len(lines) /\ Len(lines) \in Nat
  BY <1>1, LenProperties DEF TermInv
<1>5. SUFFICES ASSUME NEW i \in DOMAIN lines
      PROVE  \/ HasRun(i) \/ OnItsWay(i) \/ i \in Ids(session.buffer)
             \/ lines[i].kind = "blank"
             \/ \E j \in i..Len(lines) : lines[j].mode # lines[i].mode
  BY <1>3
<1>6. CASE i \in 1..Taken
  <2>1. Safe(session, i, Taken)
    BY <1>1, <1>2, <1>6 DEF TermInv, Whole
  <2>2. Taken \in Nat /\ Taken =< Len(lines)
    BY <1>4, EmptySeq DEF Taken
  <2>3. QED
    BY <1>4, <1>6, <2>1, <2>2 DEF Safe, In, HasRun, Ids
<1>7. CASE i \notin 1..Taken
  <2>1. Taken # Len(lines)
    BY <1>4, <1>7
  <2>2. toWorker # <<>> /\ lines # <<>> /\ i = Len(lines)
    <3>1. ~(toWorker = <<>> \/ lines = <<>>) /\ Taken = Len(lines) - 1
      BY <2>1 DEF Taken
    <3>2. QED
      BY <1>4, <1>7, <3>1
  <2>3. Asked
    BY <1>1, <2>2 DEF TermInv, Quiet, Making, Said
  <2>4. toWorker = <<[type |-> "eval", line |-> lines[i]]>> /\ lines[i].n = i
    BY <1>1, <2>2, <2>3 DEF Asked, TermInv
  <2>5. OnItsWay(i)
    BY <2>4, One DEF OnItsWay
  <2>6. QED
    BY <2>5
<1>8. QED
  BY <1>6, <1>7

\* For any number of lines and clicks, no line runs twice, out of its order or not at all, but for
\* those that the property exempts (cpsl-web, eval_lua, eval_python and reset_buffers).
THEOREM LinesAccountedAlways == TerminalSpec => []LinesAccounted
  BY TerminalInductive, Accounted, PTL
=============================================================================
