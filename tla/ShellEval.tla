----------------------------- MODULE ShellEval -----------------------------
(***************************************************************************)
(* One evaluation after another in a session: the shell runtime that bash  *)
(* scripts are transpiled to (runtime/shrt.luau), the print buffer of      *)
(* Sandbox::exec and exec_stdout (core/src/sandbox.rs), and the answers of *)
(* eval_bash and eval_luau (ffi/src/lib.rs).                               *)
(*                                                                         *)
(* A script is any sequence of commands, some of them inside a pipeline, a *)
(* command substitution or a redirection.  Commands are told apart by what *)
(* they do to the output and to the exit code, not by name.                *)
(***************************************************************************)
EXTENDS Naturals, Sequences

CONSTANTS
    Char, NL,   \* what texts are made of, and the newline in it
    Texts,      \* what commands produce
    Bool,       \* what true, false and test return
    Codes,      \* exit codes; 0 is success
    NoText,     \* nothing was returned
    MaxSteps,   \* bound: commands of one evaluation
    MaxNest     \* bound: contexts inside one another

ASSUME TextsAssumption ==
    /\ NL \in Char /\ Texts \subseteq Seq(Char)
    /\ NoText \notin Seq(Char) /\ Bool \notin Seq(Char) /\ Bool # NoText
ASSUME CodesAssumption == {0, 1} \subseteq Codes /\ Codes \subseteq Nat

VARIABLES
    phase,          \* "idle" between evaluations, "running", or "raised"
    language,       \* of the evaluation, "bash" or "luau"
    print_buf,      \* output so far
    needs_newline,  \* the newline of the last print is still due
    last_exit_code, \* sh.last_exit_code, which outlives the evaluation
    pipe_depth,     \* > 0: the commands print nothing
    nest,           \* contexts the next command runs in, innermost last
    value,          \* what the last command in the innermost context returned
    raised,         \* the exit code an error carries; NoText for other errors
    returned,       \* the Luau chunk returns a value
    response,       \* the JSON the host got
    shown,          \* the same output, each newline written with its print
    steps

vars == <<phase, language, print_buf, needs_newline, last_exit_code, pipe_depth,
          nest, value, raised, returned, response, shown, steps>>

output == <<print_buf, needs_newline, shown>>
control == <<phase, language, raised, returned, response>>
context == <<pipe_depth, nest>>

Kinds == {"pipe", "capture", "redirect"}

Due(nl) == IF nl THEN <<NL>> ELSE <<>>

NoResponse == [ok |-> FALSE, stdout |-> <<>>, exit_code |-> 0, via |-> "none"]

Init ==
    /\ phase = "idle" /\ language = "bash"
    /\ print_buf = <<>> /\ needs_newline = FALSE /\ shown = <<>>
    /\ last_exit_code = 0
    /\ pipe_depth = 0 /\ nest = <<>>
    /\ value = NoText
    /\ raised = NoText /\ returned = FALSE
    /\ response = NoResponse
    /\ steps = 0

-----------------------------------------------------------------------------
(* Output *)

\* print(): the newline it owes comes before the next output.
PrintFn(t) ==
    /\ print_buf' = (print_buf \o Due(needs_newline)) \o t
    /\ needs_newline' = TRUE
    /\ shown' = (shown \o t) \o <<NL>>

WriteFn_NoNewline(t) == \* Mutant: __write forgets the newline that is due.
    /\ print_buf' = print_buf \o t
    /\ needs_newline' = FALSE
    /\ shown' = shown \o t

\* __write(): ends without a newline.
WriteFn(t) ==
    /\ print_buf' = (print_buf \o Due(needs_newline)) \o t
    /\ needs_newline' = FALSE
    /\ shown' = shown \o t

\* emit() strips one newline, as print() adds its own.
Stripped(t) == IF t # <<>> /\ t[Len(t)] = NL THEN SubSeq(t, 1, Len(t) - 1) ELSE t

emit(t) ==
    IF pipe_depth = 0 /\ Stripped(t) # <<>> THEN PrintFn(Stripped(t)) ELSE UNCHANGED output

-----------------------------------------------------------------------------
(* Commands *)

\* The bound leaves room for the one command every context needs.
WithinBound == steps < MaxSteps \/ (nest # <<>> /\ value = NoText)

\* Pipelines and substitutions take any number of commands, a redirection one.
Ready ==
    /\ phase = "running" /\ WithinBound
    /\ nest # <<>> => (nest[Len(nest)] # "redirect" \/ value = NoText)

Bash == Ready /\ language = "bash" /\ steps' = steps + 1 /\ UNCHANGED <<control, context>>

Luau == Ready /\ language = "luau" /\ steps' = steps + 1 /\ UNCHANGED <<phase, language, response, context, value, last_exit_code>>

\* echo, cat, ls and others that succeed and say so
Echo(t) ==
    /\ Bash
    /\ emit(t)
    /\ value' = t
    /\ last_exit_code' = 0

\* echo -n
EchoN(t) ==
    /\ Bash
    /\ IF pipe_depth = 0 /\ t # <<>> THEN WriteFn(t) ELSE UNCHANGED output
    /\ value' = t
    /\ last_exit_code' = 0

\* pwd, printf, head, sort and others that leave the exit code alone
Show(t) ==
    /\ Bash
    /\ emit(t)
    /\ value' = t
    /\ UNCHANGED last_exit_code

\* A grep without a match, which returns its count with -c; a file that cannot
\* be read.  The code of cat over several files is that of the last.
Fail(t) ==
    /\ Bash
    /\ emit(t)
    /\ value' \in {t, <<>>}
    /\ last_exit_code' = 1

\* cd to a directory that is not there, which and the stubs of what the sandbox
\* lacks: they call print() in every context.
Warn(t) ==
    /\ Bash
    /\ PrintFn(t)
    /\ value' = <<>>
    /\ last_exit_code' = 1

\* help, and base64 of a text: print() too, and the exit code stays.
Tell(t) ==
    /\ Bash
    /\ PrintFn(t)
    /\ value' = <<>>
    /\ UNCHANGED last_exit_code

\* true, false, test: silent, and what they return is no text.
Decide(code) ==
    /\ Bash
    /\ value' = Bool
    /\ last_exit_code' = code
    /\ UNCHANGED output

\* Something in the command raises an error that is not an exit.
Crash ==
    /\ Ready
    /\ phase' = "raised" /\ raised' = NoText
    /\ UNCHANGED <<language, returned, response, context, value, output, last_exit_code, steps>>

Exit_Silent(code) == \* Mutant: $? is not set on the way out.
    /\ Ready /\ language = "bash"
    /\ phase' = "raised" /\ raised' = code
    /\ UNCHANGED <<last_exit_code, language, returned, response, context, value, output, steps>>

\* sh.exit raises "exit:<code>", whatever it is inside of.
Exit(code) ==
    /\ Ready /\ language = "bash"
    /\ last_exit_code' = code
    /\ phase' = "raised" /\ raised' = code
    /\ UNCHANGED <<language, returned, response, context, value, output, steps>>

LuauPrint(t) == Luau /\ ~returned /\ PrintFn(t) /\ UNCHANGED <<raised, returned>>

LuauWrite(t) == Luau /\ ~returned /\ WriteFn(t) /\ UNCHANGED <<raised, returned>>

\* The chunk ends with a return of a text, which exec() adds to the output.
LuauReturn(t) ==
    /\ Luau /\ ~returned /\ t # <<>>
    /\ returned' = TRUE
    /\ print_buf' = print_buf \o (IF print_buf = <<>> THEN t ELSE <<NL>> \o t)
    /\ UNCHANGED <<needs_newline, shown, raised>>

-----------------------------------------------------------------------------
(* Contexts: with_output_suppressed *)

Open(kind) ==
    /\ Ready /\ language = "bash"
    /\ Len(nest) < MaxNest /\ steps < MaxSteps
    /\ (kind = "redirect" /\ nest # <<>>) => nest[Len(nest)] = "capture"
    /\ pipe_depth' = pipe_depth + 1
    /\ nest' = Append(nest, kind)
    /\ value' = NoText
    /\ UNCHANGED <<control, output, last_exit_code, steps>>

\* The innermost context is done; its callback returned value.
Leaving(kind) ==
    /\ phase = "running" /\ nest # <<>>
    /\ nest[Len(nest)] = kind /\ value # NoText
    /\ pipe_depth' = pipe_depth - 1
    /\ nest' = SubSeq(nest, 1, Len(nest) - 1)

\* sh.pipe emits what its last command returned; in another context it only
\* returns it.
ClosePipe ==
    /\ Leaving("pipe")
    /\ value = Bool => pipe_depth' # 0
    /\ IF pipe_depth' = 0 /\ Stripped(value) # <<>> THEN PrintFn(Stripped(value)) ELSE UNCHANGED output
    /\ UNCHANGED <<control, value, last_exit_code, steps>>

\* emit() of a boolean: string.sub raises an error.
PipeRaises ==
    /\ Leaving("pipe")
    /\ value = Bool /\ pipe_depth' = 0
    /\ phase' = "raised" /\ raised' = NoText
    /\ UNCHANGED <<language, returned, response, value, output, last_exit_code, steps>>

\* sh.capture: the value becomes an argument.
CloseCapture ==
    /\ Leaving("capture")
    /\ value' = NoText
    /\ UNCHANGED <<control, output, last_exit_code, steps>>

\* sh.redirect_write to a file it can write: try_io sets the exit code.
CloseRedirect ==
    /\ Leaving("redirect")
    /\ value' = <<>>
    /\ last_exit_code' = 0
    /\ UNCHANGED <<control, output, steps>>

\* To /dev/null.
RedirectNull ==
    /\ Leaving("redirect")
    /\ value' = <<>>
    /\ UNCHANGED <<control, output, last_exit_code, steps>>

\* To one it cannot write: the message is emitted and nothing is written.
RedirectFails(t) ==
    /\ Leaving("redirect")
    /\ IF pipe_depth' = 0 /\ Stripped(t) # <<>> THEN PrintFn(Stripped(t)) ELSE UNCHANGED output
    /\ value' = <<>>
    /\ last_exit_code' = 1
    /\ UNCHANGED <<control, steps>>

Unwind_Keeps == \* Mutant: an error leaves the context without lowering pipe_depth.
    /\ phase = "raised" /\ nest # <<>>
    /\ nest' = SubSeq(nest, 1, Len(nest) - 1)
    /\ UNCHANGED <<control, pipe_depth, value, output, last_exit_code, steps>>

\* An error passes through a context: pcall, restore, raise again.
Unwind ==
    /\ phase = "raised" /\ nest # <<>>
    /\ pipe_depth' = pipe_depth - 1
    /\ nest' = SubSeq(nest, 1, Len(nest) - 1)
    /\ UNCHANGED <<control, value, output, last_exit_code, steps>>

-----------------------------------------------------------------------------
(* Evaluations *)

\* exec(): the buffer is cleared before the script runs.
Eval(lang) ==
    /\ phase = "idle"
    /\ phase' = "running" /\ language' = lang
    /\ print_buf' = <<>> /\ needs_newline' = FALSE /\ shown' = <<>>
    /\ raised' = NoText /\ returned' = FALSE /\ steps' = 0 /\ value' = NoText
    /\ response' = NoResponse
    /\ UNCHANGED <<last_exit_code, context>>

\* exec_stdout(): the final newline
Stdout ==
    IF needs_newline /\ print_buf # <<>> THEN print_buf \o <<NL>> ELSE print_buf

Answer(r) ==
    /\ phase' = "idle"
    /\ response' = r
    /\ value' = NoText /\ steps' = 0
    /\ UNCHANGED <<language, raised, returned, context, output, last_exit_code>>

Finish ==
    /\ phase = "running" /\ nest = <<>>
    /\ Answer([ok |-> TRUE, stdout |-> Stdout, via |-> "end",
               exit_code |-> IF language = "bash" THEN last_exit_code ELSE 0])

\* An exit answers with its code, another error with ok = false; what was
\* printed before is gone.
FinishRaised ==
    /\ phase = "raised" /\ nest = <<>>
    /\ Answer([ok |-> raised # NoText, stdout |-> <<>>, via |-> "error",
               exit_code |-> IF raised = NoText THEN 0 ELSE raised])

Next ==
    \/ \E lang \in {"bash", "luau"} : Eval(lang)
    \/ \E t \in Texts :
          \/ Echo(t) \/ EchoN(t) \/ Show(t) \/ Fail(t) \/ Warn(t) \/ Tell(t)
          \/ RedirectFails(t) \/ LuauPrint(t) \/ LuauWrite(t) \/ LuauReturn(t)
    \/ \E code \in Codes : Exit(code)
    \/ \E kind \in Kinds : Open(kind)
    \/ \E code \in {0, 1} : Decide(code)
    \/ ClosePipe \/ PipeRaises \/ CloseCapture \/ CloseRedirect \/ RedirectNull \/ Unwind
    \/ Crash \/ Finish \/ FinishRaised

Spec == Init /\ [][Next]_vars

-----------------------------------------------------------------------------
(* Properties *)

\* Type correctness.
TypeOK ==
    /\ phase \in {"idle", "running", "raised"} /\ language \in {"bash", "luau"}
    /\ print_buf \in Seq(Char) /\ shown \in Seq(Char) /\ needs_newline \in BOOLEAN
    /\ last_exit_code \in Codes
    /\ pipe_depth \in Nat /\ nest \in Seq(Kinds)
    /\ value \in Seq(Char) \cup {NoText, Bool}
    /\ raised \in Codes \cup {NoText} /\ returned \in BOOLEAN
    /\ response \in [ok : BOOLEAN, stdout : Seq(Char), exit_code : Codes,
                     via : {"none", "end", "error"}]
    /\ steps \in Nat

\* However an evaluation ends, also by an error inside nested pipelines and
\* substitutions, the next one prints again (shrt.luau:19, "one failed command
\* cannot poison a persistent shell session").
NextEvalPrints == phase = "idle" => pipe_depth = 0

\* An evaluation that runs to its end answers with what a process that prints
\* the same would have written: every newline is in its place, and nothing is left of a suppressed
\* text or of an earlier evaluation.  A lone empty print is the exception.
StdoutAsWritten ==
    phase = "idle" /\ response.via = "end" /\ ~returned /\ shown # <<NL>> =>
        response.stdout = shown

\* The exit code a bash evaluation answers with, by its last command or by an
\* exit however deep, is the one $? has in the next (ffi/src/lib.rs:2213).
QuestionMarkIsReported ==
    phase = "idle" /\ response.ok /\ language = "bash" =>
        response.exit_code = last_exit_code

\* A script's output reaches the host also when the script ends by exit
\* (sandbox.rs:128, "FFI callers need process-like stdout").
ExitKeepsOutput ==
    phase = "idle" /\ response.via = "error" /\ response.ok => response.stdout = shown
=============================================================================
