----------------------------- MODULE ShScripts -----------------------------
(***************************************************************************)
(* Shell scripts, as the parser hands them to core/src/sh_transpile.rs:    *)
(* words, commands, pipelines, lists and blocks.                           *)
(***************************************************************************)
EXTENDS Integers, Sequences

\* A word: literal text, $x, $?, $1, $(...), ${x:-text} or $((...)), in a row
Lit(t) == [frag |-> "lit", text |-> <<t>>]
Var(x) == [frag |-> "var", name |-> x]
Code == [frag |-> "code"]
Arg == [frag |-> "arg"]
Sub(body) == [frag |-> "sub", body |-> body]
Default(x, t) == [frag |-> "default", name |-> x, text |-> <<t>>]
\* Values separated by commas, each put into a variable, or none; x++ has the value before
Arith(steps) == [frag |-> "arith", steps |-> steps]
Calc(op, l, r) == [op |-> op, l |-> l, r |-> r]
Num(n) == [var |-> "", n |-> n]
Of(x) == [var |-> x, n |-> 0]
Literal(n) == Calc("literal", Num(n), Num(n))
ToVar(x, e) == [into |-> x, post |-> FALSE, e |-> e]
Incr(x) == [into |-> x, post |-> TRUE, e |-> Calc("+", Of(x), Num(1))]

\* A command: echo, test of two words, exit, pwd (prints "/"), true, false, cat (its input, or the
\* file), miss (a grep that finds nothing), mkdir, deny (an rm that fails), a function, or none
Cmd(name, words) == [node |-> "cmd", name |-> name, words |-> words, to |-> FALSE]
Into(c) == [c EXCEPT !.to = TRUE]
Assign(x, w) == [node |-> "assign", name |-> x, word |-> w]
If(arms, els) == [node |-> "if", arms |-> arms, els |-> els]
While(guard, body, turned) == [node |-> "while", guard |-> guard, body |-> body, turned |-> turned]
For(x, words, body) == [node |-> "for", name |-> x, words |-> words, body |-> body]
Case(w, arms) == [node |-> "case", word |-> w, arms |-> arms]
Group(body) == [node |-> "group", body |-> body, to |-> FALSE]
Subshell(body) == [node |-> "subshell", body |-> body]
Function(f, body) == [node |-> "function", name |-> f, body |-> body]

Pipe(bang, cmds) == [bang |-> bang, cmds |-> cmds]
\* first && next || next ...
List(first, rest) == [first |-> first, rest |-> rest]
One(c) == List(Pipe(FALSE, <<c>>), <<>>)
Builtins == {"echo", "test", "exit", "pwd", "true", "false", "cat", "miss", "mkdir", "deny"}
Filters == {"cat", "miss"}
=============================================================================
