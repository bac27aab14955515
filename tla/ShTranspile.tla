---------------------------- MODULE ShTranspile ----------------------------
(***************************************************************************)
(* Shell scripts, run as POSIX has it and as the Luau text that            *)
(* core/src/sh_transpile.rs makes of them, with the commands of            *)
(* runtime/shrt.luau.  What is compared is what is printed, the file that  *)
(* is written, and the exit code.                                          *)
(*                                                                         *)
(* A text is a sequence of atoms, one of them the newline.  Blank lines,   *)
(* which emit never prints, and the messages of commands that fail are     *)
(* left out.  A command is known by what it prints, the code it exits with *)
(* and the value its function returns; there is one file.                  *)
(***************************************************************************)
EXTENDS ShScripts, Integers, Sequences, SequencesExt, FiniteSets, TLC

\* The scripts, which are sequences of lists, in four parts: each of these has a set for each part
CONSTANT Forms

MaxRounds == 3       \* what loops longer is taken for endless

VARIABLES
  script,            \* what is translated
  expected, actual   \* how it ends: in a shell, and as it is translated
vars == <<script, expected, actual>>

NL == "nl"
Lines(t) == FoldLeft(LAMBDA out, c : IF c = NL /\ (out = <<>> \/ Last(out) = NL) THEN out ELSE Append(out, c), <<>>, t)
Stripped(t) == IF t # <<>> /\ Last(t) = NL THEN Front(t) ELSE t

(* --------------------- what the translation writes --------------------- *)

\* Luau: expressions
Str(t) == [expr |-> "str", text |-> t]
Name(x) == [expr |-> "name", name |-> x]
Nil == [expr |-> "nil"]
In == [expr |-> "in"]
LastCode == [expr |-> "code"]
Args == [expr |-> "args"]
Concat(es) == [expr |-> "concat", parts |-> es]
ArithExpr(steps) == [expr |-> "arith", steps |-> steps]
Or(x, e) == [expr |-> "default", name |-> x, other |-> e]
Sh(name, es) == [expr |-> "sh", name |-> name, parts |-> es]
Direct(f, es) == [expr |-> "call", name |-> f, parts |-> es]
PipeOf(es) == [expr |-> "pipe", parts |-> es]
Capture(e) == [expr |-> "capture", body |-> e]
CaptureAll(code) == [expr |-> "captureAll", code |-> code]
\* e and e or e ..., without parentheses: the flat list of its terms
Chain(terms) == [expr |-> "chain", terms |-> terms]
Not(e) == [expr |-> "not", body |-> e]
Joined(chains, op) ==
  FlattenSeq([i \in DOMAIN chains |-> IF i = 1 THEN chains[i].terms ELSE [chains[i].terms EXCEPT ![1].op = op]])

\* and statements
Do(e) == [stmt |-> "do", e |-> e]
Local(x, e) == [stmt |-> "local", name |-> x, e |-> e]
SetTo(x, e) == [stmt |-> "set", name |-> x, e |-> e]
\* of which these have code inside of them; of an if it is the last branch
IfCode(zero) == [stmt |-> "ifcode", zero |-> zero]
Branches(arms) == [stmt |-> "if", arms |-> arms]
Loop(e) == [stmt |-> "while", e |-> e]
Each(x, es) == [stmt |-> "for", name |-> x, items |-> es]
LocalFunction(f) == [stmt |-> "function", name |-> f]
Redirect(e) == [stmt |-> "redirect", e |-> e]

\* What the transpiler remembers: its declared_vars and declared_fns, and what it has written
ShTranspiler == [vars |-> {}, fns |-> {}, code |-> <<>>]
Emit(t, stmt) == [t EXCEPT !.code = Append(@, stmt)]

RECURSIVE visit_block(_, _), visit_pipeable(_, _), visit_rest(_, _), visit_if(_, _), visit_arms(_, _, _),
          word_to_expr(_, _), simple_command_to_expr(_, _), top_level_to_expr(_, _), listable_to_expr(_, _)

\* A substitution of one list is an expression; of several, a function without a result,
\* translated with nothing declared
param_subst_to_expr(t, body) ==
  IF Len(body) = 1 THEN Capture(top_level_to_expr(t, body[1]))
  ELSE CaptureAll(visit_block(ShTranspiler, body).code)

\* Of a sequence only the last is evaluated
arith_to_expr(steps) == ArithExpr(<<Last(steps)>>)

FragToExpr(t, f) ==
  CASE f.frag = "lit" -> Str(f.text)
    [] f.frag = "var" -> Name(f.name)
    [] f.frag = "code" -> LastCode
    [] f.frag = "arg" -> Args
    [] f.frag = "sub" -> param_subst_to_expr(t, f.body)
    [] f.frag = "default" -> Or(f.name, Str(f.text))
    [] f.frag = "arith" -> arith_to_expr(f.steps)

Whole(es) == IF es = <<>> THEN Str(<<>>) ELSE IF Len(es) = 1 THEN es[1] ELSE Concat(es)
word_to_expr(t, w) == Whole([i \in DOMAIN w |-> FragToExpr(t, w[i])])

\* Functions that were declared so far, anywhere, are called by name
Called(t, f, es) == IF f \in Builtins THEN Sh(f, es) ELSE IF f \in t.fns THEN Direct(f, es) ELSE Sh("run", es)
simple_command_to_expr(t, c) == Called(t, c.name, [i \in DOMAIN c.words |-> word_to_expr(t, c.words[i])])

pipeable_to_expr(t, c) == IF c.node = "cmd" THEN simple_command_to_expr(t, c) ELSE Nil

\* Behind a pipe there are filters and modules
pipeable_to_pipe_expr(t, c) ==
  IF c.node # "cmd" THEN In ELSE IF c.name \in Filters THEN Sh(c.name, <<In>>) ELSE Sh("run", <<>>)

PipeExpr(t, cmds) ==
  PipeOf([i \in DOMAIN cmds |-> IF i = 1 THEN pipeable_to_expr(t, cmds[1]) ELSE pipeable_to_pipe_expr(t, cmds[i])])

\* In an expression a negated command is a pipe of one
listable_to_expr(t, p) ==
  IF Len(p.cmds) = 1 /\ ~p.bang THEN pipeable_to_expr(t, p.cmds[1]) ELSE PipeExpr(t, p.cmds)

top_level_to_expr(t, l) ==
  LET all == <<[op |-> "", cmd |-> l.first]>> \o l.rest
  IN Chain([i \in DOMAIN all |-> [op |-> CASE all[i].op = "&&" -> "and" [] all[i].op = "||" -> "or" [] OTHER -> "",
                                  e |-> listable_to_expr(t, all[i].cmd)]])

guard_to_expr(t, guard) == Chain(Joined([i \in DOMAIN guard |-> top_level_to_expr(t, guard[i])], "and"))

visit_assign_Always(t, c) == Emit([t EXCEPT !.vars = @ \cup {c.name}], Local(c.name, word_to_expr(t, c.word)))

\* Assignments declare a local the first time the name is written
Assigned(t, x, e) ==
  IF x \in t.vars THEN Emit(t, SetTo(x, e)) ELSE Emit([t EXCEPT !.vars = @ \cup {x}], Local(x, e))
visit_assign(t, c) == Assigned(t, c.name, word_to_expr(t, c.word))

\* The statements of a body, translated with what is declared so far, and put into a statement
Inner(t, body) == visit_block([t EXCEPT !.code = <<>>], body)
Kept(t, u, stmt) == Emit([u EXCEPT !.code = t.code], [code |-> u.code] @@ stmt)
Armed(a, e, u) == [t |-> [u EXCEPT !.code = a.t.code], arms |-> Append(a.arms, [e |-> e, code |-> u.code])]

\* Each guard is translated after the bodies before it
visit_if(a, arms) ==
  IF arms = <<>> THEN a
  ELSE visit_if(Armed(a, guard_to_expr(a.t, Head(arms).guard), Inner(a.t, Head(arms).body)), Tail(arms))

\* The word of a case is translated once, its patterns one by one
visit_arms(a, e, arms) ==
  IF arms = <<>> THEN a
  ELSE visit_arms(Armed(a, Sh("match", <<e, word_to_expr(a.t, Head(arms).pattern)>>), Inner(a.t, Head(arms).body)),
                  e, Tail(arms))

Branched(a, els) == Kept(a.t, Inner(a.t, els), Branches(a.arms))

visit_compound_command(t, c) ==
  LET a == [t |-> t, arms |-> <<>>]
  IN CASE c.node = "if" -> Branched(visit_if(a, c.arms), c.els)
       [] c.node = "while" ->
            Kept(t, Inner(t, c.body), Loop(IF c.turned THEN Not(guard_to_expr(t, c.guard)) ELSE guard_to_expr(t, c.guard)))
       [] c.node = "for" ->
            Kept(t, Inner(t, c.body), Each(c.name, [i \in DOMAIN c.words |-> word_to_expr(t, c.words[i])]))
       [] c.node = "case" -> Branched(visit_arms(a, word_to_expr(t, c.word), c.arms), <<>>)
       [] c.node \in {"group", "subshell"} -> visit_block(t, c.body)

visit_function_def(t, c) ==
  Kept(t, Inner([t EXCEPT !.fns = @ \cup {c.name}], <<One(c.body)>>), LocalFunction(c.name))

Statement(c, e) == IF c.to THEN Redirect(e) ELSE Do(e)
visit_simple_command(t, c) == Emit(t, Statement(c, simple_command_to_expr(t, c)))

visit_pipeable(t, c) ==
  CASE c.node = "cmd" -> visit_simple_command(t, c)
    [] c.node = "assign" -> visit_assign(t, c)
    [] c.node = "function" -> visit_function_def(t, c)
    [] OTHER -> visit_compound_command(t, c)

visit_listable(t, p) == IF Len(p.cmds) = 1 THEN visit_pipeable(t, p.cmds[1]) ELSE Emit(t, Do(PipeExpr(t, p.cmds)))

\* One test of the exit code after another
visit_rest(t, rest) ==
  IF rest = <<>> THEN t
  ELSE visit_rest(Kept(t, visit_listable([t EXCEPT !.code = <<>>], Head(rest).cmd), IfCode(Head(rest).op = "&&")),
                  Tail(rest))
visit_and_or_list(t, l) == visit_rest(visit_listable(t, l.first), l.rest)

visit_top_level(t, l) == visit_and_or_list(t, l)
visit_block(t, body) == IF body = <<>> THEN t ELSE visit_block(visit_top_level(t, Head(body)), Tail(body))
transpile_sh(body) == visit_block(ShTranspiler, body).code

(* ----------------------------- arithmetic ------------------------------ *)

\* A text that is no number is 0
tonumber(t) == IF \E n \in -9..9 : t = <<ToString(n)>> THEN CHOOSE n \in -9..9 : t = <<ToString(n)>> ELSE 0
Towards0(n, d) == IF n < 0 THEN -((-n) \div d) ELSE n \div d

\* Operands are numbers, or names of variables whose value is at(name); Div is the division
Value(e, at(_), Div(_, _)) ==
  LET of(a) == IF a.var # "" THEN at(a.var) ELSE a.n
      l == of(e.l)
      r == of(e.r)
  IN CASE e.op = "literal" -> l
       [] e.op = "+" -> l + r
       [] e.op = "<" -> IF l < r THEN 1 ELSE 0
       [] e.op = "/" -> Div(l, r)
       [] e.op = "%" -> l - Div(l, r) * r

(* ---------------------------- the Luau text ---------------------------- *)

NilV == [typ |-> "nil", text |-> <<>>]
TextV(t) == [typ |-> "string", text |-> t]
NumberV(n) == [typ |-> "number", text |-> <<ToString(n)>>]
BoolV(b) == [typ |-> "boolean", text |-> <<IF b THEN "true" ELSE "false">>]
Truthy(v) == v.typ # "nil" /\ v # BoolV(FALSE)

NoFile == <<"no file">>
\* cells are the locals in the order of their declaration: a block drops its own, and a function
\* sees those that were there when it was declared
Luau == [cells |-> <<>>, globals |-> [x \in {} |-> NilV], out |-> <<>>, code |-> 0, quiet |-> 0,
         err |-> "", args |-> NilV, file |-> NoFile]

Cell(s, x) == LET at == {i \in DOMAIN s.cells : s.cells[i].name = x}
              IN IF at = {} THEN 0 ELSE CHOOSE i \in at : \A j \in at : j <= i
Read(s, x) == IF Cell(s, x) > 0 THEN s.cells[Cell(s, x)].val ELSE IF x \in DOMAIN s.globals THEN s.globals[x] ELSE NilV
Write(s, x, v) == IF Cell(s, x) > 0 THEN [s EXCEPT !.cells[Cell(s, x)].val = v] ELSE [s EXCEPT !.globals = (x :> v) @@ @]
Push(s, x, v) == [s EXCEPT !.cells = Append(@, [name |-> x, val |-> v])]
Popped(t, s) == [t EXCEPT !.cells = SubSeq(@, 1, Len(s.cells))]

Got(s, v) == [s |-> s, v |-> v]
Raise(s, what) == [s EXCEPT !.err = what]
emit(s, t) == IF s.quiet > 0 \/ t = <<>> THEN s ELSE [s EXCEPT !.out = @ \o Stripped(t) \o <<NL>>]
Quiet(s) == [s EXCEPT !.quiet = @ + 1]
Loud(s) == [s EXCEPT !.quiet = @ - 1]

\* The functions of shrt.luau; vs are the values of their arguments
Command(name, vs, s) ==
  LET says(t, c) == Got([emit(s, t) EXCEPT !.code = c], TextV(t))
      ends(c, v) == Got([s EXCEPT !.code = c], v)
      holds(b) == ends(IF b THEN 0 ELSE 1, BoolV(b))
  IN CASE name = "echo" -> says(vs[1].text, 0)
       [] name = "pwd" -> says(<<"/">>, s.code)
       [] name = "true" -> holds(TRUE)
       [] name = "false" -> holds(FALSE)
       [] name = "test" -> holds(vs[1] = vs[2])
       [] name = "match" -> Got(s, BoolV(vs[2].text \in {vs[1].text, <<"*">>}))
       [] name = "miss" -> ends(1, TextV(<<>>))
       [] name = "mkdir" -> ends(0, NilV)
       [] name = "deny" -> ends(1, NilV)
       [] name = "cat" -> IF vs # <<>> THEN says(vs[1].text, s.code)
                          ELSE IF s.file = NoFile THEN ends(1, TextV(<<>>)) ELSE says(s.file, 0)
       [] name = "exit" -> Got(Raise([s EXCEPT !.code = 3], "exit"), NilV)
       [] name = "run" -> Got(Raise(s, "command not found"), NilV)

RECURSIVE Eval(_, _, _), EvalAll(_, _, _, _), Exec(_, _), ExecAll(_, _), Rounds(_, _, _), EachOf(_, _, _, _),
          EvalChain(_, _, _, _), Stages(_, _, _), Arms(_, _, _)

EvalAll(es, s, in, vs) ==
  IF es = <<>> THEN Got(s, vs)
  ELSE LET r == Eval(Head(es), s, in) IN EvalAll(Tail(es), r.s, in, Append(vs, r.v))

\* and binds stronger than or
EvalChain(terms, v, s, in) ==
  IF terms = <<>> \/ s.err # "" \/ (Head(terms).op = "or" /\ Truthy(v)) THEN Got(s, v)
  ELSE IF Head(terms).op = "and" /\ ~Truthy(v) THEN EvalChain(Tail(terms), v, s, in)
  ELSE LET r == Eval(Head(terms).e, s, in) IN EvalChain(Tail(terms), r.v, r.s, in)

Stages(es, in, s) ==
  IF es = <<>> \/ s.err # "" THEN Got(s, in)
  ELSE LET r == Eval(Head(es), s, in) IN Stages(Tail(es), r.v, r.s)

CallFunction(s, f, arg) ==
  LET t == ExecAll(f.code, [s EXCEPT !.cells = SubSeq(@, 1, f.depth), !.args = arg])
  IN [t EXCEPT !.cells = SubSeq(@, 1, f.depth) \o SubSeq(s.cells, f.depth + 1, Len(s.cells)), !.args = s.args]

Eval(e, s, in) ==
  IF s.err # "" THEN Got(s, NilV) ELSE
  CASE e.expr = "str" -> Got(s, TextV(e.text))
    [] e.expr = "name" -> Got(s, Read(s, e.name))
    [] e.expr = "nil" -> Got(s, NilV)
    [] e.expr = "in" -> Got(s, in)
    [] e.expr = "code" -> Got(s, NumberV(s.code))
    [] e.expr = "args" -> Got(s, TextV(s.args.text))
    [] e.expr = "default" -> Got(s, IF Read(s, e.name).text # <<>> THEN Read(s, e.name) ELSE Eval(e.other, s, in).v)
    [] e.expr = "arith" ->
         LET step == e.steps[1]
             n == Value(step.e, LAMBDA x : tonumber(Read(s, x).text), LAMBDA a, b : a \div b)
             set == IF step.into = "" THEN s ELSE Write(s, step.into, TextV(<<ToString(n)>>))
         IN Got(set, TextV(<<ToString(IF step.post THEN n - 1 ELSE n)>>))
    [] e.expr = "not" -> LET r == Eval(e.body, s, in) IN Got(r.s, BoolV(~Truthy(r.v)))
    [] e.expr = "chain" -> EvalChain(e.terms, BoolV(TRUE), s, in)
    [] e.expr = "concat" ->
         LET r == EvalAll(e.parts, s, in, <<>>)
         IN IF \E i \in DOMAIN r.v : r.v[i].typ \in {"nil", "boolean"} THEN Got(Raise(r.s, "concatenate"), NilV)
            ELSE Got(r.s, TextV(FlattenSeq([i \in DOMAIN r.v |-> r.v[i].text])))
    [] e.expr = "sh" ->
         LET r == EvalAll(e.parts, s, in, <<>>)
         IN IF r.s.err # "" THEN Got(r.s, NilV) ELSE Command(e.name, r.v, r.s)
    [] e.expr = "call" ->
         LET r == EvalAll(e.parts, s, in, <<>>)
             f == Read(s, e.name)
         IN IF r.s.err # "" THEN Got(r.s, NilV)
            ELSE IF f.typ # "function" THEN Got(Raise(r.s, "call a nil value"), NilV)
            ELSE Got(CallFunction(r.s, f, IF r.v = <<>> THEN NilV ELSE r.v[1]), NilV)
    [] e.expr = "pipe" ->
         LET r == Stages(e.parts, NilV, Quiet(s))
             t == Loud(r.s)
         IN IF t.err # "" THEN Got(t, NilV)
            ELSE IF r.v.typ = "boolean" /\ t.quiet = 0 THEN Got(Raise(t, "string expected"), NilV)
            ELSE Got(emit(t, r.v.text), r.v)
    [] e.expr = "capture" -> LET r == Eval(e.body, Quiet(s), in) IN Got(Loud(r.s), r.v)
    [] e.expr = "captureAll" -> Got(Loud(Popped(ExecAll(e.code, Quiet(s)), s)), NilV)

Block(code, s) == Popped(ExecAll(code, s), s)
Arms(arms, els, s) ==
  IF arms = <<>> THEN Block(els, s)
  ELSE LET r == Eval(Head(arms).e, s, NilV)
       IN IF Truthy(r.v) THEN Block(Head(arms).code, r.s) ELSE Arms(Tail(arms), els, r.s)

Rounds(c, s, n) ==
  LET r == Eval(c.e, s, NilV)
  IN IF r.s.err # "" \/ ~Truthy(r.v) THEN r.s
     ELSE IF n = MaxRounds THEN Raise(r.s, "endless") ELSE Rounds(c, Block(c.code, r.s), n + 1)

EachOf(x, vs, code, s) ==
  IF vs = <<>> \/ vs[1].typ = "nil" \/ s.err # "" THEN s
  ELSE EachOf(x, Tail(vs), code, Popped(ExecAll(code, Push(s, x, vs[1])), s))

Exec(c, s) ==
  CASE c.stmt = "do" -> Eval(c.e, s, NilV).s
    [] c.stmt = "local" -> LET r == Eval(c.e, s, NilV) IN Push(r.s, c.name, r.v)
    [] c.stmt = "set" -> LET r == Eval(c.e, s, NilV) IN Write(r.s, c.name, r.v)
    [] c.stmt = "ifcode" -> IF (s.code = 0) = c.zero THEN Block(c.code, s) ELSE s
    [] c.stmt = "if" -> Arms(c.arms, c.code, s)
    [] c.stmt = "while" -> Rounds(c, s, 0)
    [] c.stmt = "for" -> LET r == EvalAll(c.items, s, NilV, <<>>) IN EachOf(c.name, r.v, c.code, r.s)
    [] c.stmt = "function" -> Push(s, c.name, [typ |-> "function", text |-> <<>>, code |-> c.code, depth |-> Len(s.cells) + 1])
    [] c.stmt = "redirect" ->
         LET r == Eval(c.e, Quiet(s), NilV)
             t == Loud(r.s)
         IN IF t.err # "" THEN t
            ELSE [t EXCEPT !.file = IF r.v.text = <<>> THEN <<>> ELSE r.v.text \o <<NL>>, !.code = 0]

ExecAll(code, s) == IF code = <<>> \/ s.err # "" THEN s ELSE ExecAll(Tail(code), Exec(Head(code), s))

(* ------------------------------- a shell ------------------------------- *)

\* vars, funs, file: the state of a shell.  The rest is kept to say in "odd" what the script relies on
\* that the translation does not keep: the code the commands of shrt.luau have recorded, the value
\* of the last command as an expression, what is declared at this point of the text, and where it is
Shell == [vars |-> [x \in {} |-> NilV], funs |-> [f \in {} |-> <<>>], out |-> <<>>, code |-> 0, stop |-> FALSE,
          arg |-> NilV, file |-> NoFile,
          odd |-> {}, recorded |-> 0, value |-> NilV, known |-> {}, fknown |-> {}, loops |-> {}, gone |-> {},
          depth |-> 0, inFunction |-> FALSE, expression |-> FALSE]

Odd(p, what, holds) == IF holds THEN [p EXCEPT !.odd = @ \cup {what}] ELSE p
Prints(p, t) == [p EXCEPT !.out = @ \o t \o <<NL>>]
\* A command that records its code in sh.last_exit_code
Ends(p, c, v) == [p EXCEPT !.code = c, !.recorded = c, !.value = v]
Trimmed(t) == IF t # <<>> /\ Last(t) = NL THEN Lines(Front(t)) ELSE t
SameText(t, u) == Lines(t \o <<NL>>) = Lines(u \o <<NL>>)
Agrees(p) == Truthy(p.value) = (p.code = 0)
\* Subshells leave their variables behind
Back(p, q) == [q EXCEPT !.vars = p.vars, !.funs = p.funs, !.known = p.known, !.fknown = p.fknown, !.gone = p.gone,
                        !.expression = p.expression, !.stop = p.stop,
                        !.odd = @ \cup (IF q.stop \/ <<q.vars, q.funs>> # <<p.vars, p.funs>> THEN {"subshell"} ELSE {})]
Deeper(p) == [p EXCEPT !.depth = @ + 1]
Upper(p, q) == [q EXCEPT !.depth = p.depth]

RECURSIVE Word(_, _), WordsOf(_, _, _), RunCommand(_, _), RunPipe(_, _), RunList(_, _), RunBody(_, _), RunArms(_, _, _),
          RunRounds(_, _, _, _), RunEach(_, _, _), Guard(_, _), RunCase(_, _, _), Fragments(_, _, _), Joins(_, _, _), WordsAfter(_, _, _), Matched(_, _, _),
          RunStages(_, _, _), Then(_, _)

Substituted(p, body) ==
  LET one == Len(body) = 1
      q == RunBody(body, [p EXCEPT !.out = <<>>, !.expression = one, !.value = NilV,
                                   !.known = IF one THEN @ ELSE {}, !.fknown = IF one THEN @ ELSE {}])
      text == Trimmed(q.out)
      v == IF one THEN q.value ELSE NilV
  IN Got(Odd([Back(p, q) EXCEPT !.out = p.out], "substitution", v.text # text), [typ |-> v.typ, text |-> text])

\* Division and remainder of a shell are those of C
Stepped(q, step, n, floored) ==
  Got(Odd(Odd(IF step.into = "" THEN q ELSE [q EXCEPT !.vars = (step.into :> TextV(<<ToString(n)>>)) @@ @, !.gone = @ \ {step.into}],
              "scope", step.into \notin q.known \cup {""}),
          "arithmetic", n # floored),
      TextV(<<ToString(IF step.post THEN n - 1 ELSE n)>>))

Calculated(steps, p) ==
  FoldLeft(LAMBDA r, step :
    LET at(x) == tonumber(IF x \in DOMAIN r.s.vars THEN r.s.vars[x].text ELSE <<>>)
    IN Stepped(r.s, step, Value(step.e, at, Towards0), Value(step.e, at, LAMBDA a, b : a \div b)),
    Got(Odd(p, "arithmetic", \E i \in DOMAIN Front(steps) : steps[i].into # ""), NilV), steps)

Fragment(f, p) ==
  LET x == f.name
      v == IF x \in DOMAIN p.vars THEN p.vars[x] ELSE NilV
  IN CASE f.frag = "lit" -> Got(p, TextV(f.text))
       [] f.frag \in {"var", "default"} ->
            Got(Odd(p, "scope", x \in p.gone \/ (p.inFunction /\ x \in DOMAIN p.vars \ (p.known \cup p.loops))),
                IF f.frag = "default" /\ v.text = <<>> THEN TextV(f.text) ELSE v)
       [] f.frag = "code" -> Got(Odd(p, "status", p.recorded # p.code), NumberV(p.code))
       [] f.frag = "arg" -> Got(p, TextV(p.arg.text))
       [] f.frag = "sub" -> Substituted(p, f.body)
       [] f.frag = "arith" -> Calculated(f.steps, p)

Fragments(w, p, vs) == IF w = <<>> THEN Got(p, vs) ELSE Joins(w, Fragment(Head(w), p), vs)
Joins(w, g, vs) == Fragments(Tail(w), g.s, Append(vs, g.v))
InOne(r) ==
  IF Len(r.v) = 1 THEN Got(r.s, r.v[1])
  ELSE Got(Odd(r.s, "unset", \E i \in DOMAIN r.v : r.v[i].typ \in {"nil", "boolean"}),
           TextV(FlattenSeq([i \in DOMAIN r.v |-> r.v[i].text])))
Word(w, p) == InOne(Fragments(w, p, <<>>))

WordsOf(ws, p, vs) == IF ws = <<>> THEN Got(p, vs) ELSE WordsAfter(ws, Word(Head(ws), p), vs)
WordsAfter(ws, r, vs) == WordsOf(Tail(ws), r.s, Append(vs, r.v))

CallOf(c, vs, p) ==
  IF c.name \notin DOMAIN p.funs THEN Odd([p EXCEPT !.code = 127], "dispatch", TRUE)
  ELSE LET f == p.funs[c.name]
           q == RunBody(<<One(f.body)>>, [Deeper(p) EXCEPT !.inFunction = TRUE, !.expression = FALSE, !.loops = {},
                     !.known = f.known \ p.loops, !.fknown = f.fknown, !.arg = IF vs = <<>> THEN NilV ELSE vs[1]])
       IN Odd([Upper(p, q) EXCEPT !.inFunction = p.inFunction, !.expression = p.expression, !.loops = p.loops,
                  !.known = p.known, !.fknown = p.fknown, !.arg = p.arg, !.value = NilV],
              "dispatch", c.name \notin p.fknown)

\* A command, without its redirection
Performed(c, r) ==
  LET p == r.s
      t(v) == [v EXCEPT !.typ = "string"]
      holds(b) == Ends(p, IF b THEN 0 ELSE 1, BoolV(b))
  IN CASE c.name = "echo" -> Ends(Prints(p, r.v[1].text), 0, t(r.v[1]))
       [] c.name = "pwd" -> [Prints(p, <<"/">>) EXCEPT !.code = 0, !.value = TextV(<<"/">>)]
       [] c.name = "true" -> holds(TRUE)
       [] c.name = "false" -> holds(FALSE)
       [] c.name = "test" -> Odd(holds(r.v[1].text = r.v[2].text), "unset", r.v[1].typ # r.v[2].typ)
       [] c.name = "miss" -> Ends(p, 1, TextV(<<>>))
       [] c.name = "mkdir" -> Ends(p, 0, NilV)
       [] c.name = "deny" -> Ends(p, 1, NilV)
       [] c.name = "cat" -> IF p.file = NoFile THEN Ends(p, 1, TextV(<<>>))
                            ELSE Ends([p EXCEPT !.out = @ \o p.file], 0, TextV(p.file))
       [] c.name = "exit" -> [Ends(p, 3, NilV) EXCEPT !.stop = TRUE]
       [] OTHER -> CallOf(c, r.v, p)

Simple(c, p) == Performed(c, WordsOf(c.words, p, <<>>))

Redirected(c, p, q) ==
  LET ok == ~p.expression /\ c.name # "cat" /\ SameText(q.value.text, q.out)
  IN Odd([q EXCEPT !.out = p.out, !.file = q.out, !.recorded = 0], "redirection", ~ok)

Set(c, r) ==
  LET sub == \E i \in DOMAIN c.word : c.word[i].frag = "sub"
  IN Odd([r.s EXCEPT !.vars = (c.name :> r.v) @@ @, !.code = IF sub THEN @ ELSE 0,
                     !.gone = @ \ {c.name}, !.known = IF r.s.depth = 0 THEN @ \cup {c.name} ELSE @],
         "scope", r.s.depth > 0 /\ c.name \notin r.s.known)
RunFor(c, r) ==
  RunEach(c, r.v, [Odd(r.s, "unset", \E i \in DOMAIN r.v : r.v[i].typ = "nil") EXCEPT !.code = 0])
RunCases(c, r) == RunCase(c.arms, r.v, r.s)

\* What is no simple command is left out of expressions
RunCommand(c, q) ==
  LET p == Odd(q, "compound", q.expression /\ c.node # "cmd")
  IN CASE c.node = "cmd" -> IF c.to THEN Redirected(c, p, Simple(c, [p EXCEPT !.out = <<>>])) ELSE Simple(c, p)
       [] c.node = "assign" ->
            Set(c, Word(c.word, p))
       [] c.node = "if" -> RunArms(c.arms, c.els, p)
       [] c.node = "while" -> RunRounds(c, p, 0, 0)
       [] c.node = "for" -> RunFor(c, WordsOf(c.words, p, <<>>))
       [] c.node = "case" -> RunCases(c, Word(c.word, p))
       [] c.node = "group" -> LET q2 == RunBody(c.body, [p EXCEPT !.out = IF c.to THEN <<>> ELSE @])
                              IN IF c.to THEN Odd([q2 EXCEPT !.out = p.out, !.file = q2.out], "redirection", TRUE) ELSE q2
       [] c.node = "subshell" -> Back(p, RunBody(c.body, p))
       [] c.node = "function" ->
            Odd([p EXCEPT !.funs = (c.name :> [body |-> c.body, known |-> p.known, fknown |-> p.fknown \cup {c.name}]) @@ @,
                          !.fknown = @ \cup {c.name}, !.code = 0], "scope", p.depth > 0)

\* A guard: its value decides, several lists are joined by and
Guard(guard, p) ==
  LET q == RunBody(<<Head(guard)>>, [p EXCEPT !.expression = TRUE])
      more == Len(guard) > 1
      or == \E i \in DOMAIN Head(guard).rest : Head(guard).rest[i].op = "||"
      r == Odd(q, "guard", ~Agrees(q) \/ (more /\ (q.code # 0 \/ or)))
  IN IF q.stop THEN q ELSE IF more THEN Guard(Tail(guard), r) ELSE [r EXCEPT !.expression = p.expression]

RunArms(arms, els, p) ==
  IF arms = <<>> THEN Upper(p, RunBody(els, [Deeper(p) EXCEPT !.code = 0]))
  ELSE LET q == Guard(Head(arms).guard, p)
       IN IF q.stop THEN q
          ELSE IF q.code = 0 THEN Upper(p, RunBody(Head(arms).body, Deeper(q)))
          ELSE RunArms(Tail(arms), els, q)

RunRounds(c, p, n, code) ==
  LET q == Guard(c.guard, p)
      r == RunBody(c.body, Deeper(q))
  IN IF q.stop \/ (q.code = 0) = c.turned THEN IF q.stop THEN q ELSE [q EXCEPT !.code = code]
     ELSE IF n = MaxRounds THEN Odd(q, "endless", TRUE)
     ELSE IF r.stop THEN r ELSE RunRounds(c, Upper(p, r), n + 1, r.code)

RunEach(c, vs, p) ==
  IF vs = <<>> \/ p.stop THEN p
  ELSE LET r == RunBody(c.body, [Deeper(p) EXCEPT !.vars = (c.name :> Head(vs)) @@ @, !.loops = @ \cup {c.name},
                                                 !.gone = @ \ {c.name}])
       IN RunEach(c, Tail(vs), [Upper(p, r) EXCEPT !.loops = p.loops, !.gone = @ \cup {c.name}])

RunCase(arms, v, p) ==
  IF arms = <<>> THEN [p EXCEPT !.code = 0]
  ELSE Matched(arms, v, Word(Head(arms).pattern, p))
Matched(arms, v, r) ==
  IF r.v.text \in {v.text, <<"*">>} THEN Upper(r.s, RunBody(Head(arms).body, [Deeper(r.s) EXCEPT !.code = 0]))
  ELSE RunCase(Tail(arms), v, r.s)

\* A stage behind a pipe, with its input
Stage(c, in, p) ==
  IF c.node = "cmd" /\ c.name = "cat" THEN [p EXCEPT !.out = in, !.code = 0, !.value = TextV(in)]
  ELSE Odd(RunCommand(c, p), "pipe", ~(c.node = "cmd" /\ c.name = "miss"))

RunStages(cmds, sub, q) ==
  IF cmds = <<>> THEN q
  ELSE RunStages(Tail(cmds), sub, Stage(Head(cmds), q.out, [sub EXCEPT !.odd = q.odd, !.recorded = q.recorded,
                                                                       !.file = q.file, !.stop = q.stop]))

First(p, q) == Odd(q, "pipe", ~SameText(q.value.text, q.out) \/ q.vars # p.vars)
Turned(l, p) == IF l.bang THEN [p EXCEPT !.code = IF @ = 0 THEN 1 ELSE 0] ELSE p
Ended(p, q) == [Back(p, q) EXCEPT !.out = p.out \o q.out]
RunPipe(l, p) ==
  LET sub == [p EXCEPT !.out = <<>>, !.expression = TRUE]
  IN Turned(l, IF Len(l.cmds) = 1 THEN RunCommand(l.cmds[1], p)
               ELSE Ended(p, RunStages(Tail(l.cmds), sub, First(p, RunCommand(l.cmds[1], sub)))))

Asked(q, r) ==
  IF r.op = "" THEN q
  ELSE Deeper(IF q.expression THEN Odd(q, "guard", ~Agrees(q)) ELSE Odd(q, "status", q.recorded # q.code))
Then(q, rest) ==
  IF rest = <<>> \/ q.stop THEN q
  ELSE LET r == Head(rest)
       IN Then(IF r.op = "" \/ (q.code = 0) = (r.op = "&&") THEN Upper(q, RunPipe(r.cmd, Asked(q, r))) ELSE Upper(q, Asked(q, r)),
               Tail(rest))

RunList(l, p) ==
  LET mixed == \E i, j \in DOMAIN l.rest : i < j /\ l.rest[i].op = "||" /\ l.rest[j].op = "&&"
  IN Then(Odd(p, "guard", p.expression /\ mixed), <<[op |-> "", cmd |-> l.first]>> \o l.rest)

RunBody(body, p) == IF body = <<>> \/ p.stop THEN p ELSE RunBody(Tail(body), RunList(Head(body), p))

(* ------------------------------- the steps ------------------------------ *)

NotYet == <<>>
Init ==
  /\ \E f \in Forms : \E a \in f[1], b \in f[2], c \in f[3], d \in f[4] : script = a \o b \o c \o d
  /\ expected = NotYet /\ actual = NotYet

\* What a shell does
Result(p) == [out |-> Lines(p.out), file |-> Lines(p.file), code |-> p.code,
              odd |-> p.odd \cup (IF p.recorded # p.code THEN {"status"} ELSE {})]
RunInShell ==
  /\ expected = NotYet
  /\ expected' = Result(RunBody(script, Shell))
  /\ UNCHANGED <<script, actual>>

\* What the translation does.  A script that an error ends exits with 1
Outcome(s) == [out |-> Lines(s.out), file |-> Lines(s.file), code |-> IF s.err \in {"", "exit"} THEN s.code ELSE 1, err |-> s.err]
RunInLuau ==
  /\ expected # NotYet /\ actual = NotYet
  /\ actual' = Outcome(ExecAll(transpile_sh(script), Luau))
  /\ UNCHANGED <<script, expected>>

Next == RunInShell \/ RunInLuau
Spec == Init /\ [][Next]_vars

(* ------------------------------ properties ----------------------------- *)

\* A script does what it does in a shell: what it prints, writes to the file and exits with.
\* Unless it relies on what the translation does not keep: the exit code of a command
\* that does not record it, or of a negated one, the status of a guard where that is not its value, a
\* variable of another block or a later one, a variable without a value inside of a longer text, division below zero,
\* a subshell's own variables or exit, more than one command in a substitution or behind a pipe,
\* redirections of these, a compound command there, or a function before its definition.
\* (compat_bash.rs compares scripts with the output of bash in this way.)
SameInShell ==
  actual # NotYet /\ expected.odd = {} =>
    /\ actual.out = expected.out /\ actual.file = expected.file /\ actual.code = expected.code
    /\ actual.err \in {"", "exit"}
=============================================================================
