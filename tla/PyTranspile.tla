---------------------------- MODULE PyTranspile ----------------------------
(***************************************************************************)
(* Python scripts are not interpreted: transpile() (core/src/transpile.rs) *)
(* rewrites them statement by statement to Luau, a language without        *)
(* exceptions, loop else-clauses or function-wide variables.  Modelled are *)
(* the statements whose rewriting has to make up for one of these: if,     *)
(* while and for with else, break, continue, return, try with handlers,    *)
(* else and finally, raise, assignments and reads of names, in the body of *)
(* a function that a module defines and calls once.                        *)
(*                                                                         *)
(* A script is a tree of tuples; so is the Luau text.  Both are executed,  *)
(* Python by its own rules and Luau by its own, and what they print and    *)
(* how they end is compared.  Expressions are literals and names.          *)
(***************************************************************************)
EXTENDS Naturals, Sequences, TLC

CONSTANTS
    Names,   \* names of variables
    Sources  \* the scripts: [outer: names the module assigned before, body: of the function]

VARIABLES
    source,  \* the script
    phase,   \* "source", "translated" or "ran"
    luau,    \* what transpile() returned, <<>> before
    ran      \* what the Luau text printed and how it ended

vars == <<source, phase, luau, ran>>

-----------------------------------------------------------------------------
(* Python statements *)

Say(l) == <<"say", l>>                       \* print(l)
Use(x) == <<"use", x>>                       \* print(x)
Set(x, v) == <<"set", x, v>>                 \* x = v
If(c, body, orelse) == <<"if", c, body, orelse>>  \* c: "true", "false", or a name compared with 2
While(n, body, orelse) == <<"loop", "", n, body, orelse>>   \* the test holds n times
For(x, n, body, orelse) == <<"loop", x, n, body, orelse>>   \* x in range(1, n + 1)
Try(body, handlers, orelse, final) == <<"try", body, handlers, orelse, final>>
Raise(e) == <<"raise", e>>
Reraise == <<"reraise">>
Jump(kind) == <<kind>>                       \* break, continue, return

Jumping == {"break", "continue", "return"}

Catches(type, e) == type \in {e, "any"}      \* except type:

Truth(c, value) == IF c \in {"true", "false"} THEN c = "true" ELSE value = "2"

Next_ == <<"next">>                          \* how a statement ends that does not jump or raise
Raised(e) == <<"raise", e>>

\* The blocks of a statement, in the order of the text.
Blocks(s) ==
    CASE s[1] = "if" -> <<s[3], s[4]>>
      [] s[1] = "loop" -> <<s[4], s[5]>>
      [] s[1] = "try" -> <<s[2]>> \o [i \in DOMAIN s[3] |-> s[3][i][2]] \o <<s[4], s[5]>>
      [] OTHER -> <<>>

RECURSIVE Mentions(_)
\* Every name that stands in a block.
Mentions(b) ==
    UNION {
        (IF b[i][1] \in {"use", "set", "if", "loop"} THEN {b[i][2]} \cap Names ELSE {})
            \cup UNION {Mentions(Blocks(b[i])[j]) : j \in DOMAIN Blocks(b[i])} : i \in DOMAIN b}

RECURSIVE Bound(_)
\* The names a block assigns: they are local to the function.
Bound(b) ==
    UNION {
        (IF b[i][1] \in {"set", "loop"} THEN {b[i][2]} \cap Names ELSE {})
            \cup UNION {Bound(Blocks(b[i])[j]) : j \in DOMAIN Blocks(b[i])} : i \in DOMAIN b}

-----------------------------------------------------------------------------
(* What Python does: a state is [env, out, how] *)

Says(st, what) == [st EXCEPT !.out = Append(@, what)]
End(st, how) == [st EXCEPT !.how = how]

RECURSIVE PyBlock(_, _, _), PyLoop(_, _, _, _)

\* The first handler that catches e runs, with e as the exception to raise again.
PyHandle(handlers, st, e) ==
    LET fit == {i \in DOMAIN handlers : Catches(handlers[i][1], e)}
    IN  IF fit = {} THEN st
        ELSE LET i == CHOOSE i \in fit : \A j \in fit : i <= j
             IN  PyBlock(handlers[i][2], End(st, Next_), e)

PyTry(s, st, exc) ==
    LET tried == PyBlock(s[2], st, exc)
        left == CASE tried.how[1] = "raise" -> PyHandle(s[3], tried, tried.how[2])
                  [] tried.how = Next_ -> PyBlock(s[4], tried, exc)
                  [] OTHER -> tried
        done == PyBlock(s[5], End(left, Next_), exc)
    IN  IF done.how = Next_ THEN End(done, left.how) ELSE done

PyStmt(s, st, exc) ==
    CASE s[1] = "say" -> Says(st, s)
      [] s[1] = "use" ->
            IF st.env[s[2]] = "unbound" THEN End(st, Raised("NameError"))
            ELSE Says(st, <<"value", st.env[s[2]]>>)
      [] s[1] = "set" -> [st EXCEPT !.env[s[2]] = s[3]]
      [] s[1] = "if" ->
            IF s[2] \in Names /\ st.env[s[2]] = "unbound" THEN End(st, Raised("NameError"))
            ELSE PyBlock(IF Truth(s[2], IF s[2] \in Names THEN st.env[s[2]] ELSE "") THEN s[3] ELSE s[4], st, exc)
      [] s[1] = "loop" -> PyLoop(s, 1, st, exc)
      [] s[1] = "try" -> PyTry(s, st, exc)
      [] s[1] = "raise" -> End(st, s)
      [] s[1] = "reraise" -> End(st, Raised(exc))
      [] OTHER -> End(st, s)

PyBlock(b, st, exc) ==
    IF b = <<>> \/ st.how # Next_ THEN st
    ELSE PyBlock(Tail(b), PyStmt(Head(b), st, exc), exc)

PyLoop(s, i, st, exc) ==
    IF i > s[3] THEN PyBlock(s[5], st, exc)
    ELSE LET r == PyBlock(s[4], IF s[2] \in Names THEN [st EXCEPT !.env[s[2]] = ToString(i)] ELSE st, exc)
         IN  CASE r.how = Jump("break") -> End(r, Next_)
               [] r.how \in {Next_, Jump("continue")} -> PyLoop(s, i + 1, End(r, Next_), exc)
               [] OTHER -> r

Outer(p) == {p.outer[i] : i \in DOMAIN p.outer}

\* The module: x = "module"; def f(): ...; f(); print(x)
PyRun(p) ==
    LET r == PyBlock(p.body,
                [env |-> [x \in Names |-> IF x \in Outer(p) \ Bound(p.body) THEN "module" ELSE "unbound"],
                 out |-> <<>>, how |-> Next_], "none")
    IN  IF r.how[1] = "raise" THEN [out |-> r.out, how |-> r.how]
        ELSE [out |-> r.out \o [i \in DOMAIN p.outer |-> <<"value", "module">>], how |-> Next_]

-----------------------------------------------------------------------------
(* The transpiler: [code, declared, flags, temps] *)

Emit(st, code) == [st EXCEPT !.code = Append(@, code)]

\* ScopeTracker: a frame for the module, each function and each for loop, not
\* for the blocks of if, while and try.
enter(st) == [st EXCEPT !.declared = Append(@, {})]
exit(st) == [st EXCEPT !.declared = SubSeq(@, 1, Len(@) - 1)]
declare(st, x) == [st EXCEPT !.declared[Len(st.declared)] = @ \cup {x}]
is_declared(st, x) == \E i \in DOMAIN st.declared : x \in st.declared[i]

temp_var(st) == "__tmp" \o ToString(st.temps + 1)

visit_assign(x, v, st) ==
    IF is_declared(st, x) THEN Emit(st, <<"assign", x, v>>)
    ELSE declare(Emit(st, <<"local", x, v>>), x)

visit_break_Late(s, st) == \* Mutant: the flag is set after the break.
    IF st.flags = <<>> THEN Emit(st, s)
    ELSE Emit(Emit(st, s), <<"assign", st.flags[Len(st.flags)], "true">>)

visit_break(s, st) ==
    Emit(IF st.flags = <<>> THEN st ELSE Emit(st, <<"assign", st.flags[Len(st.flags)], "true">>), s)

RECURSIVE visit_block(_, _)

\* A block of its own: its code is not yet in the code of st.
Nested(b, st) == visit_block(b, [st EXCEPT !.code = <<>>])

visit_if(s, st) ==
    LET body == Nested(s[3], st)
        orelse == Nested(s[4], body)
    IN  [orelse EXCEPT !.code = Append(st.code, <<"if", s[2], body.code, orelse.code>>)]

PushFlag(st) == [Emit(st, <<"local", temp_var(st), "false">>)
                 EXCEPT !.flags = Append(@, temp_var(st)), !.temps = @ + 1]
PopFlag_Keeps(st) == st \* Mutant: the flag of a loop stays on the stack.

PopFlag(st) == [st EXCEPT !.flags = SubSeq(@, 1, Len(@) - 1)]

\* The body of a loop: a for loop has a frame with its target.
LoopBody(s, st) ==
    IF s[2] = "" THEN Nested(s[4], st)
    ELSE exit(Nested(s[4], declare(enter(st), s[2])))

\* visit_while and visit_for: with an else-clause, "local f = false" before and
\* "if not f then" behind the loop.
visit_loop(s, st) ==
    LET begun == IF s[5] = <<>> THEN st ELSE PushFlag(st)
        body == LoopBody(s, begun)
        ended == [body EXCEPT !.code = Append(begun.code, <<"loop", s[2], s[3], body.code>>)]
        orelse == Nested(s[5], PopFlag(ended))
    IN  IF s[5] = <<>> THEN ended
        ELSE [orelse EXCEPT !.code = Append(ended.code, <<"unless", temp_var(st), orelse.code>>)]

Hoist_None(b, st) == st \* Mutant: nothing is declared outside of the closure.

RECURSIVE Hoist(_, _)
\* The names a try body assigns directly become locals outside of its closure.
Hoist(b, st) ==
    IF b = <<>> THEN st
    ELSE Hoist(Tail(b),
               IF Head(b)[1] = "set" /\ ~is_declared(st, Head(b)[2])
               THEN declare(Emit(st, <<"local", Head(b)[2], "nil">>), Head(b)[2]) ELSE st)

RECURSIVE visit_handlers(_, _, _)
visit_handlers(hs, chain, st) ==
    IF hs = <<>> THEN [chain |-> chain, st |-> st]
    ELSE LET h == Nested(Head(hs)[2], st)
         IN  visit_handlers(Tail(hs), Append(chain, <<Head(hs)[1], h.code>>), h)

\* A closure for the body, and "if not ok" around the handlers and the
\* else-clause.  An error no handler is for is dropped.
visit_handled(s, st) ==
    LET hoisted == IF s[4] = <<>> THEN st ELSE Hoist(s[2], st)
        body == Nested(s[2], hoisted)
        called == [body EXCEPT !.code = Append(hoisted.code, <<"xpcall", body.code>>)]
        handled == visit_handlers(s[3], <<>>, called)
        orelse == Nested(s[4], handled.st)
    IN  IF s[3] = <<>> THEN called
        ELSE [orelse EXCEPT !.code = Append(called.code, <<"catch", handled.chain, orelse.code>>)]

visit_try_Skips(s, st) == \* Mutant: a try statement without handlers returns early.
    IF s[3] = <<>> THEN visit_handled(s, st) ELSE visit_block(s[5], visit_handled(s, st))

\* The finally clause is the code behind.
visit_try(s, st) == visit_block(s[5], visit_handled(s, st))

\* error(e, 0), or error(err, 0) with the err of the last xpcall in sight
visit_raise(s, st) == Emit(st, s)

visit_stmt(s, st) ==
    CASE s[1] = "set" -> visit_assign(s[2], s[3], st)
      [] s[1] = "if" -> visit_if(s, st)
      [] s[1] = "loop" -> visit_loop(s, st)
      [] s[1] = "try" -> visit_try(s, st)
      [] s[1] = "break" -> visit_break(s, st)
      [] s[1] \in {"raise", "reraise"} -> visit_raise(s, st)
      [] OTHER -> Emit(st, s)  \* print, continue, return

visit_block(b, st) == IF b = <<>> THEN st ELSE visit_block(Tail(b), visit_stmt(Head(b), st))

Transpiler(p) == [code |-> <<>>, declared |-> <<Outer(p) \cup {"f"}>>, flags |-> <<>>, temps |-> 0]

\* visit_functiondef for f
transpile(p) == exit(visit_block(p.body, enter(Transpiler(p))))

-----------------------------------------------------------------------------
(* What Luau does: a state is [env, out, how]; env is a stack of blocks *)

RECURSIVE Compiles(_, _)
\* break, continue and return end a block, and the first two stand in a loop of
\* the same closure.
Compiles(b, inLoop) ==
    \A i \in DOMAIN b :
        CASE b[i][1] \in Jumping -> i = Len(b) /\ (b[i][1] = "return" \/ inLoop)
          [] b[i][1] = "if" -> Compiles(b[i][3], inLoop) /\ Compiles(b[i][4], inLoop)
          [] b[i][1] = "unless" -> Compiles(b[i][3], inLoop)
          [] b[i][1] = "loop" -> Compiles(b[i][4], TRUE)
          [] b[i][1] = "xpcall" -> Compiles(b[i][2], FALSE)
          [] b[i][1] = "catch" ->
                Compiles(b[i][3], inLoop) /\ \A j \in DOMAIN b[i][2] : Compiles(b[i][2][j][2], inLoop)
          [] OTHER -> TRUE

Innermost(env, x) ==
    LET in == {i \in DOMAIN env : x \in DOMAIN env[i]}
    IN  IF in = {} THEN 0 ELSE CHOOSE i \in in : \A j \in in : j <= i

Lookup(env, x) == IF Innermost(env, x) = 0 THEN "nil" ELSE env[Innermost(env, x)][x]

Local(st, x, v) == [st EXCEPT !.env[Len(st.env)] = (x :> v) @@ @]

\* To the variable in sight, or else to a global.
Assign(st, x, v) ==
    LET i == IF Innermost(st.env, x) = 0 THEN 1 ELSE Innermost(st.env, x)
    IN  [st EXCEPT !.env[i] = (x :> v) @@ @]

RECURSIVE LuBlock(_, _), LuLoop(_, _, _)

\* A block with locals of its own, which end with it
LuNested(b, locals, st) ==
    LET r == LuBlock(b, [st EXCEPT !.env = Append(@, locals)])
    IN  [r EXCEPT !.env = SubSeq(@, 1, Len(@) - 1)]

NoLocals == [x \in {} |-> ""]

\* local ok, err = xpcall(function() ... end): a return only leaves the closure.
LuCall(b, st) ==
    LET r == LuNested(b, NoLocals, st)
        Result(ok, err) == Local(Local(End(r, Next_), "ok", ok), "err", err)
    IN  IF r.how[1] = "raise" THEN Result("false", r.how[2]) ELSE Result("true", "nil")

LuCatch(chain, orelse, st) ==
    LET e == Lookup(st.env, "err")
        fit == {i \in DOMAIN chain : Catches(chain[i][1], e)}
    IN  IF Lookup(st.env, "ok") = "true" THEN LuNested(orelse, NoLocals, st)
        ELSE IF fit = {} THEN st
        ELSE LuNested(chain[CHOOSE i \in fit : \A j \in fit : i <= j][2], NoLocals, st)

LuStmt(s, st) ==
    CASE s[1] = "say" -> Says(st, s)
      [] s[1] = "use" -> Says(st, <<"value", Lookup(st.env, s[2])>>)
      [] s[1] = "local" -> Local(st, s[2], s[3])
      [] s[1] = "assign" -> Assign(st, s[2], s[3])
      [] s[1] = "if" -> LuNested(IF Truth(s[2], Lookup(st.env, s[2])) THEN s[3] ELSE s[4], NoLocals, st)
      [] s[1] = "unless" -> IF Lookup(st.env, s[2]) = "true" THEN st ELSE LuNested(s[3], NoLocals, st)
      [] s[1] = "loop" -> LuLoop(s, 1, st)
      [] s[1] = "xpcall" -> LuCall(s[2], st)
      [] s[1] = "catch" -> LuCatch(s[2], s[3], st)
      [] s[1] = "reraise" -> End(st, Raised(Lookup(st.env, "err")))
      [] OTHER -> End(st, s)

LuBlock(b, st) == IF b = <<>> \/ st.how # Next_ THEN st ELSE LuBlock(Tail(b), LuStmt(Head(b), st))

LuLoop(s, i, st) ==
    IF i > s[3] THEN st
    ELSE LET r == LuNested(s[4], IF s[2] = "" THEN NoLocals ELSE s[2] :> ToString(i), st)
         IN  CASE r.how = Jump("break") -> End(r, Next_)
               [] r.how \in {Next_, Jump("continue")} -> LuLoop(s, i + 1, End(r, Next_))
               [] OTHER -> r

\* The chunk: what transpile() made of the module.
exec(p, code) ==
    IF ~Compiles(code, FALSE) THEN [out |-> <<>>, how |-> Raised("SyntaxError")]
    ELSE LET r == LuNested(code, NoLocals,
                    [env |-> <<NoLocals, [x \in Outer(p) |-> "module"]>>, out |-> <<>>, how |-> Next_])
         IN  IF r.how[1] = "raise" THEN [out |-> r.out, how |-> r.how]
             ELSE [out |-> r.out \o [i \in DOMAIN p.outer |-> <<"value", Lookup(r.env, p.outer[i])>>],
                   how |-> Next_]

-----------------------------------------------------------------------------
(* exec_python: one script *)

Init ==
    /\ source \in Sources
    /\ phase = "source" /\ luau = <<>> /\ ran = [out |-> <<>>, how |-> Next_]

Translate ==
    /\ phase = "source"
    /\ phase' = "translated" /\ luau' = transpile(source).code
    /\ UNCHANGED <<source, ran>>

Run ==
    /\ phase = "translated"
    /\ phase' = "ran" /\ ran' = exec(source, luau)
    /\ UNCHANGED <<source, luau>>

Next == Translate \/ Run

Spec == Init /\ [][Next]_vars

-----------------------------------------------------------------------------
(* What the rewriting does not cover *)

RECURSIVE Jumps(_)
\* How control may leave a block other than at its end and by an error.
Jumps(b) ==
    UNION {IF b[i][1] = "loop" THEN (Jumps(b[i][4]) \ {"break", "continue"}) \cup Jumps(b[i][5])
           ELSE ({b[i][1]} \cap Jumping) \cup UNION {Jumps(Blocks(b[i])[j]) : j \in DOMAIN Blocks(b[i])}
           : i \in DOMAIN b}

RECURSIVE Raises(_, _)
\* The errors a block may raise; exc is what a raise without operand stands for.
Raises(b, exc) ==
    UNION {CASE b[i][1] = "raise" -> {b[i][2]}
             [] b[i][1] = "reraise" -> exc
             [] b[i][1] = "try" ->
                   LET in == Raises(b[i][2], exc)
                       Caught(e) == \E h \in DOMAIN b[i][3] : Catches(b[i][3][h][1], e)
                   IN  {e \in in : ~Caught(e)}
                       \cup UNION {Raises(b[i][3][h][2], {e \in in : Catches(b[i][3][h][1], e)}) : h \in DOMAIN b[i][3]}
                       \cup Raises(b[i][4], exc) \cup Raises(b[i][5], exc)
             [] OTHER -> UNION {Raises(Blocks(b[i])[j], exc) : j \in DOMAIN Blocks(b[i])}
           : i \in DOMAIN b}

\* No jump leaves the body of s, for whose closure it would be one.
BodyKeepsJumps(s) == Jumps(s[2]) = {}

\* Every error of the body has a handler; one without is lost.
BodyErrorsCaught(s, exc) == \A e \in Raises(s[2], exc) : \E h \in DOMAIN s[3] : Catches(s[3][h][1], e)

\* What comes before a finally clause gets to it.
ReachesFinally(s, exc) ==
    s[5] # <<>> =>
        \A b \in {s[3][h][2] : h \in DOMAIN s[3]} \cup {s[4]} :
            Jumps(b) = {} /\ Raises(b, exc \cup Raises(s[2], exc)) = {}

RECURSIVE EveryTry(_, _, _)
\* P holds of every try statement, given the errors a raise inside may stand for.
EveryTry(P(_, _), b, exc) ==
    \A i \in DOMAIN b :
        /\ b[i][1] = "try" => P(b[i], exc)
        /\ \A j \in DOMAIN Blocks(b[i]) :
              EveryTry(P, Blocks(b[i])[j],
                  IF b[i][1] = "try" THEN exc \cup Raises(b[i][2], exc) ELSE exc)

RECURSIVE OwnFlags(_, _, _)
\* A break finds the flag of its own loop on top of the stack, or none at all.
OwnFlags(b, own, any) ==
    \A i \in DOMAIN b :
        CASE b[i][1] = "break" -> any => own
          [] b[i][1] = "loop" ->
                /\ OwnFlags(b[i][4], b[i][5] # <<>>, any \/ b[i][5] # <<>>)
                /\ OwnFlags(b[i][5], own, any)
          [] OTHER -> \A j \in DOMAIN Blocks(b[i]) : OwnFlags(Blocks(b[i])[j], own, any)

RECURSIVE OwnErr(_, _)
\* A raise without operand sees the err of its own handler, not that of a try
\* statement which came before it in the same block.
OwnErr(b, own) ==
    \A i \in DOMAIN b :
        LET still == own /\ \A j \in 1..(i - 1) : b[j][1] # "try"
        IN  CASE b[i][1] = "reraise" -> still
              [] b[i][1] = "try" ->
                    /\ OwnErr(b[i][2], still)
                    /\ \A h \in DOMAIN b[i][3] : OwnErr(b[i][3][h][2], TRUE)
                    /\ OwnErr(b[i][4], FALSE) /\ OwnErr(b[i][5], FALSE)
              [] OTHER -> \A j \in DOMAIN Blocks(b[i]) : OwnErr(Blocks(b[i])[j], still)

RECURSIVE InScope(_, _), InScopeParts(_, _)

\* The blocks of a statement, each with the names that are in sight in it only
\* (the target of a for loop, and what the body of a try statement has assigned
\* for its else-clause), and with those that stay in sight, though they may have
\* no value: what an else-clause made the transpiler declare before the body.
Parts(s, avail) ==
    LET Part(b, names, declared) == [block |-> b, names |-> names, declared |-> declared]
        assigned == {s[2][i][2] : i \in {i \in DOMAIN s[2] : s[2][i][1] = "set"}} \ avail
        n == Len(Blocks(s))
    IN  [i \in 1..n |-> Part(Blocks(s)[i],
            CASE s[1] = "loop" /\ i = 1 -> {s[2]} \cap Names
              [] s[1] = "try" /\ i = n - 1 -> assigned
              [] OTHER -> {},
            IF s[1] = "try" /\ s[4] # <<>> THEN assigned ELSE {})]

\* [ok, avail, closed]: whether all names so far were in sight when read and not
\* out of sight when assigned, the names in sight, and those whose block was left.
InScopeParts(ps, st) ==
    IF ps = <<>> THEN st
    ELSE LET p == Head(ps)
             in == InScope(p.block, [st EXCEPT !.avail = @ \cup p.names, !.closed = @ \ p.names])
             kept == (st.avail \ p.names) \cap in.avail
         IN  InScopeParts(Tail(ps), [ok |-> in.ok, avail |-> kept,
                 closed |-> (st.closed \cup in.closed \cup p.names \cup Mentions(p.block))
                                \ (kept \cup p.declared)])

InScope(b, st) ==
    IF b = <<>> THEN st
    ELSE LET s == Head(b)
         IN  InScope(Tail(b),
                CASE s[1] = "use" -> [st EXCEPT !.ok = @ /\ s[2] \in st.avail]
                  [] s[1] = "set" -> [st EXCEPT !.ok = @ /\ s[2] \notin st.closed, !.avail = @ \cup {s[2]}]
                  [] s[1] = "if" /\ s[2] \in Names ->
                        InScopeParts(Parts(s, st.avail), [st EXCEPT !.ok = @ /\ s[2] \in st.avail])
                  [] OTHER -> InScopeParts(Parts(s, st.avail), st))

\* Every name is only mentioned in the block of its first assignment, and the
\* function does not assign those of the module.
NamesInScope(p) ==
    /\ Outer(p) \cap Bound(p.body) = {}
    /\ InScope(p.body, [ok |-> TRUE, avail |-> Outer(p), closed |-> {}]).ok

RECURSIVE InPlace(_), NothingDead(_)
\* The statements of a block, with a finally clause behind its try statement.
InPlace(b) ==
    IF b = <<>> THEN <<>>
    ELSE <<Head(b)>> \o (IF Head(b)[1] = "try" THEN InPlace(Head(b)[5]) ELSE <<>>) \o InPlace(Tail(b))

\* Nothing stands behind a break, continue or return of the same block.
NothingDead(b) ==
    /\ \A i \in DOMAIN InPlace(b) : InPlace(b)[i][1] \in Jumping => i = Len(InPlace(b))
    /\ \A i \in DOMAIN b : \A j \in DOMAIN Blocks(b[i]) : NothingDead(Blocks(b[i])[j])

Supported(p) ==
    /\ NothingDead(p.body)
    /\ EveryTry(LAMBDA s, exc : BodyKeepsJumps(s) /\ BodyErrorsCaught(s, exc) /\ ReachesFinally(s, exc),
                p.body, {})
    /\ OwnFlags(p.body, FALSE, FALSE)
    /\ OwnErr(p.body, FALSE)
    /\ NamesInScope(p)

-----------------------------------------------------------------------------
(* Properties *)

\* Types; and the transpiler ends with no scope open and no flag on the stack.
TypeOK ==
    /\ phase \in {"source", "translated", "ran"}
    /\ phase = "source" <=> luau = <<>>
    /\ ran.how[1] \in {"next", "raise"}
    /\ LET t == transpile(source)
       IN  t.flags = <<>> /\ t.declared = <<Outer(source) \cup {"f"}>>

\* The Luau text of a script prints what the script prints in Python and ends as
\* it ends: with jumps out of loops and their else-clauses, errors through
\* handlers, else and finally, and names in nested blocks.  Not so for jumps out
\* of a try body, errors without a handler, a finally clause that a handler does
\* not reach, a break next to a loop with an else-clause it does not belong to,
\* a raise after another try statement, names used outside of the block of
\* their first assignment, and statements behind a break, continue or return.
SameBehaviour == phase = "ran" /\ Supported(source) => ran = PyRun(source)

\* The text is valid Luau unless a break or continue leaves the body of a try
\* statement, or a statement stands behind a break, continue or return of its
\* block, in which a finally clause counts as what is behind its try statement;
\* and then it is not (transpile.rs:968-978 emits both as they are).
CompilesUnlessLeavingTry ==
    phase # "source" =>
        (Compiles(luau, FALSE) <=>
            NothingDead(source.body) /\ EveryTry(LAMBDA s, exc : Jumps(s[2]) \cap {"break", "continue"} = {}, source.body, {}))

RECURSIVE FinallySays(_)
\* What the finally clauses of a block print.
FinallySays(b) ==
    UNION {
        (IF b[i][1] = "try" THEN {b[i][5][j] : j \in {j \in DOMAIN b[i][5] : b[i][5][j][1] = "say"}} ELSE {})
            \cup UNION {FinallySays(Blocks(b[i])[j]) : j \in DOMAIN Blocks(b[i])} : i \in DOMAIN b}

Entries(out) == {out[i] : i \in DOMAIN out}

\* "finally always runs" (core/tests/compat/python/errors/try_except.py:33): also
\* after an error that no handler caught and a return from the body, as long as
\* the handlers and the else-clause end normally.
FinallyRuns ==
    /\ phase = "ran" /\ Compiles(luau, FALSE)
    /\ OwnErr(source.body, FALSE) /\ NamesInScope(source)
    /\ EveryTry(LAMBDA s, exc : ReachesFinally(s, exc), source.body, {})
    => FinallySays(source.body) \cap Entries(PyRun(source).out) \subseteq Entries(ran.out)
=============================================================================
