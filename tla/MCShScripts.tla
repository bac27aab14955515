---------------------------- MODULE MCShScripts ----------------------------
(* The scripts that are translated: commands, lists, pipelines and blocks two *)
(* deep, and functions with their calls, between assignments of x and what    *)
(* shows x and the exit code.                                                 *)
EXTENDS ShScripts

Echo(w) == Cmd("echo", <<w>>)
A == Echo(<<Lit("a")>>)
X == Echo(<<Var("x")>>)
Is(w, t) == Cmd("test", <<w, <<Lit(t)>>>>)
Bare(name) == Cmd(name, <<>>)
True == Bare("true")
False == Bare("false")
Zero == Assign("x", <<Lit("0")>>)
Arm(guard, body) == [guard |-> guard, body |-> body]

Ops == {"&&", "||"}
Rest(op, c) == [op |-> op, cmd |-> Pipe(FALSE, <<c>>)]
Two(c, op, d) == List(Pipe(FALSE, <<c>>), <<Rest(op, d)>>)
Three(c, o, d, p, e) == List(Pipe(FALSE, <<c>>), <<Rest(o, d), Rest(p, e)>>)
Piped(c, d) == List(Pipe(FALSE, <<c, d>>), <<>>)
Negated(c) == List(Pipe(TRUE, <<c>>), <<>>)
Ones(cs) == {<<One(c)>> : c \in cs}

Tells == {True, False, Is(<<Var("x")>>, "1")}
Plain == {A, Bare("pwd"), Bare("cat"), Bare("miss"), Bare("mkdir"), Bare("deny"), Bare("exit"), Into(A)}
Subs ==
  Ones({A, Bare("cat"), Into(A), Bare("exit"), Group(<<One(A)>>)})
  \cup {<<Piped(A, Bare("cat"))>>, <<Two(True, "&&", A)>>, <<One(A), One(A)>>, <<One(Zero), One(Bare("mkdir"))>>}
Words ==
  {<<Code>>, <<Lit("a"), Code>>, <<Lit("a"), Var("x")>>, <<Default("x", "b")>>, <<Arg>>,
   <<Sub(<<Two(False, "||", X)>>), Lit("b")>>, <<Sub(<<One(Bare("mkdir"))>>), Lit("b")>>}
  \cup {<<Sub(b)>> : b \in Subs}
  \cup {<<Arith(<<ToVar("", Calc(op, l, r))>>)>> : op \in {"/", "%", "<"}, l \in {Num(-7), Of("x"), Num(7)}, r \in {Num(2)}}
  \cup {<<Arith(<<c>>)>> : c \in {Incr("x"), ToVar("x", Literal(1))}}
  \cup {<<Arith(<<Incr("x"), ToVar("", Calc("+", Of("x"), Num(1)))>>)>>}
Sets == {Assign("x", w) : w \in {<<Lit("1")>>, <<Lit("1"), Var("x")>>, <<Sub(<<One(A)>>)>>,
                                 <<Sub(<<One(Bare("miss"))>>)>>, <<Code>>, <<Arith(<<Incr("x")>>)>>}}
Simples == Tells \cup Plain \cup Sets \cup {X} \cup {Echo(w) : w \in Words}

Guards ==
  Ones(Tells \cup Plain \cup {Group(<<One(A)>>), Group(<<One(False)>>), Assign("x", <<Lit("1")>>)})
  \cup {<<Two(c, "&&", d)>> : c \in Tells, d \in Tells \cup {A, Bare("miss")}}
  \cup {<<Three(c, o, d, p, e)>> : c \in Tells, d \in {True, False}, e \in {True, False}, o \in Ops, p \in Ops}
  \cup {<<One(c), One(d)>> : c \in Tells \cup {A}, d \in Tells}
  \cup {<<Negated(c)>> : c \in Tells}
  \cup {<<Piped(A, c)>> : c \in {Bare("cat"), Bare("miss"), True}}

Bodies == Ones({A, X, False, Zero, Bare("exit")}) \cup {<<One(Zero), One(X)>>}

Single == {One(c) : c \in Simples} \cup {Negated(c) : c \in Tells}
Lists ==
  Single
  \cup {Two(c, o, d) : c \in Simples, o \in Ops, d \in {A, Zero}}
  \cup {Three(c, o, d, p, X) : c \in {True, False, Bare("miss")}, o \in Ops, p \in Ops,
                               d \in {A, False, Assign("x", <<Lit("1")>>)}}
  \cup {Piped(c, d) : c \in {A, X, True, Bare("mkdir"), Bare("cat"), Bare("exit"), Into(A), Group(<<One(A)>>), Zero},
                      d \in {Bare("cat"), Bare("miss"), A, Group(<<One(Bare("cat"))>>)}}

Items == {<<>>, <<<<Lit("0")>>, <<Lit("1")>>>>}
Nested(bodies, guards) ==
  {If(<<Arm(g, b)>>, e) : g \in guards, b \in bodies, e \in {<<>>, <<One(A)>>}}
  \cup {If(<<Arm(<<One(c)>>, b), Arm(<<One(d)>>, <<One(X)>>)>>, <<One(A)>>) : c \in Tells, d \in Tells, b \in bodies}
  \cup {While(<<One(Is(<<Var("x")>>, t))>>, b, v) : t \in {"0", "1"}, b \in bodies, v \in BOOLEAN}
  \cup {For(x, ws, b) : x \in {"x", "i"}, ws \in Items, b \in bodies}
  \cup {Case(<<Var("x")>>, <<[pattern |-> <<Lit("1")>>, body |-> b], [pattern |-> <<Lit(p)>>, body |-> <<One(A)>>]>>) :
          p \in {"0", "*"}, b \in bodies}
  \cup {Group(b) : b \in bodies} \cup {Into(Group(b)) : b \in bodies} \cup {Subshell(b) : b \in bodies}
Deeply ==
  Ones({If(<<Arm(<<One(Is(<<Var("x")>>, "1"))>>, b)>>, <<One(A)>>) : b \in Bodies}
       \cup {For("i", <<<<Lit("0")>>, <<Lit("1")>>>>, b) : b \in Bodies \cup {<<One(Echo(<<Var("i")>>))>>}})

Functions(bodies) == {Function("f", Group(b)) : b \in bodies}
F == Bare("f")
Called ==
  {<<One(F)>>, <<One(Cmd("f", <<<<Var("x")>>>>))>>, <<Two(F, "&&", A)>>, <<One(Echo(<<Sub(<<One(F)>>)>>))>>,
   <<Piped(F, Bare("cat"))>>, <<One(If(<<Arm(<<One(F)>>, <<One(A)>>)>>, <<>>))>>}

None == {<<>>}
Before == None \cup Ones({Zero, Assign("x", <<Lit("1")>>)})
After == {<<One(Echo(<<Code>>)), One(X)>>, <<One(X), One(Echo(<<Lit("b"), Var("x")>>))>>,
          <<One(Zero), One(Is(<<Var("x")>>, "0"))>>}
MCForms ==
  {<<Before, None, {<<l>> : l \in Lists}, After>>,
   <<Ones({Zero}), Ones(Simples), {<<l>> : l \in Single}, Ones({X})>>,
   <<None \cup Ones({Zero}), None, Ones(Nested(Bodies, Guards)), After>>,
   <<Before, None, Ones(Nested(Deeply, Ones(Tells))), After>>,
   <<{b \o <<One(f)>> : b \in Before, f \in Functions(Bodies \cup Ones({Echo(<<Arg>>)}))}, Before, Called, After>>,
   <<Before, {<<One(For("x", <<<<Lit("0")>>>>, <<One(f)>> \o c))>> : f \in Functions(Bodies), c \in Called}, Called, None>>,
   <<{<<One(Function("g", Group(c)))>> : c \in Called}, Ones(Functions(Bodies)), Ones({Bare("g")}), None>>}
=============================================================================
