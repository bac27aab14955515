--------------------------- MODULE MCPyTranspile ---------------------------
(* The scripts that are translated: every combination, two statements deep,  *)
(* of loops and try statements, and of assignments, reads and blocks.        *)
EXTENDS PyTranspile

MCNames == {"x", "i"}

A == <<Say("a")>>
Ends == {A, <<Raise("E1")>>, <<Raise("E2")>>, <<Jump("return")>>}
LoopEnds == {<<Jump("break")>>, <<Jump("continue")>>, <<If("i", <<Jump("break")>>, A)>>}

Handlers == {<<>>, <<<<"E1", <<Say("h")>>>>>>, <<<<"any", <<Say("h")>>>>>>, <<<<"any", <<Reraise>>>>>>,
             <<<<"E1", <<Raise("E2")>>>>>>, <<<<"E1", <<Say("h1")>>>>, <<"any", <<Say("h2")>>>>>>,
             <<<<"any", <<Jump("return")>>>>>>}
FewHandlers == {<<>>, <<<<"any", <<Say("H")>>>>>>, <<<<"E2", <<Say("H")>>>>>>}

Tries(bodies, handlers, elses, finals) ==
    {Try(b, h, e, f) : b \in bodies, h \in handlers, e \in elses, f \in finals}
Whole(t) == (t[3] # <<>> \/ (t[4] = <<>> /\ t[5] # <<>>))

InnerTries == {t \in Tries(Ends, Handlers, {<<>>, <<Say("e")>>, <<Raise("E1")>>}, {<<>>, <<Say("f")>>}) : Whole(t)}
LoopTries == {t \in Tries(LoopEnds \cup {A}, FewHandlers \cup {<<<<"any", <<Jump("break")>>>>>>},
                          {<<>>, <<Say("e")>>, <<Jump("continue")>>}, {<<>>, <<Say("f")>>}) : Whole(t)}

Loops(bodies, elses) ==
    {For("i", 2, b, e) : b \in bodies, e \in elses} \cup {While(n, b, e) : n \in {0, 2}, b \in bodies, e \in elses}

Then(ss) == {<<s, Say("then")>> : s \in ss}

InnerLoops == {For("i", 2, b, e) : b \in Ends \cup LoopEnds, e \in {<<>>, <<Say("el")>>}}

\* A statement behind a jump
Dead == {<<j, Say("dead")>> : j \in {Jump("return"), Jump("break"), Jump("continue")}}
Behind(s) == <<s, Say("dead")>>
DeadBodies ==
    {Behind(Jump("return"))}
    \cup Then(Loops(Dead \cup {<<If("i", d, A)>> : d \in Dead}, {<<>>, <<Say("EL")>>}))
    \cup Then({While(1, A, Behind(Jump("return")))})
    \cup {<<If(c, Behind(Jump("return")), A)>> : c \in {"true", "false"}}
    \cup Then({t \in Tries({A, <<Raise("E1")>>, Behind(Jump("return"))},
                           FewHandlers \cup {<<<<"any", Behind(Jump("return"))>>>>}, {<<>>, Behind(Jump("return"))},
                           {<<>>, <<Say("F")>>, Behind(Jump("return")), <<Jump("return")>>}) : Whole(t)})
    \cup {<<Try(A, <<>>, <<>>, <<Jump("return")>>)>>, <<Try(A, <<>>, <<>>, <<Try(A, <<>>, <<>>, <<Jump("return")>>), Say("F")>>)>>}
    \cup Then(Loops({<<Try(A, <<>>, <<>>, <<j>>), s>> : j \in {Jump("break"), Jump("continue")}, s \in {Say("s"), Jump("break")}}
                     \cup {<<Try(A, <<>>, <<>>, <<Jump("break")>>)>>}, {<<>>, <<Say("EL")>>}))

Bodies ==
    DeadBodies \cup Then(InnerTries)
    \cup Then({t \in Tries(Then(InnerTries), FewHandlers, {<<>>, <<Say("E")>>}, {<<>>, <<Say("F")>>}) : Whole(t)})
    \cup Then({Try(<<Raise("E1")>>, <<<<"any", <<t, s>>>>>>, <<>>, f) : t \in InnerTries, s \in {Say("s"), Reraise}, f \in {<<>>, <<Say("F")>>}})
    \cup Then({Try(<<Try(<<Raise("E1")>>, <<<<"any", <<t, Reraise>>>>>>, <<>>, <<>>)>>, <<<<"E1", <<Say("H1")>>>>, <<"any", <<Say("H2")>>>>>>, <<>>, <<>>) : t \in InnerTries})
    \cup Then({Try(A, <<<<"any", A>>>>, <<>>, <<t>>) : t \in InnerTries})
    \cup Then(Loops(Then(InnerLoops) \cup Then(LoopTries) \cup {<<l, Jump("break")>> : l \in InnerLoops},
                    {<<>>, <<Say("EL")>>}))
    \cup Then(Loops({<<t>> : t \in InnerTries}, {<<>>, <<Say("EL")>>}))
    \cup Then({Try(<<l>>, h, e, <<Say("F")>>) : l \in InnerLoops, h \in FewHandlers \ {<<>>}, e \in {<<>>, <<Say("E")>>}})
    \cup Then({While(1, A, <<l>>) : l \in InnerLoops})

Names0 == {Set("x", "1"), Use("x")}
Names1 ==
    Names0
    \cup {If(c, <<s>>, t) : c \in {"true", "false"}, s \in Names0, t \in {<<>>} \cup {<<n>> : n \in Names0}}
    \cup {For(t, 2, <<m, n>>, <<>>) : t \in {"x", "i"}, m \in Names0, n \in Names0}
    \cup {While(2, <<m>>, <<n>>) : m \in Names0, n \in Names0}
    \cup {For("i", 2, <<If("i", <<m>>, <<n>>)>>, <<>>) : m \in Names0, n \in Names0}
    \cup {Try(b, <<<<"any", <<h>>>>>>, e, f) :
             b \in {<<Set("x", "2")>>, <<Use("x")>>, <<Set("x", "2"), Raise("E1")>>}, h \in Names0 \cup {Say("h")},
             e \in {<<>>, <<Use("x")>>, <<Set("x", "3")>>}, f \in {<<>>, <<Use("x")>>}}

NameBodies ==
    {<<m, n>> : m \in Names1, n \in Names1} \cup {<<l, m, n>> : l \in Names0, m \in Names1, n \in Names0}

MCSources ==
    {[outer |-> <<>>, body |-> b] : b \in Bodies}
    \cup {[outer |-> o, body |-> b] : o \in {<<>>, <<"x">>}, b \in NameBodies}
=============================================================================
