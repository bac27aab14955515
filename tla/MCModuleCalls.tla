--------------------------- MODULE MCModuleCalls ---------------------------
(* The calls that are made: of every documented function that has parameters, *)
(* with none, one, all but one or all of its optional arguments and options,  *)
(* in every style.                                                            *)
EXTENDS ModuleDocs, Sequences, SequencesExt

Some(S) == {{}, S} \cup {{x} : x \in S} \cup {S \ {x} : x \in S}

Odd == {"no", "numeral", "negative", "letter", "flag", "dash", "sign"}

CallsOf(m, d) ==
  LET ps == Range(d.params)
      fields == field_types(d.params)
      options == {p \in ps : p.name = "opts" /\ DOMAIN fields # {}}
      required == {p.name : p \in {q \in ps \ options : q.required}}
      needed == {n \in DOMAIN fields : fields[n].required}
      fieldSets == {needed \cup x : x \in Some(DOMAIN fields \ needed)}
                     \cup (IF \E p \in options : ~p.required THEN {{}} ELSE {})
      given == {required \cup x : x \in Some(NamesOf(d.params) \ {p.name : p \in options})}
      prefixes == {NamesOf(SubSeq(d.params, 1, n)) : n \in 0..Len(d.params)}
      Make(style, g, x, turned, odd) ==
        [module |-> m, fn |-> d.name, style |-> style, given |-> g, fields |-> x, turned |-> turned, odd |-> odd]
  IN {Make(s, g, x, t, o) : s \in {"long", "short"}, g \in given, t \in BOOLEAN, o \in Odd,
                            x \in IF \E p \in options : p.required THEN fieldSets \ {{}} ELSE fieldSets}
     \cup {Make("position", g, x, t, o) : g \in given \cap prefixes, x \in fieldSets, t \in BOOLEAN, o \in Odd}
     \cup {Make(s, g, {}, FALSE, "no") : s \in {"values", "names"},
             g \in {h \in prefixes : {p.name : p \in {q \in ps : q.required}} \subseteq h}}

Called(m) == {d \in Range(Modules[m]) : d.params # <<>>}
MCCalls == UNION {{CallsOf(m, d) : d \in Called(m)} : m \in DOMAIN Modules}
=============================================================================
