---------------------------- MODULE ModuleCalls ----------------------------
(***************************************************************************)
(* How a call of a module's function reaches its parameters.  A shell      *)
(* command is turned into a table of flags (core/src/sh_transpile.rs), the *)
(* table into positional arguments (sh.run of runtime/shrt.luau), and      *)
(* these are validated (core/src/sandbox/doc.rs); a script in Luau calls   *)
(* the function with values, or with one table of names.                   *)
(*                                                                         *)
(* A value is known by the parameter it was meant for and by its type.     *)
(***************************************************************************)
EXTENDS ModuleDocs, SequencesExt, FiniteSetsExt, Integers

CONSTANT Calls   \* sets of calls that are made: records of module, fn, style, given, fields, turned, odd

VARIABLES
  call,      \* the call that is followed
  stage,     \* "written", "parsed", "unpacked", "refused", "called"
  flags,     \* the table the transpiler writes: named and numbered entries
  args,      \* what the function is called with: a sequence, or one table
  received   \* the value each parameter has in the function
vars == <<call, stage, flags, args, received>>

(* ------------------------------- values -------------------------------- *)

Nil == [for |-> "", typ |-> "Nil"]
Value(for, typ) == [for |-> for, typ |-> typ]
True(for) == Value(for, "Boolean")
\* A word of the shell is text; one that spells a number, tonumber turns into one
Text(for) == Value(for, "String")
Numeral(for) == Value(for, "Numeral")

tonumber(v) == IF v.typ = "Numeral" THEN [v EXCEPT !.typ = "Number"] ELSE v
TypeOf(v) == IF v.typ = "Numeral" THEN "String" ELSE v.typ

matches(typ, v) ==
  CASE typ = "StringOrBuffer" -> TypeOf(v) = "String"
    [] typ = "Value" -> TRUE
    [] OTHER -> TypeOf(v) = typ

Doc(c) == Documented(c.module, c.fn)

(* ------------------------------ the caller ----------------------------- *)

IsNumber(typ) == typ \in {"Number", "number"}
IsText(typ) == typ \in {"String", "StringOrBuffer", "string"}

\* What is meant for a parameter, or a field, of a type, a table as JSON
Written(name, typ, odd) ==
  IF IsNumber(typ) \/ (odd \in {"numeral", "negative"} /\ IsText(typ)) THEN Numeral(name) ELSE Text(name)

Long(name) == [word |-> "long", name |-> name, value |-> Nil]
Short(letter) == [word |-> "short", name |-> letter, value |-> Nil]

\* How the word for it looks, its quotes removed.  Odd calls have text that spells
\* a number, numbers below zero and text that spells one (-5), or text that begins
\* with a dash: "-x", "--xx", "-" alone, and "-+", which like -1.5 spells no names
Shape(typ, odd) ==
  CASE odd = "negative" /\ (IsNumber(typ) \/ IsText(typ)) -> [word |-> "minus", name |-> "n"]
    [] odd = "sign" /\ (IsNumber(typ) \/ IsText(typ)) -> [word |-> "short", name |-> "+"]
    [] odd = "letter" /\ IsText(typ) -> [word |-> "short", name |-> "x"]
    [] odd = "flag" /\ IsText(typ) -> [word |-> "long", name |-> "xx"]
    [] odd = "dash" /\ IsText(typ) -> [word |-> "dash", name |-> ""]
    [] OTHER -> [word |-> "plain", name |-> ""]

Plain(name, typ, odd) == Shape(typ, odd) @@ [value |-> Written(name, typ, odd)]

Flag(c, p) == IF c.style = "short" /\ p.short # "" THEN Short(p.short) ELSE Long(p.name)
ParamWords(c, p) ==
  LET v == Plain(p.name, p.typ, c.odd)
  IN IF p.name \notin c.given THEN <<>> ELSE IF c.style = "position" THEN <<v>> ELSE <<Flag(c, p), v>>

\* Fields of options are flags of their own; a boolean one has no value
FieldWords(c) ==
  LET fields == field_types(Doc(c).params)
      letters == [mode |-> "m", offset |-> "o", limit |-> "l", count |-> "c"]
      Of(n) == IF c.style = "short" /\ c.module = "fs" /\ c.fn = "read" THEN Short(letters[n]) ELSE Long(n)
      Words(n) == IF fields[n].typ = "boolean" THEN <<Of(n)>> ELSE <<Of(n), Plain(n, fields[n].typ, c.odd)>>
  IN FoldSet(LAMBDA n, ws : ws \o Words(n), <<>>, c.fields)

\* A turned call has its options first, and its other flags in the opposite order
Typed(c) ==
  LET ps == Doc(c).params
      each == [i \in DOMAIN ps |-> ParamWords(c, ps[i])]
  IN IF c.turned THEN FieldWords(c) \o FlattenSeq(IF c.style = "position" THEN each ELSE Reverse(each))
     ELSE FlattenSeq(each) \o FieldWords(c)

(* ----------------------- the table of the flags ------------------------ *)

Empty == [named |-> [n \in {} |-> Nil], at |-> <<>>]
Put(t, name, v) == [t EXCEPT !.named = (name :> v) @@ @]
Dashed(w) == w.word # "plain"

module_value_flags(c) ==
  IF c.module = "fs" /\ c.fn = "read" THEN {"p", "m", "o", "l", "c"} ELSE {}

build_flag_table_Boolean(c, ws, t) ==
  LET RECURSIVE B(_, _)
      B(us, s) == IF us = <<>> THEN s
                  ELSE IF us[1].word \in {"plain", "dash"} THEN B(Tail(us), [s EXCEPT !.at = Append(@, us[1].value)])
                  ELSE IF us[1].word = "minus" THEN B(Tail(us), Put(s, "n", Value("", "Number")))
                  ELSE B(Tail(us), Put(s, us[1].name, True(us[1].name)))
  IN B(ws, t)

\* A long flag takes the next word unless that begins with a dash; a letter
\* only where it is listed; -5 is n=5
RECURSIVE build_flag_table(_, _, _)
build_flag_table(c, ws, t) ==
  IF ws = <<>> THEN t
  ELSE LET w == Head(ws)
           takes == \/ w.word = "long" /\ Len(ws) > 1 /\ ~Dashed(ws[2])
                    \/ w.word = "short" /\ w.name \in module_value_flags(c) /\ Len(ws) > 1
       IN IF w.word \in {"plain", "dash"} THEN build_flag_table(c, Tail(ws), [t EXCEPT !.at = Append(@, w.value)])
          ELSE IF w.word = "minus" THEN build_flag_table(c, Tail(ws), Put(t, "n", Value("", "Number")))
          ELSE IF takes THEN build_flag_table(c, Tail(Tail(ws)), Put(t, w.name, ws[2].value))
          ELSE build_flag_table(c, Tail(ws), Put(t, w.name, True(w.name)))

\* A key of a table constructor is a name of Luau
Keywords == {"and", "break", "do", "else", "elseif", "end", "false", "for", "function", "if", "in",
             "local", "nil", "not", "or", "repeat", "return", "then", "true", "until", "while"}
Compiles(t) == DOMAIN t.named \cap (Keywords \cup {"+"}) = {}

(* --------------------------- sh.run unpacks ---------------------------- *)

At(s, i) == IF i \in DOMAIN s THEN s[i] ELSE Nil
Named(t, n) == IF n \in DOMAIN t.named THEN t.named[n] ELSE Nil

\* The letters of fs.read are its names
Canonical(c, t) ==
  IF ~(c.module = "fs" /\ c.fn = "read") THEN t
  ELSE LET full == [p |-> "path", m |-> "mode", o |-> "offset", l |-> "limit", c |-> "count"]
           moved == {n \in {full[k] : k \in DOMAIN full} : Named(t, n) = Nil
                       /\ \E k \in DOMAIN full : full[k] = n /\ Named(t, k) # Nil}
           Letter(n) == CHOOSE k \in DOMAIN full : full[k] = n
       IN [t EXCEPT !.named =
             [n \in ((DOMAIN @) \ DOMAIN full) \cup moved |->
                IF n \in moved THEN t.named[Letter(n)] ELSE t.named[n]]]

coerce_option_value(v, typ) ==
  CASE typ = "number" -> tonumber(v)
    [] typ = "boolean" /\ v.typ = "String" -> Value(v.for, "Boolean")
    [] OTHER -> v

OptsTable_All(params, t) ==
  LET types == field_types(params)
      rest == DOMAIN t.named
  IN IF rest = {} THEN Nil
     ELSE [for |-> "opts", typ |-> "Table",
           fields |-> [n \in rest |-> IF n \in DOMAIN types
                                      THEN coerce_option_value(t.named[n], types[n].typ)
                                      ELSE tonumber(t.named[n])]]

\* Every named entry that is no parameter is an option
OptsTable(params, t) ==
  LET types == field_types(params)
      rest == DOMAIN t.named \ NamesOf(params)
  IN IF rest = {} THEN Nil
     ELSE [for |-> "opts", typ |-> "Table",
           fields |-> [n \in rest |-> IF n \in DOMAIN types
                                      THEN coerce_option_value(t.named[n], types[n].typ)
                                      ELSE tonumber(t.named[n])]]

\* table.insert of nil adds nothing: what follows a missing argument moves up
Unpack(params, t) ==
  LET V(i) == LET named == Named(t, params[i].name)
                  v == IF named # Nil THEN named ELSE At(t.at, i)
              IN IF v = Nil /\ params[i].name = "opts" THEN OptsTable(params, t) ELSE tonumber(v)
      RECURSIVE From(_)
      From(i) == IF i > Len(params) THEN <<>>
                 ELSE (IF V(i) = Nil THEN <<>> ELSE <<V(i)>>) \o From(i + 1)
  IN From(1)

(* --------------------------- validate_args ----------------------------- *)

\* No values (every function that is called has parameters)
Refused == <<>>
\* The values of the parameters, V(i) being the one of the i-th
Checked(params, V(_)) ==
  IF \A i \in DOMAIN params : IF V(i) = Nil THEN ~params[i].required ELSE matches(params[i].typ, V(i))
  THEN [i \in DOMAIN params |-> V(i)]
  ELSE Refused

validate_table_form(params, t) ==
  Checked(params, LAMBDA i : IF Named(t, params[i].name) # Nil THEN Named(t, params[i].name) ELSE At(t.at, i))

\* One table is a table of names, unless it is all that a function takes
validate_args(params, a) ==
  IF "named" \in DOMAIN a
  THEN LET r == validate_table_form(params, a)
       IN IF r = Refused /\ Len(params) = 1 /\ params[1].typ = "Table"
          THEN <<[for |-> params[1].name, typ |-> "Table"]>> ELSE r
  ELSE IF Len(a.at) = 1 /\ a.at[1].typ = "Table"
  THEN IF Len(params) = 1 /\ params[1].typ = "Table" THEN a.at
       ELSE IF "fields" \in DOMAIN a.at[1]
            THEN validate_table_form(params, [named |-> a.at[1].fields, at |-> <<>>])
            ELSE validate_table_form(params, Empty)
  ELSE Checked(params, LAMBDA i : At(a.at, i))

(* ------------------------------ the steps ------------------------------ *)

Init ==
  /\ \E cs \in Calls : call \in cs
  /\ stage = "written"
  /\ flags = Empty /\ args = [at |-> <<>>] /\ received = Refused

\* The transpiler; the table that does not compile runs nothing
Parse ==
  /\ stage = "written" /\ call.style \in {"long", "short", "position"}
  /\ flags' = build_flag_table(call, Typed(call), Empty)
  /\ stage' = IF Compiles(flags') THEN "parsed" ELSE "refused"
  /\ UNCHANGED <<call, args, received>>

\* sh.run: positional arguments if there are names, the table itself if it is
\* numbered, or if nothing is left of it
Run ==
  /\ stage = "parsed"
  /\ LET t == Canonical(call, flags)
         a == IF DOMAIN t.named # {} THEN Unpack(Doc(call).params, t) ELSE t.at
     IN args' = IF flags # Empty /\ a = <<>> THEN Empty ELSE [at |-> a]
  /\ stage' = "unpacked" /\ UNCHANGED <<call, flags, received>>

\* A script calls the function itself, with values in their order or by name
Script ==
  /\ stage = "written" /\ call.style \in {"values", "names"}
  /\ LET params == Doc(call).params
         V(p) == [for |-> p.name, typ |-> CASE p.typ = "Value" -> "Table"
                                            [] p.typ = "StringOrBuffer" -> "String"
                                            [] OTHER -> p.typ]
         upTo == CHOOSE n \in 0..Len(params) : NamesOf(SubSeq(params, 1, n)) = call.given
     IN args' = IF call.style = "values" THEN [at |-> [i \in 1..upTo |-> V(params[i])]]
                ELSE [named |-> [n \in call.given |-> V(params[CHOOSE i \in DOMAIN params : params[i].name = n])],
                      at |-> <<>>]
  /\ stage' = "unpacked" /\ UNCHANGED <<call, flags, received>>

\* The function: it validates its arguments, or takes them as they come
Call ==
  /\ stage = "unpacked"
  /\ received' = LET params == Doc(call).params
                 IN IF Doc(call).validated THEN validate_args(params, args)
                    ELSE IF "named" \in DOMAIN args
                         THEN [i \in DOMAIN params |-> Named(args, params[i].name)]
                         ELSE [i \in DOMAIN params |-> At(args.at, i)]
  /\ stage' = IF received' = Refused THEN "refused" ELSE "called"
  /\ UNCHANGED <<call, flags, args>>

Next == Parse \/ Run \/ Script \/ Call
Spec == Init /\ [][Next]_vars

(* ------------------------------ properties ----------------------------- *)

\* Options count as given when one of their fields is
IsGiven(c, p) ==
  IF p.name = "opts" /\ DOMAIN p.fields # {} THEN c.fields # {} \/ p.name \in c.given ELSE p.name \in c.given

\* A parameter has the value that was written for it, or none if none was
IsFor(v, name, typ) == v.for = name /\ (v.typ = "Boolean" <=> typ = "boolean")
Bound(c, p, v) ==
  IF ~IsGiven(c, p) THEN v = Nil
  ELSE IF "fields" \in DOMAIN v
  THEN v.for = p.name /\ DOMAIN v.fields = c.fields /\ \A n \in c.fields : IsFor(v.fields[n], n, p.fields[n].typ)
  ELSE IsFor(v, p.name, p.typ)

EachBound(c, r) == LET ps == Doc(c).params IN \A i \in DOMAIN ps : Bound(c, ps[i], r[i])

InShell(c) == c.style \in {"long", "short", "position"}
Given(c) == {p \in Range(Doc(c).params) : IsGiven(c, p)}
FieldTyps(c) == {field_types(Doc(c).params)[n].typ : n \in c.fields}
\* An argument that is left out before one that is given
Gap(c) == LET ps == Doc(c).params IN \E i, j \in DOMAIN ps : i < j /\ ~IsGiven(c, ps[i]) /\ IsGiven(c, ps[j])
\* A number below zero, or text that begins with a dash, looks like flags, in
\* quotes too, but for the letters of fs.read, which take the next word as it is
LikeFlags(c) ==
  /\ InShell(c) /\ ~(c.style = "short" /\ module_value_flags(c) # {})
  /\ \E typ \in FieldTyps(c) \cup {p.typ : p \in {q \in Given(c) : q.name \in c.given}} :
       Dashed(Shape(typ, c.odd))
\* Flags of one letter, which are bound by fs.read alone.  The others are true, and the words
\* after them are taken in the order of the parameters
Letters(c) == c.style = "short" /\ ~(c.module = "fs" /\ c.fn = "read") /\ \E p \in Given(c) : p.short # ""
LettersBind(c) ==
  /\ ~c.turned
  /\ \A p \in Given(c) : p.short \notin {"", p.name}
  /\ "opts" \notin NamesOf(Doc(c).params)
\* The word after a boolean option is its value, even if it was meant for a parameter
Swallowed(c) == c.style = "position" /\ c.turned /\ "boolean" \in FieldTyps(c)

\* A function that a call reaches has in each parameter the value that was written for it, and
\* nothing where none was: unless the caller leaves out an argument before one that is given,
\* writes a number below zero or text that begins with a dash, or relies on the letters that the usage text shows.
\* (shrt.luau:1667-1709, sh_transpile.rs:831-907, sandbox/doc.rs:362-450)
ReachedMeansBound ==
  stage = "called" =>
    \/ EachBound(call, received)
    \/ (InShell(call) /\ Gap(call)) \/ LikeFlags(call) \/ Swallowed(call)
    \/ Letters(call) /\ ~LettersBind(call)

\* What else the usage text of the shell offers and what does not work: a flag that is a word
\* of Luau, JSON for a table, text that spells a number for a parameter that is text
Unusable(c) ==
  \/ (c.given \cup c.fields) \cap Keywords # {}
  \/ Doc(c).validated /\ \E p \in Given(c) : p.typ = "Table" /\ p.name \in c.given
  \/ Doc(c).validated /\ c.odd = "numeral" /\ \E p \in Given(c) : p.typ \in {"String", "StringOrBuffer"}

\* A call as it is documented, by long flags in the shell, by values or by names in a script,
\* arrives with every argument, unless one is left out before one that is given, looks like a
\* flag or is Unusable.  Each of these calls fails; calls of scripts have no exception.
\* (The usage texts of sandbox/doc.rs:207-285 and lua_util.rs:47-140.)
DocumentedCallsArrive ==
  stage \in {"called", "refused"} /\ call.style \in {"long", "values", "names"} =>
    (stage = "called" /\ EachBound(call, received)
       <=> ~(call.style = "long" /\ (Gap(call) \/ LikeFlags(call) \/ Unusable(call))))
=============================================================================
