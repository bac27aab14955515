--------------------------- MODULE MCTranslations --------------------------
(* The three ways from what is written to what is called: Python and shell     *)
(* scripts that become Luau, and calls of the modules' functions.  They share  *)
(* no state: the first state chooses one, and the others rest.                 *)
EXTENDS MCPyTranspile

VARIABLES way, script, expected, actual, call, stage, flags, args, received

Scripts == INSTANCE MCShScripts
Made == INSTANCE MCModuleCalls
Sh == INSTANCE ShTranspile WITH Forms <- Scripts!MCForms
Mc == INSTANCE ModuleCalls WITH Calls <- Made!MCCalls

python == vars
shell == <<script, expected, actual>>
modules == <<call, stage, flags, args, received>>
all == <<way, python, shell, modules>>

PythonRests == source = [outer |-> <<>>, body |-> <<>>] /\ phase = "source" /\ luau = <<>> /\ ran = <<>>
ShellRests == script = <<>> /\ expected = <<>> /\ actual = <<>>
ModulesRest == call = <<>> /\ stage = "none" /\ flags = <<>> /\ args = <<>> /\ received = <<>>

AllInit ==
  \/ way = "python" /\ Init /\ ShellRests /\ ModulesRest
  \/ way = "shell" /\ Sh!Init /\ PythonRests /\ ModulesRest
  \/ way = "modules" /\ Mc!Init /\ PythonRests /\ ShellRests

AllNext ==
  \/ way = "python" /\ Next /\ UNCHANGED <<way, shell, modules>>
  \/ way = "shell" /\ Sh!Next /\ UNCHANGED <<way, python, modules>>
  \/ way = "modules" /\ Mc!Next /\ UNCHANGED <<way, python, shell>>

AllSpec == AllInit /\ [][AllNext]_all

\* The properties of the instances: see there.
\* A shell script does what it does in a shell (sh_transpile.rs).
SameInShell == Sh!SameInShell
\* A function has in its parameters what was written for them (shrt.luau, sandbox/doc.rs).
ReachedMeansBound == Mc!ReachedMeansBound
\* A call as it is documented arrives (sandbox/doc.rs).
DocumentedCallsArrive == Mc!DocumentedCallsArrive
=============================================================================
