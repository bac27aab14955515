---------------------------- MODULE MCShellEval ----------------------------
(* Instances of ShellEval for TLC: a text without a newline, with one, only *)
(* one, and none at all.                                                    *)
EXTENDS ShellEval

MCChar == {"x", "nl"}

MCTexts == {<<>>, <<"x">>, <<"x", "nl">>, <<"nl">>}
=============================================================================
