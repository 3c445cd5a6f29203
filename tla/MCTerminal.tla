----------------------------- MODULE MCTerminal -----------------------------
(***************************************************************************)
(* A small instance of Terminal: a screen of three rows of four, lines of  *)
(* up to six characters, and commands whose output ends in the middle of  *)
(* a row, fills rows and scrolls, or rubs out.                             *)
(***************************************************************************)
EXTENDS Terminal

Logo == <<"x", NL>>
Prompt == <<">">>
Clear == <<"a">>
Echo == <<"a", "a">>
SomeOutputs == { <<>>, <<"x">>, <<NL, "x", NL>>, <<"x", "x", "x", "x", "x">>, <<BS>> }
=============================================================================
