---------------------------- MODULE MCReadline ----------------------------
(***************************************************************************)
(* Readline for TLC: a letter and the blank, and a word that has            *)
(* completions shorter and longer than what the line can hold.             *)
(***************************************************************************)
EXTENDS Readline

CONSTANTS x, blank

MCChar == {x, blank}
MCAlnum == {x}
MCCompletions == <<x>> :> <<<<x, x>>, <<x, blank>>, <<x, x, x>>>> @@ <<>> :> <<<<x>>>>
=============================================================================
