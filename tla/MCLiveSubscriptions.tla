-------------------------- MODULE MCLiveSubscriptions --------------------------
(***************************************************************************)
(* LiveSubscriptions with symbol lists that are empty, shorter than a      *)
(* chunk, exactly one chunk, two chunks, and two with a remainder.         *)
(***************************************************************************)
EXTENDS LiveSubscriptions

MCSymbolLists == {<< >>, <<"A">>, <<"A", "B">>, <<"B", "C", "A">>, <<"A", "B", "C", "D">>}
================================================================================
