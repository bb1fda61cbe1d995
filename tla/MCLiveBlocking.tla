---------------------------- MODULE MCLiveBlocking ----------------------------
(***************************************************************************)
(* LiveBlocking with records of three pieces and a header of two, on a     *)
(* buffer of six, which has room for the metadata of four behind the       *)
(* authentication response and the prelude, and on one of three, which     *)
(* Start grows to four.  Records straddle the end of both.                 *)
(***************************************************************************)
EXTENDS LiveBlocking

MCSymbolLists == {<<"A">>}
==============================================================================
