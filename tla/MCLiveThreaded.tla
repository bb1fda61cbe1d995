---------------------------- MODULE MCLiveThreaded ----------------------------
(***************************************************************************)
(* LiveThreaded with a thread in each overload of BlockForStop.            *)
(***************************************************************************)
EXTENDS LiveThreaded

==============================================================================
