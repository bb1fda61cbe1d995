------------------------------ MODULE MCLiveAuth ------------------------------
(***************************************************************************)
(* LiveAuth with the challenge lines and responses of a gateway, good and  *)
(* bad ones, as in tests/src/mock_lsg_server.cpp and the tests.            *)
(***************************************************************************)
EXTENDS LiveAuth

MCChallenges == {<<"cram=">>, <<"cram">>, <<"other">>}

Accepting == <<"success=1", "|", "session_id=5">>
Rejecting == <<"success=0", "|", "error=e">>

\* The mock gateway of the tests ends its response with a separator.
MCResponses ==
  {Append(Accepting, "|"), Accepting, Rejecting, << >>, <<"session_id=5">>, <<NoPair>>,
   <<"success=1", "|", "|", "session_id=5">>, <<"success=1", "|", BadSessionId>>,
   <<"success=1">>, <<"success=1", "|", "success=0">>, <<"success=1", "|", "success=0", "|">>}

MCExtra == <<"x">>
==============================================================================
