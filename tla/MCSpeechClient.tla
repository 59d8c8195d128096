----------------------------- MODULE MCSpeechClient -----------------------------
(***************************************************************************)
(* SpeechClient on a small instance.                                       *)
(***************************************************************************)
EXTENDS SpeechClient

\* The application uses its ids freely, 0 included, as the multi-client test
\* does (test/TTSMultiClientTest.cpp:203).  3 is no service id of this instance,
\* so that an id of the wrong sort shows.
MCClientIds == {0, 3}
================================================================================
