------------------------------- MODULE MCComWorker -------------------------------
(***************************************************************************)
(* ComWorker with a few notifications.                                     *)
(***************************************************************************)
EXTENDS ComWorker
================================================================================
