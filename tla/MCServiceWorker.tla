----------------------------- MODULE MCServiceWorker -----------------------------
(***************************************************************************)
(* ServiceWorker with the installing thread and two event threads.         *)
(***************************************************************************)
EXTENDS ServiceWorker
================================================================================
