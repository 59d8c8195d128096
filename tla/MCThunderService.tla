---------------------------- MODULE MCThunderService ----------------------------
(***************************************************************************)
(* ThunderService with one or two application threads.                     *)
(***************************************************************************)
EXTENDS ThunderService
================================================================================
