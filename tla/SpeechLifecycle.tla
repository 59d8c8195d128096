---------------------------- MODULE SpeechLifecycle ----------------------------
(***************************************************************************)
(* What a TTS client promises about each speech the plugin accepted for    *)
(* it, whatever events the plugin sends and whenever they come: the speech *)
(* is tracked at most once, its end is final, and session callbacks are    *)
(* called for one speech at a time, only while the speech is tracked or to *)
(* tell, once, that it ended.  Not every speech is tracked, and not every  *)
(* end is told.                                                            *)
(***************************************************************************)
EXTENDS Naturals

CONSTANT ServiceIds

VARIABLES
  speech,  \* how far each speech has come
  telling  \* the speech a session callback is running for, 0 for none

lifecycleVars == <<speech, telling>>

Phases == {"unknown", "accepted", "tracked", "ended", "over"}

Init == speech = [s \in ServiceIds |-> "unknown"] /\ telling = 0

\* The plugin gives the speech its id.
Accept(s) ==
  /\ speech[s] = "unknown"
  /\ speech' = [speech EXCEPT ![s] = "accepted"]
  /\ UNCHANGED telling

\* speak() enters it in the table.
Track(s) ==
  /\ speech[s] = "accepted"
  /\ speech' = [speech EXCEPT ![s] = "tracked"]
  /\ UNCHANGED telling

\* Or speak() does not, and nothing will be heard of it.
Drop(s) ==
  /\ speech[s] = "accepted"
  /\ speech' = [speech EXCEPT ![s] = "over"]
  /\ UNCHANGED telling

\* An event ends it, and a callback that tells of the end begins, or may
\* begin later, or there will be none.
End(s) ==
  /\ speech[s] = "tracked" /\ telling = 0
  /\ \/ speech' = [speech EXCEPT ![s] = "ended"] /\ telling' \in {0, s}
     \/ speech' = [speech EXCEPT ![s] = "over"] /\ telling' = 0

\* A session callback about it begins.
Begin(s) ==
  /\ telling = 0 /\ speech[s] \in {"tracked", "ended"}
  /\ telling' = s
  /\ UNCHANGED speech

\* The callback returns; if it told of the end, there is no other.
Finish(s) ==
  /\ telling = s
  /\ telling' = 0
  /\ speech' = [speech EXCEPT ![s] = IF speech[s] = "ended" THEN "over" ELSE speech[s]]

Next ==
  \E s \in ServiceIds : Accept(s) \/ Track(s) \/ Drop(s) \/ End(s) \/ Begin(s) \/ Finish(s)

Spec == Init /\ [][Next]_lifecycleVars
================================================================================
