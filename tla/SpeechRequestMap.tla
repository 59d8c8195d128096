---------------------------- MODULE SpeechRequestMap ----------------------------
(***************************************************************************)
(* The table a TTS client keeps of the speeches it asked for               *)
(* (ttsclient/TTSClientPrivateJsonRPC.h:40-104): a std::map from the id    *)
(* the application chose for a speech to the id the service gave it.       *)
(* Every method takes the table's own mutex, so each is one operator here. *)
(* Id 0 is never a real service id; the methods return 0 for "not found".  *)
(***************************************************************************)
EXTENDS Naturals

\* A table with no entry.
EmptyMap == [c \in {} |-> 0]

\* The client ids whose entry holds service id s.
Holders(map, s) == { c \in DOMAIN map : map[c] = s }

\* Mutant of add(): operator[] instead of the check for the key.
AddOverwriting(map, c, s) ==
  [ d \in DOMAIN map \cup {c} |-> IF d = c THEN s ELSE map[d] ]

\* add(): a client id that is already there keeps its old entry.
Add(map, c, s) ==
  IF c \in DOMAIN map
    THEN map
    ELSE [ d \in DOMAIN map \cup {c} |-> IF d = c THEN s ELSE map[d] ]

\* getServiceId()
GetServiceId(map, c) == IF c \in DOMAIN map THEN map[c] ELSE 0

\* Mutant of getClientId(): the last entry, whatever its service id.
GetClientIdLast(map, s) ==
  IF DOMAIN map = {} THEN 0 ELSE CHOOSE c \in DOMAIN map : \A d \in DOMAIN map : d <= c

\* getClientId(): std::map iterates in key order, so the least key wins.
GetClientId(map, s) ==
  IF Holders(map, s) = {}
    THEN 0
    ELSE CHOOSE c \in Holders(map, s) : \A d \in Holders(map, s) : c <= d

\* Mutant of removeServiceId(): the erase is forgotten.
RemoveServiceIdKeeps(map, s) == map

\* removeServiceId() returns GetClientId(map, s) and leaves this table.
RemoveServiceId(map, s) ==
  IF Holders(map, s) = {}
    THEN map
    ELSE [ c \in DOMAIN map \ {GetClientId(map, s)} |-> map[c] ]

\* empty()
IsEmpty(map) == DOMAIN map = {}

\* The service ids the table holds.
Tracked(map) == { map[c] : c \in DOMAIN map }
================================================================================
