------------------------ MODULE SpeechRequestMap_proofs ------------------------
(***************************************************************************)
(* What the operators of SpeechRequestMap return and preserve.             *)
(***************************************************************************)
EXTENDS SpeechRequestMap, WellFoundedInduction, TLAPS

\* Every non-empty set of naturals has a least element.
LEMMA LeastElement ==
  ASSUME NEW S \in SUBSET Nat, S # {}
  PROVE  \E x \in S : \A y \in S : x <= y
<1>1. PICK x \in S : \A y \in S : <<y, x>> \notin OpToRel(<, Nat)
  BY NatLessThanWellFounded, WFMin
<1>2. ASSUME NEW y \in S
      PROVE  x <= y
  <2>1. x \in Nat /\ y \in Nat
    OBVIOUS
  <2>2. <<y, x>> \in OpToRel(<, Nat) <=> y < x
    BY <2>1 DEF OpToRel
  <2>3. ~(y < x)
    BY <1>1, <2>2
  <2>4. QED
    BY <2>1, <2>3
<1>3. QED
  BY <1>2

\* getClientId() of a service id that is in the table returns the least
\* client id that holds it (the order std::map iterates in).
LEMMA GetClientIdIsLeast ==
  ASSUME NEW map, DOMAIN map \subseteq Nat, NEW s, Holders(map, s) # {}
  PROVE  /\ GetClientId(map, s) \in DOMAIN map
         /\ map[GetClientId(map, s)] = s
         /\ \A d \in Holders(map, s) : GetClientId(map, s) <= d
<1>1. Holders(map, s) \in SUBSET Nat
  BY DEF Holders
<1>2. \E c \in Holders(map, s) : \A d \in Holders(map, s) : c <= d
  BY <1>1, LeastElement
<1>3. /\ GetClientId(map, s) \in Holders(map, s)
      /\ \A d \in Holders(map, s) : GetClientId(map, s) <= d
  BY <1>2 DEF GetClientId
<1>4. QED
  BY <1>3 DEF Holders

\* add() keeps every old entry, and adds one only for a new client id.
LEMMA AddKeeps ==
  ASSUME NEW map, NEW c, NEW s
  PROVE  /\ DOMAIN Add(map, c, s) = DOMAIN map \cup {c}
         /\ \A d \in DOMAIN map : Add(map, c, s)[d] = map[d]
         /\ c \notin DOMAIN map => Add(map, c, s)[c] = s
  BY DEF Add

\* removeServiceId() leaves every entry it keeps as it was.
LEMMA RemoveKeeps ==
  ASSUME NEW map, NEW s
  PROVE  /\ DOMAIN RemoveServiceId(map, s) \subseteq DOMAIN map
         /\ \A d \in DOMAIN RemoveServiceId(map, s) : RemoveServiceId(map, s)[d] = map[d]
  BY DEF RemoveServiceId

\* When no two client ids hold s, removeServiceId() leaves no trace of s.
LEMMA RemoveErases ==
  ASSUME NEW map, DOMAIN map \subseteq Nat, NEW s,
         \A c, d \in Holders(map, s) : c = d
  PROVE  Holders(RemoveServiceId(map, s), s) = {}
<1>1. CASE Holders(map, s) = {}
  BY <1>1 DEF RemoveServiceId
<1>2. CASE Holders(map, s) # {}
  <2>1. GetClientId(map, s) \in Holders(map, s)
    BY <1>2, GetClientIdIsLeast DEF Holders
  <2>2. RemoveServiceId(map, s) = [c \in DOMAIN map \ {GetClientId(map, s)} |-> map[c]]
    BY <1>2 DEF RemoveServiceId
  <2>3. QED
    BY <2>1, <2>2 DEF Holders
<1>3. QED
  BY <1>1, <1>2

\* The two look-ups are inverse to each other as long as every service id
\* in the table was given to one client id only.
THEOREM LookUpsAreInverse ==
  ASSUME NEW map, DOMAIN map \subseteq Nat,
         \A c, d \in DOMAIN map : map[c] = map[d] => c = d,
         NEW c \in DOMAIN map
  PROVE  GetClientId(map, GetServiceId(map, c)) = c
<1>1. GetServiceId(map, c) = map[c]
  BY DEF GetServiceId
<1>2. c \in Holders(map, map[c])
  BY DEF Holders
<1>3. QED
  BY <1>1, <1>2, GetClientIdIsLeast
================================================================================
