------------------------------ MODULE SlotTable ------------------------------
(***************************************************************************)
(* What the gate and the account pool promise about their slots: an owner  *)
(* that holds nothing is granted a slot of a resource that has room, and   *)
(* slots are given back, or taken back, at any time.  Room may change while*)
(* slots are held, also below their number, but never in the step of a     *)
(* grant.  Gate and AccountLeases implement this with counters, channels,  *)
(* records and evictions.                                                  *)
(***************************************************************************)
EXTENDS Integers, FiniteSets

CONSTANTS Owners, Resources, Nothing

VARIABLES
  holds,  \* the resource each owner has a slot of
  room    \* how many slots each resource offers

Holders(r) == {o \in Owners : holds[o] = r}

Init ==
  /\ holds = [o \in Owners |-> Nothing]
  /\ room \in [Resources -> Nat]

Grant(o, r) ==
  /\ holds[o] = Nothing
  /\ Cardinality(Holders(r)) < room[r]
  /\ holds' = [holds EXCEPT ![o] = r]
  /\ room' = room

GiveBack(S) ==
  /\ holds' = [o \in Owners |-> IF o \in S THEN Nothing ELSE holds[o]]
  /\ room' \in [Resources -> Nat]

Next ==
  \/ \E o \in Owners, r \in Resources : Grant(o, r)
  \/ \E S \in SUBSET Owners : GiveBack(S)

Spec == Init /\ [][Next]_<<holds, room>>
=============================================================================
