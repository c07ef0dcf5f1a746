------------------------------ MODULE KeyTable ------------------------------
(***************************************************************************)
(* The records of the users' API keys and what a request asks of them: the *)
(* decisions of internal/auth/service.go that Authenticate and Consume     *)
(* take under the mutex, and what an administrator's change does to the    *)
(* records.  How the records reach the store is UserKeys; requests as the  *)
(* server handles them are ApiCalls.                                       *)
(*                                                                         *)
(* Names, creation and last-use times are left out; a day is a number.     *)
(***************************************************************************)
EXTENDS Integers, FiniteSets

CONSTANTS Ids,        \* identifiers of keys, each used once (randomID)
          RawKeys,    \* the secrets requests present
          AdminKeys,  \* those configured for administrators at the start
          Limits,     \* limits an administrator may set: see Unlimited
          Stored,     \* the records the store holds when the program starts
          Calls,      \* what may be asked for: endpoint, model and number of images
          MaxEvents,  \* bound on changes by administrators, ends of a day,
                      \* failed writes and restarts together
          Nobody

VARIABLES keys,     \* the records by id, NoKey for those not in the list
          admins,   \* the administrators' keys (legacy)
          today,    \* the day the clock shows
          issued,   \* ids drawn so far
          events    \* events so far that MaxEvents bounds

Unlimited == [requests |-> 0, images |-> 0, models |-> {}, endpoints |-> {}]
NoKey == [raw |-> Nobody]
NewKey(raw) == [raw |-> raw, enabled |-> TRUE, limits |-> Unlimited, day |-> today, requests |-> 0, images |-> 0]
Exists(id) == keys[id] # NoKey

Event == events < MaxEvents /\ events' = events + 1

(* normalizeUsage: the counters of another day are those of a new one.     *)
Today(key) == IF key = NoKey \/ key.day = today THEN key ELSE [key EXCEPT !.day = today, !.requests = 0, !.images = 0]

-----------------------------------------------------------------------------
(* What a request finds.  Administrators' keys come first. *)
Owners(raw) == {i \in Ids : Exists(i) /\ keys[i].enabled /\ keys[i].raw = raw}
Known(raw) == raw \in admins \/ Owners(raw) # {}

(* Why Consume refuses a call, and "nothing" when it does not.  A call     *)
(* that names no model is not held to the models its user may use.         *)
Refusals == {"key", "endpoint", "model", "requests", "images"}
Refusal(id, call) ==
  LET key == Today(keys[id])
      limits == key.limits
  IN IF ~Exists(id) \/ ~key.enabled THEN "key"
     ELSE IF limits.endpoints # {} /\ call.endpoint \notin limits.endpoints THEN "endpoint"
     ELSE IF limits.models # {} /\ call.model # "" /\ call.model \notin limits.models THEN "model"
     ELSE IF limits.requests > 0 /\ key.requests + 1 > limits.requests THEN "requests"
     ELSE IF limits.images > 0 /\ key.images + call.images > limits.images THEN "images"
     ELSE "nothing"

(* A likely slip: counting on from the counters of an earlier day. *)
ChargedStale(id, call) == [keys EXCEPT ![id].requests = @ + 1, ![id].images = @ + call.images, ![id].day = today]

Charged(id, call) ==
  LET key == Today(keys[id])
  IN [keys EXCEPT ![id] = [key EXCEPT !.requests = @ + 1, !.images = @ + call.images]]

-----------------------------------------------------------------------------
(* A likely slip: comparing a new secret with the users' keys only when    *)
(* they are enabled.                                                       *)
TakenEnabled(raw, id) == raw \in admins \/ \E i \in Owners(raw) : i # id
Taken(raw, id) == raw \in admins \/ \E i \in Ids \ {id} : Exists(i) /\ keys[i].raw = raw

(* An update may switch the key on or off, replace its secret and its      *)
(* limits; each part may be missing.  A secret that is taken or empty is   *)
(* noticed after the switch has been thrown.                               *)
Created(id, raw) == [keys EXCEPT ![id] = NewKey(raw)]
Updated(id, enabled, raw, limits) == [keys EXCEPT ![id].enabled = enabled, ![id].raw = raw, ![id].limits = limits]
Switched(id, enabled) == [keys EXCEPT ![id].enabled = enabled]
Deleted(id) == [keys EXCEPT ![id] = NoKey]

MayUpdate(id, raw) == Exists(id) /\ (raw # keys[id].raw => ~Taken(raw, id))
MayNotUpdate(id, raw) == Exists(id) /\ (raw = Nobody \/ Taken(raw, id))

Records == [raw : RawKeys, enabled : BOOLEAN, limits : Limits \cup {Unlimited}, day : Nat, requests : Nat, images : Nat]
Tables == [Ids -> Records \cup {NoKey}]

(* The store holds what an earlier run has written: secrets that differ,   *)
(* and counters of days until the first, which is the first one modelled.  *)
DistinctSecrets(table) == \A i, j \in Ids : i # j /\ table[i] # NoKey /\ table[j] # NoKey => table[i].raw # table[j].raw
ASSUME TableConstants ==
  /\ AdminKeys \subseteq RawKeys /\ Nobody \notin RawKeys /\ MaxEvents \in Nat
  /\ \A call \in Calls : call.images \in Nat
  /\ Stored \in Tables /\ DistinctSecrets(Stored) /\ \A i \in Ids : Stored[i] # NoKey => Stored[i].day <= 1
=============================================================================
