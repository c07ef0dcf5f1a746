-------------------------- MODULE KeysAndCalls_proof --------------------------
(***************************************************************************)
(* Theorems about the users' API keys and the calls made with them, for    *)
(* any ids, secrets, administrators, requests, errors and bounds:          *)
(* - KEYS: how the keys reach the store (UserKeys);                        *)
(* - CALLS: how a request meets the keys, what it is told and how it is    *)
(*   recorded (ApiCalls with CallMetrics and ErrorClasses).                *)
(***************************************************************************)
EXTENDS UserKeys, ApiCalls, SequenceTheorems, WellFoundedInduction, TLAPS

-----------------------------------------------------------------------------
(* KEYS.  What a table of keys holds, wherever it is: in memory, in the    *)
(* store, or on its way there.  Its secrets differ, its days are past, its *)
(* ids have been drawn, and a counter of this day does not exceed the      *)
(* calls charged this day.                                                 *)
OnDay(key, day) ==
  IF key = NoKey \/ key.day = day THEN key ELSE [key EXCEPT !.day = day, !.requests = 0, !.images = 0]
CountedOn(key, day) == IF key = NoKey \/ key.day # day THEN 0 ELSE key.requests

Covered(table, day, counts, drawn) ==
  \A i \in Ids : table[i] # NoKey =>
     i \in drawn /\ table[i].day <= day /\ CountedOn(table[i], day) <= counts[i]
TableOK(table, day, counts, drawn) ==
  table \in Tables /\ DistinctSecrets(table) /\ Covered(table, day, counts, drawn)

TablesOK ==
  /\ TableOK(keys, today, charged, issued) /\ TableOK(written, today, charged, issued)
  /\ \A p \in Savers : TableOK(snap[p].keys, today, charged, issued)

\* A table that is as the keys are, for all that has been marked.
Current(table) == \A i \in Ids \ unmarked : OnDay(table[i], today) = OnDay(keys[i], today)
FreshIsCurrent == \A p \in Savers : snap[p].fresh => Current(snap[p].keys)
StoredIsCurrent == loaded /\ ~dirty => Current(written)

UndrawnIsUnused == \A i \in Ids \ issued : charged[i] = 0
CountIsExact == restarted # today => \A i \in Ids : Exists(i) => CountedOn(keys[i], today) = charged[i]

KeysInv == TablesOK /\ FreshIsCurrent /\ StoredIsCurrent /\ UndrawnIsUnused /\ CountIsExact
IInv == TypeOK /\ KeysInv

-----------------------------------------------------------------------------
(* Single records. *)
AllKeys == Records \cup {NoKey}

LEMMA NoKeyIsNoRecord == NoKey \notin Records
<1> SUFFICES ASSUME NoKey \in Records PROVE FALSE
  OBVIOUS
<1>1. NoKey.raw \in RawKeys
  BY DEF Records
<1>2. NoKey.raw = Nobody
  BY DEF NoKey
<1> QED BY <1>1, <1>2, TableConstants

LEMMA TodayIsOnDay == \A key : Today(key) = OnDay(key, today)
BY DEF Today, OnDay

LEMMA CountedIsCountedOn ==
  ASSUME today \in Nat, NEW key \in AllKeys
  PROVE  CountedToday(key) = CountedOn(key, today)
<1>1. CASE key = NoKey
  BY <1>1 DEF CountedToday, CountedOn
<1>2. CASE key \in Records /\ key.day = today
  BY <1>2, NoKeyIsNoRecord DEF CountedToday, CountedOn, Today
<1>3. CASE key \in Records /\ key.day # today
  <2>1. [key EXCEPT !.day = today, !.requests = 0, !.images = 0].requests = 0
    BY <1>3 DEF Records
  <2> QED BY <2>1, <1>3, NoKeyIsNoRecord DEF CountedToday, CountedOn, Today
<1> QED BY <1>1, <1>2, <1>3 DEF AllKeys

LEMMA OnDayType ==
  ASSUME NEW day \in Nat, NEW key \in Records
  PROVE  /\ OnDay(key, day) \in Records /\ OnDay(key, day).raw = key.raw
         /\ OnDay(key, day).enabled = key.enabled /\ OnDay(key, day).limits = key.limits
         /\ OnDay(key, day).day = day
         /\ OnDay(key, day).requests = CountedOn(key, day) /\ OnDay(key, day).images \in Nat
BY NoKeyIsNoRecord DEF OnDay, CountedOn, Records

LEMMA CountedType ==
  ASSUME NEW day \in Nat, NEW key \in AllKeys
  PROVE  CountedOn(key, day) \in Nat
BY DEF CountedOn, AllKeys, Records

LEMMA SameRecord ==
  ASSUME NEW a \in Records, NEW b \in Records, a.raw = b.raw, a.enabled = b.enabled, a.limits = b.limits,
         a.day = b.day, a.requests = b.requests, a.images = b.images
  PROVE  a = b
BY DEF Records

\* Records that agree today agree tomorrow.
LEMMA AgreeTomorrow ==
  ASSUME NEW day \in Nat, NEW a \in AllKeys, NEW b \in AllKeys, OnDay(a, day) = OnDay(b, day),
         a # NoKey => a.day <= day, b # NoKey => b.day <= day
  PROVE  OnDay(a, day + 1) = OnDay(b, day + 1)
<1>1. CASE a = NoKey \/ b = NoKey
  <2>1. OnDay(NoKey, day) = NoKey
    BY DEF OnDay
  <2>2. (a \in Records => OnDay(a, day) \in Records) /\ (b \in Records => OnDay(b, day) \in Records)
    BY OnDayType
  <2>3. a = NoKey /\ b = NoKey
    BY <1>1, <2>1, <2>2, NoKeyIsNoRecord DEF AllKeys
  <2> QED BY <2>3
<1>2. CASE a \in Records /\ b \in Records
  <2>1. a.raw = b.raw /\ a.enabled = b.enabled /\ a.limits = b.limits
    BY <1>2, OnDayType
  <2>2. a.day # day + 1 /\ b.day # day + 1
    BY <1>2, NoKeyIsNoRecord DEF Records
  <2>3. /\ OnDay(a, day + 1) \in Records /\ OnDay(b, day + 1) \in Records
        /\ CountedOn(a, day + 1) = 0 /\ CountedOn(b, day + 1) = 0
    BY <1>2, <2>2, OnDayType, day + 1 \in Nat DEF CountedOn
  <2>a. ASSUME NEW c \in Records, c.day # day + 1
        PROVE  OnDay(c, day + 1).images = 0
    <3>1. [c EXCEPT !.day = day + 1, !.requests = 0, !.images = 0].images = 0
      BY DEF Records
    <3> QED BY <3>1, <2>a, NoKeyIsNoRecord DEF OnDay
  <2> DEFINE x == OnDay(a, day + 1)
             y == OnDay(b, day + 1)
  <2>4. /\ x.raw = a.raw /\ x.enabled = a.enabled /\ x.limits = a.limits /\ x.day = day + 1
        /\ x.requests = CountedOn(a, day + 1)
        /\ y.raw = b.raw /\ y.enabled = b.enabled /\ y.limits = b.limits /\ y.day = day + 1
        /\ y.requests = CountedOn(b, day + 1)
    BY <1>2, OnDayType, day + 1 \in Nat
  <2>5. x \in Records /\ y \in Records /\ x.images = y.images /\ x.requests = y.requests
    BY <1>2, <2>2, <2>3, <2>4, <2>a
  <2> HIDE DEF x, y
  <2>6. x = y
    BY <2>1, <2>4, <2>5, SameRecord
  <2> QED BY <2>6 DEF x, y
<1> QED BY <1>1, <1>2 DEF AllKeys

\* Normalising twice is normalising once.
LEMMA OnDayOnce ==
  ASSUME NEW day \in Nat, NEW key \in AllKeys
  PROVE  OnDay(OnDay(key, day), day) = OnDay(key, day)
BY OnDayType DEF OnDay, AllKeys

-----------------------------------------------------------------------------
(* Tables. *)
LEMMA TableEntries ==
  ASSUME NEW t \in Tables, NEW i \in Ids
  PROVE  t[i] \in AllKeys
BY DEF Tables, AllKeys

\* What is drawn and charged only makes a table more acceptable.
LEMMA TableStays ==
  ASSUME NEW t, NEW day, NEW counts, NEW drawn, NEW counts2, NEW drawn2,
         TableOK(t, day, counts, drawn), day \in Nat, drawn \subseteq drawn2,
         counts \in [Ids -> Nat], counts2 \in [Ids -> Nat], \A i \in Ids : counts[i] <= counts2[i]
  PROVE  TableOK(t, day, counts2, drawn2)
<1>1. \A i \in Ids : CountedOn(t[i], day) \in Nat
  BY CountedType, TableEntries DEF TableOK
<1> QED BY <1>1 DEF TableOK, Covered

\* The next day nothing is counted yet.
LEMMA TableTomorrow ==
  ASSUME NEW t, NEW day \in Nat, NEW counts, NEW drawn, TableOK(t, day, counts, drawn)
  PROVE  TableOK(t, day + 1, [i \in Ids |-> 0], drawn)
<1>1. ASSUME NEW i \in Ids, t[i] # NoKey
      PROVE  i \in drawn /\ t[i].day <= day + 1 /\ CountedOn(t[i], day + 1) <= 0
  <2>1. t[i] \in Records /\ t[i].day <= day /\ i \in drawn
    BY <1>1, TableEntries DEF TableOK, Covered, AllKeys
  <2> QED BY <2>1 DEF CountedOn, Records
<1> QED BY <1>1 DEF TableOK, Covered

LEMMA EmptyTable ==
  ASSUME NEW day, NEW counts, NEW drawn
  PROVE  TableOK([i \in Ids |-> NoKey], day, counts, drawn)
BY DEF TableOK, Covered, Tables, DistinctSecrets

\* One record of a table is replaced.
LEMMA TableWith ==
  ASSUME NEW t, NEW day, NEW counts, NEW drawn, TableOK(t, day, counts, drawn), NEW id \in Ids,
         NEW key \in Records, id \in drawn, key.day <= day, CountedOn(key, day) <= counts[id],
         \A j \in Ids : j # id /\ t[j] # NoKey => t[j].raw # key.raw
  PROVE  TableOK([t EXCEPT ![id] = key], day, counts, drawn)
<1> DEFINE n == [t EXCEPT ![id] = key]
<1>1. n \in Tables /\ n[id] = key /\ \A j \in Ids : j # id => n[j] = t[j]
  BY DEF TableOK, Tables
<1>2. DistinctSecrets(n)
  BY <1>1 DEF TableOK, DistinctSecrets
<1>3. Covered(n, day, counts, drawn)
  BY <1>1 DEF TableOK, Covered
<1> QED BY <1>1, <1>2, <1>3 DEF TableOK

LEMMA TableWithout ==
  ASSUME NEW t, NEW day, NEW counts, NEW drawn, TableOK(t, day, counts, drawn), NEW id \in Ids
  PROVE  TableOK([t EXCEPT ![id] = NoKey], day, counts, drawn)
<1> DEFINE n == [t EXCEPT ![id] = NoKey]
<1>1. n \in Tables /\ n[id] = NoKey /\ \A j \in Ids : j # id => n[j] = t[j]
  BY DEF TableOK, Tables
<1>2. DistinctSecrets(n)
  BY <1>1 DEF TableOK, DistinctSecrets
<1>3. Covered(n, day, counts, drawn)
  BY <1>1 DEF TableOK, Covered
<1> QED BY <1>1, <1>2, <1>3 DEF TableOK

-----------------------------------------------------------------------------
(* Steps. *)
Snapshots == [Savers -> [keys : Tables, fresh : BOOLEAN]]

LEMMA MarkedOK ==
  ASSUME snap \in Snapshots
  PROVE  Marked \in Snapshots /\ \A p \in Savers : Marked[p].keys = snap[p].keys /\ ~Marked[p].fresh
BY DEF Marked, Snapshots

\* A step that leaves the tables and what is known of them alone.
LEMMA QuietOK ==
  ASSUME IInv, UNCHANGED <<keys, today, dirty, written, snap, loaded, unmarked, issued, charged, restarted>>
  PROVE  KeysInv'
<1> USE DEF IInv, KeysInv
<1>1. TablesOK'
  BY DEF TablesOK
<1>2. FreshIsCurrent' /\ StoredIsCurrent'
  BY DEF FreshIsCurrent, StoredIsCurrent, Current
<1>3. UndrawnIsUnused' /\ CountIsExact'
  BY DEF UndrawnIsUnused, CountIsExact, Exists
<1> QED BY <1>1, <1>2, <1>3

\* Everything is marked: no snapshot is fresh any more, but for that of one
\* who takes it now.
LEMMA MarkOK ==
  ASSUME IInv, dirty', UNCHANGED <<today, written, loaded, restarted>>,
         issued \subseteq issued', charged' \in [Ids -> Nat], \A i \in Ids : charged[i] <= charged'[i],
         TableOK(keys', today, charged', issued'), UndrawnIsUnused', CountIsExact',
         \A p \in Savers : /\ snap'[p].keys = snap[p].keys \/ snap'[p].keys = keys'
                           /\ snap'[p].fresh => snap'[p].keys = keys'
  PROVE  KeysInv'
<1> USE DEF IInv, KeysInv
<1>0. today \in Nat /\ charged \in [Ids -> Nat]
  BY DEF TypeOK
<1>1. TableOK(written', today', charged', issued')
  BY <1>0, TableStays DEF TablesOK
<1>2. ASSUME NEW p \in Savers PROVE TableOK(snap'[p].keys, today', charged', issued')
  <2>1. TableOK(snap[p].keys, today, charged', issued')
    BY <1>0, TableStays DEF TablesOK
  <2> QED BY <2>1
<1>3. TablesOK'
  BY <1>1, <1>2 DEF TablesOK
<1>4. FreshIsCurrent' /\ StoredIsCurrent'
  BY DEF FreshIsCurrent, StoredIsCurrent, Current
<1> QED BY <1>3, <1>4

LEMMA TouchOK ==
  ASSUME IInv, NEW secret \in RawKeys, Touch(secret), UNCHANGED countVars
  PROVE  KeysInv'
<1> USE DEF Touch, countVars, IInv
<1>0. snap \in Snapshots /\ charged \in [Ids -> Nat]
  BY DEF TypeOK, Snapshots
<1>1. CASE secret \in admins \/ Owners(secret) = {}
  BY <1>1, QuietOK
<1>2. CASE ~(secret \in admins \/ Owners(secret) = {})
  <2>1. dirty' /\ snap' = Marked
    BY <1>2 DEF MarkDirty
  <2>2. TableOK(keys', today, charged', issued') /\ \A i \in Ids : charged[i] <= charged'[i]
    BY <1>0 DEF KeysInv, TablesOK
  <2>3. UndrawnIsUnused' /\ CountIsExact'
    BY DEF KeysInv, UndrawnIsUnused, CountIsExact, Exists
  <2>4. \A p \in Savers : snap'[p].keys = snap[p].keys /\ ~snap'[p].fresh
    BY <1>0, <2>1, MarkedOK
  <2>5. UNCHANGED <<today, written, loaded, restarted, issued, charged>>
    OBVIOUS
  <2> QED BY <1>0, <2>1, <2>2, <2>3, <2>4, <2>5, MarkOK
<1> QED BY <1>1, <1>2

\* Consume charges a key that is in the list.
LEMMA AllowedExists ==
  ASSUME NEW id \in Ids, NEW call, Refusal(id, call) = "nothing"
  PROVE  Exists(id)
BY DEF Refusal

LEMMA ChargedRecord ==
  ASSUME IInv, NEW id \in Ids, NEW call \in Calls, Exists(id)
  PROVE  \E key \in Records :
           /\ Charged(id, call) = [keys EXCEPT ![id] = key]
           /\ key.day = today /\ key.raw = keys[id].raw
           /\ CountedOn(key, today) = CountedOn(keys[id], today) + 1
<1> DEFINE old == OnDay(keys[id], today)
           key == [old EXCEPT !.requests = @ + 1, !.images = @ + call.images]
<1>1. today \in Nat /\ keys[id] \in Records /\ call.images \in Nat
  BY TableEntries, TableConstants DEF IInv, TypeOK, Exists, AllKeys, KeysInv, TablesOK, TableOK
<1>2. /\ old \in Records /\ old.raw = keys[id].raw /\ old.day = today
      /\ old.requests = CountedOn(keys[id], today) /\ old.images \in Nat
  BY <1>1, OnDayType
<1>3. Charged(id, call) = [keys EXCEPT ![id] = key]
  <2>1. Today(keys[id]) = old
    BY TodayIsOnDay
  <2> HIDE DEF old
  <2> QED BY <2>1 DEF Charged
<1> HIDE DEF old
<1>4. key \in Records /\ key.day = old.day /\ key.raw = old.raw /\ key.requests = old.requests + 1
  <2>1. old.requests + 1 \in Nat /\ old.images + call.images \in Nat
    BY <1>1, <1>2 DEF Records
  <2> QED BY <1>2, <2>1 DEF Records
<1> HIDE DEF key
<1>5. CountedOn(key, today) = key.requests
  BY <1>2, <1>4, NoKeyIsNoRecord DEF CountedOn
<1> QED BY <1>2, <1>3, <1>4, <1>5

LEMMA ChargeOK ==
  ASSUME IInv, NEW id \in Ids, NEW call \in Calls, Refusal(id, call) = "nothing", Charge(id, call),
         charged' = [charged EXCEPT ![id] = @ + 1], UNCHANGED <<restarted, events>>
  PROVE  KeysInv'
<1> USE DEF IInv
<1>0. snap \in Snapshots /\ charged \in [Ids -> Nat] /\ charged' \in [Ids -> Nat] /\ today \in Nat
      /\ keys \in Tables
  BY DEF TypeOK, Snapshots
<1>1. /\ keys' = Charged(id, call) /\ dirty' /\ snap' = Marked
      /\ UNCHANGED <<today, written, loaded, issued, restarted>>
  BY DEF Charge, MarkDirty
<1>2. Exists(id) /\ id \in issued
  <2>1. Exists(id)
    BY AllowedExists
  <2> QED BY <2>1 DEF KeysInv, TablesOK, TableOK, Covered, Exists
<1>3. PICK key \in Records : /\ keys' = [keys EXCEPT ![id] = key]
                             /\ key.day = today /\ key.raw = keys[id].raw
                             /\ CountedOn(key, today) = CountedOn(keys[id], today) + 1
  BY <1>1, <1>2, ChargedRecord
<1>4. /\ charged'[id] = charged[id] + 1 /\ \A i \in Ids : i # id => charged'[i] = charged[i]
      /\ \A i \in Ids : charged[i] <= charged'[i]
  BY <1>0
<1>5. /\ CountedOn(keys[id], today) \in Nat /\ CountedOn(keys[id], today) <= charged[id]
      /\ DistinctSecrets(keys)
  BY <1>0, <1>2, CountedType, TableEntries DEF KeysInv, TablesOK, TableOK, Covered, Exists
<1>6. TableOK(keys, today, charged', issued)
  BY <1>0, <1>4, TableStays DEF KeysInv, TablesOK
<1>7. TableOK(keys', today, charged', issued')
  <2>1. CountedOn(key, today) <= charged'[id] /\ key.day <= today
    BY <1>0, <1>3, <1>4, <1>5
  <2>2. \A j \in Ids : j # id /\ keys[j] # NoKey => keys[j].raw # key.raw
    BY <1>2, <1>3, <1>5 DEF DistinctSecrets, Exists
  <2>3. TableOK([keys EXCEPT ![id] = key], today, charged', issued)
    BY <1>2, <1>6, <2>1, <2>2, TableWith
  <2> QED BY <1>1, <1>3, <2>3
<1>8. UndrawnIsUnused'
  BY <1>1, <1>2, <1>4 DEF KeysInv, UndrawnIsUnused
<1>9. CountIsExact'
  <2>1. keys'[id] = key /\ \A i \in Ids : i # id => keys'[i] = keys[i]
    BY <1>0, <1>3 DEF Tables
  <2>2. ASSUME restarted # today, NEW i \in Ids, keys'[i] # NoKey
        PROVE  CountedOn(keys'[i], today) = charged'[i]
    <3>1. CASE i = id
      BY <1>2, <1>3, <1>4, <2>1, <2>2, <3>1 DEF KeysInv, CountIsExact
    <3>2. CASE i # id
      BY <1>4, <2>1, <2>2, <3>2 DEF KeysInv, CountIsExact, Exists
    <3> QED BY <3>1, <3>2
  <2> QED BY <1>1, <2>2 DEF CountIsExact, Exists
<1>10. \A p \in Savers : snap'[p].keys = snap[p].keys /\ ~snap'[p].fresh
  BY <1>0, <1>1, MarkedOK
<1> QED BY <1>0, <1>1, <1>4, <1>7, <1>8, <1>9, <1>10, MarkOK

\* What administrators do to a single record.
LEMMA ChangedRecord ==
  ASSUME IInv, NEW id \in Ids, NEW key \in Records, id \in issued, key.day <= today,
         CountedOn(key, today) <= charged[id], \A j \in Ids : j # id /\ Exists(j) => keys[j].raw # key.raw
  PROVE  TableOK([keys EXCEPT ![id] = key], today, charged, issued)
BY TableWith DEF IInv, KeysInv, TablesOK, Exists

LEMMA KeysAreTables ==
  ASSUME IInv
  PROVE  /\ keys \in Tables /\ today \in Nat /\ charged \in [Ids -> Nat] /\ snap \in Snapshots /\ issued \subseteq Ids
         /\ \A i \in Ids : Exists(i) => /\ keys[i] \in Records /\ i \in issued /\ keys[i].day <= today
                                        /\ CountedOn(keys[i], today) <= charged[i]
                                        /\ CountedOn(keys[i], today) \in Nat
         /\ \A i, j \in Ids : i # j /\ Exists(i) /\ Exists(j) => keys[i].raw # keys[j].raw
<1>1. keys \in Tables /\ today \in Nat /\ charged \in [Ids -> Nat] /\ snap \in Snapshots /\ issued \subseteq Ids
  BY DEF IInv, TypeOK, Snapshots
<1>2. ASSUME NEW i \in Ids, Exists(i)
      PROVE  /\ keys[i] \in Records /\ i \in issued /\ keys[i].day <= today
             /\ CountedOn(keys[i], today) <= charged[i] /\ CountedOn(keys[i], today) \in Nat
  BY <1>1, <1>2, TableEntries, CountedType DEF IInv, KeysInv, TablesOK, TableOK, Covered, Exists, AllKeys
<1>3. \A i, j \in Ids : i # j /\ Exists(i) /\ Exists(j) => keys[i].raw # keys[j].raw
  BY DEF IInv, KeysInv, TablesOK, TableOK, DistinctSecrets, Exists
<1> QED BY <1>1, <1>2, <1>3

LEMMA ChangeOK ==
  ASSUME IInv, NEW w \in Writers, NEW next, Change(w, next), UNCHANGED <<charged, restarted>>,
         issued \subseteq issued', TableOK(next, today, charged, issued'),
         restarted # today => \A i \in Ids : next[i] # NoKey => CountedOn(next[i], today) = charged[i]
  PROVE  KeysInv'
<1>0. snap \in Snapshots /\ charged \in [Ids -> Nat]
  BY KeysAreTables
<1>1. /\ keys' = next /\ dirty' /\ UNCHANGED <<today, written, loaded, restarted, charged>>
      /\ snap' = [Marked EXCEPT ![w] = [keys |-> next, fresh |-> TRUE]]
  BY DEF Change, MarkDirty
<1>2. ASSUME NEW p \in Savers
      PROVE  /\ snap'[p].keys = snap[p].keys \/ snap'[p].keys = keys'
             /\ snap'[p].fresh => snap'[p].keys = keys'
  <2>1. CASE p = w
    <3>1. snap'[p] = [keys |-> next, fresh |-> TRUE]
      BY <1>0, <1>1, <2>1, MarkedOK DEF Snapshots
    <3> QED BY <1>1, <3>1
  <2>2. CASE p # w
    <3>1. snap'[p] = Marked[p]
      BY <1>0, <1>1, <2>2, MarkedOK DEF Snapshots
    <3> QED BY <1>0, <3>1, MarkedOK
  <2> QED BY <2>1, <2>2
<1>3. UndrawnIsUnused'
  BY <1>1 DEF IInv, KeysInv, UndrawnIsUnused
<1>4. CountIsExact'
  BY <1>1 DEF CountIsExact, Exists
<1>5. \A i \in Ids : charged[i] <= charged'[i]
  BY <1>0, <1>1
<1> QED BY <1>0, <1>1, <1>2, <1>3, <1>4, <1>5, MarkOK

LEMMA CreateOK ==
  ASSUME IInv, NEW w \in Writers, NEW id \in Ids, NEW secret \in RawKeys, CreateUserKey(w, id, secret),
         UNCHANGED <<charged, restarted>>
  PROVE  KeysInv'
<1> DEFINE key  == NewKey(secret)
           next == [keys EXCEPT ![id] = key]
<1>1. /\ id \notin issued /\ ~Taken(secret, id) /\ Change(w, next) /\ issued' = issued \cup {id}
  BY DEF CreateUserKey, Created
<1>2. today \in Nat /\ charged \in [Ids -> Nat] /\ keys \in Tables
  BY KeysAreTables
<1>3. key \in Records /\ key.raw = secret /\ key.day = today /\ CountedOn(key, today) = 0
  <2>1. Unlimited \in Limits \cup {Unlimited}
    OBVIOUS
  <2>2. key \in Records /\ key.raw = secret /\ key.day = today /\ key.requests = 0
    BY <1>2, <2>1 DEF NewKey, Records
  <2> HIDE DEF key
  <2> QED BY <2>2, NoKeyIsNoRecord DEF CountedOn
<1> HIDE DEF key
<1>4. charged[id] = 0
  BY <1>1 DEF IInv, KeysInv, UndrawnIsUnused
<1>5. TableOK(keys, today, charged, issued')
  <2>1. issued \subseteq issued' /\ \A i \in Ids : charged[i] <= charged[i]
    BY <1>1, <1>2
  <2> QED BY <1>2, <2>1, TableStays DEF IInv, KeysInv, TablesOK
<1>6. TableOK(next, today, charged, issued')
  <2>1. id \in issued' /\ key.day <= today /\ CountedOn(key, today) <= charged[id]
    BY <1>1, <1>2, <1>3, <1>4
  <2>2. \A j \in Ids : j # id /\ keys[j] # NoKey => keys[j].raw # key.raw
    BY <1>1, <1>3 DEF Taken, Exists
  <2> QED BY <1>3, <1>5, <2>1, <2>2, TableWith
<1>7. restarted # today => \A i \in Ids : next[i] # NoKey => CountedOn(next[i], today) = charged[i]
  <2>1. next[id] = key /\ \A i \in Ids : i # id => next[i] = keys[i]
    BY <1>2 DEF Tables
  <2> QED BY <1>3, <1>4, <2>1 DEF IInv, KeysInv, CountIsExact, Exists
<1> QED BY <1>1, <1>6, <1>7, ChangeOK

LEMMA UpdateOK ==
  ASSUME IInv, NEW w \in Writers, NEW id \in Ids, NEW on \in BOOLEAN, NEW secret \in RawKeys, NEW limits \in Limits,
         UpdateUserKey(w, id, on, secret, limits), UNCHANGED <<charged, restarted>>
  PROVE  KeysInv'
<1> DEFINE key  == [keys[id] EXCEPT !.enabled = on, !.raw = secret, !.limits = limits]
           next == [keys EXCEPT ![id] = key]
<1>1. MayUpdate(id, secret) /\ Change(w, Updated(id, on, secret, limits)) /\ issued' = issued
  BY DEF UpdateUserKey
<1>2. Exists(id) /\ keys \in Tables /\ keys[id] \in Records /\ id \in issued
  BY <1>1, KeysAreTables DEF MayUpdate
<1>3. Updated(id, on, secret, limits) = next
  BY <1>2 DEF Updated, Tables
<1>4. /\ key \in Records /\ key.raw = secret /\ key.day = keys[id].day /\ key.requests = keys[id].requests
  BY <1>2 DEF Records
<1> HIDE DEF key
<1>5. CountedOn(key, today) = CountedOn(keys[id], today)
  BY <1>2, <1>4, NoKeyIsNoRecord DEF CountedOn
<1>6. TableOK(next, today, charged, issued)
  <2>1. \A j \in Ids : j # id /\ Exists(j) => keys[j].raw # key.raw
    BY <1>1, <1>2, <1>4, KeysAreTables DEF MayUpdate, Taken
  <2>2. key.day <= today /\ CountedOn(key, today) <= charged[id]
    BY <1>2, <1>4, <1>5, KeysAreTables
  <2> QED BY <1>2, <1>4, <2>1, <2>2, ChangedRecord
<1>7. restarted # today => \A i \in Ids : next[i] # NoKey => CountedOn(next[i], today) = charged[i]
  <2>1. next[id] = key /\ \A i \in Ids : i # id => next[i] = keys[i]
    BY <1>2 DEF Tables
  <2> QED BY <1>2, <1>5, <2>1 DEF IInv, KeysInv, CountIsExact, Exists
<1> QED BY <1>1, <1>3, <1>6, <1>7, ChangeOK

LEMMA DeleteOK ==
  ASSUME IInv, NEW w \in Writers, NEW id \in Ids, DeleteUserKey(w, id), UNCHANGED <<charged, restarted>>
  PROVE  KeysInv'
<1> DEFINE next == [keys EXCEPT ![id] = NoKey]
<1>1. Change(w, next) /\ issued' = issued
  BY DEF DeleteUserKey, Deleted
<1>2. TableOK(next, today, charged, issued)
  BY TableWithout DEF IInv, KeysInv, TablesOK
<1>3. restarted # today => \A i \in Ids : next[i] # NoKey => CountedOn(next[i], today) = charged[i]
  <2>1. next[id] = NoKey /\ \A i \in Ids : i # id => next[i] = keys[i]
    BY KeysAreTables DEF Tables
  <2> QED BY <2>1 DEF IInv, KeysInv, CountIsExact, Exists
<1> QED BY <1>1, <1>2, <1>3, ChangeOK

\* A refused update changes one record, which is then not claimed.
LEMMA RefuseOK ==
  ASSUME IInv, NEW w \in Writers, NEW id \in Ids, NEW on \in BOOLEAN, NEW secret \in RawKeys \cup {Nobody},
         RefuseUpdate(w, id, on, secret), UNCHANGED <<charged, restarted>>
  PROVE  KeysInv'
<1> DEFINE key == [keys[id] EXCEPT !.enabled = on]
<1>1. /\ Exists(id) /\ keys' = Switched(id, on) /\ unmarked' = unmarked \cup {id}
      /\ UNCHANGED <<today, dirty, written, snap, loaded, issued, charged, restarted>>
  BY DEF RefuseUpdate, MayNotUpdate
<1>2. keys \in Tables /\ keys[id] \in Records /\ id \in issued
  BY <1>1, KeysAreTables
<1>3. keys' = [keys EXCEPT ![id] = key]
  BY <1>1, <1>2 DEF Switched, Tables
<1>4. key \in Records /\ key.raw = keys[id].raw /\ key.day = keys[id].day /\ key.requests = keys[id].requests
  BY <1>2 DEF Records
<1> HIDE DEF key
<1>5. CountedOn(key, today) = CountedOn(keys[id], today)
  BY <1>2, <1>4, NoKeyIsNoRecord DEF CountedOn
<1>6. TableOK(keys', today, charged, issued)
  <2>1. \A j \in Ids : j # id /\ Exists(j) => keys[j].raw # key.raw
    BY <1>1, <1>2, <1>4, KeysAreTables
  <2>2. key.day <= today /\ CountedOn(key, today) <= charged[id]
    BY <1>1, <1>4, <1>5, KeysAreTables
  <2> QED BY <1>2, <1>3, <1>4, <2>1, <2>2, ChangedRecord
<1>7. TablesOK'
  BY <1>1, <1>6 DEF IInv, KeysInv, TablesOK
<1>8. keys'[id] = key /\ \A i \in Ids : i # id => keys'[i] = keys[i]
  BY <1>2, <1>3 DEF Tables
<1>9. FreshIsCurrent' /\ StoredIsCurrent'
  BY <1>1, <1>8 DEF IInv, KeysInv, FreshIsCurrent, StoredIsCurrent, Current
<1>10. UndrawnIsUnused'
  BY <1>1 DEF IInv, KeysInv, UndrawnIsUnused
<1>11. CountIsExact'
  <2> SUFFICES ASSUME restarted # today, NEW i \in Ids, keys'[i] # NoKey
               PROVE  CountedOn(keys'[i], today) = charged[i]
    BY <1>1 DEF CountIsExact, Exists
  <2> QED BY <1>1, <1>5, <1>8 DEF IInv, KeysInv, CountIsExact, Exists
<1> QED BY <1>7, <1>9, <1>10, <1>11 DEF KeysInv

-----------------------------------------------------------------------------
(* The store. *)
LEMMA TakePendingOK ==
  ASSUME IInv, NEW p \in Savers, TakePending(p), UNCHANGED countVars
  PROVE  KeysInv'
<1> USE DEF TakePending, countVars
<1>1. CASE dirty
  <2>1. /\ snap' = [snap EXCEPT ![p] = [keys |-> keys, fresh |-> TRUE]]
        /\ UNCHANGED <<keys, today, dirty, written, loaded, unmarked, issued, charged, restarted>>
    BY <1>1
  <2>2. \A q \in Savers : snap'[q] = IF q = p THEN [keys |-> keys, fresh |-> TRUE] ELSE snap[q]
    BY <2>1, KeysAreTables DEF Snapshots
  <2>3. TablesOK'
    BY <2>1, <2>2 DEF IInv, KeysInv, TablesOK
  <2>4. FreshIsCurrent' /\ StoredIsCurrent'
    BY <2>1, <2>2 DEF IInv, KeysInv, FreshIsCurrent, StoredIsCurrent, Current
  <2>5. UndrawnIsUnused' /\ CountIsExact'
    BY <2>1 DEF IInv, KeysInv, UndrawnIsUnused, CountIsExact, Exists
  <2> QED BY <2>3, <2>4, <2>5 DEF KeysInv
<1>2. CASE ~dirty
  BY <1>2, QuietOK
<1> QED BY <1>1, <1>2

\* A write brings the store a snapshot, and leaves the keys clean only when
\* nothing has been marked since the snapshot was taken.
LEMMA SaveOK ==
  ASSUME IInv, NEW p \in Savers, NEW ok \in BOOLEAN, NEW landed \in BOOLEAN, Save(p, ok, landed),
         UNCHANGED <<charged, restarted>>
  PROVE  KeysInv'
<1>1. /\ (ok => landed) /\ written' = (IF landed THEN snap[p].keys ELSE written)
      /\ dirty' = (~ok \/ ~snap[p].fresh)
      /\ snap' = [snap EXCEPT ![p] = NoSnapshot]
      /\ UNCHANGED <<keys, today, loaded, unmarked, issued, charged, restarted>>
  BY DEF Save, StillDirty
<1>2. \A q \in Savers : snap'[q] = IF q = p THEN NoSnapshot ELSE snap[q]
  BY <1>1, KeysAreTables DEF Snapshots
<1>3. NoSnapshot.keys = [i \in Ids |-> NoKey] /\ ~NoSnapshot.fresh
  BY DEF NoSnapshot
<1>4. TablesOK'
  BY <1>1, <1>2, <1>3, EmptyTable DEF IInv, KeysInv, TablesOK
<1>5. FreshIsCurrent'
  BY <1>1, <1>2, <1>3 DEF IInv, KeysInv, FreshIsCurrent, Current
<1>6. StoredIsCurrent'
  <2> SUFFICES ASSUME ~dirty' PROVE Current(written)'
    BY DEF StoredIsCurrent
  <2>1. ok /\ snap[p].fresh /\ written' = snap[p].keys
    BY <1>1
  <2>2. Current(snap[p].keys)
    BY <2>1 DEF IInv, KeysInv, FreshIsCurrent
  <2> QED BY <1>1, <2>1, <2>2 DEF Current
<1>7. UndrawnIsUnused' /\ CountIsExact'
  BY <1>1 DEF IInv, KeysInv, UndrawnIsUnused, CountIsExact, Exists
<1> QED BY <1>4, <1>5, <1>6, <1>7 DEF KeysInv

\* At the end of a day tables that agreed still agree.
LEMMA CurrentTomorrow ==
  ASSUME IInv, NextDay, NEW t, TableOK(t, today, charged, issued), Current(t)
  PROVE  \A i \in Ids \ unmarked : OnDay(t[i], today') = OnDay(keys'[i], today')
<1> SUFFICES ASSUME NEW i \in Ids \ unmarked PROVE OnDay(t[i], today + 1) = OnDay(keys[i], today + 1)
  BY DEF NextDay
<1>1. OnDay(t[i], today) = OnDay(keys[i], today)
  BY DEF Current
<1>2. t[i] \in AllKeys /\ keys[i] \in AllKeys /\ today \in Nat
  BY TableEntries, KeysAreTables DEF TableOK
<1>3. (t[i] # NoKey => t[i].day <= today) /\ (keys[i] # NoKey => keys[i].day <= today)
  BY KeysAreTables DEF TableOK, Covered, Exists
<1> QED BY <1>1, <1>2, <1>3, AgreeTomorrow

LEMMA MidnightOK ==
  ASSUME IInv, NextDay, charged' = [i \in Ids |-> 0], UNCHANGED restarted
  PROVE  KeysInv'
<1>1. /\ today' = today + 1 /\ today \in Nat
      /\ UNCHANGED <<keys, dirty, written, snap, loaded, unmarked, issued, restarted>>
  BY KeysAreTables DEF NextDay
<1>2. TablesOK'
  BY <1>1, TableTomorrow DEF IInv, KeysInv, TablesOK
<1>3. FreshIsCurrent'
  <2> SUFFICES ASSUME NEW p \in Savers, snap[p].fresh PROVE Current(snap[p].keys)'
    BY <1>1 DEF FreshIsCurrent
  <2>1. Current(snap[p].keys) /\ TableOK(snap[p].keys, today, charged, issued)
    BY DEF IInv, KeysInv, FreshIsCurrent, TablesOK
  <2>2. \A i \in Ids \ unmarked : OnDay(snap[p].keys[i], today') = OnDay(keys'[i], today')
    BY <2>1, CurrentTomorrow
  <2> QED BY <1>1, <2>2 DEF Current
<1>4. StoredIsCurrent'
  <2> SUFFICES ASSUME loaded, ~dirty PROVE Current(written)'
    BY <1>1 DEF StoredIsCurrent
  <2>1. Current(written) /\ TableOK(written, today, charged, issued)
    BY DEF IInv, KeysInv, StoredIsCurrent, TablesOK
  <2>2. \A i \in Ids \ unmarked : OnDay(written[i], today') = OnDay(keys'[i], today')
    BY <2>1, CurrentTomorrow
  <2> QED BY <1>1, <2>2 DEF Current
<1>5. UndrawnIsUnused'
  BY <1>1 DEF UndrawnIsUnused
<1>6. CountIsExact'
  <2> SUFFICES ASSUME NEW i \in Ids, Exists(i) PROVE CountedOn(keys[i], today + 1) = 0
    BY <1>1 DEF CountIsExact, Exists
  <2>1. keys[i] \in Records /\ keys[i].day <= today
    BY KeysAreTables
  <2> QED BY <1>1, <2>1 DEF CountedOn, Records
<1> QED BY <1>2, <1>3, <1>4, <1>5, <1>6 DEF KeysInv

\* A restart finds what the store holds, as of today.
LEMMA LoadedTable ==
  ASSUME IInv
  PROVE  TableOK([i \in Ids |-> Today(written[i])], today, charged, issued)
<1> DEFINE next == [i \in Ids |-> Today(written[i])]
<1>1. written \in Tables /\ DistinctSecrets(written) /\ Covered(written, today, charged, issued) /\ today \in Nat
  BY KeysAreTables DEF IInv, KeysInv, TablesOK, TableOK
<1>2. ASSUME NEW i \in Ids
      PROVE  \/ written[i] = NoKey /\ next[i] = NoKey
             \/ /\ written[i] \in Records /\ written[i] # NoKey /\ next[i] \in Records /\ next[i].raw = written[i].raw
                /\ next[i].day = today /\ CountedOn(next[i], today) = CountedOn(written[i], today)
  <2>1. next[i] = OnDay(written[i], today)
    BY TodayIsOnDay
  <2>2. CASE written[i] = NoKey
    BY <2>1, <2>2 DEF OnDay
  <2>3. CASE written[i] \in Records
    <3> HIDE DEF next
    <3>1. /\ next[i] \in Records /\ next[i].raw = written[i].raw /\ next[i].day = today
          /\ next[i].requests = CountedOn(written[i], today)
      BY <1>1, <2>1, <2>3, OnDayType
    <3> QED BY <2>3, <3>1, NoKeyIsNoRecord DEF CountedOn
  <2> QED BY <1>1, <2>2, <2>3, TableEntries DEF AllKeys
<1>3. next \in Tables
  BY <1>2 DEF Tables
<1> HIDE DEF next
<1>4. DistinctSecrets(next)
  <2> SUFFICES ASSUME NEW i \in Ids, NEW j \in Ids, i # j, next[i] # NoKey, next[j] # NoKey
               PROVE  next[i].raw # next[j].raw
    BY DEF DistinctSecrets
  <2>1. written[i] # NoKey /\ written[j] # NoKey /\ next[i].raw = written[i].raw /\ next[j].raw = written[j].raw
    BY <1>2
  <2> QED BY <1>1, <2>1 DEF DistinctSecrets
<1>5. Covered(next, today, charged, issued)
  <2> SUFFICES ASSUME NEW i \in Ids, next[i] # NoKey
               PROVE  i \in issued /\ next[i].day <= today /\ CountedOn(next[i], today) <= charged[i]
    BY DEF Covered
  <2>1. written[i] # NoKey /\ next[i].day = today /\ CountedOn(next[i], today) = CountedOn(written[i], today)
    BY <1>2
  <2> QED BY <1>1, <2>1 DEF Covered
<1> QED BY <1>3, <1>4, <1>5 DEF TableOK, next

LEMMA RestartOK ==
  ASSUME IInv, NEW read \in BOOLEAN, Restart(read), restarted' = today, UNCHANGED charged
  PROVE  KeysInv'
<1>1. /\ keys' = [i \in Ids |-> IF read THEN Today(written[i]) ELSE NoKey]
      /\ snap' = [p \in Savers |-> NoSnapshot] /\ loaded' = read /\ unmarked' = {}
      /\ UNCHANGED <<today, written, issued, charged>> /\ restarted' = today'
  BY DEF Restart
<1>2. TableOK(keys', today, charged, issued)
  <2>1. CASE read
    <3>1. keys' = [i \in Ids |-> Today(written[i])]
      BY <1>1, <2>1
    <3> QED BY <3>1, LoadedTable
  <2>2. CASE ~read
    <3>1. keys' = [i \in Ids |-> NoKey]
      BY <1>1, <2>2
    <3> QED BY <3>1, EmptyTable
  <2> QED BY <2>1, <2>2
<1>3. \A p \in Savers : snap'[p].keys = [i \in Ids |-> NoKey] /\ ~snap'[p].fresh
  BY <1>1 DEF NoSnapshot
<1>4. TablesOK'
  BY <1>1, <1>2, <1>3, EmptyTable DEF IInv, KeysInv, TablesOK
<1>5. FreshIsCurrent'
  BY <1>3 DEF FreshIsCurrent
<1>6. StoredIsCurrent'
  <2> SUFFICES ASSUME read, NEW i \in Ids PROVE OnDay(written[i], today) = OnDay(keys'[i], today)
    BY <1>1 DEF StoredIsCurrent, Current
  <2>1. keys'[i] = OnDay(written[i], today)
    BY <1>1, TodayIsOnDay
  <2>2. written[i] \in AllKeys /\ today \in Nat
    BY TableEntries, KeysAreTables DEF IInv, KeysInv, TablesOK, TableOK
  <2> QED BY <2>1, <2>2, OnDayOnce
<1>7. UndrawnIsUnused' /\ CountIsExact'
  BY <1>1 DEF IInv, KeysInv, UndrawnIsUnused, CountIsExact
<1> QED BY <1>4, <1>5, <1>6, <1>7 DEF KeysInv

-----------------------------------------------------------------------------
(* Types, and the whole next-state relation. *)
Places == {"idle", "wait", "debounce", "pending", "last", "lock", "save", "saveLast", "check", "done"}
RestOK ==
  /\ admins \subseteq RawKeys /\ dirty \in BOOLEAN /\ wake \in BOOLEAN /\ loaded \in BOOLEAN /\ failing \in BOOLEAN
  /\ saver \in Savers \cup {Nobody} /\ serving \in {"running", "closing", "closed"}
  /\ at \in [Savers -> Places] /\ unmarked \subseteq Ids /\ issued \subseteq Ids

LEMMA RestIsType ==
  TypeOK <=> /\ keys \in Tables /\ written \in Tables /\ snap \in Snapshots /\ RestOK /\ today \in Nat
             /\ charged \in [Ids -> Nat] /\ restarted \in 0 .. today /\ events \in 0 .. MaxEvents
BY DEF TypeOK, RestOK, Snapshots, Places

LEMMA KeysInit == Init => IInv
<1> SUFFICES ASSUME Init PROVE IInv
  OBVIOUS
<1>1. /\ keys = Stored /\ written = Stored /\ today = 1 /\ ~dirty /\ unmarked = {}
      /\ snap = [p \in Savers |-> NoSnapshot] /\ issued = {i \in Ids : Stored[i] # NoKey}
      /\ charged = [i \in Ids |-> CountedToday(Stored[i])] /\ restarted = 0
  BY DEF Init
<1>2. Stored \in Tables /\ DistinctSecrets(Stored) /\ \A i \in Ids : Stored[i] # NoKey => Stored[i].day <= 1
  BY TableConstants
<1>3. ASSUME NEW i \in Ids
      PROVE  charged[i] = CountedOn(Stored[i], today) /\ charged[i] \in Nat
  <2>1. Stored[i] \in AllKeys /\ today \in Nat
    BY <1>1, <1>2, TableEntries
  <2> QED BY <1>1, <2>1, CountedIsCountedOn, CountedType
<1>4. Covered(Stored, today, charged, issued)
  BY <1>1, <1>2, <1>3 DEF Covered
<1>5. \A p \in Savers : snap[p].keys = [i \in Ids |-> NoKey] /\ ~snap[p].fresh
  BY <1>1 DEF NoSnapshot
<1>6. KeysInv
  <2>1. TablesOK
    BY <1>1, <1>2, <1>4, <1>5, EmptyTable DEF TablesOK, TableOK
  <2>2. FreshIsCurrent /\ StoredIsCurrent
    BY <1>1, <1>5 DEF FreshIsCurrent, StoredIsCurrent, Current
  <2>3. UndrawnIsUnused
    BY <1>1, <1>3 DEF UndrawnIsUnused, CountedOn
  <2>4. CountIsExact
    BY <1>1, <1>3 DEF CountIsExact
  <2> QED BY <2>1, <2>2, <2>3, <2>4 DEF KeysInv
<1>7. snap \in [Savers -> [keys : Tables, fresh : BOOLEAN]]
  BY <1>1 DEF NoSnapshot, Tables
<1>8. charged \in [Ids -> Nat]
  BY <1>1, <1>3
<1>9. at \in [Savers -> Places]
  BY DEF Init, Places
<1>10. RestOK
  BY <1>1, <1>9, TableConstants DEF Init, RestOK
<1>11. events \in 0 .. MaxEvents
  BY TableConstants DEF Init
<1>12. TypeOK
  BY <1>1, <1>2, <1>7, <1>8, <1>10, <1>11, RestIsType DEF Snapshots
<1> QED BY <1>6, <1>12 DEF IInv

LEMMA KeysStep ==
  ASSUME IInv, Next
  PROVE  KeysInv'
<1>1. CASE Request
  <2>1. CASE \E secret \in RawKeys : Touch(secret) /\ Uncounted
    BY <2>1, TouchOK DEF Uncounted
  <2>2. CASE \E id \in Ids, call \in Calls :
               /\ charged[id] < MaxCharges /\ Refusal(id, call) = "nothing" /\ Charge(id, call)
               /\ charged' = [charged EXCEPT ![id] = @ + 1] /\ UNCHANGED <<restarted, events>>
    BY <2>2, ChargeOK
  <2> QED BY <1>1, <2>1, <2>2 DEF Request
<1>2. CASE Edit
  <2>1. UNCHANGED <<charged, restarted>>
    BY <1>2 DEF Edit
  <2>2. CASE \E next \in SUBSET RawKeys : UpdateAdminKeys(next)
    BY <2>1, <2>2, QuietOK DEF UpdateAdminKeys
  <2>3. ASSUME NEW w \in Writers, NEW id \in Ids,
               \/ \E secret \in RawKeys : CreateUserKey(w, id, secret)
               \/ \E secret \in RawKeys, on \in BOOLEAN, limits \in Limits : UpdateUserKey(w, id, on, secret, limits)
               \/ \E secret \in RawKeys \cup {Nobody}, on \in BOOLEAN : RefuseUpdate(w, id, on, secret)
               \/ DeleteUserKey(w, id)
        PROVE  KeysInv'
    BY <2>1, <2>3, CreateOK, UpdateOK, RefuseOK, DeleteOK
  <2> QED BY <1>2, <2>2, <2>3 DEF Edit
<1>3. CASE Persist
  <2>1. UNCHANGED countVars
    BY <1>3 DEF Persist, Uncounted
  <2>2. CASE WorkerStep \/ CloserStep \/ Close
    BY <2>1, <2>2, QuietOK
    DEF WorkerStep, CloserStep, Close, Wake, Debounced, Stopped, Flush, FlushAgain, Closed, countVars
  <2>3. CASE \E p \in Savers : TakeLock(p)
    BY <2>1, <2>3, QuietOK DEF TakeLock, countVars
  <2>4. CASE \E p \in Savers : TakePending(p)
    BY <2>1, <2>4, TakePendingOK
  <2>5. CASE \E p \in Savers : Save(p, TRUE, TRUE)
    BY <2>1, <2>5, SaveOK DEF countVars
  <2> QED BY <1>3, <2>2, <2>3, <2>4, <2>5 DEF Persist
<1>4. CASE WriteFails
  BY <1>4, SaveOK DEF WriteFails
<1>5. CASE Midnight
  BY <1>5, MidnightOK DEF Midnight
<1>6. CASE Start
  BY <1>6, RestartOK DEF Start
<1> QED BY <1>1, <1>2, <1>3, <1>4, <1>5, <1>6 DEF Next

LEMMA SnapshotsStay ==
  ASSUME IInv, Next
  PROVE  snap' \in Snapshots
<1> USE DEF Snapshots
<1>1. snap \in Snapshots /\ keys \in Tables
  BY KeysAreTables
<1>2. Marked \in Snapshots
  BY <1>1, MarkedOK
<1>3. keys' \in Tables
  BY KeysStep DEF KeysInv, TablesOK, TableOK
<1>4. NoSnapshot \in [keys : Tables, fresh : BOOLEAN]
  BY DEF NoSnapshot, Tables
<1>5. ASSUME NEW w, NEW next, Change(w, next) PROVE snap' \in Snapshots
  <2>1. snap' = [Marked EXCEPT ![w] = [keys |-> keys', fresh |-> TRUE]]
    BY <1>5 DEF Change
  <2> QED BY <1>2, <1>3, <2>1
<1>6. CASE Request
  BY <1>1, <1>2, <1>6 DEF Request, Touch, Charge
<1>7. CASE Edit
  BY <1>1, <1>5, <1>7 DEF Edit, CreateUserKey, UpdateUserKey, RefuseUpdate, DeleteUserKey, UpdateAdminKeys
<1>8. CASE Persist \/ WriteFails
  <2>1. ASSUME NEW p \in Savers, TakePending(p) PROVE snap' \in Snapshots
    <3>1. [keys |-> keys, fresh |-> TRUE] \in [keys : Tables, fresh : BOOLEAN]
      BY <1>1
    <3>2. snap' = snap \/ snap' = [snap EXCEPT ![p] = [keys |-> keys, fresh |-> TRUE]]
      BY <2>1 DEF TakePending
    <3> QED BY <1>1, <3>1, <3>2
  <2>2. ASSUME NEW p \in Savers, NEW ok, NEW landed, Save(p, ok, landed) PROVE snap' \in Snapshots
    BY <1>1, <1>4, <2>2 DEF Save
  <2>3. CASE (WorkerStep \/ CloserStep \/ Close) \/ \E p \in Savers : TakeLock(p)
    BY <1>1, <2>3 DEF TakeLock, WorkerStep, CloserStep, Close, Wake, Debounced, Stopped, Flush, FlushAgain, Closed
  <2> QED BY <1>8, <2>1, <2>2, <2>3 DEF Persist, WriteFails
<1>9. CASE Midnight \/ Start
  BY <1>1, <1>4, <1>9 DEF Midnight, NextDay, Start, Restart
<1> QED BY <1>6, <1>7, <1>8, <1>9 DEF Next

LEMMA RestStep ==
  ASSUME IInv, Next
  PROVE  RestOK'
<1>0. RestOK
  BY RestIsType DEF IInv
<1>1. ASSUME NEW secret, Touch(secret) PROVE RestOK'
  BY <1>0, <1>1 DEF RestOK, Touch, MarkDirty
<1>2. ASSUME NEW id, NEW call, Charge(id, call) PROVE RestOK'
  BY <1>0, <1>2 DEF RestOK, Charge, MarkDirty
<1>3. ASSUME NEW w, NEW next, Change(w, next), issued' \subseteq Ids PROVE RestOK'
  BY <1>0, <1>3 DEF RestOK, Change, MarkDirty, Places
<1>4. CASE Edit
  <2>1. ASSUME NEW w \in Writers, NEW id \in Ids, NEW on, NEW secret, RefuseUpdate(w, id, on, secret) PROVE RestOK'
    BY <1>0, <2>1 DEF RestOK, RefuseUpdate
  <2>2. ASSUME NEW next \in SUBSET RawKeys, UpdateAdminKeys(next) PROVE RestOK'
    BY <1>0, <2>2 DEF RestOK, UpdateAdminKeys
  <2>3. ASSUME NEW w \in Writers, NEW id \in Ids, NEW secret, CreateUserKey(w, id, secret) PROVE RestOK'
    BY <1>0, <1>3, <2>3 DEF RestOK, CreateUserKey
  <2>4. ASSUME NEW w \in Writers, NEW id \in Ids, NEW on, NEW secret, NEW limits, UpdateUserKey(w, id, on, secret, limits)
        PROVE  RestOK'
    BY <1>0, <1>3, <2>4 DEF RestOK, UpdateUserKey
  <2>5. ASSUME NEW w \in Writers, NEW id \in Ids, DeleteUserKey(w, id) PROVE RestOK'
    BY <1>0, <1>3, <2>5 DEF RestOK, DeleteUserKey
  <2> QED BY <1>4, <2>1, <2>2, <2>3, <2>4, <2>5 DEF Edit
<1>5. CASE WorkerStep \/ CloserStep \/ Close
  BY <1>0, <1>5 DEF RestOK, Places, WorkerStep, CloserStep, Close, Wake, Debounced, Stopped, Flush, FlushAgain, Closed
<1>6. ASSUME NEW p \in Savers, TakePending(p) PROVE RestOK'
  BY <1>0, <1>6 DEF RestOK, TakePending, AfterPending, Places
<1>7. ASSUME NEW p \in Savers, TakeLock(p) PROVE RestOK'
  BY <1>0, <1>7 DEF RestOK, TakeLock, Places
<1>8. ASSUME NEW p \in Savers, NEW ok \in BOOLEAN, NEW landed, Save(p, ok, landed) PROVE RestOK'
  <2>1. dirty' \in BOOLEAN /\ wake' \in BOOLEAN /\ failing' \in BOOLEAN
    BY <1>0, <1>8 DEF RestOK, Save, StillDirty, SignalAfter
  <2>2. AfterSave(p, ok) \in Places
    BY DEF AfterSave, AfterPending, Places
  <2>3. at' \in [Savers -> Places] /\ saver' \in Savers \cup {Nobody}
    BY <1>0, <1>8, <2>2 DEF RestOK, Save
  <2> QED BY <1>0, <1>8, <2>1, <2>3 DEF RestOK, Save
<1>9. CASE NextDay
  BY <1>0, <1>9 DEF RestOK, NextDay
<1>10. ASSUME NEW read \in BOOLEAN, Restart(read) PROVE RestOK'
  <2>1. at' \in [Savers -> Places]
    BY <1>10 DEF Restart, Places
  <2> QED BY <1>0, <1>10, <2>1, TableConstants DEF RestOK, Restart
<1>11. CASE Request
  BY <1>1, <1>2, <1>11 DEF Request
<1>12. CASE Persist \/ WriteFails
  BY <1>5, <1>6, <1>7, <1>8, <1>12 DEF Persist, WriteFails
<1>13. CASE Midnight \/ Start
  BY <1>9, <1>10, <1>13 DEF Midnight, Start
<1> QED BY <1>4, <1>11, <1>12, <1>13 DEF Next

\* The day only changes at midnight.
LEMMA DayStep ==
  ASSUME IInv, Next
  PROVE  today' \in Nat /\ restarted' \in 0 .. today'
<1>0. today \in Nat /\ restarted \in 0 .. today
  BY DEF IInv, TypeOK
<1>1. CASE Midnight
  BY <1>0, <1>1 DEF Midnight, NextDay
<1>2. CASE Start
  BY <1>0, <1>2 DEF Start, Restart
<1>3. CASE Request
  BY <1>0, <1>3 DEF Request, Touch, Charge, Uncounted, countVars
<1>4. CASE Edit
  BY <1>0, <1>4 DEF Edit, CreateUserKey, UpdateUserKey, DeleteUserKey, Change, RefuseUpdate, UpdateAdminKeys
<1>5. CASE Persist \/ WriteFails
  <2>1. restarted' = restarted
    BY <1>5 DEF Persist, WriteFails, Uncounted, countVars
  <2>2. today' = today
    BY <1>5 DEF Persist, WriteFails, TakePending, TakeLock, Save, WorkerStep, CloserStep, Close, Wake, Debounced, Stopped,
       Flush, FlushAgain, Closed
  <2> QED BY <1>0, <2>1, <2>2
<1> QED BY <1>1, <1>2, <1>3, <1>4, <1>5 DEF Next

LEMMA TypeStep ==
  ASSUME IInv, Next
  PROVE  TypeOK'
<1>0. charged \in [Ids -> Nat] /\ events \in 0 .. MaxEvents /\ MaxEvents \in Nat
  BY TableConstants DEF IInv, TypeOK
<1>1. keys' \in Tables /\ written' \in Tables /\ snap' \in Snapshots
  BY KeysStep, SnapshotsStay DEF KeysInv, TablesOK, TableOK
<1>2. charged' \in [Ids -> Nat]
  <2>1. \/ charged' = charged \/ charged' = [i \in Ids |-> 0]
        \/ \E id \in Ids : charged' = [charged EXCEPT ![id] = @ + 1]
    BY DEF Next, Request, Edit, Persist, WriteFails, Midnight, Start, Uncounted, countVars
  <2> QED BY <1>0, <2>1
<1>3. events' \in 0 .. MaxEvents
  <2>1. events' = events \/ Event
    BY DEF Next, Request, Edit, Persist, WriteFails, Midnight, Start, Uncounted, countVars
  <2> QED BY <1>0, <2>1 DEF Event
<1>4. RestOK' /\ today' \in Nat /\ restarted' \in 0 .. today'
  BY RestStep, DayStep
<1> QED BY <1>1, <1>2, <1>3, <1>4 DEF TypeOK, RestOK, Snapshots, Places

THEOREM KeysInvariant == Spec => []IInv
<1>1. IInv /\ [Next]_vars => IInv'
  <2> SUFFICES ASSUME IInv, [Next]_vars PROVE IInv'
    OBVIOUS
  <2>1. CASE Next
    BY <2>1, KeysStep, TypeStep DEF IInv
  <2>2. CASE UNCHANGED vars
    <3>1. KeysInv'
      BY <2>2, QuietOK DEF vars, storeVars, countVars
    <3>2. TypeOK'
      BY <2>2 DEF IInv, TypeOK, vars, storeVars, countVars
    <3> QED BY <3>1, <3>2 DEF IInv
  <2> QED BY <2>1, <2>2
<1> QED BY KeysInit, <1>1, PTL DEF Spec

(* The counter of every key, the flags and the places always have their    *)
(* types.                                                                  *)
THEOREM KeysTypeCorrect == Spec => []TypeOK
<1>1. IInv => TypeOK
  BY DEF IInv
<1> QED BY <1>1, KeysInvariant, PTL

(* The revision check of saveSnapshot: keys that are not dirty are in the  *)
(* store, whatever administrators, the loop and Close write meanwhile and  *)
(* in whatever order their writes arrive.                                  *)
THEOREM CleanKeysAreStored == Spec => []CleanMeansStored
<1>1. IInv => CleanMeansStored
  BY TodayIsOnDay DEF IInv, KeysInv, StoredIsCurrent, Current, CleanMeansStored
<1> QED BY <1>1, KeysInvariant, PTL

(* A user's counter of today is the number of calls charged today, unless  *)
(* the program was started today, and never more than that.                *)
THEOREM UsageIsExact == Spec => []UsageIsWhatWasCharged
<1>1. ASSUME IInv PROVE UsageIsWhatWasCharged
  <2>1. keys \in Tables /\ today \in Nat
    BY <1>1 DEF IInv, TypeOK
  <2>2. \A i \in Ids : CountedToday(keys[i]) = CountedOn(keys[i], today)
    BY <2>1, TableEntries, CountedIsCountedOn
  <2>3. \A i \in Ids : Exists(i) => CountedOn(keys[i], today) <= charged[i]
    BY <1>1 DEF IInv, KeysInv, TablesOK, TableOK, Covered, Exists
  <2>4. restarted # today => \A i \in Ids : Exists(i) => CountedOn(keys[i], today) = charged[i]
    BY <1>1 DEF IInv, KeysInv, CountIsExact
  <2> QED BY <2>2, <2>3, <2>4 DEF UsageIsWhatWasCharged
<1>2. IInv => UsageIsWhatWasCharged
  BY <1>1
<1> QED BY <1>2, KeysInvariant, PTL

(* No secret belongs to two users, in memory or in the store, although an  *)
(* update compares it with the keys in memory only.                        *)
THEOREM SecretsAreUnique == Spec => []OneKeyOneUser
<1>1. IInv => OneKeyOneUser
  BY DEF IInv, KeysInv, TablesOK, TableOK, OneKeyOneUser
<1> QED BY <1>1, KeysInvariant, PTL

-----------------------------------------------------------------------------
(* CALLS.  A set of naturals has a least element.                          *)
LEMMA LeastNatural ==
  ASSUME NEW T, T \subseteq Nat, T # {}
  PROVE  \E x \in T : \A y \in T : x <= y
<1>1. PICK x \in T : \A y \in T : ~ (<<y, x>> \in OpToRel(<, Nat))
  BY WFMin, NatLessThanWellFounded, Zenon
<1>2. ASSUME NEW y \in T PROVE x <= y
  <2>1. ~ (y < x)
    BY <1>1 DEF OpToRel
  <2> QED BY <2>1
<1> QED BY <1>2

\* What is left of a history is a history of the same calls, no longer.
LEMMA WithoutIsHistory ==
  ASSUME NEW S, NEW history \in Seq(S), NEW requests
  PROVE  Without(history, requests) \in Seq(S) /\ Len(Without(history, requests)) <= Len(history)
<1> DEFINE N == Len(history)
           Body(f, n) == IF n = 0 THEN <<>>
                         ELSE IF history[n].request \in requests THEN f[n - 1] ELSE Append(f[n - 1], history[n])
           Upto(m) == \E f : f = [n \in 0 .. m |-> Body(f, n)]
           Bad == {m \in 0 .. N : ~Upto(m)}
<1>0. N \in Nat /\ history \in [1 .. N -> S]
  BY LenProperties
<1>1. Upto(0)
  <2>1. [n \in 0 .. 0 |-> <<>>] = [n \in 0 .. 0 |-> Body([k \in 0 .. 0 |-> <<>>], n)]
    OBVIOUS
  <2> QED BY <2>1
<1>2. ASSUME NEW m \in 0 .. N, m # 0, Upto(m - 1)
      PROVE  Upto(m)
  <2>1. PICK f : f = [n \in 0 .. m - 1 |-> Body(f, n)]
    BY <1>2
  <2> DEFINE g == [n \in 0 .. m |-> IF n = m THEN Body(f, m) ELSE f[n]]
  <2>2. ASSUME NEW n \in 0 .. m PROVE g[n] = Body(g, n)
    <3>1. n # 0 => g[n - 1] = f[n - 1]
      BY <1>0
    <3>2. CASE n = m
      <4>1. g[n] = Body(f, m) /\ g[m - 1] = f[m - 1]
        BY <3>1, <3>2, <1>2
      <4> HIDE DEF g
      <4> QED BY <4>1, <3>2, <1>2
    <3>3. CASE n # m
      <4>1. n \in 0 .. m - 1 /\ g[n] = f[n] /\ (n # 0 => g[n - 1] = f[n - 1])
        BY <1>0, <3>1, <3>3
      <4>2. f[n] = Body(f, n)
        <5> HIDE DEF Body
        <5> QED BY <2>1, <4>1
      <4> HIDE DEF g
      <4> QED BY <4>1, <4>2, Zenon
    <3> QED BY <3>2, <3>3
  <2>3. g = [n \in 0 .. m |-> Body(g, n)]
    <3> HIDE DEF Body
    <3>1. g = [n \in 0 .. m |-> g[n]]
      OBVIOUS
    <3> HIDE DEF g
    <3> QED BY <3>1, <2>2
  <2> HIDE DEF g, Body
  <2> QED BY <2>3
<1>3. Bad = {}
  <2> SUFFICES ASSUME Bad # {} PROVE FALSE
    OBVIOUS
  <2> HIDE DEF Upto
  <2>1. Bad \subseteq Nat
    BY <1>0
  <2>2. PICK m \in Bad : \A y \in Bad : m <= y
    BY <2>1, LeastNatural
  <2>3. m # 0 /\ m - 1 \in 0 .. N
    BY <1>0, <1>1, <2>2
  <2>4. Upto(m - 1)
    BY <2>1, <2>2, <2>3
  <2> QED BY <1>2, <2>2, <2>3, <2>4
<1> DEFINE rest == CHOOSE f : f = [n \in 0 .. N |-> Body(f, n)]
<1>4. rest = [n \in 0 .. N |-> Body(rest, n)]
  <2>1. Upto(N)
    BY <1>0, <1>3
  <2> HIDE DEF Body
  <2> QED BY <2>1
<1>5. Without(history, requests) = rest[N]
  BY DEF Without
<1> HIDE DEF rest, Upto
<1> DEFINE Wrong == {n \in 0 .. N : ~ (rest[n] \in Seq(S) /\ Len(rest[n]) <= n)}
<1>6. rest[0] = <<>> /\ \A n \in 1 .. N : rest[n] = IF history[n].request \in requests THEN rest[n - 1]
                                                     ELSE Append(rest[n - 1], history[n])
  <2>1. \A n \in 0 .. N : rest[n] = Body(rest, n)
    <3> HIDE DEF Body
    <3> QED BY <1>4
  <2>2. \A n \in 1 .. N : n \in 0 .. N /\ n # 0
    BY <1>0
  <2> HIDE DEF N
  <2>3. 0 \in 0 .. N
    BY <1>0
  <2> QED BY <2>1, <2>2, <2>3, Zenon
<1>7. Wrong = {}
  <2> SUFFICES ASSUME Wrong # {} PROVE FALSE
    OBVIOUS
  <2>1. PICK m \in Wrong : \A y \in Wrong : m <= y
    <3>1. Wrong \subseteq Nat
      BY <1>0
    <3> QED BY <3>1, LeastNatural
  <2>2. m # 0
    BY <1>6, <2>1, EmptySeq
  <2>3. rest[m - 1] \in Seq(S) /\ Len(rest[m - 1]) <= m - 1 /\ m \in 1 .. N
    BY <1>0, <2>1, <2>2
  <2>4. history[m] \in S
    BY <1>0, <2>3
  <2>5. /\ Append(rest[m - 1], history[m]) \in Seq(S) /\ Len(rest[m - 1]) \in Nat
        /\ Len(Append(rest[m - 1], history[m])) = Len(rest[m - 1]) + 1
    BY <2>3, <2>4, AppendProperties, LenProperties
  <2>6. rest[m] \in Seq(S) /\ Len(rest[m]) <= m
    <3>1. rest[m] = rest[m - 1] \/ rest[m] = Append(rest[m - 1], history[m])
      BY <1>6, <2>3
    <3>2. m \in Nat
      BY <1>0, <2>3
    <3> HIDE DEF Wrong
    <3>3. ASSUME NEW h \in {rest[m - 1], Append(rest[m - 1], history[m])} PROVE h \in Seq(S) /\ Len(h) <= m
      <4>1. CASE h = rest[m - 1]
        <5>1. h \in Seq(S) /\ Len(h) <= m - 1 /\ Len(h) \in Nat
          BY <2>3, <2>5, <4>1
        <5> QED BY <5>1, <3>2
      <4>2. CASE h = Append(rest[m - 1], history[m])
        BY <2>3, <2>5, <3>2, <4>2
      <4> QED BY <4>1, <4>2
    <3> QED BY <3>1, <3>3, Zenon
  <2> QED BY <2>1, <2>6
<1> QED BY <1>0, <1>5, <1>7

\* The newest calls with one more.
LEMMA NewestIsHistory ==
  ASSUME NEW S, NEW history \in Seq(S), Len(history) <= MaxEntries, NEW call \in S
  PROVE  LET next == Newest(Append(history, call)) IN next \in Seq(S) /\ Len(next) <= MaxEntries
<1> DEFINE longer == Append(history, call)
<1>1. /\ longer \in Seq(S) /\ Len(longer) = Len(history) + 1 /\ Len(history) \in Nat /\ MaxEntries \in Nat
      /\ \A i \in 1 .. Len(longer) : longer[i] \in S
  BY AppendProperties, LenProperties, ElementOfSeq, MetricConstants
<1> HIDE DEF longer
<1> DEFINE last == SubSeq(longer, Len(longer) - MaxEntries + 1, Len(longer))
<1>2. CASE Len(longer) > MaxEntries
  <2>1. last \in Seq(S) /\ Len(last) = MaxEntries
    BY <1>1, <1>2, SubSeqProperties
  <2> QED BY <1>1, <1>2, <2>1 DEF Newest, longer
<1>3. CASE ~ (Len(longer) > MaxEntries)
  BY <1>1, <1>3 DEF Newest, longer
<1> QED BY <1>2, <1>3

-----------------------------------------------------------------------------
(* What an error is answered with.                                         *)
IsQuotaRefusal(quota) == quota.refused \in Refusals

\* Rules answer with the answer of one that applies, or with the other one.
LEMMA FirstAnswerIsAnAnswer ==
  ASSUME NEW rules, NEW otherwise, Len(rules) \in Nat
  PROVE  \/ FirstAnswer(rules, otherwise) = otherwise /\ \A i \in 1 .. Len(rules) : ~rules[i].when
         \/ \E i \in 1 .. Len(rules) : rules[i].when /\ FirstAnswer(rules, otherwise) = rules[i].answer
<1> DEFINE I == {i \in 1 .. Len(rules) : rules[i].when}
           n == SelectInSeq(rules, LAMBDA r : r.when)
<1>1. n = IF I # {} THEN Min(I) ELSE 0
  BY DEF SelectInSeq
<1>2. FirstAnswer(rules, otherwise) = IF n = 0 THEN otherwise ELSE rules[n].answer
  BY DEF FirstAnswer
<1> HIDE DEF n
<1>3. CASE I = {}
  BY <1>1, <1>2, <1>3
<1>4. CASE I # {}
  <2>1. I \subseteq Nat
    OBVIOUS
  <2>2. \E x \in I : \A y \in I : x <= y
    BY <1>4, <2>1, LeastNatural
  <2>3. Min(I) \in I
    BY <2>2 DEF Min
  <2>4. n \in 1 .. Len(rules) /\ rules[n].when
    BY <1>1, <1>4, <2>3
  <2>5. FirstAnswer(rules, otherwise) = rules[n].answer
    BY <1>2, <2>4
  <2> QED BY <2>4, <2>5
<1> QED BY <1>3, <1>4

\* An answer in the program's own words that asks for another try is not put
\* down to the caller.
Blamed == RejectedCodes \cup {"", "request_canceled", "content_policy_violation"}
Tells(info) ==
  /\ info.retryable \in BOOLEAN /\ info.own \in BOOLEAN
  /\ info.retryable /\ ~info.own =>
       /\ info.code \notin Blamed /\ info.words = {}
       /\ info.status \in Int /\ info.status >= 400 /\ info.status # 499

LEMMA InfoTells ==
  ASSUME NEW code, NEW category, NEW retryable \in BOOLEAN, NEW status,
         retryable => code \notin Blamed /\ status \in Int /\ status >= 400 /\ status # 499
  PROVE  Tells(Info(code, category, retryable, status))
BY DEF Tells, Info

\* The answers of the rules: try again, or do not.
Again(code, category, status) == Info(code, category, TRUE, status)
Refuse(code, category, status) == Info(code, category, FALSE, status)
RequestAnswers ==
  {Refuse("request_canceled", "canceled", 499),
   Refuse("request_body_incomplete", "request", 400),
   Refuse("request_body_too_large", "request", 413),
   Refuse("reference_image_required", "request", 400),
   Again("image_quota_exhausted", "capacity", 429)}
ImageAnswers ==
  {Refuse("content_policy_violation", "policy", 400),
   Again("image_generation_failed", "service", 502),
   Again("image_generation_stalled", "service", 429),
   Again("image_generation_timeout", "service", 429),
   Again("image_upload_timeout", "service", 504),
   Again("image_preparation_timeout", "service", 504),
   Again("service_timeout", "service", 504),
   Again("image_session_failed", "service", 502),
   Again("interactive_challenge_required", "service", 428),
   Again("account_pool_unavailable", "capacity", 429)}
TextAnswers ==
  {Refuse("invalid_output_format", "request", 400),
   Refuse("prompt_required", "request", 400),
   Refuse("reference_image_invalid", "request", 400),
   Again("task_queue_full", "capacity", 429),
   Again("service_restarted", "system", 503),
   Again("image_result_unavailable", "service", 502)}
UpstreamAnswers ==
  {Again("image_upload_failed", "service", 502),
   Again("service_rate_limited", "service", 429),
   Again("service_timeout", "service", 504),
   Again("service_busy", "service", 503),
   Again("service_error", "service", 502)}
FallbackAnswers ==
  {Refuse("invalid_request", "request", 400),
   Refuse("api_key_invalid", "request", 401),
   Refuse("request_not_allowed", "request", 403),
   Refuse("resource_not_found", "request", 404),
   Again("request_rate_limited", "capacity", 429),
   Again("internal_error", "system", 500),
   Again("service_unavailable", "system", 503),
   Again("service_timeout", "service", 504),
   Again("service_error", "service", 502)}

LEMMA FixedAnswersTell ==
  \A answers \in {RequestAnswers, ImageAnswers, TextAnswers, UpstreamAnswers, FallbackAnswers} :
    \A info \in answers : Tells(info)
<1>1. \A info \in RequestAnswers : Tells(info)
  <2>1. /\ Tells(Refuse("request_canceled", "canceled", 499))
        /\ Tells(Refuse("request_body_incomplete", "request", 400))
        /\ Tells(Refuse("request_body_too_large", "request", 413))
        /\ Tells(Refuse("reference_image_required", "request", 400))
        /\ Tells(Again("image_quota_exhausted", "capacity", 429))
    BY DEF Tells, Again, Refuse, Info, Blamed, RejectedCodes
  <2> QED BY <2>1 DEF RequestAnswers
<1>2. \A info \in ImageAnswers : Tells(info)
  <2>1. /\ Tells(Refuse("content_policy_violation", "policy", 400))
        /\ Tells(Again("image_generation_failed", "service", 502))
        /\ Tells(Again("image_generation_stalled", "service", 429))
        /\ Tells(Again("image_generation_timeout", "service", 429))
        /\ Tells(Again("image_upload_timeout", "service", 504))
        /\ Tells(Again("image_preparation_timeout", "service", 504))
        /\ Tells(Again("service_timeout", "service", 504))
        /\ Tells(Again("image_session_failed", "service", 502))
        /\ Tells(Again("interactive_challenge_required", "service", 428))
        /\ Tells(Again("account_pool_unavailable", "capacity", 429))
    BY DEF Tells, Again, Refuse, Info, Blamed, RejectedCodes
  <2> QED BY <2>1 DEF ImageAnswers
<1>3. \A info \in TextAnswers : Tells(info)
  <2>1. /\ Tells(Refuse("invalid_output_format", "request", 400))
        /\ Tells(Refuse("prompt_required", "request", 400))
        /\ Tells(Refuse("reference_image_invalid", "request", 400))
        /\ Tells(Again("task_queue_full", "capacity", 429))
        /\ Tells(Again("service_restarted", "system", 503))
        /\ Tells(Again("image_result_unavailable", "service", 502))
    BY DEF Tells, Again, Refuse, Info, Blamed, RejectedCodes
  <2> QED BY <2>1 DEF TextAnswers
<1>4. \A info \in UpstreamAnswers : Tells(info)
  <2>1. /\ Tells(Again("image_upload_failed", "service", 502))
        /\ Tells(Again("service_rate_limited", "service", 429))
        /\ Tells(Again("service_timeout", "service", 504))
        /\ Tells(Again("service_busy", "service", 503))
        /\ Tells(Again("service_error", "service", 502))
    BY DEF Tells, Again, Refuse, Info, Blamed, RejectedCodes
  <2> QED BY <2>1 DEF UpstreamAnswers
<1>5. \A info \in FallbackAnswers : Tells(info)
  <2>1. /\ Tells(Refuse("invalid_request", "request", 400))
        /\ Tells(Refuse("api_key_invalid", "request", 401))
        /\ Tells(Refuse("request_not_allowed", "request", 403))
        /\ Tells(Refuse("resource_not_found", "request", 404))
        /\ Tells(Again("request_rate_limited", "capacity", 429))
        /\ Tells(Again("internal_error", "system", 500))
        /\ Tells(Again("service_unavailable", "system", 503))
        /\ Tells(Again("service_timeout", "service", 504))
        /\ Tells(Again("service_error", "service", 502))
    BY DEF Tells, Again, Refuse, Info, Blamed, RejectedCodes
  <2> QED BY <2>1 DEF FallbackAnswers
<1> QED BY <1>1, <1>2, <1>3, <1>4, <1>5

LEMMA RulesTell ==
  ASSUME NEW e
  PROVE  \A rules \in {RequestRules(e), ImageRules(e), TextRules(e)} :
           Len(rules) \in Nat /\ \A i \in 1 .. Len(rules) : Tells(rules[i].answer)
<1>1. /\ Len(RequestRules(e)) = 5
      /\ RequestRules(e)[1].answer \in RequestAnswers
      /\ RequestRules(e)[2].answer \in RequestAnswers
      /\ RequestRules(e)[3].answer \in RequestAnswers
      /\ RequestRules(e)[4].answer \in RequestAnswers
      /\ RequestRules(e)[5].answer \in RequestAnswers
  <2> USE DEF RequestRules, Rule, RequestAnswers, Again, Refuse
  <2>1. Len(RequestRules(e)) = 5
    OBVIOUS
  <2>2. RequestRules(e)[1].answer \in RequestAnswers
    OBVIOUS
  <2>3. RequestRules(e)[2].answer \in RequestAnswers
    OBVIOUS
  <2>4. RequestRules(e)[3].answer \in RequestAnswers
    OBVIOUS
  <2>5. RequestRules(e)[4].answer \in RequestAnswers
    OBVIOUS
  <2>6. RequestRules(e)[5].answer \in RequestAnswers
    OBVIOUS
  <2> QED BY <2>1, <2>2, <2>3, <2>4, <2>5, <2>6
<1>2. /\ Len(ImageRules(e)) = 10
      /\ ImageRules(e)[1].answer \in ImageAnswers /\ ImageRules(e)[2].answer \in ImageAnswers
      /\ ImageRules(e)[3].answer \in ImageAnswers /\ ImageRules(e)[4].answer \in ImageAnswers
      /\ ImageRules(e)[5].answer \in ImageAnswers /\ ImageRules(e)[6].answer \in ImageAnswers
      /\ ImageRules(e)[7].answer \in ImageAnswers /\ ImageRules(e)[8].answer \in ImageAnswers
      /\ ImageRules(e)[9].answer \in ImageAnswers /\ ImageRules(e)[10].answer \in ImageAnswers
  <2> USE DEF ImageRules, Rule, ImageAnswers, Again, Refuse
  <2>1. Len(ImageRules(e)) = 10
    OBVIOUS
  <2>2. ImageRules(e)[1].answer \in ImageAnswers
    OBVIOUS
  <2>3. ImageRules(e)[2].answer \in ImageAnswers
    OBVIOUS
  <2>4. ImageRules(e)[3].answer \in ImageAnswers
    OBVIOUS
  <2>5. ImageRules(e)[4].answer \in ImageAnswers
    OBVIOUS
  <2>6. ImageRules(e)[5].answer \in ImageAnswers
    OBVIOUS
  <2>7. ImageRules(e)[6].answer \in ImageAnswers
    OBVIOUS
  <2>8. ImageRules(e)[7].answer \in ImageAnswers
    OBVIOUS
  <2>9. ImageRules(e)[8].answer \in ImageAnswers
    OBVIOUS
  <2>10. ImageRules(e)[9].answer \in ImageAnswers
    OBVIOUS
  <2>11. ImageRules(e)[10].answer \in ImageAnswers
    OBVIOUS
  <2> QED BY <2>1, <2>2, <2>3, <2>4, <2>5, <2>6, <2>7, <2>8, <2>9, <2>10, <2>11
<1>3. /\ Len(TextRules(e)) = 6
      /\ TextRules(e)[1].answer \in TextAnswers
      /\ TextRules(e)[2].answer \in TextAnswers
      /\ TextRules(e)[3].answer \in TextAnswers
      /\ TextRules(e)[4].answer \in TextAnswers
      /\ TextRules(e)[5].answer \in TextAnswers
      /\ TextRules(e)[6].answer \in TextAnswers
  <2> USE DEF TextRules, Rule, TextAnswers, Again, Refuse
  <2>1. Len(TextRules(e)) = 6
    OBVIOUS
  <2>2. TextRules(e)[1].answer \in TextAnswers
    OBVIOUS
  <2>3. TextRules(e)[2].answer \in TextAnswers
    OBVIOUS
  <2>4. TextRules(e)[3].answer \in TextAnswers
    OBVIOUS
  <2>5. TextRules(e)[4].answer \in TextAnswers
    OBVIOUS
  <2>6. TextRules(e)[5].answer \in TextAnswers
    OBVIOUS
  <2>7. TextRules(e)[6].answer \in TextAnswers
    OBVIOUS
  <2> QED BY <2>1, <2>2, <2>3, <2>4, <2>5, <2>6, <2>7
<1>4. /\ \A i \in 1 .. 5 : i \in {1, 2, 3, 4, 5}
      /\ \A i \in 1 .. 6 : i \in {1, 2, 3, 4, 5, 6}
      /\ \A i \in 1 .. 10 : i \in {1, 2, 3, 4, 5, 6, 7, 8, 9, 10}
  OBVIOUS
<1>5. /\ \A i \in {1, 2, 3, 4, 5} : RequestRules(e)[i].answer \in RequestAnswers
      /\ \A i \in {1, 2, 3, 4, 5, 6, 7, 8, 9, 10} : ImageRules(e)[i].answer \in ImageAnswers
      /\ \A i \in {1, 2, 3, 4, 5, 6} : TextRules(e)[i].answer \in TextAnswers
  BY <1>1, <1>2, <1>3
<1>6. /\ \A i \in 1 .. 5 : Tells(RequestRules(e)[i].answer)
      /\ \A i \in 1 .. 10 : Tells(ImageRules(e)[i].answer)
      /\ \A i \in 1 .. 6 : Tells(TextRules(e)[i].answer)
  BY <1>4, <1>5, FixedAnswersTell
<1> QED BY <1>1, <1>2, <1>3, <1>6

LEMMA FallbackAnswersFixed == ASSUME NEW hint PROVE Fallback(hint) \in FallbackAnswers
BY DEF Fallback, FallbackAnswers, Again, Refuse

\* What the classification reads of an error and its text does not decide.
ErrorOK(e) ==
  /\ e.quota = NoQuota \/ IsQuotaRefusal(e.quota)
  /\ e.status \in Int /\ (e.status > 0 => e.status >= 400 /\ e.status # 499)
  /\ e.body.kind = "json" => e.body.retryable \in {"unset", "no", "yes"}

\* An answer without a body of its own is read by its status.
LEMMA StatusOfUpstream ==
  ASSUME NEW e, NEW hint, e.status \in Int, ~(e.body.kind = "json"), ~e.files
  PROVE  /\ e.status = 429 => ClassifyUpstream(e, hint) = Again("service_rate_limited", "service", 429)
         /\ e.status \in {408, 504} => ClassifyUpstream(e, hint) = Again("service_timeout", "service", 504)
         /\ e.status = 503 => ClassifyUpstream(e, hint) = Again("service_busy", "service", 503)
         /\ e.status >= 500 /\ e.status \notin {503, 504} =>
              ClassifyUpstream(e, hint) = Again("service_error", "service", 502)
         /\ e.status \notin {408, 429, 503, 504} /\ ~(e.status >= 500) => ClassifyUpstream(e, hint) = Fallback(hint)
<1>1. ASSUME e.status = 429
      PROVE  ClassifyUpstream(e, hint) = Again("service_rate_limited", "service", 429)
  <2>1. e.status = 429 /\ ~(e.status \in {408, 504}) /\ ~(e.status = 503) /\ ~(e.status >= 500 /\ e.status \notin {503, 504})
    BY <1>1
  <2>2. ClassifyUpstream(e, hint) = Info("service_rate_limited", "service", TRUE, 429)
    BY <2>1 DEF ClassifyUpstream
  <2> QED BY <2>2, Zenon DEF Again
<1>2. ASSUME e.status \in {408, 504}
      PROVE  ClassifyUpstream(e, hint) = Again("service_timeout", "service", 504)
  <2>1. ~(e.status = 429) /\ e.status \in {408, 504} /\ ~(e.status = 503) /\ ~(e.status >= 500 /\ e.status \notin {503, 504})
    BY <1>2
  <2>2. ClassifyUpstream(e, hint) = Info("service_timeout", "service", TRUE, 504)
    BY <2>1, Zenon DEF ClassifyUpstream
  <2> QED BY <2>2, Zenon DEF Again
<1>3. ASSUME e.status = 503
      PROVE  ClassifyUpstream(e, hint) = Again("service_busy", "service", 503)
  <2>1. ~(e.status = 429) /\ ~(e.status \in {408, 504}) /\ e.status = 503 /\ ~(e.status >= 500 /\ e.status \notin {503, 504})
    BY <1>3
  <2>2. ClassifyUpstream(e, hint) = Info("service_busy", "service", TRUE, 503)
    BY <2>1 DEF ClassifyUpstream
  <2> QED BY <2>2, Zenon DEF Again
<1>4. ASSUME e.status >= 500, e.status \notin {503, 504}
      PROVE  ClassifyUpstream(e, hint) = Again("service_error", "service", 502)
  <2>1. ~(e.status = 429) /\ ~(e.status \in {408, 504}) /\ ~(e.status = 503) /\ (e.status >= 500 /\ e.status \notin {503, 504})
    BY <1>4
  <2>2. ClassifyUpstream(e, hint) = Info("service_error", "service", TRUE, 502)
    BY <2>1, Zenon DEF ClassifyUpstream
  <2> QED BY <2>2, Zenon DEF Again
<1>5. ASSUME e.status \notin {408, 429, 503, 504}, ~(e.status >= 500)
      PROVE  ClassifyUpstream(e, hint) = Fallback(hint)
  <2>1. ~(e.status = 429) /\ ~(e.status \in {408, 504}) /\ ~(e.status = 503) /\ ~(e.status >= 500 /\ e.status \notin {503, 504})
    BY <1>5
  <2> QED BY <2>1, Zenon DEF ClassifyUpstream
<1> QED BY <1>1, <1>2, <1>3, <1>4, <1>5

\* An error spelled out in a body: with a code or with words of its own it
\* is its upstream's answer.
LEMMA StructuredTells ==
  ASSUME NEW body, NEW status \in Int, body.retryable \in {"unset", "no", "yes"}, status >= 400, status # 499
  PROVE  Tells(ClassifyStructured(body, status))
<1> DEFINE retryable == body.retryable = "yes" \/ (body.retryable = "unset" /\ (status \in {408, 429} \/ status >= 500))
           code == PublicCode(body.code, body.category, status, retryable)
           own == body.code # "" \/ body.words # {}
           plain == Info(code, body.category, retryable, status)
<1>0. own \in BOOLEAN
  BY Zenon
<1>1. retryable \in BOOLEAN
  <2> HIDE DEF code, own, plain
  <2> QED BY SMT
<1>2. ~own => code \notin Blamed /\ body.words = {}
  BY DEF PublicCode, Blamed, RejectedCodes
<1>3. ClassifyStructured(body, status) = [plain EXCEPT !.words = body.words, !.own = own]
  BY DEF ClassifyStructured
<1> HIDE DEF retryable, code, own
<1> QED BY <1>0, <1>1, <1>2, <1>3 DEF Tells, Info

LEMMA StructuredStatus ==
  ASSUME NEW body, NEW status
  PROVE  ClassifyStructured(body, status).status = status
<1> DEFINE retryable == body.retryable = "yes" \/ (body.retryable = "unset" /\ (status \in {408, 429} \/ status >= 500))
           code == PublicCode(body.code, body.category, status, retryable)
           own == body.code # "" \/ body.words # {}
<1>1. ClassifyStructured(body, status) = [Info(code, body.category, retryable, status) EXCEPT !.words = body.words, !.own = own]
  BY DEF ClassifyStructured
<1> HIDE DEF retryable, code, own
<1> QED BY <1>1 DEF Info

LEMMA ProviderTells ==
  ASSUME NEW e, ErrorOK(e)
  PROVE  Tells(ClassifyProvider(e, 0))
<1>1. CASE e.body.kind = "json"
  <2>1. ProviderStatus(e.body, 0) \in {400, 502}
    BY DEF ProviderStatus
  <2>2. ClassifyProvider(e, 0) = ClassifyStructured(e.body, ProviderStatus(e.body, 0))
    BY <1>1 DEF ClassifyProvider
  <2> QED BY <1>1, <2>1, <2>2, StructuredTells DEF ErrorOK
<1>2. CASE ~(e.body.kind = "json")
  <2>1. ClassifyProvider(e, 0) = Again("service_error", "service", 502)
    BY <1>2 DEF ClassifyProvider, Again
  <2>2. Again("service_error", "service", 502) \in UpstreamAnswers
    BY DEF UpstreamAnswers
  <2> QED BY <2>1, <2>2, FixedAnswersTell
<1> QED BY <1>1, <1>2

LEMMA UpstreamTells ==
  ASSUME NEW e, NEW hint, ErrorOK(e), e.status > 0
  PROVE  Tells(ClassifyUpstream(e, hint))
<1>1. CASE e.body.kind = "json"
  <2>1. ClassifyUpstream(e, hint) = ClassifyStructured(e.body, e.status)
    BY <1>1 DEF ClassifyUpstream
  <2>2. e.status \in Int /\ e.status >= 400 /\ e.status # 499
    BY <1>1 DEF ErrorOK
  <2> QED BY <1>1, <2>1, <2>2, StructuredTells DEF ErrorOK
<1>2. CASE ~(e.body.kind = "json")
  <2>1. ClassifyUpstream(e, hint) \in UpstreamAnswers \/ ClassifyUpstream(e, hint) = Fallback(hint)
    <3>1. CASE e.files
      <4>1. ClassifyUpstream(e, hint) = Again("image_upload_failed", "service", 502)
        BY <1>2, <3>1 DEF ClassifyUpstream, Again
      <4> QED BY <4>1 DEF UpstreamAnswers
    <3>2. CASE ~e.files
      <4>1. e.status \in Int
        BY DEF ErrorOK
      <4>2. e.status \in {408, 429, 503, 504} \/ e.status >= 500 \/ (e.status \notin {408, 429, 503, 504} /\ ~(e.status >= 500))
        OBVIOUS
      <4> QED BY <1>2, <3>2, <4>1, <4>2, StatusOfUpstream DEF UpstreamAnswers
    <3> QED BY <3>1, <3>2
  <2>2. ClassifyUpstream(e, hint) \in UpstreamAnswers \/ ClassifyUpstream(e, hint) \in FallbackAnswers
    BY <2>1, FallbackAnswersFixed
  <2> QED BY <2>2, FixedAnswersTell
<1> QED BY <1>1, <1>2

LEMMA ClassesTell ==
  ASSUME NEW e, ErrorOK(e)
  PROVE  Tells(Classify(e, 0))
<1> DEFINE last == Unread(e, 0)
           afterImages == IF e.quota # NoQuota THEN ClassifyQuota(e.quota) ELSE FirstAnswer(TextRules(e), last)
           afterRequest == IF HasAssistantText(e) THEN ClassifyAssistant(e) ELSE FirstAnswer(ImageRules(e), afterImages)
<1>1. Tells(last)
  BY FallbackAnswersFixed, FixedAnswersTell, UpstreamTells, ProviderTells DEF Unread
<1> HIDE DEF last
<1>2. IsQuotaRefusal(e.quota) => Tells(ClassifyQuota(e.quota))
  BY DEF ClassifyQuota, IsQuotaRefusal, Refusals, Info, Tells
<1>3. Tells(ClassifyAssistant(e))
  BY DEF ClassifyAssistant, Verbatim, Info, Tells
<1>4. ASSUME NEW rules \in {RequestRules(e), ImageRules(e), TextRules(e)}, NEW otherwise, Tells(otherwise)
      PROVE  Tells(FirstAnswer(rules, otherwise))
  BY <1>4, FirstAnswerIsAnAnswer, RulesTell
<1>5. Tells(afterImages)
  BY <1>1, <1>2, <1>4 DEF ErrorOK
<1> HIDE DEF afterImages
<1>6. Tells(afterRequest)
  BY <1>3, <1>4, <1>5
<1> HIDE DEF afterRequest
<1>7. Classify(e, 0) = FirstAnswer(RequestRules(e), afterRequest)
  BY DEF Classify, last, afterImages, afterRequest
<1> QED BY <1>4, <1>6, <1>7

\* The status asked for only matters to an error nothing else is known of,
\* and to the status of what a provider spells out.
SameAnswer(e, hint, a, b) ==
  \/ a = b
  \/ a = Fallback(hint) /\ b = Fallback(0)
  \/ e.body.kind = "json" /\ a = ClassifyProvider(e, hint) /\ b = ClassifyProvider(e, 0)

LEMMA HintOfUpstream ==
  ASSUME NEW e, NEW hint, ErrorOK(e)
  PROVE  \/ ClassifyUpstream(e, hint) = ClassifyUpstream(e, 0)
         \/ ClassifyUpstream(e, hint) = Fallback(hint) /\ ClassifyUpstream(e, 0) = Fallback(0)
<1>1. CASE e.body.kind = "json" \/ e.files
  BY <1>1 DEF ClassifyUpstream
<1>2. CASE ~(e.body.kind = "json") /\ ~e.files
  <2>1. e.status \in Int
    BY DEF ErrorOK
  <2>2. e.status \in {408, 429, 503, 504} \/ e.status >= 500 \/ (e.status \notin {408, 429, 503, 504} /\ ~(e.status >= 500))
    OBVIOUS
  <2> QED BY <1>2, <2>1, <2>2, StatusOfUpstream
<1> QED BY <1>1, <1>2

LEMMA HintOfUnread ==
  ASSUME NEW e, NEW hint, ErrorOK(e)
  PROVE  SameAnswer(e, hint, Unread(e, hint), Unread(e, 0))
<1>1. ~(e.body.kind = "json") => ClassifyProvider(e, hint) = ClassifyProvider(e, 0)
  BY DEF ClassifyProvider
<1> QED BY <1>1, HintOfUpstream, Zenon DEF SameAnswer, Unread

LEMMA HintOfRules ==
  ASSUME NEW e, NEW hint, NEW rules, NEW a, NEW b, SameAnswer(e, hint, a, b)
  PROVE  SameAnswer(e, hint, FirstAnswer(rules, a), FirstAnswer(rules, b))
<1> DEFINE n == SelectInSeq(rules, LAMBDA r : r.when)
<1>1. \A other \in {a, b} : FirstAnswer(rules, other) = IF n = 0 THEN other ELSE rules[n].answer
  BY DEF FirstAnswer
<1> HIDE DEF n
<1>2. CASE n = 0
  BY <1>1, <1>2
<1>3. CASE n # 0
  BY <1>1, <1>3 DEF SameAnswer
<1> QED BY <1>2, <1>3

LEMMA HintChangesLittle ==
  ASSUME NEW e, NEW hint, ErrorOK(e)
  PROVE  SameAnswer(e, hint, Classify(e, hint), Classify(e, 0))
<1> DEFINE images(h) == IF e.quota # NoQuota THEN ClassifyQuota(e.quota) ELSE FirstAnswer(TextRules(e), Unread(e, h))
           request(h) == IF HasAssistantText(e) THEN ClassifyAssistant(e) ELSE FirstAnswer(ImageRules(e), images(h))
<1>1. SameAnswer(e, hint, images(hint), images(0))
  <2>1. CASE e.quota # NoQuota
    BY <2>1 DEF SameAnswer
  <2>2. CASE ~(e.quota # NoQuota)
    <3>1. SameAnswer(e, hint, FirstAnswer(TextRules(e), Unread(e, hint)), FirstAnswer(TextRules(e), Unread(e, 0)))
      BY HintOfUnread, HintOfRules
    <3> QED BY <2>2, <3>1
  <2> QED BY <2>1, <2>2
<1> HIDE DEF images
<1>2. SameAnswer(e, hint, request(hint), request(0))
  <2>1. CASE HasAssistantText(e)
    BY <2>1 DEF SameAnswer
  <2>2. CASE ~HasAssistantText(e)
    <3>1. SameAnswer(e, hint, FirstAnswer(ImageRules(e), images(hint)), FirstAnswer(ImageRules(e), images(0)))
      BY <1>1, HintOfRules
    <3> QED BY <2>2, <3>1
  <2> QED BY <2>1, <2>2
<1> HIDE DEF request
<1>3. /\ Classify(e, hint) = FirstAnswer(RequestRules(e), request(hint))
      /\ Classify(e, 0) = FirstAnswer(RequestRules(e), request(0))
  BY DEF Classify, images, request
<1> QED BY <1>2, <1>3, HintOfRules

\* The class of an error does not change when it is asked for again with the
\* status of that class, which is how it is answered.
LEMMA ClassIsStable ==
  ASSUME NEW e, ErrorOK(e)
  PROVE  Classify(e, StatusFromError(e)) = Classify(e, 0)
<1> DEFINE hint == StatusFromError(e)
<1>1. SameAnswer(e, hint, Classify(e, hint), Classify(e, 0)) /\ hint = Classify(e, 0).status
  BY HintChangesLittle DEF StatusFromError
<1> HIDE DEF hint
<1>2. CASE Classify(e, hint) = Fallback(hint) /\ Classify(e, 0) = Fallback(0)
  <2>1. Fallback(0) = Info("service_error", "service", TRUE, 502) /\ Fallback(502) = Info("service_error", "service", TRUE, 502)
    BY DEF Fallback
  <2>2. hint = 502
    BY <1>1, <1>2, <2>1 DEF Info
  <2> QED BY <1>2, <2>1, <2>2 DEF hint
<1>3. CASE e.body.kind = "json" /\ Classify(e, hint) = ClassifyProvider(e, hint) /\ Classify(e, 0) = ClassifyProvider(e, 0)
  <2>1. \A h : ClassifyProvider(e, h) = ClassifyStructured(e.body, ProviderStatus(e.body, h))
    BY <1>3 DEF ClassifyProvider
  <2>2. hint = ProviderStatus(e.body, 0)
    <3>1. ClassifyStructured(e.body, ProviderStatus(e.body, 0)).status = ProviderStatus(e.body, 0)
      BY StructuredStatus
    <3> QED BY <1>1, <1>3, <2>1, <3>1
  <2>3. ProviderStatus(e.body, 0) \in {400, 502}
    BY DEF ProviderStatus
  <2>4. ProviderStatus(e.body, hint) = hint
    BY <2>2, <2>3 DEF ProviderStatus
  <2>5. ClassifyProvider(e, hint) = ClassifyProvider(e, 0)
    BY <2>1, <2>2, <2>4
  <2> QED BY <1>3, <2>5 DEF hint
<1> QED BY <1>1, <1>2, <1>3 DEF SameAnswer, hint

\* What the caller is told with the status of the error is what is counted.
LEMMA ToldIsCounted ==
  ASSUME NEW e, ErrorOK(e)
  PROVE  LET info == Classify(e, StatusFromError(e))
             status == IF StatusFromError(e) <= 0 THEN info.status ELSE StatusFromError(e)
         IN /\ info.retryable \in BOOLEAN /\ info.own \in BOOLEAN
            /\ info.retryable /\ ~info.own => MetricCallStatus(status, info.code, info.words) = "failed"
<1> DEFINE info == Classify(e, 0)
<1>1. Tells(info)
  BY ClassesTell
<1>2. Classify(e, StatusFromError(e)) = info
  BY ClassIsStable
<1>3. StatusFromError(e) = info.status
  BY DEF StatusFromError
<1> HIDE DEF info
<1>4. ASSUME info.retryable, ~info.own
      PROVE  MetricCallStatus(info.status, info.code, info.words) = "failed"
  <2>1. info.status \in Int /\ info.status >= 400 /\ info.status # 499
    BY <1>1, <1>4 DEF Tells
  <2>2. info.code \notin Blamed /\ info.words = {}
    BY <1>1, <1>4 DEF Tells
  <2> QED BY <2>1, <2>2 DEF MetricCallStatus, Blamed
<1> QED BY <1>1, <1>2, <1>3, <1>4 DEF Tells

\* An answer that does not ask for another try.
Mild(info) == info.retryable \in BOOLEAN /\ ~info.retryable /\ info.own \in BOOLEAN

LEMMA MildAnswer ==
  ASSUME NEW rules, NEW otherwise, Len(rules) \in Nat, Mild(otherwise),
         \A i \in 1 .. Len(rules) : rules[i].when => Mild(rules[i].answer)
  PROVE  Mild(FirstAnswer(rules, otherwise))
BY FirstAnswerIsAnAnswer

\* A body that cannot be read is never put down to the service.
LEMMA BadBodyIsMild ==
  ASSUME NEW e \in RequestErrors
  PROVE  Mild(Classify(e, IF "tooLarge" \in e.is THEN 413 ELSE 400))
<1> DEFINE hint == IF "tooLarge" \in e.is THEN 413 ELSE 400
           last == Unread(e, hint)
           afterImages == IF e.quota # NoQuota THEN ClassifyQuota(e.quota) ELSE FirstAnswer(TextRules(e), last)
           afterRequest == IF HasAssistantText(e) THEN ClassifyAssistant(e) ELSE FirstAnswer(ImageRules(e), afterImages)
<1>1. /\ e.status = 0 /\ e.text = "none" /\ e.quota = NoQuota /\ e.is \subseteq {"eof", "tooLarge"}
      /\ e.says \subseteq {"unexpected eof", "bad format", "prompt required", "bad image"}
  <2>1. /\ \A s, p : Sentinel(s, p).is = {s} /\ Sentinel(s, p).says = p
        /\ \A s, p : Sentinel(s, p).status = 0 /\ Sentinel(s, p).text = "none" /\ Sentinel(s, p).quota = NoQuota
    BY DEF Sentinel, Plain
  <2>2. /\ \A p : Says(p).is = {} /\ Says(p).says = {p}
        /\ \A p : Says(p).status = 0 /\ Says(p).text = "none" /\ Says(p).quota = NoQuota
    BY DEF Says, Plain
  <2>3. Plain.is = {} /\ Plain.says = {} /\ Plain.status = 0 /\ Plain.text = "none" /\ Plain.quota = NoQuota
    BY DEF Plain
  <2>4. \/ e = Plain \/ e = Sentinel("eof", {"unexpected eof"}) \/ e = Sentinel("tooLarge", {})
        \/ \E p \in {"bad format", "prompt required", "bad image"} : e = Says(p)
    BY DEF RequestErrors
  <2>5. CASE e = Plain
    BY <2>3, <2>5
  <2>6. CASE e = Sentinel("eof", {"unexpected eof"})
    <3>1. e.is = {"eof"} /\ e.says = {"unexpected eof"}
      BY <2>1, <2>6
    <3>2. e.status = 0 /\ e.text = "none" /\ e.quota = NoQuota
      BY <2>1, <2>6
    <3> QED BY <3>1, <3>2
  <2>7. CASE e = Sentinel("tooLarge", {})
    <3>1. e.is = {"tooLarge"} /\ e.says = {}
      BY <2>1, <2>7
    <3>2. e.status = 0 /\ e.text = "none" /\ e.quota = NoQuota
      BY <2>1, <2>7
    <3> QED BY <3>1, <3>2
  <2>8. CASE \E p \in {"bad format", "prompt required", "bad image"} : e = Says(p)
    BY <2>2, <2>8
  <2> QED BY <2>4, <2>5, <2>6, <2>7, <2>8
<1>2. \A code, category, status : Mild(Refuse(code, category, status))
  BY DEF Mild, Refuse, Info
<1>3. Len(RequestRules(e)) = 5 /\ \A i \in 1 .. 5 : RequestRules(e)[i].when => Mild(RequestRules(e)[i].answer)
  <2>1. /\ Len(RequestRules(e)) = 5 /\ ~RequestRules(e)[5].when
        /\ RequestRules(e)[1].answer = Refuse("request_canceled", "canceled", 499)
        /\ RequestRules(e)[2].answer = Refuse("request_body_incomplete", "request", 400)
        /\ RequestRules(e)[3].answer = Refuse("request_body_too_large", "request", 413)
        /\ RequestRules(e)[4].answer = Refuse("reference_image_required", "request", 400)
    BY <1>1 DEF RequestRules, Rule, Refuse, IsNoFreeImageQuota
  <2>2. \A i \in 1 .. 5 : i = 1 \/ i = 2 \/ i = 3 \/ i = 4 \/ i = 5
    OBVIOUS
  <2> QED BY <1>2, <2>1, <2>2
<1>4. ~(e.status > 0)
  <2>1. e.status = 0
    BY <1>1
  <2> QED BY <2>1
<1>5. CASE "tooLarge" \in e.is
  <2>1. RequestRules(e)[3].when
    BY <1>5 DEF RequestRules, Rule
  <2>2. PICK i \in 1 .. 5 : RequestRules(e)[i].when /\ Classify(e, hint) = RequestRules(e)[i].answer
    BY <1>3, <2>1, FirstAnswerIsAnAnswer DEF Classify
  <2> QED BY <1>3, <2>2
<1>6. CASE "tooLarge" \notin e.is
  <2>1. Mild(last)
    <3>1. last = Fallback(400)
      <4>1. hint = 400
        BY <1>6
      <4> HIDE DEF hint
      <4>2. ~(e.status > 0) /\ "provider error" \notin e.says
        BY <1>1, <1>4
      <4> QED BY <4>1, <4>2 DEF Unread
    <3>2. Fallback(400) = Refuse("invalid_request", "request", 400)
      BY DEF Fallback, Refuse
    <3> HIDE DEF last
    <3> QED BY <1>2, <3>1, <3>2
  <2> HIDE DEF last
  <2>2. Len(TextRules(e)) = 6 /\ \A i \in 1 .. 6 : TextRules(e)[i].when => Mild(TextRules(e)[i].answer)
    <3>1. /\ Len(TextRules(e)) = 6
          /\ ~TextRules(e)[1].when /\ ~TextRules(e)[2].when /\ ~TextRules(e)[6].when
          /\ TextRules(e)[3].answer = Refuse("invalid_output_format", "request", 400)
          /\ TextRules(e)[4].answer = Refuse("prompt_required", "request", 400)
          /\ TextRules(e)[5].answer = Refuse("reference_image_invalid", "request", 400)
      BY <1>1 DEF TextRules, Rule, Refuse
    <3>2. \A i \in 1 .. 6 : i = 1 \/ i = 2 \/ i = 3 \/ i = 4 \/ i = 5 \/ i = 6
      OBVIOUS
    <3> QED BY <1>2, <3>1, <3>2
  <2>3. Mild(afterImages)
    <3>1. afterImages = FirstAnswer(TextRules(e), last)
      BY <1>1
    <3> HIDE DEF afterImages
    <3> QED BY <2>1, <2>2, <3>1, MildAnswer
  <2> HIDE DEF afterImages
  <2>4. Len(ImageRules(e)) = 10 /\ \A i \in 1 .. 10 : ~ImageRules(e)[i].when
    <3>1. ~IsInteractiveChallenge(e) /\ ~IsAuthentication(e)
      <4>1. e.status = 0 /\ "challenge" \notin e.says /\ "invalidated" \notin e.says /\ "401" \notin e.says
        BY <1>1
      <4> QED BY <4>1 DEF IsInteractiveChallenge, IsAuthentication, IsTokenInvalid
    <3>2. /\ Len(ImageRules(e)) = 10
          /\ ~ImageRules(e)[1].when /\ ~ImageRules(e)[2].when /\ ~ImageRules(e)[3].when
          /\ ~ImageRules(e)[4].when /\ ~ImageRules(e)[5].when /\ ~ImageRules(e)[6].when
          /\ ~ImageRules(e)[7].when /\ ~ImageRules(e)[8].when /\ ~ImageRules(e)[9].when
          /\ ~ImageRules(e)[10].when
      BY <1>1, <3>1 DEF ImageRules, Rule
    <3> QED BY <3>2
  <2>5. Mild(afterRequest)
    <3>1. ~HasAssistantText(e)
      BY <1>1 DEF HasAssistantText
    <3> QED BY <2>3, <2>4, <3>1, MildAnswer
  <2> HIDE DEF afterRequest
  <2>6. Classify(e, hint) = FirstAnswer(RequestRules(e), afterRequest)
    BY DEF Classify, last, afterImages, afterRequest
  <2> QED BY <1>3, <2>5, <2>6, MildAnswer
<1> QED BY <1>5, <1>6

\* What Consume refuses is told apart by nothing but the quota, except when
\* it refuses images.
LEMMA QuotaErrorIsRefused ==
  ASSUME NEW refused \in Refusals \ {"images"}, NEW status, NEW hint
  PROVE  Classify(QuotaError(refused, status), hint) = ClassifyQuota([refused |-> refused, status |-> status])
<1> DEFINE e == QuotaError(refused, status)
           last == Unread(e, hint)
           afterImages == IF e.quota # NoQuota THEN ClassifyQuota(e.quota) ELSE FirstAnswer(TextRules(e), last)
           afterRequest == IF HasAssistantText(e) THEN ClassifyAssistant(e) ELSE FirstAnswer(ImageRules(e), afterImages)
<1>1. e.is = {} /\ e.says = {} /\ e.status = 0 /\ e.text = "none" /\ e.quota = [refused |-> refused, status |-> status]
  BY DEF QuotaError, RefusalText, Plain
<1>3. Classify(e, hint) = FirstAnswer(RequestRules(e), afterRequest)
  BY DEF Classify
<1> HIDE DEF e
<1>2. e.quota # NoQuota
  <2> HIDE DEF last, afterImages, afterRequest
  <2>1. refused # "nothing"
    BY DEF Refusals
  <2> QED BY <1>1, <2>1 DEF NoQuota
<1>4. ~HasAssistantText(e)
  BY <1>1 DEF HasAssistantText
<1>5. Len(RequestRules(e)) = 5 /\ \A i \in 1 .. 5 : ~RequestRules(e)[i].when
  <2>1. /\ Len(RequestRules(e)) = 5
        /\ ~RequestRules(e)[1].when /\ ~RequestRules(e)[2].when /\ ~RequestRules(e)[3].when
        /\ ~RequestRules(e)[4].when /\ ~RequestRules(e)[5].when
    BY <1>1 DEF RequestRules, Rule, IsImageReferenceRequired, IsNoFreeImageQuota
  <2> QED BY <2>1
<1>6. Len(ImageRules(e)) = 10 /\ \A i \in 1 .. 10 : ~ImageRules(e)[i].when
  <2>0. ~IsInteractiveChallenge(e) /\ ~IsAuthentication(e)
    BY <1>1 DEF IsInteractiveChallenge, IsAuthentication, IsTokenInvalid
  <2>1. /\ Len(ImageRules(e)) = 10
        /\ ~ImageRules(e)[1].when /\ ~ImageRules(e)[2].when /\ ~ImageRules(e)[3].when
        /\ ~ImageRules(e)[4].when /\ ~ImageRules(e)[5].when /\ ~ImageRules(e)[6].when
        /\ ~ImageRules(e)[7].when /\ ~ImageRules(e)[8].when /\ ~ImageRules(e)[9].when
        /\ ~ImageRules(e)[10].when
    BY <1>1, <2>0 DEF ImageRules, Rule
  <2> QED BY <2>1
<1>7. afterImages = ClassifyQuota(e.quota)
  BY <1>2
<1> HIDE DEF afterImages, last
<1>8. FirstAnswer(ImageRules(e), afterImages) = afterImages
  <2>1. Len(ImageRules(e)) \in Nat /\ \A i \in 1 .. Len(ImageRules(e)) : ~ImageRules(e)[i].when
    BY <1>6
  <2> QED BY <2>1, FirstAnswerIsAnAnswer, Zenon
<1>9. afterRequest = ClassifyQuota(e.quota)
  BY <1>4, <1>7, <1>8
<1> HIDE DEF afterRequest
<1>10. FirstAnswer(RequestRules(e), afterRequest) = afterRequest
  <2>1. Len(RequestRules(e)) \in Nat /\ \A i \in 1 .. Len(RequestRules(e)) : ~RequestRules(e)[i].when
    BY <1>5
  <2> QED BY <2>1, FirstAnswerIsAnAnswer, Zenon
<1> QED BY <1>1, <1>3, <1>9, <1>10 DEF e

LEMMA CategoryOfCall ==
  ASSUME NEW status, NEW code, NEW words
  PROVE  MetricCallStatus(status, code, words) \in Categories
BY DEF MetricCallStatus, Categories

\* A code that puts the call down to its caller decides.
LEMMA RejectedByCode ==
  ASSUME NEW status, NEW code \in RejectedCodes, NEW words, status # 499, code # "request_canceled",
         "context canceled" \notin words
  PROVE  MetricCallStatus(status, code, words) = "rejected"
BY DEF MetricCallStatus

\* The refusals of the door and of Consume are counted as rejected.
LEMMA DoorIsRejected ==
  /\ Mild(NoError)
  /\ MetricCallStatus(401, NoError.code, NoError.words) = "rejected"
  /\ MetricCallStatus(403, NoError.code, NoError.words) = "rejected"
<1>1. Mild(NoError)
  BY DEF NoError, Mild
<1>2. MetricCallStatus(401, NoError.code, NoError.words) = "rejected"
  BY DEF NoError, MetricCallStatus, RejectedCodes
<1>3. MetricCallStatus(403, NoError.code, NoError.words) = "rejected"
  BY DEF NoError, MetricCallStatus, RejectedCodes
<1> QED BY <1>1, <1>2, <1>3

LEMMA RefusalIsRejected ==
  ASSUME NEW refused \in Refusals \ {"images"}, NEW hint
  PROVE  /\ Classify(QuotaError(refused, RefusedStatus(refused)), hint).status \in {401, 403, 429}
         /\ Mild(Classify(QuotaError(refused, RefusedStatus(refused)), hint))
         /\ \A status \in {401, 403, 429} :
              MetricCallStatus(status, Classify(QuotaError(refused, RefusedStatus(refused)), hint).code,
                               Classify(QuotaError(refused, RefusedStatus(refused)), hint).words) = "rejected"
<1> DEFINE info == Classify(QuotaError(refused, RefusedStatus(refused)), hint)
<1>1. info = ClassifyQuota([refused |-> refused, status |-> RefusedStatus(refused)])
  BY QuotaErrorIsRefused
<1>2. /\ info.code \in {"api_key_invalid", "endpoint_not_allowed", "model_not_allowed", "client_quota_exhausted"}
      /\ info.status = RefusedStatus(refused) /\ Mild(info) /\ info.words = {}
  <2> HIDE DEF info
  <2> QED BY <1>1 DEF ClassifyQuota, Refusals, Info, Mild
<1>3. RefusedStatus(refused) \in {401, 403, 429}
  BY DEF RefusedStatus
<1>4. info.code \in RejectedCodes /\ info.code # "request_canceled" /\ "context canceled" \notin info.words
  BY <1>2 DEF RejectedCodes
<1>5. \A status \in {401, 403, 429} : status # 499
  OBVIOUS
<1>6. \A status \in {401, 403, 429} : MetricCallStatus(status, info.code, info.words) = "rejected"
  <2> HIDE DEF info
  <2> TAKE status \in {401, 403, 429}
  <2>1. status # 499
    BY <1>5
  <2> QED BY <1>4, <2>1 DEF MetricCallStatus
<1> QED BY <1>2, <1>3, <1>6

\* The text of a refusal of images is that of a pool without quota, and it is
\* answered and counted as one.
LEMMA ImageRefusalIsFailure ==
  ASSUME NEW hint
  PROVE  LET info == Classify(QuotaError("images", 429), hint)
         IN /\ info.status = 429 /\ info.retryable \in BOOLEAN /\ info.own \in BOOLEAN
            /\ MetricCallStatus(429, info.code, info.words) = "failed"
<1> DEFINE e == QuotaError("images", 429)
           info == Classify(e, hint)
<1>1. e.is = {} /\ e.says = {"no free quota"}
  BY DEF QuotaError, RefusalText, Plain
<1> HIDE DEF e
<1>2. /\ Len(RequestRules(e)) = 5
      /\ ~RequestRules(e)[1].when /\ ~RequestRules(e)[2].when /\ ~RequestRules(e)[3].when /\ ~RequestRules(e)[4].when
      /\ RequestRules(e)[5].when /\ RequestRules(e)[5].answer = Again("image_quota_exhausted", "capacity", 429)
  BY <1>1 DEF RequestRules, Rule, IsImageReferenceRequired, IsNoFreeImageQuota, Again
<1>3. \A i \in 1 .. 5 : RequestRules(e)[i].when => i = 5
  BY <1>2
<1>4. info = Again("image_quota_exhausted", "capacity", 429)
  <2>1. PICK i \in 1 .. 5 : RequestRules(e)[i].when /\ info = RequestRules(e)[i].answer
    BY <1>2, FirstAnswerIsAnAnswer DEF Classify
  <2> QED BY <1>2, <1>3, <2>1
<1> HIDE DEF info
<1>5. info.code = "image_quota_exhausted" /\ info.words = {} /\ info.status = 429 /\ info.retryable \in BOOLEAN /\ info.own \in BOOLEAN
  BY <1>4 DEF Again, Info
<1>6. MetricCallStatus(429, info.code, info.words) = "failed"
  BY <1>5 DEF MetricCallStatus, RejectedCodes
<1> QED BY <1>5, <1>6 DEF info, e

-----------------------------------------------------------------------------
(* The history of calls.  A call that is turned away is recorded as        *)
(* rejected, unless for its images, and one told to try again as failed,   *)
(* whatever else the history holds; a copy taken while nothing has been    *)
(* marked since is the history.                                            *)
Excused == {"nothing", "images"}
CallsUpto(time) ==
  {c \in [request : Requests, time : 0 .. time, refused : Refusals \cup {"nothing", "door"}, retry : BOOLEAN,
        category : Categories] :
     (c.refused \notin Excused => c.category = "rejected") /\ (c.retry => c.category = "failed")}
HistoryOK(history, time) == history \in Seq(CallsUpto(time)) /\ Len(history) <= MaxEntries

CallPlaces == {"idle", "wait", "debounce", "pending", "last", "save", "saveLast", "check", "done"}
CallFlagsOK ==
  /\ callsDirty \in BOOLEAN /\ callsWake \in BOOLEAN /\ callsRead \in BOOLEAN
  /\ callsSaver \in {Loop, Ender, "nobody"} /\ callsAt \in [{Loop, Ender} -> CallPlaces]
  /\ callsOpen \in {"running", "closing", "closed"}

SavesHoldLock == \A p \in {Loop, Ender} : callsAt[p] \in {"save", "saveLast"} <=> callsSaver = p
CopyIsCurrent == callsRead /\ ~callsDirty /\ callsSaver # "nobody" => callsCopy = calls

CallsOK(time) ==
  /\ HistoryOK(calls, time) /\ HistoryOK(callsWritten, time) /\ HistoryOK(callsCopy, time)
  /\ CallFlagsOK /\ SavesHoldLock /\ CopyIsCurrent /\ CleanHistoryIsStored

LEMMA LaterHistory ==
  ASSUME NEW t \in Nat, NEW u \in Nat, t <= u
  PROVE  \A h : HistoryOK(h, t) => HistoryOK(h, u)
<1>1. CallsUpto(t) \subseteq CallsUpto(u)
  BY DEF CallsUpto
<1>2. Seq(CallsUpto(t)) \subseteq Seq(CallsUpto(u))
  BY <1>1, SeqMonotonic
<1> QED BY <1>2 DEF HistoryOK

LEMMA NoHistory == ASSUME NEW t PROVE HistoryOK(<<>>, t)
BY EmptySeq, MetricConstants DEF HistoryOK

LEMMA CallsAreQuiet ==
  ASSUME NEW t, CallsOK(t), UNCHANGED callVars
  PROVE  CallsOK(t)'
BY DEF CallsOK, callVars, HistoryOK, CallFlagsOK, SavesHoldLock, CopyIsCurrent, CleanHistoryIsStored

LEMMA RecordOK ==
  ASSUME NEW t, CallsOK(t), NEW call \in CallsUpto(t), Record(call)
  PROVE  CallsOK(t)'
<1>1. HistoryOK(calls, t) /\ calls' = Newest(Append(calls, call)) /\ callsDirty' = TRUE /\ callsWake' = TRUE
  BY DEF CallsOK, Record
<1>2. HistoryOK(calls', t)
  BY <1>1, NewestIsHistory DEF HistoryOK
<1>3. UNCHANGED <<callsWritten, callsCopy, callsSaver, callsAt, callsOpen, callsRead>>
  BY DEF Record
<1>4. HistoryOK(callsWritten', t) /\ HistoryOK(callsCopy', t)
  BY <1>3 DEF CallsOK
<1>5. CallFlagsOK' /\ SavesHoldLock'
  BY <1>1, <1>3 DEF CallsOK, CallFlagsOK, SavesHoldLock
<1> QED BY <1>1, <1>2, <1>4, <1>5 DEF CallsOK, HistoryOK, CopyIsCurrent, CleanHistoryIsStored

LEMMA DeleteCallsOK ==
  ASSUME NEW t, CallsOK(t), NEW chosen, DeleteCalls(chosen)
  PROVE  CallsOK(t)'
<1>1. HistoryOK(Without(calls, chosen), t)
  <2>1. calls \in Seq(CallsUpto(t)) /\ Len(calls) <= MaxEntries /\ MaxEntries \in Nat
    BY MetricConstants DEF CallsOK, HistoryOK
  <2>2. /\ Without(calls, chosen) \in Seq(CallsUpto(t))
        /\ Len(Without(calls, chosen)) <= Len(calls)
        /\ Len(Without(calls, chosen)) \in Nat /\ Len(calls) \in Nat
    BY <2>1, WithoutIsHistory, LenProperties
  <2> QED BY <2>1, <2>2 DEF HistoryOK
<1> DEFINE rest == IF chosen = {} THEN <<>> ELSE Without(calls, chosen)
           changed == chosen = {} \/ rest # calls
<1>2. /\ calls' = rest /\ callsDirty' = (callsDirty \/ changed) /\ callsWake' = (callsWake \/ changed)
      /\ UNCHANGED <<callsWritten, callsCopy, callsSaver, callsAt, callsOpen, callsRead>>
  BY DEF DeleteCalls
<1>3. HistoryOK(rest, t)
  BY <1>1, NoHistory
<1>4. changed \in BOOLEAN /\ (~changed => rest = calls)
  OBVIOUS
<1> HIDE DEF rest, changed
<1>5. HistoryOK(calls', t) /\ HistoryOK(callsWritten', t) /\ HistoryOK(callsCopy', t)
  BY <1>2, <1>3 DEF CallsOK
<1>6. CallFlagsOK'
  <2>1. callsDirty' \in BOOLEAN /\ callsWake' \in BOOLEAN
    BY <1>2
  <2> QED BY <1>2, <2>1 DEF CallsOK, CallFlagsOK
<1>7. SavesHoldLock'
  BY <1>2 DEF CallsOK, SavesHoldLock
<1>8. ~callsDirty' => calls' = calls /\ ~callsDirty
  BY <1>2, <1>4
<1>9. CopyIsCurrent' /\ CleanHistoryIsStored'
  BY <1>2, <1>8 DEF CallsOK, CopyIsCurrent, CleanHistoryIsStored
<1> QED BY <1>5, <1>6, <1>7, <1>9 DEF CallsOK, HistoryOK

\* Steps that change no history, nor whether it is dirty, nor who writes it.
LEMMA CallsWorkerOK ==
  ASSUME NEW t, CallsOK(t), LoopStep \/ EnderStep \/ CloseCalls
  PROVE  CallsOK(t)'
<1>0. callsAt \in [{Loop, Ender} -> CallPlaces]
  BY DEF CallsOK, CallFlagsOK
<1>1. UNCHANGED <<calls, callsWritten, callsCopy, callsDirty, callsSaver, callsRead>>
  BY DEF LoopStep, EnderStep, CloseCalls, CallsWake, CallsDebounced, CallsStopped, FlushCalls, FlushCallsAgain, CallsClosed
<1>2. callsWake' \in BOOLEAN /\ callsOpen' \in {"running", "closing", "closed"}
  BY DEF LoopStep, EnderStep, CloseCalls, CallsWake, CallsDebounced, CallsStopped, FlushCalls, FlushCallsAgain, CallsClosed,
     CallsOK, CallFlagsOK
<1>3. \/ callsAt' = callsAt
      \/ \E p \in {Loop, Ender}, there \in CallPlaces \ {"save", "saveLast"} :
           callsAt[p] \notin {"save", "saveLast"} /\ callsAt' = [callsAt EXCEPT ![p] = there]
  <2>1. CASE CallsWake
    BY <2>1 DEF CallsWake, LoopTo, CallPlaces
  <2>2. CASE CallsDebounced
    BY <2>2 DEF CallsDebounced, LoopTo, CallPlaces
  <2>3. CASE CallsStopped
    BY <2>3 DEF CallsStopped, LoopTo, CallPlaces
  <2>4. CASE FlushCalls
    BY <2>4 DEF FlushCalls, LoopTo, CallPlaces
  <2>5. CASE FlushCallsAgain
    BY <2>5 DEF FlushCallsAgain, LoopTo, CallPlaces
  <2>6. CASE CallsClosed \/ CloseCalls
    BY <2>6 DEF CallsClosed, CloseCalls
  <2> QED BY <2>1, <2>2, <2>3, <2>4, <2>5, <2>6 DEF LoopStep, EnderStep
<1>4. CallFlagsOK'
  <2>1. callsAt' \in [{Loop, Ender} -> CallPlaces]
    BY <1>0, <1>3
  <2> QED BY <1>1, <1>2, <2>1 DEF CallsOK, CallFlagsOK
<1>5. SavesHoldLock'
  <2>1. \A p \in {Loop, Ender} : callsAt'[p] \in {"save", "saveLast"} <=> callsAt[p] \in {"save", "saveLast"}
    BY <1>0, <1>3
  <2> QED BY <1>1, <2>1 DEF CallsOK, SavesHoldLock
<1> QED BY <1>1, <1>4, <1>5 DEF CallsOK, HistoryOK, CopyIsCurrent, CleanHistoryIsStored

LEMMA TakeCallsOK ==
  ASSUME NEW t, CallsOK(t), NEW p \in {Loop, Ender}, TakeCalls(p)
  PROVE  CallsOK(t)'
<1>0. callsAt \in [{Loop, Ender} -> CallPlaces] /\ callsSaver = "nobody" /\ SavesHoldLock
  BY DEF CallsOK, CallFlagsOK, TakeCalls
<1>1. UNCHANGED <<calls, callsWake, callsWritten, callsOpen, callsRead>> /\ callsAt[p] \in {"pending", "last"}
  BY DEF TakeCalls, LoopTo
<1>2. CASE callsDirty
  <2>1. /\ callsCopy' = calls /\ callsDirty' = FALSE /\ callsSaver' = p
        /\ callsAt' = [callsAt EXCEPT ![p] = IF callsAt[p] = "last" THEN "saveLast" ELSE "save"]
    BY <1>2 DEF TakeCalls, LoopTo
  <2>2. HistoryOK(calls', t) /\ HistoryOK(callsWritten', t) /\ HistoryOK(callsCopy', t)
    BY <1>1, <2>1 DEF CallsOK
  <2>3. /\ callsAt' \in [{Loop, Ender} -> CallPlaces] /\ callsAt'[p] \in {"save", "saveLast"}
        /\ \A q \in {Loop, Ender} : q # p => callsAt'[q] = callsAt[q]
    BY <1>0, <2>1 DEF CallPlaces
  <2>4. CallFlagsOK'
    BY <1>1, <2>1, <2>3 DEF CallsOK, CallFlagsOK
  <2>5. SavesHoldLock'
    BY <1>0, <2>1, <2>3, MetricConstants DEF SavesHoldLock
  <2> QED BY <1>1, <2>1, <2>2, <2>4, <2>5, MetricConstants DEF CallsOK, HistoryOK, CopyIsCurrent, CleanHistoryIsStored
<1>3. CASE ~callsDirty
  <2>1. UNCHANGED <<callsCopy, callsDirty, callsSaver>> /\ callsAt' = [callsAt EXCEPT ![p] = AfterWrite(p)]
    BY <1>3 DEF TakeCalls, LoopTo
  <2>2. AfterWrite(p) \in {"check", "done", "wait"}
    BY DEF AfterWrite
  <2>3. /\ callsAt' \in [{Loop, Ender} -> CallPlaces] /\ callsAt'[p] \notin {"save", "saveLast"}
        /\ \A q \in {Loop, Ender} : q # p => callsAt'[q] = callsAt[q]
    BY <1>0, <2>1, <2>2 DEF CallPlaces
  <2>4. CallFlagsOK'
    BY <1>1, <2>1, <2>3 DEF CallsOK, CallFlagsOK
  <2>5. SavesHoldLock'
    BY <1>0, <2>1, <2>3, MetricConstants DEF SavesHoldLock
  <2> QED BY <1>1, <2>1, <2>4, <2>5 DEF CallsOK, HistoryOK, CopyIsCurrent, CleanHistoryIsStored
<1> QED BY <1>2, <1>3

LEMMA SaveCallsOK ==
  ASSUME NEW t, CallsOK(t), NEW p \in {Loop, Ender}, NEW ok \in BOOLEAN, NEW landed, SaveCalls(p, ok, landed)
  PROVE  CallsOK(t)'
<1>0. callsAt \in [{Loop, Ender} -> CallPlaces] /\ SavesHoldLock /\ callsAt[p] \in {"save", "saveLast"}
  BY DEF CallsOK, CallFlagsOK, SaveCalls, LoopTo
<1>1. /\ UNCHANGED <<calls, callsWake, callsCopy, callsOpen, callsRead>>
      /\ callsWritten' = (IF landed THEN callsCopy ELSE callsWritten) /\ (ok => landed)
      /\ callsDirty' = (callsDirty \/ ~ok) /\ callsSaver' = "nobody"
      /\ callsAt' = [callsAt EXCEPT ![p] = IF p = Ender /\ ~ok THEN "done" ELSE AfterWrite(p)]
  BY DEF SaveCalls, LoopTo, DirtyAgain
<1>2. HistoryOK(calls', t) /\ HistoryOK(callsWritten', t) /\ HistoryOK(callsCopy', t)
  BY <1>1 DEF CallsOK
<1>3. /\ callsAt' \in [{Loop, Ender} -> CallPlaces] /\ callsAt'[p] \notin {"save", "saveLast"}
      /\ \A q \in {Loop, Ender} : q # p => callsAt'[q] = callsAt[q]
  <2>1. AfterWrite(p) \in {"check", "done", "wait"}
    BY DEF AfterWrite
  <2> QED BY <1>0, <1>1, <2>1 DEF CallPlaces
<1>4. CallFlagsOK'
  <2>1. callsDirty' \in BOOLEAN
    BY <1>1
  <2> QED BY <1>1, <1>3, <2>1 DEF CallsOK, CallFlagsOK
<1>5. callsSaver = p
  BY <1>0 DEF SavesHoldLock
<1>6. SavesHoldLock'
  BY <1>0, <1>1, <1>3, <1>5, MetricConstants DEF SavesHoldLock
<1>7. CopyIsCurrent'
  BY <1>1 DEF CopyIsCurrent
<1>8. CleanHistoryIsStored'
  <2> SUFFICES ASSUME callsRead', ~callsDirty' PROVE callsWritten' = calls'
    BY DEF CleanHistoryIsStored
  <2>1. ok /\ ~callsDirty /\ callsRead /\ callsWritten' = callsCopy
    BY <1>1
  <2> QED BY <1>1, <1>5, <2>1, MetricConstants DEF CallsOK, CopyIsCurrent
<1> QED BY <1>2, <1>4, <1>6, <1>7, <1>8 DEF CallsOK, HistoryOK

LEMMA ReloadCallsOK ==
  ASSUME NEW t, CallsOK(t), NEW read \in BOOLEAN, ReloadCalls(read)
  PROVE  CallsOK(t)'
<1>1. HistoryOK(calls', t) /\ HistoryOK(callsWritten', t) /\ HistoryOK(callsCopy', t)
  BY NoHistory DEF CallsOK, ReloadCalls
<1>2. CallFlagsOK'
  BY DEF ReloadCalls, CallFlagsOK, CallPlaces
<1>3. SavesHoldLock'
  BY MetricConstants DEF ReloadCalls, SavesHoldLock
<1>4. CopyIsCurrent' /\ CleanHistoryIsStored'
  BY DEF ReloadCalls, CopyIsCurrent, CleanHistoryIsStored
<1> QED BY <1>1, <1>2, <1>3, <1>4 DEF CallsOK, HistoryOK

(* What a step may do to the history. *)
CallsMove(time) ==
  \/ UNCHANGED callVars
  \/ \E call \in CallsUpto(time) : Record(call)
  \/ \E chosen \in SUBSET Requests : DeleteCalls(chosen)
  \/ LoopStep \/ EnderStep \/ CloseCalls
  \/ \E p \in {Loop, Ender} : TakeCalls(p) \/ \E ok \in BOOLEAN, landed \in BOOLEAN : SaveCalls(p, ok, landed)
  \/ \E read \in BOOLEAN : ReloadCalls(read)

LEMMA CallsMoveOK ==
  ASSUME NEW t, CallsOK(t), CallsMove(t)
  PROVE  CallsOK(t)'
<1>1. CASE UNCHANGED callVars
  BY <1>1, CallsAreQuiet
<1>2. CASE \E call \in CallsUpto(t) : Record(call)
  BY <1>2, RecordOK
<1>3. CASE \E chosen \in SUBSET Requests : DeleteCalls(chosen)
  BY <1>3, DeleteCallsOK
<1>4. CASE LoopStep \/ EnderStep \/ CloseCalls
  BY <1>4, CallsWorkerOK
<1>5. CASE \E p \in {Loop, Ender} : TakeCalls(p) \/ \E ok \in BOOLEAN, landed \in BOOLEAN : SaveCalls(p, ok, landed)
  BY <1>5, TakeCallsOK, SaveCallsOK
<1>6. CASE \E read \in BOOLEAN : ReloadCalls(read)
  BY <1>6, ReloadCallsOK
<1> QED BY <1>1, <1>2, <1>3, <1>4, <1>5, <1>6 DEF CallsMove

-----------------------------------------------------------------------------
(* Requests and the keys they meet. *)
StepPlaces == {"new", "auth", "read", "consume", "work", "done", "gone"}
KeysTyped == keys \in Tables /\ admins \subseteq RawKeys /\ issued \subseteq Ids /\ today \in Nat
RequestsTyped ==
  /\ step \in [Requests -> StepPlaces]
  /\ (\A r \in Requests : kind[r] \in KindsOf[r]) /\ raw \in [Requests -> RawKeys \cup {Nobody}]
  /\ user \in [Requests -> Ids \cup {Admin, Nobody}] /\ began \in [Requests -> 0 .. clock]
  /\ tried \in [Requests -> SUBSET Accounts] /\ alive \subseteq Accounts
ServerTyped == accepting \in BOOLEAN /\ clock \in Nat /\ events \in 0 .. MaxEvents
ApiInv == KeysTyped /\ RequestsTyped /\ ServerTyped /\ CallsOK(clock)

LEMMA ApiInvIsTyped ==
  ASSUME ApiInv
  PROVE  ApiTypeOK
<1>1. CallsUpto(clock) \subseteq CallRecords
  BY DEF CallsUpto, CallRecords
<1>2. Seq(CallsUpto(clock)) \subseteq Seq(CallRecords)
  BY <1>1, SeqMonotonic
<1>3. \A h \in {calls, callsWritten, callsCopy} : h \in Seq(CallRecords) /\ Len(h) <= MaxEntries
  BY <1>2 DEF ApiInv, CallsOK, HistoryOK
<1>4. /\ {callsDirty, callsWake, callsRead} \subseteq BOOLEAN /\ callsSaver \in {Loop, Ender, "nobody"}
      /\ callsAt \in [{Loop, Ender} -> CallPlaces] /\ callsOpen \in {"running", "closing", "closed"}
  BY DEF ApiInv, CallsOK, CallFlagsOK
<1>5. KeysTyped /\ RequestsTyped /\ ServerTyped
  BY DEF ApiInv
<1> QED BY <1>3, <1>4, <1>5 DEF ApiTypeOK, KeysTyped, RequestsTyped, ServerTyped, CallPlaces, StepPlaces

\* No upstream and no quota has a part in the error.
Unsent(e) == e.quota = NoQuota /\ e.status = 0 /\ e.body.kind = "none"

\* The statuses an upstream answers with in Errors.
Statuses == {400, 401, 408, 409, 429, 500, 503, 504}

LEMMA BodiesOK == \A body \in Bodies \cup {NoBody} : body.kind = "json" => body.retryable \in {"unset", "no", "yes"}
BY DEF Bodies, Structured, NoBody

\* What the classification takes for granted of the errors the program makes.
LEMMA ErrorsAreOK ==
  ASSUME NEW e \in Errors
  PROVE  ErrorOK(e)
<1>0. \A x : Unsent(x) => ErrorOK(x)
  BY DEF Unsent, ErrorOK
<1>1. /\ \A s, p : Unsent(Sentinel(s, p))
      /\ \A p : Unsent(Says(p))
      /\ \A x, y, z : Unsent(Answered(x, y, z))
      /\ \A s, p : Unsent(Upload(Sentinel(s, p)))
      /\ Unsent(Conversation) /\ Unsent(Plain)
  BY DEF Unsent, Sentinel, Says, Answered, Upload, Conversation, Plain, NoBody
<1>2. ASSUME NEW u \in UpstreamErrors
      PROVE  ErrorOK(u) /\ ErrorOK(Upload(u))
  <2>0. \A body \in Bodies \cup {NoBody} : body.kind = "json" => body.retryable \in {"unset", "no", "yes"}
    BY BodiesOK
  <2>1. \E s \in Statuses, body \in Bodies \cup {NoBody} : u = Upstream(s, body) \/ u = Escaped(s, body)
    BY DEF UpstreamErrors, Statuses
  <2>2. ASSUME NEW s \in Statuses, NEW body \in Bodies \cup {NoBody}, NEW x \in {Upstream(s, body), Escaped(s, body)}
        PROVE  ErrorOK(x) /\ ErrorOK(Upload(x))
    <3>0. \E w : x = [Plain EXCEPT !.status = s, !.body = body, !.says = w]
      BY DEF Escaped, Upstream
    <3>1. x.quota = NoQuota /\ x.status = s /\ x.body = body
      BY <3>0 DEF Plain
    <3>2. Upload(x).quota = NoQuota /\ Upload(x).status = s /\ Upload(x).body = body
      BY <3>0 DEF Upload, Plain
    <3>3. s \in Int /\ (s > 0 => s >= 400 /\ s # 499)
      BY DEF Statuses
    <3> QED BY <2>0, <3>1, <3>2, <3>3 DEF ErrorOK
  <2> QED BY <2>1, <2>2
<1>3. CASE e \in UpstreamErrors \cup {Upload(u) : u \in UpstreamErrors}
  BY <1>2, <1>3
<1>4. CASE e \in QuotaErrors
  <2>1. PICK refused \in Refusals, status \in {401, 403, 429} : e = QuotaError(refused, status)
    BY <1>4 DEF QuotaErrors, Refusals
  <2>2. e.quota = [refused |-> refused, status |-> status] /\ e.status = 0 /\ e.body.kind = "none"
    BY <2>1 DEF QuotaError, Plain, NoBody
  <2> QED BY <2>2 DEF IsQuotaRefusal, ErrorOK
<1>7. CASE e \in {Provider(b) : b \in Bodies}
  <2>1. PICK b \in Bodies : e = Provider(b)
    BY <1>7
  <2>2. e.quota = NoQuota /\ e.status = 0 /\ e.body = b
    BY <2>1 DEF Provider, Plain
  <2> QED BY <2>2, BodiesOK DEF ErrorOK
<1>5. CASE e \in RequestErrors \/ e \in TaskErrors \/ e = Sentinel("noAccount", {})
  <2>1. Unsent(e)
    BY <1>1, <1>5 DEF RequestErrors, TaskErrors
  <2> QED BY <1>0, <2>1
<1>6. CASE e \in WebErrors /\ e \notin UpstreamErrors \cup {Upload(u) : u \in UpstreamErrors} \cup {Provider(b) : b \in Bodies}
  <2>1. \/ \E s, p : e = Sentinel(s, p) \/ e = Upload(Sentinel(s, p))
        \/ \E p : e = Says(p)
        \/ \E x, y, z : e = Answered(x, y, z)
        \/ e = Conversation
    BY <1>6 DEF WebErrors, Canceled
  <2>2. Unsent(e)
    BY <1>1, <2>1
  <2> QED BY <1>0, <2>2
<1> QED BY <1>3, <1>4, <1>5, <1>6, <1>7 DEF Errors

LEMMA WhyTurnedAway ==
  ASSUME NEW r
  PROVE  /\ TurnedAway(r) \in Refusals \cup {"nothing", "door"}
         /\ step[r] \notin {"auth", "consume"} => TurnedAway(r) = "nothing"
         /\ step[r] = "consume" => TurnedAway(r) = Refusal(user[r], kind[r])
<1>1. Refusal(user[r], kind[r]) \in Refusals \cup {"nothing"}
  BY DEF Refusal, Refusals
<1> QED BY <1>1, Zenon DEF TurnedAway

\* A call that is answered is recorded: as rejected when it was turned away,
\* unless for its images, as failed when the answer asks for another try.
LEMMA AnswerRecords ==
  ASSUME RequestsTyped, ServerTyped, NEW r \in Requests, NEW status, NEW error, Answer(r, status, error),
         error.retryable \in BOOLEAN, error.own \in BOOLEAN,
         error.retryable /\ ~error.own => MetricCallStatus(status, error.code, error.words) = "failed",
         TurnedAway(r) \notin Excused => MetricCallStatus(status, error.code, error.words) = "rejected"
  PROVE  (\E call \in CallsUpto(clock) : Record(call)) /\ step' = [step EXCEPT ![r] = "done"]
<1> DEFINE category == MetricCallStatus(status, error.code, error.words)
           call == [request |-> r, time |-> began[r], refused |-> TurnedAway(r),
                    retry |-> error.retryable /\ ~error.own, category |-> category]
<1>1. Record(call) /\ step' = [step EXCEPT ![r] = "done"]
  BY DEF Answer, GoTo
<1>2. category \in Categories
  BY CategoryOfCall
<1>3. began[r] \in 0 .. clock
  BY DEF RequestsTyped
<1>4. (call.refused \notin Excused => call.category = "rejected") /\ (call.retry => call.category = "failed")
  OBVIOUS
<1> HIDE DEF category
<1>5. call \in CallsUpto(clock)
  BY <1>2, <1>3, <1>4, WhyTurnedAway DEF CallsUpto
<1> QED BY <1>1, <1>5

LEMMA MildRecords ==
  ASSUME RequestsTyped, ServerTyped, NEW r \in Requests, NEW status, NEW error, Answer(r, status, error), Mild(error),
         TurnedAway(r) \notin Excused => MetricCallStatus(status, error.code, error.words) = "rejected"
  PROVE  (\E call \in CallsUpto(clock) : Record(call)) /\ step' = [step EXCEPT ![r] = "done"]
BY AnswerRecords DEF Mild

\* An answer to work records it too, whatever went wrong.
LEMMA ErrorsAreRecorded ==
  ASSUME RequestsTyped, ServerTyped, NEW r \in Requests, NEW e \in Errors, step[r] \notin {"auth", "consume"},
         AnswerError(r, e)
  PROVE  (\E call \in CallsUpto(clock) : Record(call)) /\ step' = [step EXCEPT ![r] = "done"]
<1>1. CASE AnswerInStream(r)
  BY <1>1, DoorIsRejected, MildRecords, WhyTurnedAway DEF AnswerInStream, Excused
<1>2. CASE AnswerTest(r, e)
  <2>1. Mild([NoError EXCEPT !.words = Words \cap e.says])
    BY DEF NoError, Mild
  <2> QED BY <1>2, <2>1, MildRecords, WhyTurnedAway DEF AnswerTest, Excused
<1>3. CASE WriteError(r, StatusFromError(e), e)
  <2> DEFINE info == Classify(e, StatusFromError(e))
             status == IF StatusFromError(e) <= 0 THEN info.status ELSE StatusFromError(e)
  <2>1. /\ info.retryable \in BOOLEAN /\ info.own \in BOOLEAN
        /\ info.retryable /\ ~info.own => MetricCallStatus(status, info.code, info.words) = "failed"
    BY ErrorsAreOK, ToldIsCounted
  <2>2. Answer(r, status, info)
    BY <1>3 DEF WriteError
  <2> HIDE DEF info, status
  <2> QED BY <2>1, <2>2, AnswerRecords, WhyTurnedAway DEF Excused
<1> QED BY <1>1, <1>2, <1>3 DEF AnswerError

LEMMA BadBodyIsRecorded ==
  ASSUME RequestsTyped, ServerTyped, NEW r \in Requests, NEW e \in RequestErrors, step[r] \notin {"auth", "consume"},
         WriteError(r, IF "tooLarge" \in e.is THEN 413 ELSE 400, e)
  PROVE  (\E call \in CallsUpto(clock) : Record(call)) /\ step' = [step EXCEPT ![r] = "done"]
<1> DEFINE status == IF "tooLarge" \in e.is THEN 413 ELSE 400
<1>1. Mild(Classify(e, status))
  BY BadBodyIsMild
<1>2. ~(status <= 0)
  OBVIOUS
<1> HIDE DEF status
<1>3. Answer(r, status, Classify(e, status))
  BY <1>2 DEF WriteError, status
<1> QED BY <1>1, <1>3, MildRecords, WhyTurnedAway DEF Excused

-----------------------------------------------------------------------------
(* The steps of a request. *)
LEMMA HandlerImages ==
  ASSUME NEW r \in Requests, NEW k \in KindsOf[r]
  PROVE  k.images \in Nat
<1>1. k \in Handlers(Models, Counts) /\ Counts \subseteq Int
  BY ApiConstants
<1>2. \A n \in Counts : ImageCount(n) \in Nat
  BY <1>1 DEF ImageCount
<1>3. \A m : /\ Search(m).images = 0 /\ ChatCompletions(m).images = 0 /\ Responses(m).images = 0 /\ Messages(m).images = 0
             /\ StreamedChat(m).images = 0 /\ StreamedResponses(m).images = 0 /\ StreamedMessages(m).images = 0
  BY DEF Search, ChatCompletions, Responses, Messages, StreamedChat, StreamedResponses, StreamedMessages, TextCall, Handler
<1>4. \A m, n : Generations(m, n).images = ImageCount(n) /\ Edits(m, n).images = ImageCount(n)
  BY DEF Generations, Edits, ImageCall, Handler
<1>5. AccountImageTest.images = 0
  BY DEF AccountImageTest, Handler
<1>6. CASE k = AccountImageTest
  BY <1>5, <1>6
<1>7. CASE \E m \in Models, n \in Counts : k = Generations(m, n) \/ k = Edits(m, n)
  BY <1>2, <1>4, <1>7
<1>8. CASE \E m \in Models : k \in {Search(m), ChatCompletions(m), Responses(m), Messages(m), StreamedChat(m),
                                    StreamedResponses(m), StreamedMessages(m)}
  BY <1>3, <1>8
<1>9. k = AccountImageTest \/ \E m \in Models : k \in HandlersFor(m, Counts)
  BY <1>1 DEF Handlers
<1> QED BY <1>6, <1>7, <1>8, <1>9 DEF HandlersFor

LEMMA ChargedTable ==
  ASSUME KeysTyped, NEW id, NEW call, call.images \in Nat, Refusal(id, call) = "nothing"
  PROVE  Charged(id, call) \in Tables
<1>1. keys \in Tables /\ today \in Nat
  BY DEF KeysTyped
<1> DEFINE old == OnDay(keys[id], today)
           key == [old EXCEPT !.requests = @ + 1, !.images = @ + call.images]
<1>2. Charged(id, call) = [keys EXCEPT ![id] = key]
  <2>1. Today(keys[id]) = old
    BY TodayIsOnDay
  <2> HIDE DEF old
  <2> QED BY <2>1 DEF Charged
<1>3. CASE id \in Ids
  <2>1. Exists(id)
    BY DEF Refusal
  <2>2. keys[id] \in Records
    BY <1>1, <1>3, <2>1, TableEntries DEF Exists, AllKeys
  <2>3. old \in Records
    BY <1>1, <2>2, OnDayType
  <2> HIDE DEF old
  <2>4. old.requests + 1 \in Nat /\ old.images + call.images \in Nat
    BY <2>3 DEF Records
  <2>5. key \in Records
    BY <2>3, <2>4 DEF Records
  <2> HIDE DEF key
  <2> QED BY <1>1, <1>2, <2>5 DEF Tables
<1>4. CASE id \notin Ids
  <2> HIDE DEF key
  <2> QED BY <1>1, <1>2, <1>4 DEF Tables
<1> QED BY <1>3, <1>4

\* What a request leaves alone, and where it may go.
LEMMA RequestStepOK ==
  ASSUME KeysTyped, RequestsTyped, ServerTyped, NEW r \in Requests, RequestStep(r)
  PROVE  /\ UNCHANGED <<admins, today, clock, issued, kind, raw, began, accepting, events>>
         /\ UNCHANGED callVars \/ \E call \in CallsUpto(clock) : Record(call)
         /\ \E next \in StepPlaces : step' = [step EXCEPT ![r] = next]
         /\ keys' \in Tables
         /\ user' = user \/ \E id \in Ids \cup {Admin} : user' = [user EXCEPT ![r] = id]
         /\ tried' = tried \/ \E a \in Accounts : tried' = [tried EXCEPT ![r] = @ \cup {a}]
         /\ alive' \subseteq alive
<1> DEFINE Recorded == (\E call \in CallsUpto(clock) : Record(call)) /\ step' = [step EXCEPT ![r] = "done"]
           Goes(here) == UNCHANGED callVars /\ step' = [step EXCEPT ![r] = here]
           Rest == UNCHANGED <<admins, today, clock, issued, kind, raw, began, accepting, events>>
           Keeps == Rest /\ UNCHANGED <<keys, user, tried, alive>>
<1>0. keys \in Tables /\ step \in [Requests -> StepPlaces] /\ tried \in [Requests -> SUBSET Accounts] /\ kind[r] \in KindsOf[r]
  BY DEF KeysTyped, RequestsTyped
<1>1. CASE Unauthorized(r)
  <2>1. Recorded
    <3>1. Answer(r, 401, NoError)
      BY <1>1 DEF Unauthorized
    <3> QED BY <3>1, DoorIsRejected, MildRecords
  <2> HIDE DEF Recorded
  <2>2. Keeps
    BY <1>1 DEF Unauthorized, NoKeys, keyVars
  <2> QED BY <1>0, <2>1, <2>2 DEF Recorded, StepPlaces
<1>2. CASE Authenticated(r)
  <2>1. PICK id \in IF raw[r] \in admins THEN {Admin} ELSE Owners(raw[r]) :
          /\ user' = [user EXCEPT ![r] = id]
          /\ IF id # Admin /\ kind[r].adminOnly THEN Answer(r, 403, NoError) ELSE GoTo(r, "read") /\ NoCalls
    BY <1>2 DEF Authenticated
  <2>2. id \in Ids \cup {Admin}
    BY <2>1 DEF Owners
  <2>3. Rest /\ UNCHANGED <<keys, tried, alive>>
    BY <1>2 DEF Authenticated, NoKeys, keyVars
  <2>4. CASE Answer(r, 403, NoError)
    <3>1. Recorded
      BY <2>4, DoorIsRejected, MildRecords
    <3> HIDE DEF Recorded
    <3> QED BY <1>0, <2>1, <2>2, <2>3, <3>1 DEF Recorded, StepPlaces
  <2>5. CASE GoTo(r, "read") /\ NoCalls
    <3>1. Goes("read")
      BY <2>5 DEF GoTo, NoCalls
    <3> HIDE DEF Goes
    <3> QED BY <1>0, <2>1, <2>2, <2>3, <3>1 DEF Goes, StepPlaces
  <2> QED BY <2>1, <2>4, <2>5
<1>3. CASE BadBody(r)
  <2>1. Recorded
    <3>1. step[r] = "read" /\ \E e \in RequestErrors : WriteError(r, IF "tooLarge" \in e.is THEN 413 ELSE 400, e)
      BY <1>3 DEF BadBody
    <3> QED BY <3>1, BadBodyIsRecorded
  <2> HIDE DEF Recorded
  <2>2. Keeps
    BY <1>3 DEF BadBody, NoKeys, keyVars
  <2> QED BY <1>0, <2>1, <2>2 DEF Recorded, StepPlaces
<1>4. CASE GoodBody(r)
  <2>1. Goes("consume") \/ Goes("work")
    BY <1>4 DEF GoodBody, GoTo, NoCalls
  <2>2. Keeps
    BY <1>4 DEF GoodBody, NoKeys, keyVars
  <2> QED BY <1>0, <2>1, <2>2 DEF StepPlaces
<1>5. CASE Refused(r)
  <2>1. Recorded
    <3> DEFINE refusal == Refusal(user[r], kind[r])
               e == QuotaError(refusal, RefusedStatus(refusal))
               status == StatusFromError(e)
               info == Classify(e, status)
    <3>1. refusal # "nothing" /\ WriteError(r, status, e)
      BY <1>5 DEF Refused
    <3>2. refusal \in Refusals /\ TurnedAway(r) = refusal
      BY <1>5, <3>1, WhyTurnedAway DEF Refused, Refusal, Refusals
    <3> HIDE DEF refusal
    <3>3. CASE refusal \in Refusals \ {"images"}
      <4>1. PICK refused \in Refusals \ {"images"} : refused = refusal
        BY <3>3
      <4>2. e = QuotaError(refused, RefusedStatus(refused))
        BY <4>1
      <4>3. status \in {401, 403, 429}
        <5> HIDE DEF e
        <5> QED BY <4>2, RefusalIsRejected DEF StatusFromError
      <4> HIDE DEF e, status
      <4>4. Mild(info) /\ MetricCallStatus(status, info.code, info.words) = "rejected"
        BY <4>2, <4>3, RefusalIsRejected
      <4>5. Answer(r, status, info)
        <5>1. ~ (status <= 0)
          BY <4>3
        <5> QED BY <3>1, <5>1 DEF WriteError
      <4> HIDE DEF info
      <4> QED BY <4>4, <4>5, MildRecords
    <3>4. CASE refusal = "images"
      <4>1. e = QuotaError("images", 429)
        BY <3>4 DEF RefusedStatus
      <4> HIDE DEF e
      <4>2. status = 429
        BY <4>1, ImageRefusalIsFailure DEF StatusFromError
      <4> HIDE DEF status
      <4>3. /\ info.retryable \in BOOLEAN /\ info.own \in BOOLEAN
            /\ MetricCallStatus(status, info.code, info.words) = "failed"
        BY <4>1, <4>2, ImageRefusalIsFailure
      <4>4. Answer(r, status, info)
        BY <3>1, <4>2 DEF WriteError
      <4> HIDE DEF info
      <4> QED BY <3>2, <3>4, <4>3, <4>4, AnswerRecords DEF Excused
    <3> QED BY <3>2, <3>3, <3>4
  <2> HIDE DEF Recorded
  <2>2. Keeps
    BY <1>5 DEF Refused, NoKeys, keyVars
  <2> QED BY <1>0, <2>1, <2>2 DEF Recorded, StepPlaces
<1>6. CASE Admitted(r)
  <2>1. keys' \in Tables
    BY <1>0, <1>6, HandlerImages, ChargedTable DEF Admitted
  <2>2. Goes("work") /\ Rest /\ UNCHANGED <<user, tried, alive>>
    BY <1>6 DEF Admitted, GoTo, NoCalls
  <2> QED BY <2>1, <2>2 DEF StepPlaces
<1>7. CASE Succeeds(r)
  <2>1. Recorded
    <3>1. step[r] = "work" /\ Answer(r, 200, NoError)
      BY <1>7 DEF Succeeds
    <3> QED BY <3>1, DoorIsRejected, MildRecords, WhyTurnedAway DEF Excused
  <2> HIDE DEF Recorded
  <2>2. Keeps
    BY <1>7 DEF Succeeds, NoKeys, keyVars
  <2> QED BY <1>0, <2>1, <2>2 DEF Recorded, StepPlaces
<1>8. CASE ImageFails(r)
  <2>1. Recorded
    <3>1. step[r] = "work" /\ \E e \in Errors : AnswerError(r, e)
      BY <1>8, ApiConstants DEF ImageFails
    <3> QED BY <3>1, ErrorsAreRecorded
  <2> HIDE DEF Recorded
  <2>2. Keeps
    BY <1>8 DEF ImageFails, NoKeys, keyVars
  <2> QED BY <1>0, <2>1, <2>2 DEF Recorded, StepPlaces
<1>9. CASE NoAccountLeft(r)
  <2>1. Recorded
    <3>1. Sentinel("noAccount", {}) \in Errors
      BY DEF Errors
    <3>2. step[r] = "work" /\ \E e \in Errors : AnswerError(r, e)
      BY <1>9, <3>1, ApiConstants DEF NoAccountLeft
    <3> QED BY <3>2, ErrorsAreRecorded
  <2> HIDE DEF Recorded
  <2>2. Keeps
    BY <1>9 DEF NoAccountLeft, NoKeys, keyVars
  <2> QED BY <1>0, <2>1, <2>2 DEF Recorded, StepPlaces
<1>11. CASE IdentityFails(r)
  <2>1. Recorded
    <3>1. Plain \in Errors
      BY DEF Errors, RequestErrors
    <3>2. step[r] = "work" /\ \E e \in Errors : AnswerError(r, e)
      BY <1>11, <3>1 DEF IdentityFails
    <3> QED BY <3>2, ErrorsAreRecorded
  <2> HIDE DEF Recorded
  <2>2. Keeps
    BY <1>11 DEF IdentityFails, NoKeys, keyVars
  <2> QED BY <1>0, <2>1, <2>2 DEF Recorded, StepPlaces
<1>10. CASE \E a \in Accounts : AttemptFails(r, a)
  <2>1. PICK a \in Accounts : AttemptFails(r, a)
    BY <1>10
  <2>2. PICK e \in WorkErrors :
          /\ alive' = IF IsAuthentication(e) THEN alive \ {a} ELSE alive
          /\ IF IsAuthentication(e) /\ ~LastAttempt(r)
             THEN tried' = [tried EXCEPT ![r] = @ \cup {a}] /\ NoCalls /\ UNCHANGED step
             ELSE AnswerError(r, e) /\ UNCHANGED tried
    BY <2>1 DEF AttemptFails
  <2>3. step[r] = "work" /\ Rest /\ UNCHANGED <<keys, user>> /\ alive' \subseteq alive
    BY <2>1, <2>2 DEF AttemptFails, NoKeys, keyVars
  <2>4. CASE AnswerError(r, e) /\ UNCHANGED tried
    <3>1. Recorded
      BY <2>3, <2>4, ApiConstants, ErrorsAreRecorded
    <3> HIDE DEF Recorded
    <3> QED BY <1>0, <2>3, <2>4, <3>1 DEF Recorded, StepPlaces
  <2>5. CASE tried' = [tried EXCEPT ![r] = @ \cup {a}] /\ NoCalls /\ UNCHANGED step
    <3>1. step' = [step EXCEPT ![r] = step[r]] /\ step[r] \in StepPlaces
      BY <1>0, <2>5
    <3> QED BY <1>0, <2>3, <2>5, <3>1 DEF NoCalls
  <2> QED BY <2>2, <2>4, <2>5
<1> QED BY <1>1, <1>2, <1>3, <1>4, <1>5, <1>6, <1>7, <1>8, <1>9, <1>10, <1>11 DEF RequestStep

LEMMA ChangedTables ==
  ASSUME KeysTyped, EditKeys
  PROVE  keys' \in Tables /\ issued' \subseteq Ids
<1>0. keys \in Tables /\ issued \subseteq Ids /\ today \in Nat
  BY DEF KeysTyped
<1>1. PICK id \in Ids :
        \/ \E s \in RawKeys : id \notin issued /\ ~Taken(s, id) /\ keys' = Created(id, s) /\ issued' = issued \cup {id}
        \/ \E s \in RawKeys, on \in BOOLEAN, l \in Limits :
             MayUpdate(id, s) /\ keys' = Updated(id, on, s, l) /\ UNCHANGED issued
        \/ \E s \in RawKeys \cup {Nobody}, on \in BOOLEAN :
             MayNotUpdate(id, s) /\ keys' = Switched(id, on) /\ UNCHANGED issued
        \/ Exists(id) /\ keys' = Deleted(id) /\ UNCHANGED issued
  BY DEF EditKeys
<1>2. issued' \subseteq Ids
  BY <1>0, <1>1
<1>3. Exists(id) => keys[id] \in Records
  BY <1>0, TableEntries DEF Exists, AllKeys
<1>4. ASSUME NEW key \in Records \cup {NoKey} PROVE [keys EXCEPT ![id] = key] \in Tables
  BY <1>0 DEF Tables
<1>5. ASSUME NEW s \in RawKeys, keys' = Created(id, s) PROVE keys' \in Tables
  <2>1. NewKey(s) \in Records
    BY <1>0 DEF NewKey, Records
  <2> QED BY <1>4, <1>5, <2>1 DEF Created
<1>6. ASSUME NEW s \in RawKeys, NEW on \in BOOLEAN, NEW l \in Limits, MayUpdate(id, s), keys' = Updated(id, on, s, l)
      PROVE  keys' \in Tables
  <2> DEFINE key == [keys[id] EXCEPT !.enabled = on, !.raw = s, !.limits = l]
  <2>1. key \in Records
    BY <1>3, <1>6 DEF MayUpdate, Records
  <2>2. keys' = [keys EXCEPT ![id] = key]
    BY <1>0, <1>6 DEF Updated, Tables
  <2> HIDE DEF key
  <2> QED BY <1>4, <2>1, <2>2
<1>7. ASSUME NEW s, NEW on \in BOOLEAN, MayNotUpdate(id, s), keys' = Switched(id, on)
      PROVE  keys' \in Tables
  <2> DEFINE key == [keys[id] EXCEPT !.enabled = on]
  <2>1. key \in Records
    BY <1>3, <1>7 DEF MayNotUpdate, Records
  <2>2. keys' = [keys EXCEPT ![id] = key]
    BY <1>0, <1>7 DEF Switched, Tables
  <2> HIDE DEF key
  <2> QED BY <1>4, <2>1, <2>2
<1>8. CASE keys' = Deleted(id)
  BY <1>2, <1>4, <1>8 DEF Deleted
<1>9. keys' \in Tables
  BY <1>1, <1>5, <1>6, <1>7, <1>8, Zenon
<1> QED BY <1>2, <1>9

LEMMA HistoryStep ==
  ASSUME CallsOK(clock), CallsMove(clock), clock \in Nat, clock' \in Nat, clock <= clock'
  PROVE  CallsOK(clock)'
<1>1. PICK t \in Nat : t = clock
  OBVIOUS
<1>2. CallsOK(t)'
  BY <1>1, CallsMoveOK
<1>3. \A h : HistoryOK(h, t) => HistoryOK(h, clock')
  BY <1>1, LaterHistory
<1> QED BY <1>2, <1>3 DEF CallsOK, HistoryOK

\* A step that only the history takes part in.
LEMMA HistoryOnly ==
  ASSUME ApiInv, UNCHANGED keyVars, UNCHANGED requestVars, CallsMove(clock),
         accepting' \in BOOLEAN, events' \in 0 .. MaxEvents
  PROVE  ApiInv'
<1>1. KeysTyped' /\ RequestsTyped' /\ ServerTyped' /\ clock' = clock
  BY DEF ApiInv, KeysTyped, RequestsTyped, ServerTyped, keyVars, requestVars
<1>2. CallsOK(clock)'
  BY <1>1, HistoryStep DEF ApiInv, ServerTyped
<1> QED BY <1>1, <1>2 DEF ApiInv

LEMMA EventStays ==
  ASSUME ServerTyped, Event
  PROVE  events' \in 0 .. MaxEvents
BY TableConstants DEF ServerTyped, Event

LEMMA RequestKeepsInv ==
  ASSUME ApiInv, NEW r \in Requests, RequestStep(r)
  PROVE  ApiInv'
<1>0. KeysTyped /\ RequestsTyped /\ ServerTyped /\ CallsOK(clock)
  BY DEF ApiInv
<1>1. /\ UNCHANGED <<admins, today, clock, issued, kind, raw, began, accepting, events>>
      /\ UNCHANGED callVars \/ \E call \in CallsUpto(clock) : Record(call)
      /\ \E next \in StepPlaces : step' = [step EXCEPT ![r] = next]
      /\ keys' \in Tables
      /\ user' = user \/ \E id \in Ids \cup {Admin} : user' = [user EXCEPT ![r] = id]
      /\ tried' = tried \/ \E a \in Accounts : tried' = [tried EXCEPT ![r] = @ \cup {a}]
      /\ alive' \subseteq alive
  BY <1>0, RequestStepOK
<1>2. KeysTyped' /\ ServerTyped'
  BY <1>0, <1>1 DEF KeysTyped, ServerTyped
<1>3. step' \in [Requests -> StepPlaces]
  BY <1>0, <1>1 DEF RequestsTyped
<1>4. user' \in [Requests -> Ids \cup {Admin, Nobody}]
  BY <1>0, <1>1 DEF RequestsTyped
<1>5. tried' \in [Requests -> SUBSET Accounts]
  <2>1. tried \in [Requests -> SUBSET Accounts]
    BY <1>0 DEF RequestsTyped
  <2>2. CASE \E a \in Accounts : tried' = [tried EXCEPT ![r] = @ \cup {a}]
    <3>1. PICK a \in Accounts : tried' = [tried EXCEPT ![r] = tried[r] \cup {a}]
      BY <2>1, <2>2
    <3>2. tried[r] \cup {a} \in SUBSET Accounts
      BY <2>1
    <3> QED BY <2>1, <3>1, <3>2
  <2> QED BY <1>1, <2>1, <2>2
<1>6. RequestsTyped'
  BY <1>0, <1>1, <1>3, <1>4, <1>5 DEF RequestsTyped
<1>7. CallsOK(clock)'
  BY <1>0, <1>1, HistoryStep DEF CallsMove, ServerTyped
<1> QED BY <1>2, <1>6, <1>7 DEF ApiInv

LEMMA ArriveKeepsInv ==
  ASSUME ApiInv, NEW r \in Requests, NEW k \in KindsOf[r], NEW secret \in SecretsOf[r], Arrive(r, k, secret)
  PROVE  ApiInv'
<1>0. KeysTyped /\ RequestsTyped /\ ServerTyped
  BY DEF ApiInv
<1>1. /\ step' = [step EXCEPT ![r] = "auth"] /\ kind' = [kind EXCEPT ![r] = k]
      /\ raw' = [raw EXCEPT ![r] = secret] /\ began' = [began EXCEPT ![r] = clock]
      /\ UNCHANGED keyVars /\ UNCHANGED callVars /\ UNCHANGED <<user, tried, alive, accepting, events>>
  BY DEF Arrive, GoTo, NoKeys, NoCalls
<1>2. secret \in RawKeys
  BY ApiConstants
<1>3. KeysTyped' /\ ServerTyped' /\ clock' = clock
  BY <1>0, <1>1 DEF KeysTyped, ServerTyped, keyVars
<1>4. step' \in [Requests -> StepPlaces] /\ raw' \in [Requests -> RawKeys \cup {Nobody}]
  BY <1>0, <1>1, <1>2 DEF RequestsTyped, StepPlaces
<1>5. began' \in [Requests -> 0 .. clock']
  <2>1. clock \in 0 .. clock /\ began \in [Requests -> 0 .. clock]
    BY <1>0 DEF ServerTyped, RequestsTyped
  <2> QED BY <1>1, <1>3, <2>1
<1>6. \A q \in Requests : kind'[q] \in KindsOf[q]
  BY <1>0, <1>1 DEF RequestsTyped
<1>7. RequestsTyped'
  BY <1>0, <1>1, <1>4, <1>5, <1>6 DEF RequestsTyped
<1>8. CallsOK(clock)'
  BY <1>0, <1>1, <1>3, HistoryStep DEF ApiInv, CallsMove, ServerTyped
<1> QED BY <1>3, <1>7, <1>8 DEF ApiInv

LEMMA ApiStepOK ==
  ASSUME ApiInv, ApiNext
  PROVE  ApiInv'
<1>0. KeysTyped /\ RequestsTyped /\ ServerTyped /\ CallsOK(clock) /\ clock \in Nat
  BY DEF ApiInv, ServerTyped
<1>1. CASE \E r \in Requests : RequestStep(r) \/ \E k \in KindsOf[r], s \in SecretsOf[r] : Arrive(r, k, s)
  BY <1>1, RequestKeepsInv, ArriveKeepsInv
<1>2. CASE EditKeys \/ EditAdmins
  <2>1. AdminChange /\ NoCalls /\ (EditKeys \/ UNCHANGED <<keys, issued>>) /\ (UNCHANGED admins \/ admins' \subseteq RawKeys)
    BY <1>2 DEF EditKeys, EditAdmins
  <2>2. KeysTyped'
    <3>1. keys' \in Tables /\ issued' \subseteq Ids
      BY <1>0, <2>1, ChangedTables DEF KeysTyped
    <3> QED BY <1>0, <2>1, <3>1 DEF KeysTyped, AdminChange
  <2>3. RequestsTyped' /\ ServerTyped' /\ clock' = clock
    BY <1>0, <2>1, EventStays DEF RequestsTyped, ServerTyped, AdminChange, requestVars
  <2>4. CallsOK(clock)'
    BY <1>0, <2>1, <2>3, HistoryStep DEF CallsMove, NoCalls
  <2> QED BY <2>2, <2>3, <2>4 DEF ApiInv
<1>3. CASE EditCalls
  <2>1. UNCHANGED keyVars /\ UNCHANGED requestVars /\ accepting' = accepting /\ Event
        /\ \E chosen \in SUBSET Requests : DeleteCalls(chosen)
    BY <1>3 DEF EditCalls, AdminChange, keyVars
  <2> QED BY <1>0, <2>1, EventStays, HistoryOnly DEF CallsMove, ServerTyped
<1>4. CASE Tick
  <2>1. /\ Event /\ clock' = clock + 1 /\ today' \in {today, today + 1} /\ UNCHANGED callVars
        /\ UNCHANGED <<keys, admins, issued, accepting>> /\ UNCHANGED requestVars
    BY <1>4 DEF Tick, NoCalls
  <2>2. KeysTyped' /\ ServerTyped'
    BY <1>0, <2>1, EventStays DEF KeysTyped, ServerTyped
  <2>3. RequestsTyped'
    <3>1. began' \in [Requests -> 0 .. clock']
      <4>1. 0 .. clock \subseteq 0 .. clock' /\ began \in [Requests -> 0 .. clock] /\ began' = began
        BY <1>0, <2>1 DEF RequestsTyped, requestVars
      <4> QED BY <4>1
    <3> QED BY <1>0, <2>1, <3>1 DEF RequestsTyped, requestVars
  <2>4. CallsOK(clock)'
    BY <1>0, <2>1, HistoryStep DEF CallsMove
  <2> QED BY <2>2, <2>3, <2>4 DEF ApiInv
<1>5. CASE CallsAreSaved \/ CallsFail \/ CloseServer
  <2>1. /\ UNCHANGED keyVars /\ UNCHANGED requestVars /\ accepting' = accepting
        /\ events' = events \/ Event
        /\ \/ LoopStep \/ EnderStep \/ CloseCalls
           \/ \E p \in {Loop, Ender} : TakeCalls(p) \/ \E ok \in BOOLEAN, landed \in BOOLEAN : SaveCalls(p, ok, landed)
    BY <1>5 DEF CallsAreSaved, CallsFail, CloseServer, NoKeys
  <2>2. CallsMove(clock)
    BY <2>1 DEF CallsMove
  <2> QED BY <1>0, <2>1, <2>2, EventStays, HistoryOnly DEF ServerTyped
<1>6. CASE Shutdown
  BY <1>0, <1>6, HistoryOnly DEF Shutdown, NoKeys, NoCalls, CallsMove, ServerTyped
<1>7. CASE StartServer
  <2>1. /\ Event /\ accepting' = TRUE /\ admins' = AdminKeys
        /\ step' = [r \in Requests |-> IF step[r] = "new" THEN "new" ELSE "gone"]
        /\ UNCHANGED <<keys, today, clock, issued, kind, raw, user, began, tried, alive>>
        /\ \E read \in BOOLEAN : ReloadCalls(read)
    BY <1>7 DEF StartServer
  <2>2. KeysTyped' /\ ServerTyped'
    BY <1>0, <2>1, EventStays, TableConstants DEF KeysTyped, ServerTyped
  <2>3. RequestsTyped'
    BY <1>0, <2>1 DEF RequestsTyped, StepPlaces
  <2>4. CallsOK(clock)'
    BY <1>0, <2>1, HistoryStep DEF CallsMove
  <2> QED BY <2>2, <2>3, <2>4 DEF ApiInv
<1> QED BY <1>1, <1>2, <1>3, <1>4, <1>5, <1>6, <1>7 DEF ApiNext

LEMMA ApiStarts == ApiInit => ApiInv
<1> SUFFICES ASSUME ApiInit PROVE ApiInv
  OBVIOUS
<1>1. KeysTyped
  BY TableConstants DEF ApiInit, KeysTyped
<1>2. ServerTyped
  BY TableConstants DEF ApiInit, ServerTyped
<1>3. \A r \in Requests : kind[r] \in KindsOf[r]
  <2>1. \A r \in Requests : KindsOf[r] # {}
    BY ApiConstants
  <2>2. kind = [r \in Requests |-> CHOOSE k \in KindsOf[r] : TRUE]
    BY DEF ApiInit
  <2> QED BY <2>1, <2>2
<1>4. began \in [Requests -> 0 .. clock]
  BY DEF ApiInit
<1>5. RequestsTyped
  BY <1>3, <1>4 DEF ApiInit, RequestsTyped, StepPlaces
<1>6. CallsOK(clock)
  <2>1. HistoryOK(calls, clock) /\ HistoryOK(callsWritten, clock) /\ HistoryOK(callsCopy, clock)
    BY NoHistory DEF ApiInit, CallsInit
  <2>2. CallFlagsOK
    BY DEF ApiInit, CallsInit, CallFlagsOK, CallPlaces
  <2>3. SavesHoldLock /\ CopyIsCurrent /\ CleanHistoryIsStored
    BY MetricConstants DEF ApiInit, CallsInit, SavesHoldLock, CopyIsCurrent, CleanHistoryIsStored
  <2> QED BY <2>1, <2>2, <2>3 DEF CallsOK
<1> QED BY <1>1, <1>2, <1>5, <1>6 DEF ApiInv

THEOREM ApiInvariant == ApiSpec => []ApiInv
<1>1. ApiInv /\ [ApiNext]_apiVars => ApiInv'
  <2> SUFFICES ASSUME ApiInv, [ApiNext]_apiVars PROVE ApiInv'
    OBVIOUS
  <2>1. CASE ApiNext
    BY <2>1, ApiStepOK
  <2>2. CASE UNCHANGED apiVars
    <3>1. UNCHANGED keyVars /\ UNCHANGED requestVars /\ UNCHANGED callVars /\ UNCHANGED <<accepting, events>>
      BY <2>2 DEF apiVars
    <3> QED BY <3>1, HistoryOnly DEF CallsMove, ApiInv, ServerTyped
  <2> QED BY <2>1, <2>2
<1> QED BY ApiStarts, <1>1, PTL DEF ApiSpec

(* Requests, keys and histories always have their types: what a deletion   *)
(* leaves of a history is a history, and the answer to every error says    *)
(* whether to try again.                                                   *)
THEOREM ApiTypeCorrect == ApiSpec => []ApiTypeOK
<1>1. ApiInv => ApiTypeOK
  BY ApiInvIsTyped
<1> QED BY <1>1, ApiInvariant, PTL

(* A history that is marked clean and that nobody is writing is the stored *)
(* one, although it is marked clean before the write and calls go on being *)
(* recorded and deleted meanwhile.                                         *)
THEOREM CleanHistoriesAreStored == ApiSpec => []CleanHistoryIsStored
<1>1. ApiInv => CleanHistoryIsStored
  BY DEF ApiInv, CallsOK
<1> QED BY <1>1, ApiInvariant, PTL

(* A view that counts successes and failures does not see the calls that   *)
(* were turned away, unless for their images: they are recorded as         *)
(* rejected, which takes Consume, the classes of errors and the recorder's *)
(* reading of them.                                                        *)
LEMMA RefusalsAreNotCounted ==
  ASSUME ApiInv, NEW from, NEW to, NEW category \in {"success", "failed"}
  PROVE  LET all == Entries(calls)
             worked == {e \in all : e[2].refused \in Excused}
         IN CountOf(Within(all, from, to), category) = CountOf(Within(worked, from, to), category)
<1> DEFINE all == Entries(calls)
           worked == {e \in all : e[2].refused \in Excused}
<1>1. ASSUME NEW e \in all, e[2].refused \notin Excused PROVE e[2].category # category
  <2>1. calls \in Seq(CallsUpto(clock))
    BY DEF ApiInv, CallsOK, HistoryOK
  <2>2. PICK i \in DOMAIN calls : e = <<i, calls[i]>>
    BY DEF Entries
  <2>3. calls[i] \in CallsUpto(clock)
    <3>1. i \in 1 .. Len(calls)
      BY <2>1, <2>2
    <3> QED BY <2>1, <3>1, ElementOfSeq
  <2>4. e[2] \in CallsUpto(clock)
    BY <2>2, <2>3
  <2> QED BY <1>1, <2>4 DEF CallsUpto
<1> HIDE DEF all
<1>2. {e \in Within(all, from, to) : e[2].category = category} = {e \in Within(worked, from, to) : e[2].category = category}
  BY <1>1 DEF Within
<1> QED BY <1>2 DEF CountOf, all

(* Calls turned away for their key, their rights or the day's number of    *)
(* requests never count against the service, whatever the keys, handlers,  *)
(* errors and histories; those turned away for the images of the day do.   *)
THEOREM RefusalsNeverCount == ApiSpec => []RefusalsAreNotFailures
<1>1. ASSUME ApiInv PROVE RefusalsAreNotFailures
  <2> DEFINE all == Entries(calls)
             worked == {e \in all : e[2].refused \in Excused}
  <2>1. ASSUME NEW now, NEW window
        PROVE  RecentStats(all, now, window) = RecentStats(worked, now, window)
    <3>1. \A c \in {"success", "failed"} : CountOf(Within(all, now - window, now), c) = CountOf(Within(worked, now - window, now), c)
      BY <1>1, RefusalsAreNotCounted
    <3> HIDE DEF all, worked
    <3>2. \A entries : RecentStats(entries, now, window) =
             LET of(c) == CountOf(Within(entries, now - window, now), c)
             IN [total |-> of("success") + of("failed"), success |-> of("success"), failed |-> of("failed")]
      BY DEF RecentStats, SummaryRange, Categories
    <3> QED BY <3>1, <3>2
  <2>2. ASSUME NEW now, NEW window
        PROVE  Stability(all, now, window) = Stability(worked, now, window)
    <3> HIDE DEF all, worked
    <3> QED BY <2>1 DEF Stability
  <2> QED BY <2>1, <2>2 DEF RefusalsAreNotFailures, SameViews, Excused
<1>2. ApiInv => RefusalsAreNotFailures
  BY <1>1
<1> QED BY <1>2, ApiInvariant, PTL

(* A call whose caller the program itself tells to try again is counted    *)
(* against the service: what is answered by the class of an error, and     *)
(* what the recorder makes of the status, the code and the message it      *)
(* reads back, agree.  An upstream that spells out a code or a message of  *)
(* its own is passed on as it is, and is not part of this.                 *)
THEOREM RetriesCountAsFailures == ApiSpec => []RetryableIsFailure
<1>1. ASSUME ApiInv, NEW i \in DOMAIN calls, calls[i].retry
      PROVE  calls[i].category = "failed"
  <2>1. calls \in Seq(CallsUpto(clock)) /\ i \in 1 .. Len(calls)
    BY <1>1 DEF ApiInv, CallsOK, HistoryOK
  <2>2. calls[i] \in CallsUpto(clock)
    BY <2>1, ElementOfSeq
  <2> QED BY <1>1, <2>2 DEF CallsUpto
<1>2. ApiInv => RetryableIsFailure
  BY <1>1 DEF RetryableIsFailure
<1> QED BY <1>2, ApiInvariant, PTL
=============================================================================
