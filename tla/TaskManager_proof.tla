-------------------------- MODULE TaskManager_proof --------------------------
(***************************************************************************)
(* Theorems about the task manager, for any tasks, limits and number of    *)
(* crashes.                                                                *)
(***************************************************************************)
EXTENDS TaskManager, FiniteSetTheorems, SequenceTheorems, TLAPS

Owned == {"created", "queued", "run", "waiting", "acquire"}

TaskTypes ==
  /\ status \in [Tasks -> Statuses]
  /\ ToSet(finished) = {t \in Tasks : status[t] = "completed"}
  /\ live \subseteq Tasks
  /\ job \in [Tasks -> Jobs]
  /\ held \subseteq Submitted
  /\ slots \in 0 .. WorkerLimit
  /\ Len(queue) <= QueueLimit
  /\ dispatch \in {"select", "slot", "drain", "done"}
  /\ inHand \in Submitted \union {NoTask}
  /\ closer \in Closing \union {"open"}

\* No task is twice in the channel, nor there and with the dispatcher, nor
\* twice in the list of those completed.
ListsOK ==
  /\ queue \in Seq(Submitted) /\ IsInjective(queue) /\ inHand \notin ToSet(queue)
  /\ finished \in Seq(Tasks) /\ IsInjective(finished)

\* How far the dispatcher and Close have come together.
StopOK ==
  /\ inHand # NoTask <=> dispatch = "slot"
  /\ dispatch \in {"drain", "done"} => Stopped
  /\ dispatch = "done" => queue = <<>>
  /\ closer \in {"workers", "writer", "closed"} => dispatch = "done"
  /\ closer \in {"writer", "closed"} => WorkersIdle

FreshOK ==
  \A t \in Tasks :
    /\ job[t] = "new" => status[t] = "none"
    /\ job[t] = "created" => t \in Submitted

TasksInv == TaskTypes /\ ListsOK /\ StopOK /\ FreshOK /\ OwnedUntilFinished /\ SlotsMatchWorkers

StoreTypes ==
  /\ dirty \subseteq Tasks
  /\ wake \in BOOLEAN
  /\ writer \in {"idle", "save", "done"}
  /\ last \in BOOLEAN
  /\ batch \in [Tasks -> Statuses]
  /\ durable \in [Tasks -> Statuses]
  /\ crashes \in 0 .. MaxCrashes

\* A task that has changed since it was copied for the save is dirty again.
CopiedOK ==
  \A t \in Tasks :
    writer = "save" /\ batch[t] # "none" /\ status[t] \notin {"none", batch[t]} => t \in dirty

\* What is dirty has woken the loop, and without a store there is no loop.
StoreInv ==
  /\ StoreTypes
  /\ UnsavedIsPending /\ CopiedOK
  /\ dirty # {} /\ writer # "done" => wake
  /\ ~Persistent => writer = "done"

IInv == TasksInv /\ StoreInv


-----------------------------------------------------------------------------
(* Sequences without duplicates *)

LEMMA Domains ==
  ASSUME NEW S, NEW q \in Seq(S)
  PROVE  DOMAIN q = 1 .. Len(q) /\ Len(q) \in Nat /\ ToSet(q) \subseteq S
BY LenProperties, ElementOfSeq DEF ToSet

LEMMA EmptyRange == <<>> \in Seq(Submitted) /\ <<>> \in Seq(Tasks) /\ ToSet(<<>>) = {} /\ IsInjective(<<>>)
BY DEF ToSet, IsInjective

LEMMA AppendRange ==
  ASSUME NEW S, NEW q \in Seq(S), NEW t \in S
  PROVE  /\ Append(q, t) \in Seq(S)
         /\ Len(Append(q, t)) = Len(q) + 1
         /\ ToSet(Append(q, t)) = ToSet(q) \cup {t}
         /\ IsInjective(q) /\ t \notin ToSet(q) => IsInjective(Append(q, t))
<1>1. /\ Append(q, t) \in Seq(S) /\ Len(Append(q, t)) = Len(q) + 1
      /\ \A i \in 1 .. Len(q) : Append(q, t)[i] = q[i]
      /\ Append(q, t)[Len(q) + 1] = t
  BY AppendProperties
<1>2. DOMAIN q = 1 .. Len(q) /\ DOMAIN Append(q, t) = 1 .. Len(q) + 1 /\ Len(q) \in Nat
  BY <1>1, Domains
<1>3. ToSet(Append(q, t)) = ToSet(q) \cup {t}
  BY <1>1, <1>2 DEF ToSet
<1>4. IsInjective(q) /\ t \notin ToSet(q) => IsInjective(Append(q, t))
  BY <1>1, <1>2 DEF ToSet, IsInjective
<1>5. QED BY <1>1, <1>3, <1>4

LEMMA Shift ==
  ASSUME NEW k \in Nat, NEW n \in Nat, n <= k
  PROVE  /\ k - (n + 1) + 1 = k - n
         /\ (IF n + 1 <= k THEN k - (n + 1) + 1 ELSE 0) = k - n
         /\ \A i \in 1 .. k - n : (n + 1) + i - 1 = n + i
OBVIOUS

\* The rest of a sequence and what was before it have nothing in common.
LEMMA SplitRange ==
  ASSUME NEW S, NEW q \in Seq(S), IsInjective(q), NEW n \in 0 .. Len(q)
  PROVE  /\ SubSeq(q, n + 1, Len(q)) \in Seq(S)
         /\ Len(SubSeq(q, n + 1, Len(q))) = Len(q) - n
         /\ IsInjective(SubSeq(q, n + 1, Len(q)))
         /\ ToSet(SubSeq(q, n + 1, Len(q))) = ToSet(q) \ ToSet(SubSeq(q, 1, n))
         /\ \A x \in ToSet(SubSeq(q, 1, n)) : \E i \in 1 .. n : x = q[i]
<1> DEFINE rest == SubSeq(q, n + 1, Len(q))
           gone == SubSeq(q, 1, n)
<1>1. DOMAIN q = 1 .. Len(q) /\ Len(q) \in Nat /\ n \in Nat /\ n <= Len(q)
  BY Domains
<1>2. \A i \in 1 .. Len(q) : q[i] \in S
  BY <1>1, ElementOfSeq
<1>3. /\ rest \in Seq(S) /\ Len(rest) = Len(q) - n
      /\ \A i \in 1 .. Len(q) - n : rest[i] = q[n + i]
  <2>1. n + 1 \in Int /\ Len(q) \in Int /\ \A i \in n + 1 .. Len(q) : q[i] \in S
    BY <1>1, <1>2
  <2>2. /\ rest \in Seq(S)
        /\ Len(rest) = IF n + 1 <= Len(q) THEN Len(q) - (n + 1) + 1 ELSE 0
        /\ \A i \in 1 .. Len(q) - (n + 1) + 1 : rest[i] = q[(n + 1) + i - 1]
    BY <2>1, SubSeqProperties
  <2>3. /\ Len(q) - (n + 1) + 1 = Len(q) - n
        /\ (IF n + 1 <= Len(q) THEN Len(q) - (n + 1) + 1 ELSE 0) = Len(q) - n
        /\ \A i \in 1 .. Len(q) - n : (n + 1) + i - 1 = n + i
    BY <1>1, Shift
  <2>4. Len(rest) = Len(q) - n
    BY <2>2, <2>3
  <2>5. ASSUME NEW i \in 1 .. Len(q) - n PROVE rest[i] = q[n + i]
    <3>1. i \in 1 .. Len(q) - (n + 1) + 1 /\ (n + 1) + i - 1 = n + i
      BY <2>3
    <3>2. rest[i] = q[(n + 1) + i - 1]
      BY <2>2, <3>1
    <3>3. QED BY <3>1, <3>2
  <2>6. QED BY <2>2, <2>4, <2>5
<1>4. gone \in Seq(S) /\ Len(gone) = n /\ \A i \in 1 .. n : gone[i] = q[i]
  <2>1. \A i \in 1 .. n : q[i] \in S
    BY <1>1, <1>2
  <2>2. /\ gone \in Seq(S)
        /\ Len(gone) = IF 1 <= n THEN n - 1 + 1 ELSE 0
        /\ \A i \in 1 .. n - 1 + 1 : gone[i] = q[1 + i - 1]
    BY <2>1, <1>1, SubSeqProperties
  <2>3. QED BY <2>2, <1>1
<1>5. DOMAIN rest = 1 .. Len(q) - n /\ DOMAIN gone = 1 .. n
  BY <1>3, <1>4, Domains
<1>6. IsInjective(rest)
  <2>1. SUFFICES ASSUME NEW a \in 1 .. Len(q) - n, NEW b \in 1 .. Len(q) - n, rest[a] = rest[b]
                 PROVE  a = b
    BY <1>5 DEF IsInjective
  <2>2. q[n + a] = q[n + b]
    BY <1>3, <2>1
  <2>3. n + a \in DOMAIN q /\ n + b \in DOMAIN q
    BY <1>1
  <2>4. n + a = n + b
    BY <2>2, <2>3 DEF IsInjective
  <2>5. QED BY <2>4, <1>1
<1>7. ToSet(gone) = {q[i] : i \in 1 .. n}
  BY <1>4, <1>5 DEF ToSet
<1>8. ToSet(rest) = {q[n + i] : i \in 1 .. Len(q) - n}
  BY <1>3, <1>5 DEF ToSet
<1>9. ToSet(q) = {q[i] : i \in 1 .. Len(q)}
  BY <1>1 DEF ToSet
<1>10. ASSUME NEW x \in ToSet(rest) PROVE x \in ToSet(q) \ ToSet(gone)
  <2>1. PICK i \in 1 .. Len(q) - n : x = q[n + i]
    BY <1>8
  <2>2. n + i \in 1 .. Len(q) /\ \A j \in 1 .. n : j \in 1 .. Len(q) /\ n + i # j
    BY <1>1
  <2>3. \A j \in 1 .. n : q[j] # x
    BY <2>1, <2>2, <1>1 DEF IsInjective
  <2>4. QED BY <2>1, <2>2, <2>3, <1>7, <1>9
<1>11. ASSUME NEW x \in ToSet(q), x \notin ToSet(gone) PROVE x \in ToSet(rest)
  <2>1. PICK i \in 1 .. Len(q) : x = q[i]
    BY <1>9
  <2>2. i \notin 1 .. n
    BY <2>1, <1>7, <1>11
  <2>3. i - n \in 1 .. Len(q) - n /\ n + (i - n) = i
    BY <2>2, <1>1
  <2>4. x = q[n + (i - n)]
    BY <2>1, <2>3
  <2>5. QED BY <2>3, <2>4, <1>8
<1>12. QED BY <1>3, <1>6, <1>7, <1>10, <1>11

LEMMA TailRange ==
  ASSUME NEW S, NEW q \in Seq(S), IsInjective(q), q # <<>>
  PROVE  /\ Head(q) \in ToSet(q) /\ Head(q) \in S
         /\ Tail(q) \in Seq(S) /\ Len(Tail(q)) = Len(q) - 1
         /\ IsInjective(Tail(q))
         /\ ToSet(Tail(q)) = ToSet(q) \ {Head(q)}
<1>1. Len(q) \in Nat \ {0} /\ DOMAIN q = 1 .. Len(q) /\ ToSet(q) \subseteq S
  BY Domains, EmptySeq
<1>2. Head(q) = q[1]
  BY <1>1
<1>3. Tail(q) = SubSeq(q, 1 + 1, Len(q))
  BY TailIsSubSeq
<1>4. 1 \in 0 .. Len(q)
  BY <1>1
<1>5. /\ Tail(q) \in Seq(S) /\ Len(Tail(q)) = Len(q) - 1 /\ IsInjective(Tail(q))
      /\ ToSet(Tail(q)) = ToSet(q) \ ToSet(SubSeq(q, 1, 1))
  <2>1. /\ SubSeq(q, 1 + 1, Len(q)) \in Seq(S)
        /\ Len(SubSeq(q, 1 + 1, Len(q))) = Len(q) - 1
        /\ IsInjective(SubSeq(q, 1 + 1, Len(q)))
        /\ ToSet(SubSeq(q, 1 + 1, Len(q))) = ToSet(q) \ ToSet(SubSeq(q, 1, 1))
    BY <1>4, SplitRange
  <2>2. QED BY <1>3, <2>1
<1>6. ToSet(SubSeq(q, 1, 1)) = {q[1]}
  <2>1. \A i \in 1 .. 1 : q[i] \in S
    BY <1>1 DEF ToSet
  <2>2. SubSeq(q, 1, 1) \in Seq(S) /\ Len(SubSeq(q, 1, 1)) = 1 /\ SubSeq(q, 1, 1)[1] = q[1]
    BY <2>1, SubSeqProperties
  <2>3. DOMAIN SubSeq(q, 1, 1) = 1 .. 1
    BY <2>2, Domains
  <2>4. QED BY <2>2, <2>3 DEF ToSet
<1>7. q[1] \in ToSet(q)
  BY <1>1 DEF ToSet
<1>8. QED BY <1>1, <1>2, <1>5, <1>6, <1>7

LEMMA TasksFinite == IsFiniteSet(Tasks)
BY TaskConstants, FS_Union DEF Tasks

\* A finite set has a list of its members, each once.
LEMMA ListOfSet ==
  ASSUME NEW S, S \subseteq Tasks
  PROVE  SetToSeq(S) \in Seq(Tasks) /\ IsInjective(SetToSeq(S)) /\ ToSet(SetToSeq(S)) = S
<1>1. IsFiniteSet(S)
  BY TasksFinite, FS_Subset
<1> DEFINE n == Cardinality(S)
<1>2. n \in Nat /\ ExistsBijection(1 .. n, S)
  BY <1>1, FS_CardinalityType
<1>3. \E f \in [1 .. n -> S] : IsInjective(f)
  BY <1>2 DEF ExistsBijection, Bijection, Injection, IsInjective
<1>4. SetToSeq(S) \in [1 .. n -> S] /\ IsInjective(SetToSeq(S))
  BY <1>3 DEF SetToSeq
<1>5. SetToSeq(S) \in Seq(Tasks)
  BY <1>2, <1>4
<1>6. ToSet(SetToSeq(S)) = S
  <2>1. SetToSeq(S) \in Injection(1 .. n, S)
    BY <1>4 DEF IsInjective, Injection
  <2>2. IsFiniteSet(1 .. n) /\ Cardinality(1 .. n) = n
    BY <1>2, FS_Interval
  <2>3. SetToSeq(S) \in Surjection(1 .. n, S)
    BY <1>1, <2>1, <2>2, FS_Injection
  <2>4. QED BY <2>3 DEF Surjection, ToSet
<1>7. QED BY <1>4, <1>5, <1>6

-----------------------------------------------------------------------------
(* The slots and the tasks in memory *)

LEMMA SlotTaken ==
  ASSUME SlotsMatchWorkers, TaskTypes, NEW t \in Submitted, t \notin held
  PROVE  Cardinality(held \union {t}) = slots + 1
<1>1. IsFiniteSet(held)
  BY TaskConstants, FS_Subset DEF TaskTypes
<1>2. QED BY <1>1, FS_AddElement DEF SlotsMatchWorkers

LEMMA SlotGivenBack ==
  ASSUME TasksInv, NEW t \in Tasks, ReleaseSlot(t)
  PROVE  /\ held' \subseteq held /\ t \notin held' /\ slots' = Cardinality(held')
         /\ slots' \in 0 .. WorkerLimit
<1>1. IsFiniteSet(held) /\ slots = Cardinality(held) /\ slots \in 0 .. WorkerLimit /\ WorkerLimit \in Nat
  BY TaskConstants, FS_Subset DEF TasksInv, TaskTypes, SlotsMatchWorkers
<1>2. IsFiniteSet(held \ {t}) /\ Cardinality(held \ {t}) = IF t \in held THEN slots - 1 ELSE slots
  BY <1>1, FS_RemoveElement
<1>3. Cardinality(held \ {t}) \in Nat
  BY <1>2, FS_CardinalityType
<1>4. QED BY <1>1, <1>2, <1>3 DEF ReleaseSlot

\* A change of a status is marked, so it is pending.
LEMMA StatusIsMarked ==
  ASSUME StoreInv, status \in [Tasks -> Statuses], NEW t \in Tasks, MarkDirty(t),
         status' \in [Tasks -> Statuses],
         \A u \in Tasks \ {t} : status'[u] \in {"none", status[u]},
         UNCHANGED <<writer, last, batch, durable, crashes>>
  PROVE  StoreInv'
<1>1. StoreTypes'
  BY TaskConstants DEF StoreInv, StoreTypes, MarkDirty
<1>2. UnsavedIsPending' /\ CopiedOK'
  <2>1. Persistent \/ writer = "done"
    BY DEF StoreInv
  <2>2. CASE Persistent
    <3>1. dirty' = dirty \union {t} /\ wake' = TRUE
      BY <2>2 DEF MarkDirty
    <3>2. QED BY <3>1 DEF StoreInv, UnsavedIsPending, CopiedOK
  <2>3. CASE writer = "done"
    BY <2>3 DEF UnsavedIsPending, CopiedOK
  <2>4. QED BY <2>1, <2>2, <2>3
<1>3. (dirty # {} /\ writer # "done" => wake)' /\ (~Persistent => writer = "done")'
  BY TaskConstants DEF StoreInv, MarkDirty
<1>4. QED BY <1>1, <1>2, <1>3 DEF StoreInv

LEMMA StoreKept ==
  ASSUME StoreInv, UNCHANGED <<status, store, crashes>>
  PROVE  StoreInv'
BY DEF StoreInv, StoreTypes, UnsavedIsPending, CopiedOK, store

LEMMA StatusSet ==
  ASSUME IInv, NEW t \in Tasks, NEW s \in Statuses, SetStatus(t, s), UNCHANGED crashes
  PROVE  StoreInv' /\ status' = [status EXCEPT ![t] = s] /\ status' \in [Tasks -> Statuses]
<1>1. status' = [status EXCEPT ![t] = s] /\ status' \in [Tasks -> Statuses] /\ status \in [Tasks -> Statuses]
  BY DEF IInv, TasksInv, TaskTypes, SetStatus
<1>2. \A u \in Tasks \ {t} : status'[u] = status[u]
  BY <1>1
<1>3. StoreInv'
  BY <1>1, <1>2, StatusIsMarked DEF IInv, SetStatus
<1>4. QED BY <1>1, <1>3

(* A task that was not finished is; of the others only finished ones leave *)
(* the memory, and those are the ones that left the list.                  *)
LEMMA Completed ==
  ASSUME IInv, NEW t \in Tasks, status[t] \in Unfinished, Complete(t), UNCHANGED crashes
  PROVE  /\ status' \in [Tasks -> Statuses] /\ status'[t] = "completed"
         /\ \A u \in Tasks \ {t} : status'[u] = status[u] \/ (status[u] = "completed" /\ status'[u] = "none")
         /\ finished' \in Seq(Tasks) /\ IsInjective(finished')
         /\ ToSet(finished') = {u \in Tasks : status'[u] = "completed"}
         /\ live' \subseteq Tasks
         /\ StoreInv'
<1> DEFINE all == Append(finished, t)
<1>1. /\ status \in [Tasks -> Statuses] /\ live \subseteq Tasks
      /\ finished \in Seq(Tasks) /\ IsInjective(finished)
      /\ ToSet(finished) = {u \in Tasks : status[u] = "completed"}
      /\ t \notin ToSet(finished)
  BY DEF IInv, TasksInv, TaskTypes, ListsOK, Unfinished
<1>2. /\ all \in Seq(Tasks) /\ Len(all) = Len(finished) + 1 /\ IsInjective(all)
      /\ ToSet(all) = ToSet(finished) \union {t}
  BY <1>1, AppendRange
<1>3. PICK n \in 0 .. (Len(all) - 1) :
        /\ finished' = SubSeq(all, n + 1, Len(all))
        /\ status' = [u \in Tasks |->
             IF u \in ToSet(SubSeq(all, 1, n)) THEN "none" ELSE IF u = t THEN "completed" ELSE status[u]]
        /\ live' = live \ ({t} \union ToSet(SubSeq(all, 1, n)))
  BY DEF Complete
<1> DEFINE gone == ToSet(SubSeq(all, 1, n))
<1> HIDE DEF all
<1>4. n \in 0 .. Len(all) /\ Len(finished) \in Nat /\ \A i \in 1 .. n : i \in 1 .. Len(finished)
  BY <1>1, <1>2, <1>3, Domains
<1>5. /\ finished' \in Seq(Tasks) /\ IsInjective(finished')
      /\ ToSet(finished') = ToSet(all) \ gone
      /\ \A x \in gone : \E i \in 1 .. n : x = all[i]
  BY <1>2, <1>3, <1>4, SplitRange
<1>6. \A i \in 1 .. n : all[i] \in ToSet(finished)
  <2>1. \A i \in 1 .. Len(finished) : all[i] = finished[i]
    BY <1>1, AppendProperties DEF all
  <2>2. DOMAIN finished = 1 .. Len(finished)
    BY <1>1, Domains
  <2>3. QED BY <1>4, <2>1, <2>2 DEF ToSet
<1>7. gone \subseteq {u \in Tasks : status[u] = "completed"} /\ t \notin gone
  BY <1>1, <1>5, <1>6
<1> HIDE DEF gone
<1>8. /\ status' \in [Tasks -> Statuses] /\ status'[t] = "completed"
      /\ \A u \in Tasks \ {t} : status'[u] = status[u] \/ (status[u] = "completed" /\ status'[u] = "none")
      /\ \A u \in gone : status'[u] = "none"
      /\ \A u \in Tasks \ gone : u # t => status'[u] = status[u]
  BY <1>1, <1>3, <1>7 DEF gone, Statuses
<1>9. ToSet(finished') = {u \in Tasks : status'[u] = "completed"}
  BY <1>1, <1>2, <1>5, <1>7, <1>8 DEF Statuses
<1>10. StoreInv'
  <2>1. MarkDirty(t) /\ UNCHANGED <<writer, last, batch, durable, crashes>>
    BY DEF Complete
  <2>2. \A u \in Tasks \ {t} : status'[u] \in {"none", status[u]}
    BY <1>8
  <2>3. QED BY <1>1, <1>8, <2>1, <2>2, StatusIsMarked DEF IInv
<1>11. live' \subseteq Tasks
  BY <1>1, <1>3
<1>12. QED BY <1>5, <1>8, <1>9, <1>10, <1>11

-----------------------------------------------------------------------------
(* The steps of the tasks *)

LEMMA CreateOK == ASSUME IInv, NEW t \in Tasks, Create(t) PROVE IInv'
<1>1. job[t] = "new" /\ status[t] = "none" /\ StoreInv' /\ status' = [status EXCEPT ![t] = "queued"]
  <2>1. job[t] = "new" /\ status[t] = "none"
    BY DEF Create, IInv, TasksInv, FreshOK
  <2>2. StoreInv' /\ status' = [status EXCEPT ![t] = "queued"]
    BY StatusSet DEF Create, Statuses, Unfinished
  <2>3. QED BY <2>1, <2>2
<1>2. job' = [job EXCEPT ![t] = IF t \in Submitted THEN "created" ELSE "run"]
  BY DEF Create, GoTo
<1>3. UNCHANGED <<finished, held, slots, queue, dispatch, inHand, closer>> /\ live' = live \union {t}
  BY DEF Create, loop
<1>4. TaskTypes'
  BY <1>1, <1>2, <1>3, TaskConstants
     DEF IInv, TasksInv, TaskTypes, Jobs, Working, Statuses, Unfinished, Closing, Tasks
<1>5. ListsOK'
  BY <1>1, <1>2, <1>3, TaskConstants DEF IInv, TasksInv, ListsOK
<1>6. StopOK'
  BY <1>1, <1>2, <1>3, TaskConstants
     DEF IInv, TasksInv, StopOK, Stopped, WorkersIdle, Working, Tasks
<1>7. FreshOK'
  <2>1. job' \in [Tasks -> Jobs] /\ job'[t] = IF t \in Submitted THEN "created" ELSE "run"
    BY <1>2, <1>4 DEF IInv, TasksInv, TaskTypes
  <2>2. \A u \in Tasks \ {t} : job'[u] = job[u] /\ status'[u] = status[u]
    BY <1>1, <1>2 DEF IInv, TasksInv, TaskTypes
  <2>3. QED BY <2>1, <2>2 DEF IInv, TasksInv, FreshOK
<1>8. OwnedUntilFinished'
  BY <1>1, <1>2, <1>3, TaskConstants
     DEF IInv, TasksInv, OwnedUntilFinished, Unfinished, TaskTypes
<1>9. SlotsMatchWorkers'
  BY <1>1, <1>2, <1>3, TaskConstants
     DEF IInv, TasksInv, SlotsMatchWorkers, Working, TaskTypes, Tasks
<1>10. QED BY <1>1, <1>2, <1>3, <1>4, <1>5, <1>6, <1>7, <1>8, <1>9 DEF IInv, TasksInv

LEMMA CancelOK == ASSUME IInv, NEW t \in Tasks, Cancel(t) PROVE IInv'
<1>1. /\ UNCHANGED <<status, finished, job, held, slots, queue, dispatch, inHand, closer>>
      /\ live' \subseteq live /\ UNCHANGED <<store, crashes>>
  BY DEF Cancel, workers, loop
<1>2. StoreInv'
  BY <1>1, StoreKept DEF IInv
<1>3. TaskTypes'
  BY <1>1, <1>2, TaskConstants
     DEF IInv, TasksInv, TaskTypes, Jobs, Working, Statuses, Unfinished, Closing, Tasks
<1>4. ListsOK'
  BY <1>1, <1>2, TaskConstants DEF IInv, TasksInv, ListsOK
<1>5. StopOK'
  BY <1>1, <1>2, TaskConstants
     DEF IInv, TasksInv, StopOK, Stopped, WorkersIdle, Working, Tasks
<1>6. FreshOK'
  BY <1>1, <1>2, TaskConstants DEF IInv, TasksInv, FreshOK, TaskTypes
<1>7. OwnedUntilFinished'
  BY <1>1, <1>2, TaskConstants DEF IInv, TasksInv, OwnedUntilFinished, Unfinished, TaskTypes
<1>8. SlotsMatchWorkers'
  BY <1>1, <1>2, TaskConstants
     DEF IInv, TasksInv, SlotsMatchWorkers, Working, TaskTypes, Tasks
<1>9. QED BY <1>1, <1>2, <1>3, <1>4, <1>5, <1>6, <1>7, <1>8 DEF IInv, TasksInv

LEMMA YieldOK == ASSUME IInv, NEW t \in Tasks, Yield(t) PROVE IInv'
<1>1. job[t] = "run" /\ status[t] \in Unfinished
  BY DEF Yield, IInv, TasksInv, OwnedUntilFinished
<1>2. StoreInv' /\ status' = [status EXCEPT ![t] = "queued"]
  BY StatusSet DEF Yield, Statuses, Unfinished
<1>3. job' = [job EXCEPT ![t] = "waiting"] /\ UNCHANGED <<finished, live, queue, dispatch, inHand, closer>>
  BY DEF Yield, GoTo, loop
<1>4. held' \subseteq held /\ t \notin held' /\ slots' = Cardinality(held') /\ slots' \in 0 .. WorkerLimit
  BY SlotGivenBack DEF Yield, IInv
<1>5. TaskTypes'
  BY <1>1, <1>2, <1>3, <1>4, TaskConstants
     DEF IInv, TasksInv, TaskTypes, Jobs, Working, Statuses, Unfinished, Closing, Tasks
<1>6. ListsOK'
  BY <1>1, <1>2, <1>3, <1>4, TaskConstants DEF IInv, TasksInv, ListsOK
<1>7. StopOK'
  BY <1>1, <1>2, <1>3, <1>4, TaskConstants
     DEF IInv, TasksInv, StopOK, Stopped, WorkersIdle, Working, Tasks
<1>8. FreshOK'
  BY <1>1, <1>2, <1>3, <1>4, TaskConstants DEF IInv, TasksInv, FreshOK, TaskTypes
<1>9. OwnedUntilFinished'
  BY <1>1, <1>2, <1>3, <1>4, TaskConstants
     DEF IInv, TasksInv, OwnedUntilFinished, Unfinished, TaskTypes
<1>10. SlotsMatchWorkers'
  BY <1>1, <1>2, <1>3, <1>4, TaskConstants
     DEF IInv, TasksInv, SlotsMatchWorkers, Working, TaskTypes, Tasks
<1>11. QED BY <1>1, <1>2, <1>3, <1>4, <1>5, <1>6, <1>7, <1>8, <1>9, <1>10 DEF IInv, TasksInv

LEMMA AdmittedOK == ASSUME IInv, NEW t \in Tasks, Admitted(t) PROVE IInv'
<1>1. job[t] = "waiting" /\ job' = [job EXCEPT ![t] = "acquire"]
  BY DEF Admitted, GoTo
<1>2. UNCHANGED <<status, finished, live, held, slots, queue, dispatch, inHand, closer>>
  BY DEF Admitted, tasks, loop
<1>3. StoreInv'
  BY StoreKept DEF Admitted, tasks, IInv
<1>4. TaskTypes'
  BY <1>1, <1>2, <1>3, TaskConstants
     DEF IInv, TasksInv, TaskTypes, Jobs, Working, Statuses, Unfinished, Closing, Tasks
<1>5. ListsOK'
  BY <1>1, <1>2, <1>3, TaskConstants DEF IInv, TasksInv, ListsOK
<1>6. StopOK'
  BY <1>1, <1>2, <1>3, TaskConstants
     DEF IInv, TasksInv, StopOK, Stopped, WorkersIdle, Working, Tasks
<1>7. FreshOK'
  BY <1>1, <1>2, <1>3, TaskConstants DEF IInv, TasksInv, FreshOK, TaskTypes
<1>8. OwnedUntilFinished'
  BY <1>1, <1>2, <1>3, TaskConstants
     DEF IInv, TasksInv, OwnedUntilFinished, Unfinished, TaskTypes
<1>9. SlotsMatchWorkers'
  BY <1>1, <1>2, <1>3, TaskConstants
     DEF IInv, TasksInv, SlotsMatchWorkers, Working, TaskTypes, Tasks
<1>10. QED BY <1>1, <1>2, <1>3, <1>4, <1>5, <1>6, <1>7, <1>8, <1>9 DEF IInv, TasksInv

LEMMA AcquireOK == ASSUME IInv, NEW t \in Tasks, Acquire(t) PROVE IInv'
<1>1. job[t] = "acquire" /\ job' = [job EXCEPT ![t] = "run"]
  BY DEF Acquire, GoTo
<1>2. UNCHANGED <<status, finished, live, queue, dispatch, inHand, closer>>
  BY DEF Acquire, tasks, loop
<1>3. StoreInv'
  BY StoreKept DEF Acquire, tasks, IInv
<1>4. t \notin held
  BY <1>1 DEF IInv, TasksInv, SlotsMatchWorkers, Working
<1>5. /\ held' \subseteq Submitted /\ held' \subseteq held \union {t}
      /\ slots' \in 0 .. WorkerLimit /\ slots' = Cardinality(held')
  <2>1. CASE UNCHANGED <<slots, held>>
    BY <2>1 DEF IInv, TasksInv, TaskTypes, SlotsMatchWorkers
  <2>2. CASE t \in Submitted /\ slots < WorkerLimit /\ slots' = slots + 1 /\ held' = held \union {t}
    BY <1>4, <2>2, SlotTaken, TaskConstants DEF IInv, TasksInv, TaskTypes
  <2>3. QED BY <2>1, <2>2 DEF Acquire
<1>6. TaskTypes'
  BY <1>1, <1>2, <1>3, <1>4, <1>5, TaskConstants
     DEF IInv, TasksInv, TaskTypes, Jobs, Working, Statuses, Unfinished, Closing, Tasks
<1>7. ListsOK'
  BY <1>1, <1>2, <1>3, <1>4, <1>5, TaskConstants DEF IInv, TasksInv, ListsOK
<1>8. StopOK'
  BY <1>1, <1>2, <1>3, <1>4, <1>5, TaskConstants
     DEF IInv, TasksInv, StopOK, Stopped, WorkersIdle, Working, Tasks
<1>9. FreshOK'
  BY <1>1, <1>2, <1>3, <1>4, <1>5, TaskConstants DEF IInv, TasksInv, FreshOK, TaskTypes
<1>10. OwnedUntilFinished'
  BY <1>1, <1>2, <1>3, <1>4, <1>5, TaskConstants
     DEF IInv, TasksInv, OwnedUntilFinished, Unfinished, TaskTypes
<1>11. SlotsMatchWorkers'
  BY <1>1, <1>2, <1>3, <1>4, <1>5, TaskConstants
     DEF IInv, TasksInv, SlotsMatchWorkers, Working, TaskTypes, Tasks
<1>12. QED BY <1>1, <1>2, <1>3, <1>4, <1>5, <1>6, <1>7, <1>8, <1>9, <1>10, <1>11
              DEF IInv, TasksInv

LEMMA UpstreamOK == ASSUME IInv, NEW t \in Tasks, Upstream(t) PROVE IInv'
<1>1. job[t] = "run" /\ status[t] \in Unfinished
  BY DEF Upstream, IInv, TasksInv, OwnedUntilFinished
<1>2. StoreInv' /\ status' = [status EXCEPT ![t] = "running"]
  BY StatusSet DEF Upstream, Statuses, Unfinished
<1>3. UNCHANGED <<finished, live, job, held, slots, queue, dispatch, inHand, closer>>
  BY DEF Upstream, workers, loop
<1>4. TaskTypes'
  BY <1>1, <1>2, <1>3, TaskConstants
     DEF IInv, TasksInv, TaskTypes, Jobs, Working, Statuses, Unfinished, Closing, Tasks
<1>5. ListsOK'
  BY <1>1, <1>2, <1>3, TaskConstants DEF IInv, TasksInv, ListsOK
<1>6. StopOK'
  BY <1>1, <1>2, <1>3, TaskConstants
     DEF IInv, TasksInv, StopOK, Stopped, WorkersIdle, Working, Tasks
<1>7. FreshOK'
  BY <1>1, <1>2, <1>3, TaskConstants DEF IInv, TasksInv, FreshOK, TaskTypes
<1>8. OwnedUntilFinished'
  BY <1>1, <1>2, <1>3, TaskConstants
     DEF IInv, TasksInv, OwnedUntilFinished, Unfinished, TaskTypes
<1>9. SlotsMatchWorkers'
  BY <1>1, <1>2, <1>3, TaskConstants
     DEF IInv, TasksInv, SlotsMatchWorkers, Working, TaskTypes, Tasks
<1>10. QED BY <1>1, <1>2, <1>3, <1>4, <1>5, <1>6, <1>7, <1>8, <1>9 DEF IInv, TasksInv

LEMMA FinishOK == ASSUME IInv, NEW t \in Tasks, Finish(t) PROVE IInv'
<1>1. job[t] \in {"run", "waiting"} /\ job' = [job EXCEPT ![t] = "leave"]
  BY DEF Finish, GoTo
<1>2. UNCHANGED <<held, slots, queue, dispatch, inHand, closer>>
  BY DEF Finish, loop
<1>3. status[t] \in Unfinished
  BY <1>1 DEF IInv, TasksInv, OwnedUntilFinished
<1>4. /\ status' \in [Tasks -> Statuses] /\ status'[t] = "completed"
      /\ \A u \in Tasks \ {t} : status'[u] = status[u] \/ (status[u] = "completed" /\ status'[u] = "none")
      /\ finished' \in Seq(Tasks) /\ IsInjective(finished')
      /\ ToSet(finished') = {u \in Tasks : status'[u] = "completed"}
      /\ live' \subseteq Tasks /\ StoreInv'
  BY <1>3, Completed DEF Finish
<1>5. TaskTypes'
  BY <1>1, <1>2, <1>3, <1>4, TaskConstants
     DEF IInv, TasksInv, TaskTypes, Jobs, Working, Statuses, Unfinished, Closing, Tasks
<1>6. ListsOK'
  BY <1>1, <1>2, <1>3, <1>4, TaskConstants DEF IInv, TasksInv, ListsOK
<1>7. StopOK'
  BY <1>1, <1>2, <1>3, <1>4, TaskConstants
     DEF IInv, TasksInv, StopOK, Stopped, WorkersIdle, Working, Tasks
<1>8. FreshOK'
  BY <1>1, <1>2, <1>3, <1>4, TaskConstants DEF IInv, TasksInv, FreshOK, TaskTypes
<1>9. OwnedUntilFinished'
  BY <1>1, <1>2, <1>3, <1>4, TaskConstants
     DEF IInv, TasksInv, OwnedUntilFinished, Unfinished, TaskTypes
<1>10. SlotsMatchWorkers'
  BY <1>1, <1>2, <1>3, <1>4, TaskConstants
     DEF IInv, TasksInv, SlotsMatchWorkers, Working, TaskTypes, Tasks
<1>11. QED BY <1>1, <1>2, <1>3, <1>4, <1>5, <1>6, <1>7, <1>8, <1>9, <1>10 DEF IInv, TasksInv

LEMMA LeaveOK == ASSUME IInv, NEW t \in Tasks, Leave(t) PROVE IInv'
<1>1. job[t] = "leave" /\ job' = [job EXCEPT ![t] = "over"]
  BY DEF Leave, GoTo
<1>2. UNCHANGED <<status, finished, live, queue, dispatch, inHand, closer>>
  BY DEF Leave, tasks, loop
<1>3. StoreInv'
  BY StoreKept DEF Leave, tasks, IInv
<1>4. held' \subseteq held /\ t \notin held' /\ slots' = Cardinality(held') /\ slots' \in 0 .. WorkerLimit
  BY SlotGivenBack DEF Leave, IInv
<1>5. TaskTypes'
  BY <1>1, <1>2, <1>3, <1>4, TaskConstants
     DEF IInv, TasksInv, TaskTypes, Jobs, Working, Statuses, Unfinished, Closing, Tasks
<1>6. ListsOK'
  BY <1>1, <1>2, <1>3, <1>4, TaskConstants DEF IInv, TasksInv, ListsOK
<1>7. StopOK'
  BY <1>1, <1>2, <1>3, <1>4, TaskConstants
     DEF IInv, TasksInv, StopOK, Stopped, WorkersIdle, Working, Tasks
<1>8. FreshOK'
  BY <1>1, <1>2, <1>3, <1>4, TaskConstants DEF IInv, TasksInv, FreshOK, TaskTypes
<1>9. OwnedUntilFinished'
  BY <1>1, <1>2, <1>3, <1>4, TaskConstants
     DEF IInv, TasksInv, OwnedUntilFinished, Unfinished, TaskTypes
<1>10. SlotsMatchWorkers'
  BY <1>1, <1>2, <1>3, <1>4, TaskConstants
     DEF IInv, TasksInv, SlotsMatchWorkers, Working, TaskTypes, Tasks
<1>11. QED BY <1>1, <1>2, <1>3, <1>4, <1>5, <1>6, <1>7, <1>8, <1>9, <1>10 DEF IInv, TasksInv

-----------------------------------------------------------------------------
(* The channel and the dispatcher *)

\* What is left when a task is refused: it is over, and the channel and the
\* dispatcher hold the others they held.
LEMMA RejectOK ==
  ASSUME IInv, NEW t \in Tasks, job[t] \in {"created", "queued"}, Reject(t),
         job' = [job EXCEPT ![t] = "over"], UNCHANGED <<held, slots, closer, crashes>>,
         queue' \in Seq(Submitted), Len(queue') <= QueueLimit, IsInjective(queue'),
         inHand' \in Submitted \union {NoTask}, inHand' \notin ToSet(queue'),
         \A u \in Tasks : u \in ToSet(queue') \union {inHand'} <=> u \in (ToSet(queue) \union {inHand}) \ {t},
         dispatch' \in {"select", "slot", "drain", "done"}, StopOK'
  PROVE  IInv'
<1>1. status[t] \in Unfinished
  BY DEF IInv, TasksInv, OwnedUntilFinished
<1>2. /\ status' \in [Tasks -> Statuses] /\ status'[t] = "completed"
      /\ \A u \in Tasks \ {t} : status'[u] = status[u] \/ (status[u] = "completed" /\ status'[u] = "none")
      /\ finished' \in Seq(Tasks) /\ IsInjective(finished')
      /\ ToSet(finished') = {u \in Tasks : status'[u] = "completed"}
      /\ live' \subseteq Tasks /\ StoreInv'
  BY <1>1, Completed DEF Reject
<1>3. TaskTypes'
  BY <1>2, TaskConstants DEF IInv, TasksInv, TaskTypes, Jobs
<1>4. ListsOK'
  BY <1>2 DEF ListsOK
<1>5. FreshOK'
  BY <1>2 DEF IInv, TasksInv, FreshOK, TaskTypes
<1>6. OwnedUntilFinished'
  BY <1>2 DEF IInv, TasksInv, OwnedUntilFinished, Unfinished, TaskTypes
<1>7. SlotsMatchWorkers'
  BY DEF IInv, TasksInv, SlotsMatchWorkers, Working, TaskTypes
<1>8. QED BY <1>2, <1>3, <1>4, <1>5, <1>6, <1>7 DEF IInv, TasksInv

LEMMA EnqueueOK == ASSUME IInv, NEW t \in Tasks, Enqueue(t) PROVE IInv'
<1>1. job[t] = "created" /\ t \notin ToSet(queue) \union {inHand}
  BY DEF Enqueue, IInv, TasksInv, OwnedUntilFinished
<1>2. UNCHANGED <<held, slots, dispatch, inHand, closer, crashes>>
  BY DEF Enqueue
<1>3. CASE closer = "open" /\ Len(queue) < QueueLimit
  <2>1. job' = [job EXCEPT ![t] = "queued"] /\ queue' = Append(queue, t) /\ UNCHANGED <<status, finished, live>>
    BY <1>3 DEF Enqueue, GoTo, tasks
  <2>2. StoreInv'
    BY <1>3, StoreKept DEF Enqueue, tasks, IInv
  <2>3. t \in Submitted
    BY <1>1 DEF IInv, TasksInv, FreshOK
  <2>4. /\ queue' \in Seq(Submitted) /\ Len(queue') = Len(queue) + 1
        /\ ToSet(queue') = ToSet(queue) \union {t} /\ IsInjective(queue')
    BY <1>1, <2>1, <2>3, AppendRange DEF IInv, TasksInv, ListsOK
  <2>5. TaskTypes'
    BY <1>2, <1>3, <2>1, <2>4, TaskConstants, Domains
       DEF IInv, TasksInv, TaskTypes, ListsOK, Jobs
  <2>6. ListsOK'
    BY <1>1, <1>2, <2>1, <2>4 DEF IInv, TasksInv, ListsOK
  <2>7. StopOK'
    BY <1>2, <1>3 DEF IInv, TasksInv, StopOK, Stopped
  <2>8. FreshOK'
    BY <1>1, <2>1 DEF IInv, TasksInv, FreshOK, TaskTypes
  <2>9. OwnedUntilFinished'
    BY <1>1, <1>2, <2>1, <2>4 DEF IInv, TasksInv, OwnedUntilFinished, Unfinished, TaskTypes
  <2>10. SlotsMatchWorkers'
    BY <1>1, <1>2, <2>1 DEF IInv, TasksInv, SlotsMatchWorkers, Working, TaskTypes
  <2>11. QED BY <2>2, <2>5, <2>6, <2>7, <2>8, <2>9, <2>10 DEF IInv, TasksInv
<1>4. CASE ~(closer = "open" /\ Len(queue) < QueueLimit)
  <2>1. job' = [job EXCEPT ![t] = "over"] /\ queue' = queue /\ Reject(t)
    BY <1>4 DEF Enqueue, GoTo
  <2>2. StopOK'
    BY <1>1, <1>2, <2>1
       DEF IInv, TasksInv, StopOK, Stopped, WorkersIdle, TaskTypes, Working, Tasks
  <2>3. QED BY <1>1, <1>2, <2>1, <2>2, RejectOK DEF IInv, TasksInv, ListsOK, TaskTypes
<1>5. QED BY <1>3, <1>4

LEMMA TakeJobOK == ASSUME IInv, TakeJob PROVE IInv'
<1>1. /\ dispatch = "select" /\ queue # <<>> /\ inHand' = Head(queue) /\ queue' = Tail(queue)
      /\ dispatch' = "slot" /\ UNCHANGED <<status, finished, live, job, held, slots, closer>>
  BY DEF TakeJob, tasks, workers
<1>2. StoreInv'
  BY StoreKept DEF TakeJob, tasks, IInv
<1>3. inHand = NoTask
  BY <1>1 DEF IInv, TasksInv, StopOK
<1>4. queue \in Seq(Submitted) /\ IsInjective(queue) /\ Len(queue) \in Nat /\ Len(queue) <= QueueLimit
  BY Domains DEF IInv, TasksInv, ListsOK, TaskTypes
<1>5. /\ inHand' \in ToSet(queue) /\ inHand' \in Submitted
      /\ queue' \in Seq(Submitted) /\ Len(queue') = Len(queue) - 1
      /\ IsInjective(queue') /\ ToSet(queue') = ToSet(queue) \ {inHand'}
  BY <1>1, <1>4, TailRange
<1>6. TaskTypes'
  BY <1>1, <1>4, <1>5, TaskConstants DEF IInv, TasksInv, TaskTypes
<1>7. ListsOK'
  BY <1>1, <1>5 DEF IInv, TasksInv, ListsOK
<1>8. StopOK'
  BY <1>1, <1>5, TaskConstants DEF IInv, TasksInv, StopOK, Stopped
<1>9. FreshOK' /\ SlotsMatchWorkers'
  BY <1>1 DEF IInv, TasksInv, FreshOK, SlotsMatchWorkers
<1>10. OwnedUntilFinished'
  <2>1. NoTask \notin Tasks
    BY TaskConstants DEF Tasks
  <2>2. \A u \in Tasks : u \in ToSet(queue') \union {inHand'} <=> u \in ToSet(queue) \union {inHand}
    BY <1>3, <1>5, <2>1
  <2>3. QED BY <1>1, <2>2 DEF IInv, TasksInv, OwnedUntilFinished
<1>11. QED BY <1>2, <1>6, <1>7, <1>8, <1>9, <1>10 DEF IInv, TasksInv

LEMMA StartWorkerOK == ASSUME IInv, StartWorker PROVE IInv'
<1> DEFINE t == inHand
<1>1. /\ dispatch = "slot" /\ slots < WorkerLimit /\ slots' = slots + 1 /\ held' = held \union {t}
      /\ job' = [job EXCEPT ![t] = "run"] /\ inHand' = NoTask /\ dispatch' = "select"
      /\ UNCHANGED <<status, finished, live, queue, closer>>
  BY DEF StartWorker, GoTo, tasks
<1>2. StoreInv'
  BY StoreKept DEF StartWorker, tasks, IInv
<1>3. t \in Submitted /\ t \in Tasks /\ t # NoTask /\ t \notin ToSet(queue) /\ NoTask \notin ToSet(queue)
  BY <1>1, TaskConstants, Domains DEF IInv, TasksInv, StopOK, TaskTypes, ListsOK, Tasks
<1>4. job[t] = "queued" /\ t \notin held
  BY <1>3 DEF IInv, TasksInv, OwnedUntilFinished, SlotsMatchWorkers, Working
<1>5. slots' = Cardinality(held') /\ held' \subseteq Submitted /\ slots' \in 0 .. WorkerLimit
  BY <1>1, <1>3, <1>4, SlotTaken, TaskConstants DEF IInv, TasksInv, TaskTypes
<1> HIDE DEF t
<1>6. TaskTypes'
  BY <1>1, <1>3, <1>5, TaskConstants DEF IInv, TasksInv, TaskTypes, Jobs, Working
<1>7. ListsOK'
  BY <1>1, <1>3 DEF IInv, TasksInv, ListsOK
<1>8. StopOK'
  BY <1>1 DEF IInv, TasksInv, StopOK, Stopped
<1>9. FreshOK'
  BY <1>1, <1>3, <1>4 DEF IInv, TasksInv, FreshOK, TaskTypes
<1>10. OwnedUntilFinished'
  BY <1>1, <1>3, <1>4, TaskConstants
     DEF IInv, TasksInv, OwnedUntilFinished, TaskTypes, Tasks, t
<1>11. SlotsMatchWorkers'
  BY <1>1, <1>3, <1>4, <1>5 DEF IInv, TasksInv, SlotsMatchWorkers, Working, TaskTypes, Tasks
<1>12. QED BY <1>2, <1>6, <1>7, <1>8, <1>9, <1>10, <1>11 DEF IInv, TasksInv

LEMMA StopWithJobInHandOK == ASSUME IInv, StopWithJobInHand PROVE IInv'
<1> DEFINE t == inHand
<1>1. /\ dispatch = "slot" /\ Stopped /\ Reject(t) /\ job' = [job EXCEPT ![t] = "over"]
      /\ inHand' = NoTask /\ dispatch' = "drain" /\ UNCHANGED <<held, slots, queue, closer, crashes>>
  BY DEF StopWithJobInHand, GoTo
<1>2. t \in Submitted /\ t \in Tasks /\ t \notin ToSet(queue) /\ NoTask \notin ToSet(queue) /\ NoTask \notin Tasks
  BY <1>1, TaskConstants, Domains DEF IInv, TasksInv, StopOK, TaskTypes, ListsOK, Tasks
<1>3. job[t] = "queued"
  BY <1>2 DEF IInv, TasksInv, OwnedUntilFinished
<1>4. StopOK'
  BY <1>1 DEF IInv, TasksInv, StopOK, Stopped
<1>5. \A u \in Tasks : u \in ToSet(queue') \union {inHand'} <=> u \in (ToSet(queue) \union {inHand}) \ {t}
  BY <1>1, <1>2
<1> HIDE DEF t
<1>6. QED BY <1>1, <1>2, <1>3, <1>4, <1>5, RejectOK DEF IInv, TasksInv, ListsOK, TaskTypes

LEMMA StopDispatchOK == ASSUME IInv, StopDispatch PROVE IInv'
<1>1. /\ dispatch = "select" /\ Stopped /\ dispatch' = "drain"
      /\ UNCHANGED <<status, finished, live, job, held, slots, queue, inHand, closer>>
  BY DEF StopDispatch, tasks, workers
<1>2. StoreInv'
  BY StoreKept DEF StopDispatch, tasks, IInv
<1>3. QED BY <1>1, <1>2
             DEF IInv, TasksInv, TaskTypes, ListsOK, StopOK, Stopped, WorkersIdle, FreshOK,
                            OwnedUntilFinished, SlotsMatchWorkers

LEMMA DrainOK == ASSUME IInv, Drain PROVE IInv'
<1>1. dispatch = "drain" /\ Stopped /\ inHand = NoTask /\ UNCHANGED <<held, slots, inHand, closer, crashes>>
  BY DEF Drain, IInv, TasksInv, StopOK
<1>2. CASE queue = <<>>
  <2>1. dispatch' = "done" /\ UNCHANGED <<status, finished, live, job, queue>>
    BY <1>2 DEF Drain, tasks
  <2>2. StoreInv'
    BY <1>2, StoreKept DEF Drain, tasks, IInv
  <2>3. QED BY <1>1, <1>2, <2>1, <2>2
               DEF IInv, TasksInv, TaskTypes, ListsOK, StopOK, Stopped, WorkersIdle,
                                          FreshOK, OwnedUntilFinished, SlotsMatchWorkers
<1>3. CASE queue # <<>>
  <2> DEFINE t == Head(queue)
  <2>1. /\ Reject(t) /\ job' = [job EXCEPT ![t] = "over"] /\ queue' = Tail(queue) /\ dispatch' = dispatch
    BY <1>3 DEF Drain, GoTo
  <2>2. queue \in Seq(Submitted) /\ IsInjective(queue) /\ Len(queue) \in Nat /\ Len(queue) <= QueueLimit
    BY Domains DEF IInv, TasksInv, ListsOK, TaskTypes
  <2>3. /\ t \in ToSet(queue) /\ t \in Submitted
        /\ queue' \in Seq(Submitted) /\ Len(queue') = Len(queue) - 1
        /\ IsInjective(queue') /\ ToSet(queue') = ToSet(queue) \ {t}
    BY <1>3, <2>1, <2>2, TailRange
  <2> HIDE DEF t
  <2>4. t \in Tasks /\ NoTask \notin Tasks /\ NoTask \notin ToSet(queue)
    BY <2>2, <2>3, TaskConstants, Domains DEF Tasks
  <2>5. job[t] = "queued"
    BY <2>3, <2>4 DEF IInv, TasksInv, OwnedUntilFinished
  <2>6. StopOK'
    BY <1>1, <2>1 DEF IInv, TasksInv, StopOK, Stopped
  <2>7. \A u \in Tasks : u \in ToSet(queue') \union {inHand'} <=> u \in (ToSet(queue) \union {inHand}) \ {t}
    BY <1>1, <2>3, <2>4
  <2>8. inHand' \in Submitted \union {NoTask} /\ inHand' \notin ToSet(queue') /\ Len(queue') <= QueueLimit
    BY <1>1, <2>2, <2>3, <2>4, TaskConstants
  <2>9. QED BY <1>1, <2>1, <2>3, <2>4, <2>5, <2>6, <2>7, <2>8, RejectOK
<1>4. QED BY <1>2, <1>3

-----------------------------------------------------------------------------
(* The persistence loop *)

LEMMA CollectOK ==
  ASSUME IInv, NEW final \in BOOLEAN, writer = "idle", Collect(final)
  PROVE  StoreInv'
<1>1. /\ wake' = (wake /\ final) /\ UNCHANGED <<status, durable, crashes>>
  BY DEF Collect, tasks
<1>2. status \in [Tasks -> Statuses]
  BY DEF IInv, TasksInv, TaskTypes
<1>3. CASE dirty = {}
  <2>1. writer' = (IF final THEN "done" ELSE "idle") /\ UNCHANGED <<dirty, last, batch>>
    BY <1>3 DEF Collect
  <2>2. StoreTypes'
    BY <1>1, <2>1 DEF IInv, StoreInv, StoreTypes
  <2>3. UnsavedIsPending' /\ CopiedOK'
    BY <1>1, <1>3, <2>1 DEF IInv, StoreInv, UnsavedIsPending, CopiedOK
  <2>4. (dirty # {} /\ writer # "done" => wake)' /\ (~Persistent => writer = "done")'
    BY <1>3, <2>1 DEF IInv, StoreInv
  <2>5. QED BY <2>2, <2>3, <2>4 DEF StoreInv
<1>4. CASE dirty # {}
  <2>1. /\ writer' = "save" /\ last' = final /\ dirty' = {}
        /\ batch' = [t \in Tasks |-> IF t \in dirty THEN status[t] ELSE "none"]
    BY <1>4 DEF Collect
  <2>2. StoreTypes'
    BY <1>1, <1>2, <2>1 DEF IInv, StoreInv, StoreTypes, Statuses
  <2>3. UnsavedIsPending' /\ CopiedOK'
    BY <1>1, <2>1 DEF IInv, StoreInv, UnsavedIsPending, CopiedOK
  <2>4. (dirty # {} /\ writer # "done" => wake)' /\ (~Persistent => writer = "done")'
    BY <2>1 DEF IInv, StoreInv
  <2>5. QED BY <2>2, <2>3, <2>4 DEF StoreInv
<1>5. QED BY <1>3, <1>4

LEMMA SavedOK ==
  ASSUME IInv, SaveSucceeds \/ SaveFails
  PROVE  StoreInv'
<1>1. /\ writer = "save" /\ writer' = (IF last THEN "done" ELSE "idle")
      /\ batch' = [t \in Tasks |-> "none"] /\ UNCHANGED <<status, last, crashes>>
      /\ durable' \in {durable, Saved}
  BY DEF SaveSucceeds, SaveFails, tasks
<1>2. Saved \in [Tasks -> Statuses]
  BY DEF Saved, IInv, StoreInv, StoreTypes
<1>3. \A t \in Tasks : Saved[t] = IF batch[t] # "none" THEN batch[t] ELSE durable[t]
  BY DEF Saved
<1>4. Persistent
  BY <1>1 DEF IInv, StoreInv
<1> HIDE DEF Saved
<1>5. CASE SaveSucceeds
  <2>1. durable' = Saved /\ UNCHANGED <<dirty, wake>>
    BY <1>5 DEF SaveSucceeds
  <2>2. StoreTypes'
    BY <1>1, <1>2, <2>1 DEF IInv, StoreInv, StoreTypes, Statuses
  <2>3. \A t \in Tasks : status'[t] \notin {"none", durable'[t]} => t \in dirty
    BY <1>1, <1>3, <2>1 DEF IInv, StoreInv, UnsavedIsPending, CopiedOK
  <2>4. writer' # "save"
    BY <1>1
  <2>5. QED BY <1>1, <1>4, <2>1, <2>2, <2>3, <2>4
               DEF IInv, StoreInv, UnsavedIsPending, CopiedOK
<1>6. CASE SaveFails
  <2>1. dirty' = dirty \union {t \in Tasks : batch[t] # "none"} /\ wake' = TRUE
    BY <1>6 DEF SaveFails, Requeue
  <2>2. StoreTypes'
    BY <1>1, <1>2, <2>1 DEF IInv, StoreInv, StoreTypes, Statuses
  <2>3. \A t \in Tasks : status'[t] \notin {"none", durable'[t]} => t \in dirty'
    BY <1>1, <1>3, <2>1 DEF IInv, StoreInv, UnsavedIsPending
  <2>4. writer' # "save"
    BY <1>1
  <2>5. QED BY <1>1, <1>4, <2>1, <2>2, <2>3, <2>4 DEF StoreInv, UnsavedIsPending, CopiedOK
<1>7. QED BY <1>5, <1>6

LEMMA WriterOK == ASSUME IInv, Writer PROVE IInv'
<1>1. UNCHANGED <<status, finished, live, job, held, slots, queue, dispatch, inHand, closer>>
  BY DEF Writer, Debounced, LastSave, Collect, SaveSucceeds, SaveFails, tasks, workers, loop
<1>2. TasksInv'
  BY <1>1 DEF IInv, TasksInv, TaskTypes, ListsOK, StopOK, Stopped, WorkersIdle, FreshOK,
              OwnedUntilFinished, SlotsMatchWorkers
<1>3. StoreInv'
  BY CollectOK, SavedOK DEF Writer, Debounced, LastSave
<1>4. QED BY <1>2, <1>3 DEF IInv

-----------------------------------------------------------------------------
(* Close and restart *)

LEMMA CloserOK == ASSUME IInv, StopAccepting \/ Close PROVE IInv'
<1>1. UNCHANGED <<status, finished, job, held, slots, queue, dispatch, inHand>> /\ live' \subseteq live
  BY
     DEF StopAccepting, Close, CancelAll, DispatcherDone, WorkersDone, WriterDone, tasks, workers, loop
<1>2. StoreInv'
  BY StoreKept
     DEF StopAccepting, Close, CancelAll, DispatcherDone, WorkersDone, WriterDone, tasks, IInv
<1>3. /\ closer' \in Closing
      /\ closer' \in {"workers", "writer", "closed"} => dispatch = "done"
      /\ closer' \in {"writer", "closed"} => WorkersIdle
  BY
     DEF StopAccepting, Close, CancelAll, DispatcherDone, WorkersDone, WriterDone, Closing, IInv, TasksInv, StopOK
<1>4. StopOK'
  BY <1>1, <1>3 DEF IInv, TasksInv, StopOK, Stopped, WorkersIdle, Closing
<1>5. TaskTypes' /\ ListsOK' /\ FreshOK' /\ OwnedUntilFinished' /\ SlotsMatchWorkers'
  BY <1>1, <1>3
     DEF IInv, TasksInv, TaskTypes, ListsOK, FreshOK, OwnedUntilFinished, SlotsMatchWorkers
<1>6. QED BY <1>2, <1>4, <1>5 DEF IInv, TasksInv

LEMMA CrashOK == ASSUME IInv, Crash PROVE IInv'
<1>1. /\ Persistent /\ crashes < MaxCrashes /\ crashes' = crashes + 1
      /\ wake' = (dirty' # {}) /\ live' = {} /\ job' = [t \in Tasks |-> "over"]
      /\ held' = {} /\ slots' = 0 /\ queue' = <<>> /\ dispatch' = "select" /\ inHand' = NoTask
      /\ closer' = "open" /\ writer' = "idle" /\ last' = FALSE
      /\ batch' = [t \in Tasks |-> "none"] /\ durable' = durable
  BY DEF Crash
<1>2. PICK memory \in SUBSET {t \in Tasks : durable[t] # "none"} :
        /\ status' = [t \in Tasks |-> IF t \in memory THEN Restored(t) ELSE "none"]
        /\ finished' = SetToSeq({t \in Tasks : status'[t] = "completed"})
        /\ dirty' = {t \in Tasks : durable[t] \in Unfinished}
  BY DEF Crash
<1>3. durable \in [Tasks -> Statuses] /\ crashes \in 0 .. MaxCrashes /\ MaxCrashes \in Nat
  BY TaskConstants DEF IInv, StoreInv, StoreTypes
<1>4. \A t \in Tasks : /\ Restored(t) \in {"none", "completed"}
                       /\ durable[t] \notin Unfinished => Restored(t) = durable[t]
  BY <1>3 DEF Restored, Statuses
<1>5. status' \in [Tasks -> Statuses] /\ \A t \in Tasks : status'[t] \notin Unfinished
  BY <1>2, <1>4 DEF Statuses, Unfinished
<1>6. /\ finished' \in Seq(Tasks) /\ IsInjective(finished')
      /\ ToSet(finished') = {t \in Tasks : status'[t] = "completed"}
  BY <1>2, ListOfSet
<1>7. TaskTypes'
  BY <1>1, <1>5, <1>6, TaskConstants, EmptySeq DEF TaskTypes, Jobs, Closing
<1>8. ListsOK'
  BY <1>1, <1>6, EmptyRange DEF ListsOK
<1>9. StopOK' /\ FreshOK'
  BY <1>1 DEF StopOK, Stopped, FreshOK
<1>10. OwnedUntilFinished'
  BY <1>1, <1>5, EmptyRange, TaskConstants DEF OwnedUntilFinished, Tasks
<1>11. SlotsMatchWorkers'
  BY <1>1, FS_EmptySet DEF SlotsMatchWorkers
<1>12. StoreTypes'
  <2>1. crashes' \in 0 .. MaxCrashes
    BY <1>1, <1>3
  <2>2. wake' \in BOOLEAN /\ batch' \in [Tasks -> Statuses] /\ dirty' \subseteq Tasks
    BY <1>1, <1>2 DEF Statuses
  <2>3. QED BY <1>1, <1>3, <2>1, <2>2 DEF StoreTypes
<1>13. UnsavedIsPending' /\ CopiedOK'
  <2>1. \A t \in Tasks : status'[t] \notin {"none", durable[t]} => t \in dirty'
    BY <1>2, <1>4
  <2>2. QED BY <1>1, <2>1 DEF UnsavedIsPending, CopiedOK
<1>14. StoreInv'
  BY <1>1, <1>12, <1>13 DEF StoreInv
<1>15. QED BY <1>7, <1>8, <1>9, <1>10, <1>11, <1>14 DEF IInv, TasksInv

-----------------------------------------------------------------------------
(* The invariant *)

LEMMA InitOK == Init => IInv
<1> SUFFICES ASSUME Init PROVE IInv
  OBVIOUS
<1>1. TaskTypes
  BY TaskConstants, EmptyRange, EmptySeq DEF Init, TaskTypes, Statuses, Jobs
<1>2. ListsOK /\ StopOK /\ FreshOK
  BY EmptyRange DEF Init, ListsOK, StopOK, Stopped, FreshOK
<1>3. OwnedUntilFinished
  BY EmptyRange, TaskConstants DEF Init, OwnedUntilFinished, Unfinished, Tasks
<1>4. SlotsMatchWorkers
  BY FS_EmptySet DEF Init, SlotsMatchWorkers
<1>5. StoreInv
  <2>1. StoreTypes
    <3>1. 0 \in 0 .. MaxCrashes
      BY TaskConstants
    <3>2. writer \in {"idle", "done"} /\ batch \in [Tasks -> Statuses] /\ durable \in [Tasks -> Statuses]
      BY DEF Init, Statuses
    <3>3. dirty = {} /\ wake = FALSE /\ last = FALSE /\ crashes = 0
      BY DEF Init
    <3>4. QED BY <3>1, <3>2, <3>3 DEF StoreTypes
  <2>2. UnsavedIsPending /\ CopiedOK
    BY DEF Init, UnsavedIsPending, CopiedOK
  <2>3. dirty = {} /\ (~Persistent => writer = "done")
    BY DEF Init
  <2>4. QED BY <2>1, <2>2, <2>3 DEF StoreInv
<1>6. QED BY <1>1, <1>2, <1>3, <1>4, <1>5 DEF IInv, TasksInv

LEMMA StepOK == IInv /\ [Next]_vars => IInv'
<1> SUFFICES ASSUME IInv, [Next]_vars PROVE IInv'
  OBVIOUS
<1>1. CASE \E t \in Tasks : Create(t) \/ Cancel(t)
  BY <1>1, CreateOK, CancelOK
<1>2. CASE \E t \in Tasks : Work(t)
  BY <1>2, EnqueueOK, YieldOK, AdmittedOK, AcquireOK, UpstreamOK, FinishOK, LeaveOK DEF Work
<1>3. CASE Dispatcher
  BY <1>3, TakeJobOK, StartWorkerOK, StopWithJobInHandOK, StopDispatchOK, DrainOK
     DEF Dispatcher
<1>4. CASE Writer \/ StopAccepting \/ Close \/ Crash
  BY <1>4, WriterOK, CloserOK, CrashOK
<1>5. CASE UNCHANGED vars
  BY <1>5
     DEF vars, IInv, TasksInv, TaskTypes, ListsOK, StopOK, Stopped, WorkersIdle, FreshOK,
              OwnedUntilFinished, SlotsMatchWorkers, StoreInv, StoreTypes, UnsavedIsPending, CopiedOK
<1>6. QED BY <1>1, <1>2, <1>3, <1>4, <1>5 DEF Next

(* The inductive invariant: every task that is not finished is with exactly *)
(* one of its caller, the channel, the dispatcher or a worker, the slots    *)
(* are those of the workers, dispatcher and Close stop in their order, and  *)
(* what the history lacks is dirty or being saved.                          *)
THEOREM TasksInvariant == Spec => []IInv
<1>1. QED BY InitOK, StepOK, PTL DEF Spec

(* Every variable of the manager keeps its type, and the list of completed *)
(* tasks has exactly the completed tasks that are in memory.               *)
THEOREM TasksTypeCorrect == Spec => []TypeOK
<1>1. IInv => TypeOK
  BY Domains DEF IInv, TasksInv, TaskTypes, ListsOK, StoreInv, StoreTypes, TypeOK
<1>2. QED BY <1>1, TasksInvariant, PTL

(* dispatchWorkerLease: the occupied slots are those of tasks at work, and *)
(* a task that waits for admission has none.                               *)
THEOREM SlotsAreExact == Spec => []SlotsMatchWorkers
<1>1. IInv => SlotsMatchWorkers
  BY DEF IInv, TasksInv
<1>2. QED BY <1>1, TasksInvariant, PTL

(* enqueue, dispatchLoop, rejectPendingTasks, loadTasks: a task that is    *)
(* queued or running always has somebody who will finish it, with a full   *)
(* queue, a stopping manager and after a crash.                            *)
THEOREM NoTaskIsOrphaned == Spec => []OwnedUntilFinished
<1>1. IInv => OwnedUntilFinished
  BY DEF IInv, TasksInv
<1>2. QED BY <1>1, TasksInvariant, PTL

(* markDirtyLocked, persistPending: a change that the history lacks is     *)
(* dirty with the loop awake, or in the save that is running.              *)
THEOREM UnsavedChangesArePending == Spec => []UnsavedIsPending
<1>1. IInv => UnsavedIsPending
  BY DEF IInv, StoreInv
<1>2. QED BY <1>1, TasksInvariant, PTL

(* Close: when it has returned no worker runs, and no task that went       *)
(* through the channel is left queued or running.                          *)
THEOREM ClosedIsQuiet == Spec => []QuietWhenClosed
<1>1. ASSUME IInv, closer = "closed", NEW t \in Submitted
      PROVE  /\ job[t] \in {"new", "created", "over"}
             /\ job[t] = "over" => status[t] \notin Unfinished
  <2>1. t \in Tasks /\ NoTask \notin Tasks /\ job[t] \in Jobs
    BY <1>1, TaskConstants DEF IInv, TasksInv, TaskTypes, Tasks
  <2>2. queue = <<>> /\ inHand = NoTask /\ job[t] \notin Working
    BY <1>1 DEF IInv, TasksInv, StopOK, WorkersIdle
  <2>3. job[t] # "queued"
    BY <1>1, <2>1, <2>2, EmptyRange DEF IInv, TasksInv, OwnedUntilFinished
  <2>4. job[t] = "over" => status[t] \notin Unfinished
    BY <1>1, <2>1 DEF IInv, TasksInv, OwnedUntilFinished
  <2>5. QED BY <2>1, <2>2, <2>3, <2>4 DEF Jobs, Working
<1>2. IInv => QuietWhenClosed
  BY <1>1 DEF QuietWhenClosed
<1>3. QED BY <1>2, TasksInvariant, PTL

-----------------------------------------------------------------------------
(* A task that has ended *)

\* A task that has not ended had not ended before the step.
Begins(u) == status'[u] \in Unfinished => status[u] \in Unfinished \/ job[u] = "new"
MemoryMoves ==
  /\ UNCHANGED <<batch, durable>>
  /\ \A u \in Tasks : Begins(u) /\ (job'[u] = "new" => job[u] = "new")

\* The history and the running save are never ahead of the memory.
HistoryOK ==
  \A t \in Tasks :
    /\ job[t] = "new" => batch[t] = "none" /\ durable[t] = "none"
    /\ "completed" \in {batch[t], durable[t]} => status[t] \notin Unfinished
    /\ durable[t] = "completed" => batch[t] \notin Unfinished

LEMMA GoesOn ==
  ASSUME IInv, NEW t \in Tasks, NEW label \in Jobs \ {"new"}, GoTo(t, label)
  PROVE  \A u \in Tasks : job'[u] = "new" => job[u] = "new"
BY DEF IInv, TasksInv, TaskTypes, GoTo

LEMMA SetBegins ==
  ASSUME IInv, NEW t \in Tasks, NEW s, SetStatus(t, s), status[t] \in Unfinished \/ job[t] = "new"
  PROVE  (\A u \in Tasks : Begins(u)) /\ UNCHANGED <<batch, durable>>
BY DEF IInv, TasksInv, TaskTypes, SetStatus, Begins

LEMMA CompleteBegins ==
  ASSUME IInv, NEW t \in Tasks, Complete(t)
  PROVE  (\A u \in Tasks : Begins(u)) /\ UNCHANGED <<batch, durable>>
BY DEF Complete, Begins, Unfinished

LEMMA TaskMoves ==
  ASSUME IInv, NEW t \in Tasks, Create(t) \/ Work(t) \/ Cancel(t)
  PROVE  MemoryMoves
<1> USE DEF MemoryMoves, tasks, store
<1>0. {"created", "run", "waiting", "acquire", "queued", "over", "leave"} \subseteq Jobs \ {"new"}
  BY DEF Jobs, Working
<1>1. job[t] \in {"created", "run", "waiting"} => status[t] \in Unfinished
  BY DEF IInv, TasksInv, OwnedUntilFinished
<1>2. CASE Create(t)
  BY <1>0, <1>2, GoesOn, SetBegins DEF Create
<1>3. CASE Enqueue(t)
  <2>1. CASE closer = "open" /\ Len(queue) < QueueLimit
    BY <1>0, <1>3, <2>1, GoesOn DEF Enqueue, Begins
  <2>2. CASE ~(closer = "open" /\ Len(queue) < QueueLimit)
    BY <1>0, <1>3, <2>2, GoesOn, CompleteBegins DEF Enqueue, Reject
  <2> QED BY <2>1, <2>2
<1>4. CASE Yield(t) \/ Upstream(t)
  <2>1. UNCHANGED job \/ GoTo(t, "waiting")
    BY <1>4 DEF Yield, Upstream, workers
  <2>2. (\A u \in Tasks : Begins(u)) /\ UNCHANGED <<batch, durable>>
    BY <1>1, <1>4, SetBegins DEF Yield, Upstream
  <2> QED BY <1>0, <2>1, <2>2, GoesOn
<1>5. CASE Finish(t)
  BY <1>0, <1>5, GoesOn, CompleteBegins DEF Finish
<1>6. CASE Admitted(t) \/ Acquire(t) \/ Leave(t)
  BY <1>0, <1>6, GoesOn DEF Admitted, Acquire, Leave, Begins
<1>7. CASE Cancel(t)
  BY <1>7 DEF Cancel, workers, Begins
<1> QED BY <1>2, <1>3, <1>4, <1>5, <1>6, <1>7 DEF Work

LEMMA DispatcherMoves ==
  ASSUME IInv, Dispatcher \/ StopAccepting \/ Close
  PROVE  MemoryMoves
<1> USE DEF MemoryMoves, tasks, store, workers
<1>0. {"run", "over"} \subseteq Jobs \ {"new"}
  BY DEF Jobs, Working
<1>1. CASE TakeJob \/ StopDispatch \/ StopAccepting \/ Close
  BY <1>1 DEF TakeJob, StopDispatch, StopAccepting, Close, CancelAll, DispatcherDone,
     WorkersDone, WriterDone, Begins
<1>2. dispatch = "slot" => inHand \in Tasks
  BY DEF IInv, TasksInv, StopOK, TaskTypes, Tasks
<1>3. queue # <<>> => Head(queue) \in Tasks
  BY HeadTailProperties DEF IInv, TasksInv, ListsOK, Tasks
<1>4. CASE StartWorker
  BY <1>0, <1>2, <1>4, GoesOn DEF StartWorker, Begins
<1>5. CASE StopWithJobInHand
  BY <1>0, <1>2, <1>5, GoesOn, CompleteBegins DEF StopWithJobInHand, Reject
<1>6. CASE Drain
  <2>1. CASE queue = <<>>
    BY <1>6, <2>1 DEF Drain, Begins
  <2>2. CASE queue # <<>>
    BY <1>0, <1>3, <1>6, <2>2, GoesOn, CompleteBegins DEF Drain, Reject
  <2> QED BY <2>1, <2>2
<1> QED BY <1>1, <1>4, <1>5, <1>6 DEF Dispatcher

LEMMA MemoryOK ==
  ASSUME IInv, HistoryOK, MemoryMoves
  PROVE  HistoryOK' /\ \A t \in Tasks : /\ status[t] = "completed" => status'[t] \notin Unfinished
                                        /\ durable'[t] = durable[t]
BY DEF HistoryOK, MemoryMoves, Begins, IInv, TasksInv, FreshOK, Unfinished

LEMMA WriterMoves ==
  ASSUME IInv, HistoryOK, Writer
  PROVE  /\ HistoryOK' /\ status' = status
         /\ \A t \in Tasks : durable[t] = "completed" => durable'[t] = "completed"
<1>1. UNCHANGED <<status, job>>
  BY DEF Writer, Debounced, LastSave, Collect, SaveSucceeds, SaveFails, tasks, workers
<1>2. \A t \in Tasks : job[t] = "new" => status[t] = "none"
  BY DEF IInv, TasksInv, FreshOK
<1>3. batch \in [Tasks -> Statuses] /\ durable \in [Tasks -> Statuses] /\ status \in [Tasks -> Statuses]
  BY DEF IInv, TasksInv, TaskTypes, StoreInv, StoreTypes
<1>4. CASE Debounced \/ LastSave
  <2>1. /\ durable' = durable
        /\ batch' = batch \/ batch' = [t \in Tasks |-> IF t \in dirty THEN status[t] ELSE "none"]
    BY <1>4 DEF Debounced, LastSave, Collect
  <2>2. CASE batch' = batch
    BY <1>1, <2>1, <2>2 DEF HistoryOK
  <2>3. CASE batch' = [t \in Tasks |-> IF t \in dirty THEN status[t] ELSE "none"]
    <3>1. \A t \in Tasks : batch'[t] \in {"none", status[t]}
      BY <2>3
    <3> QED BY <1>1, <1>2, <2>1, <3>1 DEF HistoryOK, Unfinished
  <2> QED BY <1>1, <2>1, <2>2, <2>3
<1>5. CASE SaveSucceeds \/ SaveFails
  <2>1. batch' = [t \in Tasks |-> "none"] /\ durable' \in {durable, Saved}
    BY <1>5 DEF SaveSucceeds, SaveFails
  <2>2. \A t \in Tasks : /\ batch'[t] = "none"
                         /\ durable'[t] = durable[t] \/ (durable'[t] = batch[t] /\ batch[t] # "none")
    BY <2>1 DEF Saved
  <2>3. \A t \in Tasks : durable[t] = "completed" => durable'[t] = "completed"
    BY <1>3, <2>2 DEF HistoryOK, Statuses
  <2>4. HistoryOK'
    BY <1>1, <1>3, <2>2 DEF HistoryOK, Unfinished
  <2> QED BY <1>1, <2>3, <2>4
<1> QED BY <1>4, <1>5 DEF Writer

LEMMA CrashMoves ==
  ASSUME IInv, HistoryOK, Crash
  PROVE  HistoryOK' /\ \A t \in Tasks : status'[t] \notin Unfinished /\ durable'[t] = durable[t]
<1>1. /\ job' = [t \in Tasks |-> "over"] /\ batch' = [t \in Tasks |-> "none"] /\ durable' = durable
  BY DEF Crash
<1>2. PICK memory \in SUBSET Tasks :
        status' = [t \in Tasks |-> IF t \in memory THEN Restored(t) ELSE "none"]
  BY DEF Crash
<1>3. \A t \in Tasks : status'[t] \notin Unfinished
  BY <1>2 DEF Restored, Unfinished
<1> QED BY <1>1, <1>3 DEF HistoryOK, Unfinished

(* A task with a final status keeps it: a late or failed save, a wait for   *)
(* admission and a restart never make it queued or running again, nor does  *)
(* an older copy of it reach the history (persistPending, loadTasks).       *)
THEOREM EndedTasksStayEnded == Spec => EndedStaysEnded
<1>1. Init => HistoryOK
  BY DEF Init, HistoryOK, Unfinished
<1>2. ASSUME IInv, HistoryOK, [Next]_vars
      PROVE  HistoryOK' /\ \A t \in Tasks : /\ status[t] = "completed" => status'[t] \notin Unfinished
                                            /\ durable[t] = "completed" => durable'[t] = "completed"
  <2>1. CASE UNCHANGED vars
    BY <1>2, <2>1 DEF vars, HistoryOK, Unfinished
  <2>2. CASE \E t \in Tasks : Create(t) \/ Work(t) \/ Cancel(t)
    BY <1>2, <2>2, TaskMoves, MemoryOK
  <2>3. CASE Dispatcher \/ StopAccepting \/ Close
    BY <1>2, <2>3, DispatcherMoves, MemoryOK
  <2>4. CASE Writer
    BY <1>2, <2>4, WriterMoves DEF Unfinished
  <2>5. CASE Crash
    BY <1>2, <2>5, CrashMoves
  <2> QED BY <1>2, <2>1, <2>2, <2>3, <2>4, <2>5 DEF Next
<1>3. IInv /\ HistoryOK /\ [Next]_vars => HistoryOK'
  BY <1>2
<1>4. IInv /\ HistoryOK /\ [Next]_vars =>
        \A t \in Tasks : /\ status[t] = "completed" => status'[t] \notin Unfinished
                         /\ durable[t] = "completed" => durable'[t] = "completed"
  BY <1>2
<1> QED BY <1>1, <1>3, <1>4, TasksInvariant, PTL DEF Spec, EndedStaysEnded

-----------------------------------------------------------------------------
(* The slots of the workers *)

LEMMA TableCardinality ==
  ASSUME NEW S
  PROVE  WorkerTable!Cardinality(S) = Cardinality(S)
BY DEF WorkerTable!Cardinality, Cardinality

\* The step gives a slot to a submitted task that has none, or gives none.
Takes(t)  == t \notin held /\ slots < WorkerLimit /\ held' = held \union {t}
TakesNone == held' \subseteq held

LEMMA SlotMoves ==
  ASSUME IInv, [Next]_vars
  PROVE  (\E t \in Submitted : Takes(t)) \/ TakesNone
<1> USE DEF Takes, TakesNone, workers
<1>1. CASE UNCHANGED vars
  BY <1>1 DEF vars
<1>2. ASSUME NEW t \in Tasks, Create(t) \/ Enqueue(t) \/ Admitted(t) \/ Upstream(t) \/ Finish(t) \/ Cancel(t)
      PROVE  held' = held
  BY <1>2 DEF Create, Enqueue, Admitted, Upstream, Finish, Cancel
<1>3. ASSUME NEW t \in Tasks, Yield(t) \/ Leave(t) PROVE TakesNone
  BY <1>3 DEF Yield, Leave, ReleaseSlot
<1>4. ASSUME NEW t \in Tasks, Acquire(t) PROVE (t \in Submitted /\ Takes(t)) \/ TakesNone
  BY <1>4 DEF Acquire, IInv, TasksInv, SlotsMatchWorkers, Working
<1>5. CASE StartWorker
  <2>1. inHand \in Submitted
    BY <1>5 DEF StartWorker, IInv, TasksInv, StopOK, TaskTypes
  <2>2. inHand \notin held
    BY <2>1 DEF IInv, TasksInv, OwnedUntilFinished, SlotsMatchWorkers, Tasks, Working
  <2> QED BY <1>5, <2>1, <2>2 DEF StartWorker
<1>6. CASE TakeJob \/ StopWithJobInHand \/ StopDispatch \/ Drain \/ StopAccepting \/ Close \/ Writer
  BY <1>6 DEF TakeJob, StopWithJobInHand, StopDispatch, Drain, StopAccepting, Close, CancelAll,
     DispatcherDone, WorkersDone, WriterDone, Writer, Debounced, LastSave, Collect, SaveSucceeds,
     SaveFails
<1>7. CASE Crash
  BY <1>7 DEF Crash
<1> QED BY <1>1, <1>2, <1>3, <1>4, <1>5, <1>6, <1>7 DEF Next, Work, Dispatcher

WorkerHolds == [t \in Submitted |-> IF t \in held THEN "worker" ELSE "nothing"]
WorkerRoom  == [w \in {"worker"} |-> WorkerLimit]

(* The worker slots are a table of slots: the dispatcher and acquire give   *)
(* one only to a task without one and only while there is room, and a      *)
(* release, also a second one, a reject and a restart give none.           *)
THEOREM TasksImplementSlots == Spec => WorkersAreSlots
<1>1. WorkerRoom \in [{"worker"} -> Nat]
  BY TaskConstants DEF WorkerRoom
<1>2. Init => WorkerTable!Init
  BY <1>1 DEF Init, WorkerTable!Init, WorkerRoom
<1>3. IInv /\ [Next]_vars => [WorkerTable!Next]_<<WorkerHolds, WorkerRoom>>
  <2> SUFFICES ASSUME IInv, [Next]_vars PROVE WorkerTable!Next
    OBVIOUS
  <2>1. ASSUME NEW t \in Submitted, Takes(t)
        PROVE  WorkerTable!Grant(t, "worker")
    <3>1. WorkerTable!Holders("worker") = held
      BY DEF WorkerTable!Holders, IInv, TasksInv, TaskTypes
    <3>2. Cardinality(WorkerTable!Holders("worker")) < WorkerRoom["worker"]
      BY <2>1, <3>1 DEF Takes, WorkerRoom, IInv, TasksInv, SlotsMatchWorkers
    <3>3. WorkerHolds[t] = "nothing" /\ WorkerHolds' = [WorkerHolds EXCEPT ![t] = "worker"]
      BY <2>1 DEF Takes, WorkerHolds
    <3> QED BY <3>2, <3>3, TableCardinality DEF WorkerTable!Grant, WorkerRoom, WorkerHolds
  <2>2. ASSUME TakesNone
        PROVE  \E S \in SUBSET Submitted : WorkerTable!GiveBack(S)
    <3> DEFINE S == Submitted \ held'
    <3>1. WorkerHolds' = [t \in Submitted |-> IF t \in S THEN "nothing" ELSE WorkerHolds[t]]
      BY <2>2 DEF TakesNone, WorkerHolds
    <3> QED BY <1>1, <3>1 DEF WorkerTable!GiveBack, WorkerRoom, WorkerHolds
  <2> QED BY <2>1, <2>2, SlotMoves DEF WorkerTable!Next
<1> QED BY <1>2, <1>3, TasksInvariant, PTL DEF Spec, WorkersAreSlots, WorkerTable!Spec, WorkerHolds, WorkerRoom

\* While the manager is open a submitted task at work has a slot.
SlotsOK == ~Stopped => \A t \in Submitted : job[t] = "run" => t \in held

LEMMA RunMoves ==
  ASSUME IInv, SlotsOK, [Next]_vars
  PROVE  SlotsOK'
<1> USE DEF SlotsOK, Stopped, workers, loop
<1>0. job \in [Tasks -> Jobs] /\ held \subseteq Submitted /\ Submitted \subseteq Tasks
  BY DEF IInv, TasksInv, TaskTypes, Tasks
<1>1. CASE UNCHANGED vars
  BY <1>1 DEF vars
<1>2. ASSUME NEW t \in Tasks, Create(t) \/ Enqueue(t) \/ Admitted(t) \/ Upstream(t) \/ Finish(t) \/ Cancel(t)
      PROVE  SlotsOK'
  BY <1>0, <1>2 DEF Create, Enqueue, Admitted, Upstream, Finish, Cancel, GoTo
<1>3. ASSUME NEW t \in Tasks, Yield(t) \/ Leave(t) PROVE SlotsOK'
  BY <1>0, <1>3 DEF Yield, Leave, ReleaseSlot, GoTo
<1>4. ASSUME NEW t \in Tasks, Acquire(t) PROVE SlotsOK'
  BY <1>0, <1>4 DEF Acquire, GoTo
<1>5. CASE StartWorker
  BY <1>0, <1>5 DEF StartWorker, GoTo
<1>6. CASE TakeJob \/ StopDispatch \/ StopAccepting \/ Close \/ Writer
  BY <1>0, <1>6 DEF TakeJob, StopDispatch, StopAccepting, Close, CancelAll,
     DispatcherDone, WorkersDone, WriterDone, Writer, Debounced, LastSave, Collect, SaveSucceeds,
     SaveFails
<1>7. CASE StopWithJobInHand \/ Drain
  BY <1>0, <1>7 DEF StopWithJobInHand, Drain, GoTo
<1>8. CASE Crash
  BY <1>0, <1>8 DEF Crash
<1> QED BY <1>1, <1>2, <1>3, <1>4, <1>5, <1>6, <1>7, <1>8 DEF Next, Work, Dispatcher

(* asyncTaskWorkerLimit bounds the generations of the queue that run, not   *)
(* only the slots (acquire, release, StartWorker of the dispatch loop).     *)
THEOREM RunningTasksAreBounded == Spec => []RunningIsBounded
<1>1. Init => SlotsOK
  BY DEF Init, SlotsOK, Tasks
<1>2. IInv /\ SlotsOK /\ [Next]_vars => SlotsOK'
  BY RunMoves
<1>3. ASSUME IInv, SlotsOK, ~Stopped
      PROVE  Cardinality({t \in Submitted : job[t] = "run"}) <= WorkerLimit
  <2> DEFINE R == {t \in Submitted : job[t] = "run"}
  <2>1. R \subseteq held /\ IsFiniteSet(held)
    BY <1>3, TaskConstants, FS_Subset DEF SlotsOK, IInv, TasksInv, TaskTypes
  <2>2. Cardinality(held) \in 0 .. WorkerLimit
    BY <1>3 DEF IInv, TasksInv, TaskTypes, SlotsMatchWorkers
  <2> HIDE DEF R
  <2>3. Cardinality(R) <= Cardinality(held) /\ Cardinality(R) \in Nat
    BY <2>1, FS_Subset, FS_CardinalityType
  <2>4. Cardinality(R) <= WorkerLimit
    BY <2>2, <2>3, TaskConstants
  <2> QED BY <2>4 DEF R
<1>4. IInv /\ SlotsOK => RunningIsBounded
  BY <1>3 DEF RunningIsBounded
<1> QED BY <1>1, <1>2, <1>4, TasksInvariant, PTL DEF Spec
=============================================================================
