------------------------ MODULE WebGeneration_proof ------------------------
(***************************************************************************)
(* Proofs about WebGeneration for any finite set of attempts, any accounts,*)
(* images, gates and bounds on tries.                                      *)
(*                                                                         *)
(* Every step of an attempt moves it to a label and leaves it with exactly *)
(* the permits of that label (Moves); a gate can only grow fuller in a     *)
(* step that acquires, and that one has seen room.  A flight belongs to    *)
(* its leader while it fetches, so whoever joined has a leader or, once    *)
(* the flight has landed, an answer.  That no upload is returned rests on  *)
(* every set of references on the way to the links: none of them ever      *)
(* holds the identifier of the upload (OnlyImages).                        *)
(***************************************************************************)
EXTENDS WebGeneration, FiniteSetTheorems, TLAPS

-----------------------------------------------------------------------------
(* Permits *)

\* The permits that belong to a place.
HeldAt(l) == {p \in Phases : l \in PermitsOf(p)}

(* What is held where: nothing in the queues and between the phases, the   *)
(* permit of the phase in it, two while the token machine runs.            *)
LEMMA HeldAtLabels ==
  /\ \A l \in {"new", "done", "uploadSlot", "prepareSlot", "submitSlot", "pollSlot", "pollWait", "settle", "downloadSlot"} :
       HeldAt(l) = {}
  /\ \A l \in Uploading \ {"uploadSlot"} : HeldAt(l) = {"upload"}
  /\ \A l \in Preparing \ {"prepareSlot", "vm"} : HeldAt(l) = {"prepare"}
  /\ HeldAt("vm") = {"prepare", "vm"}
  /\ \A l \in Starting \ {"submitSlot"} : HeldAt(l) = {"submit"}
  /\ HeldAt("poll") = {"poll"} /\ HeldAt("download") = {"download"}
<1>1. \A l \in {"new", "done", "uploadSlot", "prepareSlot", "submitSlot", "pollSlot", "pollWait", "settle", "downloadSlot"} :
        HeldAt(l) = {}
  BY DEF HeldAt, Phases, PermitsOf, Uploading, Preparing, Starting
<1>2. \A l \in Uploading \ {"uploadSlot"} : HeldAt(l) = {"upload"}
  BY DEF HeldAt, Phases, PermitsOf, Uploading, Preparing, Starting
<1>3. \A l \in Preparing \ {"prepareSlot", "vm"} : HeldAt(l) = {"prepare"}
  BY DEF HeldAt, Phases, PermitsOf, Uploading, Preparing, Starting
<1>4. HeldAt("vm") = {"prepare", "vm"}
  BY DEF HeldAt, Phases, PermitsOf, Uploading, Preparing, Starting
<1>5. \A l \in Starting \ {"submitSlot"} : HeldAt(l) = {"submit"}
  BY DEF HeldAt, Phases, PermitsOf, Uploading, Preparing, Starting
<1>6. HeldAt("poll") = {"poll"} /\ HeldAt("download") = {"download"}
  BY DEF HeldAt, Phases, PermitsOf, Uploading, Preparing, Starting
<1> QED BY <1>1, <1>2, <1>3, <1>4, <1>5, <1>6

\* a goes to a place: the gates whose phase it enters had room and count one
\* more, those whose phase it leaves one less, and the others the same.
Moves(a) ==
  \E l \in PCs :
    /\ GoTo(a, l)
    /\ active' = [p \in Phases |-> active'[p]]
    /\ \A p \in HeldAt(l) \ HeldAt(pc[a]) : active[p] < Limit[p] /\ active'[p] = active[p] + 1
    /\ \A p \in HeldAt(pc[a]) \ HeldAt(l) : active'[p] = active[p] - 1
    /\ \A p \in Phases : (p \in HeldAt(l) <=> p \in HeldAt(pc[a])) => active'[p] = active[p]

LEMMA StaysInside ==
  ASSUME TypeOK, NEW a \in Attempts, NEW l \in PCs,
         GoTo(a, l), UNCHANGED active, HeldAt(l) = HeldAt(pc[a])
  PROVE  Moves(a)
BY DEF Moves, TypeOK

LEMMA LeavesPhases ==
  ASSUME TypeOK, NEW a \in Attempts, NEW l \in PCs, NEW permits \in SUBSET Phases,
         GoTo(a, l), GiveBack(permits), permits \subseteq HeldAt(pc[a]), HeldAt(l) = HeldAt(pc[a]) \ permits
  PROVE  Moves(a)
BY DEF Moves, TypeOK, GiveBack, HeldAt

LEMMA EntersPhase ==
  ASSUME TypeOK, NEW a \in Attempts, NEW l \in PCs, NEW p \in Phases,
         GoTo(a, l), Acquire(p), p \notin HeldAt(pc[a]), HeldAt(l) = HeldAt(pc[a]) \union {p}
  PROVE  Moves(a)
<1>1. active[p] \in Nat /\ Limit[p] \in Nat
  BY WebConstants DEF TypeOK
<1>2. active[p] < Limit[p] /\ active' = [active EXCEPT ![p] = @ + 1]
  BY <1>1 DEF Acquire, Full
<1> QED BY <1>2 DEF Moves, TypeOK, HeldAt

(* An attempt that returns runs the releases of the place it was at.       *)
LEMMA ReturnsAll ==
  ASSUME TypeOK, NEW a \in Attempts, NEW r, NEW permits \in SUBSET Phases,
         Return(a, r, permits), permits = HeldAt(pc[a])
  PROVE  Moves(a)
<1>1. HeldAt("done") = {} /\ "done" \in PCs
  BY HeldAtLabels DEF PCs
<1>2. GoTo(a, "done") /\ GiveBack(permits)
  BY DEF Return, Begin
<1> QED BY <1>1, <1>2, LeavesPhases

LEMMA StaysPut ==
  ASSUME TypeOK, NEW a \in Attempts, UNCHANGED <<pc, active>>
  PROVE  Moves(a)
<1>1. GoTo(a, pc[a]) /\ pc[a] \in PCs
  BY DEF GoTo, TypeOK
<1> QED BY <1>1, StaysInside

(* Every step of an attempt is such a move: each wait, try, answer, error  *)
(* and return of GenerateImage.                                            *)
LEMMA StepMoves ==
  ASSUME TypeOK, NEW a \in Attempts, Step(a)
  PROVE  Moves(a)
<1>0. pc[a] \in PCs
  BY DEF TypeOK
<1> USE <1>0, HeldAtLabels, StaysInside, LeavesPhases, EntersPhase, ReturnsAll
    DEF PCs, Phases, Uploading, Preparing, Starting, Resolving, Begin, Again
<1>1. CASE Start(a)
  BY <1>1 DEF Start
<1>2. CASE UploadSlot(a)
  BY <1>2 DEF UploadSlot
<1>3. CASE UploadStage(a)
  <2>1. \/ \E l \in {"create", "put", "confirm"} : GoTo(a, l) /\ UNCHANGED active
        \/ GoTo(a, "prepareSlot") /\ GiveBack({"upload"})
        \/ \E r : Return(a, r, {"upload"})
    BY <1>3 DEF UploadStage, NextStage
  <2>2. HeldAt(pc[a]) = {"upload"} /\ {"upload"} \subseteq Phases
    BY <1>3 DEF UploadStage
  <2>3. CASE \E l \in {"create", "put", "confirm"} : GoTo(a, l) /\ UNCHANGED active
    BY <2>2, <2>3
  <2>4. CASE GoTo(a, "prepareSlot") /\ GiveBack({"upload"})
    BY <2>2, <2>4
  <2>5. CASE \E r : Return(a, r, {"upload"})
    BY <2>2, <2>5
  <2> QED BY <2>1, <2>3, <2>4, <2>5
<1>4. CASE PrepareSlot(a)
  BY <1>4 DEF PrepareSlot
<1>5. CASE Bootstrap(a)
  BY <1>5 DEF Bootstrap
<1>6. CASE Fetch(a)
  BY <1>6 DEF Fetch, AfterBootstrap
<1>7. CASE Clearance(a)
  BY <1>7 DEF Clearance, AfterBootstrap
<1>8. CASE FlightAnswers(a)
  BY <1>8 DEF FlightAnswers, AfterBootstrap
<1>9. CASE Requirements(a)
  BY <1>9 DEF Requirements
<1>10. CASE VMSlot(a)
  <2>1. HeldAt(pc[a]) = {"prepare"} /\ HeldAt("vm") = HeldAt(pc[a]) \union {"vm"} /\ {"prepare"} \subseteq Phases
    BY <1>10 DEF VMSlot
  <2>2. \/ Acquire("vm") /\ GoTo(a, "vm")
        \/ \E r : Return(a, r, {"prepare"})
    BY <1>10 DEF VMSlot
  <2>3. CASE Acquire("vm") /\ GoTo(a, "vm")
    BY <2>1, <2>3
  <2>4. CASE \E r : Return(a, r, {"prepare"})
    BY <2>1, <2>4
  <2> QED BY <2>2, <2>3, <2>4
<1>11. CASE RunVM(a)
  <2>1. HeldAt(pc[a]) = {"vm", "prepare"} /\ HeldAt("finalize") = HeldAt(pc[a]) \ {"vm"} /\ {"vm", "prepare"} \subseteq Phases
    BY <1>11 DEF RunVM
  <2>2. \/ GiveBack({"vm"}) /\ GoTo(a, "finalize")
        \/ \E r : Return(a, r, {"vm", "prepare"})
    BY <1>11 DEF RunVM
  <2>3. CASE GiveBack({"vm"}) /\ GoTo(a, "finalize")
    BY <2>1, <2>3
  <2>4. CASE \E r : Return(a, r, {"vm", "prepare"})
    BY <2>1, <2>4
  <2> QED BY <2>2, <2>3, <2>4
<1>12. CASE Prepare(a)
  <2>1. HeldAt(pc[a]) = {"prepare"} /\ {"prepare"} \subseteq Phases
    BY <1>12 DEF Prepare
  <2>2. \/ GoTo(a, "submitSlot") /\ GiveBack({"prepare"})
        \/ GoTo(a, pc[a]) /\ UNCHANGED active
        \/ \E r : Return(a, r, {"prepare"})
    BY <1>12 DEF Prepare
  <2>3. CASE GoTo(a, "submitSlot") /\ GiveBack({"prepare"})
    BY <2>1, <2>3
  <2>4. CASE GoTo(a, pc[a]) /\ UNCHANGED active
    BY <2>1, <2>4
  <2>5. CASE \E r : Return(a, r, {"prepare"})
    BY <2>1, <2>5
  <2> QED BY <2>2, <2>3, <2>4, <2>5
<1>13. CASE SubmitSlot(a)
  BY <1>13 DEF SubmitSlot
<1>14. CASE Open(a)
  BY <1>14 DEF Open
<1>15. CASE StreamEvent(a)
  <2>1. CASE UNCHANGED <<pc, active>>
    BY <2>1, StaysPut
  <2>2. CASE \E ids \in Visible(a) : Resolve(a, 0, found'[a]) /\ GiveBack({"submit"})
    <3>1. GoTo(a, "downloadSlot") /\ GiveBack({"submit"})
      BY <2>2 DEF Resolve
    <3>2. HeldAt("downloadSlot") = HeldAt(pc[a]) \ {"submit"} /\ {"submit"} \subseteq HeldAt(pc[a])
      BY <1>15 DEF StreamEvent
    <3> QED BY <3>1, <3>2
  <2> QED BY <1>15, <2>1, <2>2 DEF StreamEvent
<1>16. CASE StreamDone(a)
  BY <1>16 DEF StreamDone, StartPolling
<1>17. CASE StreamBreaks(a)
  BY <1>17 DEF StreamBreaks, StartPolling
<1>18. CASE StreamFails(a)
  BY <1>18 DEF StreamFails
<1>19. CASE Resume(a)
  <2>1. HeldAt(pc[a]) = {"submit"} /\ {"submit"} \subseteq Phases
    BY <1>19 DEF Resume
  <2>2. \/ \E l \in {"resumed", "resume"} : GoTo(a, l) /\ UNCHANGED active
        \/ GoTo(a, "pollWait") /\ GiveBack({"submit"})
        \/ \E r : Return(a, r, {"submit"})
    BY <1>19 DEF Resume, StartPolling
  <2>3. CASE \E l \in {"resumed", "resume"} : GoTo(a, l) /\ UNCHANGED active
    BY <2>1, <2>3
  <2>4. CASE GoTo(a, "pollWait") /\ GiveBack({"submit"})
    BY <2>1, <2>4
  <2>5. CASE \E r : Return(a, r, {"submit"})
    BY <2>1, <2>5
  <2> QED BY <2>2, <2>3, <2>4, <2>5
<1>20. CASE PollWait(a)
  BY <1>20 DEF PollWait, PollFails, Resolve
<1>21. CASE PollSlot(a)
  BY <1>21 DEF PollSlot, PollFails, Resolve
<1>22. CASE PollError(a)
  BY <1>22 DEF PollError, PollFails, Resolve
<1>23. CASE PollRefused(a)
  BY <1>23 DEF PollRefused, PollFails, Resolve
<1>24. CASE PollHit(a)
  BY <1>24 DEF PollHit, Resolve
<1>25. CASE PollEmpty(a)
  BY <1>25 DEF PollEmpty
<1>26. CASE Settle(a)
  BY <1>26 DEF Settle, PollFails, Resolve
<1>27. CASE DownloadSlot(a)
  <2>1. CASE UNCHANGED <<pc, active>>
    BY <2>1, StaysPut
  <2>2. CASE Acquire("download") /\ GoTo(a, "download")
    <3>1. HeldAt("download") = HeldAt(pc[a]) \union {"download"} /\ "download" \notin HeldAt(pc[a])
      BY <1>27 DEF DownloadSlot
    <3> QED BY <2>2, <3>1
  <2> QED BY <1>27, <2>1, <2>2 DEF DownloadSlot
<1>28. CASE Download(a)
  BY <1>28 DEF Download
<1>29. CASE Resolved(a)
  BY <1>29 DEF Resolved
<1> QED
  BY <1>1, <1>2, <1>3, <1>4, <1>5, <1>6, <1>7, <1>8, <1>9, <1>10, <1>11,
    <1>12, <1>13, <1>14, <1>15, <1>16, <1>17, <1>18, <1>19, <1>20, <1>21,
    <1>22, <1>23, <1>24, <1>25, <1>26, <1>27, <1>28, <1>29 DEF Step

(* A move keeps the counts those of the phases and no gate over its limit. *)
LEMMA MoveKeepsPermits ==
  ASSUME TypeOK, PermitsFollowPhase, NEW a \in Attempts, Moves(a)
  PROVE  PermitsFollowPhase' /\ active' \in [Phases -> Nat]
<1>0. PICK l \in PCs :
        /\ GoTo(a, l)
        /\ active' = [p \in Phases |-> active'[p]]
        /\ \A p \in HeldAt(l) \ HeldAt(pc[a]) : active[p] < Limit[p] /\ active'[p] = active[p] + 1
        /\ \A p \in HeldAt(pc[a]) \ HeldAt(l) : active'[p] = active[p] - 1
        /\ \A p \in Phases : (p \in HeldAt(l) <=> p \in HeldAt(pc[a])) => active'[p] = active[p]
  BY DEF Moves
<1>1. ASSUME NEW p \in Phases
      PROVE  active'[p] = Cardinality(Inside(p)') /\ active'[p] <= Limit[p] /\ active'[p] \in Nat
  <2>1. IsFiniteSet(Inside(p)) /\ Limit[p] \in Nat
    BY WebConstants, FS_Subset DEF Inside
  <2>2. active[p] = Cardinality(Inside(p)) /\ active[p] <= Limit[p] /\ active[p] \in Nat
    BY DEF PermitsFollowPhase, TypeOK
  <2>3. \A b \in Attempts : pc'[b] = IF b = a THEN l ELSE pc[b]
    BY <1>0 DEF GoTo, TypeOK
  <2>4. CASE p \in HeldAt(l) /\ p \notin HeldAt(pc[a])
    <3>1. Inside(p)' = Inside(p) \union {a} /\ a \notin Inside(p)
      BY <2>3, <2>4 DEF Inside, HeldAt
    <3>2. Cardinality(Inside(p)') = Cardinality(Inside(p)) + 1
      BY <2>1, <3>1, FS_AddElement
    <3>3. active[p] < Limit[p] /\ active'[p] = active[p] + 1
      BY <1>0, <2>4
    <3> QED BY <2>1, <2>2, <3>2, <3>3
  <2>5. CASE p \notin HeldAt(l) /\ p \in HeldAt(pc[a])
    <3>1. Inside(p)' = Inside(p) \ {a} /\ a \in Inside(p)
      BY <2>3, <2>5 DEF Inside, HeldAt
    <3>2. Cardinality(Inside(p)') = Cardinality(Inside(p)) - 1 /\ Cardinality(Inside(p)') \in Nat
      BY <2>1, <3>1, FS_RemoveElement, FS_CardinalityType, FS_Subset
    <3>3. active'[p] = active[p] - 1
      BY <1>0, <2>5
    <3> QED BY <2>1, <2>2, <3>2, <3>3
  <2>6. CASE p \in HeldAt(l) <=> p \in HeldAt(pc[a])
    <3>1. Inside(p)' = Inside(p)
      BY <2>3, <2>6 DEF Inside, HeldAt
    <3>2. active'[p] = active[p]
      BY <1>0, <2>6
    <3> QED BY <2>1, <2>2, <3>1, <3>2
  <2> QED BY <2>4, <2>5, <2>6
<1>2. active' \in [Phases -> Nat]
  BY <1>0, <1>1
<1> QED BY <1>1, <1>2 DEF PermitsFollowPhase

-----------------------------------------------------------------------------
(* Types: what a step does to each variable *)

(* Rounds of a loop, contexts and what is returned. *)
LEMMA StepKeepsLoops ==
  ASSUME TypeOK, NEW a \in Attempts, Step(a)
  PROVE  /\ ended' \in [Attempts -> {"no", "phase", "attempt", "caller"}]
         /\ tries' \in [Attempts -> Nat]
         /\ resumable' \in [Attempts -> BOOLEAN]
         /\ lastHit' \in [Attempts -> References]
         /\ result' \in [Attempts -> Results]
<1> USE DEF TypeOK
<1>1. ended' \in [Attempts -> {"no", "phase", "attempt", "caller"}]
  BY SMTT(30) DEF Step, Start, UploadSlot, UploadStage, PrepareSlot,
    Bootstrap, Fetch, Clearance, FlightAnswers, Requirements, VMSlot, RunVM,
    Prepare, SubmitSlot, Open, StreamEvent, StreamDone, StreamBreaks,
    StreamFails, Resume, PollWait, PollSlot, PollError, PollRefused, PollHit,
    PollEmpty, Settle, DownloadSlot, Download, Resolved, FreshDeadline,
    Return, AfterBootstrap, PollFails, StartPolling
<1>2. tries' \in [Attempts -> Nat]
  BY SMTT(30) DEF Step, Start, UploadSlot, UploadStage, PrepareSlot,
    Bootstrap, Fetch, Clearance, FlightAnswers, Requirements, VMSlot, RunVM,
    Prepare, SubmitSlot, Open, StreamEvent, StreamDone, StreamBreaks,
    StreamFails, Resume, PollWait, PollSlot, PollError, PollRefused, PollHit,
    PollEmpty, Settle, DownloadSlot, Download, Resolved, loop, Rounds, Begin,
    Again, Return, AfterBootstrap, StartPolling, PollFails, Resolve
<1>3. resumable' \in [Attempts -> BOOLEAN]
  <2>1. CASE StreamEvent(a)
    <3>1. \/ UNCHANGED resumable
          \/ \E token \in BOOLEAN : resumable' = [resumable EXCEPT ![a] = @ \/ token]
          \/ resumable' = [resumable EXCEPT ![a] = FALSE]
      BY <2>1 DEF StreamEvent, Resolve, Rounds
    <3> QED BY <3>1, Zenon
  <2>2. CASE ~StreamEvent(a)
    <3>1. UNCHANGED resumable \/ resumable' = [resumable EXCEPT ![a] = FALSE]
      BY <2>2, SMTT(30) DEF Step, Start, UploadSlot, UploadStage, PrepareSlot,
        Bootstrap, Fetch, Clearance, FlightAnswers, Requirements, VMSlot, RunVM,
        Prepare, SubmitSlot, Open, StreamDone, StreamBreaks,
        StreamFails, Resume, PollWait, PollSlot, PollError, PollRefused, PollHit,
        PollEmpty, Settle, DownloadSlot, Download, Resolved, loop, Rounds, Begin,
        Again, Return, AfterBootstrap, StartPolling, PollFails, Resolve
    <3> QED BY <3>1
  <2> QED BY <2>1, <2>2
<1>4. lastHit' \in [Attempts -> References]
  <2>1. CASE PollHit(a)
    <3>1. \/ UNCHANGED lastHit
          \/ lastHit' = [lastHit EXCEPT ![a] = {}]
          \/ lastHit' = [lastHit EXCEPT ![a] = polled'[a]]
      BY <2>1 DEF PollHit, Resolve, Rounds
    <3>2. polled'[a] \in References /\ {} \in References
      BY <2>1 DEF PollHit, Visible, Generated, References
    <3> QED BY <3>1, <3>2
  <2>2. CASE ~PollHit(a)
    BY <2>2, SMTT(90) DEF Step, Start, UploadSlot, UploadStage, PrepareSlot,
      Bootstrap, Fetch, Clearance, FlightAnswers, Requirements, VMSlot, RunVM,
      Prepare, SubmitSlot, Open, StreamEvent, StreamDone, StreamBreaks,
      StreamFails, Resume, PollWait, PollSlot, PollError, PollRefused, PollHit,
      PollEmpty, Settle, DownloadSlot, Download, Resolved, loop, Rounds, Begin,
      Again, Return, AfterBootstrap, StartPolling, PollFails, Resolve,
      References
  <2> QED BY <2>1, <2>2
<1>5. result' \in [Attempts -> Results]
  BY SMTT(30) DEF Step, Start, UploadSlot, UploadStage, PrepareSlot,
    Bootstrap, Fetch, Clearance, FlightAnswers, Requirements, VMSlot, RunVM,
    Prepare, SubmitSlot, Open, StreamEvent, StreamDone, StreamBreaks,
    StreamFails, Resume, PollWait, PollSlot, PollError, PollRefused, PollHit,
    PollEmpty, Settle, DownloadSlot, Download, Resolved, Results, Return,
    AfterBootstrap, StartPolling, PollFails, PreparationError,
    GenerationError, ConversationError
<1> QED BY <1>1, <1>2, <1>3, <1>4, <1>5

(* What an attempt knows of its conversation and its images. *)
LEMMA StepKeepsReferences ==
  ASSUME TypeOK, NEW a \in Attempts, Step(a)
  PROVE  /\ known' \in [Attempts -> BOOLEAN]
         /\ found' \in [Attempts -> References] /\ polled' \in [Attempts -> References]
         /\ todo' \in [Attempts -> References] /\ links' \in [Attempts -> References]
<1> USE DEF TypeOK
<1>1. known' \in [Attempts -> BOOLEAN]
  <2>1. CASE StreamEvent(a)
    BY <2>1 DEF StreamEvent
  <2>2. CASE ~StreamEvent(a)
    BY <2>2, SMTT(30) DEF Step, Start, UploadSlot, UploadStage, PrepareSlot,
      Bootstrap, Fetch, Clearance, FlightAnswers, Requirements, VMSlot, RunVM,
      Prepare, SubmitSlot, Open, StreamDone, StreamBreaks,
      StreamFails, Resume, PollWait, PollSlot, PollError, PollRefused, PollHit,
      PollEmpty, Settle, DownloadSlot, Download, Resolved, stream, PollFails
  <2> QED BY <2>1, <2>2
<1>2. found' \in [Attempts -> References]
  BY SMTT(30) DEF Step, Start, UploadSlot, UploadStage, PrepareSlot,
    Bootstrap, Fetch, Clearance, FlightAnswers, Requirements, VMSlot, RunVM,
    Prepare, SubmitSlot, Open, StreamEvent, StreamDone, StreamBreaks,
    StreamFails, Resume, PollWait, PollSlot, PollError, PollRefused, PollHit,
    PollEmpty, Settle, DownloadSlot, Download, Resolved, stream, polling,
    PollFails, Resolve, References, Visible, Generated
<1>3. polled' \in [Attempts -> References]
  BY SMTT(30) DEF Step, Start, UploadSlot, UploadStage, PrepareSlot,
    Bootstrap, Fetch, Clearance, FlightAnswers, Requirements, VMSlot, RunVM,
    Prepare, SubmitSlot, Open, StreamEvent, StreamDone, StreamBreaks,
    StreamFails, Resume, PollWait, PollSlot, PollError, PollRefused, PollHit,
    PollEmpty, Settle, DownloadSlot, Download, Resolved, stream, polling,
    PollFails, Resolve, References, Visible, Generated
<1>4. todo' \in [Attempts -> References]
  BY SMTT(30) DEF Step, Start, UploadSlot, UploadStage, PrepareSlot,
    Bootstrap, Fetch, Clearance, FlightAnswers, Requirements, VMSlot, RunVM,
    Prepare, SubmitSlot, Open, StreamEvent, StreamDone, StreamBreaks,
    StreamFails, Resume, PollWait, PollSlot, PollError, PollRefused, PollHit,
    PollEmpty, Settle, DownloadSlot, Download, Resolved, stream, polling,
    PollFails, Resolve, References, Visible, Generated
<1>5. links' \in [Attempts -> References]
  BY SMTT(30) DEF Step, Start, UploadSlot, UploadStage, PrepareSlot,
    Bootstrap, Fetch, Clearance, FlightAnswers, Requirements, VMSlot, RunVM,
    Prepare, SubmitSlot, Open, StreamEvent, StreamDone, StreamBreaks,
    StreamFails, Resume, PollWait, PollSlot, PollError, PollRefused, PollHit,
    PollEmpty, Settle, DownloadSlot, Download, Resolved, stream, polling,
    PollFails, Resolve, References, Visible, Generated
<1> QED BY <1>1, <1>2, <1>3, <1>4, <1>5

(* The bootstrap flights. *)
LEMMA StepKeepsFlights ==
  ASSUME TypeOK, NEW a \in Attempts, Step(a)
  PROVE  /\ leader' \in [Accounts -> Attempts \union {Nobody}] /\ cached' \subseteq Accounts
         /\ answer' \in [Attempts -> Answers]
<1> USE WebConstants DEF TypeOK
<1>1. leader' \in [Accounts -> Attempts \union {Nobody}]
  BY SMTT(30) DEF Step, Start, UploadSlot, UploadStage, PrepareSlot,
    Bootstrap, Fetch, Clearance, FlightAnswers, Requirements, VMSlot, RunVM,
    Prepare, SubmitSlot, Open, StreamEvent, StreamDone, StreamBreaks,
    StreamFails, Resume, PollWait, PollSlot, PollError, PollRefused, PollHit,
    PollEmpty, Settle, DownloadSlot, Download, Resolved, flight, PollFails,
    Land
<1>2. cached' \subseteq Accounts
  BY SMTT(30) DEF Step, Start, UploadSlot, UploadStage, PrepareSlot,
    Bootstrap, Fetch, Clearance, FlightAnswers, Requirements, VMSlot, RunVM,
    Prepare, SubmitSlot, Open, StreamEvent, StreamDone, StreamBreaks,
    StreamFails, Resume, PollWait, PollSlot, PollError, PollRefused, PollHit,
    PollEmpty, Settle, DownloadSlot, Download, Resolved, flight, PollFails,
    Land
<1>3. answer' \in [Attempts -> Answers]
  BY SMTT(30) DEF Step, Start, UploadSlot, UploadStage, PrepareSlot,
    Bootstrap, Fetch, Clearance, FlightAnswers, Requirements, VMSlot, RunVM,
    Prepare, SubmitSlot, Open, StreamEvent, StreamDone, StreamBreaks,
    StreamFails, Resume, PollWait, PollSlot, PollError, PollRefused, PollHit,
    PollEmpty, Settle, DownloadSlot, Download, Resolved, flight, PollFails,
    Land, Answers, Joined, ContextOutcome
<1> QED BY <1>1, <1>2, <1>3

LEMMA StepType ==
  ASSUME TypeOK, PermitsFollowPhase, NEW a \in Attempts, Step(a)
  PROVE  TypeOK'
<1>1. PICK l \in PCs : GoTo(a, l)
  BY StepMoves DEF Moves
<1>2. pc' \in [Attempts -> PCs] /\ active' \in [Phases -> Nat]
  BY <1>1, StepMoves, MoveKeepsPermits DEF GoTo, TypeOK
<1> QED BY <1>2, StepKeepsLoops, StepKeepsReferences, StepKeepsFlights DEF TypeOK

-----------------------------------------------------------------------------
(* Bootstrap flights *)

Fetching == {"fetch", "clearance", "refetch"}

(* A step that leaves the flights alone and does not join or lead one.     *)
LEMMA FlightUntouched ==
  ASSUME NobodyMissesTheFlight, TypeOK, NEW a \in Attempts, NEW l \in PCs, GoTo(a, l),
         UNCHANGED <<leader, answer>>, pc[a] \in Fetching <=> l \in Fetching, l # "joined"
  PROVE  NobodyMissesTheFlight'
BY DEF NobodyMissesTheFlight, TypeOK, GoTo, Fetching

(* The leader leaves and every attempt that joined it has the outcome      *)
(* (close of flight.done).                                                 *)
LEMMA LandingAnswersAll ==
  ASSUME NobodyMissesTheFlight, TypeOK, NEW a \in Attempts, pc[a] \in Fetching,
         NEW outcome \in Answers \ {"none"}, Land(a, outcome), 
         NEW l \in PCs \ (Fetching \union {"joined"}), GoTo(a, l)
  PROVE  NobodyMissesTheFlight'
<1>0. AccountOf \in [Attempts -> Accounts] /\ Nobody \notin Attempts
  BY WebConstants
<1>1. leader[AccountOf[a]] = a
  BY <1>0 DEF NobodyMissesTheFlight, Fetching
<1>2. ASSUME NEW k \in Accounts, NEW b \in Attempts
      PROVE  leader'[k] = b <=> (AccountOf[b] = k /\ pc'[b] \in Fetching)
  <2>1. CASE k = AccountOf[a]
    <3>1. leader'[k] = Nobody
      BY <2>1 DEF Land, TypeOK
    <3>2. AccountOf[b] = k => pc'[b] \notin Fetching
      BY <1>1, <2>1 DEF NobodyMissesTheFlight, GoTo, TypeOK, Fetching
    <3> QED BY <1>0, <3>1, <3>2
  <2>2. CASE k # AccountOf[a]
    <3>1. leader'[k] = leader[k]
      BY <2>2 DEF Land, TypeOK
    <3>2. AccountOf[b] = k => pc'[b] = pc[b]
      BY <2>2 DEF GoTo, TypeOK
    <3> QED BY <3>1, <3>2 DEF NobodyMissesTheFlight, Fetching
  <2> QED BY <2>1, <2>2
<1>3. ASSUME NEW b \in Attempts, pc'[b] = "joined"
      PROVE  answer'[b] # "none" \/ leader'[AccountOf[b]] # Nobody
  <2>1. pc[b] = "joined"
    BY <1>3 DEF GoTo, TypeOK
  <2>2. CASE AccountOf[b] = AccountOf[a]
    BY <2>1, <2>2 DEF Land, Joined
  <2>3. CASE AccountOf[b] # AccountOf[a]
    BY <1>0, <2>1, <2>3 DEF Land, Joined, NobodyMissesTheFlight, TypeOK
  <2> QED BY <2>2, <2>3
<1> QED BY <1>2, <1>3 DEF NobodyMissesTheFlight, Fetching

(* After a bootstrap an attempt goes on or returns. *)
LEMMA AfterBootstrapLeaves ==
  ASSUME NEW a \in Attempts, NEW outcome, AfterBootstrap(a, outcome)
  PROVE  \E l \in PCs \ (Fetching \union {"joined"}) : GoTo(a, l)
BY DEF AfterBootstrap, Return, Begin, PCs, Preparing, Fetching

(* Only the bootstrap's own steps touch the flights. *)
LEMMA StepFlight ==
  ASSUME NobodyMissesTheFlight, TypeOK, NEW a \in Attempts, Step(a)
  PROVE  NobodyMissesTheFlight'
<1>0. pc[a] \in PCs
  BY DEF TypeOK
<1> USE <1>0, FlightUntouched DEF PCs, Uploading, Preparing, Starting, Resolving, Begin, Again, Fetching
<1>1. CASE Start(a)
  BY <1>1 DEF Start, flight
<1>2. CASE UploadSlot(a)
  BY <1>2 DEF UploadSlot, flight, Return
<1>3. CASE UploadStage(a)
  BY <1>3 DEF UploadStage, flight, NextStage, Return
<1>4. CASE PrepareSlot(a)
  BY <1>4 DEF PrepareSlot, flight, Return
<1>5. CASE Bootstrap(a)
  BY <1>5, WebConstants DEF Bootstrap, GoTo, NobodyMissesTheFlight, TypeOK
<1>6. CASE Fetch(a)
  <2>1. CASE GoTo(a, "clearance") /\ UNCHANGED flight
    BY <1>6, <2>1 DEF Fetch, flight
  <2>2. CASE \E outcome \in {"ok", "failed", "deadline"} \union (IF Over(a) THEN ContextOutcome(a) ELSE {}) :
               Land(a, outcome) /\ AfterBootstrap(a, outcome)
    <3>1. PICK outcome \in Answers \ {"none"} : Land(a, outcome) /\ AfterBootstrap(a, outcome)
      BY <2>2 DEF ContextOutcome, Answers
    <3>2. pc[a] \in Fetching
      BY <1>6 DEF Fetch
    <3> QED BY <3>1, <3>2, LandingAnswersAll, AfterBootstrapLeaves
  <2> QED BY <1>6, <2>1, <2>2 DEF Fetch
<1>7. CASE Clearance(a)
  <2>1. CASE GoTo(a, "refetch") /\ UNCHANGED flight
    BY <1>7, <2>1 DEF Clearance, flight
  <2>2. CASE Land(a, "failed") /\ AfterBootstrap(a, "failed")
    <3>1. pc[a] \in Fetching /\ "failed" \in Answers \ {"none"}
      BY <1>7 DEF Clearance, Answers
    <3> QED BY <2>2, <3>1, LandingAnswersAll, AfterBootstrapLeaves
  <2> QED BY <1>7, <2>1, <2>2 DEF Clearance
<1>8. CASE FlightAnswers(a)
  BY <1>8, WebConstants DEF FlightAnswers, AfterBootstrap, GoTo, Begin,
    Rounds, Return, PreparationError, NobodyMissesTheFlight, TypeOK
<1>9. CASE Requirements(a)
  BY <1>9 DEF Requirements, flight, Return
<1>10. CASE VMSlot(a)
  BY <1>10 DEF VMSlot, flight, Return
<1>11. CASE RunVM(a)
  BY <1>11 DEF RunVM, flight, Return
<1>12. CASE Prepare(a)
  BY <1>12 DEF Prepare, flight, Return
<1>13. CASE SubmitSlot(a)
  BY <1>13 DEF SubmitSlot, flight, Return
<1>14. CASE Open(a)
  BY <1>14 DEF Open, flight, Return
<1>15. CASE StreamEvent(a)
  <2>1. \/ UNCHANGED pc
        \/ GoTo(a, "downloadSlot")
    BY <1>15 DEF StreamEvent, Resolve
  <2>2. UNCHANGED <<leader, answer>> /\ pc[a] \in {"stream", "resumed"}
    BY <1>15 DEF StreamEvent, flight
  <2>3. CASE UNCHANGED pc
    BY <2>2, <2>3 DEF NobodyMissesTheFlight
  <2> QED BY <2>1, <2>2, <2>3
<1>16. CASE StreamDone(a)
  BY <1>16 DEF StreamDone, flight, StartPolling, Return
<1>17. CASE StreamBreaks(a)
  BY <1>17 DEF StreamBreaks, flight, StartPolling, Return
<1>18. CASE StreamFails(a)
  BY <1>18 DEF StreamFails, flight, Return
<1>19. CASE Resume(a)
  BY <1>19 DEF Resume, flight, StartPolling, Return
<1>20. CASE PollWait(a)
  BY <1>20 DEF PollWait, flight, PollFails, Resolve, Return
<1>21. CASE PollSlot(a)
  BY <1>21 DEF PollSlot, flight, PollFails, Resolve, Return
<1>22. CASE PollError(a)
  BY <1>22 DEF PollError, flight, PollFails, Resolve, Return
<1>23. CASE PollRefused(a)
  BY <1>23 DEF PollRefused, flight, PollFails, Resolve, Return
<1>24. CASE PollHit(a)
  BY <1>24 DEF PollHit, flight, Resolve
<1>25. CASE PollEmpty(a)
  BY <1>25 DEF PollEmpty, flight, Return
<1>26. CASE Settle(a)
  BY <1>26 DEF Settle, flight, PollFails, Resolve, Return
<1>27. CASE DownloadSlot(a)
  <2>1. UNCHANGED pc \/ GoTo(a, "download")
    BY <1>27 DEF DownloadSlot
  <2>2. UNCHANGED <<leader, answer>> /\ pc[a] = "downloadSlot"
    BY <1>27 DEF DownloadSlot, flight
  <2>3. CASE UNCHANGED pc
    BY <2>2, <2>3 DEF NobodyMissesTheFlight
  <2> QED BY <2>1, <2>2, <2>3
<1>28. CASE Download(a)
  BY <1>28 DEF Download, flight
<1>29. CASE Resolved(a)
  BY <1>29 DEF Resolved, flight, Return
<1> QED
  BY <1>1, <1>2, <1>3, <1>4, <1>5, <1>6, <1>7, <1>8, <1>9, <1>10, <1>11,
    <1>12, <1>13, <1>14, <1>15, <1>16, <1>17, <1>18, <1>19, <1>20, <1>21,
    <1>22, <1>23, <1>24, <1>25, <1>26, <1>27, <1>28, <1>29 DEF Step

-----------------------------------------------------------------------------
(* References *)

\* No set of references ever holds the upload's, and images are returned with
\* a link.
OnlyImages ==
  \A a \in Attempts :
    /\ found[a] \subseteq Images /\ polled[a] \subseteq Images
    /\ todo[a] \subseteq Images /\ links[a] \subseteq Images
    /\ result[a] = "images" => links[a] # {}

(* References come from the stream and from the polls, where the upload's  *)
(* is filtered out, and pass from one set to the next.                     *)
LEMMA StepImages ==
  ASSUME TypeOK, OnlyImages, NEW a \in Attempts, Step(a)
  PROVE  OnlyImages'
<1> USE WebConstants DEF OnlyImages, TypeOK
<1>1. \A b \in Attempts : found'[b] \subseteq Images
  BY SMTT(30) DEF Step, Start, UploadSlot, UploadStage, PrepareSlot,
    Bootstrap, Fetch, Clearance, FlightAnswers, Requirements, VMSlot, RunVM,
    Prepare, SubmitSlot, Open, StreamEvent, StreamDone, StreamBreaks,
    StreamFails, Resume, PollWait, PollSlot, PollError, PollRefused, PollHit,
    PollEmpty, Settle, DownloadSlot, Download, Resolved, stream, polling,
    PollFails, Resolve, Visible, Generated
<1>2. \A b \in Attempts : polled'[b] \subseteq Images
  BY SMTT(30) DEF Step, Start, UploadSlot, UploadStage, PrepareSlot,
    Bootstrap, Fetch, Clearance, FlightAnswers, Requirements, VMSlot, RunVM,
    Prepare, SubmitSlot, Open, StreamEvent, StreamDone, StreamBreaks,
    StreamFails, Resume, PollWait, PollSlot, PollError, PollRefused, PollHit,
    PollEmpty, Settle, DownloadSlot, Download, Resolved, stream, polling,
    PollFails, Resolve, Visible, Generated
<1>3. \A b \in Attempts : todo'[b] \subseteq Images
  BY SMTT(30) DEF Step, Start, UploadSlot, UploadStage, PrepareSlot,
    Bootstrap, Fetch, Clearance, FlightAnswers, Requirements, VMSlot, RunVM,
    Prepare, SubmitSlot, Open, StreamEvent, StreamDone, StreamBreaks,
    StreamFails, Resume, PollWait, PollSlot, PollError, PollRefused, PollHit,
    PollEmpty, Settle, DownloadSlot, Download, Resolved, stream, polling,
    PollFails, Resolve, Visible, Generated
<1>4. \A b \in Attempts : links[b] \subseteq links'[b] /\ links'[b] \subseteq Images
  BY SMTT(30) DEF Step, Start, UploadSlot, UploadStage, PrepareSlot,
    Bootstrap, Fetch, Clearance, FlightAnswers, Requirements, VMSlot, RunVM,
    Prepare, SubmitSlot, Open, StreamEvent, StreamDone, StreamBreaks,
    StreamFails, Resume, PollWait, PollSlot, PollError, PollRefused, PollHit,
    PollEmpty, Settle, DownloadSlot, Download, Resolved, stream, polling,
    PollFails, Resolve, Visible, Generated
<1>5. \A b \in Attempts : result'[b] = "images" => links'[b] # {}
  BY SMTT(30) DEF Step, Start, UploadSlot, UploadStage, PrepareSlot,
    Bootstrap, Fetch, Clearance, FlightAnswers, Requirements, VMSlot, RunVM,
    Prepare, SubmitSlot, Open, StreamEvent, StreamDone, StreamBreaks,
    StreamFails, Resume, PollWait, PollSlot, PollError, PollRefused, PollHit,
    PollEmpty, Settle, DownloadSlot, Download, Resolved, polling, Resolve,
    Return, PollFails, StartPolling, AfterBootstrap, PreparationError,
    GenerationError, ConversationError
<1> QED BY <1>1, <1>2, <1>3, <1>4, <1>5

-----------------------------------------------------------------------------
(* The invariant *)

IInv == TypeOK /\ PermitsFollowPhase /\ NobodyMissesTheFlight /\ OnlyImages

LEMMA InitInv ==
  ASSUME Init
  PROVE  IInv
<1>1. TypeOK
  BY WebConstants DEF Init, TypeOK, PCs, Answers, Results, References
<1>2. ASSUME NEW p \in Phases PROVE active[p] = Cardinality(Inside(p)) /\ active[p] <= Limit[p]
  <2>1. Inside(p) = {}
    BY HeldAtLabels DEF Init, Inside, HeldAt
  <2> QED BY <2>1, WebConstants, FS_EmptySet DEF Init
<1>3. NobodyMissesTheFlight
  BY WebConstants DEF Init, NobodyMissesTheFlight
<1>4. OnlyImages
  BY DEF Init, OnlyImages
<1> QED BY <1>1, <1>2, <1>3, <1>4 DEF IInv, PermitsFollowPhase

(* A step that changes neither permits nor flights nor references: a       *)
(* deadline, the end of the caller's context, an entry of the cache.       *)
LEMMA QuietStep ==
  ASSUME IInv, UNCHANGED <<pc, active, leader, answer, found, polled, todo, links, result>>, TypeOK'
  PROVE  IInv'
<1>1. PermitsFollowPhase'
  BY DEF IInv, PermitsFollowPhase, Inside
<1>2. NobodyMissesTheFlight'
  BY DEF IInv, NobodyMissesTheFlight
<1>3. OnlyImages'
  BY DEF IInv, OnlyImages
<1> QED BY <1>1, <1>2, <1>3 DEF IInv

LEMMA NextInv ==
  ASSUME IInv, [Next]_vars
  PROVE  IInv'
<1> USE DEF IInv
<1>1. ASSUME NEW a \in Attempts, Step(a)
      PROVE  IInv'
  BY <1>1, StepType, StepMoves, MoveKeepsPermits, StepFlight, StepImages
<1>2. ASSUME NEW a \in Attempts, PhaseEnds(a) \/ AttemptEnds(a) \/ CallerEnds(a)
      PROVE  IInv'
  <2>1. UNCHANGED <<pc, active, loop, stream, polling, flight, result>>
        /\ \E e \in {"phase", "attempt", "caller"} : ended' = [ended EXCEPT ![a] = e]
    BY <1>2 DEF PhaseEnds, AttemptEnds, CallerEnds
  <2>2. TypeOK'
    BY <2>1 DEF TypeOK, loop, stream, polling, flight
  <2> QED BY <2>1, <2>2, QuietStep DEF stream, polling, flight
<1>3. ASSUME NEW k \in Accounts, ResourcesExpire(k)
      PROVE  IInv'
  <2>1. TypeOK'
    BY <1>3 DEF ResourcesExpire, TypeOK, loop, stream, polling
  <2> QED BY <1>3, <2>1, QuietStep DEF ResourcesExpire, stream, polling
<1>4. CASE UNCHANGED vars
  <2>1. TypeOK'
    BY <1>4 DEF vars, TypeOK, loop, stream, polling, flight
  <2> QED BY <1>4, <2>1, QuietStep DEF vars, stream, polling, flight
<1> QED BY <1>1, <1>2, <1>3, <1>4 DEF Next, Rest

(* The invariant that the following theorems are read from. *)
THEOREM WebInvariant == Spec => []IInv
<1>1. Init => IInv
  BY InitInv
<1>2. IInv /\ [Next]_vars => IInv'
  BY NextInv
<1> QED BY <1>1, <1>2, PTL DEF Spec

(* Every variable of an attempt keeps its type. *)
THEOREM WebTypeCorrect == Spec => []TypeOK
<1>1. IInv => TypeOK
  BY DEF IInv
<1> QED BY <1>1, WebInvariant, PTL

(* Whatever exit an attempt takes, it holds the permits of the place it is *)
(* at and no other, and no gate is ever over its limit: for any attempts,  *)
(* limits and numbers of tries (acquirePhase and its releases).            *)
THEOREM PermitsAreThoseOfThePhase == Spec => []PermitsFollowPhase
<1>1. IInv => PermitsFollowPhase
  BY DEF IInv
<1> QED BY <1>1, WebInvariant, PTL

(* A flight is registered exactly while its leader fetches, and nobody     *)
(* waits for one that has landed (bootstrapWithResources).                 *)
THEOREM NobodyIsLeftBehind == Spec => []NobodyMissesTheFlight
<1>1. IInv => NobodyMissesTheFlight
  BY DEF IInv
<1> QED BY <1>1, WebInvariant, PTL

(* Whatever the conversation shows and however often it is polled, the     *)
(* uploaded reference is not among the links (filterExcludedIDs).          *)
THEOREM UploadsAreNotResults == Spec => []NoUploadReturned
<1>1. IInv => NoUploadReturned
  BY DEF IInv, OnlyImages, NoUploadReturned
<1> QED BY <1>1, WebInvariant, PTL
=============================================================================
