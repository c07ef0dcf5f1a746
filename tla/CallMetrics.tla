----------------------------- MODULE CallMetrics -----------------------------
(***************************************************************************)
(* The history of API calls and the views of it: internal/metrics.         *)
(*                                                                         *)
(* Every tracked call is appended to a bounded history when it has been    *)
(* answered; a worker writes the history after a debounce.  Unlike the     *)
(* keys, the history is marked clean when its copy is taken, before the    *)
(* write, and dirty again when the write fails.                            *)
(*                                                                         *)
(* A call is the request it belongs to, the time it STARTED (the time the  *)
(* recorder gives it) and the category it is counted under.  The views are *)
(* operators over the history; their buckets, averages and labels are left *)
(* out.                                                                    *)
(***************************************************************************)
EXTENDS Integers, Sequences, FiniteSets

CONSTANTS MaxEntries,  \* length of the history (defaultMaxEntries)
          Loop,        \* the persistence loop
          Ender        \* Close, once the server stops

ASSUME MetricConstants == MaxEntries \in Nat \ {0} /\ Loop # Ender /\ "nobody" \notin {Loop, Ender}

VARIABLES calls,        \* the history, oldest completion first
          callsDirty,   \* it has entries that no write is taking along
          callsWake,    \* the wake channel holds a signal
          callsWritten, \* what the store holds under "calls"
          callsCopy,    \* the copy being written
          callsSaver,   \* who holds the persist lock, "nobody" if free
          callsAt,      \* where the loop and Close are
          callsOpen,    \* running, closing, closed
          callsRead     \* load could read the store

callVars == <<calls, callsDirty, callsWake, callsWritten, callsCopy, callsSaver, callsAt, callsOpen, callsRead>>

CallsInit ==
  /\ calls = <<>> /\ callsWritten = <<>> /\ callsCopy = <<>>
  /\ callsDirty = FALSE /\ callsWake = FALSE /\ callsSaver = "nobody"
  /\ callsAt = [p \in {Loop, Ender} |-> IF p = Loop THEN "wait" ELSE "idle"]
  /\ callsOpen = "running" /\ callsRead = TRUE

Newest(history) == IF Len(history) > MaxEntries THEN SubSeq(history, Len(history) - MaxEntries + 1, Len(history)) ELSE history

Record(call) ==
  /\ calls' = Newest(Append(calls, call))
  /\ callsDirty' = TRUE /\ callsWake' = TRUE
  /\ UNCHANGED <<callsWritten, callsCopy, callsSaver, callsAt, callsOpen, callsRead>>

\* What is left of a history, in its order.
Without(history, requests) ==
  LET rest[n \in 0 .. Len(history)] ==
        IF n = 0 THEN <<>>
        ELSE IF history[n].request \in requests THEN rest[n - 1] ELSE Append(rest[n - 1], history[n])
  IN rest[Len(history)]

(* Deleting nothing in particular deletes everything. *)
DeleteCalls(requests) ==
  LET rest == IF requests = {} THEN <<>> ELSE Without(calls, requests)
      changed == requests = {} \/ rest # calls
  IN /\ calls' = rest
     /\ callsDirty' = (callsDirty \/ changed) /\ callsWake' = (callsWake \/ changed)
     /\ UNCHANGED <<callsWritten, callsCopy, callsSaver, callsAt, callsOpen, callsRead>>

-----------------------------------------------------------------------------
LoopTo(p, here, there) ==
  /\ callsAt[p] \in here
  /\ callsAt' = [callsAt EXCEPT ![p] = there]

CallsWake ==
  /\ callsWake /\ LoopTo(Loop, {"wait"}, "debounce") /\ callsWake' = FALSE
  /\ UNCHANGED <<calls, callsDirty, callsWritten, callsCopy, callsSaver, callsOpen, callsRead>>

CallsDebounced ==
  /\ LoopTo(Loop, {"debounce"}, "pending")
  /\ UNCHANGED <<calls, callsDirty, callsWake, callsWritten, callsCopy, callsSaver, callsOpen, callsRead>>

CallsStopped ==
  /\ callsOpen = "closing" /\ LoopTo(Loop, {"wait", "debounce"}, "last")
  /\ UNCHANGED <<calls, callsDirty, callsWake, callsWritten, callsCopy, callsSaver, callsOpen, callsRead>>

AfterWrite(p) ==
  CASE p = Ender -> "check"
    [] p = Loop /\ callsAt[p] \in {"last", "saveLast"} -> "done"
    [] OTHER -> "wait"

TakeCalls(p) ==
  /\ callsSaver = "nobody"
  /\ IF callsDirty
     THEN /\ LoopTo(p, {"pending", "last"}, IF callsAt[p] = "last" THEN "saveLast" ELSE "save")
          /\ callsCopy' = calls /\ callsDirty' = FALSE /\ callsSaver' = p
     ELSE LoopTo(p, {"pending", "last"}, AfterWrite(p)) /\ UNCHANGED <<callsCopy, callsDirty, callsSaver>>
  /\ UNCHANGED <<calls, callsWake, callsWritten, callsOpen, callsRead>>

(* A likely slip: leaving the history clean when its write has failed. *)
DirtyAgainNever(ok) == callsDirty
DirtyAgain(ok) == callsDirty \/ ~ok

SaveCalls(p, ok, landed) ==
  /\ ok => landed
  /\ LoopTo(p, {"save", "saveLast"}, IF p = Ender /\ ~ok THEN "done" ELSE AfterWrite(p))
  /\ callsWritten' = IF landed THEN callsCopy ELSE callsWritten
  /\ callsDirty' = DirtyAgain(ok) /\ callsSaver' = "nobody"
  /\ UNCHANGED <<calls, callsWake, callsCopy, callsOpen, callsRead>>

CloseCalls ==
  /\ callsOpen = "running" /\ callsOpen' = "closing"
  /\ UNCHANGED <<calls, callsDirty, callsWake, callsWritten, callsCopy, callsSaver, callsAt, callsRead>>

FlushCalls ==
  /\ callsAt[Loop] = "done" /\ LoopTo(Ender, {"idle"}, "pending")
  /\ UNCHANGED <<calls, callsDirty, callsWake, callsWritten, callsCopy, callsSaver, callsOpen, callsRead>>

FlushCallsAgain ==
  /\ LoopTo(Ender, {"check"}, IF callsDirty THEN "pending" ELSE "done")
  /\ UNCHANGED <<calls, callsDirty, callsWake, callsWritten, callsCopy, callsSaver, callsOpen, callsRead>>

CallsClosed ==
  /\ callsOpen = "closing" /\ callsAt[Ender] = "done" /\ callsOpen' = "closed"
  /\ UNCHANGED <<calls, callsDirty, callsWake, callsWritten, callsCopy, callsSaver, callsAt, callsRead>>

(* load; an error leaves an empty history. *)
ReloadCalls(read) ==
  /\ calls' = (IF read THEN callsWritten ELSE <<>>)
  /\ callsDirty' = FALSE /\ callsWake' = FALSE /\ callsCopy' = <<>> /\ callsSaver' = "nobody"
  /\ callsAt' = [p \in {Loop, Ender} |-> IF p = Loop THEN "wait" ELSE "idle"]
  /\ callsOpen' = "running" /\ callsRead' = read
  /\ UNCHANGED callsWritten

LoopStep == CallsWake \/ CallsDebounced \/ CallsStopped
EnderStep == FlushCalls \/ FlushCallsAgain \/ CallsClosed

-----------------------------------------------------------------------------
(* The views count the entries of a history: pairs of a position and the   *)
(* call there.  All of them select by the time a call started.             *)
Categories == {"success", "failed", "canceled", "rejected"}
Entries(history) == {<<i, history[i]>> : i \in DOMAIN history}
Within(entries, from, to) == {e \in entries : from <= e[2].time /\ e[2].time <= to}
CountOf(entries, category) == Cardinality({e \in entries : e[2].category = category})

(* The runtime part of Summary and SummaryRange. *)
SummaryRange(entries, from, to) == [c \in Categories |-> CountOf(Within(entries, from, to), c)]

(* What availability is computed from. *)
RecentStats(entries, now, window) ==
  LET counted == SummaryRange(entries, now - window, now)
  IN [total |-> counted.success + counted.failed, success |-> counted.success, failed |-> counted.failed]

Stability(entries, now, window) ==
  LET counted == RecentStats(entries, now, window)
  IN CASE counted.total = 0 -> "idle"
       [] counted.total > 0 /\ counted.failed = 0 -> "stable"
       [] counted.total > 0 /\ counted.success = 0 -> "unstable"
       [] OTHER -> "degraded"

-----------------------------------------------------------------------------
(* A history no write is under way for and nobody has to write is in the   *)
(* store: marking it clean before the write loses nothing that is appended *)
(* or deleted meanwhile, nor what a failed write did not store.  Nothing   *)
(* is claimed after a load that failed.                                    *)
CleanHistoryIsStored == callsRead /\ ~callsDirty /\ callsSaver = "nobody" => callsWritten = calls
=============================================================================
