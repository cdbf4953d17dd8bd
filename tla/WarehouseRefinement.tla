------------------------ MODULE WarehouseRefinement ------------------------
(***************************************************************************)
(* The blue-green overwrite implements an atomic one (AtomicTable): of the *)
(* many requests of a call, the promote rename is the one that takes       *)
(* effect, and parking, rolling back, failing, crashing and cleaning up    *)
(* change nothing that the promise speaks of.                              *)
(***************************************************************************)
EXTENDS WarehouseOverwrite

\* The rows of the table: under the target name, or under the parked name
\* that has the committed version while the target name is unbound.
CurrentRows ==
    IF Exists(live) THEN live.rows
    ELSE IF \E w \in Writers : IsHead(parked[w])
            THEN parked[CHOOSE w \in Writers : IsHead(parked[w])].rows
    ELSE NoTable

\* What became of a call, by where it is and what it is about to return.
CallStatus(w) ==
    CASE outcome[w] \in {"conflict", "error", "unpromoted"} -> "failed"
      [] outcome[w] = "ok" -> "ok"
      [] outcome[w] = "pending" ->
            CASE pc[w] = "crashed" -> "unknown"
              [] pc[w] = "dropParked" -> "committed"
              [] pc[w] = "done" -> "unused"
              [] OTHER -> "pending"

\* The three holes of SafeOverwrite; and a token used twice or a sweep, which
\* the recovery of a crashed call does not survive.
Hole == hazards # {} \/ used["retry"] > 0 \/ used["sweep"] > 0

Atomic == INSTANCE AtomicTable WITH
    Merging <- Upserts \cup Compactions,
    Replacing <- Refreshes,
    Brings <- [w \in Writers |-> Incoming(w)],
    Absent <- NoTable,
    rows <- CurrentRows,
    status <- [w \in Writers |-> CallStatus(w)],
    hole <- Hole

\* Every step of the overwrite protocol is a step of the atomic table or
\* changes nothing it promises: blue_green_promote and its callers give each
\* call all of its effect at the promote rename or none, whatever fails,
\* crashes or runs beside it.
ImplementsAtomic == Atomic!Spec
=============================================================================
