------------------------------- MODULE Server -------------------------------
(***************************************************************************)
(* The server's lifecycle (ServerLifecycle) and, beside it, one            *)
(* distributed query with its job on the cluster (DistributedQuery).  The  *)
(* two share no state; moving is the one a behaviour belongs to.           *)
(***************************************************************************)
EXTENDS ServerLifecycle

CONSTANTS Batches, Slots, Capture, Faults

VARIABLES moving, driver, job, answer, id, yielded, chan, consumer, received, hit

query == <<driver, job, answer, id, yielded, chan, consumer, received, hit>>
D == INSTANCE DistributedQuery

-----------------------------------------------------------------------------
(* The properties of DistributedQuery, under the names they have there.    *)

\* DistributedQuery: the end of the stream is the end of the whole result.
EndMeansComplete == D!EndMeansComplete

\* DistributedQuery: an abandoned job does not run on, and who keeps reading
\* sees the end.
QueryEnds == D!QueryEnds
=============================================================================
