------------------------------ MODULE MCServer ------------------------------
(***************************************************************************)
(* What must end: the server's shutdown and its refresh jobs               *)
(* (ServerLifecycle), and a distributed query with its job on the cluster  *)
(* (DistributedQuery), for TLC.                                            *)
(*                                                                         *)
(* The two share no state, so TLC explores their disjoint sum and not      *)
(* their product: moving is the component that takes the steps.            *)
(***************************************************************************)
EXTENDS Server

both == <<moving, vars, query>>

ASSUME QueryBounds == D!DistributedBounds

\* A step of one component leaves the other alone.
ServerMoves == moving = "server" /\ UNCHANGED <<moving, query>>
QueryMoves == moving = "query" /\ UNCHANGED <<moving, vars>>

BothInit == moving \in {"server", "query"} /\ Init /\ D!Init

BothNext ==
    \/ ServerMoves /\ Next
    \/ QueryMoves /\ D!Next

\* The fairness of each component: ServerFairness and RequestsEnd of
\* ServerLifecycle, and FairSpec of DistributedQuery.
Fairness ==
    /\ WF_both(ServerMoves /\ Running /\ Boot) /\ WF_both(ServerMoves /\ Running /\ Shutdown)
    /\ \A j \in Jobs : WF_both(ServerMoves /\ Running /\ JobStep(j)) /\ WF_both(ServerMoves /\ Running /\ Tick(j))
    /\ \A s \in Siblings : WF_both(ServerMoves /\ Running /\ SiblingStep(s))
    /\ \A s \in Siblings : WF_both(ServerMoves /\ Running /\ RequestEnds(s))
    /\ WF_both(QueryMoves /\ D!Ballista) /\ WF_both(QueryMoves /\ D!Driver) /\ WF_both(QueryMoves /\ D!Fetched)
    /\ WF_both(QueryMoves /\ D!Canceller) /\ WF_both(QueryMoves /\ D!Reader)

BothFairSpec == BothInit /\ [][BothNext]_both /\ Fairness
=============================================================================
