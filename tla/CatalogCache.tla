---------------------------- MODULE CatalogCache ----------------------------
(***************************************************************************)
(* The provider cache of dataglot-catalog/src/cache.rs: get (warm probe,   *)
(* per-key OnceCell, build, hoist, clear), evict, and the invalidation     *)
(* task that evicts on every change of the store's subscribe stream and    *)
(* reconnects when the stream closes.  No operation touches two keys, so   *)
(* the module models one key: `inner` and `inFlight` are its entries in    *)
(* the two maps.  Every map operation is a step of its own, as the callers *)
(* run on several threads.                                                 *)
(*                                                                         *)
(* A provider is the number of binding changes made when its builder ran:  *)
(* that is when the server's builder (server.rs) resolves secrets and      *)
(* opens the source.  The catalog's config it captured at boot, so a       *)
(* rebuild never picks up a changed one; the cache promises only that the  *)
(* builder is run again.                                                   *)
(***************************************************************************)
EXTENDS Naturals, Sequences, Functions, FiniteSets

CONSTANTS
    Callers,        \* tasks that call get
    Capacity,       \* CHANGE_CHANNEL_CAPACITY: changes a stream keeps for a slow reader
    MaxVersion,     \* bound: versions the binding goes through
    MaxOthers,      \* bound: changes of other bindings
    MaxCells,       \* bound: OnceCells created
    MaxGets,        \* bound: calls of get
    MaxBuildFaults, \* bound: failed builds and dropped callers
    MaxCloses       \* bound: times the subscribe stream closes

ASSUME CacheBounds ==
    /\ {Capacity, MaxVersion, MaxCells, MaxGets} \subseteq Nat \ {0}
    /\ {MaxOthers, MaxBuildFaults, MaxCloses} \subseteq Nat

VARIABLES
    source,     \* version of the binding in the store
    stream,     \* "open" or "closed"
    queue,      \* changes, of this key and others, the task has not taken yet
    evicting,   \* evict removed the warm entry and not yet the in-flight one
    inner,      \* the warm entry, a version; 0: none
    inFlight,   \* the in-flight cell; 0: none
    cells,      \* what each cell holds; 0: not initialised
    busy,       \* cells whose initialisation is running
    stage,      \* where each caller is in get
    cell,       \* the cell each caller holds
    seen,       \* when each caller's builder ran, or that of its cell
    others, gets, faults, closes,   \* counters of the bounds
    builds,     \* history: builds started
    evicted,    \* history: an evict ran
    straddlers, \* history: callers that took their cell before the last evict was over
    putBack,    \* history: a straddler inserted the warm entry
    unheard     \* history: a change since the last evict was not delivered

caller == <<stage, cell, seen>>
feed == <<source, stream, queue, evicting, others>>
history == <<builds, evicted, straddlers, putBack, unheard>>
vars == <<feed, inner, inFlight, cells, busy, caller, gets, faults, closes, history>>

Cells == 1 .. MaxCells
Keys == {"key", "other"}
Empty == 0

\* The type of every variable: a cell is busy only while a caller builds into it.
TypeOK ==
    /\ source \in 1 .. MaxVersion /\ stream \in {"open", "closed"}
    /\ queue \in Seq(Keys) /\ Len(queue) <= Capacity /\ evicting \in BOOLEAN
    /\ inner \in 0 .. MaxVersion /\ inFlight \in 0 .. MaxCells
    /\ cells \in [Cells -> 0 .. MaxVersion]
    /\ busy = {cell[c] : c \in {d \in Callers : stage[d] = "build"}}
    /\ stage \in [Callers -> {"idle", "enter", "cell", "build", "hoist", "clear"}]
    /\ cell \in [Callers -> 0 .. MaxCells]
    /\ seen \in [Callers -> 0 .. MaxVersion]
    /\ others \in 0 .. MaxOthers /\ gets \in 0 .. MaxGets /\ faults \in 0 .. MaxBuildFaults
    /\ closes \in 0 .. MaxCloses /\ builds \in Nat
    /\ {evicted, putBack, unheard} \subseteq BOOLEAN /\ straddlers \subseteq Callers

Init ==
    /\ source = 1 /\ stream = "open" /\ queue = <<>> /\ evicting = FALSE
    /\ inner = Empty /\ inFlight = Empty
    /\ cells = [k \in Cells |-> Empty] /\ busy = {}
    /\ stage = [c \in Callers |-> "idle"]
    /\ cell = [c \in Callers |-> Empty]
    /\ seen = [c \in Callers |-> Empty]
    /\ others = 0 /\ gets = 0 /\ faults = 0 /\ closes = 0
    /\ builds = 0 /\ evicted = FALSE
    /\ straddlers = {} /\ putBack = FALSE /\ unheard = FALSE

-----------------------------------------------------------------------------
(* get.                                                                    *)

\* The warm probe: a hit returns at once, a miss goes on to the cell.
Probe(c) ==
    /\ stage[c] = "idle" /\ gets < MaxGets
    /\ gets' = gets + 1
    /\ stage' = [stage EXCEPT ![c] = IF inner = Empty THEN "enter" ELSE "idle"]
    /\ UNCHANGED <<feed, inner, inFlight, cells, busy, cell, seen, faults, closes, history>>

\* in_flight.entry(name).or_insert_with(OnceCell::new): the key's cell, or a new one.
Unused == {k \in Cells : /\ k # inFlight /\ cells[k] = Empty
                         /\ \A c \in Callers : cell[c] # k}
Enter(c) ==
    /\ stage[c] = "enter"
    /\ \E k \in IF inFlight # Empty THEN {inFlight}
                ELSE {k \in Unused : \A j \in Unused : k <= j} :
          /\ cell' = [cell EXCEPT ![c] = k]
          /\ inFlight' = k
    /\ stage' = [stage EXCEPT ![c] = "cell"]
    /\ straddlers' = IF evicting THEN straddlers \cup {c} ELSE straddlers
    /\ UNCHANGED <<feed, inner, cells, busy, seen, gets, faults, closes, builds, evicted, putBack, unheard>>

\* Mutant: a waiter is woken only while its cell is in the in-flight map.
TakeCell_IfMapped(c) ==
    /\ stage[c] = "cell" /\ cells[cell[c]] # Empty /\ cell[c] = inFlight
    /\ seen' = [seen EXCEPT ![c] = cells[cell[c]]]
    /\ stage' = [stage EXCEPT ![c] = "hoist"]
    /\ UNCHANGED <<feed, inner, inFlight, cells, busy, cell, gets, faults, closes, history>>

\* get_or_try_init on an initialised cell: its value, without a build.
TakeCell(c) ==
    /\ stage[c] = "cell" /\ cells[cell[c]] # Empty
    /\ seen' = [seen EXCEPT ![c] = cells[cell[c]]]
    /\ stage' = [stage EXCEPT ![c] = "hoist"]
    /\ UNCHANGED <<feed, inner, inFlight, cells, busy, cell, gets, faults, closes, history>>

\* The builder of the server runs: it resolves the secrets and opens the source now.
RunBuilder(c) == seen' = [seen EXCEPT ![c] = source]

\* get_or_try_init on an empty cell nobody initialises: this caller runs the
\* builder.  The others wait for the cell.
StartBuild(c) ==
    /\ stage[c] = "cell" /\ cells[cell[c]] = Empty /\ cell[c] \notin busy
    /\ busy' = busy \cup {cell[c]}
    /\ RunBuilder(c)
    /\ builds' = builds + 1
    /\ stage' = [stage EXCEPT ![c] = "build"]
    /\ UNCHANGED <<feed, inner, inFlight, cells, cell, gets, faults, closes, evicted, straddlers, putBack, unheard>>

\* The builder returned a provider: the cell is initialised for good.
BuildDone(c) ==
    /\ stage[c] = "build"
    /\ cells' = [cells EXCEPT ![cell[c]] = seen[c]]
    /\ busy' = busy \ {cell[c]}
    /\ stage' = [stage EXCEPT ![c] = "hoist"]
    /\ UNCHANGED <<feed, inner, inFlight, cell, seen, gets, faults, closes, history>>

\* The builder failed, or the caller was dropped while it built or waited: the
\* cell stays empty and in the in-flight map, and a waiter may build.
Leave(c) ==
    /\ busy' = IF stage[c] = "build" THEN busy \ {cell[c]} ELSE busy
    /\ stage' = [stage EXCEPT ![c] = "idle"]
    /\ cell' = [cell EXCEPT ![c] = Empty]
    /\ seen' = [seen EXCEPT ![c] = Empty]
    /\ straddlers' = straddlers \ {c}
BuildAbandoned(c) ==
    /\ stage[c] \in {"cell", "build"} /\ faults < MaxBuildFaults
    /\ faults' = faults + 1
    /\ Leave(c)
    /\ UNCHANGED <<feed, inner, inFlight, cells, gets, closes, builds, evicted, putBack, unheard>>

\* inner.insert: the provider becomes the warm entry, whatever is there now.
Hoist(c) ==
    /\ stage[c] = "hoist"
    /\ inner' = seen[c]
    /\ putBack' = (c \in straddlers)
    /\ stage' = [stage EXCEPT ![c] = "clear"]
    /\ UNCHANGED <<feed, inFlight, cells, busy, cell, seen, gets, faults, closes, builds, evicted, straddlers, unheard>>

\* in_flight.remove(name): the key's cell goes, also when it is not this caller's.
Clear(c) ==
    /\ stage[c] = "clear"
    /\ inFlight' = Empty
    /\ Leave(c)
    /\ UNCHANGED <<feed, inner, cells, gets, faults, closes, builds, evicted, putBack, unheard>>

-----------------------------------------------------------------------------
(* The change feed and the invalidation task.                              *)

\* emit into the broadcast channel behind the stream: a receiver that lags by more
\* than the capacity skips the oldest change, silently.
Emit(k) ==
    LET full == Len(queue) = Capacity IN
    /\ queue' = IF stream = "closed" THEN queue
                ELSE Append(IF full THEN Tail(queue) ELSE queue, k)
    /\ unheard' = (unheard \/ (stream = "closed" /\ k = "key")
                           \/ (stream = "open" /\ full /\ Head(queue) = "key" /\ "key" \notin Range(queue')))
    /\ UNCHANGED <<stream, evicting, inner, inFlight, cells, busy, caller, gets, faults, closes,
                   builds, evicted, straddlers, putBack>>

\* The binding of this key is written or deleted in the store.
Change ==
    /\ source < MaxVersion
    /\ source' = source + 1
    /\ Emit("key")
    /\ UNCHANGED others

\* Another binding is: its change goes the same way.
OtherChange ==
    /\ others < MaxOthers
    /\ others' = others + 1
    /\ Emit("other")
    /\ UNCHANGED source

\* apply_change takes a change and evicts its key: first the warm entry ...
InsideGet == {c \in Callers : stage[c] \in {"cell", "build", "hoist", "clear"}}
WarmAfterEvict_Kept == inner    \* mutant: only the in-flight entry is evicted
WarmAfterEvict == Empty
EvictWarm ==
    /\ queue # <<>> /\ ~evicting
    /\ queue' = Tail(queue)
    /\ \/ /\ Head(queue) = "key"
          /\ inner' = WarmAfterEvict
          /\ evicting' = TRUE
          /\ evicted' = TRUE
          /\ straddlers' = InsideGet
          /\ putBack' = FALSE /\ unheard' = FALSE
       \/ /\ Head(queue) = "other"
          /\ UNCHANGED <<inner, evicting, evicted, straddlers, putBack, unheard>>
    /\ UNCHANGED <<source, stream, others, inFlight, cells, busy, caller, gets, faults, closes, builds>>

\* ... then the in-flight cell.
EvictCell ==
    /\ evicting
    /\ inFlight' = Empty
    /\ evicting' = FALSE
    /\ UNCHANGED <<source, stream, queue, others, inner, cells, busy, caller, gets, faults, closes, history>>

\* The stream's backend closes it: changes still in it are delivered before the
\* task sees the end.
StreamCloses ==
    /\ stream = "open" /\ closes < MaxCloses
    /\ stream' = "closed"
    /\ closes' = closes + 1
    /\ UNCHANGED <<source, queue, evicting, others, inner, inFlight, cells, busy, caller, gets, faults, history>>

\* reconnect_subscribe succeeds: a new stream; nothing is evicted or re-read.
Reconnect ==
    /\ stream = "closed" /\ queue = <<>> /\ ~evicting
    /\ stream' = "open"
    /\ UNCHANGED <<source, queue, evicting, others, inner, inFlight, cells, busy, caller, gets, faults, closes, history>>

GetStep(c) == Enter(c) \/ TakeCell(c) \/ StartBuild(c) \/ BuildDone(c) \/ Hoist(c) \/ Clear(c)

Next ==
    \/ \E c \in Callers : Probe(c) \/ GetStep(c) \/ BuildAbandoned(c)
    \/ Change \/ OtherChange \/ EvictWarm \/ EvictCell \/ StreamCloses \/ Reconnect

Spec == Init /\ [][Next]_vars

\* Every task is polled, builders end, and the reconnect loop retries for ever.
FairSpec ==
    /\ Spec
    /\ \A c \in Callers : WF_vars(GetStep(c))
    /\ WF_vars(EvictWarm) /\ WF_vars(EvictCell) /\ WF_vars(Reconnect)

-----------------------------------------------------------------------------
(* What the cache promises.                                                *)

\* The warm provider was built before the last change of its binding.
Stale == inner # Empty /\ inner # source
Settled == queue = <<>> /\ ~evicting /\ stream = "open"

\* A warm provider built before the last change of its binding is served only while
\* that change is still to be applied, when it never reached the task (the stream was
\* down, or lagged), or when it was put back by a get that had its cell before the
\* evict was over: a get that begins after an evict always runs the builder again, and
\* shares no cell with the ones that began before.
FreshUnlessPutBack ==
    Stale => "key" \in Range(queue) \/ unheard \/ putBack

\* Every get returns, although the build it waits for may fail or its caller may be
\* dropped: a waiter takes the build over.
GetsReturn == \A c \in Callers : stage[c] # "idle" ~> stage[c] = "idle"

\* "N concurrent get(name) calls on a cold key invoke the builder exactly once":
\* without an evict or a failed build there is one build.
BuiltOnce == ~evicted /\ faults = 0 => builds <= 1

\* "Evict name from the warm cache. The next get(name) re-resolves through the
\* builder": with every change applied the warm entry is the current one.
EvictForcesRebuild == Settled /\ ~unheard => ~Stale

\* "subscribe-stream loss logs WARN and serves warm entries until the next
\* reconnect": once reconnected, no entry is old for a change missed meanwhile.
FreshAfterReconnect == Settled /\ ~putBack => ~Stale
=============================================================================
