----------------------------- MODULE MetaStores -----------------------------
(***************************************************************************)
(* The three implementations of the MetaStore trait (dataglot-catalog): a  *)
(* JSON file rewritten as a whole (embedded.rs), redb (redb_store.rs) and  *)
(* Postgres (service.rs), under concurrent sessions, failed writes and     *)
(* crashes.                                                                *)
(*                                                                         *)
(* A catalog binding is an entry with two halves that are written apart:   *)
(* the binding (upsert_binding) and its source config (set_source_config). *)
(* Every other object (secret, user, role, member, policy, grant, product) *)
(* is put and removed whole.  Only bindings are announced on the feed, and *)
(* view is what a subscriber read when it last heard of one.               *)
(***************************************************************************)
EXTENDS Naturals

CONSTANTS
    None,
    Backends,    \* among "embedded", "redb" and "postgres"
    Sessions,
    Bindings,    \* the keys of catalogs, <<org, name>>
    Objects,     \* the keys of everything else
    Values,
    Faults,      \* what may go wrong: "write", "rename", "commit", "crash"
    MaxOps       \* operations of all sessions

Keys == Bindings \cup Objects
StoreConstants == Bindings \cap Objects = {} /\ MaxOps \in Nat /\ None \notin Sessions

VARIABLES
    backend,
    disk,        \* what is committed: [version, entries]
    mem,         \* embedded: the state behind the mutex
    tmp,         \* embedded: the temporary file
    lock,        \* embedded: who holds the mutex
    pc, op,      \* per session: where it is, and in which operation
    seen,        \* redb: the entry a session read before it writes
    view,        \* what the feed's subscriber knows of the bindings
    done,        \* operations begun
    want,        \* history: the effect of the committed operations
    doubt        \* history: keys with a trace of a failed operation, or that
                 \* two sessions wrote at once

vars == <<backend, disk, mem, tmp, lock, pc, op, seen, view, done, want, doubt>>
embedded == <<mem, tmp, lock>>

NoEntries == [k \in Keys |-> None]
Entry(b, c) == [binding |-> b, config |-> c]
Ops == [kind : {"upsert", "configure", "delete"}, key : Bindings, value : Values]
         \cup [kind : {"put", "remove"}, key : Objects, value : Values]

\* What an operation makes of an entry; configure keeps None (no binding).
After(e, o) ==
    CASE o.kind = "upsert" -> Entry(o.value, IF e = None THEN None ELSE e.config)
      [] o.kind = "configure" -> IF e = None THEN None ELSE [e EXCEPT !.config = o.value]
      [] o.kind = "put" -> Entry(o.value, None)
      [] o.kind \in {"delete", "remove"} -> None
Apply(state, o) == [state EXCEPT ![o.key] = After(@, o)]
\* The operations that find nothing to do write nothing.
NothingToDo(e, o) == e = None /\ o.kind \in {"configure", "delete", "remove"}

\* run_embedded_migrations: a v1 file knows no orgs and all its entries go to
\* the org "default"; the file itself stays as it is until the next write.
Load(file) ==
    IF file.version = "v2" THEN file.entries
    ELSE [k \in Keys |-> IF k[1] = "default" THEN file.entries[k[2]] ELSE None]

Visible == IF backend = "embedded" THEN mem ELSE Load(disk)

\* A new store, or one with an entry at every key.
Full == CHOOSE e \in [binding : Values, config : Values] : TRUE
Init ==
    /\ backend \in Backends
    /\ \/ disk \in [version : {"v2"}, entries : {NoEntries, [k \in Keys |-> Full]}]
       \/ backend = "embedded" /\ disk = [version |-> "v1", entries |-> [n \in {k[2] : k \in Keys} |-> Full]]
    /\ mem = Load(disk) /\ tmp = None /\ lock = None
    /\ pc = [s \in Sessions |-> "idle"] /\ op = [s \in Sessions |-> None]
    /\ seen = [s \in Sessions |-> None] /\ done = 0
    /\ view = Load(disk) /\ want = Load(disk) /\ doubt = {}

-----------------------------------------------------------------------------
(* Steps of a session.                                                     *)

Goes(s, from, to) == pc[s] = from /\ pc' = [pc EXCEPT ![s] = to]
\* Only changes of bindings are announced.
Announced(s) == IF op[s].key \in Bindings THEN "emit" ELSE "idle"

Begins(s, o) ==
    /\ pc[s] = "idle" /\ done < MaxOps
    /\ op' = [op EXCEPT ![s] = o]
    /\ done' = done + 1

\* Mutant: the file is written from the state before the change.
Mutated_Late(o) == mem
\* The change in memory, which comes before the file.
Mutated(o) == Apply(mem, o)

\* An operation of the embedded store takes the mutex and changes the memory.
EmbeddedBegins(s) ==
    /\ backend = "embedded" /\ lock = None
    /\ \E o \in Ops :
         /\ Begins(s, o)
         /\ mem' = Mutated(o)
         /\ IF NothingToDo(mem[o.key], o)
              THEN UNCHANGED <<lock, pc>>
              ELSE lock' = s /\ pc' = [pc EXCEPT ![s] = "write"]
    /\ UNCHANGED <<backend, disk, tmp, seen, view, want, doubt>>

\* persist: the whole document to <path>.tmp ...
WriteTmp(s) ==
    /\ Goes(s, "write", "rename")
    /\ tmp' = [version |-> "v2", entries |-> mem]
    /\ UNCHANGED <<backend, disk, mem, lock, op, seen, view, done, want, doubt>>

\* ... and then over the file, in one step of the file system.
Rename(s) ==
    /\ Goes(s, "rename", Announced(s))
    /\ disk' = tmp /\ tmp' = None /\ lock' = None
    /\ want' = Apply(want, op[s])
    /\ UNCHANGED <<backend, mem, op, seen, view, done, doubt>>

\* The error reaches the caller; the memory keeps the change.
PersistFails(s) ==
    /\ \/ pc[s] = "write" /\ "write" \in Faults
       \/ pc[s] = "rename" /\ "rename" \in Faults
    /\ pc' = [pc EXCEPT ![s] = "idle"] /\ lock' = None
    /\ doubt' = doubt \cup {op[s].key}
    /\ UNCHANGED <<backend, disk, mem, tmp, op, seen, view, done, want>>

\* redb: upsert_binding and set_source_config read in one transaction and
\* write in another; the other operations are one transaction.
RedbReads(s) ==
    /\ backend = "redb"
    /\ \E o \in Ops :
         LET found == disk.entries[o.key]
         IN  /\ Begins(s, o)
             /\ seen' = [seen EXCEPT ![s] = found]
             /\ pc' = [pc EXCEPT ![s] = IF o.kind = "configure" /\ found = None THEN "idle" ELSE "commit"]
    /\ UNCHANGED <<backend, disk, embedded, view, want, doubt>>

RedbCommits(s) ==
    LET k == op[s].key
        now == disk.entries[k]
        based == IF op[s].kind \in {"upsert", "configure"} THEN seen[s] ELSE now
    IN  /\ backend = "redb"
        /\ Goes(s, "commit", IF op[s].kind = "delete" /\ now = None THEN "idle" ELSE Announced(s))
        /\ disk' = [disk EXCEPT !.entries[k] = After(based, op[s])]
        /\ want' = Apply(want, op[s])
        /\ doubt' = IF based = now THEN doubt ELSE doubt \cup {k}
        /\ UNCHANGED <<backend, embedded, op, seen, view, done>>

\* A transaction that fails leaves nothing.
CommitFails(s) ==
    /\ Goes(s, "commit", "idle") /\ "commit" \in Faults
    /\ UNCHANGED <<backend, disk, embedded, op, seen, view, done, want, doubt>>

\* Postgres: one statement or one transaction, whose trigger notifies.
Statement(s) ==
    /\ backend = "postgres"
    /\ \E o \in Ops :
         /\ Begins(s, o)
         /\ disk' = [disk EXCEPT !.entries = Apply(@, o)]
         /\ want' = Apply(want, o)
         /\ pc' = [pc EXCEPT ![s] = IF o.key \in Objects \/ NothingToDo(disk.entries[o.key], o) THEN "idle" ELSE "emit"]
    /\ UNCHANGED <<backend, embedded, seen, view, doubt>>

\* emit, once the lock is free; the subscriber lists what it is told of, and
\* waits for the lock to do so.
Emit(s) ==
    /\ Goes(s, "emit", "idle") /\ lock = None
    /\ view' = [view EXCEPT ![op[s].key] = Visible[op[s].key]]
    /\ UNCHANGED <<backend, disk, embedded, op, seen, done, want, doubt>>

\* The process ends and is started again on the same store.
Crash ==
    /\ "crash" \in Faults
    /\ pc' = [s \in Sessions |-> "idle"] /\ lock' = None
    /\ seen' = [s \in Sessions |-> None]
    /\ mem' = Load(disk) /\ view' = Load(disk)
    /\ UNCHANGED <<backend, disk, tmp, op, done, want, doubt>>

Next ==
    \/ Crash
    \/ \E s \in Sessions :
         \/ EmbeddedBegins(s) \/ WriteTmp(s) \/ Rename(s) \/ PersistFails(s)
         \/ RedbReads(s) \/ RedbCommits(s) \/ CommitFails(s)
         \/ Statement(s) \/ Emit(s)

Spec == Init /\ [][Next]_vars

-----------------------------------------------------------------------------
(* Properties.                                                             *)

Under(k) == \E s \in Sessions : pc[s] # "idle" /\ op[s].key = k

\* The store keeps its word: what was acknowledged is on disk at every moment
\* (and so survives a crash anywhere, the one between the two writes of the
\* file included), what the sessions read and what the feed's subscriber
\* knows agree with it when nobody is writing, and nothing else is there.
\* Two exceptions, both of the code: the embedded store keeps in memory, and
\* saves with the next write of any key, a change that it reported as failed;
\* and redb loses one of two writes of a binding that overlap.
StoreKeepsWord ==
    \A k \in Keys \ doubt :
        /\ Load(disk)[k] = want[k]
        /\ ~Under(k) => Visible[k] = want[k]
        /\ ~Under(k) /\ k \in Bindings => view[k] = want[k]

\* set_source_config is a no-op if the name has no binding: nothing but
\* upsert_binding creates an entry.
OnlyUpsertCreates ==
    [][\A k \in Bindings : disk.entries[k] = None /\ disk'.entries[k] # None =>
         \E s \in Sessions : pc[s] # pc'[s] /\ op'[s].kind = "upsert" /\ op'[s].key = k]_vars
=============================================================================
