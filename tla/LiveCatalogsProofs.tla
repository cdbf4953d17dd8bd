------------------------- MODULE LiveCatalogsProofs -------------------------
(***************************************************************************)
(* Proofs about runtime catalog DDL and the live registry (LiveCatalogs),  *)
(* for any clients, organisations, catalogs, capacity of the change feed   *)
(* and number of failures and restarts.                                    *)
(*                                                                         *)
(* Each property has an inductive invariant of its own over the types: all *)
(* the places a tenant's snapshot is made from hold only what was stored   *)
(* for the tenant (TenantInv); an org with no change on its way has, or is *)
(* about to be given, what the store says (ConvergeInv); and the store has *)
(* what was acknowledged plus the writes so far of the one statement under *)
(* way on that catalog (SerialInv).                                        *)
(***************************************************************************)
EXTENDS LiveCatalogs, TLAPS

\* A client that is not idle runs a statement.
HasStatement == \A c \in Clients : pc[c] # "idle" => stmt[c] \in Statements

\* TypeOK in parts, and the two flags apart.
StoreType == store \in [Orgs -> [Names -> Entry]]
ClientType ==
    /\ pc \in [Clients -> Steps] /\ stmt \in [Clients -> Statements \cup {NoStatement}]
    /\ got \in [Clients -> Entry]
    /\ HasStatement
FeedType == feed \in Seq(Orgs) /\ Len(feed) <= Capacity /\ behind \subseteq Orgs
TaskType ==
    /\ refresh \in [busy : BOOLEAN, failed : BOOLEAN, org : Orgs, configs : [Names -> Optional]]
    /\ registry \in [Orgs -> [Names -> Optional]]
CountType == issued \in Nat /\ peers \in Nat /\ faults \in Nat /\ restarts \in Nat
HistoryType ==
    /\ acked \in [Orgs -> [Names -> Optional]]
    /\ ever \in [Orgs -> [Names -> SUBSET Configs]]
FlagType == phase \in {"up", "down", "deaf"} /\ subscribed \in BOOLEAN /\ overlapped \in BOOLEAN

Types ==
    /\ StoreType /\ ClientType /\ FeedType /\ TaskType /\ CountType /\ HistoryType /\ FlagType

LEMMA TypesAre == Types <=> TypeOK /\ HasStatement
BY DEF Types, TypeOK, StoreType, ClientType, FeedType, TaskType, CountType, HistoryType, FlagType

LEMMA EntryTypes ==
    /\ Absent \in Entry /\ Absent.config = None /\ Absent.binding = None
    /\ \A cfg \in Optional : Whole(cfg) \in Entry /\ Whole(cfg).config = cfg /\ Whole(cfg).binding = cfg
    /\ NoCatalogs \in [Names -> Optional]
    /\ Idle \in [busy : BOOLEAN, failed : BOOLEAN, org : Orgs, configs : [Names -> Optional]]
    /\ NoStatement \notin Statements
<1>1. /\ Absent \in Entry /\ Absent.config = None /\ Absent.binding = None
      /\ \A cfg \in Optional : Whole(cfg) \in Entry /\ Whole(cfg).config = cfg /\ Whole(cfg).binding = cfg
      /\ NoCatalogs \in [Names -> Optional]
  BY DEF Absent, Entry, Optional, Whole, NoCatalogs
<1>2. Idle \in [busy : BOOLEAN, failed : BOOLEAN, org : Orgs, configs : [Names -> Optional]]
  BY <1>1, ConstantsAssumption DEF Idle
<1>3. NoStatement \notin Statements
  BY DEF NoStatement, Statements
<1> QED BY <1>1, <1>2, <1>3

LEMMA EffectiveType ==
    ASSUME NEW org \in Orgs, NEW configs \in [Names -> Optional]
    PROVE  Effective(org, configs) \in [Names -> Optional]
BY ConstantsAssumption DEF Effective, Optional

\* What the feed holds when a change is sent or received.
LEMMA AppendRange ==
    ASSUME NEW f \in Seq(Orgs), NEW org \in Orgs
    PROVE  Range(Append(f, org)) = Range(f) \cup {org}
BY DEF Range

LEMMA TailRange ==
    ASSUME NEW f \in Seq(Orgs), f # <<>>
    PROVE  /\ Head(f) \in Orgs /\ Tail(f) \in Seq(Orgs)
           /\ Range(f) = {Head(f)} \cup Range(Tail(f))
           /\ Len(Tail(f)) = Len(f) - 1
<1>1. Head(f) \in Orgs /\ Tail(f) \in Seq(Orgs) /\ Len(Tail(f)) = Len(f) - 1
  OBVIOUS
<1>2. ASSUME NEW i \in DOMAIN f PROVE f[i] = Head(f) \/ f[i] \in Range(Tail(f))
  <2>1. CASE i = 1 BY <2>1
  <2>2. CASE i # 1
    <3>1. i - 1 \in DOMAIN Tail(f) /\ Tail(f)[i - 1] = f[i] BY <2>2
    <3> QED BY <3>1 DEF Range
  <2> QED BY <2>1, <2>2
<1>3. ASSUME NEW i \in DOMAIN Tail(f) PROVE Tail(f)[i] \in Range(f)
  <2>1. i + 1 \in DOMAIN f /\ Tail(f)[i] = f[i + 1] OBVIOUS
  <2> QED BY <2>1 DEF Range
<1>4. Head(f) \in Range(f) BY DEF Range
<1> QED BY <1>1, <1>2, <1>3, <1>4 DEF Range

-----------------------------------------------------------------------------
(* Types.                                                                  *)

LEMMA SendType ==
    ASSUME FeedType, NEW org \in Orgs, Send(org)
    PROVE  FeedType'
<1> USE DEF FeedType, Send
<1>1. CASE ~subscribed
  BY <1>1
<1>2. CASE subscribed /\ Len(feed) = Capacity
  <2>1. feed # <<>> BY <1>2, ConstantsAssumption
  <2>2. Head(feed) \in Orgs /\ Tail(feed) \in Seq(Orgs) /\ Len(Tail(feed)) = Capacity - 1
    BY <1>2, <2>1, TailRange
  <2>3. feed' = Append(Tail(feed), org) /\ behind' = behind \cup ({Head(feed)} \ Range(feed'))
    BY <1>2
  <2> QED BY <2>2, <2>3, ConstantsAssumption
<1>3. CASE subscribed /\ Len(feed) # Capacity
  <2>1. feed' = Append(feed, org) /\ behind' = behind
    BY <1>3
  <2> QED BY <1>3, <2>1, ConstantsAssumption
<1> QED BY <1>1, <1>2, <1>3

LEMMA SeededType ==
    ASSUME NEW s \in [Orgs -> [Names -> Entry]], NEW how \in [Names -> SeedOutcomes],
           NEW listed \in BOOLEAN, NEW skipped \in SUBSET Names
    PROVE  /\ Seeded(s, how) \in [Orgs -> [Names -> Entry]]
           /\ BootRegistry(s, listed, skipped) \in [Orgs -> [Names -> Optional]]
<1> DEFINE after(n) == IF FileCatalogs[n] = None \/ how[n] = "failed" THEN s[BootOrg][n]
                       ELSE [binding |-> FileCatalogs[n],
                             config |-> IF how[n] = "half" THEN s[BootOrg][n].config ELSE FileCatalogs[n]]
<1>1. ASSUME NEW n \in Names PROVE after(n) \in Entry
  BY ConstantsAssumption DEF Entry
<1>2. Seeded(s, how) = [s EXCEPT ![BootOrg] = [n \in Names |-> after(n)]]
  BY ConstantsAssumption DEF Seeded
<1>3. Seeded(s, how) \in [Orgs -> [Names -> Entry]]
  <2> DEFINE f == [n \in Names |-> after(n)]
  <2> HIDE DEF after
  <2>1. f \in [Names -> Entry] BY <1>1
  <2>2. Seeded(s, how) = [s EXCEPT ![BootOrg] = f] BY <1>2
  <2> HIDE DEF f
  <2> QED BY <2>1, <2>2
<1> DEFINE stored == [n \in Names |-> IF listed THEN s[BootOrg][n].config ELSE None]
<1>4. stored \in [Names -> Optional]
  BY ConstantsAssumption DEF Entry, Optional
<1>5. Effective(BootOrg, stored) \in [Names -> Optional]
  <2> HIDE DEF stored
  <2> QED BY <1>4, EffectiveType, ConstantsAssumption
<1>6. BootRegistry(s, listed, skipped) = [org \in Orgs |->
         IF org = BootOrg
         THEN [n \in Names |-> IF n \in skipped THEN None ELSE Effective(BootOrg, stored)[n]]
         ELSE NoCatalogs]
  BY Zenon DEF BootRegistry
<1>7. BootRegistry(s, listed, skipped) \in [Orgs -> [Names -> Optional]]
  <2> HIDE DEF stored
  <2>1. [n \in Names |-> IF n \in skipped THEN None ELSE Effective(BootOrg, stored)[n]] \in [Names -> Optional]
    BY <1>5 DEF Optional
  <2> QED BY <1>6, <2>1, EntryTypes
<1> QED BY <1>3, <1>7

LEMMA AllDoneType == AllDone \in [Names -> SeedOutcomes] /\ \A n \in Names : AllDone[n] = "done"
BY DEF AllDone, SeedOutcomes

\* A restart in one form, whether its boot is clean, meets failures or ends in one.
Restarted(how, listed, skipped) ==
    /\ ProcessGone /\ Seed(how)
    /\ restarts' = restarts + 1
    /\ phase' \in {"up", "down", "deaf"}
    /\ \/ /\ registry' = BootRegistry(store', listed, skipped)
          /\ behind' = (Orgs \ {BootOrg}) \cup {o \in {BootOrg} : ~listed \/ skipped # {}}
       \/ registry' = [org \in Orgs |-> NoCatalogs] /\ behind' = Orgs
    /\ faults' = faults + 1 \/ (faults' = faults /\ how = AllDone)

LEMMA RestartForm ==
    ASSUME Restart
    PROVE  \E how \in [Names -> SeedOutcomes], listed \in BOOLEAN, skipped \in SUBSET Names :
              Restarted(how, listed, skipped)
<1>1. CASE Boot(AllDone, TRUE, {}) /\ UNCHANGED faults
  <2>1. Restarted(AllDone, TRUE, {}) BY <1>1 DEF Restart, Boot, Restarted
  <2> QED BY <2>1, AllDoneType
<1>2. ASSUME Fault, NEW how \in [Names -> SeedOutcomes], NEW listed \in BOOLEAN, NEW skipped \in SUBSET Names,
             Boot(how, listed, skipped) \/ BootFails(how)
      PROVE  Restarted(how, listed, skipped)
  BY <1>2 DEF Restart, Boot, BootFails, Fault, Restarted
<1>3. TRUE \in BOOLEAN /\ {} \in SUBSET Names OBVIOUS
<1> QED BY <1>1, <1>2, <1>3 DEF Restart

LEMMA InitTypes == Init => Types
<1> SUFFICES ASSUME Init PROVE Types
  OBVIOUS
<1>1. [org \in Orgs |-> [n \in Names |-> Absent]] \in [Orgs -> [Names -> Entry]]
  BY EntryTypes
<1>2. store \in [Orgs -> [Names -> Entry]] /\ registry \in [Orgs -> [Names -> Optional]]
  BY <1>1, SeededType, AllDoneType DEF Init
<1>3. HistoryType
  <2>1. acked = [org \in Orgs |-> [n \in Names |-> store[org][n].config]]
    BY DEF Init
  <2>3. acked \in [Orgs -> [Names -> Optional]]
    BY <1>2, <2>1 DEF Entry
  <2>2. ever \in [Orgs -> [Names -> SUBSET Configs]]
    BY DEF Init
  <2> QED BY <2>2, <2>3 DEF HistoryType
<1>4. ClientType
  BY EntryTypes DEF Init, ClientType, HasStatement, Steps
<1>5. FeedType /\ CountType
  BY ConstantsAssumption DEF Init, FeedType, CountType
<1>6. TaskType
  BY <1>2, EntryTypes DEF Init, TaskType
<1>7. FlagType
  BY DEF Init, FlagType
<1> QED BY <1>2, <1>3, <1>4, <1>5, <1>6, <1>7 DEF Types, StoreType

\* The types of one client's step.
LEMMA ClientTypes ==
    ASSUME Types, NEW c \in Clients, ClientStep(c)
    PROVE  Types'
<1>1. /\ pc[c] # "idle" => stmt[c] \in Statements
      /\ stmt[c] \in Statements =>
            /\ stmt[c].org \in Orgs /\ stmt[c].name \in Names /\ stmt[c].cfg \in Configs
            /\ Stored(c) \in Entry /\ Base(c) \in Entry
  BY DEF Types, ClientType, StoreType, HasStatement, Statements, Stored, Base
<1>2. ASSUME stmt[c] \in Statements, NEW e \in Entry, Put(c, e)
      PROVE  StoreType'
  BY <1>1, <1>2 DEF Types, StoreType, Put
<1>3. ASSUME stmt[c] \in Statements, NEW cfg \in Optional, Ack(c, cfg), UNCHANGED ever
      PROVE  HistoryType'
  BY <1>1, <1>3 DEF Types, HistoryType, Ack
<1>4. ASSUME NEW step \in Steps, Goto(c, step), stmt[c] \in Statements
      PROVE  ClientType'
  BY <1>4 DEF Types, ClientType, HasStatement, Goto
<1>5. ASSUME Done(c)
      PROVE  ClientType'
  BY <1>5, EntryTypes DEF Types, ClientType, HasStatement, Done, Steps
<1>6. ASSUME NEW step \in Steps, Read(c, step), stmt[c] \in Statements
      PROVE  ClientType'
  BY <1>1, <1>6 DEF Types, ClientType, HasStatement, Read
<1>7. ASSUME Fail(c), UNCHANGED <<task, issued, peers, restarts, ever, overlapped, behind>>
      PROVE  Types'
  <2>1. ClientType' BY <1>5, <1>7 DEF Fail
  <2>2. CountType' BY <1>7 DEF Types, CountType, Fail, Fault
  <2>3. /\ StoreType' /\ FeedType' /\ TaskType' /\ HistoryType' /\ FlagType'
    BY <1>7 DEF Types, Fail, StoreType, FeedType, TaskType, HistoryType, FlagType, task
  <2> QED BY <2>1, <2>2, <2>3 DEF Types
<1>8. ASSUME UNCHANGED <<task, budgets, overlapped>>
      PROVE  TaskType' /\ CountType' /\ FlagType'
  BY <1>8 DEF Types, TaskType, CountType, FlagType, task, budgets
<1> USE DEF Steps, Optional, budgets
<1>9. CASE Build(c)
  <2>1. CASE Goto(c, "upsert_get") /\ UNCHANGED <<faults, store, feed, acked>>
    <3>1. ClientType' BY <1>1, <1>4, <1>9, <2>1 DEF Build
    <3>2. TaskType' /\ CountType' /\ FlagType' BY <1>8, <1>9, <2>1 DEF Build
    <3>3. StoreType' /\ FeedType' /\ HistoryType'
      BY <1>9, <2>1 DEF Build, Types, StoreType, FeedType, HistoryType
    <3> QED BY <3>1, <3>2, <3>3 DEF Types
  <2> QED BY <1>7, <1>9, <2>1 DEF Build
<1>10. CASE UpsertGet(c)
  <2>1. CASE Read(c, "upsert_put") /\ UNCHANGED <<faults, store, feed, acked>>
    <3>1. ClientType' BY <1>1, <1>6, <1>10, <2>1 DEF UpsertGet
    <3>2. TaskType' /\ CountType' /\ FlagType' BY <1>8, <1>10, <2>1 DEF UpsertGet
    <3>3. StoreType' /\ FeedType' /\ HistoryType'
      BY <1>10, <2>1 DEF UpsertGet, Types, StoreType, FeedType, HistoryType
    <3> QED BY <3>1, <3>2, <3>3 DEF Types
  <2> QED BY <1>7, <1>10, <2>1 DEF UpsertGet
<1>11. CASE UpsertPut(c)
  <2>1. CASE /\ Put(c, [binding |-> stmt[c].cfg, config |-> Base(c).config])
             /\ Goto(c, "upsert_emit")
             /\ UNCHANGED <<faults, feed, acked>>
    <3>1. ClientType' BY <1>1, <1>4, <1>11, <2>1 DEF UpsertPut
    <3>2. TaskType' /\ CountType' /\ FlagType' BY <1>8, <1>11, <2>1 DEF UpsertPut
    <3>3. stmt[c] \in Statements BY <1>1, <1>11 DEF UpsertPut
    <3>4. [binding |-> stmt[c].cfg, config |-> Base(c).config] \in Entry
      BY <1>1, <3>3 DEF Entry
    <3>5. StoreType' BY <1>2, <2>1, <3>3, <3>4
    <3>6. FeedType' /\ HistoryType' BY <1>11, <2>1 DEF UpsertPut, Types, FeedType, HistoryType
    <3> QED BY <3>1, <3>2, <3>5, <3>6 DEF Types
  <2> QED BY <1>7, <1>11, <2>1 DEF UpsertPut
<1>12. CASE UpsertEmit(c)
  <2>1. ClientType' BY <1>1, <1>4, <1>12 DEF UpsertEmit
  <2>2. TaskType' /\ CountType' /\ FlagType' BY <1>8, <1>12 DEF UpsertEmit
  <2>3. FeedType' BY <1>1, <1>12, SendType DEF UpsertEmit, Types
  <2>4. StoreType' /\ HistoryType' BY <1>12 DEF UpsertEmit, Types, StoreType, HistoryType
  <2> QED BY <2>1, <2>2, <2>3, <2>4 DEF Types
<1>13. CASE SetGet(c)
  <2>1. CASE Read(c, "set_put") /\ UNCHANGED <<faults, store, feed, acked>>
    <3>1. ClientType' BY <1>1, <1>6, <1>13, <2>1 DEF SetGet
    <3>2. TaskType' /\ CountType' /\ FlagType' BY <1>8, <1>13, <2>1 DEF SetGet
    <3>3. StoreType' /\ FeedType' /\ HistoryType'
      BY <1>13, <2>1 DEF SetGet, Types, StoreType, FeedType, HistoryType
    <3> QED BY <3>1, <3>2, <3>3 DEF Types
  <2>2. CASE Done(c) /\ Ack(c, stmt[c].cfg) /\ UNCHANGED <<faults, store, feed>>
    <3>1. ClientType' BY <1>5, <2>2
    <3>2. TaskType' /\ CountType' /\ FlagType' BY <1>8, <1>13, <2>2 DEF SetGet
    <3>3. HistoryType' BY <1>1, <1>3, <1>13, <2>2 DEF SetGet
    <3>4. StoreType' /\ FeedType' BY <1>13, <2>2 DEF SetGet, Types, StoreType, FeedType
    <3> QED BY <3>1, <3>2, <3>3, <3>4 DEF Types
  <2> QED BY <1>7, <1>13, <2>1, <2>2 DEF SetGet
<1>14. CASE SetPut(c)
  <2>0. stmt[c] \in Statements BY <1>1, <1>14 DEF SetPut
  <2>1. CASE /\ Put(c, [Base(c) EXCEPT !.config = stmt[c].cfg])
             /\ Goto(c, "set_emit")
             /\ ever' = [ever EXCEPT ![stmt[c].org][stmt[c].name] = @ \cup {stmt[c].cfg}]
             /\ UNCHANGED <<faults, feed, acked>>
    <3>1. ClientType' BY <1>4, <2>0, <2>1
    <3>2. TaskType' /\ CountType' /\ FlagType' BY <1>8, <1>14, <2>1 DEF SetPut
    <3>3. [Base(c) EXCEPT !.config = stmt[c].cfg] \in Entry BY <1>1, <2>0 DEF Entry
    <3>4. StoreType' BY <1>2, <2>0, <2>1, <3>3
    <3>5. HistoryType' BY <1>1, <2>0, <2>1 DEF Types, HistoryType
    <3>6. FeedType' BY <1>14, <2>1 DEF SetPut, Types, FeedType
    <3> QED BY <3>1, <3>2, <3>4, <3>5, <3>6 DEF Types
  <2>2. CASE Done(c) /\ Ack(c, stmt[c].cfg) /\ UNCHANGED <<faults, feed, store, ever>>
    <3>1. ClientType' BY <1>5, <2>2
    <3>2. TaskType' /\ CountType' /\ FlagType' BY <1>8, <1>14, <2>2 DEF SetPut
    <3>3. HistoryType' BY <1>1, <1>3, <2>0, <2>2
    <3>4. StoreType' /\ FeedType' BY <1>14, <2>2 DEF SetPut, Types, StoreType, FeedType
    <3> QED BY <3>1, <3>2, <3>3, <3>4 DEF Types
  <2> QED BY <1>7, <1>14, <2>1, <2>2 DEF SetPut
<1>15. CASE SetEmit(c)
  <2>1. ClientType' BY <1>5, <1>15 DEF SetEmit
  <2>2. TaskType' /\ CountType' /\ FlagType' BY <1>8, <1>15 DEF SetEmit
  <2>3. FeedType' BY <1>1, <1>15, SendType DEF SetEmit, Types
  <2>4. HistoryType' BY <1>1, <1>3, <1>15 DEF SetEmit
  <2>5. StoreType' BY <1>15 DEF SetEmit, Types, StoreType
  <2> QED BY <2>1, <2>2, <2>3, <2>4, <2>5 DEF Types
<1>16. CASE Delete(c)
  <2>1. CASE Put(c, Absent) /\ Goto(c, "delete_emit") /\ UNCHANGED <<faults, feed, acked>>
    <3>1. ClientType' BY <1>1, <1>4, <1>16, <2>1 DEF Delete
    <3>2. TaskType' /\ CountType' /\ FlagType' BY <1>8, <1>16, <2>1 DEF Delete
    <3>3. StoreType' BY <1>1, <1>2, <1>16, <2>1, EntryTypes DEF Delete
    <3>4. FeedType' /\ HistoryType' BY <1>16, <2>1 DEF Delete, Types, FeedType, HistoryType
    <3> QED BY <3>1, <3>2, <3>3, <3>4 DEF Types
  <2>2. CASE Done(c) /\ UNCHANGED <<faults, store, feed, acked>>
    <3>1. ClientType' BY <1>5, <2>2
    <3>2. TaskType' /\ CountType' /\ FlagType' BY <1>8, <1>16, <2>2 DEF Delete
    <3>3. StoreType' /\ FeedType' /\ HistoryType'
      BY <1>16, <2>2 DEF Delete, Types, StoreType, FeedType, HistoryType
    <3> QED BY <3>1, <3>2, <3>3 DEF Types
  <2> QED BY <1>7, <1>16, <2>1, <2>2 DEF Delete, Removed
<1>17. CASE DeleteEmit(c)
  <2>1. ClientType' BY <1>5, <1>17 DEF DeleteEmit
  <2>2. TaskType' /\ CountType' /\ FlagType' BY <1>8, <1>17 DEF DeleteEmit
  <2>3. FeedType' BY <1>1, <1>17, SendType DEF DeleteEmit, Types
  <2>4. HistoryType' BY <1>1, <1>3, <1>17 DEF DeleteEmit
  <2>5. StoreType' BY <1>17 DEF DeleteEmit, Types, StoreType
  <2> QED BY <2>1, <2>2, <2>3, <2>4, <2>5 DEF Types
<1> QED
  BY <1>9, <1>10, <1>11, <1>12, <1>13, <1>14, <1>15, <1>16, <1>17 DEF ClientStep

LEMMA NextTypes == Types /\ [Next]_vars => Types'
<1> SUFFICES ASSUME Types, [Next]_vars PROVE Types'
  OBVIOUS
<1>1. ASSUME NEW c \in Clients, ClientStep(c) PROVE Types'
  BY <1>1, ClientTypes
<1> USE DEF task, budgets, client
<1>2. ASSUME NEW c \in Clients, NEW verb \in Verbs, NEW s \in Statements, Begin(c, verb, s) PROVE Types'
  <2>1. ClientType' BY <1>2 DEF Begin, Types, ClientType, HasStatement, Steps
  <2>2. FlagType' BY <1>2 DEF Begin, Types, FlagType, Busy
  <2>3. CountType' BY <1>2 DEF Begin, Types, CountType
  <2>4. StoreType' /\ FeedType' /\ TaskType' /\ HistoryType'
    BY <1>2 DEF Begin, Types, StoreType, FeedType, TaskType, HistoryType
  <2> QED BY <2>1, <2>2, <2>3, <2>4 DEF Types
<1>3. CASE Subscribe
  BY <1>3 DEF Subscribe, Types, StoreType, ClientType, HasStatement, FeedType, TaskType, CountType, HistoryType,
              FlagType
<1>4. CASE RefreshList
  <2> DEFINE org == Head(feed)
  <2>1. /\ feed # <<>> /\ feed' = Tail(feed)
        /\ behind' = behind \ {org} \/ behind' = behind \cup {org}
        /\ Listed(org, SourceConfigs(org), FALSE) \/ Listed(org, NoCatalogs, TRUE)
        /\ UNCHANGED faults \/ Fault
        /\ UNCHANGED <<store, client, phase, subscribed, registry, issued, peers, restarts, acked, ever, overlapped>>
    BY <1>4, Zenon DEF RefreshList
  <2>2. org \in Orgs /\ Tail(feed) \in Seq(Orgs) /\ Len(Tail(feed)) = Len(feed) - 1
    BY <2>1, TailRange DEF Types, FeedType
  <2> HIDE DEF org
  <2>3. FeedType' BY <2>1, <2>2, ConstantsAssumption DEF Types, FeedType
  <2>4. SourceConfigs(org) \in [Names -> Optional]
    BY <2>2 DEF SourceConfigs, Entry, Types, StoreType
  <2>5. /\ Effective(org, SourceConfigs(org)) \in [Names -> Optional]
        /\ Effective(org, NoCatalogs) \in [Names -> Optional]
    BY <2>2, <2>4, EffectiveType, EntryTypes
  <2>6. TaskType'
    <3>1. ASSUME NEW f \in BOOLEAN, NEW configs \in [Names -> Optional]
          PROVE  [busy |-> TRUE, failed |-> f, org |-> org, configs |-> configs]
                    \in [busy : BOOLEAN, failed : BOOLEAN, org : Orgs, configs : [Names -> Optional]]
      BY <2>2, <3>1
    <3>2. refresh' \in [busy : BOOLEAN, failed : BOOLEAN, org : Orgs, configs : [Names -> Optional]]
      BY <2>1, <2>5, <3>1, Zenon DEF Listed
    <3>3. registry' = registry BY <2>1
    <3> QED BY <3>2, <3>3 DEF Types, TaskType
  <2>7. CountType'
    <3>1. UNCHANGED <<issued, peers, restarts>> BY <2>1
    <3>2. faults' = faults \/ faults' = faults + 1 BY <2>1 DEF Fault
    <3> QED BY <3>1, <3>2 DEF Types, CountType
  <2>8. StoreType' /\ ClientType' /\ HistoryType' /\ FlagType'
    BY <2>1 DEF Types, StoreType, ClientType, HasStatement, HistoryType, FlagType
  <2> QED BY <2>3, <2>6, <2>7, <2>8 DEF Types
<1>5. CASE RefreshSwap
  <2>1. TaskType' BY <1>5, EntryTypes DEF RefreshSwap, Types, TaskType
  <2>2. StoreType' /\ ClientType' /\ FeedType' /\ CountType' /\ HistoryType' /\ FlagType'
    BY <1>5 DEF RefreshSwap, Types, StoreType, ClientType, HasStatement, FeedType, CountType, HistoryType,
       FlagType
  <2> QED BY <2>1, <2>2 DEF Types
<1>6. ASSUME NEW n \in Names, RefreshSkip(n) PROVE Types'
  <2>1. TaskType' BY <1>6 DEF RefreshSkip, Types, TaskType, Optional
  <2>2. CountType' BY <1>6 DEF RefreshSkip, Fault, Types, CountType
  <2>3. FeedType' BY <1>6 DEF RefreshSkip, Types, FeedType, TaskType
  <2>4. StoreType' /\ ClientType' /\ HistoryType' /\ FlagType'
    BY <1>6 DEF RefreshSkip, Types, StoreType, ClientType, HasStatement, HistoryType, FlagType
  <2> QED BY <2>1, <2>2, <2>3, <2>4 DEF Types
<1>7. ASSUME NEW org \in Orgs, NEW n \in Names, NEW cfg \in Configs, PeerWrite(org, n, cfg) PROVE Types'
  <2>1. StoreType' BY <1>7, EntryTypes DEF PeerWrite, Types, StoreType, Optional
  <2>2. FeedType' BY <1>7, SendType DEF PeerWrite, Types
  <2>3. HistoryType' BY <1>7 DEF PeerWrite, Types, HistoryType, Optional
  <2>4. FlagType' BY <1>7 DEF PeerWrite, Types, FlagType, Busy
  <2>5. CountType' BY <1>7 DEF PeerWrite, Types, CountType
  <2>6. TaskType' /\ ClientType' BY <1>7 DEF PeerWrite, Types, TaskType, ClientType, HasStatement
  <2> QED BY <2>1, <2>2, <2>3, <2>4, <2>5, <2>6 DEF Types
<1>8. CASE Restart
  <2>0. PICK how \in [Names -> SeedOutcomes], listed \in BOOLEAN, skipped \in SUBSET Names :
            Restarted(how, listed, skipped)
    BY <1>8, RestartForm
  <2> USE DEF Restarted, ProcessGone
  <2>1. store' \in [Orgs -> [Names -> Entry]]
    BY <2>0, SeededType DEF Seed, Types, StoreType
  <2>8. registry' \in [Orgs -> [Names -> Optional]]
    <3>1. registry' = BootRegistry(store', listed, skipped) \/ registry' = [org \in Orgs |-> NoCatalogs]
      BY <2>0
    <3>2. BootRegistry(store', listed, skipped) \in [Orgs -> [Names -> Optional]]
      BY <2>1, SeededType
    <3>3. [org \in Orgs |-> NoCatalogs] \in [Orgs -> [Names -> Optional]] BY EntryTypes
    <3> QED BY <3>1, <3>2, <3>3
  <2>2. StoreType' /\ TaskType' BY <2>0, <2>1, <2>8, EntryTypes DEF StoreType, TaskType
  <2>3. ClientType' BY <2>0, EntryTypes DEF ClientType, HasStatement, Steps
  <2>4. FeedType' BY <2>0, ConstantsAssumption DEF FeedType
  <2>5. HistoryType' BY <2>0, ConstantsAssumption DEF Seed, Types, HistoryType
  <2>6. FlagType' BY <2>0 DEF Types, FlagType
  <2>7. CountType' BY <2>0 DEF Types, CountType
  <2> QED BY <2>2, <2>3, <2>4, <2>5, <2>6, <2>7 DEF Types
<1>10. CASE FeedLost
  <2>1. /\ phase' = "deaf" /\ subscribed' = FALSE /\ feed' = <<>> /\ behind' = behind \cup Range(feed)
        /\ faults' = faults + 1
        /\ UNCHANGED <<store, client, refresh, registry, issued, peers, restarts, acked, ever, overlapped>>
    BY <1>10 DEF FeedLost, Fault
  <2>2. Range(feed) \subseteq Orgs BY DEF Range, Types, FeedType
  <2>3. FeedType' BY <2>1, <2>2, ConstantsAssumption DEF Types, FeedType
  <2>4. CountType' BY <2>1 DEF Types, CountType
  <2>5. StoreType' /\ ClientType' /\ TaskType' /\ HistoryType' /\ FlagType'
    BY <2>1 DEF Types, StoreType, ClientType, HasStatement, TaskType, HistoryType, FlagType
  <2> QED BY <2>3, <2>4, <2>5 DEF Types
<1>9. CASE UNCHANGED vars
  BY <1>9 DEF vars, Types, StoreType, ClientType, HasStatement, FeedType, TaskType, CountType, HistoryType,
     FlagType
<1> QED
  BY <1>1, <1>2, <1>3, <1>4, <1>5, <1>6, <1>7, <1>8, <1>9, <1>10 DEF Next, TaskStep

\* Every variable of the catalog DDL and the registry has its type, for any
\* number of clients, organisations, faults and restarts.
THEOREM TypeCorrect == Spec => []TypeOK
<1>1. Types => TypeOK BY TypesAre
<1> QED BY <1>1, InitTypes, NextTypes, PTL DEF Spec

-----------------------------------------------------------------------------
(* No tenant leak: every place from which a config can reach the snapshot  *)
(* of a tenant holds only what was once stored for that tenant: the store, *)
(* the entry a statement has read and will write back, the snapshot being  *)
(* built.  The file is only the boot org's.                                *)

Tenants == Orgs \ {BootOrg}
Known(org, n, cfg) == cfg # None => cfg \in ever[org][n]

StoreKnown == \A org \in Tenants, n \in Names : Known(org, n, store[org][n].config)
GotKnown ==
    \A c \in Clients : pc[c] \in {"upsert_put", "set_put"} /\ stmt[c].org \in Tenants =>
        Known(stmt[c].org, stmt[c].name, got[c].config)
RefreshKnown == refresh.org \in Tenants => \A n \in Names : Known(refresh.org, n, refresh.configs[n])
RegistryKnown == \A org \in Tenants, n \in Names : Known(org, n, registry[org][n])

TenantInv == StoreKnown /\ GotKnown /\ RefreshKnown /\ RegistryKnown

LEMMA TenantInit == Init => TenantInv
<1> SUFFICES ASSUME Init PROVE TenantInv
  OBVIOUS
<1> USE ConstantsAssumption
<1>1. \A org \in Tenants : store[org] = [n \in Names |-> Absent]
  BY DEF Init, Seeded, Tenants
<1>2. \A org \in Tenants : registry[org] = NoCatalogs
  BY DEF Init, BootRegistry, Tenants
<1>3. StoreKnown BY <1>1, EntryTypes DEF StoreKnown, Known
<1>4. RegistryKnown BY <1>2 DEF RegistryKnown, Known, NoCatalogs
<1>5. GotKnown BY DEF Init, GotKnown
<1>6. RefreshKnown BY DEF Init, RefreshKnown, Idle, Tenants
<1> QED BY <1>3, <1>4, <1>5, <1>6 DEF TenantInv

\* A client writes back what it has read, or its own config, which is recorded.
LEMMA TenantClient ==
    ASSUME Types, TenantInv, NEW c \in Clients, ClientStep(c)
    PROVE  TenantInv'
<1>1. /\ pc[c] # "idle" => stmt[c] \in Statements
      /\ stmt[c] \in Statements =>
            /\ stmt[c].org \in Orgs /\ stmt[c].name \in Names /\ stmt[c].cfg \in Configs
            /\ Stored(c) \in Entry /\ Base(c) \in Entry
  BY DEF Types, ClientType, StoreType, HasStatement, Statements, Stored, Base
<1>2. UNCHANGED <<refresh, registry>>
  BY DEF ClientStep, Build, UpsertGet, UpsertPut, UpsertEmit, SetGet, SetPut, SetEmit, Delete, DeleteEmit, task
<1>3. ASSUME UNCHANGED <<store, ever>>,
             \/ Done(c)
             \/ \E step \in Steps \ {"upsert_put", "set_put"} : Goto(c, step)
             \/ stmt[c] \in Statements /\ \E step \in Steps : Read(c, step)
      PROVE  TenantInv'
  <2>1. StoreKnown' /\ RefreshKnown' /\ RegistryKnown'
    BY <1>2, <1>3 DEF TenantInv, StoreKnown, RefreshKnown, RegistryKnown, Known
  <2>2. GotKnown'
    <3>1. CASE Done(c)
      BY <1>3, <3>1 DEF Types, ClientType, TenantInv, GotKnown, Known, Done
    <3>2. ASSUME NEW step \in Steps \ {"upsert_put", "set_put"}, Goto(c, step) PROVE GotKnown'
      BY <1>3, <3>2 DEF Types, ClientType, TenantInv, GotKnown, Known, Goto
    <3>3. ASSUME stmt[c] \in Statements, NEW step \in Steps, Read(c, step) PROVE GotKnown'
      BY <1>1, <1>3, <3>3 DEF Types, ClientType, TenantInv, GotKnown, StoreKnown, Known, Read, Stored
    <3> QED BY <1>3, <3>1, <3>2, <3>3
  <2> QED BY <2>1, <2>2 DEF TenantInv
<1>4. ASSUME stmt[c] \in Statements, NEW e \in Entry, Put(c, e), UNCHANGED ever,
             NEW step \in Steps \ {"upsert_put", "set_put"}, Goto(c, step),
             stmt[c].org \in Tenants => Known(stmt[c].org, stmt[c].name, e.config)
      PROVE  TenantInv'
  <2>1. RefreshKnown' /\ RegistryKnown'
    BY <1>2, <1>4 DEF TenantInv, RefreshKnown, RegistryKnown, Known
  <2>2. GotKnown' BY <1>4 DEF Types, ClientType, TenantInv, GotKnown, Known, Goto
  <2>3. StoreKnown' BY <1>1, <1>4 DEF Types, StoreType, TenantInv, StoreKnown, Known, Put, Tenants
  <2> QED BY <2>1, <2>2, <2>3 DEF TenantInv
<1> USE DEF Steps
<1>5. CASE Build(c)
  BY <1>3, <1>5 DEF Build, Fail
<1>6. CASE UpsertGet(c)
  BY <1>1, <1>3, <1>6 DEF UpsertGet, Fail
<1>7. CASE UpsertPut(c)
  <2> DEFINE e == [binding |-> stmt[c].cfg, config |-> Base(c).config]
  <2>1. stmt[c] \in Statements BY <1>1, <1>7 DEF UpsertPut
  <2>2. e \in Entry BY <1>1, <2>1 DEF Entry, Optional
  <2>3. stmt[c].org \in Tenants => Known(stmt[c].org, stmt[c].name, e.config)
    BY <1>1, <1>7, <2>1 DEF UpsertPut, TenantInv, GotKnown, StoreKnown, Base, Stored
  <2>4. CASE Put(c, e) /\ Goto(c, "upsert_emit") /\ UNCHANGED ever
    BY <1>4, <2>1, <2>2, <2>3, <2>4
  <2>5. CASE Fail(c) /\ UNCHANGED ever
    BY <1>3, <2>5 DEF Fail
  <2> QED BY <1>7, <2>4, <2>5 DEF UpsertPut
<1>8. CASE UpsertEmit(c)
  BY <1>3, <1>8 DEF UpsertEmit
<1>9. CASE SetGet(c)
  BY <1>1, <1>3, <1>9 DEF SetGet, Fail
<1>10. CASE SetPut(c)
  <2> DEFINE e == [Base(c) EXCEPT !.config = stmt[c].cfg]
  <2>1. stmt[c] \in Statements BY <1>1, <1>10 DEF SetPut
  <2>2. CASE /\ Put(c, e) /\ Goto(c, "set_emit")
             /\ ever' = [ever EXCEPT ![stmt[c].org][stmt[c].name] = @ \cup {stmt[c].cfg}]
    <3>1. e.config = stmt[c].cfg BY <1>1, <2>1 DEF Entry
    <3> HIDE DEF e
    <3>2. \A org \in Orgs, n \in Names : ever[org][n] \subseteq ever'[org][n]
      BY <1>1, <2>1, <2>2 DEF Types, HistoryType
    <3>3. stmt[c].cfg \in ever'[stmt[c].org][stmt[c].name]
      BY <1>1, <2>1, <2>2 DEF Types, HistoryType
    <3>4. StoreKnown'
      BY <1>1, <2>1, <2>2, <3>1, <3>2, <3>3 DEF Types, StoreType, TenantInv, StoreKnown, Known, Put, Tenants
    <3>5. RegistryKnown' BY <1>2, <3>2 DEF TenantInv, RegistryKnown, Known, Tenants
    <3>6. RefreshKnown' BY <1>2, <3>2 DEF TenantInv, RefreshKnown, Known, Tenants
    <3>7. GotKnown'
      <4> SUFFICES ASSUME NEW d \in Clients, pc'[d] \in {"upsert_put", "set_put"}, stmt[d].org \in Tenants
                   PROVE  Known(stmt[d].org, stmt[d].name, got[d].config)'
        BY <2>2 DEF GotKnown, Goto
      <4>1. d # c /\ pc[d] = pc'[d] BY <2>2 DEF Goto, Types, ClientType
      <4>2. stmt[d].org \in Orgs /\ stmt[d].name \in Names
        BY <4>1 DEF Types, ClientType, HasStatement, Statements
      <4> QED BY <2>2, <3>2, <4>1, <4>2 DEF Goto, TenantInv, GotKnown, Known
    <3> QED BY <3>4, <3>5, <3>6, <3>7 DEF TenantInv
  <2>3. CASE Done(c) /\ UNCHANGED <<store, ever>>
    BY <1>3, <2>3
  <2> QED BY <1>10, <2>2, <2>3 DEF SetPut, Fail
<1>11. CASE SetEmit(c)
  BY <1>3, <1>11 DEF SetEmit
<1>12. CASE Delete(c)
  <2>1. stmt[c] \in Statements BY <1>1, <1>12 DEF Delete
  <2>2. CASE Put(c, Absent) /\ Goto(c, "delete_emit") /\ UNCHANGED ever
    BY <1>4, <2>1, <2>2, EntryTypes DEF Known
  <2>3. CASE Done(c) /\ UNCHANGED <<store, ever>>
    BY <1>3, <2>3
  <2> QED BY <1>12, <2>2, <2>3 DEF Delete, Removed, Fail
<1>13. CASE DeleteEmit(c)
  BY <1>3, <1>13 DEF DeleteEmit
<1> QED
  BY <1>5, <1>6, <1>7, <1>8, <1>9, <1>10, <1>11, <1>12, <1>13 DEF ClientStep

\* What a restart and a failing refresh leave in place, and what a peer adds.
LEMMA TenantNext == Types /\ TenantInv /\ [Next]_vars => TenantInv'
<1> SUFFICES ASSUME Types, TenantInv, [Next]_vars PROVE TenantInv'
  OBVIOUS
<1>1. ASSUME NEW c \in Clients, ClientStep(c) PROVE TenantInv'
  BY <1>1, TenantClient
<1>2. ASSUME NEW c \in Clients, NEW verb \in Verbs, NEW s \in Statements, Begin(c, verb, s) PROVE TenantInv'
  <2>1. UNCHANGED <<store, refresh, registry, ever>> BY <1>2 DEF Begin, task
  <2>2. StoreKnown' /\ RefreshKnown' /\ RegistryKnown'
    BY <2>1 DEF TenantInv, StoreKnown, RefreshKnown, RegistryKnown, Known
  <2>3. GotKnown' BY <1>2, <2>1 DEF Begin, client, Types, ClientType, TenantInv, GotKnown, Known
  <2> QED BY <2>2, <2>3 DEF TenantInv
<1> USE DEF TenantInv, StoreKnown, GotKnown, RefreshKnown, RegistryKnown, Known, client, task
<1>3. CASE Subscribe
  BY <1>3 DEF Subscribe
<1>4. CASE RefreshList
  <2> DEFINE org == Head(feed)
  <2>1. /\ feed # <<>>
        /\ \/ refresh' = [busy |-> TRUE, failed |-> FALSE, org |-> org, configs |-> Effective(org, SourceConfigs(org))]
           \/ refresh' = [busy |-> TRUE, failed |-> TRUE, org |-> org, configs |-> Effective(org, NoCatalogs)]
        /\ UNCHANGED <<store, client, registry, ever>>
    BY <1>4, Zenon DEF RefreshList, Listed
  <2>2. org \in Orgs BY <2>1, TailRange DEF Types, FeedType
  <2> HIDE DEF org
  <2>3. org \in Tenants => \A n \in Names :
            /\ Effective(org, SourceConfigs(org))[n] = store[org][n].config
            /\ Effective(org, NoCatalogs)[n] = None
    BY DEF Effective, SourceConfigs, NoCatalogs, Tenants
  <2>4. refresh'.org = org /\ (refresh'.configs = Effective(org, SourceConfigs(org))
                               \/ refresh'.configs = Effective(org, NoCatalogs))
    BY <2>1
  <2>5. RefreshKnown'
    <3> SUFFICES ASSUME org \in Tenants, NEW n \in Names, refresh'.configs[n] # None
                 PROVE  refresh'.configs[n] \in ever[org][n]
      BY <2>1, <2>4
    <3> QED BY <2>3, <2>4
  <2> QED BY <2>1, <2>5
<1>5. CASE RefreshSwap
  <2>1. refresh' = Idle /\ registry' = [registry EXCEPT ![refresh.org] = refresh.configs]
        /\ UNCHANGED <<store, client, ever>>
    BY <1>5, Zenon DEF RefreshSwap
  <2>2. RefreshKnown' BY <2>1 DEF Idle, Tenants
  <2>3. RegistryKnown' BY <2>1 DEF Types, TaskType, Tenants
  <2> QED BY <2>1, <2>2, <2>3
<1>6. ASSUME NEW n \in Names, RefreshSkip(n) PROVE TenantInv'
  <2>1. refresh' = [refresh EXCEPT !.configs[n] = None] /\ UNCHANGED <<store, client, registry, ever>>
    BY <1>6 DEF RefreshSkip
  <2>2. RefreshKnown' BY <2>1 DEF Types, TaskType
  <2> QED BY <2>1, <2>2
<1>7. ASSUME NEW org \in Orgs, NEW n \in Names, NEW cfg \in Configs, PeerWrite(org, n, cfg) PROVE TenantInv'
  <2>1. /\ store' = [store EXCEPT ![org][n] = Whole(cfg)]
        /\ ever' = [ever EXCEPT ![org][n] = @ \cup {cfg}]
        /\ UNCHANGED <<client, refresh, registry>>
    BY <1>7 DEF PeerWrite
  <2>2. \A o \in Orgs, m \in Names : ever[o][m] \subseteq ever'[o][m]
    BY <2>1 DEF Types, HistoryType
  <2>3. cfg \in ever'[org][n] BY <2>1 DEF Types, HistoryType
  <2>4. Whole(cfg).config = cfg BY EntryTypes DEF Optional
  <2>5. StoreKnown' BY <2>1, <2>2, <2>3, <2>4 DEF Types, StoreType, Tenants
  <2>6. RefreshKnown' /\ RegistryKnown' BY <2>1, <2>2 DEF Tenants
  <2>7. GotKnown'
    <3> SUFFICES ASSUME NEW d \in Clients, pc[d] \in {"upsert_put", "set_put"}, stmt[d].org \in Tenants
                 PROVE  Known(stmt[d].org, stmt[d].name, got[d].config)'
      BY <2>1
    <3>1. stmt[d].org \in Orgs /\ stmt[d].name \in Names
      BY DEF Types, ClientType, HasStatement, Statements
    <3> QED BY <2>1, <2>2, <3>1
  <2> QED BY <2>5, <2>6, <2>7
<1>8. CASE Restart
  <2>0. PICK how \in [Names -> SeedOutcomes], listed \in BOOLEAN, skipped \in SUBSET Names :
            Restarted(how, listed, skipped)
    BY <1>8, RestartForm
  <2>1. /\ store' = Seeded(store, how) /\ refresh' = Idle
        /\ registry' = BootRegistry(store', listed, skipped) \/ registry' = [org \in Orgs |-> NoCatalogs]
        /\ pc' = [c \in Clients |-> "idle"] /\ UNCHANGED ever
    BY <2>0 DEF Restarted, ProcessGone, Seed
  <2>2. \A org \in Tenants : store'[org] = store[org] /\ registry'[org] = NoCatalogs
    BY <2>1 DEF Seeded, BootRegistry, Tenants, Types, StoreType
  <2>3. StoreKnown' /\ RegistryKnown' BY <2>1, <2>2 DEF NoCatalogs
  <2>4. RefreshKnown' BY <2>1 DEF Idle, Tenants
  <2>5. GotKnown' BY <2>1
  <2> QED BY <2>3, <2>4, <2>5
<1>9. CASE UNCHANGED vars
  BY <1>9 DEF vars
<1>10. CASE FeedLost
  BY <1>10 DEF FeedLost
<1> QED
  BY <1>1, <1>2, <1>3, <1>4, <1>5, <1>6, <1>7, <1>8, <1>9, <1>10 DEF Next, TaskStep

\* Whatever fails, restarts or runs beside it, the snapshot of a tenant holds only
\* configs that were once stored for that tenant: never one of the boot file,
\* never one of another tenant.
THEOREM TenantsStayApart == Spec => []NoTenantLeak
<1>1. TenantInv => NoTenantLeak
  BY DEF TenantInv, RegistryKnown, Known, Tenants, NoTenantLeak
<1>2. Types /\ TenantInv /\ [Next]_vars => Types' /\ TenantInv'
  BY NextTypes, TenantNext
<1> QED
  BY <1>1, <1>2, InitTypes, TenantInit, PTL DEF Spec

-----------------------------------------------------------------------------
(* Convergence: what the refresh task will make of an org is current,      *)
(* unless a change of the org is still on its way to it (in the feed, or   *)
(* written by a client that has not announced it) or its last change was   *)
(* missed.                                                                 *)

Announcing == {"upsert_emit", "set_emit", "delete_emit"}
Unannounced(org) == \E c \in Clients : pc[c] \in Announcing /\ stmt[c].org = org
Current(org) == Effective(org, SourceConfigs(org))
Rebuilding(org) == refresh.busy /\ refresh.org = org
UpToDate(org) ==
    /\ Rebuilding(org) => refresh.configs = Current(org)
    /\ ~Rebuilding(org) => registry[org] = Current(org)

ConvergeInv ==
    \A org \in Orgs : org \notin behind /\ org \notin Range(feed) /\ ~Unannounced(org) => UpToDate(org)

\* A change that is sent is in the feed or counted as missed, and so is every
\* change it pushes out of the feed.
LEMMA SendKeeps ==
    ASSUME FeedType, NEW org \in Orgs, Send(org)
    PROVE  /\ org \in behind' \cup Range(feed')
           /\ behind \subseteq behind' /\ Range(feed) \subseteq behind' \cup Range(feed')
<1> USE DEF FeedType
<1>1. CASE ~subscribed
  BY <1>1 DEF Send
<1>2. CASE subscribed /\ Len(feed) = Capacity
  <2>1. feed # <<>> BY <1>2, ConstantsAssumption
  <2>2. feed' = Append(Tail(feed), org) /\ behind' = behind \cup ({Head(feed)} \ Range(feed'))
    BY <1>2 DEF Send
  <2>3. Range(feed') = Range(Tail(feed)) \cup {org}
    BY <2>1, <2>2, TailRange, AppendRange
  <2>4. Range(feed) = {Head(feed)} \cup Range(Tail(feed))
    BY <2>1, TailRange
  <2> QED BY <2>2, <2>3, <2>4
<1>3. CASE subscribed /\ Len(feed) # Capacity
  <2>1. feed' = Append(feed, org) /\ behind' = behind
    BY <1>3 DEF Send
  <2> QED BY <2>1, AppendRange
<1> QED BY <1>1, <1>2, <1>3

\* A step that leaves the store and the refresh task of an org alone, and takes
\* nothing of it out of sight, leaves the org as up to date as it was.
LEMMA UndisturbedOrg ==
    ASSUME ConvergeInv, NEW org \in Orgs, UNCHANGED <<refresh, registry>>, store'[org] = store[org],
           org \notin behind, org \notin Range(feed), ~Unannounced(org)
    PROVE  UpToDate(org)'
<1>1. UpToDate(org) BY DEF ConvergeInv
<1>2. Current(org)' = Current(org) BY DEF Current, SourceConfigs, Effective
<1>3. Rebuilding(org)' = Rebuilding(org) BY DEF Rebuilding
<1> QED BY <1>1, <1>2, <1>3 DEF UpToDate

LEMMA ConvergeClient ==
    ASSUME Types, ConvergeInv, NEW c \in Clients, ClientStep(c)
    PROVE  ConvergeInv'
<1>1. /\ pc[c] # "idle" => stmt[c] \in Statements
      /\ stmt[c] \in Statements => stmt[c].org \in Orgs /\ stmt[c].name \in Names
  BY DEF Types, ClientType, HasStatement, Statements
<1>2. UNCHANGED <<refresh, registry>>
  BY DEF ClientStep, Build, UpsertGet, UpsertPut, UpsertEmit, SetGet, SetPut, SetEmit, Delete, DeleteEmit, task
\* A step that writes nothing and is not an announcement.
<1>3. ASSUME UNCHANGED <<store, feed, behind>>, pc[c] \notin Announcing,
             Done(c) \/ \E step \in Steps : Goto(c, step) \/ Read(c, step)
      PROVE  ConvergeInv'
  <2> SUFFICES ASSUME NEW org \in Orgs, org \notin behind, org \notin Range(feed), ~Unannounced(org)'
               PROVE  UpToDate(org)'
    BY <1>3 DEF ConvergeInv
  <2>1. ~Unannounced(org)
    BY <1>3 DEF Unannounced, Done, Goto, Read, Types, ClientType
  <2> QED BY <1>2, <1>3, <2>1, UndisturbedOrg
\* A write, to be announced.
<1>4. ASSUME stmt[c] \in Statements, NEW e, Put(c, e), UNCHANGED <<feed, behind>>,
             NEW step \in Announcing, Goto(c, step), pc[c] \notin Announcing
      PROVE  ConvergeInv'
  <2> SUFFICES ASSUME NEW org \in Orgs, org \notin behind, org \notin Range(feed), ~Unannounced(org)'
               PROVE  UpToDate(org)'
    BY <1>4 DEF ConvergeInv
  <2>1. pc'[c] \in Announcing /\ stmt'[c].org = stmt[c].org
    BY <1>4 DEF Goto, Types, ClientType
  <2>2. org # stmt[c].org BY <2>1 DEF Unannounced
  <2>3. ~Unannounced(org)
    BY <1>4 DEF Unannounced, Goto, Types, ClientType
  <2>4. store'[org] = store[org] BY <1>4, <2>2 DEF Put, Types, StoreType
  <2> QED BY <1>2, <1>4, <2>3, <2>4, UndisturbedOrg
\* An announcement.
<1>5. ASSUME stmt[c] \in Statements, Send(stmt[c].org), UNCHANGED store,
             Done(c) \/ \E step \in Steps : Goto(c, step)
      PROVE  ConvergeInv'
  <2>1. /\ stmt[c].org \in behind' \cup Range(feed')
        /\ behind \subseteq behind' /\ Range(feed) \subseteq behind' \cup Range(feed')
    BY <1>1, <1>5, SendKeeps DEF Types
  <2> SUFFICES ASSUME NEW org \in Orgs, org \notin behind', org \notin Range(feed'), ~Unannounced(org)'
               PROVE  UpToDate(org)'
    BY DEF ConvergeInv
  <2>2. org # stmt[c].org /\ org \notin behind /\ org \notin Range(feed) BY <2>1
  <2>3. ~Unannounced(org)
    BY <1>5, <2>2 DEF Unannounced, Done, Goto, Types, ClientType
  <2> QED BY <1>2, <1>5, <2>2, <2>3, UndisturbedOrg
<1> USE DEF Steps, Announcing
<1>6. CASE Build(c)
  BY <1>3, <1>6 DEF Build, Fail
<1>7. CASE UpsertGet(c)
  BY <1>3, <1>7 DEF UpsertGet, Fail
<1>8. CASE UpsertPut(c)
  BY <1>1, <1>3, <1>4, <1>8 DEF UpsertPut, Fail
<1>9. CASE UpsertEmit(c)
  BY <1>1, <1>5, <1>9 DEF UpsertEmit
<1>10. CASE SetGet(c)
  BY <1>3, <1>10 DEF SetGet, Fail
<1>11. CASE SetPut(c)
  BY <1>1, <1>3, <1>4, <1>11 DEF SetPut, Fail
<1>12. CASE SetEmit(c)
  BY <1>1, <1>5, <1>12 DEF SetEmit
<1>13. CASE Delete(c)
  BY <1>1, <1>3, <1>4, <1>13 DEF Delete, Fail
<1>14. CASE DeleteEmit(c)
  BY <1>1, <1>5, <1>14 DEF DeleteEmit
<1> QED
  BY <1>6, <1>7, <1>8, <1>9, <1>10, <1>11, <1>12, <1>13, <1>14 DEF ClientStep

\* A boot that lists the store and reaches every catalog serves what the store has.
LEMMA CleanBoot ==
    ASSUME NEW s \in [Orgs -> [Names -> Entry]]
    PROVE  BootRegistry(s, TRUE, {})[BootOrg]
              = Effective(BootOrg, [n \in Names |-> s[BootOrg][n].config])
<1> DEFINE stored == [n \in Names |-> s[BootOrg][n].config]
<1>1. BootRegistry(s, TRUE, {})[BootOrg] = [n \in Names |-> Effective(BootOrg, stored)[n]]
  BY ConstantsAssumption DEF BootRegistry
<1>2. [n \in Names |-> Effective(BootOrg, stored)[n]] = Effective(BootOrg, stored)
  BY DEF Effective
<1> QED BY <1>1, <1>2

LEMMA ConvergeInit == Init => ConvergeInv
<1> SUFFICES ASSUME Init, NEW org \in Orgs PROVE UpToDate(org)
  BY DEF ConvergeInv
<1>1. ~Rebuilding(org) BY DEF Init, Idle, Rebuilding
<1>2. registry = BootRegistry(store, TRUE, {})
      /\ store = Seeded([o \in Orgs |-> [n \in Names |-> Absent]], AllDone)
  BY DEF Init
<1>3. CASE org = BootOrg
  <2>1. store \in [Orgs -> [Names -> Entry]] BY InitTypes DEF Types, StoreType
  <2>2. registry[BootOrg] = Current(BootOrg)
    BY <1>2, <2>1, CleanBoot DEF Current, SourceConfigs
  <2> QED BY <1>1, <1>3, <2>2 DEF UpToDate
<1>4. CASE org # BootOrg
  <2>1. store[org] = [n \in Names |-> Absent]
    BY <1>2, <1>4 DEF Seeded
  <2>2. SourceConfigs(org) = NoCatalogs
    BY <2>1, EntryTypes DEF SourceConfigs, NoCatalogs
  <2>3. Current(org) = NoCatalogs
    BY <1>4, <2>2 DEF Current, Effective, NoCatalogs
  <2> QED BY <1>1, <1>2, <1>4, <2>3 DEF UpToDate, BootRegistry
<1> QED BY <1>3, <1>4

LEMMA ConvergeNext == Types /\ Types' /\ ConvergeInv /\ [Next]_vars => ConvergeInv'
<1> SUFFICES ASSUME Types, Types', ConvergeInv, [Next]_vars PROVE ConvergeInv'
  OBVIOUS
<1>1. ASSUME NEW c \in Clients, ClientStep(c) PROVE ConvergeInv'
  BY <1>1, ConvergeClient
<1>2. ASSUME NEW c \in Clients, NEW verb \in Verbs, NEW s \in Statements, Begin(c, verb, s) PROVE ConvergeInv'
  <2>1. UNCHANGED <<store, refresh, registry, feed, behind>> BY <1>2 DEF Begin, task
  <2> SUFFICES ASSUME NEW org \in Orgs, org \notin behind, org \notin Range(feed), ~Unannounced(org)'
               PROVE  UpToDate(org)'
    BY <2>1 DEF ConvergeInv
  <2>2. ~Unannounced(org)
    BY <1>2 DEF Begin, client, Unannounced, Announcing, Types, ClientType
  <2> QED BY <2>1, <2>2, UndisturbedOrg
<1>3. ASSUME UNCHANGED <<store, client, feed, behind, refresh, registry>> PROVE ConvergeInv'
  <2> SUFFICES ASSUME NEW org \in Orgs, org \notin behind, org \notin Range(feed), ~Unannounced(org)'
               PROVE  UpToDate(org)'
    BY <1>3 DEF ConvergeInv
  <2>1. ~Unannounced(org) BY <1>3 DEF Unannounced, client
  <2> QED BY <1>3, <2>1, UndisturbedOrg
<1>4. CASE Subscribe
  BY <1>3, <1>4 DEF Subscribe
<1>5. CASE RefreshList
  <2> DEFINE top == Head(feed)
  <2>1. /\ feed # <<>> /\ feed' = Tail(feed) /\ ~refresh.busy
        /\ \/ /\ refresh' = [busy |-> TRUE, failed |-> FALSE, org |-> top,
                             configs |-> Effective(top, SourceConfigs(top))]
              /\ behind' = behind \ {top}
           \/ /\ refresh' = [busy |-> TRUE, failed |-> TRUE, org |-> top,
                             configs |-> Effective(top, NoCatalogs)]
              /\ behind' = behind \cup {top}
        /\ UNCHANGED <<store, client, registry>>
    BY <1>5, Zenon DEF RefreshList, Listed
  <2>2. top \in Orgs /\ Range(feed) = {top} \cup Range(feed')
    BY <2>1, TailRange DEF Types, FeedType
  <2> HIDE DEF top
  <2>3. refresh'.org = top BY <2>1
  <2> SUFFICES ASSUME NEW org \in Orgs, org \notin behind', org \notin Range(feed'), ~Unannounced(org)'
               PROVE  UpToDate(org)'
    BY DEF ConvergeInv
  <2>4. Current(org)' = Current(org) BY <2>1 DEF Current, SourceConfigs, Effective
  <2>5. CASE org = top
    <3>1. refresh' = [busy |-> TRUE, failed |-> FALSE, org |-> top, configs |-> Current(top)]
      BY <2>1, <2>5 DEF Current
    <3>2. refresh'.configs = Current(top) BY <3>1
    <3>3. refresh'.busy = TRUE BY <3>1
    <3>4. Rebuilding(org)' BY <2>3, <2>5, <3>3, Zenon DEF Rebuilding
    <3>5. refresh'.configs = Current(org)' BY <2>4, <2>5, <3>2
    <3> QED BY <3>4, <3>5, Zenon DEF UpToDate
  <2>6. CASE org # top
    <3>1. org \notin behind /\ org \notin Range(feed) BY <2>1, <2>2, <2>6
    <3>2. ~Unannounced(org) BY <2>1 DEF Unannounced, client
    <3>3. registry[org] = Current(org) BY <2>1, <3>1, <3>2 DEF ConvergeInv, UpToDate, Rebuilding
    <3>4. ~Rebuilding(org)' BY <2>3, <2>6 DEF Rebuilding
    <3> QED BY <2>1, <2>4, <3>3, <3>4 DEF UpToDate
  <2> QED BY <2>5, <2>6
<1>6. CASE RefreshSwap
  <2>1. /\ refresh.busy /\ refresh' = Idle
        /\ registry' = [registry EXCEPT ![refresh.org] = refresh.configs]
        /\ UNCHANGED <<store, client, feed, behind>>
    BY <1>6, Zenon DEF RefreshSwap
  <2> SUFFICES ASSUME NEW org \in Orgs, org \notin behind, org \notin Range(feed), ~Unannounced(org)'
               PROVE  UpToDate(org)'
    BY <2>1 DEF ConvergeInv
  <2>2. UpToDate(org) BY <2>1 DEF ConvergeInv, Unannounced, client
  <2>3. ~Rebuilding(org)' BY <2>1 DEF Rebuilding, Idle
  <2>4. Current(org)' = Current(org) BY <2>1 DEF Current, SourceConfigs, Effective
  <2>5. registry'[org] = Current(org)
    BY <2>1, <2>2 DEF UpToDate, Rebuilding, Types, TaskType
  <2> QED BY <2>3, <2>4, <2>5 DEF UpToDate
<1>7. ASSUME NEW n \in Names, RefreshSkip(n) PROVE ConvergeInv'
  <2>1. /\ refresh' = [refresh EXCEPT !.configs[n] = None]
        /\ behind' = behind \cup {refresh.org}
        /\ UNCHANGED <<store, client, feed, registry>>
    BY <1>7 DEF RefreshSkip
  <2> SUFFICES ASSUME NEW org \in Orgs, org \notin behind', org \notin Range(feed), ~Unannounced(org)'
               PROVE  UpToDate(org)'
    BY <2>1 DEF ConvergeInv
  <2>2. UpToDate(org) BY <2>1 DEF ConvergeInv, Unannounced, client
  <2>3. org # refresh.org /\ refresh'.org = refresh.org BY <2>1 DEF Types, TaskType
  <2>4. ~Rebuilding(org) /\ ~Rebuilding(org)' BY <2>3 DEF Rebuilding
  <2>5. Current(org)' = Current(org) BY <2>1 DEF Current, SourceConfigs, Effective
  <2> QED BY <2>1, <2>2, <2>4, <2>5 DEF UpToDate
<1>8. ASSUME NEW org \in Orgs, NEW n \in Names, NEW cfg \in Configs, PeerWrite(org, n, cfg) PROVE ConvergeInv'
  <2>1. /\ store' = [store EXCEPT ![org][n] = Whole(cfg)]
        /\ Send(org) /\ UNCHANGED <<client, refresh, registry>>
    BY <1>8 DEF PeerWrite, task
  <2>2. /\ org \in behind' \cup Range(feed')
        /\ behind \subseteq behind' /\ Range(feed) \subseteq behind' \cup Range(feed')
    BY <2>1, SendKeeps DEF Types
  <2> SUFFICES ASSUME NEW o \in Orgs, o \notin behind', o \notin Range(feed'), ~Unannounced(o)'
               PROVE  UpToDate(o)'
    BY DEF ConvergeInv
  <2>3. o # org /\ o \notin behind /\ o \notin Range(feed) BY <2>2
  <2>4. ~Unannounced(o) BY <2>1 DEF Unannounced, client
  <2>5. store'[o] = store[o] BY <2>1, <2>3 DEF Types, StoreType
  <2> QED BY <2>1, <2>3, <2>4, <2>5, UndisturbedOrg
<1>9. CASE Restart
  <2>0. PICK how \in [Names -> SeedOutcomes], listed \in BOOLEAN, skipped \in SUBSET Names :
            Restarted(how, listed, skipped)
    BY <1>9, RestartForm
  <2>1. /\ refresh' = Idle
        /\ \/ /\ registry' = BootRegistry(store', listed, skipped)
              /\ behind' = (Orgs \ {BootOrg}) \cup {o \in {BootOrg} : ~listed \/ skipped # {}}
           \/ behind' = Orgs
    BY <2>0 DEF Restarted, ProcessGone
  <2> SUFFICES ASSUME NEW org \in Orgs, org \notin behind' PROVE UpToDate(org)'
    BY DEF ConvergeInv
  <2>2. org = BootOrg /\ registry' = BootRegistry(store', TRUE, {})
    BY <2>1
  <2>3. ~Rebuilding(BootOrg)' BY <2>1 DEF Rebuilding, Idle
  <2>4. registry'[BootOrg] = Current(BootOrg)'
    <3>1. store' \in [Orgs -> [Names -> Entry]] BY DEF Types, StoreType
    <3> QED BY <2>2, <3>1, CleanBoot DEF Current, SourceConfigs
  <2> QED BY <2>2, <2>3, <2>4 DEF UpToDate
<1>11. CASE FeedLost
  <2>1. /\ behind' = behind \cup Range(feed)
        /\ UNCHANGED <<store, client, refresh, registry>>
    BY <1>11 DEF FeedLost
  <2> SUFFICES ASSUME NEW org \in Orgs, org \notin behind', ~Unannounced(org)' PROVE UpToDate(org)'
    BY DEF ConvergeInv
  <2>2. ~Unannounced(org) BY <2>1 DEF Unannounced, client
  <2> QED BY <2>1, <2>2, UndisturbedOrg
<1>10. CASE UNCHANGED vars
  BY <1>3, <1>10 DEF vars, client
<1> QED
  BY <1>1, <1>2, <1>4, <1>5, <1>6, <1>7, <1>8, <1>9, <1>10, <1>11 DEF Next, TaskStep

\* Once every statement has finished and every change is handled, new sessions are
\* given the catalogs of the store, in every org whose last change was not missed.
THEOREM RegistryFollowsStore == Spec => []RegistryConverges
<1>1. Types /\ ConvergeInv => RegistryConverges
  <2> SUFFICES ASSUME ConvergeInv, Quiescent, NEW org \in Orgs \ behind PROVE Fresh(org)
    BY DEF RegistryConverges
  <2>1. ~Unannounced(org) BY DEF Unannounced, Announcing, Quiescent, ClientsIdle
  <2>2. org \notin Range(feed) BY DEF Range, Quiescent
  <2>3. ~Rebuilding(org) BY DEF Rebuilding, Quiescent
  <2> QED BY <2>1, <2>2, <2>3 DEF ConvergeInv, UpToDate, Current, Fresh
<1>2. Types /\ ConvergeInv /\ [Next]_vars => Types' /\ ConvergeInv'
  BY NextTypes, ConvergeNext
<1> QED
  BY <1>1, <1>2, InitTypes, ConvergeInit, PTL DEF Spec

-----------------------------------------------------------------------------
(* Serial effect: as long as statements on one catalog do not overlap and  *)
(* nothing fails, the store has what the last successful statement left,   *)
(* plus exactly the writes of the one statement that is under way there.   *)

OfAck(cfg) == IF cfg = None THEN Absent ELSE Whole(cfg)

\* What the store has for the catalog a client works on, by how far it is.
Expected(c) ==
    LET s == stmt[c]
        last == acked[s.org][s.name]
    IN  IF pc[c] \in {"build", "upsert_get", "upsert_put", "delete"} THEN OfAck(last)
        ELSE IF pc[c] \in {"upsert_emit", "set_get", "set_put"} THEN [binding |-> s.cfg, config |-> last]
        ELSE IF pc[c] = "set_emit" THEN Whole(s.cfg)
        ELSE Absent

\* What a client has read is still what is stored.
Steady(c) ==
    /\ Stored(c) = Expected(c)
    /\ pc[c] \in {"upsert_put", "set_put"} => got[c] = Stored(c)

SameCatalog(c, d) == stmt[c].org = stmt[d].org /\ stmt[c].name = stmt[d].name
Alone == \A c, d \in Clients : pc[c] # "idle" /\ pc[d] # "idle" /\ SameCatalog(c, d) => c = d

SerialInv ==
    ~overlapped =>
        /\ Alone
        /\ faults = 0 =>
             /\ \A org \in Orgs, n \in Names : ~Busy(Clients, org, n) => store[org][n] = OfAck(acked[org][n])
             /\ \A c \in Clients : pc[c] # "idle" => Steady(c)

\* A client's step touches no other client, and no other catalog.
LEMMA ClientFrame ==
    ASSUME Types, NEW c \in Clients, ClientStep(c)
    PROVE  /\ pc[c] # "idle" /\ stmt[c] \in Statements
           /\ \A d \in Clients \ {c} : pc'[d] = pc[d] /\ stmt'[d] = stmt[d] /\ got'[d] = got[d]
           /\ \A org \in Orgs, n \in Names : org # stmt[c].org \/ n # stmt[c].name =>
                 store'[org][n] = store[org][n] /\ acked'[org][n] = acked[org][n]
           /\ overlapped' = overlapped
           /\ faults' = faults \/ (faults' = faults + 1 /\ pc'[c] = "idle")
           /\ pc'[c] = "idle" \/ stmt'[c] = stmt[c]
<1>1. pc[c] # "idle"
  BY DEF ClientStep, Build, UpsertGet, UpsertPut, UpsertEmit, SetGet, SetPut, SetEmit, Delete, DeleteEmit
<1>2. stmt[c] \in Statements /\ stmt[c].org \in Orgs /\ stmt[c].name \in Names
  BY <1>1 DEF Types, ClientType, HasStatement, Statements
<1>3. overlapped' = overlapped
  BY DEF ClientStep, Build, UpsertGet, UpsertPut, UpsertEmit, SetGet, SetPut, SetEmit, Delete, DeleteEmit
<1>4. Done(c) \/ \E step \in Steps : Goto(c, step) \/ Read(c, step)
  BY DEF ClientStep, Build, UpsertGet, UpsertPut, UpsertEmit, SetGet, SetPut, SetEmit, Delete, DeleteEmit, Fail,
     Steps
<1>5. UNCHANGED store \/ \E e : Put(c, e)
  BY DEF ClientStep, Build, UpsertGet, UpsertPut, UpsertEmit, SetGet, SetPut, SetEmit, Delete, DeleteEmit, Fail
<1>6. UNCHANGED acked \/ \E cfg : Ack(c, cfg)
  BY DEF ClientStep, Build, UpsertGet, UpsertPut, UpsertEmit, SetGet, SetPut, SetEmit, Delete, DeleteEmit, Fail
<1>7. UNCHANGED faults \/ (Fault /\ Done(c))
  BY DEF ClientStep, Build, UpsertGet, UpsertPut, UpsertEmit, SetGet, SetPut, SetEmit, Delete, DeleteEmit, Fail,
     budgets
<1>8. \A d \in Clients \ {c} : pc'[d] = pc[d] /\ stmt'[d] = stmt[d] /\ got'[d] = got[d]
  BY <1>4 DEF Types, ClientType, Done, Goto, Read
<1>9. pc'[c] = "idle" \/ stmt'[c] = stmt[c]
  BY <1>4 DEF Types, ClientType, Done, Goto, Read
<1>10. ASSUME NEW org \in Orgs, NEW n \in Names, org # stmt[c].org \/ n # stmt[c].name
       PROVE  store'[org][n] = store[org][n] /\ acked'[org][n] = acked[org][n]
  <2>1. store'[org][n] = store[org][n] BY <1>2, <1>5, <1>10 DEF Put, Types, StoreType
  <2>2. acked'[org][n] = acked[org][n] BY <1>2, <1>6, <1>10 DEF Ack, Types, HistoryType
  <2> QED BY <2>1, <2>2
<1>11. faults' = faults \/ (faults' = faults + 1 /\ pc'[c] = "idle")
  BY <1>7 DEF Fault, Done, Types, ClientType
<1> QED BY <1>1, <1>2, <1>3, <1>8, <1>9, <1>10, <1>11

\* The catalog of the client itself.
LEMMA ClientSteady ==
    ASSUME Types, Types', NEW c \in Clients, ClientStep(c), Steady(c), faults = 0, faults' = 0
    PROVE  /\ pc'[c] # "idle" => Steady(c)'
           /\ pc'[c] = "idle" =>
                 store'[stmt[c].org][stmt[c].name] = OfAck(acked'[stmt[c].org][stmt[c].name])
<1> DEFINE org == stmt[c].org
           n == stmt[c].name
           cfg == stmt[c].cfg
           last == acked[org][n]
<1>1. org \in Orgs /\ n \in Names /\ cfg \in Configs /\ last \in Optional /\ cfg # None
  BY ClientFrame, ConstantsAssumption DEF Statements, Types, HistoryType
<1>2. Stored(c) = store[org][n] /\ Stored(c) \in Entry
  BY <1>1 DEF Stored, Types, StoreType
<1>3. ~Fail(c) BY DEF Fail, Fault
<1>4. /\ OfAck(None) = Absent /\ OfAck(cfg) = Whole(cfg)
      /\ OfAck(last).config = last /\ OfAck(last) \in Entry /\ Exists(OfAck(last)) = (last # None)
  BY <1>1, EntryTypes DEF OfAck, Exists, Optional
<1>5. ASSUME NEW step \in Steps, Goto(c, step) PROVE pc'[c] = step /\ stmt'[c] = stmt[c] /\ got'[c] = got[c]
  BY <1>5 DEF Goto, Types, ClientType
<1>6. ASSUME NEW step \in Steps, Read(c, step) PROVE pc'[c] = step /\ stmt'[c] = stmt[c] /\ got'[c] = Stored(c)
  BY <1>6 DEF Read, Types, ClientType
<1>7. ASSUME NEW e, Put(c, e) PROVE store'[org][n] = e
  BY <1>1, <1>7 DEF Put, Types, StoreType
<1>8. ASSUME NEW a, Ack(c, a) PROVE acked'[org][n] = a
  BY <1>1, <1>8 DEF Ack, Types, HistoryType
<1>9. Done(c) => pc'[c] = "idle"
  BY DEF Done, Types, ClientType
<1>10. ASSUME stmt'[c] = stmt[c] PROVE Stored(c)' = store'[org][n]
  BY <1>10 DEF Stored
<1> USE DEF Steps, Steady, Expected
<1>11. CASE Build(c)
  BY <1>3, <1>5, <1>10, <1>11, <1>2 DEF Build
<1>12. CASE UpsertGet(c)
  BY <1>3, <1>6, <1>10, <1>12, <1>2 DEF UpsertGet
<1>13. CASE UpsertPut(c)
  <2>1. Base(c) = OfAck(last) BY <1>2, <1>13 DEF UpsertPut, Base
  <2>2. Put(c, [binding |-> cfg, config |-> last]) /\ Goto(c, "upsert_emit") /\ UNCHANGED acked
    BY <1>3, <1>4, <1>13, <2>1 DEF UpsertPut
  <2> QED BY <1>5, <1>7, <1>10, <2>2
<1>14. CASE UpsertEmit(c)
  BY <1>5, <1>10, <1>14, <1>2 DEF UpsertEmit
<1>15. CASE SetGet(c)
  <2>1. Exists(Stored(c)) BY <1>1, <1>15 DEF SetGet, Exists
  <2> QED BY <1>3, <1>6, <1>10, <1>15, <1>2, <2>1 DEF SetGet
<1>16. CASE SetPut(c)
  <2>1. Base(c) = [binding |-> cfg, config |-> last] BY <1>2, <1>16 DEF SetPut, Base
  <2>2. Exists(Base(c)) /\ [Base(c) EXCEPT !.config = cfg] = Whole(cfg)
    BY <1>1, <2>1 DEF Exists, Whole
  <2>3. Put(c, Whole(cfg)) /\ Goto(c, "set_emit") /\ UNCHANGED acked
    BY <1>3, <1>16, <2>2 DEF SetPut
  <2> QED BY <1>5, <1>7, <1>10, <2>3
<1>17. CASE SetEmit(c)
  <2>1. Done(c) /\ Ack(c, cfg) /\ UNCHANGED store BY <1>17 DEF SetEmit
  <2>2. store[org][n] = Whole(cfg) BY <1>2, <1>17 DEF SetEmit
  <2> QED BY <1>4, <1>8, <1>9, <2>1, <2>2
<1>18. CASE Delete(c)
  <2>1. CASE Put(c, Absent) /\ Goto(c, "delete_emit") /\ UNCHANGED acked
    BY <1>5, <1>7, <1>10, <2>1
  <2>2. CASE Done(c) /\ UNCHANGED <<store, acked>>
    BY <1>2, <1>9, <1>18, <2>2 DEF Delete
  <2> QED BY <1>3, <1>18, <2>1, <2>2 DEF Delete, Removed
<1>19. CASE DeleteEmit(c)
  <2>1. Done(c) /\ Ack(c, None) /\ UNCHANGED store BY <1>19 DEF DeleteEmit
  <2>2. store[org][n] = Absent BY <1>2, <1>19 DEF DeleteEmit
  <2> QED BY <1>4, <1>8, <1>9, <2>1, <2>2
<1> QED
  BY <1>11, <1>12, <1>13, <1>14, <1>15, <1>16, <1>17, <1>18, <1>19 DEF ClientStep

LEMMA SerialClient ==
    ASSUME Types, Types', SerialInv, NEW c \in Clients, ClientStep(c)
    PROVE  SerialInv'
<1>1. /\ pc[c] # "idle" /\ stmt[c] \in Statements
      /\ \A d \in Clients \ {c} : pc'[d] = pc[d] /\ stmt'[d] = stmt[d] /\ got'[d] = got[d]
      /\ \A org \in Orgs, n \in Names : org # stmt[c].org \/ n # stmt[c].name =>
            store'[org][n] = store[org][n] /\ acked'[org][n] = acked[org][n]
      /\ overlapped' = overlapped
      /\ faults' = faults \/ (faults' = faults + 1 /\ pc'[c] = "idle")
      /\ pc'[c] = "idle" \/ stmt'[c] = stmt[c]
  BY ClientFrame
<1> SUFFICES ASSUME ~overlapped
             PROVE  /\ Alone'
                    /\ faults' = 0 =>
                         /\ \A org \in Orgs, n \in Names :
                               ~Busy(Clients, org, n)' => store'[org][n] = OfAck(acked'[org][n])
                         /\ \A d \in Clients : pc'[d] # "idle" => Steady(d)'
  BY <1>1 DEF SerialInv
<1>2. Alone BY DEF SerialInv
<1>3. Alone' BY <1>1, <1>2 DEF Alone, SameCatalog
<1> SUFFICES ASSUME faults' = 0
             PROVE  /\ \A org \in Orgs, n \in Names :
                          ~Busy(Clients, org, n)' => store'[org][n] = OfAck(acked'[org][n])
                    /\ \A d \in Clients : pc'[d] # "idle" => Steady(d)'
  BY <1>3
<1>4. faults = 0 BY <1>1 DEF Types, CountType
<1>5. /\ \A org \in Orgs, n \in Names : ~Busy(Clients, org, n) => store[org][n] = OfAck(acked[org][n])
      /\ \A d \in Clients : pc[d] # "idle" => Steady(d)
  BY <1>4 DEF SerialInv
<1>6. /\ pc'[c] # "idle" => Steady(c)'
      /\ pc'[c] = "idle" =>
            store'[stmt[c].org][stmt[c].name] = OfAck(acked'[stmt[c].org][stmt[c].name])
  BY <1>1, <1>4, <1>5, ClientSteady
<1>7. ASSUME NEW d \in Clients, pc'[d] # "idle" PROVE Steady(d)'
  <2>1. CASE d = c BY <1>6, <1>7, <2>1
  <2>2. CASE d # c
    <3>1. pc'[d] = pc[d] /\ stmt'[d] = stmt[d] /\ got'[d] = got[d] BY <1>1, <2>2
    <3>2. stmt[d].org \in Orgs /\ stmt[d].name \in Names
      BY <1>7, <3>1 DEF Types, ClientType, HasStatement, Statements
    <3>3. ~SameCatalog(d, c) BY <1>1, <1>2, <1>7, <2>2, <3>1 DEF Alone
    <3>4. /\ store'[stmt[d].org][stmt[d].name] = store[stmt[d].org][stmt[d].name]
          /\ acked'[stmt[d].org][stmt[d].name] = acked[stmt[d].org][stmt[d].name]
      BY <1>1, <3>2, <3>3 DEF SameCatalog
    <3>5. Steady(d) BY <1>5, <1>7, <3>1
    <3>6. Stored(d)' = Stored(d) /\ Expected(d)' = Expected(d)
      BY <3>1, <3>4 DEF Stored, Expected
    <3> QED BY <3>1, <3>5, <3>6 DEF Steady
  <2> QED BY <2>1, <2>2
<1>8. ASSUME NEW org \in Orgs, NEW n \in Names, ~Busy(Clients, org, n)'
      PROVE  store'[org][n] = OfAck(acked'[org][n])
  <2>1. CASE org = stmt[c].org /\ n = stmt[c].name
    <3>1. pc'[c] = "idle" BY <1>1, <1>8, <2>1 DEF Busy
    <3> QED BY <1>6, <2>1, <3>1
  <2>2. CASE org # stmt[c].org \/ n # stmt[c].name
    <3>1. ~Busy(Clients, org, n) BY <1>1, <1>8, <2>2 DEF Busy
    <3> QED BY <1>1, <1>5, <2>2, <3>1
  <2> QED BY <2>1, <2>2
<1> QED BY <1>7, <1>8

LEMMA SerialInit == Init => SerialInv
<1> SUFFICES ASSUME Init, NEW org \in Orgs, NEW n \in Names
             PROVE  store[org][n] = OfAck(acked[org][n])
  BY DEF Init, SerialInv, Alone
<1>1. store = Seeded([o \in Orgs |-> [m \in Names |-> Absent]], AllDone) /\ acked[org][n] = store[org][n].config
  BY DEF Init
<1>2. store[org][n] = Absent \/ (FileCatalogs[n] # None /\ store[org][n] = Whole(FileCatalogs[n]))
  BY <1>1, AllDoneType, ConstantsAssumption DEF Seeded, Whole
<1> QED BY <1>1, <1>2, EntryTypes, ConstantsAssumption DEF OfAck

LEMMA SerialNext == Types /\ Types' /\ SerialInv /\ [Next]_vars => SerialInv'
<1> SUFFICES ASSUME Types, Types', SerialInv, [Next]_vars PROVE SerialInv'
  OBVIOUS
<1>1. ASSUME NEW c \in Clients, ClientStep(c) PROVE SerialInv'
  BY <1>1, SerialClient
<1>2. ASSUME NEW c \in Clients, NEW verb \in Verbs, NEW s \in Statements, Begin(c, verb, s) PROVE SerialInv'
  <2>1. /\ pc[c] = "idle" /\ UNCHANGED <<store, acked, faults>>
        /\ overlapped' = (overlapped \/ Busy(Clients \ {c}, s.org, s.name))
    BY <1>2 DEF Begin
  <2>2. CASE Refused(verb, s) /\ UNCHANGED client
    <3>1. overlapped => overlapped' BY <2>1
    <3> QED BY <2>1, <2>2, <3>1 DEF client, SerialInv, Alone, SameCatalog, Busy, Steady, Stored, Expected
  <2>3. CASE /\ ~Refused(verb, s)
             /\ pc' = [pc EXCEPT ![c] = IF verb = "drop" THEN "delete" ELSE "build"]
             /\ stmt' = [stmt EXCEPT ![c] = s] /\ UNCHANGED got
    <3>1. /\ pc'[c] \in {"build", "delete"} /\ stmt'[c] = s
          /\ \A d \in Clients \ {c} : pc'[d] = pc[d] /\ stmt'[d] = stmt[d]
      BY <2>3 DEF Types, ClientType
    <3>2. s.org \in Orgs /\ s.name \in Names BY DEF Statements
    <3> SUFFICES ASSUME ~overlapped'
                 PROVE  /\ Alone'
                        /\ faults' = 0 =>
                             /\ \A org \in Orgs, n \in Names :
                                   ~Busy(Clients, org, n)' => store'[org][n] = OfAck(acked'[org][n])
                             /\ \A d \in Clients : pc'[d] # "idle" => Steady(d)'
      BY DEF SerialInv
    <3>3. ~overlapped /\ ~Busy(Clients \ {c}, s.org, s.name) BY <2>1
    <3>4. ~Busy(Clients, s.org, s.name) BY <2>1, <3>3 DEF Busy
    <3>5. Alone'
      <4>1. Alone BY <3>3 DEF SerialInv
      <4> QED BY <3>1, <3>3, <4>1 DEF Alone, SameCatalog, Busy
    <3>6. ASSUME faults' = 0, NEW org \in Orgs, NEW n \in Names, ~Busy(Clients, org, n)'
          PROVE  store'[org][n] = OfAck(acked'[org][n])
      <4>1. ~Busy(Clients, org, n) BY <2>1, <3>1, <3>6 DEF Busy
      <4> QED BY <2>1, <3>3, <3>6, <4>1 DEF SerialInv
    <3>7. ASSUME faults' = 0, NEW d \in Clients, pc'[d] # "idle"
          PROVE  Steady(d)'
      <4>1. CASE d = c
        <5>1. store[s.org][s.name] = OfAck(acked[s.org][s.name])
          BY <2>1, <3>2, <3>3, <3>4, <3>7 DEF SerialInv
        <5>2. Stored(c)' = store[s.org][s.name] /\ Expected(c)' = OfAck(acked[s.org][s.name])
          BY <2>1, <3>1 DEF Stored, Expected
        <5> QED BY <3>1, <4>1, <5>1, <5>2 DEF Steady
      <4>2. CASE d # c
        <5>1. pc'[d] = pc[d] /\ stmt'[d] = stmt[d] /\ got'[d] = got[d] BY <2>3, <3>1, <4>2
        <5>2. Steady(d) BY <2>1, <3>3, <3>7, <5>1 DEF SerialInv
        <5>3. Stored(d)' = Stored(d) /\ Expected(d)' = Expected(d)
          BY <2>1, <5>1 DEF Stored, Expected
        <5> QED BY <5>1, <5>2, <5>3 DEF Steady
      <4> QED BY <4>1, <4>2
    <3> QED BY <3>5, <3>6, <3>7
  <2> QED BY <1>2, <2>2, <2>3 DEF Begin
<1>3. ASSUME UNCHANGED <<store, client, acked, overlapped>>, faults' = faults \/ faults' = faults + 1
      PROVE  SerialInv'
  <2>1. faults' = 0 => faults = 0 BY <1>3 DEF Types, CountType
  <2> QED BY <1>3, <2>1 DEF client, SerialInv, Alone, SameCatalog, Busy, Steady, Stored, Expected
<1>4. CASE TaskStep
  <2>1. UNCHANGED <<store, client, acked, overlapped>>
    BY <1>4, Zenon DEF TaskStep, Subscribe, FeedLost, RefreshList, RefreshSwap
  <2>2. faults' = faults \/ faults' = faults + 1
    BY <1>4, Zenon DEF TaskStep, Subscribe, FeedLost, RefreshList, RefreshSwap, Fault, budgets
  <2> QED BY <1>3, <2>1, <2>2
<1>5. ASSUME NEW n \in Names, RefreshSkip(n) PROVE SerialInv'
  BY <1>3, <1>5 DEF RefreshSkip, Fault
<1>6. ASSUME NEW org \in Orgs, NEW n \in Names, NEW cfg \in Configs, PeerWrite(org, n, cfg) PROVE SerialInv'
  <2>1. /\ store' = [store EXCEPT ![org][n] = Whole(cfg)] /\ acked' = [acked EXCEPT ![org][n] = cfg]
        /\ overlapped' = (overlapped \/ Busy(Clients, org, n))
        /\ UNCHANGED <<client, faults>>
    BY <1>6 DEF PeerWrite
  <2> SUFFICES ASSUME ~overlapped'
               PROVE  /\ Alone'
                      /\ faults' = 0 =>
                           /\ \A o \in Orgs, m \in Names :
                                 ~Busy(Clients, o, m)' => store'[o][m] = OfAck(acked'[o][m])
                           /\ \A d \in Clients : pc'[d] # "idle" => Steady(d)'
    BY DEF SerialInv
  <2>2. ~overlapped /\ ~Busy(Clients, org, n) BY <2>1
  <2>3. Alone' BY <2>1, <2>2 DEF SerialInv, Alone, SameCatalog, client
  <2>4. \A o \in Orgs, m \in Names : o # org \/ m # n =>
            store'[o][m] = store[o][m] /\ acked'[o][m] = acked[o][m]
    BY <2>1 DEF Types, StoreType, HistoryType
  <2>5. store'[org][n] = Whole(cfg) /\ acked'[org][n] = cfg /\ OfAck(cfg) = Whole(cfg)
    BY <2>1, ConstantsAssumption DEF Types, StoreType, HistoryType, OfAck
  <2>6. ASSUME faults' = 0, NEW o \in Orgs, NEW m \in Names, ~Busy(Clients, o, m)'
        PROVE  store'[o][m] = OfAck(acked'[o][m])
    <3>1. ~Busy(Clients, o, m) BY <2>1, <2>6 DEF Busy, client
    <3> QED BY <2>1, <2>2, <2>4, <2>5, <2>6, <3>1 DEF SerialInv
  <2>7. ASSUME faults' = 0, NEW d \in Clients, pc'[d] # "idle"
        PROVE  Steady(d)'
    <3>1. pc'[d] = pc[d] /\ stmt'[d] = stmt[d] /\ got'[d] = got[d] BY <2>1 DEF client
    <3>2. stmt[d].org \in Orgs /\ stmt[d].name \in Names
      BY <2>7, <3>1 DEF Types, ClientType, HasStatement, Statements
    <3>3. stmt[d].org # org \/ stmt[d].name # n BY <2>2, <2>7, <3>1 DEF Busy
    <3>4. Stored(d)' = Stored(d) /\ Expected(d)' = Expected(d)
      BY <2>4, <3>1, <3>2, <3>3 DEF Stored, Expected
    <3>5. Steady(d) BY <2>1, <2>2, <2>7, <3>1 DEF SerialInv
    <3> QED BY <3>1, <3>4, <3>5 DEF Steady
  <2> QED BY <2>3, <2>6, <2>7
<1>7. CASE Restart
  <2>0. PICK how \in [Names -> SeedOutcomes], listed \in BOOLEAN, skipped \in SUBSET Names :
            Restarted(how, listed, skipped)
    BY <1>7, RestartForm
  <2>1. /\ pc' = [c \in Clients |-> "idle"]
        /\ overlapped' = (overlapped \/ \E c \in Clients : pc[c] # "idle")
        /\ faults' = 0 => faults = 0 /\ how = AllDone
    BY <2>0 DEF Restarted, ProcessGone, Types, CountType
  <2>7. /\ store' = Seeded(store, how)
        /\ acked' = [acked EXCEPT ![BootOrg] = [n \in Names |->
                        IF FileCatalogs[n] # None /\ how[n] = "done" THEN FileCatalogs[n] ELSE @[n]]]
    BY <2>0 DEF Restarted, Seed
  <2>2. Alone' /\ \A d \in Clients : pc'[d] = "idle" BY <2>1 DEF Alone
  <2> SUFFICES ASSUME ~overlapped', faults' = 0, NEW org \in Orgs, NEW n \in Names
               PROVE  store'[org][n] = OfAck(acked'[org][n])
    BY <2>2 DEF SerialInv
  <2>3. ~overlapped /\ ~Busy(Clients, org, n) BY <2>1 DEF Busy
  <2>4. store[org][n] = OfAck(acked[org][n]) BY <2>1, <2>3 DEF SerialInv
  <2>5. CASE org = BootOrg /\ FileCatalogs[n] # None
    <3>1. store'[org][n] = Whole(FileCatalogs[n]) /\ acked'[org][n] = FileCatalogs[n]
      BY <2>1, <2>5, <2>7, AllDoneType DEF Seeded, Whole, Types, StoreType, HistoryType
    <3> QED BY <2>5, <3>1 DEF OfAck
  <2>6. CASE ~(org = BootOrg /\ FileCatalogs[n] # None)
    <3>1. store'[org][n] = store[org][n] /\ acked'[org][n] = acked[org][n]
      BY <2>6, <2>7 DEF Seeded, Types, StoreType, HistoryType
    <3> QED BY <2>4, <3>1
  <2> QED BY <2>5, <2>6
<1>8. CASE UNCHANGED vars
  BY <1>3, <1>8 DEF vars, client
<1> QED
  BY <1>1, <1>2, <1>4, <1>5, <1>6, <1>7, <1>8 DEF Next

\* Statements that do not overlap take effect one after the other: with nothing
\* failing, the store has the whole entry of the last one that succeeded, and
\* nothing after a DROP, across restarts too.
THEOREM StatementsAreSerial == Spec => []SerialEffect
<1>1. SerialInv => SerialEffect
  BY DEF SerialInv, SerialEffect, ClientsIdle, Busy, OfAck
<1>2. Types /\ SerialInv /\ [Next]_vars => Types' /\ SerialInv'
  BY NextTypes, SerialNext
<1> QED
  BY <1>1, <1>2, InitTypes, SerialInit, PTL DEF Spec
=============================================================================
