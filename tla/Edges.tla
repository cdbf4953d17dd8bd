------------------------------- MODULE Edges -------------------------------
(***************************************************************************)
(* Four components where the server meets the outside, side by side: the   *)
(* lease object of the schedulers (SchedulerLease), connections that       *)
(* arrive (ConnectionAdmission), the stores (MetaStores) and the tokens of *)
(* HTTP sources (TokenCache).  They share no state, so each has its own    *)
(* constants and variables here, under the names it uses itself but for a  *)
(* clash; moving is the component a behaviour belongs to.                  *)
(***************************************************************************)
EXTENDS Integers

VARIABLE moving

CONSTANTS Schedulers, Offset, MaxSkew, LeaseDuration, Heartbeat, MaxDelay, Horizon, MaxFaults, MaxExits
VARIABLES time, lease, mode, req, term, wake, faults, exits, stolenAt, vacantSince

leaseVars == <<time, lease, mode, req, term, wake, faults, exits, stolenAt, vacantSince>>
L == INSTANCE SchedulerLease WITH Skew <- Offset, MaxTime <- Horizon, now <- time

CONSTANTS Conns, Ips, Users, Arrivals, Settings, GlobalMax, IpMax, UserMax, RateCap, Minute, LastTick
VARIABLES clock, bucket, free, perIp, perUser, gauge, sessions, named, pc, ip, user, enabled, stamp, passed, rewound

admissionVars ==
    <<clock, bucket, free, perIp, perUser, gauge, sessions, named, pc, ip, user, enabled, stamp, passed, rewound>>
A == INSTANCE ConnectionAdmission WITH MaxTime <- LastTick, now <- clock

CONSTANTS Nothing, Backends, Sessions, Bindings, Objects, Values, Faults, MaxOps
VARIABLES backend, disk, mem, tmp, lock, at, op, seen, view, done, want, doubt

storeVars == <<backend, disk, mem, tmp, lock, at, op, seen, view, done, want, doubt>>
M == INSTANCE MetaStores WITH None <- Nothing, pc <- at

CONSTANTS None, Callers, Margin, Timeout, Lifetimes, LastTime
VARIABLES now, cached, call, handed

tokenVars == <<now, cached, call, handed>>
T == INSTANCE TokenCache WITH Skew <- Margin, MaxTime <- LastTime

-----------------------------------------------------------------------------
(* The components' properties, under the names they have there.            *)

\* SchedulerLease: a leader whose requests are answered keeps its lease.
HealthyLeaderKeepsLease == moving = "lease" => L!HealthyLeaderKeepsLease

\* SchedulerLease: leadership neither overlaps nor lapses for long.
LeadershipBounded == moving = "lease" => L!LeadershipBounded

\* ConnectionAdmission: every slot is held by exactly one live connection.
NoSlotLeaks == moving = "admission" => A!NoSlotLeaks

\* ConnectionAdmission: the token bucket bounds the rate of every address.
RateBounded == moving = "admission" => A!RateBounded

\* MetaStores: what was acknowledged is stored, read and announced.
StoreKeepsWord == moving = "store" => M!StoreKeepsWord

\* TokenCache: a token that bearer hands out is still accepted.
TokenUsable == moving = "token" => T!TokenUsable
=============================================================================
