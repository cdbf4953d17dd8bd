------------------------------- MODULE Admin -------------------------------
(***************************************************************************)
(* The runtime statements and events that change what the server enforces  *)
(* and serves, side by side: grants (GrantRefresh), users and roles        *)
(* (UserRouting), views (Views) and the governance webhook                 *)
(* (GovernanceFeed).  They share no state, so each has its own variables   *)
(* here, under the names it uses itself but for a clash; moving is the     *)
(* component a behaviour belongs to.                                       *)
(***************************************************************************)
EXTENDS Naturals

CONSTANT None
VARIABLE moving

CONSTANTS Orgs, Workers, Grants, Backend, Faults
VARIABLES up, grants, policied, live, pc, stmt, left, loaded, result, stale, behind

grantVars == <<up, grants, policied, live, pc, stmt, left, loaded, result, stale, behind>>
G == INSTANCE GrantRefresh

CONSTANTS Logins, Roles, Passwords, HomeOrg
VARIABLES mode, profile, cipher, users, roles, at, order, contested

userVars == <<mode, profile, cipher, users, roles, at, order, contested>>
U == INSTANCE UserRouting WITH Names <- Logins, pc <- at, stmt <- order, raced <- contested

CONSTANTS
    Tenants, BootOrg, Names, Sources, OverViews, ReadOnly, Products, Sessions, Shared,
    StoreKind, StoreFaults, MaxStatements
VARIABLES stored, registry, tables, org, phase, begun, ddl, loose, skipped, raced, missed

viewVars == <<stored, registry, tables, org, phase, begun, ddl, loose, skipped, raced, missed>>
V == INSTANCE Views WITH
    Orgs <- Tenants, Configured <- Products, Backend <- StoreKind, Faults <- StoreFaults,
    live <- registry, pc <- phase, stmt <- ddl

CONSTANTS Events, Refusals, Configured, MaxEvents
VARIABLES governance, pending, sent, requests, answers, log, late

feedVars == <<governance, pending, sent, requests, answers, log, late>>
F == INSTANCE GovernanceFeed WITH NoEvent <- None, Faults <- Refusals

-----------------------------------------------------------------------------
(* The components' properties, under the names they have there.            *)

\* GrantRefresh: after GRANT or REVOKE reported success, the enforcer has
\* exactly the stored grants.
SuccessIsEnforced == moving = "grants" => G!SuccessIsEnforced

\* UserRouting: a session let in by a stored password runs for the organisation
\* that owns the user.
LoginFindsOwner == moving = "users" => U!LoginFindsOwner

\* Views: the startup swap leaves a session the views of its organisation.
IsolatedUnlessMissed == moving = "views" => V!IsolatedUnlessMissed

\* Views: a session is filled with the views the store has.
NewSessionsSeeStored == moving = "views" => V!NewSessionsSeeStored

\* Views: the rollback of CREATE VIEW leaves nothing in the store.
FailedCreateLeavesNothing == [][moving = "views" => V!FailedCreateStep]_viewVars

\* GovernanceFeed: the store holds what the platform was told it accepted.
AckedIsEnforced == moving = "feed" => F!AckedIsEnforced
=============================================================================
