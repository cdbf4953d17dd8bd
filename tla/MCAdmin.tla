------------------------------ MODULE MCAdmin ------------------------------
(***************************************************************************)
(* Admin for TLC.  The four components share no state, so an invariant of  *)
(* one cannot depend on the steps of another, and TLC explores their       *)
(* disjoint sum: moving is the component a behaviour belongs to.           *)
(***************************************************************************)
EXTENDS Admin, TLC

CONSTANTS s1, s2, w1, w2

vars == <<moving, grantVars, userVars, viewVars, feedVars>>

\* The view is a product of the config file too, in the boot organisation only.
MCProducts == [v |-> "c"]
Symmetry == Permutations({s1, s2}) \cup Permutations({w1, w2})

\* A tag the configuration defines and one it does not, as an event may name.
Tagged(t) == [table |-> "t", column |-> "c", tag |-> t]
Policy(id, t, action) == [id |-> id, tag |-> t, action |-> action]
MCConfigured ==
    [tags |-> {"pii"}, policies |-> {Policy(1, "pii", "hash")}, columns |-> {}, certifications |-> {}]
MCEvents ==
    [type : {"tag.assigned", "tag.removed"}, about : {Tagged("pii"), Tagged("typo")}]
        \cup [type : {"policy.upserted"}, about : {Policy(1, "pii", "null"), Policy(2, "typo", "hash")}]
        \cup [type : {"policy.deleted"}, about : {1}]
        \cup [type : {"certification.upserted", "certification.deleted"}, about : {"steward"}]

ASSUME AdminConstants == G!GrantConstants /\ U!UserConstants /\ V!ViewConstants /\ F!FeedConstants

\* A component that does not move has no state.
NoGrants ==
    /\ up = None /\ grants = None /\ policied = None /\ live = None /\ pc = None /\ stmt = None
    /\ left = None /\ loaded = None /\ result = None /\ stale = None /\ behind = None
NoUsers ==
    /\ mode = None /\ profile = None /\ cipher = None /\ users = None /\ roles = None
    /\ at = None /\ order = None /\ contested = None
NoViews ==
    /\ stored = None /\ registry = None /\ tables = None /\ org = None /\ phase = None
    /\ begun = None /\ ddl = None /\ loose = None /\ skipped = None /\ raced = None /\ missed = None
NoFeed ==
    /\ governance = None /\ pending = None /\ sent = None /\ requests = None
    /\ answers = None /\ log = None /\ late = None

Init ==
    \/ moving = "grants" /\ G!Init /\ NoUsers /\ NoViews /\ NoFeed
    \/ moving = "users" /\ U!Init /\ NoGrants /\ NoViews /\ NoFeed
    \/ moving = "views" /\ V!Init /\ NoGrants /\ NoUsers /\ NoFeed
    \/ moving = "feed" /\ F!Init /\ NoGrants /\ NoUsers /\ NoViews

Next ==
    /\ UNCHANGED moving
    /\ \/ moving = "grants" /\ G!Next /\ UNCHANGED <<userVars, viewVars, feedVars>>
       \/ moving = "users" /\ U!Next /\ UNCHANGED <<grantVars, viewVars, feedVars>>
       \/ moving = "views" /\ V!Next /\ UNCHANGED <<grantVars, userVars, feedVars>>
       \/ moving = "feed" /\ F!Next /\ UNCHANGED <<grantVars, userVars, viewVars>>

Spec == Init /\ [][Next]_vars
=============================================================================
