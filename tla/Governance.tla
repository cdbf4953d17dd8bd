----------------------------- MODULE Governance -----------------------------
(***************************************************************************)
(* What the rule store makes of the events of a governance platform        *)
(* (dataglot-policy, store.rs and tags.rs; dataglot-server, datahub.rs).   *)
(*                                                                         *)
(* A governance is [tags, policies, columns, certifications]: the tags the *)
(* configuration defines (no event adds one), the policies, each with its  *)
(* id, and the tags and certifications of columns as sets of bindings.     *)
(***************************************************************************)

IsGovernance(g) ==
    g = [tags |-> g.tags, policies |-> g.policies, columns |-> g.columns,
         certifications |-> g.certifications]

EventTypes ==
    {"tag.assigned", "tag.removed", "policy.upserted", "policy.deleted",
     "certification.upserted", "certification.deleted"}

\* Mutant: a policy of the same id stays beside the new one.
UpsertPolicy_Appends(policies, policy) == policies \cup {policy}
UpsertPolicy(policies, policy) == {p \in policies : p.id # policy.id} \cup {policy}

\* lower_payload and apply_change: an event, applied to the store.
ApplyEvent(g, e) ==
    CASE e.type = "tag.assigned" -> [g EXCEPT !.columns = @ \cup {e.about}]
      [] e.type = "tag.removed" -> [g EXCEPT !.columns = @ \ {e.about}]
      [] e.type = "policy.upserted" -> [g EXCEPT !.policies = UpsertPolicy(@, e.about)]
      [] e.type = "policy.deleted" -> [g EXCEPT !.policies = {p \in @ : p.id # e.about}]
      [] e.type = "certification.upserted" -> [g EXCEPT !.certifications = @ \cup {e.about}]
      [] e.type = "certification.deleted" -> [g EXCEPT !.certifications = @ \ {e.about}]

\* OrgGovernanceBuilder::build: policies and columns name tags that exist.
GovernanceBuilds(g) ==
    /\ \A p \in g.policies : p.tag \in g.tags
    /\ \A b \in g.columns : b.tag \in g.tags

\* InMemoryRuleStore::apply: a state that cannot be composed is rolled back.
ApplyOutcome(g, e) == LET new == ApplyEvent(g, e) IN IF GovernanceBuilds(new) THEN new ELSE g
=============================================================================
