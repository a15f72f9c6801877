--------------------------- MODULE HybridContext ---------------------------
(***************************************************************************)
(* From a GoverningIntegration and two live connections to the conclusion  *)
(* of hybrid_ready: origins, runtime provenance, separation of the roles,  *)
(* the identity snapshot and the gates (ai4/constrain/governing.py,        *)
(* _v07_3b/, _v07_3c/observe.py and ready.py).  Pure operators; what they  *)
(* judge is a setting:                                                     *)
(*   locked       artifacts whose pin is the packaged one                  *)
(*   allowlist    origins of the product allowlist                         *)
(*   proposer, examiner                                                    *)
(*                [provider, model, credential, origin, connection]: the   *)
(*                configured pin, the requested origin and the live object *)
(*   examinerId   examiner_id and version; evaluator: id and fingerprint   *)
(*   calls, completions                                                    *)
(*                max_examiner_calls, max_proposal_completions             *)
(* A connection is [id, origin, account, session, model], what the live    *)
(* object lets itself be observed as; an origin is [scheme, host, port,    *)
(* user] before it is made canonical.                                      *)
(***************************************************************************)
EXTENDS Naturals, Sequences, FiniteSets, Checks

CONSTANT None  \* an absent attribute, host, port, user or credential

PinnedRoles == {"proposer", "examiner"}
Artifacts == {"prompt", "registry", "policy_map", "fuse", "schema", "config"}
Observed == {"origin", "account", "session", "model"}

-----------------------------------------------------------------------------
(* Origins. *)

DefaultPort == [http |-> 80, https |-> 443]

OriginRefusal(o) == FirstRefusal(<<
    Check(o.scheme \in DOMAIN DefaultPort, "origin_allowlist_failure"),
    Check(o.user = None, "schema_invalid"),
    Check(o.host # None, "schema_invalid")>>)

\* scheme://host[:port], the port left out where it is the scheme's own.
Canonical(o) ==
    [scheme |-> o.scheme, host |-> o.host,
     port |-> IF o.port = DefaultPort[o.scheme] THEN None ELSE o.port]

\* The first entry that cannot be made canonical refuses the whole list.
AllowlistRefusal(origins) ==
    IF \A o \in origins : OriginRefusal(o) = "ok" THEN "ok"
    ELSE OriginRefusal(CHOOSE o \in origins : OriginRefusal(o) # "ok")

Allowlisted(o, origins) == \E a \in origins : Canonical(a) = Canonical(o)

-----------------------------------------------------------------------------
(* The configuration. *)

\* GoverningIntegration.validate: every pin is the packaged artifact.
Validated(s) == s.locked = Artifacts /\ s.calls >= 0 /\ s.completions >= 0

RequestedRefusal(s, role) ==
    LET o == s[role].origin IN
    IF OriginRefusal(o) # "ok" THEN OriginRefusal(o)
    ELSE IF Allowlisted(o, s.allowlist) THEN "ok" ELSE "origin_allowlist_failure"

\* HybridConfiguration.__post_init__: the allowlist, then both requested origins.
ConfigurationRefusal(s) ==
    IF AllowlistRefusal(s.allowlist) # "ok" THEN AllowlistRefusal(s.allowlist)
    ELSE IF RequestedRefusal(s, "proposer") # "ok" THEN RequestedRefusal(s, "proposer")
    ELSE RequestedRefusal(s, "examiner")

-----------------------------------------------------------------------------
(* Runtime provenance. *)

Observable(c) == \A point \in Observed : c[point] # None

\* bind_observed_transport: the peer is the requested origin and on the list.
TransportRefusal(s, role) ==
    LET peer == s[role].connection.origin IN
    IF OriginRefusal(peer) # "ok" THEN OriginRefusal(peer)
    ELSE IF Canonical(peer) = Canonical(s[role].origin) /\ Allowlisted(peer, s.allowlist)
         THEN "ok" ELSE "origin_allowlist_failure"

\* mint_runtime_provenance: both connections are observed before either is bound.
MintRefusal(s) ==
    IF \E role \in PinnedRoles : ~Observable(s[role].connection) THEN "provenance_mismatch"
    ELSE IF TransportRefusal(s, "proposer") # "ok" THEN TransportRefusal(s, "proposer")
    ELSE TransportRefusal(s, "examiner")

-----------------------------------------------------------------------------
(* Separation of the two roles; never called independence. *)

Same(s, field) == s.proposer[field] = s.examiner[field]

Disqualified(s) ==
    \/ Same(s, "provider") /\ Same(s, "model")
    \/ Same(s, "credential") /\ s.proposer.credential # None
    \/ s.proposer.connection.id = s.examiner.connection.id

Separated(s) == ~Disqualified(s) /\ ~Same(s, "provider") /\ ~Same(s, "model")

-----------------------------------------------------------------------------
(* The identity snapshot and the gates. *)

\* A connection as it is stamped: under its canonical peer origin.
Stamped(c) == [c EXCEPT !.origin = Canonical(c.origin)]

\* What a later run of the session must bring again; the object is not part of it.
Identity(s) ==
    [proposer |-> [p \in Observed |-> Stamped(s.proposer.connection)[p]],
     examiner |-> [p \in Observed |-> Stamped(s.examiner.connection)[p]],
     pin |-> <<s.examinerId, s.examiner.provider, s.examiner.model>>,
     evaluator |-> s.evaluator, calls |-> s.calls]

\* compute_ready_facts in the order of its gates; none of the budget is used
\* when it is asked.
FailedGate(s, evidence, everOn, late) == FirstRefusal(<<
    Check("prompt" \in s.locked, "locked_observation_prompt_hash"),
    Check("registry" \in s.locked, "locked_registry_hash"),
    Check("policy_map" \in s.locked, "locked_policy_map_hash"),
    Check("fuse" \in s.locked, "fuse_id_match"),
    Check("schema" \in s.locked, "semantic_schema_version_match"),
    Check("config" \in s.locked, "semantic_config_version_match"),
    Check(Separated(s), "operational_separation_minimum"),
    Check(\A role \in PinnedRoles : Observable(s[role].connection), "runtime_observed_provenance"),
    Check(evidence => everOn, "continuity_compatible"),
    Check(~late, "wall_clock_deadline_valid"),
    Check(s.calls > 0, "examiner_call_budget_available"),
    Check(s.completions > 0, "proposal_completion_budget_available")>>)

Ready(s, evidence, everOn, late) == FailedGate(s, evidence, everOn, late) = "ok"
=============================================================================
