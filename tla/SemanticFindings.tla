-------------------------- MODULE SemanticFindings --------------------------
(***************************************************************************)
(* What an examiner's answer is worth: the adapter that accepts it         *)
(* (ai4/constrain/semantic_examiner.py), the schema and the binding of     *)
(* findings to the candidate (semantic_findings.py), the packaged map that *)
(* turns classes into penalties (semantic_taxonomy.py) and the fuse        *)
(* (semantic_fuse.py).  Pure operators; penalties and caps in hundredths.  *)
(*                                                                         *)
(* A finding is [keys, id, class, bin, start, end, quote, code, signals];  *)
(* a quote is the excerpt its digest stands for and an id a number, in the *)
(* order of the names.  A payload is [form, keys, schema, status, findings,*)
(* pins, temperature]; keys is "exact", "smuggled" (a policy or shard name *)
(* anywhere in it) or "inexact".                                           *)
(***************************************************************************)
EXTENDS ShardScoring, Checks

CONSTANTS
    Absent,      \* no payload text
    Classes,     \* class_ids of the registry
    Codes,       \* observation_codes
    Signals,     \* injection_signal_codes
    LockedMap,   \* the packaged policy map: [caps, mappings]
    Candidate    \* the text judged, a sequence of letters

Bins == <<"low", "medium", "high">>
Rank(bin) == CHOOSE k \in DOMAIN Bins : Bins[k] = bin

Statuses == {"ok", "timeout", "schema_invalid", "backend_error", "injection_suspected", "empty_parse"}

Distinct(seq) == IsInjective(seq)

-----------------------------------------------------------------------------
(* The findings schema. *)

\* _parse_finding and _parse_span.
FindingRefusal(f) == FirstRefusal(<<
    Check(f.keys # "smuggled", "policy_field"),
    Check(f.keys = "exact", "fields"),
    Check(f.class \in Classes, "class"),
    Check(f.bin \in ToSet(Bins), "bin"),
    Check(f.start < f.end /\ f.start >= 0, "span"),
    Check(f.code \in Codes, "code"),
    Check(ToSet(f.signals) \subseteq Signals /\ Distinct(f.signals), "signal")>>)

Ids(findings) == [k \in DOMAIN findings |-> findings[k].id]

\* validate_semantic_findings.
PayloadRefusal(p) ==
    IF p.form # "object" THEN "malformed"
    ELSE FirstRefusal(<<
        Check(p.keys # "smuggled" /\ \A f \in ToSet(p.findings) : f.keys # "smuggled", "policy_field"),
        Check(p.keys = "exact", "fields"),
        Check(p.schema = "current", "schema"),
        Check(p.status \in Statuses, "status"),
        Check(p.status = "ok" \/ p.findings = << >>, "findings_of_failure"),
        Check(\A f \in ToSet(p.findings) : FindingRefusal(f) = "ok", "finding"),
        Check(Distinct(Ids(p.findings)), "duplicate_id"),
        Check(p.temperature = 0, "temperature")>>)

\* bind_semantic_findings: the span lies in this candidate and quotes it.
QuotesCandidate(f) ==
    /\ f.start < Len(Candidate) /\ f.end <= Len(Candidate)
    /\ f.quote = SubSeq(Candidate, f.start + 1, f.end)

BindRefusal(p) ==
    IF \A f \in ToSet(p.findings) : QuotesCandidate(f) THEN "ok" ELSE "quote"

\* claim_fingerprint_v1: the quote follows from the span.
Fingerprint(f) == <<f.class, f.start, f.end>>

-----------------------------------------------------------------------------
(* The adapter. *)

\* A result is [raises, status, payload].  The payload must echo the pins of the
\* request and agree with the status beside it.
AcceptRefusal(result) ==
    IF PayloadRefusal(result.payload) # "ok" THEN PayloadRefusal(result.payload)
    ELSE FirstRefusal(<<
        Check(result.payload.status = result.status, "status_disagrees"),
        Check(result.payload.pins = "echoed", "pins"),
        Check(BindRefusal(result.payload) = "ok", "quote")>>)

\* observe_semantic_candidate.
ObserveRefusal(result) ==
    IF result.raises THEN "backend"
    ELSE IF result.status \notin Statuses THEN "status"
    ELSE IF result.payload = Absent THEN IF result.status = "ok" THEN "no_payload" ELSE "ok"
    ELSE AcceptRefusal(result)

-----------------------------------------------------------------------------
(* The packaged map. *)

MappingRefusal(caps, mapping) == FirstRefusal(<<
    Check(mapping.shards # << >> /\ Distinct(mapping.shards), "shards"),
    Check(ToSet(mapping.shards) \subseteq Shards, "shard_name"),
    Check(DOMAIN mapping.deltas = ToSet(Bins), "bins"),
    Check(\A b \in ToSet(Bins) : DOMAIN mapping.deltas[b] = ToSet(mapping.shards), "overlay_shards"),
    Check(\A b \in ToSet(Bins), s \in ToSet(mapping.shards) : mapping.deltas[b][s] \in 0..caps[s], "penalty")>>)

\* validate_finding_policy_map_payload, and _index_policy_map again.
MapRefusal(map) == FirstRefusal(<<
    Check(DOMAIN map.caps = Shards /\ \A s \in Shards : map.caps[s] >= 0, "caps"),
    Check(DOMAIN map.mappings = Classes, "classes"),
    Check(\A c \in DOMAIN map.mappings : MappingRefusal(map.caps, map.mappings[c]) = "ok", "mapping")>>)

ASSUME LockedMapAssumption == MapRefusal(LockedMap) = "ok"

-----------------------------------------------------------------------------
(* The fuse. *)

\* Bug: every finding counts, repeated claim or not.
SurvivorsAll(findings) == ToSet(findings)

\* _dedupe_findings: of one claim, the most confident, then the first id.
Survivors(findings) ==
    {f \in ToSet(findings) : \A g \in ToSet(findings) :
        Fingerprint(g) = Fingerprint(f) =>
            \/ Rank(g.bin) < Rank(f.bin)
            \/ Rank(g.bin) = Rank(f.bin) /\ f.id <= g.id}

Penalty(f, s) ==
    LET deltas == LockedMap.mappings[f.class].deltas[f.bin] IN
    IF s \in DOMAIN deltas THEN deltas[s] ELSE 0

\* The penalties of the claims add up, at most to the cap of the shard.
Overlay(findings) ==
    [s \in Shards |->
        LET sum == SumFunction([f \in Survivors(findings) |-> Penalty(f, s)]) IN
        IF sum < LockedMap.caps[s] THEN sum ELSE LockedMap.caps[s]]

\* packaged_fuse_v2.
Fused(det, overlay) ==
    [s \in Shards |-> IF det[s] - overlay[s] < 0 THEN 0 ELSE det[s] - overlay[s]]

\* map_and_fuse_v2: map is what is installed.  Only the packaged bytes will do,
\* and those are valid.
FuseRefusal(map, findings) == FirstRefusal(<<
    Check(map = LockedMap, "map_digest"),
    Check(Distinct(Ids(findings)), "duplicate_id"),
    Check(\A f \in ToSet(findings) : f.class \in Classes, "class")>>)
=============================================================================
