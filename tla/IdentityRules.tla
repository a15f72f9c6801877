--------------------------- MODULE IdentityRules ---------------------------
(***************************************************************************)
(* What ai4/identity decides about its records: the schemas, the signing   *)
(* and verifying of attestations and rotations, trust, the binding to a    *)
(* report, and discovery.  Pure operators.                                 *)
(*                                                                         *)
(* RFC 8785 and SHA-256 tell any two records apart, so a record stands for *)
(* its own hash.  A record carries the key that signed it as it stands,    *)
(* None where no key did: then Ed25519 fails under every key.  What is     *)
(* wrong with the form of a record is its field shape, else "ok".          *)
(***************************************************************************)
EXTENDS Integers, Sequences, FiniteSets, Checks

CONSTANTS
    None,
    Ids,         \* identity ids that are well formed and no wallet address
    Keys,        \* hex texts of 32 bytes
    MaxVersion   \* 2^53 - 1

ASSUME IdentityAssumption == MaxVersion \in Nat \ {0} /\ None \notin Ids \cup Keys

-----------------------------------------------------------------------------
(* Schemas (schemas.py, timeutil.py). *)

Window(r) == r.issued < r.expires
IsExpired(r, now) == now >= r.expires
IsNotYetValid(r, now) == now < r.issued

\* AgentIdentity.from_dict, with the checks of its name records.
IdentityRefusal(i) == FirstRefusal(<<
    Check(i.shape = "ok", i.shape),
    Check(i.id \in Ids, "identity_id"),
    Check(i.key \in Keys, "controller_public_key"),
    Check(i.version \in 1..MaxVersion, "manifest_version"),
    Check(Window(i), "window"),
    Check(\A n \in i.names : n.source = "local_snapshot", "name_record.source"),
    Check(\A n \in i.names : n.subject = i.id, "name_record.subject_id"),
    Check(\A n \in i.names : n.key = i.key, "name_record.controller_public_key")>>)

\* RotationAttestation.from_dict.
RotationRefusal(r) == FirstRefusal(<<
    Check(r.shape = "ok", r.shape),
    Check({r.previous.key, r.next.key} \subseteq Keys, "controller_public_key"),
    Check(r.previous.key # r.next.key, "same_key"),
    Check({r.previous.version, r.next.version} \subseteq 1..MaxVersion, "manifest_version"),
    Check(r.next.version > r.previous.version, "monotonic"),
    Check(Window(r), "window"),
    Check(r.id \in Ids, "identity_id")>>)

\* AgentAttestation.from_dict.
AttestationRefusal(a) ==
    IF a.shape # "ok" THEN a.shape
    ELSE IF IdentityRefusal(a.identity) # "ok" THEN IdentityRefusal(a.identity)
    ELSE IF ~Window(a) THEN "window"
    ELSE IF a.rotation # None /\ RotationRefusal(a.rotation) # "ok" THEN RotationRefusal(a.rotation)
    ELSE FirstRefusal(<<
        Check(a.rotation = None \/ a.rotation.id = a.identity.id, "rotation_identity_id"),
        Check((a.report = None) = (a.profile = None), "report_and_profile"),
        Check(a.algorithm = "ed25519", "signature_algorithm")>>)

-----------------------------------------------------------------------------
(* Trust (trust.py). *)

\* What a rotation and a TrustContext say of an identity.
Hold(identity) == [key |-> identity.key, version |-> identity.version, hash |-> identity]

Trust(id, hold) == [id |-> id, key |-> hold.key, version |-> hold.version, hash |-> hold.hash]

FromIdentity(identity) == Trust(identity.id, Hold(identity))

\* sign_rotation: the refusal, and the record the previous key signs.
SignRotationRefusal(old, new, key, window) == FirstRefusal(<<
    Check(old.id = new.id, "identity_id"),
    Check(new.version > old.version, "monotonic"),
    Check(new.key # old.key, "same_key"),
    Check(key = old.key, "private_key"),
    Check(Window(window), "window")>>)

SignRotation(old, new, window) ==
    [shape |-> "ok", id |-> old.id, previous |-> Hold(old), next |-> Hold(new),
     issued |-> window.issued, expires |-> window.expires, by |-> old.key]

\* Bug: any hold of the key will do, not the one the rotation was signed in.
VerifyRotationOfAnyReign(r, trust, successor, now) == FirstRefusal(<<
    Check(~IsNotYetValid(r, now), "rotation_not_yet_valid"),
    Check(~IsExpired(r, now), "rotation_expired"),
    Check(r.id = trust.id, "rotation_identity_id"),
    Check(r.previous.key = trust.key, "rotation_previous"),
    Check(r.next.version > trust.version, "rotation_monotonic"),
    Check(successor = None \/ FromIdentity(successor) = Trust(r.id, r.next), "rotation_successor"),
    Check(r.by = r.previous.key, "rotation_signature")>>)

\* verify_rotation; successor is None where the caller names none.
VerifyRotation(r, trust, successor, now) == FirstRefusal(<<
    Check(~IsNotYetValid(r, now), "rotation_not_yet_valid"),
    Check(~IsExpired(r, now), "rotation_expired"),
    Check(r.id = trust.id, "rotation_identity_id"),
    Check(Trust(r.id, r.previous) = trust, "rotation_previous"),
    Check(r.next.version > trust.version, "rotation_monotonic"),
    Check(successor = None \/ FromIdentity(successor) = Trust(r.id, r.next), "rotation_successor"),
    Check(r.by = r.previous.key, "rotation_signature")>>)

\* Bug: the last clause of assert_current_trust is missing.
CurrentTrustWithoutHash(identity, trust) ==
    IF [FromIdentity(identity) EXCEPT !.hash = trust.hash] = trust THEN "ok" ELSE "not_current"

\* assert_current_trust.
CurrentTrust(identity, trust) == IF FromIdentity(identity) = trust THEN "ok" ELSE "not_current"

-----------------------------------------------------------------------------
(* Attestations (attestation.py) and their binding to a report (binding.py). *)

\* sign_attestation: the refusal, and the record signed.  A report is bound by
\* its digest and the profile of its versions; None binds none.
SignAttestationRefusal(identity, key, window, rotation) == FirstRefusal(<<
    Check(key = identity.key, "private_key"),
    Check(Window(window), "window"),
    Check(rotation = None \/ rotation.id = identity.id, "rotation_identity_id"),
    Check(rotation = None \/ rotation.next = Hold(identity), "rotation_successor")>>)

SignAttestation(identity, window, report, rotation) ==
    [shape |-> "ok", identity |-> identity, hash |-> identity,
     issued |-> window.issued, expires |-> window.expires,
     report |-> report, profile |-> IF report = None THEN None ELSE report.profile,
     rotation |-> rotation, algorithm |-> "ed25519", by |-> identity.key]

\* verify_attestation_signature: the window comes before hash and signature.
VerifySignature(a, now) == FirstRefusal(<<
    Check(~IsNotYetValid(a, now) /\ ~IsNotYetValid(a.identity, now), "not_yet_valid"),
    Check(~IsExpired(a, now) /\ ~IsExpired(a.identity, now), "expired"),
    Check(a.hash = a.identity, "manifest_hash"),
    Check(a.by = a.identity.key, "signature")>>)

\* verify_attestation after the signature: an accepted rotation moves the trust
\* for this one call.
VerifyCurrent(a, trust, now) ==
    IF a.rotation = None THEN CurrentTrust(a.identity, trust)
    ELSE IF VerifyRotation(a.rotation, trust, a.identity, now) # "ok"
         THEN VerifyRotation(a.rotation, trust, a.identity, now)
    ELSE CurrentTrust(a.identity, Trust(a.rotation.id, a.rotation.next))

\* The words the code looks for in a message.
SaysExpired(message) == message \in {"expired", "rotation_expired"}
SaysWindow(message) == SaysExpired(message) \/ message \in {"not_yet_valid", "rotation_not_yet_valid"}

\* verify_report_binding between its signature check and its trust check.
Comparison(a, report, trust) ==
    IF a.report = None THEN "unbound"
    ELSE IF a.report # report THEN "mismatch"
    ELSE IF report.fault = "versions" THEN "versions"
    ELSE IF a.profile # report.profile THEN "mismatch"
    ELSE IF trust = None THEN "untrusted_signer" ELSE "ok"

UntrustedOrExpired(message) == IF SaysExpired(message) THEN "expired" ELSE "untrusted_signer"

-----------------------------------------------------------------------------
(* Discovery (resolve/pipeline.py, file_resolver.py, fetch.py). *)

\* normalize_ai4_name on a lower-cased name.
NameRefusal(name) == IF name \in {"not_ascii", "punycode", "not_ai4", "empty_label"} THEN name ELSE "ok"

\* _load_fixture_file, on the payload of a records file, None where there is none.
FileRefusal(f) ==
    IF f = None THEN "unresolved" ELSE IF f.shape \in {"size", "not_json", "fields"} THEN f.shape ELSE "ok"

\* FileResolver.resolve, with validate_raw_records.
PayloadRefusal(f, name) ==
    IF FileRefusal(f) # "ok" THEN FileRefusal(f)
    ELSE IF f.name \notin {None, name} THEN "records_name" ELSE f.shape

\* captured_at_for.
CapturedRefusal(f) ==
    IF FileRefusal(f) # "ok" THEN FileRefusal(f) ELSE IF f.captured = None THEN "captured_at" ELSE "ok"

\* discovery_from_records; maxAge is None where no limit was given, and form is
\* the record that is no SHA-256, else "ok".
DiscoveryRefusal(records, captured, now, maxAge) == FirstRefusal(<<
    Check(records.key # None /\ records.manifest # None, "missing_keys"),
    Check(records.id \in Ids \cup {None}, "identity_id"),
    Check(records.form # "attestation_sha256", records.form),
    Check(captured <= now, "future"),
    Check(maxAge = None \/ maxAge >= 0, "max_age"),
    Check(maxAge = None \/ now - captured <= maxAge, "stale"),
    Check(records.key \in Keys, "controller_public_key"),
    Check(records.form = "ok", records.form)>>)

\* LocalFileFetcher on the locative of the records.
FetchRefusal(uri, bytes) == FirstRefusal(<<
    Check(uri # None, "no_uri"),
    Check(uri # "network", "network"),
    Check(uri # "outside", "escapes"),
    Check(bytes # None, "not_found"),
    Check(bytes = None \/ bytes.shape # "size", "size")>>)

\* bind_discovery_to_attestation; bytes that are no JSON have the shape not_json.
BindRefusal(name, records, bytes) ==
    IF records.sha # None /\ records.sha # bytes THEN "raw_sha256"
    ELSE IF AttestationRefusal(bytes) # "ok" THEN AttestationRefusal(bytes)
    ELSE FirstRefusal(<<
        Check(bytes.identity = records.manifest, "manifest_sha256"),
        Check(bytes.hash = records.manifest, "attestation_manifest_hash"),
        Check(bytes.identity.key = records.key, "published_key"),
        Check(records.id \in {None, bytes.identity.id}, "published_identity_id"),
        Check(\E n \in bytes.identity.names : n.name = name, "name_records")>>)
=============================================================================
