------------------------ MODULE IdentityVerifyProofs ------------------------
(***************************************************************************)
(* What IdentityVerify guarantees for every set of command lines, files,   *)
(* rotations and pinned trusts.                                            *)
(*                                                                         *)
(* Versions only grow from one pinned trust to the next, so what was left  *)
(* has a smaller version than the trust a run is given.  A record that is  *)
(* being looked at has been parsed; what was found of it once, at a clock  *)
(* that has passed since, is stated without the clock.                     *)
(***************************************************************************)
EXTENDS IdentityVerify, WellFoundedInduction, TLAPS

Versioned(t) == t.version \in Int

\* What the verifier has left is older than what it pins, or gave to the run.
PinInv ==
    /\ Versioned(pin)
    /\ \A t \in past : Versioned(t) /\ t.version < pin.version
    /\ pc # "start" =>
         /\ trust # None => Versioned(trust)
         /\ \A t \in left : Versioned(t) /\ (trust # None => t.version < trust.version)

ClockInv == now \in Nat /\ begun \in Nat /\ begun <= now

FilesInv ==
    /\ command \in Commands /\ payload \in Payloads /\ bytes \in Contents
    /\ loaded \in Payloads \cup {None}

\* The steps after the attestation was read.
Verifying == {"signature", "trust", "current", "compare", "bind_trust", "bind_current"}

Fresh ==
    ~command.directory /\ command.maxAge # None =>
        /\ first.payload.captured <= first.at
        /\ begun - first.payload.captured <= command.maxAge

\* The records come from the payload kept, and are as fresh as they were to be.
FoundInv ==
    /\ pc \in {"records", "captured", "fetch"} => first.at \in Nat /\ begun <= first.at
    /\ pc \in {"captured", "fetch"} => (~command.directory => first.payload = loaded)
    /\ pc \in {"fetch"} \cup Verifying \/ status.name = "yes" => Fresh

\* The signature was checked while the record was in its window.
Checked ==
    /\ read.issued <= now /\ begun < read.expires /\ begun < read.identity.expires
    /\ read.by = read.identity.key /\ read.hash = read.identity

\* The record is what the trust names, or what its holder signed its key over to.
Current ==
    /\ trust # None
    /\ FromIdentity(read.identity) # trust => HandedOver /\ read.identity.version > trust.version

Answers == {"yes", "no", "not_requested"}
Verdicts == Answers \cup {"unbound", "mismatch", "expired", "untrusted_signer"}
Statuses == [name : Answers, integrity : Answers, signature : Answers, trust : Answers,
             binding : Verdicts]

StatusInv ==
    /\ status \in Statuses
    /\ pc \in {"start", "resolve", "records", "captured", "fetch", "signature"} =>
         status.name = "no" /\ status.trust # "yes"
    /\ status.trust = "yes" => Current

\* What is known of the record while it is compared with trust and report.
Parsed == read \in Contents \ {None} /\ read.shape = "ok"

VerifyInv ==
    /\ pc \in Verifying => Parsed
    /\ pc \in Verifying \ {"signature"} => Checked /\ status.binding \in {"no", "not_requested"}
    /\ pc \in {"trust", "current"} => trust # None
    /\ pc \in {"bind_trust", "bind_current"} =>
         trust # None /\ command.report # None /\ read.report = command.report

\* What exit code 0 comes to where something was asked.
Granted ==
    /\ Parsed /\ Checked
    /\ command.trust => Current
    /\ command.report # None => read.report = command.report /\ trust # None

Asked == command.command = "verify" /\ (command.trust \/ command.report # None)
ZeroInv == Ended /\ exit = 0 /\ Asked => Granted

IInv == PinInv /\ ClockInv /\ FilesInv /\ FoundInv /\ StatusInv /\ VerifyInv /\ ZeroInv
-----------------------------------------------------------------------------
(* Checks. *)

LEMMA HasMin ==
    ASSUME NEW S \in SUBSET Nat, S # {}
    PROVE  \E m \in S : \A n \in S : m <= n
<1> DEFINE Less == {ss \in Nat \X Nat : ss[1] < ss[2]}
<1>1. IsWellFoundedOn(Less, Nat)
  BY NatLessThanWellFounded DEF OpToRel
<1>2. PICK m \in S : \A n \in S : <<n, m>> \notin Less
  BY <1>1, WFMin
<1>3. ASSUME NEW n \in S PROVE m <= n
  <2>1. ~(n < m)
    BY <1>2
  <2> QED BY <2>1
<1> QED BY <1>3

\* Nothing is refused only if every check holds.
LEMMA NoneRefused ==
    ASSUME NEW checks, DOMAIN checks \subseteq Nat, FirstRefusal(checks) = "ok",
           \A i \in DOMAIN checks : ~checks[i].holds => checks[i].refusal # "ok"
    PROVE  \A i \in DOMAIN checks : checks[i].holds
<1> DEFINE failed == FailedChecks(checks)
<1>1. ASSUME failed # {} PROVE FALSE
  <2>1. \E m \in failed : \A n \in failed : m <= n
    BY <1>1, HasMin DEF FailedChecks
  <2>2. (CHOOSE i \in failed : \A j \in failed : i <= j) \in failed
    BY <2>1
  <2> QED BY <1>1, <2>2 DEF FirstRefusal, FailedChecks
<1> QED BY <1>1 DEF FailedChecks

\* A rotation that parses has versions.
LEMMA RotationVersions ==
    ASSUME NEW r, RotationRefusal(r) = "ok"
    PROVE  r.next.version \in Int
<1> DEFINE checks == <<
        Check(r.shape = "ok", r.shape),
        Check({r.previous.key, r.next.key} \subseteq Keys, "controller_public_key"),
        Check(r.previous.key # r.next.key, "same_key"),
        Check({r.previous.version, r.next.version} \subseteq 1..MaxVersion, "manifest_version"),
        Check(r.next.version > r.previous.version, "monotonic"),
        Check(Window(r), "window"),
        Check(r.id \in Ids, "identity_id")>>
<1>1. \A i \in 1..7 : ~checks[i].holds => checks[i].refusal # "ok"
  <2>1. checks[1].refusal = r.shape /\ (checks[1].holds <=> r.shape = "ok")
    BY DEF Check
  <2>2. \A i \in 2..7 : checks[i].refusal # "ok"
    BY DEF Check
  <2> HIDE DEF checks
  <2> QED BY <2>1, <2>2
<1>2. DOMAIN checks = 1..7 /\ FirstRefusal(checks) = "ok"
  BY DEF RotationRefusal
<1>3. checks[4].holds <=> {r.previous.version, r.next.version} \subseteq 1..MaxVersion
  BY DEF Check
<1> HIDE DEF checks
<1>4. {r.previous.version, r.next.version} \subseteq 1..MaxVersion
  BY <1>1, <1>2, <1>3, NoneRefused
<1> QED BY <1>4

\* A rotation that is followed was signed by the holder of the trust, and leads on.
LEMMA RotationFollows ==
    ASSUME NEW r, NEW t, NEW s, NEW when, VerifyRotation(r, t, s, when) = "ok"
    PROVE  /\ r.id = t.id /\ Trust(r.id, r.previous) = t /\ r.next.version > t.version
           /\ r.by = r.previous.key
<1> DEFINE checks == <<
        Check(~IsNotYetValid(r, when), "rotation_not_yet_valid"),
        Check(~IsExpired(r, when), "rotation_expired"),
        Check(r.id = t.id, "rotation_identity_id"),
        Check(Trust(r.id, r.previous) = t, "rotation_previous"),
        Check(r.next.version > t.version, "rotation_monotonic"),
        Check(s = None \/ FromIdentity(s) = Trust(r.id, r.next), "rotation_successor"),
        Check(r.by = r.previous.key, "rotation_signature")>>
<1>1. \A i \in 1..7 : checks[i].refusal # "ok"
  BY DEF Check
<1>2. DOMAIN checks = 1..7 /\ FirstRefusal(checks) = "ok"
  BY DEF VerifyRotation
<1>3. /\ checks[3].holds <=> r.id = t.id
      /\ checks[4].holds <=> Trust(r.id, r.previous) = t
      /\ checks[5].holds <=> r.next.version > t.version
      /\ checks[7].holds <=> r.by = r.previous.key
  BY DEF Check
<1> HIDE DEF checks
<1> QED BY <1>1, <1>2, <1>3, NoneRefused

\* A signature that is not refused was made by the record's own key, while the
\* record was in its window.
LEMMA SignatureHolds ==
    ASSUME IInv, Parsed, VerifySignature(read, now) = "ok"
    PROVE  Checked
<1> DEFINE checks == <<
        Check(~IsNotYetValid(read, now) /\ ~IsNotYetValid(read.identity, now), "not_yet_valid"),
        Check(~IsExpired(read, now) /\ ~IsExpired(read.identity, now), "expired"),
        Check(read.hash = read.identity, "manifest_hash"),
        Check(read.by = read.identity.key, "signature")>>
<1>1. \A i \in 1..4 : checks[i].refusal # "ok"
  BY DEF Check
<1>2. DOMAIN checks = 1..4 /\ FirstRefusal(checks) = "ok"
  BY DEF VerifySignature
<1>3. /\ checks[1].holds => ~IsNotYetValid(read, now)
      /\ checks[2].holds => ~IsExpired(read, now) /\ ~IsExpired(read.identity, now)
      /\ checks[3].holds <=> read.hash = read.identity
      /\ checks[4].holds <=> read.by = read.identity.key
  BY DEF Check
<1> HIDE DEF checks
<1>4. /\ ~IsNotYetValid(read, now) /\ ~IsExpired(read, now) /\ ~IsExpired(read.identity, now)
      /\ read.hash = read.identity /\ read.by = read.identity.key
  BY <1>1, <1>2, <1>3, NoneRefused
<1>5. {read.issued, read.expires, read.identity.expires} \subseteq Int
  BY VerifyAssumption DEF Parsed
<1>6. now \in Nat /\ begun \in Nat /\ begun <= now
  BY DEF IInv, ClockInv
<1> QED BY <1>4, <1>5, <1>6 DEF IsNotYetValid, IsExpired, Checked

\* A record that is found current is what the trust names or led to.
LEMMA TrustHolds ==
    ASSUME trust # None, NEW when, VerifyCurrent(read, trust, when) = "ok"
    PROVE  Current
<1>1. CASE read.rotation = None
  BY <1>1 DEF VerifyCurrent, CurrentTrust, Current
<1>2. CASE read.rotation # None
  <2>1. VerifyRotation(read.rotation, trust, read.identity, when) = "ok"
    BY <1>2 DEF VerifyCurrent
  <2>2. FromIdentity(read.identity) = Trust(read.rotation.id, read.rotation.next)
    BY <1>2, <2>1 DEF VerifyCurrent, CurrentTrust
  <2>3. /\ Trust(read.rotation.id, read.rotation.previous) = trust
        /\ read.rotation.next.version > trust.version /\ read.rotation.by = read.rotation.previous.key
    BY <2>1, RotationFollows
  <2>4. read.identity.version = read.rotation.next.version
    BY <2>2 DEF FromIdentity, Trust, Hold
  <2>5. trust.key = read.rotation.previous.key
    BY <2>3 DEF Trust
  <2> QED BY <1>2, <2>2, <2>3, <2>4, <2>5 DEF Current, HandedOver
<1> QED BY <1>1, <1>2

\* Records that are discovered are as fresh as they were to be.
LEMMA DiscoveryHolds ==
    ASSUME NEW records, NEW captured, NEW when, NEW maxAge,
           DiscoveryRefusal(records, captured, when, maxAge) = "ok"
    PROVE  captured <= when /\ (maxAge # None => when - captured <= maxAge)
<1> DEFINE checks == <<
        Check(records.key # None /\ records.manifest # None, "missing_keys"),
        Check(records.id \in Ids \cup {None}, "identity_id"),
        Check(records.form # "attestation_sha256", records.form),
        Check(captured <= when, "future"),
        Check(maxAge = None \/ maxAge >= 0, "max_age"),
        Check(maxAge = None \/ when - captured <= maxAge, "stale"),
        Check(records.key \in Keys, "controller_public_key"),
        Check(records.form = "ok", records.form)>>
<1>1. \A i \in 1..8 : ~checks[i].holds => checks[i].refusal # "ok"
  <2>1. checks[3].refusal = records.form /\ (checks[3].holds <=> records.form # "attestation_sha256")
    BY DEF Check
  <2>2. checks[8].refusal = records.form /\ (checks[8].holds <=> records.form = "ok")
    BY DEF Check
  <2>3. \A i \in 1..8 \ {3, 8} : checks[i].refusal # "ok"
    BY DEF Check
  <2> HIDE DEF checks
  <2> QED BY <2>1, <2>2, <2>3
<1>2. DOMAIN checks = 1..8 /\ FirstRefusal(checks) = "ok"
  BY DEF DiscoveryRefusal
<1>3. /\ checks[4].holds <=> captured <= when
      /\ checks[6].holds <=> (maxAge = None \/ when - captured <= maxAge)
  BY DEF Check
<1> HIDE DEF checks
<1> QED BY <1>1, <1>2, <1>3, NoneRefused

\* Bytes that are fetched and bound are a record that parses.
LEMMA FetchHolds ==
    ASSUME NEW name, NEW records, NEW b, FetchRefusal(records.uri, b) = "ok",
           BindRefusal(name, records, b) = "ok"
    PROVE  b # None /\ b.shape = "ok"
<1> DEFINE uri == records.uri
           checks == <<
        Check(uri # None, "no_uri"),
        Check(uri # "network", "network"),
        Check(uri # "outside", "escapes"),
        Check(b # None, "not_found"),
        Check(b = None \/ b.shape # "size", "size")>>
<1>1. \A i \in 1..5 : checks[i].refusal # "ok"
  BY DEF Check
<1>2. DOMAIN checks = 1..5 /\ FirstRefusal(checks) = "ok"
  BY DEF FetchRefusal
<1>3. checks[4].holds <=> b # None
  BY DEF Check
<1> HIDE DEF checks
<1>4. b # None
  BY <1>1, <1>2, <1>3, NoneRefused
<1>5. AttestationRefusal(b) = "ok"
  BY DEF BindRefusal
<1> QED BY <1>4, <1>5 DEF AttestationRefusal

-----------------------------------------------------------------------------
(* Steps. *)

\* The clock passes and a file is replaced while the run stands.
LEMMA WorldStep ==
    ASSUME IInv, UNCHANGED <<verifier, pc, given, first, read, status, detail, exit>>,
           now' \in Nat, now <= now', payload' \in Payloads, bytes' = bytes
    PROVE  IInv'
<1>1. UNCHANGED <<pin, past, pc, command, trust, left, begun, loaded, first, read, status, exit>>
  BY DEF verifier, given
<1>2. now \in Nat /\ begun \in Nat /\ begun <= now
  BY DEF IInv, ClockInv
<1>3. Parsed /\ Checked => Parsed' /\ Checked'
  <2> SUFFICES ASSUME Parsed, Checked PROVE read.issued <= now'
    BY <1>1 DEF Parsed, Checked
  <2>1. read.issued \in Int /\ read.issued <= now
    BY VerifyAssumption DEF Parsed, Checked
  <2> QED BY <1>2, <2>1
<1>4. PinInv' /\ ClockInv' /\ FilesInv'
  BY <1>1, <1>2 DEF IInv, PinInv, ClockInv, FilesInv, Versioned
<1>5. FoundInv'
  BY <1>1 DEF IInv, FoundInv, Fresh
<1>6. StatusInv' /\ (Current <=> Current')
  BY <1>1 DEF IInv, StatusInv, Current, HandedOver
<1>7. VerifyInv'
  BY <1>1, <1>3 DEF IInv, VerifyInv, Parsed, Verifying
<1>8. ZeroInv'
  BY <1>1, <1>3, <1>6 DEF IInv, ZeroInv, Granted, Asked, Ended
<1> QED BY <1>4, <1>5, <1>6, <1>7, <1>8 DEF IInv

\* What a step of the run leaves alone.
Same == UNCHANGED <<world, verifier, command, trust, left, begun, loaded>>

LEMMA RunStep ==
    ASSUME IInv, Same, pc # "start", pc' # "start", FoundInv', StatusInv', VerifyInv', ZeroInv'
    PROVE  IInv'
<1>1. UNCHANGED <<now, payload, bytes, pin, past, command, trust, left, begun, loaded>>
  BY DEF Same, world, verifier
<1> QED BY <1>1 DEF IInv, PinInv, ClockInv, FilesInv, Versioned

\* An end says what was found.
LEMMA EndStep ==
    ASSUME IInv, Same, pc # "start", UNCHANGED <<first, read>>,
           NEW s \in Statuses, NEW message, End(s, message),
           s.name = "yes" => Fresh, s.trust = "yes" => Current,
           ExitCode(command, s, message) = 0 /\ Asked => Granted
    PROVE  IInv'
<1>1. UNCHANGED <<now, command, trust, begun, loaded, first, read>>
  BY DEF Same, world
<1>2. pc' = "ended" /\ status' = s /\ exit' = ExitCode(command, s, message)
  BY DEF End
<1>3. FoundInv'
  BY <1>1, <1>2 DEF FoundInv, Fresh, Verifying
<1>4. StatusInv'
  BY <1>1, <1>2 DEF StatusInv, Current, HandedOver
<1>5. VerifyInv'
  BY <1>2 DEF VerifyInv, Verifying
<1>6. ZeroInv'
  BY <1>1, <1>2 DEF ZeroInv, Granted, Asked, Parsed, Checked, Current, HandedOver
<1> QED BY <1>2, <1>3, <1>4, <1>5, <1>6, RunStep

LEMMA StatusIs ==
    ASSUME NEW n \in Answers, NEW i \in Answers, NEW g \in Answers, NEW t \in Answers, NEW b \in Verdicts
    PROVE  LET s == StatusOf(n, i, g, t, b) IN
           s \in Statuses /\ s.name = n /\ s.integrity = i /\ s.signature = g /\ s.trust = t /\ s.binding = b
BY DEF StatusOf, Statuses

LEMMA RequestedIs == ASSUME NEW on PROVE Requested(on) \in {"no", "not_requested"}
BY DEF Requested

LEMMA AnswersAre ==
    {"yes", "no", "not_requested"} \subseteq Answers /\ {"no", "not_requested"} \subseteq Verdicts
BY DEF Answers, Verdicts

\* A run that ends without an integral record does not exit with 0.
LEMMA NotIntegralStep ==
    ASSUME IInv, Same, pc # "start", UNCHANGED <<first, read>>,
           NEW s \in {Failed, Unresolved, NotIntegral}, NEW message, End(s, message),
           s.name = "yes" => Fresh
    PROVE  IInv'
<1>1. /\ Requested(trust # None) \in {"no", "not_requested"}
      /\ Requested(command.report # None) \in {"no", "not_requested"}
      /\ Requested(command.command = "verify") \in {"no", "not_requested"}
  BY RequestedIs
<1>2. s \in Statuses /\ s.integrity = "no" /\ s.trust # "yes"
  <2>1. CASE s = Failed
    BY <2>1, StatusIs, AnswersAre DEF Failed
  <2>2. CASE s = Unresolved
    BY <1>1, <2>2, StatusIs, AnswersAre DEF Unresolved
  <2>3. CASE s = NotIntegral
    BY <1>1, <2>3, StatusIs, AnswersAre DEF NotIntegral
  <2> QED BY <2>1, <2>2, <2>3
<1>3. ExitCode(command, s, message) = 1
  BY <1>2 DEF ExitCode
<1> QED BY <1>2, <1>3, EndStep

LEMMA FailedIs == Failed \in Statuses /\ Failed.name = "no" /\ Failed.trust # "yes"
BY DEF Failed, StatusOf, Statuses, Answers, Verdicts

LEMMA BeginStep == ASSUME IInv, Begin PROVE IInv'
<1>1. /\ pc = "start" /\ UNCHANGED <<now, payload, bytes, pin, past, command, first, read>>
      /\ begun' = now /\ left' = past /\ loaded' \in {None, payload} /\ trust' \in {pin, None}
  BY DEF Begin, world, verifier
<1>2. PinInv' /\ ClockInv' /\ FilesInv'
  <2>1. PinInv /\ ClockInv /\ FilesInv
    BY DEF IInv
  <2>2. PinInv'
    BY <1>1, <2>1 DEF PinInv, Versioned
  <2>3. ClockInv' /\ FilesInv'
    BY <1>1, <2>1 DEF ClockInv, FilesInv
  <2> QED BY <2>2, <2>3
<1>3. status.name = "no" /\ status.trust # "yes" /\ status \in Statuses
  BY <1>1 DEF IInv, StatusInv
<1>4. CASE pc' = "resolve" /\ status' = status
  BY <1>2, <1>3, <1>4 DEF IInv, FoundInv, StatusInv, VerifyInv, ZeroInv, Ended, Verifying
<1>5. CASE \E message : End(Failed, message)
  <2>1. pc' = "ended" /\ status' = Failed /\ exit' = 1
    BY <1>1, <1>5, FailedIs DEF End, ExitCode
  <2> QED BY <1>2, <2>1, FailedIs
          DEF IInv, FoundInv, StatusInv, VerifyInv, ZeroInv, Verifying
<1> QED BY <1>4, <1>5 DEF Begin

LEMMA ResolveStep == ASSUME IInv, Resolve PROVE IInv'
<1>1. pc = "resolve" /\ Same /\ read' = read
  BY DEF Resolve, Same, given
<1>2. CASE \E message : End(Unresolved, message) /\ first' = first
  <2>1. PICK message : End(Unresolved, message) /\ first' = first
    BY <1>2
  <2>2. Unresolved.name = "no"
    BY DEF Unresolved, StatusOf
  <2> QED BY <1>1, <2>1, <2>2, NotIntegralStep
<1>3. CASE /\ first' = [payload |-> None, at |-> now]
           /\ pc' = "records" /\ UNCHANGED <<status, detail, exit>>
  <2>1. now \in Nat /\ begun <= now
    BY DEF IInv, ClockInv
  <2>2. FoundInv'
    BY <1>1, <1>3, <2>1 DEF IInv, FoundInv, StatusInv, Verifying, Same
  <2>3. StatusInv' /\ VerifyInv' /\ ZeroInv'
    BY <1>1, <1>3 DEF IInv, StatusInv, VerifyInv, Verifying, ZeroInv, Ended
  <2> QED BY <1>1, <1>3, <2>2, <2>3, RunStep
<1> QED BY <1>2, <1>3 DEF Resolve

LEMMA RecordsStep == ASSUME IInv, Records PROVE IInv'
<1>1. pc = "records" /\ Same /\ read' = read
  BY DEF Records, Same, given
<1>2. CASE \E message : End(Unresolved, message) /\ first' = first
  <2>1. PICK message : End(Unresolved, message) /\ first' = first
    BY <1>2
  <2>2. Unresolved.name = "no"
    BY DEF Unresolved, StatusOf
  <2> QED BY <1>1, <2>1, <2>2, NotIntegralStep
<1>3. CASE /\ first' = [first EXCEPT !.payload = PayloadNow]
           /\ pc' = "captured" /\ UNCHANGED <<status, detail, exit>>
  <2>1. first'.at = first.at /\ first'.payload = PayloadNow
    BY <1>1, <1>3 DEF IInv, FoundInv
  <2>2. FoundInv'
    BY <1>1, <1>3, <2>1 DEF IInv, FoundInv, StatusInv, Verifying, PayloadNow, Same
  <2>3. StatusInv' /\ VerifyInv' /\ ZeroInv'
    BY <1>1, <1>3 DEF IInv, StatusInv, VerifyInv, Verifying, ZeroInv, Ended
  <2> QED BY <1>1, <1>3, <2>2, <2>3, RunStep
<1> QED BY <1>2, <1>3 DEF Records

LEMMA CapturedStep == ASSUME IInv, Captured PROVE IInv'
<1>1. pc = "captured" /\ Same /\ UNCHANGED <<first, read>>
  BY DEF Captured, Same, given
<1>2. CASE \E message : End(Unresolved, message)
  <2>1. PICK message : End(Unresolved, message)
    BY <1>2
  <2>2. Unresolved.name = "no"
    BY DEF Unresolved, StatusOf
  <2> QED BY <1>1, <2>1, <2>2, NotIntegralStep
<1>3. CASE /\ CapturedRefusal(PayloadNow) = "ok"
           /\ DiscoveryRefusal(first.payload.records, PayloadNow.captured, first.at, command.maxAge) = "ok"
           /\ pc' = "fetch" /\ UNCHANGED <<status, detail, exit>>
  <2>1. /\ first.at \in Nat /\ begun \in Nat /\ begun <= first.at
        /\ ~command.directory => first.payload = loaded
    BY <1>1 DEF IInv, FoundInv, ClockInv
  <2>2. /\ PayloadNow.captured <= first.at
        /\ command.maxAge # None => first.at - PayloadNow.captured <= command.maxAge
    BY <1>3, DiscoveryHolds
  <2>3. Fresh
    <3> SUFFICES ASSUME ~command.directory, command.maxAge # None
                 PROVE  /\ first.payload.captured <= first.at
                        /\ begun - first.payload.captured <= command.maxAge
      BY DEF Fresh
    <3>1. PayloadNow = loaded /\ first.payload = loaded
      BY <2>1 DEF PayloadNow
    <3>2. loaded # None /\ loaded.captured # None
      BY <1>3, <3>1 DEF CapturedRefusal, FileRefusal
    <3>3. loaded.captured \in Int /\ command.maxAge \in Int
      BY <3>2, VerifyAssumption DEF IInv, FilesInv
    <3> QED BY <2>1, <2>2, <3>1, <3>3
  <2>4. FoundInv'
    BY <1>1, <1>3, <2>1, <2>3 DEF FoundInv, Fresh, Same
  <2>5. StatusInv' /\ VerifyInv' /\ ZeroInv'
    BY <1>1, <1>3 DEF IInv, StatusInv, VerifyInv, Verifying, ZeroInv, Ended
  <2> QED BY <1>1, <1>3, <2>4, <2>5, RunStep
<1> QED BY <1>2, <1>3 DEF Captured

LEMMA FetchStep == ASSUME IInv, Fetch PROVE IInv'
<1>1. pc = "fetch" /\ Same /\ first' = first /\ Fresh /\ bytes \in Contents
  BY DEF Fetch, Same, given, IInv, FoundInv, FilesInv
<1>2. CASE \E message : End(NotIntegral, message) /\ read' = read
  <2>1. PICK message : End(NotIntegral, message) /\ read' = read
    BY <1>2
  <2> QED BY <1>1, <2>1, NotIntegralStep
<1>3. CASE /\ FetchRefusal(first.payload.records.uri, bytes) = "ok"
           /\ BindRefusal(command.name, first.payload.records, bytes) = "ok"
           /\ read' = bytes
  <2>1. Parsed'
    BY <1>1, <1>3, FetchHolds DEF Parsed
  <2>2. Fresh'
    BY <1>1 DEF Fresh, Same
  <2>3. CASE command.command = "resolve" /\ End(Integral, "integral")
    <3>1. status' = Integral /\ pc' = "ended"
      BY <2>3 DEF End
    <3>2. Integral \in Statuses /\ Integral.trust # "yes"
      BY StatusIs, AnswersAre DEF Integral
    <3>3. FoundInv' /\ StatusInv' /\ VerifyInv'
      BY <2>2, <3>1, <3>2 DEF FoundInv, StatusInv, VerifyInv, Verifying
    <3>4. ZeroInv'
      BY <1>1, <2>3 DEF ZeroInv, Asked, Same
    <3> QED BY <1>1, <3>1, <3>3, <3>4, RunStep
  <2>4. CASE pc' = "signature" /\ UNCHANGED <<status, detail, exit>>
    <3>1. FoundInv' /\ StatusInv' /\ VerifyInv' /\ ZeroInv'
      BY <1>1, <2>1, <2>2, <2>4
      DEF IInv, FoundInv, StatusInv, VerifyInv, Verifying, ZeroInv, Ended
    <3> QED BY <1>1, <2>4, <3>1, RunStep
  <2> QED BY <1>3, <2>3, <2>4 DEF Fetch
<1> QED BY <1>2, <1>3 DEF Fetch

\* What exit code 0 says of the answers.
LEMMA ZeroIs ==
    ASSUME NEW s, NEW message, ExitCode(command, s, message) = 0, command.command = "verify"
    PROVE  /\ command.trust => s.trust = "yes"
           /\ command.report # None => s.binding = "yes"
BY DEF ExitCode

LEMMA CheckSignatureStep == ASSUME IInv, CheckSignature PROVE IInv'
<1>1. pc = "signature" /\ Same /\ UNCHANGED <<first, read>> /\ Fresh /\ Parsed
  BY DEF CheckSignature, Same, given, IInv, FoundInv, VerifyInv, Verifying
<1>2. /\ Requested(trust # None) \in {"no", "not_requested"}
      /\ Requested(command.report # None) \in {"no", "not_requested"}
  BY RequestedIs
<1>3. CASE \E refusal : End(SignatureRefused(refusal), refusal)
  <2>1. PICK refusal : End(SignatureRefused(refusal), refusal)
    BY <1>3
  <2> DEFINE s == SignatureRefused(refusal)
  <2>2. /\ (IF command.report = None THEN "not_requested"
             ELSE IF SaysWindow(refusal) THEN "expired" ELSE "untrusted_signer") \in Verdicts \ {"yes"}
        /\ (IF SaysWindow(refusal) THEN "yes" ELSE "no") \in Answers
    BY DEF Verdicts, Answers
  <2>3. s \in Statuses /\ s.trust # "yes" /\ s.binding # "yes"
    BY <1>2, <2>2, StatusIs, AnswersAre DEF SignatureRefused
  <2> HIDE DEF s
  <2>4. ~(ExitCode(command, s, refusal) = 0 /\ Asked)
    BY <2>3, ZeroIs DEF Asked
  <2> QED BY <1>1, <2>1, <2>3, <2>4, EndStep DEF s
<1>4. CASE /\ VerifySignature(read, now) = "ok"
           /\ status' = StatusOf("yes", "yes", "yes", Requested(trust # None),
                                 Requested(command.report # None))
           /\ pc' = IF trust # None THEN "trust" ELSE "compare"
           /\ UNCHANGED <<detail, exit>>
  <2>1. Checked
    BY <1>1, <1>4, SignatureHolds
  <2>2. /\ status' \in Statuses /\ status'.trust # "yes"
        /\ status'.binding \in {"no", "not_requested"}
    BY <1>2, <1>4, StatusIs, AnswersAre
  <2>3. UNCHANGED <<now, command, trust, begun, loaded, first, read>>
    BY <1>1 DEF Same, world
  <2>4. Fresh' /\ Parsed' /\ Checked'
    BY <1>1, <2>1, <2>3 DEF Fresh, Parsed, Checked
  <2>5. FoundInv' /\ StatusInv'
    BY <1>4, <2>2, <2>4 DEF FoundInv, StatusInv, Verifying
  <2>6. VerifyInv' /\ ZeroInv'
    BY <1>4, <2>2, <2>3, <2>4 DEF VerifyInv, Verifying, ZeroInv, Ended
  <2> QED BY <1>1, <1>4, <2>5, <2>6, RunStep
<1> QED BY <1>3, <1>4 DEF CheckSignature

LEMMA CheckTrustStep == ASSUME IInv, CheckTrust PROVE IInv'
<1>1. /\ pc \in {"trust", "current"} /\ Same /\ UNCHANGED <<first, read, exit>>
      /\ Fresh /\ Parsed /\ Checked /\ trust # None
      /\ status \in Statuses /\ status.binding \in {"no", "not_requested"}
  BY DEF CheckTrust, Same, given, IInv, FoundInv, VerifyInv, StatusInv, Verifying
<1>2. UNCHANGED <<now, command, trust, begun, loaded, first, read>>
  BY <1>1 DEF Same, world
<1>3. Fresh' /\ Parsed' /\ Checked' /\ (Current => Current')
  BY <1>1, <1>2 DEF Fresh, Parsed, Checked, Current, HandedOver
<1>4. pc' \in {"current", "compare"}
  BY DEF CheckTrust
<1>5. /\ status' \in Statuses /\ status'.binding \in {"no", "not_requested"}
      /\ status'.trust = "yes" => Current
  <2>1. CASE status' = status
    BY <1>1, <2>1 DEF IInv, StatusInv
  <2>2. CASE VerifyCurrent(read, trust, now) = "ok" /\ status' = [status EXCEPT !.trust = "yes"]
    BY <1>1, <2>2, TrustHolds DEF Statuses, Answers
  <2> QED BY <2>1, <2>2 DEF CheckTrust
<1>6. FoundInv' /\ StatusInv'
  BY <1>3, <1>4, <1>5 DEF FoundInv, StatusInv, Verifying
<1>7. VerifyInv' /\ ZeroInv'
  BY <1>1, <1>2, <1>3, <1>4, <1>5 DEF VerifyInv, Verifying, ZeroInv, Ended
<1> QED BY <1>1, <1>4, <1>6, <1>7, RunStep

\* The comparison with a report ends the run.
LEMMA BoundStep ==
    ASSUME IInv, Same, pc \in Verifying \ {"signature"}, UNCHANGED <<first, read>>,
           NEW verdict \in {"matched", "unbound", "mismatch", "expired", "untrusted_signer"},
           NEW message, Bound(verdict, message),
           verdict = "matched" =>
               trust # None /\ command.report # None /\ read.report = command.report,
           command.report # None
    PROVE  IInv'
<1> DEFINE s == [status EXCEPT !.binding = IF verdict = "matched" THEN "yes" ELSE verdict]
           said == IF detail = "" /\ verdict # "matched" THEN message ELSE detail
<1>1. Fresh /\ Parsed /\ Checked /\ status \in Statuses /\ (status.trust = "yes" => Current)
  BY DEF IInv, FoundInv, VerifyInv, StatusInv
<1>2. /\ s \in Statuses /\ s.trust = status.trust
      /\ s.binding = IF verdict = "matched" THEN "yes" ELSE verdict
  BY <1>1 DEF Statuses, Verdicts, Answers
<1>3. End(s, said)
  BY DEF Bound
<1> HIDE DEF s, said
<1>4. ASSUME ExitCode(command, s, said) = 0, Asked PROVE Granted
  <2>1. (command.trust => s.trust = "yes") /\ s.binding = "yes"
    BY <1>4, ZeroIs DEF Asked
  <2>2. verdict = "matched"
    BY <1>2, <2>1
  <2> QED BY <1>1, <1>2, <2>1, <2>2 DEF Granted
<1>5. pc # "start"
  BY DEF Verifying
<1> QED BY <1>1, <1>2, <1>3, <1>4, <1>5, EndStep

LEMMA UntrustedIs == ASSUME NEW m PROVE UntrustedOrExpired(m) \in {"expired", "untrusted_signer"}
BY DEF UntrustedOrExpired

LEMMA CompareStep == ASSUME IInv, Compare PROVE IInv'
<1>1. /\ pc = "compare" /\ Same /\ UNCHANGED <<first, read>>
      /\ Fresh /\ Parsed /\ Checked /\ pc \in Verifying \ {"signature"} /\ pc # "start"
      /\ status \in Statuses /\ status.binding \in {"no", "not_requested"}
      /\ status.trust = "yes" => Current
  BY DEF Compare, Same, given, IInv, FoundInv, VerifyInv, StatusInv, Verifying
<1>2. CASE command.report = None /\ End(status, detail)
  <2>1. ASSUME ExitCode(command, status, detail) = 0, Asked PROVE Granted
    <3>1. command.trust => status.trust = "yes"
      BY <2>1, ZeroIs DEF Asked
    <3> QED BY <1>1, <1>2, <3>1 DEF Granted
  <2> QED BY <1>1, <1>2, <2>1, EndStep
<1>3. CASE \E message : End(Failed, message)
  <2>1. PICK message : End(Failed, message)
    BY <1>3
  <2> QED BY <1>1, <2>1, FailedIs, NotIntegralStep
<1>4. CASE command.report # None /\ \E refusal : Bound(UntrustedOrExpired(refusal), refusal)
  <2>1. PICK refusal : Bound(UntrustedOrExpired(refusal), refusal)
    BY <1>4
  <2>2. UntrustedOrExpired(refusal) \in {"expired", "untrusted_signer"}
    BY UntrustedIs
  <2> QED BY <1>1, <1>4, <2>1, <2>2, BoundStep
<1> DEFINE verdict == Comparison(read, command.report, trust)
<1>5. CASE command.report # None /\ verdict \notin {"ok", "versions"} /\ Bound(verdict, verdict)
  <2>1. verdict \in {"unbound", "mismatch", "untrusted_signer"}
    BY <1>5 DEF Comparison
  <2> HIDE DEF verdict
  <2> QED BY <1>1, <1>5, <2>1, BoundStep
<1>6. CASE /\ command.report # None /\ verdict = "ok"
           /\ pc' = "bind_trust" /\ UNCHANGED <<status, detail, exit>>
  <2>1. trust # None /\ read.report = command.report
    BY <1>6 DEF Comparison
  <2>2. UNCHANGED <<now, command, trust, begun, loaded, first, read>>
    BY <1>1 DEF Same, world
  <2>3. Fresh' /\ Parsed' /\ Checked' /\ (Current => Current')
    BY <1>1, <2>2 DEF Fresh, Parsed, Checked, Current, HandedOver
  <2>4. FoundInv' /\ StatusInv'
    BY <1>1, <1>6, <2>3 DEF FoundInv, StatusInv, Verifying
  <2>5. VerifyInv' /\ ZeroInv'
    BY <1>1, <1>6, <2>1, <2>2, <2>3 DEF VerifyInv, Verifying, ZeroInv, Ended
  <2> QED BY <1>1, <1>6, <2>4, <2>5, RunStep
<1> QED BY <1>2, <1>3, <1>4, <1>5, <1>6 DEF Compare

LEMMA BindTrustStep == ASSUME IInv, BindTrust PROVE IInv'
<1>1. /\ pc \in {"bind_trust", "bind_current"} /\ Same /\ UNCHANGED <<first, read>>
      /\ Fresh /\ Parsed /\ Checked /\ pc \in Verifying \ {"signature"}
      /\ trust # None /\ command.report # None /\ read.report = command.report
      /\ status \in Statuses /\ status.binding \in {"no", "not_requested"}
      /\ status.trust = "yes" => Current
  BY DEF BindTrust, Same, given, IInv, FoundInv, VerifyInv, StatusInv, Verifying
<1>2. CASE \E refusal : Bound(UntrustedOrExpired(refusal), refusal)
  <2>1. PICK refusal : Bound(UntrustedOrExpired(refusal), refusal)
    BY <1>2
  <2>2. UntrustedOrExpired(refusal) \in {"expired", "untrusted_signer"}
    BY UntrustedIs
  <2> QED BY <1>1, <2>1, <2>2, BoundStep
<1>3. CASE Bound("matched", "matched")
  BY <1>1, <1>3, BoundStep
<1>4. CASE pc' = "bind_current" /\ UNCHANGED <<status, detail, exit>>
  <2>1. UNCHANGED <<now, command, trust, begun, loaded, first, read>>
    BY <1>1 DEF Same, world
  <2>2. Fresh' /\ Parsed' /\ Checked' /\ (Current => Current')
    BY <1>1, <2>1 DEF Fresh, Parsed, Checked, Current, HandedOver
  <2>3. FoundInv' /\ StatusInv'
    BY <1>1, <1>4, <2>2 DEF FoundInv, StatusInv, Verifying
  <2>4. VerifyInv' /\ ZeroInv'
    BY <1>1, <1>4, <2>1, <2>2 DEF VerifyInv, Verifying, ZeroInv, Ended
  <2> QED BY <1>1, <1>4, <2>3, <2>4, RunStep
<1> QED BY <1>2, <1>3, <1>4 DEF BindTrust

LEMMA TickStep == ASSUME IInv, Tick PROVE IInv'
<1>1. now \in Nat /\ payload \in Payloads
  BY DEF IInv, ClockInv, FilesInv
<1> QED BY <1>1, WorldStep DEF Tick

LEMMA PublishStep == ASSUME IInv, Publish PROVE IInv'
<1>1. now \in Nat
  BY DEF IInv, ClockInv
<1> QED BY <1>1, WorldStep DEF Publish

\* The trust that is followed is newer than any that was left.
LEMMA FollowNewer ==
    ASSUME IInv, Follow
    PROVE  /\ PinInv' /\ pin' \notin past
           /\ \E r \in Rotations : /\ r.by = pin.key /\ Trust(r.id, r.previous) = pin
                                   /\ Trust(r.id, r.next) = pin'
           /\ pin'.id = pin.id /\ pin'.version > pin.version
<1>1. PICK r \in Rotations, s \in Successors :
        /\ VerifyRotation(r, pin, s, now) = "ok"
        /\ pin' = Trust(r.id, r.next) /\ past' = past \cup {pin}
  BY DEF Follow
<1>2. /\ r.id = pin.id /\ Trust(r.id, r.previous) = pin /\ r.next.version > pin.version
      /\ r.by = r.previous.key
  BY <1>1, RotationFollows
<1>3. r.next.version \in Int
  BY RotationVersions, VerifyAssumption
<1>4. pin'.id = r.id /\ pin'.version = r.next.version
  BY <1>1 DEF Trust
<1>5. pin.key = r.previous.key
  BY <1>2 DEF Trust
<1>6. Versioned(pin) /\ \A t \in past : Versioned(t) /\ t.version < pin.version
  BY DEF IInv, PinInv
<1>7. pc = "start" /\ pc' = "start"
  BY DEF Follow
<1>8. \A t \in past' : Versioned(t) /\ t.version < pin'.version
  BY <1>1, <1>2, <1>3, <1>4, <1>6 DEF Versioned
<1>9. PinInv'
  BY <1>3, <1>4, <1>7, <1>8 DEF PinInv, Versioned
<1> QED BY <1>1, <1>2, <1>3, <1>4, <1>5, <1>6, <1>8, <1>9 DEF Versioned

LEMMA FollowStep == ASSUME IInv, Follow PROVE IInv'
<1>1. UNCHANGED <<now, payload, bytes, pc, command, trust, left, begun, loaded, first, read, status, exit>>
  BY DEF Follow, world, given
<1>2. PinInv'
  BY FollowNewer
<1>3. ClockInv' /\ FilesInv' /\ FoundInv'
  BY <1>1 DEF IInv, ClockInv, FilesInv, FoundInv, Fresh
<1>4. StatusInv' /\ VerifyInv' /\ ZeroInv'
  BY <1>1 DEF IInv, StatusInv, VerifyInv, ZeroInv, Granted, Asked, Parsed, Checked, Current,
              HandedOver, Ended
<1> QED BY <1>2, <1>3, <1>4 DEF IInv

-----------------------------------------------------------------------------

LEMMA InitInv == Init => IInv
<1> SUFFICES ASSUME Init PROVE IInv
  OBVIOUS
<1>0. /\ now = 0 /\ begun = 0 /\ payload \in Payloads /\ bytes \in Contents
      /\ pin \in Pins /\ past = {} /\ command \in Commands /\ pc = "start" /\ loaded = None
  BY DEF Init
<1>1. PinInv
  BY <1>0, VerifyAssumption DEF PinInv, Versioned
<1>2. ClockInv /\ FilesInv
  BY <1>0 DEF ClockInv, FilesInv
<1>3. FoundInv /\ StatusInv /\ VerifyInv /\ ZeroInv
  BY FailedIs DEF Init, FoundInv, StatusInv, VerifyInv, ZeroInv, Verifying, Ended
<1> QED BY <1>1, <1>2, <1>3 DEF IInv

LEMMA NextInv == IInv /\ [Next]_vars => IInv'
<1> SUFFICES ASSUME IInv, [Next]_vars PROVE IInv'
  OBVIOUS
<1>1. CASE UNCHANGED vars
  <2>1. /\ UNCHANGED <<verifier, pc, given, first, read, status, detail, exit>>
        /\ now' = now /\ payload' = payload /\ bytes' = bytes
    BY <1>1 DEF vars, world
  <2>2. now \in Nat /\ payload \in Payloads
    BY DEF IInv, ClockInv, FilesInv
  <2> QED BY <2>1, <2>2, WorldStep
<1>2. CASE Run
  BY <1>2, BeginStep, ResolveStep, RecordsStep, CapturedStep, FetchStep, CheckSignatureStep, CheckTrustStep,
     CompareStep, BindTrustStep DEF Run
<1> QED BY <1>1, <1>2, TickStep, PublishStep, FollowStep DEF Next

LEMMA Invariance == Spec => []IInv
BY InitInv, NextInv, PTL DEF Spec

\* An identity the verifier had left is not current again, by any rotation, key
\* or second issue (verify_rotation, assert_current_trust).
THEOREM SupersededStaysOut == Spec => []SupersededNeverCurrent
<1>1. IInv => SupersededNeverCurrent
  <2> SUFFICES ASSUME IInv, status.trust = "yes"
               PROVE  /\ FromIdentity(read.identity) \notin left
                      /\ FromIdentity(read.identity) # trust =>
                           HandedOver /\ read.identity.version > trust.version
    BY DEF SupersededNeverCurrent
  <2>1. pc # "start" /\ Current
    BY DEF IInv, StatusInv
  <2>2. /\ Versioned(trust)
        /\ \A t \in left : Versioned(t) /\ t.version < trust.version
    BY <2>1 DEF IInv, PinInv, Current
  <2>3. FromIdentity(read.identity).version = read.identity.version
    BY DEF FromIdentity, Trust, Hold
  <2>4. ASSUME FromIdentity(read.identity) \in left PROVE FALSE
    BY <2>1, <2>2, <2>3, <2>4 DEF Current, Versioned
  <2> QED BY <2>1, <2>4 DEF Current
<1> QED BY <1>1, Invariance, PTL

\* Exit code 0 of verify rests on one record that was checked, signed and
\* current as asked (verify_resolved, _exit_code).
THEOREM ZeroIsVerified == Spec => []ExitZeroMeansVerified
<1>1. IInv => ExitZeroMeansVerified
  BY DEF IInv, ZeroInv, Asked, Granted, Checked, Current, ExitZeroMeansVerified
<1> QED BY <1>1, Invariance, PTL

\* Records from one file are as fresh as was asked, however it is replaced
\* (FileResolver, discovery_from_records).
THEOREM RecordsAreFresh == Spec => []FreshRecords
<1>1. IInv => FreshRecords
  BY DEF IInv, FoundInv, Fresh, FreshRecords
<1> QED BY <1>1, Invariance, PTL

\* Trust moves only to what its holder signed over, and never back
\* (verify_rotation).
THEOREM TrustIsHandedOver == Spec => TrustHandedOver
<1>1. ASSUME IInv, [Next]_vars, pin' # pin
      PROVE  /\ \E r \in Rotations : /\ r.by = pin.key /\ Trust(r.id, r.previous) = pin
                                      /\ Trust(r.id, r.next) = pin'
             /\ pin'.id = pin.id /\ pin'.version > pin.version /\ pin' \notin past
  <2>1. Follow
    BY <1>1 DEF Next, Run, Begin, Resolve, Records, Captured, Fetch, CheckSignature, CheckTrust, Compare,
                BindTrust, Tick, Publish, vars, verifier
  <2> QED BY <1>1, <2>1, FollowNewer
<1>2. IInv /\ [Next]_vars =>
        [pin' # pin =>
            /\ \E r \in Rotations : /\ r.by = pin.key /\ Trust(r.id, r.previous) = pin
                                    /\ Trust(r.id, r.next) = pin'
            /\ pin'.id = pin.id /\ pin'.version > pin.version /\ pin' \notin past]_vars
  BY <1>1
<1> QED BY <1>2, Invariance, PTL DEF Spec, TrustHandedOver
=============================================================================
