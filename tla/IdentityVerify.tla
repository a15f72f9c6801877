--------------------------- MODULE IdentityVerify ---------------------------
(***************************************************************************)
(* One run of the identity command line (ai4/identity/resolve: cli.py,     *)
(* pipeline.py) over files that are replaced while it reads them and a     *)
(* clock that passes between the many times it is read, and a verifier     *)
(* that follows rotations with verify_rotation and pins the result.        *)
(*                                                                         *)
(* Every reading of a file and of the clock is a step of its own.          *)
(***************************************************************************)
EXTENDS IdentityRules

CONSTANTS
    Commands,   \* command lines
    Payloads,   \* contents the records file of the name may have, None for none
    Contents,   \* contents the attestation file may have, None for none
    Rotations,  \* rotations in circulation
    Successors, \* identities a caller may expect a rotation to lead to, and None
    Pins,       \* trust contexts a verifier may start from
    Horizon     \* bound of the clock

\* What parsing makes sure of: a verifier's trust and a rotation satisfy their
\* schemas, a time is a number of seconds, a limit of age is a number.
ASSUME VerifyAssumption ==
    /\ Horizon \in Nat
    /\ \A p \in Pins : p.version \in 1..MaxVersion
    /\ \A r \in Rotations : RotationRefusal(r) = "ok"
    /\ \A c \in Commands : c.maxAge \in Int \cup {None}
    /\ \A f \in Payloads \ {None} : f.captured \in Int \cup {None}
    /\ \A a \in Contents \ {None} : a.shape = "ok" =>
           {a.issued, a.expires, a.identity.issued, a.identity.expires} \subseteq Int

VARIABLES
    now,
    payload,    \* the records file
    bytes,      \* the attestation file
    pin,        \* the trust the verifier keeps
    past,       \* every trust it has left
    pc,
    command,
    trust,      \* the trust given to the run, None without --trust
    left,       \* what the verifier had left when it was given
    begun,      \* when the run began
    loaded,     \* the payload a resolver of a single file keeps
    first,      \* the clock as resolve_name read it, then the payload of the records
    read,       \* the attestation read
    status,     \* the five answers
    detail,
    exit

world == <<now, payload, bytes>>
verifier == <<pin, past>>
given == <<command, trust, left, begun, loaded>>
vars == <<world, verifier, pc, given, first, read, status, detail, exit>>

-----------------------------------------------------------------------------
(* Status and exit code. *)

Requested(on) == IF on THEN "no" ELSE "not_requested"

StatusOf(name, integrity, signature, current, binding) ==
    [name |-> name, integrity |-> integrity, signature |-> signature,
     trust |-> current, binding |-> binding]

\* Bug: what expired is a matter of the binding alone.
ExitCodeForgetsTrust(c, s, message) ==
    IF s.name # "yes" \/ s.integrity # "yes" THEN 1
    ELSE IF c.command = "resolve" THEN 0
    ELSE IF s.signature = "no" THEN 5
    ELSE IF c.report # None /\ s.binding # "yes" THEN 7
    ELSE 0

\* _exit_code of cli.py.
ExitCode(c, s, message) ==
    IF s.name # "yes" \/ s.integrity # "yes" THEN 1
    ELSE IF c.command = "resolve" THEN 0
    ELSE IF s.signature = "no" THEN 5
    ELSE IF c.trust /\ s.trust # "yes" THEN 6
    ELSE IF c.report # None /\ s.binding # "yes" THEN 7
    ELSE IF SaysExpired(message) \/ s.binding = "expired" THEN 1
    ELSE 0

End(s, message) ==
    /\ status' = s /\ detail' = message /\ exit' = ExitCode(command, s, message)
    /\ pc' = "ended"

\* An IdentityError that reaches main.
Failed == StatusOf("no", "no", "no", "not_requested", "not_requested")

\* _blank_status and the refusals of discover_and_verify.
Unresolved == StatusOf("no", "no", "no", Requested(trust # None), Requested(command.report # None))
NotIntegral == StatusOf("yes", "no", Requested(command.command = "verify"),
                        Requested(trust # None), Requested(command.report # None))
Integral == StatusOf("yes", "yes", "not_requested", "not_requested", "not_requested")

-----------------------------------------------------------------------------

Init ==
    /\ now = 0 /\ payload \in Payloads /\ bytes \in Contents
    /\ pin \in Pins /\ past = {}
    /\ command \in Commands
    /\ pc = "start"
    /\ trust = None /\ left = {} /\ begun = 0 /\ loaded = None /\ first = None /\ read = None
    /\ status = Failed /\ detail = "" /\ exit = None

\* _run: the resolver, then the files of --trust and --report.  A fault of the
\* command line is one of its arguments, or a file of them that does not parse.
Begin ==
    /\ pc = "start"
    /\ begun' = now /\ left' = past
    /\ loaded' = IF command.directory THEN None ELSE payload
    /\ trust' = IF command.command = "verify" /\ command.trust THEN pin ELSE None
    /\ IF command.fault # "ok" THEN End(Failed, command.fault)
       ELSE IF ~command.directory /\ CapturedRefusal(payload) # "ok"
       THEN End(Failed, CapturedRefusal(payload))
       ELSE pc' = "resolve" /\ UNCHANGED <<status, detail, exit>>
    /\ UNCHANGED <<world, verifier, command, first, read>>

\* Bug: the file is read anew in either mode.
PayloadAlwaysRead == payload

\* _payload_for: the payload kept, or the file as it is now.
PayloadNow == IF command.directory THEN payload ELSE loaded

\* resolve_name up to its reading of the clock, which is before the records.
Resolve ==
    /\ pc = "resolve"
    /\ LET refusal == NameRefusal(command.name) IN
       IF refusal # "ok" THEN End(Unresolved, refusal) /\ UNCHANGED first
       ELSE /\ first' = [payload |-> None, at |-> now]
            /\ pc' = "records" /\ UNCHANGED <<status, detail, exit>>
    /\ UNCHANGED <<world, verifier, given, read>>

\* resolver.resolve and validate_raw_records.
Records ==
    /\ pc = "records"
    /\ LET refusal == PayloadRefusal(PayloadNow, command.name) IN
       IF refusal # "ok" THEN End(Unresolved, refusal) /\ UNCHANGED first
       ELSE /\ first' = [first EXCEPT !.payload = PayloadNow]
            /\ pc' = "captured" /\ UNCHANGED <<status, detail, exit>>
    /\ UNCHANGED <<world, verifier, given, read>>

\* captured_at_for reads the payload a second time; discovery_from_records.
Captured ==
    /\ pc = "captured"
    /\ LET second == PayloadNow
           refusal == IF CapturedRefusal(second) # "ok" THEN CapturedRefusal(second)
                      ELSE DiscoveryRefusal(first.payload.records, second.captured, first.at, command.maxAge)
       IN IF refusal # "ok" THEN End(Unresolved, refusal)
          ELSE pc' = "fetch" /\ UNCHANGED <<status, detail, exit>>
    /\ UNCHANGED <<world, verifier, given, first, read>>

\* fetch_attestation_bytes and bind_discovery_to_attestation.
Fetch ==
    /\ pc = "fetch"
    /\ LET records == first.payload.records
           refusal == IF FetchRefusal(records.uri, bytes) # "ok" THEN FetchRefusal(records.uri, bytes)
                      ELSE BindRefusal(command.name, records, bytes)
       IN IF refusal # "ok" THEN End(NotIntegral, refusal) /\ UNCHANGED read
          ELSE /\ read' = bytes
               /\ IF command.command = "resolve" THEN End(Integral, "integral")
                  ELSE pc' = "signature" /\ UNCHANGED <<status, detail, exit>>
    /\ UNCHANGED <<world, verifier, given, first>>

-----------------------------------------------------------------------------
(* verify_resolved. *)

\* What a refused signature makes of the answers; an attestation out of its
\* window has not had its signature looked at, and is answered yes.
SignatureRefused(refusal) ==
    StatusOf("yes", "yes", IF SaysWindow(refusal) THEN "yes" ELSE "no", Requested(trust # None),
             IF command.report = None THEN "not_requested"
             ELSE IF SaysWindow(refusal) THEN "expired" ELSE "untrusted_signer")

CheckSignature ==
    /\ pc = "signature"
    /\ LET refusal == VerifySignature(read, now) IN
       IF refusal # "ok" THEN End(SignatureRefused(refusal), refusal)
       ELSE /\ status' = StatusOf("yes", "yes", "yes", Requested(trust # None),
                                  Requested(command.report # None))
            /\ pc' = IF trust # None THEN "trust" ELSE "compare"
            /\ UNCHANGED <<detail, exit>>
    /\ UNCHANGED <<world, verifier, given, first, read>>

\* verify_attestation looks at the signature again, and then at the clock again.
CheckTrust ==
    /\ pc \in {"trust", "current"}
    /\ LET refusal == IF pc = "trust" THEN VerifySignature(read, now)
                      ELSE VerifyCurrent(read, trust, now)
       IN /\ detail' = IF refusal = "ok" THEN detail ELSE refusal
          /\ status' = IF pc = "current" /\ refusal = "ok" THEN [status EXCEPT !.trust = "yes"] ELSE status
          /\ pc' = IF pc = "trust" /\ refusal = "ok" THEN "current" ELSE "compare"
    /\ UNCHANGED <<world, verifier, given, first, read, exit>>

Bound(verdict, message) ==
    End([status EXCEPT !.binding = IF verdict = "matched" THEN "yes" ELSE verdict],
        IF detail = "" /\ verdict # "matched" THEN message ELSE detail)

\* verify_report_binding: digest, signature and comparison.  A report without a
\* digest raises at once, one without versions when its profile is compared.
Compare ==
    /\ pc = "compare"
    /\ IF command.report = None THEN End(status, detail)
       ELSE IF command.report.fault \notin {"ok", "versions"} THEN End(Failed, command.report.fault)
       ELSE LET refusal == VerifySignature(read, now)
                verdict == Comparison(read, command.report, trust)
            IN IF refusal # "ok" THEN Bound(UntrustedOrExpired(refusal), refusal)
               ELSE IF verdict = "versions" THEN End(Failed, verdict)
               ELSE IF verdict # "ok" THEN Bound(verdict, verdict)
               ELSE pc' = "bind_trust" /\ UNCHANGED <<status, detail, exit>>
    /\ UNCHANGED <<world, verifier, given, first, read>>

\* Its own verify_attestation.
BindTrust ==
    /\ pc \in {"bind_trust", "bind_current"}
    /\ LET refusal == IF pc = "bind_trust" THEN VerifySignature(read, now)
                      ELSE VerifyCurrent(read, trust, now)
       IN IF refusal # "ok" THEN Bound(UntrustedOrExpired(refusal), refusal)
          ELSE IF pc = "bind_current" THEN Bound("matched", "matched")
          ELSE pc' = "bind_current" /\ UNCHANGED <<status, detail, exit>>
    /\ UNCHANGED <<world, verifier, given, first, read>>

-----------------------------------------------------------------------------
(* The world, and the verifier that follows rotations. *)

Tick ==
    /\ now < Horizon /\ now' = now + 1
    /\ UNCHANGED <<payload, bytes, verifier, pc, given, first, read, status, detail, exit>>

\* A publisher replaces the records file while the run still reads it.  The
\* attestation file is read once.
Publish ==
    /\ pc \in {"resolve", "records", "captured"}
    /\ payload' \in Payloads \ {payload}
    /\ UNCHANGED <<now, bytes, verifier, pc, given, first, read, status, detail, exit>>

\* The verifier follows a rotation; a run works on the trust it was given.
Follow ==
    /\ pc = "start"
    /\ \E r \in Rotations, s \in Successors :
        /\ VerifyRotation(r, pin, s, now) = "ok"
        /\ pin' = Trust(r.id, r.next) /\ past' = past \cup {pin}
    /\ UNCHANGED <<world, pc, given, first, read, status, detail, exit>>

Run == Begin \/ Resolve \/ Records \/ Captured \/ Fetch \/ CheckSignature \/ CheckTrust \/ Compare \/ BindTrust
Next == Run \/ Tick \/ Publish \/ Follow

Spec == Init /\ [][Next]_vars

-----------------------------------------------------------------------------
(* Properties. *)

Ended == pc = "ended"

\* Trust moves only to what its holder signed over while it was this very trust:
\* a key that comes back does not bring back what it signed before, a version
\* may be skipped and none is taken twice (trust.py, verify_rotation).
TrustHandedOver ==
    [][pin' # pin =>
        /\ \E r \in Rotations : /\ r.by = pin.key /\ Trust(r.id, r.previous) = pin
                                /\ Trust(r.id, r.next) = pin'
        /\ pin'.id = pin.id /\ pin'.version > pin.version /\ pin' \notin past]_vars

\* What the holder of the trust signed its key over to.
HandedOver ==
    /\ read.rotation # None /\ read.rotation.by = trust.key
    /\ FromIdentity(read.identity) = Trust(read.rotation.id, read.rotation.next)

\* An identity the verifier had left before a run is not current in that run,
\* whatever rotation its attestation carries; not even when it was issued again
\* with the key and the version of the trust (attestation.py, assert_current_trust).
SupersededNeverCurrent ==
    status.trust = "yes" =>
        /\ FromIdentity(read.identity) \notin left
        /\ FromIdentity(read.identity) # trust => HandedOver /\ read.identity.version > trust.version

\* Exit 0 of verify, where trust or a report was asked about: although the clock
\* and the files are read many times, one record was checked, its window was open
\* when the run began or opened during it and had not closed then, its own key
\* signed it, and what was asked holds of that record (cli.py, verify_resolved).
ExitZeroMeansVerified ==
    Ended /\ exit = 0 /\ command.command = "verify" /\ (command.trust \/ command.report # None) =>
        /\ read.issued <= now /\ begun < read.expires /\ begun < read.identity.expires
        /\ read.by = read.identity.key /\ read.hash = read.identity
        /\ command.trust => FromIdentity(read.identity) = trust \/ HandedOver
        /\ command.report # None => read.report = command.report /\ trust # None

\* With --max-age and one records file, what is used was captured no longer ago
\* than that, whenever the file is replaced (file_resolver.py keeps its payload).
\* A directory of files is read twice and gives no such guarantee.
FreshRecords ==
    status.name = "yes" /\ ~command.directory /\ command.maxAge # None =>
        /\ first.payload.captured <= first.at
        /\ begun - first.payload.captured <= command.maxAge

\* docs/identity-resolution.md: exit code 0 of verify, "All requested checks
\* passed", is about the signature too, where nothing else was asked about.
ZeroMeansSigned ==
    Ended /\ exit = 0 /\ command.command = "verify" => read.by = read.identity.key
=============================================================================
