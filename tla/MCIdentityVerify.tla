-------------------------- MODULE MCIdentityVerify --------------------------
(***************************************************************************)
(* One agent whose key returns: version 1 under k1, 2 under k2, 3 under k1 *)
(* again, version 4 for which k1 signed in its first reign, and a version  *)
(* 1 issued twice.                                                         *)
(***************************************************************************)
EXTENDS IdentityVerify

CONSTANTS k1, k2, k3, alpha, beta, site

From(a, b) == [issued |-> a, expires |-> b]
Name(i, key) == [name |-> site, subject |-> i, key |-> key, source |-> "local_snapshot"]
Identity(i, key, version, window) ==
    [shape |-> "ok", id |-> i, key |-> key, version |-> version, issued |-> window.issued,
     expires |-> window.expires, names |-> {Name(i, key)}]

First == Identity(alpha, k1, 1, From(0, 4))
Again == Identity(alpha, k1, 1, From(0, 3))
Second == Identity(alpha, k2, 2, From(0, 4))
Third == Identity(alpha, k1, 3, From(0, 4))
Fourth == Identity(alpha, k3, 4, From(0, 4))
Stranger == Identity(beta, k2, 2, From(0, 4))

Signed == {SignRotation(x[1], x[2], From(x[3], 3)) :
             x \in {<<First, Second, 0>>, <<Second, Third, 1>>, <<First, Fourth, 0>>}}
MCRotations == Signed \cup {[SignRotation(Second, Third, From(0, 3)) EXCEPT !.by = None]}
MCSuccessors == {None, Second, Third, Fourth}
MCPins == {FromIdentity(First)}

Report == [fault |-> "ok", profile |-> "p"]
OtherReport == [fault |-> "ok", profile |-> "q"]
SignedReport == [fault |-> "signature_field", profile |-> "p"]
BareReport == [fault |-> "versions", profile |-> None]

Attested(i, report, rotation) == SignAttestation(i, From(0, 3), report, rotation)
MCContents == {
    None, [shape |-> "not_json"],
    Attested(First, None, None),
    Attested(Second, Report, SignRotation(First, Second, From(0, 3))),
    Attested(Second, Report, SignRotation(First, Second, From(0, 1))),
    Attested(Again, Report, None),
    Attested(Second, Report, None),
    [Attested(First, Report, None) EXCEPT !.by = None],
    [SignAttestation(First, From(1, 3), None, None) EXCEPT !.by = None],
    [Attested(First, Report, None) EXCEPT !.profile = "q"],
    [Attested(First, BareReport, None) EXCEPT !.profile = "p"],
    Attested(Stranger, Report, None)}

Published(i) == [key |-> i.key, manifest |-> i, id |-> alpha, sha |-> None, uri |-> "file", form |-> "ok"]
Payload(i, captured) == [shape |-> "ok", name |-> site, captured |-> captured, records |-> Published(i)]
Wanting == Payload(Second, None)
MCPayloads == {None, Wanting, Payload(First, 0), Payload(Second, 0), Payload(Second, 1),
               Payload(Again, 0), [Payload(First, 0) EXCEPT !.shape = "not_json"],
               [Payload(First, 0) EXCEPT !.records.sha = Attested(First, None, None)]}

Command(kind, directory, age, trusted, report) ==
    [command |-> kind, name |-> site, directory |-> directory, maxAge |-> age, trust |-> trusted,
     report |-> report, fault |-> "ok"]
MCCommands == {
    Command("resolve", TRUE, 1, FALSE, None),
    Command("verify", FALSE, 1, FALSE, Report),
    Command("verify", FALSE, 1, FALSE, None),
    Command("verify", FALSE, 1, TRUE, None),
    Command("verify", FALSE, None, TRUE, Report),
    Command("verify", TRUE, 1, TRUE, Report),
    Command("verify", FALSE, None, TRUE, OtherReport),
    Command("verify", FALSE, None, FALSE, SignedReport),
    Command("verify", FALSE, None, TRUE, BareReport),
    [Command("verify", FALSE, None, TRUE, Report) EXCEPT !.fault = "trust_file"],
    [Command("verify", FALSE, None, TRUE, Report) EXCEPT !.name = "punycode"]}

\* The signed rotations are ones the code agrees to sign.
ASSUME Signable ==
    /\ SignRotationRefusal(First, Second, k1, From(0, 3)) = "ok"
    /\ SignRotationRefusal(Second, First, k2, From(0, 3)) = "monotonic"
    /\ SignAttestationRefusal(Second, k2, From(0, 3), SignRotation(First, Second, From(0, 3))) = "ok"
=============================================================================
