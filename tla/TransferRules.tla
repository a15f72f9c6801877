--------------------------- MODULE TransferRules ---------------------------
(***************************************************************************)
(* What ai4/transaction decides about one native SOL transfer: validation, *)
(* fee probe and firewall, the hand-off URI and its binding, the reading   *)
(* of a status answer and the proof receipt.  Pure operators.              *)
(*                                                                         *)
(* An amount is an integer number of units, which are FineDigits decimals  *)
(* finer than a lamport, or None where the text is no decimal.  The code   *)
(* multiplies amounts in a Decimal context that keeps Precision (28)       *)
(* significant digits, and a lamport count in range has ten fewer at most. *)
(* What is not a key or a signature is the name of the check it fails.     *)
(***************************************************************************)
EXTENDS Integers, Sequences, FiniteSets, Checks

CONSTANTS
    None,
    Keys,             \* addresses that decode to 32 bytes
    Signatures,       \* texts that decode to 64 bytes
    Precision,        \* significant digits of the Decimal context
    FineDigits,       \* decimals of a lamport an amount can be written with
    MaxLamports       \* 2^64 - 1

\* Powers of ten.
Tens[k \in Nat] == IF k = 0 THEN 1 ELSE 10 * Tens[k - 1]

UnitsPerLamport == Tens[FineDigits]

ASSUME RulesAssumption ==
    /\ {Precision, MaxLamports} \subseteq Nat \ {0} /\ FineDigits \in Nat
    /\ 10 * (MaxLamports + 1) <= Tens[Precision]
    /\ None \notin Keys \cup Signatures

-----------------------------------------------------------------------------
(* Validation (validate.py), in its order. *)

Cluster == [mainnet |-> "mainnet-beta", devnet |-> "devnet", localnet |-> "localnet",
            local |-> "localnet", localhost |-> "localnet"]

NetworkRefusal(n) == IF n \in DOMAIN Cluster THEN "ok" ELSE "network"

\* What the last digit kept of n stands for.
LastPlace[n \in Nat] == IF n < Tens[Precision] THEN 1 ELSE 10 * LastPlace[n \div 10]

\* A product in the Decimal context: half to even at the last digit kept.
Product(n) ==
    LET q == LastPlace[n]
        down == n \div q
        up == 2 * (n % q) > q \/ (2 * (n % q) = q /\ down % 2 = 1)
    IN q * (IF up THEN down + 1 ELSE down)

Lamports(amount) == Product(amount) \div UnitsPerLamport

\* _parse_positive_sol.
AmountRefusal(amount) ==
    IF amount = None THEN "not_decimal"
    ELSE IF amount <= 0 THEN "not_positive"
    ELSE FirstRefusal(<<
        Check(Product(amount) % UnitsPerLamport = 0, "lamport_precision"),
        Check(Lamports(amount) <= MaxLamports, "u64_range")>>)

DestinationRefusal(d) == IF d \in Keys THEN "ok" ELSE "destination"

\* validate_transfer_intent.
ValidationRefusal(intent, cap) == FirstRefusal(<<
    Check(intent.flags = {}, "custody"),
    Check(intent.action = "transfer", "action"),
    Check(NetworkRefusal(intent.network) = "ok", "network"),
    Check(intent.asset = "SOL", "asset"),
    Check(AmountRefusal(intent.amount) = "ok", "amount"),
    Check(AmountRefusal(cap) = "ok", "max_amount"),
    Check(intent.amount # None /\ cap # None /\ intent.amount <= cap, "cap"),
    Check(DestinationRefusal(intent.destination) = "ok", "destination")>>)

\* NormalizedIntent; ApprovedBinding is the same record, its hash stands for it.
Normalized(intent) ==
    [network |-> Cluster[intent.network], asset |-> "SOL", action |-> "transfer",
     amount |-> intent.amount, lamports |-> Lamports(intent.amount),
     destination |-> intent.destination]

-----------------------------------------------------------------------------
(* The hand-off URI (handoff.py) and its binding (binding.py). *)

QueryKeys == {"amount", "label", "message", "ai4-network"}

PayUri(n) ==
    [scheme |-> "solana", netloc |-> FALSE, fragment |-> FALSE, recipient |-> n.destination,
     query |-> [k \in QueryKeys |->
         CASE k = "amount" -> n.amount [] k = "ai4-network" -> n.network
           [] OTHER -> <<"names", n.network>>]]

BrowseUri(pay) == [prefix |-> "phantom.app/ul/browse", wraps |-> pay, ref |-> TRUE]

ParseRefusal(uri) == FirstRefusal(<<
    Check(uri.scheme = "solana", "scheme"),
    Check(~uri.netloc, "netloc"),
    Check(~uri.fragment, "fragment"),
    Check(uri.recipient # None, "recipient"),
    Check("spl-token" \notin DOMAIN uri.query, "spl_token"),
    Check(DOMAIN uri.query \subseteq QueryKeys, "unexpected_keys"),
    Check({"amount", "ai4-network"} \subseteq DOMAIN uri.query, "missing_keys")>>)

\* verify_solana_pay_binding.
BindingRefusal(uri, n) ==
    IF ParseRefusal(uri) # "ok" THEN ParseRefusal(uri)
    ELSE FirstRefusal(<<
        Check(DestinationRefusal(uri.recipient) = "ok" /\ uri.recipient = n.destination, "recipient"),
        Check(AmountRefusal(uri.query["amount"]) = "ok", "amount_invalid"),
        Check(uri.query["amount"] = n.amount /\ Lamports(uri.query["amount"]) = n.lamports, "amount"),
        Check(uri.query["ai4-network"] = n.network, "network"),
        Check(\A k \in {"label", "message"} :
                  k \in DOMAIN uri.query /\ uri.query[k] = <<"names", n.network>>, "label"),
        Check(n.action = "transfer", "action")>>)

\* verify_approved_handoff.
HandoffRefusal(pay, browse, n) ==
    IF BindingRefusal(pay, n) # "ok" THEN BindingRefusal(pay, n)
    ELSE FirstRefusal(<<
        Check(browse.prefix = "phantom.app/ul/browse", "browse_link"),
        Check(browse.ref, "browse_ref"),
        Check(browse.wraps = pay, "browse_target")>>)

-----------------------------------------------------------------------------
(* prepare_transfer, with the firewall (firewall.py). *)

\* _fee_from_rpc: the blockhash and the fee samples are there, one of them has
\* another shape, or the call raises.
FeeAnswers == {"known", "ambiguous", "raises"}

\* What constrain comes to: a decision, none, an exception or no report.
Reports == {"accept", "refuse", "revise", "null", "raises", "not_a_report"}

Allowed(n) == [decision |-> "ALLOW", reason |-> "ok", binding |-> n]
Denied(reason) == [decision |-> "DENY", reason |-> reason, binding |-> None]

PrepareTransfer(intent, cap, rpc, fees, report) ==
    IF ValidationRefusal(intent, cap) # "ok" THEN Denied(ValidationRefusal(intent, cap))
    ELSE IF rpc # None /\ fees # "known" THEN Denied("rpc_fail_closed")
    ELSE IF report # "accept" THEN Denied(report)
    ELSE LET n == Normalized(intent)
             refusal == HandoffRefusal(PayUri(n), BrowseUri(PayUri(n)), n)
         IN IF refusal = "ok" THEN Allowed(n) ELSE Denied(refusal)

-----------------------------------------------------------------------------
(* Status (status.py, rpc.py) and the proof receipt (receipt.py). *)

Levels == {"processed", "confirmed", "finalized"}

\* What getSignatureStatuses comes to: an entry of a known level with or without
\* an error on chain, or the reason why there is none.
Entry(level, err) == [reason |-> "ok", level |-> level, err |-> err]
NoEntry(reason) == [reason |-> reason, level |-> None, err |-> FALSE]
Faults == {NoEntry(r) : r \in {"unreachable", "timed_out", "malformed"}}
Null == NoEntry("null")

\* Bug: only what keeps an entry from being read is an error.
StatusForgetsErr(answer) ==
    [failClosed |-> answer.reason # "ok", reason |-> answer.reason,
     level |-> answer.level, err |-> FALSE]

\* status(): no entry is a failure; an error on chain is an observation like
\* any other.
Status(answer) ==
    [failClosed |-> answer.reason # "ok", reason |-> answer.reason,
     level |-> answer.level, err |-> answer.err]

\* lifecycle_from_status.
Lifecycle(s) ==
    IF s.failClosed THEN (IF s.reason = "timed_out" THEN "timeout" ELSE "fail_closed")
    ELSE IF s.err THEN "failed" ELSE s.level

\* build_ai4_receipt, for a result without a status.
Unobserved(prepared, lifecycle) ==
    [binding |-> prepared.binding, decision |-> prepared.decision, lifecycle |-> lifecycle,
     signature |-> None, failClosed |-> lifecycle = "fail_closed"]

\* build_ai4_receipt and AI4Receipt.__post_init__, with one.
Observed(prepared, lifecycle, s, signature) ==
    [binding |-> prepared.binding, decision |-> prepared.decision,
     lifecycle |-> IF lifecycle \in Levels /\ s.err THEN "failed" ELSE lifecycle,
     signature |-> IF signature \in Signatures THEN signature ELSE None,
     failClosed |-> s.failClosed \/ lifecycle \in {"fail_closed", "timeout"}]

ObservedSuccess(receipt) == receipt.lifecycle \in Levels /\ ~receipt.failClosed
=============================================================================
