--------------------------- MODULE TransferProof ---------------------------
(***************************************************************************)
(* One run of the DevNet proof (ai4/transaction/devnet_e2e.py, main) from  *)
(* its arguments to its exit code: prepare, hand off, wait for the wallet, *)
(* prepare again, poll the status, give a receipt.                         *)
(*                                                                         *)
(* Around it are the wallet, which sends what the desktop page was written *)
(* for, as often as its button is pressed, and the chain, read through a   *)
(* node that may lag behind it.  A transaction that was only processed may *)
(* still be dropped.  The signature asked for is a public text the user    *)
(* pastes; a text that is not one is refused.                              *)
(***************************************************************************)
EXTENDS TransferRules

CONSTANTS
    Arguments,  \* command lines
    Cap,        \* PROOF_MAX_AMOUNT_SOL, in units: whole lamports
    MaxPolls    \* 256

ASSUME ProofAssumption ==
    /\ Cap \in Nat /\ Cap % UnitsPerLamport = 0 /\ MaxPolls \in Nat \ {0}
    /\ \A a \in Arguments : a.amount \in Int \cup {None}
    /\ None \notin Int
    /\ \A level \in Levels, err \in BOOLEAN : Entry(level, err) # None

VARIABLES
    pc,
    args,       \* the command line
    prepared,   \* result of the latest prepare
    signature,  \* the signature given, None before
    page,       \* binding the desktop page was written for, None before
    late,       \* whether the polling deadline has passed
    polls,
    held,       \* the latest observation of processed
    receipt,
    exit,
    chain,      \* signature -> its entry on chain, None before and when dropped
    seen,       \* signature -> the entries it has had, which a node may still report
    sent        \* signature -> the transfer it was sent for

program == <<pc, args, prepared, signature, page, late, polls, held, receipt, exit>>
world == <<chain, seen, sent>>
vars == <<program, world>>

-----------------------------------------------------------------------------
(* Arguments. *)

\* resolve_e2e_rpc_url: one URL, and not of another cluster.
RpcRefusal(a) ==
    LET url == IF a.rpcArg = None THEN a.rpcEnv ELSE a.rpcArg IN
    FirstRefusal(<<
        Check(a.rpcArg = None \/ a.rpcEnv = None \/ a.rpcArg = a.rpcEnv, "ambiguous"),
        Check(url # None, "no_rpc"),
        Check(url \notin {"credentials", "not_http", "no_host"}, "rpc_url"),
        Check(url \notin {"mainnet", "localnet"}, "rpc_host")>>)

\* require_devnet: nothing given means devnet.
DevnetRefusal(a) ==
    IF a.network = None THEN "ok"
    ELSE IF NetworkRefusal(a.network) # "ok" THEN "network"
    ELSE IF Cluster[a.network] = "devnet" THEN "ok" ELSE "network"

SignatureRefusal(text) == IF text \in Signatures THEN "ok" ELSE "signature"

ArgumentRefusal(a) ==
    IF DevnetRefusal(a) # "ok" THEN DevnetRefusal(a)
    ELSE IF RpcRefusal(a) # "ok" THEN RpcRefusal(a)
    ELSE IF a.signature = None THEN "ok" ELSE SignatureRefusal(a.signature)

Intent(a) ==
    [network |-> "devnet", asset |-> "SOL", action |-> "transfer", amount |-> a.amount,
     destination |-> a.destination, flags |-> {}]

-----------------------------------------------------------------------------

Init ==
    /\ args \in Arguments
    /\ pc = "start" /\ exit = None
    /\ prepared = None /\ signature = None /\ page = None
    /\ late = FALSE /\ polls = 0 /\ held = None /\ receipt = None
    /\ chain = [s \in Signatures |-> None]
    /\ seen = [s \in Signatures |-> {}]
    /\ sent = [s \in Signatures |-> None]

\* An error or a receipt that is no success is exit code 1.
Exit(code) == pc' = "ended" /\ exit' = code

Start ==
    /\ pc = "start"
    /\ IF ArgumentRefusal(args) = "ok" THEN pc' = "prepare" /\ UNCHANGED exit ELSE Exit(1)
    /\ signature' = IF args.prepareOnly THEN None ELSE args.signature
    /\ UNCHANGED <<args, prepared, page, late, polls, held, receipt, world>>

\* prepare_devnet_transfer.  The amount is parsed before the intent is made and
\* raises; any later refusal is a receipt of its own.
Prepare(fees, report) ==
    /\ pc = "prepare"
    /\ LET result == PrepareTransfer(Intent(args), Cap, "devnet", fees, report) IN
       IF AmountRefusal(args.amount) # "ok"
       THEN Exit(1) /\ UNCHANGED <<prepared, late, polls, held, receipt>>
       ELSE /\ prepared' = result
            /\ IF result.decision = "DENY"
               THEN /\ receipt' = Unobserved(result, "fail_closed")
                    /\ Exit(1) /\ UNCHANGED <<late, polls, held>>
               ELSE IF signature = None
               THEN /\ receipt' = Unobserved(result,
                            IF args.prepareOnly THEN "prepared" ELSE "awaiting_broadcast")
                    /\ pc' = "hand_off" /\ UNCHANGED <<exit, late, polls, held>>
               ELSE /\ pc' = "observe"
                    /\ late' = FALSE /\ polls' = 0 /\ held' = None
                    /\ UNCHANGED <<receipt, exit>>
    /\ UNCHANGED <<args, signature, page, world>>

\* write_desktop_handoff_html and the artifacts that are printed.  It comes
\* after the observation where the signature was an argument, and again there
\* where no page is written.
HandOff ==
    /\ pc = "hand_off"
    /\ \/ /\ page' = IF args.noPage THEN page ELSE prepared.binding
          /\ IF args.prepareOnly THEN Exit(0)
             ELSE IF signature = None THEN pc' = "prompt" /\ UNCHANGED exit
             ELSE pc' = "report" /\ UNCHANGED exit
       \/ ~args.noPage /\ Exit(1) /\ UNCHANGED page
    /\ UNCHANGED <<args, prepared, signature, late, polls, held, receipt, world>>

\* The user pastes a signature; run_devnet_e2e starts again with it.
Paste(text) ==
    /\ pc = "prompt"
    /\ IF SignatureRefusal(text) = "ok"
       THEN pc' = "prepare" /\ signature' = text /\ UNCHANGED exit
       ELSE Exit(1) /\ UNCHANGED signature
    /\ UNCHANGED <<args, prepared, page, late, polls, held, receipt, world>>

\* Without a terminal there is nobody to ask.
NobodyToAsk ==
    /\ pc = "prompt" /\ Exit(1)
    /\ UNCHANGED <<args, prepared, signature, page, late, polls, held, receipt, world>>

-----------------------------------------------------------------------------
(* observe_devnet_status. *)

Conclude(s, lifecycle) ==
    /\ receipt' = Observed(prepared, lifecycle, s, signature)
    /\ pc' = IF page = None THEN "hand_off" ELSE "report"

Again(s) == s.reason = "null" \/ (s.level = "processed" /\ ~s.err)

\* Bug: a signature not found starts the count again.
PollCountsFromMiss(answer) ==
    /\ pc = "observe"
    /\ LET s == Status(answer)
           h == IF Lifecycle(s) = "processed" THEN s ELSE held IN
       /\ held' = h
       /\ polls' = IF s.reason = "null" THEN 0 ELSE polls + 1
       /\ IF ~Again(s) \/ late THEN Conclude(s, Lifecycle(s))
          ELSE IF polls' < MaxPolls THEN UNCHANGED <<pc, receipt>>
          ELSE IF h # None THEN Conclude(h, "processed")
          ELSE Conclude(s, "timeout")
    /\ UNCHANGED <<args, prepared, signature, page, late, exit, world>>

\* One round: a signature not found or only processed is asked for again until
\* the deadline or the last poll.
Poll(answer) ==
    /\ pc = "observe"
    /\ LET s == Status(answer)
           h == IF Lifecycle(s) = "processed" THEN s ELSE held IN
       /\ held' = h
       /\ polls' = polls + 1
       /\ IF ~Again(s) \/ late THEN Conclude(s, Lifecycle(s))
          ELSE IF polls' < MaxPolls THEN UNCHANGED <<pc, receipt>>
          ELSE IF h # None THEN Conclude(h, "processed")
          ELSE Conclude(s, "timeout")
    /\ UNCHANGED <<args, prepared, signature, page, late, exit, world>>

DeadlinePasses ==
    /\ pc = "observe" /\ ~late
    /\ late' = TRUE
    /\ UNCHANGED <<pc, args, prepared, signature, page, polls, held, receipt, exit, world>>

\* Bug: only a receipt that failed closed is a failure.
ReportFailedAsDone ==
    /\ pc = "report"
    /\ Exit(IF receipt.failClosed THEN 1 ELSE 0)
    /\ UNCHANGED <<args, prepared, signature, page, late, polls, held, receipt, world>>

Report ==
    /\ pc = "report"
    /\ Exit(IF receipt.failClosed \/ receipt.lifecycle = "failed" THEN 1 ELSE 0)
    /\ UNCHANGED <<args, prepared, signature, page, late, polls, held, receipt, world>>

-----------------------------------------------------------------------------
(* The wallet and the chain. *)

\* Bug: the page asks for the amount it shows, in whole lamports rounded up.
PressRoundsUp(s) ==
    /\ page # None /\ sent[s] = None
    /\ sent' = [sent EXCEPT ![s] = [lamports |-> (page.amount + UnitsPerLamport - 1) \div UnitsPerLamport,
                                    destination |-> page.destination]]
    /\ UNCHANGED <<program, chain, seen>>

\* sendApproved: nothing keeps the button from being pressed again.
Press(s) ==
    /\ page # None /\ sent[s] = None
    /\ sent' = [sent EXCEPT ![s] = [lamports |-> page.lamports, destination |-> page.destination]]
    /\ UNCHANGED <<program, chain, seen>>

\* A signature given as an argument was sent for an earlier run's page.
SentBefore(s) ==
    /\ args.signature = s /\ sent[s] = None
    /\ \E d \in Keys : sent' = [sent EXCEPT ![s] = [lamports |-> 1, destination |-> d]]
    /\ UNCHANGED <<program, chain, seen>>

Reach(s, entry) ==
    /\ chain' = [chain EXCEPT ![s] = entry]
    /\ seen' = [seen EXCEPT ![s] = IF entry = None THEN @ ELSE @ \cup {entry}]
    /\ UNCHANGED <<program, sent>>

Lands(s) ==
    /\ sent[s] # None /\ chain[s] = None
    /\ \E err \in BOOLEAN : Reach(s, Entry("processed", err))

Deepens(s) ==
    /\ chain[s] # None
    /\ \/ chain[s].level = "processed" /\ Reach(s, [chain[s] EXCEPT !.level = "confirmed"])
       \/ chain[s].level = "confirmed" /\ Reach(s, [chain[s] EXCEPT !.level = "finalized"])

Dropped(s) ==
    /\ chain[s] # None /\ chain[s].level = "processed"
    /\ Reach(s, None)

Answers(s) == seen[s] \cup Faults \cup {Null}

PollStep == pc = "observe" /\ \E answer \in Answers(signature) : Poll(answer)
PrepareStep == \E fees \in FeeAnswers, report \in Reports : Prepare(fees, report)

Next ==
    \/ Start \/ PrepareStep \/ HandOff \/ PollStep \/ DeadlinePasses \/ Report
    \/ \E text \in Signatures \cup {"secret", "malformed"} : Paste(text)
    \/ NobodyToAsk
    \/ \E s \in Signatures : Press(s) \/ SentBefore(s) \/ Lands(s) \/ Deepens(s) \/ Dropped(s)

\* The program runs on and every call to the node returns (it has a timeout);
\* nothing is owed by the user, the wallet or the chain.
Spec ==
    /\ Init /\ [][Next]_vars
    /\ WF_vars(Start) /\ WF_vars(PrepareStep) /\ WF_vars(HandOff)
    /\ WF_vars(PollStep) /\ WF_vars(Report)

-----------------------------------------------------------------------------

\* What a receipt says was observed has happened on chain, though the node may
\* lag and processed transactions may be dropped: confirmed and finalized are
\* still so, a failure is one, and nothing is said of a transaction that failed
\* ("A failed on-chain transaction is not represented as a successful
\* confirmation", docs/transaction-devnet-e2e.md).
ReceiptIsOnChain ==
    receipt # None /\ receipt.signature # None =>
        LET entry == chain[receipt.signature] IN
        /\ receipt.lifecycle \in {"confirmed", "finalized"} =>
               entry # None /\ ~entry.err /\ entry.level \in {"confirmed", "finalized"}
        /\ receipt.lifecycle = "finalized" => entry.level = "finalized"
        /\ receipt.lifecycle = "processed" =>
               \E e \in seen[receipt.signature] : ~e.err
        /\ receipt.lifecycle = "failed" =>
               \E e \in seen[receipt.signature] : e.err

\* What the wallet is asked to send is what the command line says, however often
\* the button is pressed: its destination, and its very amount, positive and
\* within the cap.  Only an amount that is written with more significant digits
\* than the Decimal context keeps (28), and that is not whole lamports, may be
\* sent as the lamports next to it, less than half a lamport off; "has more than
\* 9 decimals" (docs/transaction-control.md) would have it denied.
SentAsApproved ==
    \A s \in Signatures : sent[s] # None /\ args.signature # s =>
        LET asked == sent[s].lamports * UnitsPerLamport
            exact == asked = args.amount
            next  == /\ args.amount % UnitsPerLamport # 0
                     /\ args.amount >= Tens[Precision]
                     /\ 2 * (asked - args.amount) < UnitsPerLamport
                     /\ 2 * (args.amount - asked) < UnitsPerLamport
        IN /\ sent[s].destination = args.destination
           /\ asked \in 1..Cap
           /\ exact \/ next

\* Exit code 0 means that the transfer was handed off, and without --prepare-only
\* that the signature given was seen on chain without an error.
ExitZeroIsSuccess ==
    exit = 0 =>
        /\ prepared.decision = "ALLOW" /\ (args.noPage \/ page = prepared.binding)
        /\ ~args.prepareOnly => ObservedSuccess(receipt) /\ \E e \in seen[signature] : ~e.err

\* The observation ends, even of a signature no node ever finds.
ObservationEnds == (pc = "observe") ~> (pc # "observe")
=============================================================================
