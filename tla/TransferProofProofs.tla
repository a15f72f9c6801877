------------------------ MODULE TransferProofProofs ------------------------
(***************************************************************************)
(* What TransferProof guarantees for every set of command lines, of keys   *)
(* and of signatures, and for polls of any number.                         *)
(*                                                                         *)
(* The invariant says what a chain never takes back: an entry that was     *)
(* confirmed stays, with its error or without.  An answer of a lagging     *)
(* node is an entry the transaction has had, so what a receipt says of it  *)
(* is still so, or was so once, as the case may be.                        *)
(* What the wallet was asked for is what the page was written for, which   *)
(* is the approved intent, rounded as the Decimal context rounds.          *)
(***************************************************************************)
EXTENDS TransferProof, WellFoundedInduction, TLAPS

Entries == {Entry(level, err) : level \in Levels, err \in BOOLEAN}
Settled == {"confirmed", "finalized"}

ChainTypes ==
    /\ chain \in [Signatures -> Entries \cup {None}]
    /\ seen \in [Signatures -> SUBSET Entries]

\* A transaction is on chain as it was seen last, and what was seen settled
\* stays settled, as it came out.
ChainOf(s) ==
    /\ chain[s] # None => chain[s] \in seen[s]
    /\ \A e \in seen[s] : e.level \in Settled =>
         /\ chain[s] # None /\ chain[s].err = e.err /\ chain[s].level \in Settled
         /\ e.level = "finalized" => chain[s].level = "finalized"

ChainInv == ChainTypes /\ \A s \in Signatures : ChainOf(s)

\* What was approved is what the command line says.
Approved == Normalized(Intent(args))
Valid == ValidationRefusal(Intent(args), Cap) = "ok" /\ args.amount \in Int

\* The receipt of an observation says what the chain bears out.
Grounded ==
    /\ signature \in Signatures /\ receipt.signature = signature
    /\ receipt.lifecycle \in Levels \cup {"failed", "timeout", "fail_closed"}
    /\ receipt.lifecycle \in {"timeout", "fail_closed"} => receipt.failClosed
    /\ receipt.lifecycle \in Settled =>
         /\ chain[signature] # None /\ ~chain[signature].err
         /\ chain[signature].level \in Settled
    /\ receipt.lifecycle = "finalized" => chain[signature].level = "finalized"
    /\ receipt.lifecycle \in Levels => \E e \in seen[signature] : ~e.err
    /\ receipt.lifecycle = "failed" => \E e \in seen[signature] : e.err

\* How far the program is, and what it has by then.
ProgramInv ==
    /\ args \in Arguments
    /\ pc # "ended" => exit = None
    /\ pc = "start" => receipt = None /\ page = None
    /\ pc \in {"prepare", "hand_off"} => signature \in Signatures \cup {None}
    /\ pc = "prompt" => signature = None
    /\ pc = "observe" => signature \in Signatures
    /\ pc \in {"hand_off", "prompt", "observe", "report"} => Valid /\ prepared = Allowed(Approved)
    /\ page # None => Valid /\ page = Approved
    /\ pc = "report" => args.noPage \/ page = Approved
    /\ exit = 0 /\ ~args.prepareOnly => signature \in Signatures

\* A receipt without a signature says nothing of the chain.
ReceiptInv ==
    /\ receipt = None \/ receipt.signature = None \/ Grounded
    /\ pc = "report" \/ (pc = "hand_off" /\ signature # None) => Grounded

\* The observation of processed that is held was made.
HeldInv ==
    pc = "observe" =>
        held = None \/ (held.err = FALSE /\ \E e \in seen[signature] : ~e.err)

\* What was sent for this run is what was approved.
SentInv ==
    /\ sent = [s \in Signatures |-> sent[s]]
    /\ \A s \in Signatures : sent[s] # None /\ args.signature # s =>
         Valid /\ sent[s].lamports = Approved.lamports /\ sent[s].destination = Approved.destination

IInv == ChainInv /\ ProgramInv /\ ReceiptInv /\ HeldInv /\ SentInv /\ ExitZeroIsSuccess
-----------------------------------------------------------------------------
(* The chain. *)

LEMMA EntriesAre ==
    /\ None \notin Entries
    /\ \A e \in Entries : /\ e.level \in Levels /\ e.err \in BOOLEAN /\ e.reason = "ok"
                          /\ e = Entry(e.level, e.err)
BY ProofAssumption DEF Entries, Entry

\* What a step of the chain leaves true of a transaction.
Onward(q) ==
    /\ seen[q] \subseteq seen'[q]
    /\ chain[q] # None /\ chain[q].level \in Settled =>
         /\ chain'[q] # None /\ chain'[q].err = chain[q].err /\ chain'[q].level \in Settled
         /\ chain[q].level = "finalized" => chain'[q].level = "finalized"

\* A transaction that is only processed may come to anything.
LEMMA FromProcessed ==
    ASSUME ChainInv, NEW s \in Signatures, chain[s] = None \/ chain[s].level = "processed",
           NEW entry \in Entries, Reach(s, entry)
    PROVE  ChainInv' /\ \A q \in Signatures : Onward(q)
<1>1. entry # None
  BY EntriesAre
<1>2. /\ ChainTypes' /\ chain'[s] = entry /\ seen'[s] = seen[s] \cup {entry}
      /\ \A q \in Signatures \ {s} : chain'[q] = chain[q] /\ seen'[q] = seen[q]
  BY <1>1 DEF ChainInv, ChainTypes, Reach
<1>3. \A e \in seen[s] : e.level \notin Settled
  BY DEF ChainInv, ChainOf, Settled
<1>4. ChainOf(s)'
  BY <1>1, <1>2, <1>3 DEF ChainOf, Settled
<1>5. ASSUME NEW q \in Signatures \ {s} PROVE ChainOf(q)' /\ Onward(q)
  BY <1>2 DEF ChainInv, ChainOf, Onward
<1>6. Onward(s)
  BY <1>2 DEF Onward, Settled
<1> QED BY <1>2, <1>4, <1>5, <1>6 DEF ChainInv

\* One that is confirmed can only be finalized.
LEMMA FromConfirmed ==
    ASSUME ChainInv, NEW s \in Signatures, chain[s] # None, chain[s].level = "confirmed",
           Reach(s, [chain[s] EXCEPT !.level = "finalized"])
    PROVE  ChainInv' /\ \A q \in Signatures : Onward(q)
<1> DEFINE entry == [chain[s] EXCEPT !.level = "finalized"]
<1>1. chain[s] \in Entries
  BY DEF ChainInv, ChainTypes
<1>2. entry = Entry("finalized", chain[s].err) /\ chain[s].err \in BOOLEAN
  BY <1>1, EntriesAre DEF Entries, Entry
<1>3. entry \in Entries
  BY <1>2 DEF Entries, Levels
<1>4. entry # None /\ entry.level = "finalized" /\ entry.err = chain[s].err
  BY <1>2, <1>3, EntriesAre DEF Entry
<1> HIDE DEF entry
<1>5. /\ ChainTypes' /\ chain'[s] = entry /\ seen'[s] = seen[s] \cup {entry}
      /\ \A q \in Signatures \ {s} : chain'[q] = chain[q] /\ seen'[q] = seen[q]
  BY <1>3, <1>4 DEF ChainInv, ChainTypes, Reach, entry
<1>6. ChainOf(s)'
  BY <1>4, <1>5 DEF ChainInv, ChainOf, Settled
<1>7. ASSUME NEW q \in Signatures \ {s} PROVE ChainOf(q)' /\ Onward(q)
  BY <1>5 DEF ChainInv, ChainOf, Onward
<1>8. Onward(s)
  BY <1>4, <1>5 DEF Onward, Settled
<1> QED BY <1>5, <1>6, <1>7, <1>8 DEF ChainInv

LEMMA WhenDropped ==
    ASSUME ChainInv, NEW s \in Signatures, Dropped(s)
    PROVE  ChainInv' /\ \A q \in Signatures : Onward(q)
<1>1. chain[s].level = "processed" /\ Reach(s, None)
  BY DEF Dropped
<1>2. /\ ChainTypes' /\ chain'[s] = None /\ seen'[s] = seen[s]
      /\ \A q \in Signatures \ {s} : chain'[q] = chain[q] /\ seen'[q] = seen[q]
  BY <1>1 DEF ChainInv, ChainTypes, Reach
<1>3. \A e \in seen[s] : e.level \notin Settled
  BY <1>1 DEF ChainInv, ChainOf, Settled
<1>4. ChainOf(s)' /\ Onward(s)
  BY <1>1, <1>2, <1>3 DEF ChainOf, Onward, Settled
<1>5. ASSUME NEW q \in Signatures \ {s} PROVE ChainOf(q)' /\ Onward(q)
  BY <1>2 DEF ChainInv, ChainOf, Onward
<1> QED BY <1>2, <1>4, <1>5 DEF ChainInv

LEMMA ChainMoves ==
    ASSUME ChainInv, NEW s \in Signatures, Lands(s) \/ Deepens(s) \/ Dropped(s)
    PROVE  ChainInv' /\ \A q \in Signatures : Onward(q)
<1>1. CASE Lands(s)
  <2>1. PICK err \in BOOLEAN : Reach(s, Entry("processed", err))
    BY <1>1 DEF Lands
  <2>2. Entry("processed", err) \in Entries
    BY DEF Entries, Levels
  <2> QED BY <1>1, <2>1, <2>2, FromProcessed DEF Lands
<1>2. CASE Deepens(s)
  <2>1. CASE chain[s].level = "processed" /\ Reach(s, [chain[s] EXCEPT !.level = "confirmed"])
    <3>1. chain[s] \in Entries
      BY <1>2 DEF ChainInv, ChainTypes, Deepens
    <3>2. [chain[s] EXCEPT !.level = "confirmed"] = Entry("confirmed", chain[s].err)
      BY <3>1 DEF Entries, Entry
    <3>3. chain[s].err \in BOOLEAN
      BY <3>1, EntriesAre
    <3>4. [chain[s] EXCEPT !.level = "confirmed"] \in Entries
      BY <3>2, <3>3 DEF Entries, Levels
    <3> QED BY <2>1, <3>4, FromProcessed
  <2> QED BY <1>2, <2>1, FromConfirmed DEF Deepens
<1> QED BY <1>1, <1>2, WhenDropped

-----------------------------------------------------------------------------
(* The world moves while the program stands. *)

LEMMA GroundStays ==
    ASSUME IInv, Grounded, UNCHANGED <<receipt, signature>>, \A q \in Signatures : Onward(q)
    PROVE  Grounded'
<1>1. signature \in Signatures /\ Onward(signature)
  BY DEF Grounded
<1>2. /\ receipt.lifecycle \in Settled =>
           /\ chain'[signature] # None /\ chain'[signature].err = chain[signature].err
           /\ chain'[signature].level \in Settled
      /\ receipt.lifecycle = "finalized" => chain'[signature].level = "finalized"
  BY <1>1 DEF Grounded, Onward, Settled
<1> QED BY <1>1, <1>2 DEF Grounded, Onward

LEMMA WorldStep ==
    ASSUME IInv, UNCHANGED program, ChainInv', \A q \in Signatures : Onward(q), SentInv'
    PROVE  IInv'
<1>1. UNCHANGED <<pc, args, prepared, signature, page, late, polls, held, receipt, exit>>
  BY DEF program
<1>2. ProgramInv'
  BY <1>1 DEF IInv, ProgramInv, Valid, Approved
<1>3. ReceiptInv'
  BY <1>1, GroundStays DEF IInv, ReceiptInv
<1>4. HeldInv'
  <2> SUFFICES ASSUME pc = "observe", held # None
               PROVE  held.err = FALSE /\ \E e \in seen'[signature] : ~e.err
    BY <1>1 DEF HeldInv
  <2>1. signature \in Signatures /\ held.err = FALSE /\ \E e \in seen[signature] : ~e.err
    BY DEF IInv, HeldInv, ProgramInv
  <2> QED BY <2>1 DEF Onward
<1>5. ExitZeroIsSuccess'
  <2> SUFFICES ASSUME exit = 0, ~args.prepareOnly
               PROVE  \E e \in seen'[signature] : ~e.err
    BY <1>1 DEF IInv, ExitZeroIsSuccess
  <2>1. \E e \in seen[signature] : ~e.err
    BY DEF IInv, ExitZeroIsSuccess
  <2>2. signature \in Signatures
    BY DEF IInv, ProgramInv
  <2> QED BY <2>1, <2>2 DEF Onward
<1> QED BY <1>2, <1>3, <1>4, <1>5 DEF IInv
-----------------------------------------------------------------------------
(* The program. *)

\* A program step leaves the world and the command line alone; where it does
\* not exit with 0, nothing is claimed of it.
LEMMA ProgramStep ==
    ASSUME IInv, UNCHANGED <<args, world>>, exit' # 0, ProgramInv', ReceiptInv', HeldInv'
    PROVE  IInv'
<1>1. UNCHANGED <<chain, seen, sent>>
  BY DEF world
<1>2. ChainInv'
  BY <1>1 DEF IInv, ChainInv, ChainTypes, ChainOf
<1>3. SentInv'
  BY <1>1 DEF IInv, SentInv, Valid, Approved
<1>4. ExitZeroIsSuccess'
  BY DEF ExitZeroIsSuccess
<1> QED BY <1>2, <1>3, <1>4 DEF IInv

LEMMA NoneIsNoCode == None # 0 /\ None # 1
BY ProofAssumption

\* A step that ends the program with code 1.
LEMMA FailStep ==
    ASSUME IInv, pc # "ended", UNCHANGED <<args, world>>, pc' = "ended", exit' = 1,
           page' = page, receipt' = None \/ receipt'.signature = None
                           \/ UNCHANGED <<receipt, signature>>
    PROVE  IInv'
<1>1. ProgramInv'
  BY DEF IInv, ProgramInv, Valid, Approved
<1>2. HeldInv'
  BY DEF HeldInv
<1>3. ReceiptInv'
  <2>1. Grounded /\ UNCHANGED <<receipt, signature>> => Grounded'
    BY DEF Grounded, world
  <2> QED BY <2>1 DEF IInv, ReceiptInv
<1> QED BY <1>1, <1>2, <1>3, ProgramStep

LEMMA StartStep == ASSUME IInv, Start PROVE IInv'
<1>1. /\ pc = "start" /\ receipt = None /\ page = None /\ exit = None /\ args \in Arguments
      /\ UNCHANGED <<args, page, receipt, world>>
  BY DEF IInv, ProgramInv, Start
<1>2. CASE ArgumentRefusal(args) # "ok"
  <2>1. pc' = "ended" /\ exit' = 1
    BY <1>2 DEF Start, Exit
  <2> QED BY <1>1, <2>1, FailStep
<1>3. CASE ArgumentRefusal(args) = "ok"
  <2>1. pc' = "prepare" /\ exit' = exit
    BY <1>3 DEF Start
  <2>2. args.signature \in Signatures \cup {None}
    BY <1>3 DEF ArgumentRefusal, SignatureRefusal
  <2>3. signature' \in Signatures \cup {None}
    BY <2>2 DEF Start
  <2>4. ProgramInv'
    BY <1>1, <2>1, <2>3, NoneIsNoCode DEF ProgramInv
  <2>5. ReceiptInv' /\ HeldInv'
    BY <1>1, <2>1 DEF ReceiptInv, HeldInv
  <2> QED BY <1>1, <2>1, <2>4, <2>5, NoneIsNoCode, ProgramStep
<1> QED BY <1>2, <1>3

\* What is prepared is what the command line says, or denied.
LEMMA PrepareIs ==
    ASSUME NEW rpc, NEW fees, NEW said, args \in Arguments, AmountRefusal(args.amount) = "ok",
           PrepareTransfer(Intent(args), Cap, rpc, fees, said).decision # "DENY"
    PROVE  /\ PrepareTransfer(Intent(args), Cap, rpc, fees, said) = Allowed(Approved)
           /\ Valid
<1>1. args.amount \in Int
  <2>1. args.amount # None
    BY DEF AmountRefusal
  <2> QED BY <2>1, ProofAssumption
<1>2. \A reason : Denied(reason).decision = "DENY"
  BY DEF Denied
<1>3. ValidationRefusal(Intent(args), Cap) = "ok"
  BY <1>2 DEF PrepareTransfer
<1>4. PrepareTransfer(Intent(args), Cap, rpc, fees, said) = Allowed(Approved)
  BY <1>2, <1>3 DEF PrepareTransfer, Approved
<1> QED BY <1>1, <1>3, <1>4 DEF Valid

LEMMA PreparedStep ==
    ASSUME IInv, NEW fees, NEW said, Prepare(fees, said)
    PROVE  IInv'
<1> DEFINE prep == PrepareTransfer(Intent(args), Cap, "devnet", fees, said)
<1>1. /\ pc = "prepare" /\ UNCHANGED <<args, signature, page, world>>
      /\ args \in Arguments /\ exit = None /\ signature \in Signatures \cup {None}
      /\ page # None => Valid /\ page = Approved
  BY DEF IInv, ProgramInv, Prepare
<1>2. CASE AmountRefusal(args.amount) # "ok"
  <2>1. pc' = "ended" /\ exit' = 1 /\ receipt' = receipt
    BY <1>2 DEF Prepare, Exit
  <2> QED BY <1>1, <2>1, FailStep
<1>3. CASE AmountRefusal(args.amount) = "ok" /\ prep.decision = "DENY"
  <2>1. pc' = "ended" /\ exit' = 1 /\ receipt' = Unobserved(prep, "fail_closed")
    BY <1>3 DEF Prepare, Exit
  <2>2. receipt'.signature = None
    BY <2>1 DEF Unobserved
  <2> QED BY <1>1, <2>1, <2>2, FailStep
<1>4. CASE AmountRefusal(args.amount) = "ok" /\ prep.decision # "DENY"
  <2>1. prepared' = Allowed(Approved) /\ Valid
    BY <1>1, <1>4, PrepareIs DEF Prepare
  <2>2. Approved' = Approved /\ Valid'
    BY <1>1, <2>1 DEF Approved, Valid
  <2>3. CASE signature = None
    <3>1. /\ pc' = "hand_off" /\ exit' = exit
          /\ \E lifecycle : receipt' = Unobserved(prep, lifecycle)
      BY <1>4, <2>3 DEF Prepare
    <3>2. receipt'.signature = None
      BY <3>1 DEF Unobserved
    <3>3. ProgramInv'
      BY <1>1, <2>1, <2>2, <3>1, NoneIsNoCode DEF ProgramInv
    <3>4. ReceiptInv' /\ HeldInv'
      BY <1>1, <2>3, <3>1, <3>2 DEF ReceiptInv, HeldInv
    <3> QED BY <1>1, <3>1, <3>3, <3>4, NoneIsNoCode, ProgramStep
  <2>4. CASE signature # None
    <3>1. pc' = "observe" /\ exit' = exit /\ held' = None /\ receipt' = receipt
      BY <1>4, <2>4 DEF Prepare
    <3>2. ProgramInv'
      BY <1>1, <2>1, <2>2, <2>4, <3>1, NoneIsNoCode DEF ProgramInv
    <3>3. ReceiptInv'
      <4>1. Grounded => Grounded'
        BY <1>1, <3>1 DEF Grounded, world
      <4> QED BY <3>1, <4>1 DEF IInv, ReceiptInv
    <3>4. HeldInv'
      BY <3>1 DEF HeldInv
    <3> QED BY <1>1, <3>1, <3>2, <3>3, <3>4, NoneIsNoCode, ProgramStep
  <2> QED BY <2>3, <2>4
<1> QED BY <1>2, <1>3, <1>4

LEMMA PasteStep ==
    ASSUME IInv, NEW text, Paste(text) \/ NobodyToAsk
    PROVE  IInv'
<1>1. /\ pc = "prompt" /\ signature = None /\ exit = None
      /\ UNCHANGED <<args, prepared, page, receipt, world>>
  BY DEF IInv, ProgramInv, Paste, NobodyToAsk
<1>2. receipt = None \/ receipt.signature = None
  BY <1>1, RulesAssumption DEF IInv, ReceiptInv, Grounded
<1>3. CASE pc' = "ended" /\ exit' = 1
  BY <1>1, <1>2, <1>3, FailStep
<1>4. CASE pc' = "prepare" /\ signature' = text /\ exit' = exit /\ text \in Signatures
  <2>1. ProgramInv'
    BY <1>1, <1>4, NoneIsNoCode DEF IInv, ProgramInv, Valid, Approved
  <2>2. ReceiptInv' /\ HeldInv'
    BY <1>1, <1>2, <1>4 DEF ReceiptInv, HeldInv
  <2> QED BY <1>1, <1>4, <2>1, <2>2, NoneIsNoCode, ProgramStep
<1> QED BY <1>3, <1>4 DEF Paste, NobodyToAsk, SignatureRefusal, Exit
LEMMA HandOffStep == ASSUME IInv, HandOff PROVE IInv'
<1>1. /\ pc = "hand_off" /\ exit = None /\ args \in Arguments
      /\ signature \in Signatures \cup {None}
      /\ Valid /\ prepared = Allowed(Approved) /\ (page # None => page = Approved)
      /\ UNCHANGED <<args, prepared, signature, receipt, world>>
      /\ Valid' /\ Approved' = Approved
  BY DEF IInv, ProgramInv, HandOff, Valid, Approved
<1>2. /\ prepared.binding = Approved /\ prepared.decision = "ALLOW"
  BY <1>1 DEF Allowed
<1>3. Grounded => Grounded'
  BY <1>1 DEF Grounded, world
<1>4. CASE pc' = "ended" /\ exit' = 1 /\ page' = page
  BY <1>1, <1>4, FailStep
<1>5. CASE ~(pc' = "ended" /\ exit' = 1 /\ page' = page)
  <2>1. page' = IF args.noPage THEN page ELSE Approved
    BY <1>2, <1>5 DEF HandOff, Exit
  <2>2. page' # None => Valid' /\ page' = Approved'
    BY <1>1, <2>1
  <2>3. CASE args.prepareOnly
    <3>1. pc' = "ended" /\ exit' = 0
      BY <1>5, <2>3 DEF HandOff, Exit
    <3>2. ProgramInv'
      BY <1>1, <2>2, <2>3, <3>1 DEF ProgramInv
    <3>3. ReceiptInv' /\ HeldInv'
      BY <1>1, <1>3, <3>1 DEF IInv, ReceiptInv, HeldInv
    <3>4. ExitZeroIsSuccess'
      BY <1>1, <1>2, <2>1, <2>3 DEF ExitZeroIsSuccess
    <3>5. ChainInv' /\ SentInv'
      BY <1>1 DEF IInv, world, ChainInv, ChainTypes, ChainOf, SentInv
    <3> QED BY <3>2, <3>3, <3>4, <3>5 DEF IInv
  <2>4. CASE ~args.prepareOnly
    <3>1. exit' = exit /\ pc' = IF signature = None THEN "prompt" ELSE "report"
      BY <1>5, <2>4 DEF HandOff, Exit
    <3>2. ProgramInv'
      BY <1>1, <2>1, <2>2, <3>1, NoneIsNoCode DEF ProgramInv
    <3>3. ReceiptInv' /\ HeldInv'
      BY <1>1, <1>3, <3>1 DEF IInv, ReceiptInv, HeldInv
    <3> QED BY <1>1, <3>1, <3>2, <3>3, NoneIsNoCode, ProgramStep
  <2> QED BY <2>3, <2>4
<1> QED BY <1>4, <1>5

\* A status of a level and without an error is one of an entry that was seen.
LEMMA StatusIsSeen ==
    ASSUME IInv, pc = "observe", NEW answer \in Answers(signature)
    PROVE  LET s == Status(answer) IN
           /\ Lifecycle(s) \in Levels \cup {"failed", "timeout", "fail_closed"}
           /\ Lifecycle(s) \in {"timeout", "fail_closed"} <=> s.failClosed
           /\ Lifecycle(s) \in Levels => s.err = FALSE
           /\ Lifecycle(s) \in Levels \cup {"failed"} =>
                \E e \in seen[signature] :
                    /\ e.err <=> Lifecycle(s) = "failed"
                    /\ Lifecycle(s) \in Levels => e.level = Lifecycle(s)
<1>1. signature \in Signatures /\ seen[signature] \subseteq Entries
  BY DEF IInv, ProgramInv, ChainInv, ChainTypes
<1>2. CASE answer \in seen[signature]
  <2>1. answer.level \in Levels /\ answer.err \in BOOLEAN /\ answer.reason = "ok"
    BY <1>1, <1>2, EntriesAre
  <2>2. Status(answer).err = answer.err /\ Status(answer).failClosed = FALSE
    BY <2>1 DEF Status
  <2>3. CASE answer.err = TRUE
    <3>1. Lifecycle(Status(answer)) = "failed"
      BY <2>1, <2>3 DEF Lifecycle, Status
    <3> QED BY <1>2, <2>2, <2>3, <3>1 DEF Levels
  <2>4. CASE answer.err = FALSE
    <3>1. Lifecycle(Status(answer)) = answer.level
      BY <2>1, <2>4 DEF Lifecycle, Status
    <3> QED BY <1>2, <2>1, <2>2, <2>4, <3>1 DEF Levels
  <2> QED BY <2>1, <2>3, <2>4
<1>3. CASE answer \in Faults \cup {Null}
  <2>1. answer.reason # "ok"
    BY <1>3 DEF Faults, Null, NoEntry
  <2>2. Status(answer).failClosed = TRUE
    BY <2>1 DEF Status
  <2>3. Lifecycle(Status(answer)) \in {"timeout", "fail_closed"}
    BY <2>2 DEF Lifecycle
  <2> QED BY <2>2, <2>3 DEF Levels
<1> QED BY <1>2, <1>3 DEF Answers

\* A receipt that is given rests on the chain.
LEMMA ConcludeGrounds ==
    ASSUME IInv, pc = "observe", UNCHANGED <<signature, world>>,
           NEW s, NEW lifecycle \in Levels \cup {"failed", "timeout", "fail_closed"},
           lifecycle \in {"fail_closed"} => s.failClosed,
           lifecycle \in Levels => s.err = FALSE /\ \E e \in seen[signature] :
                                        ~e.err /\ (lifecycle \in Settled => e.level = lifecycle),
           lifecycle = "failed" => \E e \in seen[signature] : e.err,
           receipt' = Observed(prepared, lifecycle, s, signature)
    PROVE  Grounded'
<1>1. signature \in Signatures /\ ChainOf(signature)
  BY DEF IInv, ProgramInv, ChainInv
<1>2. /\ receipt'.lifecycle = lifecycle /\ receipt'.signature = signature
      /\ lifecycle \in {"timeout", "fail_closed"} => receipt'.failClosed
  BY <1>1 DEF Observed, Levels
<1>3. lifecycle \in Settled =>
        /\ chain[signature] # None /\ ~chain[signature].err
        /\ chain[signature].level \in Settled
        /\ lifecycle = "finalized" => chain[signature].level = "finalized"
  <2> SUFFICES ASSUME lifecycle \in Settled
               PROVE  /\ chain[signature] # None /\ ~chain[signature].err
                      /\ chain[signature].level \in Settled
                      /\ lifecycle = "finalized" => chain[signature].level = "finalized"
    OBVIOUS
  <2>1. PICK e \in seen[signature] : ~e.err /\ e.level = lifecycle
    BY DEF Settled, Levels
  <2> QED BY <1>1, <2>1 DEF ChainOf
<1> QED BY <1>1, <1>2, <1>3 DEF Grounded, world, Settled

LEMMA PollingStep ==
    ASSUME IInv, NEW answer \in Answers(signature), Poll(answer)
    PROVE  IInv'
<1> DEFINE s == Status(answer)
           h == IF Lifecycle(s) = "processed" THEN s ELSE held
<1>1. /\ pc = "observe" /\ exit = None /\ signature \in Signatures /\ args \in Arguments
      /\ Valid /\ prepared = Allowed(Approved) /\ (page # None => page = Approved)
      /\ UNCHANGED <<args, prepared, signature, page, late, exit, world>>
      /\ Valid' /\ Approved' = Approved /\ held' = h
  BY DEF IInv, ProgramInv, Poll, Valid, Approved
<1>2. /\ Lifecycle(s) \in Levels \cup {"failed", "timeout", "fail_closed"}
      /\ Lifecycle(s) \in {"timeout", "fail_closed"} <=> s.failClosed
      /\ Lifecycle(s) \in Levels => s.err = FALSE
      /\ Lifecycle(s) \in Levels \cup {"failed"} =>
           \E e \in seen[signature] :
               /\ e.err <=> Lifecycle(s) = "failed"
               /\ Lifecycle(s) \in Levels => e.level = Lifecycle(s)
  BY <1>1, StatusIsSeen
<1> HIDE DEF s
<1>3. h = None \/ (h.err = FALSE /\ \E e \in seen[signature] : ~e.err)
  <2>1. CASE Lifecycle(s) = "processed"
    BY <1>2, <2>1 DEF Levels
  <2>2. CASE Lifecycle(s) # "processed"
    BY <1>1, <2>2 DEF IInv, HeldInv
  <2> QED BY <2>1, <2>2
<1>4. HeldInv'
  BY <1>1, <1>3 DEF HeldInv, world
<1> HIDE DEF h
<1>5. CASE UNCHANGED <<pc, receipt>>
  <2>1. ProgramInv'
    BY <1>1, <1>5, NoneIsNoCode DEF ProgramInv
  <2>2. Grounded => Grounded'
    BY <1>1, <1>5 DEF Grounded, world
  <2>3. ReceiptInv'
    BY <1>1, <1>5, <2>2 DEF IInv, ReceiptInv
  <2> QED BY <1>1, <1>4, <2>1, <2>3, NoneIsNoCode, ProgramStep
<1>6. ASSUME Grounded', pc' = IF page = None THEN "hand_off" ELSE "report"
      PROVE  IInv'
  <2>1. ProgramInv'
    BY <1>1, <1>6, NoneIsNoCode DEF ProgramInv
  <2>2. ReceiptInv'
    BY <1>6 DEF ReceiptInv
  <2> QED BY <1>1, <1>4, <2>1, <2>2, NoneIsNoCode, ProgramStep
<1>7. CASE Conclude(s, Lifecycle(s))
  <2>1. Grounded'
    <3>1. Lifecycle(s) \in Levels => s.err = FALSE /\ \E e \in seen[signature] :
            ~e.err /\ (Lifecycle(s) \in Settled => e.level = Lifecycle(s))
      BY <1>2 DEF Levels
    <3>2. Lifecycle(s) = "failed" => \E e \in seen[signature] : e.err
      BY <1>2
    <3>3. receipt' = Observed(prepared, Lifecycle(s), s, signature)
      BY <1>7 DEF Conclude
    <3> QED BY <1>1, <1>2, <3>1, <3>2, <3>3, ConcludeGrounds
  <2> QED BY <1>6, <1>7, <2>1 DEF Conclude
<1>8. CASE h # None /\ Conclude(h, "processed")
  <2>1. Grounded'
    <3>1. h.err = FALSE /\ \E e \in seen[signature] : ~e.err
      BY <1>3, <1>8
    <3>2. receipt' = Observed(prepared, "processed", h, signature)
      BY <1>8 DEF Conclude
    <3> QED BY <1>1, <3>1, <3>2, ConcludeGrounds DEF Levels, Settled
  <2> QED BY <1>6, <1>8, <2>1 DEF Conclude
<1>9. CASE Conclude(s, "timeout")
  <2>1. Grounded'
    <3>1. receipt' = Observed(prepared, "timeout", s, signature)
      BY <1>9 DEF Conclude
    <3> QED BY <1>1, <3>1, ConcludeGrounds DEF Levels, Settled
  <2> QED BY <1>6, <1>9, <2>1 DEF Conclude
<1> QED BY <1>5, <1>7, <1>8, <1>9 DEF Poll, s, h

LEMMA DeadlineStep == ASSUME IInv, DeadlinePasses PROVE IInv'
<1>1. UNCHANGED <<pc, args, prepared, signature, page, held, receipt, exit, world>>
      /\ pc = "observe" /\ exit = None
  BY DEF IInv, ProgramInv, DeadlinePasses
<1>2. ProgramInv'
  BY <1>1 DEF IInv, ProgramInv, Valid, Approved
<1>3. ReceiptInv' /\ HeldInv'
  BY <1>1 DEF IInv, ReceiptInv, Grounded, HeldInv, world
<1> QED BY <1>1, <1>2, <1>3, NoneIsNoCode, ProgramStep

\* Exit 0 of a run that was given a signature is exit 0 of an observation.
LEMMA ReportStep == ASSUME IInv, Report PROVE IInv'
<1>1. /\ pc = "report" /\ pc' = "ended" /\ Grounded /\ args \in Arguments
      /\ Valid /\ prepared = Allowed(Approved) /\ (args.noPage \/ page = Approved)
      /\ page # None => page = Approved
      /\ UNCHANGED <<args, prepared, signature, page, receipt, world>>
      /\ Valid' /\ Approved' = Approved
      /\ exit' = IF receipt.failClosed \/ receipt.lifecycle = "failed" THEN 1 ELSE 0
  BY DEF IInv, ProgramInv, ReceiptInv, Report, Exit, Valid, Approved
<1>2. Grounded'
  BY <1>1 DEF Grounded, world
<1>3. ProgramInv'
  BY <1>1, <1>2 DEF ProgramInv, Grounded
<1>4. ReceiptInv' /\ HeldInv'
  BY <1>1, <1>2 DEF ReceiptInv, HeldInv
<1>5. ExitZeroIsSuccess'
  <2> SUFFICES ASSUME exit' = 0
               PROVE  /\ prepared.decision = "ALLOW" /\ (args.noPage \/ page = prepared.binding)
                      /\ ObservedSuccess(receipt) /\ \E e \in seen[signature] : ~e.err
    BY <1>1 DEF ExitZeroIsSuccess, world
  <2>1. ~receipt.failClosed /\ receipt.lifecycle \in Levels
    BY <1>1 DEF Grounded
  <2> QED BY <1>1, <2>1 DEF Grounded, ObservedSuccess, Allowed
<1>6. ChainInv' /\ SentInv'
  BY <1>1 DEF IInv, world, ChainInv, ChainTypes, ChainOf, SentInv
<1> QED BY <1>3, <1>4, <1>5, <1>6 DEF IInv

-----------------------------------------------------------------------------
(* The wallet and the chain. *)

\* The wallet sends what the page was written for; what is sent for another
\* run's page has the signature of the command line.
LEMMA WalletStep ==
    ASSUME IInv, NEW s \in Signatures, Press(s) \/ SentBefore(s)
    PROVE  IInv'
<1>1. /\ UNCHANGED <<program, chain, seen>> /\ args' = args
      /\ \A q \in Signatures : Onward(q)
  BY DEF Press, SentBefore, program, Onward
<1>2. ChainInv'
  BY <1>1 DEF IInv, ChainInv, ChainTypes, ChainOf
<1>3. PICK transfer :
        /\ sent' = [sent EXCEPT ![s] = transfer]
        /\ \/ args.signature = s
           \/ /\ Valid
              /\ transfer.lamports = Approved.lamports /\ transfer.destination = Approved.destination
  <2>1. CASE Press(s)
    <3>1. Valid /\ page = Approved
      BY <2>1 DEF IInv, ProgramInv, Press
    <3> WITNESS [lamports |-> page.lamports, destination |-> page.destination]
    <3> QED BY <2>1, <3>1 DEF Press
  <2>2. CASE SentBefore(s)
    BY <2>2 DEF SentBefore
  <2> QED BY <2>1, <2>2
<1>4. SentInv'
  <2>1. sent' = [q \in Signatures |-> IF q = s THEN transfer ELSE sent[q]]
    BY <1>3 DEF IInv, SentInv
  <2>2. Valid' = Valid /\ Approved' = Approved
    BY <1>1 DEF Valid, Approved
  <2> QED BY <1>1, <1>3, <2>1, <2>2 DEF IInv, SentInv
<1> QED BY <1>1, <1>2, <1>4, WorldStep

LEMMA ChainStep ==
    ASSUME IInv, NEW s \in Signatures, Lands(s) \/ Deepens(s) \/ Dropped(s)
    PROVE  IInv'
<1>1. UNCHANGED <<program, sent>> /\ args' = args
  BY DEF Lands, Deepens, Dropped, Reach, program
<1>2. ChainInv' /\ \A q \in Signatures : Onward(q)
  BY ChainMoves DEF IInv
<1>3. SentInv'
  BY <1>1 DEF IInv, SentInv, Valid, Approved
<1> QED BY <1>1, <1>2, <1>3, WorldStep

-----------------------------------------------------------------------------

LEMMA InitInv == Init => IInv
<1> SUFFICES ASSUME Init PROVE IInv
  OBVIOUS
<1>1. ChainInv
  BY DEF Init, ChainInv, ChainTypes, ChainOf
<1>2. ProgramInv /\ ReceiptInv /\ HeldInv /\ ExitZeroIsSuccess
  BY NoneIsNoCode DEF Init, ProgramInv, ReceiptInv, HeldInv, ExitZeroIsSuccess
<1>3. SentInv
  BY DEF Init, SentInv
<1> QED BY <1>1, <1>2, <1>3 DEF IInv

LEMMA NextInv == IInv /\ [Next]_vars => IInv'
<1> SUFFICES ASSUME IInv, [Next]_vars PROVE IInv'
  OBVIOUS
<1>1. CASE UNCHANGED vars
  BY <1>1 DEF vars, program, world, IInv, ChainInv, ChainTypes, ChainOf, ProgramInv, ReceiptInv,
              HeldInv, SentInv, ExitZeroIsSuccess, Valid, Approved, Grounded
<1>2. CASE PrepareStep
  BY <1>2, PreparedStep DEF PrepareStep
<1>3. CASE PollStep
  BY <1>3, PollingStep DEF PollStep
<1>4. CASE \/ \E text \in Signatures \cup {"secret", "malformed"} : Paste(text)
           \/ NobodyToAsk
  BY <1>4, PasteStep
<1>5. CASE \E s \in Signatures : Press(s) \/ SentBefore(s) \/ Lands(s) \/ Deepens(s) \/ Dropped(s)
  BY <1>5, WalletStep, ChainStep
<1> QED BY <1>1, <1>2, <1>3, <1>4, <1>5, StartStep, HandOffStep, DeadlineStep, ReportStep DEF Next

LEMMA Invariance == Spec => []IInv
BY InitInv, NextInv, PTL DEF Spec

\* What a receipt says was observed is so on chain, or was where the chain may
\* take it back (observe_devnet_status, build_ai4_receipt).
THEOREM ReceiptHolds == Spec => []ReceiptIsOnChain
<1>1. IInv => ReceiptIsOnChain
  BY DEF IInv, ReceiptInv, Grounded, ReceiptIsOnChain, Settled, Levels
<1> QED BY <1>1, Invariance, PTL

\* Exit code 0 is a success that was handed off and, where it was to be sent,
\* seen on chain (main).
THEOREM ZeroIsSuccess == Spec => []ExitZeroIsSuccess
<1>1. IInv => ExitZeroIsSuccess
  BY DEF IInv
<1> QED BY <1>1, Invariance, PTL

-----------------------------------------------------------------------------
(* Amounts. *)

LEMMA HasMin ==
    ASSUME NEW S \in SUBSET Nat, S # {}
    PROVE  \E m \in S : \A n \in S : m <= n
<1> DEFINE Less == {ss \in Nat \X Nat : ss[1] < ss[2]}
<1>1. IsWellFoundedOn(Less, Nat)
  BY NatLessThanWellFounded DEF OpToRel
<1>2. PICK m \in S : \A n \in S : <<n, m>> \notin Less
  BY <1>1, WFMin
<1>3. ASSUME NEW n \in S PROVE m <= n
  <2>1. ~(n < m)
    BY <1>2
  <2> QED BY <2>1
<1> QED BY <1>3

\* Nothing is refused only if every check holds.
LEMMA NoneRefused ==
    ASSUME NEW checks, DOMAIN checks \subseteq Nat, FirstRefusal(checks) = "ok",
           \A i \in DOMAIN checks : checks[i].refusal # "ok"
    PROVE  \A i \in DOMAIN checks : checks[i].holds
<1> DEFINE failed == FailedChecks(checks)
<1>1. ASSUME failed # {} PROVE FALSE
  <2>1. \E m \in failed : \A n \in failed : m <= n
    BY <1>1, HasMin DEF FailedChecks
  <2>2. (CHOOSE i \in failed : \A j \in failed : i <= j) \in failed
    BY <2>1
  <2> QED BY <1>1, <2>2 DEF FirstRefusal, FailedChecks
<1> QED BY <1>1 DEF FailedChecks

LEMMA Quotient ==
    ASSUME NEW a \in Int, NEW u \in Nat \ {0}
    PROVE  a \div u \in Int /\ a % u \in 0..(u - 1) /\ a = u * (a \div u) + (a % u)
OBVIOUS

-----------------------------------------------------------------------------
(* Powers of ten and the rounding of the Decimal context. *)

\* A function defined from smaller arguments, ten times as much each time, exists.
LEMMA StepsExist ==
    ASSUME NEW t \in Nat, NEW less,
           \A n \in Nat : n >= t => less[n] \in Nat /\ less[n] < n
    PROVE  \E f : f = [n \in Nat |-> IF n < t THEN 1 ELSE 10 * f[less[n]]]
<1> DEFINE Is(g, n) == g = [m \in 0..n |-> IF m < t THEN 1 ELSE 10 * g[less[m]]]
           Good(n) == \E g : Is(g, n)
           bad == {n \in Nat : ~Good(n)}
<1>1. Good(0)
  <2> DEFINE g == [m \in 0..0 |-> 1]
  <2>1. \A m \in 0..0 : m < t
    OBVIOUS
  <2>2. Is(g, 0)
    BY <2>1
  <2> QED BY <2>2
<1>2. ASSUME NEW n \in Nat, Good(n) PROVE Good(n + 1)
  <2>1. PICK g : Is(g, n)
    BY <1>2
  <2> DEFINE h == [m \in 0..(n + 1) |-> IF m < t THEN 1 ELSE 10 * g[less[m]]]
  <2>2. \A m \in 0..n : m \in 0..(n + 1) /\ h[m] = g[m]
    BY <2>1
  <2>3. \A m \in 0..(n + 1) : m >= t => less[m] \in 0..n
    OBVIOUS
  <2>4. \A m \in 0..(n + 1) : h[m] = IF m < t THEN 1 ELSE 10 * h[less[m]]
    <3> SUFFICES ASSUME NEW m \in 0..(n + 1) PROVE h[m] = IF m < t THEN 1 ELSE 10 * h[less[m]]
      OBVIOUS
    <3>1. m >= t => h[less[m]] = g[less[m]]
      BY <2>2, <2>3
    <3>2. h[m] = IF m < t THEN 1 ELSE 10 * g[less[m]]
      OBVIOUS
    <3> HIDE DEF h
    <3> QED BY <3>1, <3>2
  <2>5. h = [m \in 0..(n + 1) |-> h[m]]
    OBVIOUS
  <2>6. Is(h, n + 1)
    <3> HIDE DEF h
    <3> QED BY <2>4, <2>5
  <2> QED BY <2>6
<1>3. \A n \in Nat : Good(n)
  <2> HIDE DEF Good
  <2> SUFFICES ASSUME bad # {} PROVE FALSE
    OBVIOUS
  <2>1. PICK m \in bad : \A n \in bad : m <= n
    BY HasMin
  <2>2. m # 0 /\ m - 1 \in Nat /\ m - 1 \notin bad
    BY <1>1, <2>1
  <2>3. Good((m - 1) + 1) /\ (m - 1) + 1 = m
    BY <1>2, <2>2
  <2> QED BY <2>1, <2>3
<1>4. ASSUME NEW n \in Nat, NEW p \in Nat, n <= p, NEW g, NEW h, Is(g, n), Is(h, p)
      PROVE  \A m \in 0..n : g[m] = h[m]
  <2> DEFINE differ == {m \in 0..n : g[m] # h[m]}
  <2> SUFFICES ASSUME differ # {} PROVE FALSE
    OBVIOUS
  <2>1. PICK m \in differ : \A k \in differ : m <= k
    <3>1. differ \in SUBSET Nat
      OBVIOUS
    <3> HIDE DEF differ
    <3> QED BY <3>1, HasMin
  <2>2. /\ g[m] = IF m < t THEN 1 ELSE 10 * g[less[m]]
        /\ h[m] = IF m < t THEN 1 ELSE 10 * h[less[m]]
    BY <1>4
  <2>3. m >= t => less[m] \in 0..n /\ less[m] \notin differ
    BY <2>1
  <2> QED BY <2>2, <2>3
<1> DEFINE Of(n) == CHOOSE g : Is(g, n)
           f == [n \in Nat |-> Of(n)[n]]
<1>5. \A n \in Nat : Is(Of(n), n)
  <2> HIDE DEF Is
  <2> QED BY <1>3
<1> HIDE DEF Of
<1>6. ASSUME NEW n \in Nat PROVE f[n] = IF n < t THEN 1 ELSE 10 * f[less[n]]
  <2>1. Of(n)[n] = IF n < t THEN 1 ELSE 10 * Of(n)[less[n]]
    BY <1>5
  <2>2. n >= t => Of(n)[less[n]] = Of(less[n])[less[n]]
    <3> SUFFICES ASSUME n >= t PROVE Of(n)[less[n]] = Of(less[n])[less[n]]
      OBVIOUS
    <3>1. less[n] \in Nat /\ less[n] <= n /\ less[n] \in 0..less[n]
      OBVIOUS
    <3>2. Is(Of(less[n]), less[n]) /\ Is(Of(n), n)
      BY <1>5, <3>1
    <3> HIDE DEF Is
    <3> QED BY <1>4, <3>1, <3>2
  <2> QED BY <2>1, <2>2
<1>7. f = [n \in Nat |-> IF n < t THEN 1 ELSE 10 * f[less[n]]]
  BY <1>6
<1> QED BY <1>7

\* The powers of ten are what their definition says.
LEMMA TensAre ==
    /\ Tens[0] = 1
    /\ \A k \in Nat : Tens[k + 1] = 10 * Tens[k]
<1> DEFINE less == [n \in Nat |-> n - 1]
<1>1. \E f : f = [n \in Nat |-> IF n < 1 THEN 1 ELSE 10 * f[less[n]]]
  <2>1. \A n \in Nat : n >= 1 => less[n] \in Nat /\ less[n] < n
    OBVIOUS
  <2> HIDE DEF less
  <2> QED BY <2>1, StepsExist
<1>2. PICK f : f = [n \in Nat |-> IF n < 1 THEN 1 ELSE 10 * f[less[n]]]
  BY <1>1
<1>3. f = [k \in Nat |-> IF k = 0 THEN 1 ELSE 10 * f[k - 1]]
  BY <1>2
<1>4. Tens = [k \in Nat |-> IF k = 0 THEN 1 ELSE 10 * Tens[k - 1]]
  BY <1>3, Zenon DEF Tens
<1> QED BY <1>4

LEMMA TensPositive == \A k \in Nat : Tens[k] \in Nat \ {0}
<1> DEFINE bad == {k \in Nat : Tens[k] \notin Nat \ {0}}
<1> SUFFICES ASSUME bad # {} PROVE FALSE
  OBVIOUS
<1>1. PICK m \in bad : \A n \in bad : m <= n
  BY HasMin
<1>2. m # 0 /\ m - 1 \in Nat /\ Tens[m - 1] \in Nat \ {0}
  BY <1>1, TensAre
<1>3. Tens[(m - 1) + 1] = 10 * Tens[m - 1] /\ (m - 1) + 1 = m
  BY <1>2, TensAre
<1> QED BY <1>1, <1>2, <1>3

LEMMA TensGrow ==
    ASSUME NEW a \in Nat, NEW b \in Nat, a < b
    PROVE  10 * Tens[a] <= Tens[b]
<1> DEFINE bad == {n \in Nat : a < n /\ ~(10 * Tens[a] <= Tens[n])}
<1> SUFFICES ASSUME bad # {} PROVE FALSE
  OBVIOUS
<1>1. PICK m \in bad : \A n \in bad : m <= n
  BY HasMin
<1>2. m - 1 \in Nat /\ (m - 1) + 1 = m /\ m - 1 \notin bad
  BY <1>1
<1>3. Tens[m] = 10 * Tens[m - 1]
  BY <1>2, TensAre
<1>4. Tens[m] \in Nat \ {0} /\ Tens[m - 1] \in Nat \ {0} /\ Tens[a] \in Nat \ {0}
  BY <1>2, TensPositive
<1>5. m - 1 = a \/ 10 * Tens[a] <= Tens[m - 1]
  BY <1>1, <1>2
<1> QED BY <1>1, <1>3, <1>4, <1>5

\* The place of the last digit kept is a power of ten, one for what fits the
\* context, and such that all digits but the last make at least 10^(Precision-1).
LEMMA LastPlaceIs ==
    ASSUME NEW n \in Nat
    PROVE  /\ \E k \in Nat : LastPlace[n] = Tens[k]
           /\ n < Tens[Precision] => LastPlace[n] = 1
           /\ n >= Tens[Precision] => Tens[Precision - 1] * LastPlace[n] <= n
<1> DEFINE T == Tens[Precision]
           less == [m \in Nat |-> m \div 10]
<1>1. Precision \in Nat \ {0} /\ Precision - 1 \in Nat /\ (Precision - 1) + 1 = Precision
  BY RulesAssumption
<1>2. T \in Nat \ {0} /\ Tens[Precision - 1] \in Nat \ {0} /\ T = 10 * Tens[Precision - 1]
  BY <1>1, TensPositive, TensAre
<1> HIDE DEF T
<1>3. \A m \in Nat : m >= T => m \div 10 \in Nat /\ m \div 10 < m
  BY <1>2
<1>4. LastPlace = [m \in Nat |-> IF m < T THEN 1 ELSE 10 * LastPlace[m \div 10]]
  <2>1. \E f : f = [m \in Nat |-> IF m < T THEN 1 ELSE 10 * f[less[m]]]
    <3>1. \A m \in Nat : m >= T => less[m] \in Nat /\ less[m] < m
      BY <1>3
    <3> HIDE DEF less
    <3> QED BY <1>2, <3>1, StepsExist
  <2>2. PICK f : f = [m \in Nat |-> IF m < T THEN 1 ELSE 10 * f[less[m]]]
    BY <2>1
  <2>3. f = [m \in Nat |-> IF m < T THEN 1 ELSE 10 * f[m \div 10]]
    BY <2>2
  <2> QED BY <2>3, Zenon DEF LastPlace, T
<1> DEFINE Fits(m) == /\ \E k \in Nat : LastPlace[m] = Tens[k]
                      /\ m < T => LastPlace[m] = 1
                      /\ m >= T => Tens[Precision - 1] * LastPlace[m] <= m
           bad == {m \in Nat : ~Fits(m)}
<1>5. bad = {}
  <2> SUFFICES ASSUME bad # {} PROVE FALSE
    OBVIOUS
  <2>1. PICK m \in bad : \A j \in bad : m <= j
    <3> HIDE DEF Fits
    <3> QED BY HasMin
  <2>2. CASE m < T
    <3>1. LastPlace[m] = 1
      BY <1>4, <2>2
    <3>2. Fits(m)
      BY <2>2, <3>1, <1>2, TensAre
    <3> QED BY <3>2
  <2>3. CASE m >= T
    <3> DEFINE j == m \div 10
               q == LastPlace[j]
    <3>1. j \in Nat /\ j < m /\ LastPlace[m] = 10 * q /\ 10 * j <= m
      BY <1>2, <1>3, <1>4, <2>3
    <3>2. Fits(j)
      <4>1. j \notin bad
        <5>1. m \in Nat
          OBVIOUS
        <5> HIDE DEF j, bad
        <5> QED BY <2>1, <3>1, <5>1
      <4> HIDE DEF j, Fits
      <4> QED BY <3>1, <4>1
    <3>3. PICK k \in Nat : q = Tens[k]
      BY <3>2
    <3>4. q \in Nat \ {0} /\ 10 * q = Tens[k + 1]
      BY <3>3, TensAre, TensPositive
    <3>5. Tens[Precision - 1] * (10 * q) <= m
      <4>1. CASE j < T
        <5>1. q = 1
          BY <3>2, <4>1
        <5> HIDE DEF q, j
        <5> QED BY <1>2, <2>3, <5>1
      <4>2. CASE j >= T
        <5>1. Tens[Precision - 1] * q <= j
          BY <3>2, <4>2
        <5> DEFINE a == Tens[Precision - 1]
        <5>2. a \in Nat /\ a * q <= j
          BY <1>2, <5>1
        <5> HIDE DEF a, q, j
        <5>3. a * (10 * q) = 10 * (a * q) /\ a * q \in Nat
          BY <3>4, <5>2
        <5>4. a * (10 * q) <= m
          BY <3>1, <5>2, <5>3
        <5> QED BY <5>4 DEF a
      <4>3. j < T \/ j >= T
        <5> HIDE DEF j
        <5> QED BY <1>2, <3>1
      <4> QED BY <4>1, <4>2, <4>3
    <3>6. Fits(m)
      <4> HIDE DEF q, j
      <4>1. k + 1 \in Nat /\ LastPlace[m] = Tens[k + 1]
        BY <3>1, <3>3, <3>4
      <4>2. Tens[Precision - 1] * LastPlace[m] <= m
        BY <3>1, <3>5
      <4>3. ~(m < T)
        BY <1>2, <2>3
      <4> QED BY <4>1, <4>2, <4>3
    <3> QED BY <3>6
  <2> QED BY <1>2, <2>2, <2>3
<1> QED BY <1>5 DEF T

\* A rounded product is a positive multiple of its last place, off by half of
\* that at most; one that was rounded has Precision digits.
LEMMA ProductIsNear ==
    ASSUME NEW n \in Nat \ {0}
    PROVE  LET q == LastPlace[n] IN
           \E m \in Nat \ {0} :
               /\ q \in Nat \ {0} /\ Product(n) = q * m
               /\ 2 * (q * m - n) <= q /\ 2 * (n - q * m) <= q
               /\ n >= Tens[Precision] => m >= Tens[Precision - 1]
<1> DEFINE q == LastPlace[n]
           down == n \div q
           a == Tens[Precision - 1]
<1>1. q \in Nat \ {0} /\ a \in Nat \ {0} /\ Tens[Precision] \in Nat
  <2>1. PICK k \in Nat : q = Tens[k]
    BY LastPlaceIs
  <2> QED BY <2>1, TensPositive, RulesAssumption
<1>2. (n < Tens[Precision] => q = 1) /\ (n >= Tens[Precision] => a * q <= n)
  BY LastPlaceIs
<1>3. Product(n) = q * (IF 2 * (n % q) > q \/ (2 * (n % q) = q /\ down % 2 = 1)
                        THEN down + 1 ELSE down)
  BY DEF Product
<1> HIDE DEF q, a
<1>4. down \in Int /\ n % q \in 0..(q - 1) /\ n = q * down + (n % q)
  BY <1>1, Quotient
<1> HIDE DEF down
<1>5. n >= Tens[Precision] => down >= a
  <2> SUFFICES ASSUME n >= Tens[Precision], down < a PROVE FALSE
    BY <1>1, <1>4
  <2>1. q * (down + 1) <= q * a
    <3>1. a - down - 1 \in Nat /\ q * (a - down - 1) \in Nat
      BY <1>1, <1>4
    <3>2. q * (a - down - 1) = q * a - q * (down + 1)
      BY <1>1, <1>4
    <3> QED BY <1>1, <1>4, <3>1, <3>2
  <2>2. q * (down + 1) = q * down + q /\ a * q = q * a
    BY <1>1, <1>4
  <2> QED BY <1>1, <1>2, <1>4, <2>1, <2>2
<1>6. down >= 1
  BY <1>1, <1>2, <1>4, <1>5
<1>7. CASE 2 * (n % q) > q \/ (2 * (n % q) = q /\ down % 2 = 1)
  <2>1. Product(n) = q * (down + 1) /\ q * (down + 1) = q * down + q /\ 2 * (n % q) >= q
    BY <1>1, <1>3, <1>4, <1>7
  <2> DEFINE m == down + 1
  <2>2. /\ m \in Nat \ {0} /\ Product(n) = q * m
        /\ 2 * (q * m - n) <= q /\ 2 * (n - q * m) <= q
        /\ n >= Tens[Precision] => m >= a
    BY <1>1, <1>4, <1>5, <1>6, <2>1
  <2> QED BY <1>1, <2>2 DEF q, a
<1>8. CASE ~(2 * (n % q) > q \/ (2 * (n % q) = q /\ down % 2 = 1))
  <2>1. Product(n) = q * down /\ 2 * (n % q) <= q /\ q * down \in Int
    BY <1>1, <1>3, <1>4, <1>8
  <2>2. /\ down \in Nat \ {0}
        /\ 2 * (q * down - n) <= q /\ 2 * (n - q * down) <= q
    BY <1>1, <1>4, <1>6, <2>1
  <2> QED BY <1>1, <1>5, <2>1, <2>2 DEF q, a
<1> QED BY <1>7, <1>8

\* A valid amount is positive, whole lamports and within the cap.
LEMMA ValidAmount ==
    ASSUME NEW intent, NEW cap, intent.amount \in Int, cap \in Int,
           ValidationRefusal(intent, cap) = "ok"
    PROVE  /\ intent.amount \in 1..cap
           /\ Product(intent.amount) % UnitsPerLamport = 0
           /\ Lamports(intent.amount) <= MaxLamports
<1> DEFINE checks == <<
        Check(intent.flags = {}, "custody"),
        Check(intent.action = "transfer", "action"),
        Check(NetworkRefusal(intent.network) = "ok", "network"),
        Check(intent.asset = "SOL", "asset"),
        Check(AmountRefusal(intent.amount) = "ok", "amount"),
        Check(AmountRefusal(cap) = "ok", "max_amount"),
        Check(intent.amount # None /\ cap # None /\ intent.amount <= cap, "cap"),
        Check(DestinationRefusal(intent.destination) = "ok", "destination")>>
       precise == <<
        Check(Product(intent.amount) % UnitsPerLamport = 0, "lamport_precision"),
        Check(Lamports(intent.amount) <= MaxLamports, "u64_range")>>
<1>1. \A i \in 1..8 : checks[i].refusal # "ok"
  BY DEF Check
<1>2. DOMAIN checks = 1..8 /\ FirstRefusal(checks) = "ok"
  BY DEF ValidationRefusal
<1>3. (checks[5].holds <=> AmountRefusal(intent.amount) = "ok") /\ (checks[7].holds => intent.amount <= cap)
  BY DEF Check
<1> HIDE DEF checks
<1>4. AmountRefusal(intent.amount) = "ok" /\ intent.amount <= cap
  BY <1>1, <1>2, <1>3, NoneRefused
<1>5. intent.amount > 0 /\ FirstRefusal(precise) = "ok"
  BY <1>4 DEF AmountRefusal
<1>6. DOMAIN precise = 1..2 /\ \A i \in 1..2 : precise[i].refusal # "ok"
  BY DEF Check
<1>7. /\ precise[1].holds <=> Product(intent.amount) % UnitsPerLamport = 0
      /\ precise[2].holds <=> Lamports(intent.amount) <= MaxLamports
  BY DEF Check
<1> HIDE DEF precise
<1>8. /\ Product(intent.amount) % UnitsPerLamport = 0
      /\ Lamports(intent.amount) <= MaxLamports
  BY <1>5, <1>6, <1>7, NoneRefused
<1> QED BY <1>4, <1>5, <1>8

\* An amount that is allowed is sent as it is, or has more digits than the context
\* keeps, is not whole lamports and is sent as the lamports next to it.
LEMMA AllowedIsSent ==
    ASSUME NEW n \in 1..Cap, Product(n) % UnitsPerLamport = 0, Lamports(n) <= MaxLamports
    PROVE  LET asked == Lamports(n) * UnitsPerLamport IN
           /\ asked \in 1..Cap
           /\ \/ asked = n
              \/ /\ n % UnitsPerLamport # 0 /\ n >= Tens[Precision]
                 /\ 2 * (asked - n) < UnitsPerLamport /\ 2 * (n - asked) < UnitsPerLamport
<1> DEFINE u == UnitsPerLamport
           r == Product(n)
           l == r \div u
           q == LastPlace[n]
           c == Cap \div u
           T == Tens[Precision]
           a == Tens[Precision - 1]
<1>1. /\ u \in Nat \ {0} /\ T \in Nat /\ a \in Nat \ {0} /\ T = 10 * a
      /\ 10 * (MaxLamports + 1) <= T /\ MaxLamports \in Nat
  <2>1. Precision - 1 \in Nat /\ (Precision - 1) + 1 = Precision /\ FineDigits \in Nat
    BY RulesAssumption
  <2> QED BY <2>1, TensPositive, TensAre, RulesAssumption DEF UnitsPerLamport
<1>2. PICK m \in Nat \ {0} :
         /\ q \in Nat \ {0} /\ r = q * m
         /\ 2 * (r - n) <= q /\ 2 * (n - r) <= q
         /\ n >= T => m >= a
  <2>1. n \in Nat \ {0}
    BY ProofAssumption
  <2> QED BY <2>1, ProductIsNear
<1>3. n < T => q = 1
  <2>1. n \in Nat
    BY ProofAssumption
  <2> QED BY <2>1, LastPlaceIs
<1>4. Cap \in Nat /\ Cap % u = 0 /\ r % u = 0 /\ l <= MaxLamports /\ l * u = Lamports(n) * UnitsPerLamport
  BY ProofAssumption DEF Lamports
<1>5. PICK k \in Nat : q = Tens[k]
  <2>1. n \in Nat
    BY ProofAssumption
  <2> QED BY <2>1, LastPlaceIs
<1>6. 10 * q <= u \/ u <= q
  <2>1. k < FineDigits => 10 * q <= u
    BY <1>5, TensGrow, RulesAssumption DEF UnitsPerLamport
  <2>2. FineDigits < k => u <= q
    <3>1. FineDigits < k => 10 * u <= q
      BY <1>5, TensGrow, RulesAssumption DEF UnitsPerLamport
    <3> HIDE DEF u, q
    <3> QED BY <1>1, <1>2, <3>1
  <2>3. FineDigits = k => u = q
    BY <1>5 DEF UnitsPerLamport
  <2> HIDE DEF u, q
  <2> QED BY <1>1, <1>2, <2>1, <2>2, <2>3, RulesAssumption
<1> HIDE DEF u, q, T, a, r
<1>7. l \in Int /\ r = u * l
  <2>1. r \in Int
    BY <1>2
  <2>2. r % u \in 0..(u - 1) /\ l \in Int /\ r = u * l + (r % u)
    BY <1>1, <2>1, Quotient
  <2> HIDE DEF l
  <2> QED BY <1>1, <1>4, <2>2
<1>8. c \in Int /\ Cap = u * c
  <2>1. c \in Int /\ Cap = u * c + (Cap % u)
    BY <1>1, <1>4, Quotient
  <2> HIDE DEF c
  <2> QED BY <1>1, <1>4, <2>1
<1> HIDE DEF l, c
<1>9. r \in Nat /\ r >= 1
  BY <1>2
<1>10. r = n \/ (n >= T /\ 10 * q <= u)
  <2>1. CASE n < T
    BY <1>2, <1>3, <1>9, <2>1
  <2>2. CASE n >= T /\ u <= q
    <3>1. u * a <= q * m
      <4>1. u * a <= q * a
        <5>1. (q - u) * a \in Nat /\ (q - u) * a = q * a - u * a
          BY <1>1, <1>2, <2>2
        <5> QED BY <1>1, <1>2, <5>1
      <4>2. q * a <= q * m
        <5>1. q * (m - a) \in Nat /\ q * (m - a) = q * m - q * a
          BY <1>1, <1>2, <2>2
        <5> QED BY <1>1, <1>2, <5>1
      <4> QED BY <1>1, <1>2, <4>1, <4>2
    <3>2. a >= l + 1
      BY <1>1, <1>4, <1>7
    <3>3. u * (a - l - 1) \in Nat /\ u * (a - l - 1) = u * a - u * l - u
      BY <1>1, <1>7, <3>2
    <3>4. FALSE
      <4>1. u * a \in Int /\ u * l \in Int
        BY <1>1, <1>7
      <4>2. u * a <= u * l /\ u * a - u * l - u >= 0
        BY <1>2, <1>7, <3>1, <3>3
      <4> QED BY <1>1, <4>1, <4>2
    <3> QED BY <3>4
  <2> QED BY <1>1, <1>6, <2>1, <2>2, ProofAssumption
<1>11. \A x \in Int : 2 * (r - u * x) < u /\ 2 * (u * x - r) < u => r = u * x
  <2> SUFFICES ASSUME NEW x \in Int, 2 * (r - u * x) < u, 2 * (u * x - r) < u, l # x PROVE FALSE
    BY <1>7
  <2>1. u * (l - x) = r - u * x
    BY <1>1, <1>7
  <2>2. CASE l > x
    <3>1. u * (l - x - 1) \in Nat /\ u * (l - x - 1) = u * (l - x) - u
      BY <1>1, <1>7, <2>2
    <3> QED BY <1>1, <1>9, <2>1, <3>1
  <2>3. CASE l < x
    <3>1. u * (x - l - 1) \in Nat /\ u * (x - l - 1) = -(u * (l - x)) - u
      BY <1>1, <1>7, <2>3
    <3> QED BY <1>1, <1>9, <2>1, <3>1
  <2> QED BY <1>7, <2>2, <2>3
<1>12. r = n \/ (n % u # 0 /\ n >= T /\ 2 * (r - n) < u /\ 2 * (n - r) < u)
  <2> SUFFICES ASSUME r # n PROVE n % u # 0 /\ n >= T /\ 2 * (r - n) < u /\ 2 * (n - r) < u
    OBVIOUS
  <2>1. n >= T /\ 2 * (r - n) < u /\ 2 * (n - r) < u
    BY <1>1, <1>2, <1>9, <1>10
  <2>2. ASSUME n % u = 0 PROVE FALSE
    <3> DEFINE j == n \div u
    <3>1. j \in Int /\ n = u * j + (n % u)
      BY <1>1, Quotient
    <3> HIDE DEF j
    <3>2. n = u * j
      BY <1>1, <2>2, <3>1
    <3> QED BY <1>11, <2>1, <3>1, <3>2
  <2> QED BY <2>1, <2>2
<1>13. r <= Cap
  <2>1. CASE r = n
    BY <2>1
  <2>2. CASE r # n
    <3>1. 2 * (r - n) < u /\ n <= u * c /\ u * c \in Int
      BY <1>1, <1>8, <1>12, <2>2
    <3>2. ASSUME l > c PROVE FALSE
      <4>1. u * (l - c - 1) \in Nat /\ u * (l - c - 1) = u * l - u * c - u
        BY <1>1, <1>7, <1>8, <3>2
      <4> QED BY <1>1, <1>7, <1>9, <3>1, <4>1
    <3>3. u * (c - l) \in Nat /\ u * (c - l) = u * c - u * l
      BY <1>1, <1>7, <1>8, <3>2
    <3> QED BY <1>7, <1>8, <1>9, <3>3
  <2> QED BY <2>1, <2>2
<1>14. l * u = r
  BY <1>1, <1>7
<1> QED BY <1>4, <1>9, <1>12, <1>13, <1>14 DEF u, T

\* The wallet is asked to send what the command line says, to the amount, but for
\* amounts with more digits than the Decimal context keeps (prepare_transfer,
\* _parse_positive_sol, sendApproved of the page).
THEOREM ApprovedIsSent == Spec => []SentAsApproved
<1>1. IInv => SentAsApproved
  <2> SUFFICES ASSUME IInv, NEW s \in Signatures, sent[s] # None, args.signature # s
               PROVE  LET asked == sent[s].lamports * UnitsPerLamport IN
                      /\ sent[s].destination = args.destination
                      /\ asked \in 1..Cap
                      /\ \/ asked = args.amount
                         \/ /\ args.amount % UnitsPerLamport # 0
                            /\ args.amount >= Tens[Precision]
                            /\ 2 * (asked - args.amount) < UnitsPerLamport
                            /\ 2 * (args.amount - asked) < UnitsPerLamport
    BY DEF SentAsApproved
  <2>1. /\ Valid /\ sent[s].lamports = Lamports(args.amount)
        /\ sent[s].destination = args.destination
    BY DEF IInv, SentInv, Approved, Normalized, Intent
  <2>2. /\ args.amount \in 1..Cap /\ Product(args.amount) % UnitsPerLamport = 0
        /\ Lamports(args.amount) <= MaxLamports
    <3>1. Intent(args).amount = args.amount /\ Cap \in Int
      BY ProofAssumption DEF Intent
    <3> QED BY <2>1, <3>1, ValidAmount DEF Valid
  <2> QED BY <2>1, <2>2, AllowedIsSent
<1> QED BY <1>1, Invariance, PTL
=============================================================================
