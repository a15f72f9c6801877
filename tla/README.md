# Verification of AI4-Constrain in TLA+

Specifications of the parts of this repository that decide, spend and persist,
their TLC configurations, and TLAPS proofs of the properties that matter most.
Paths are relative to the repository; the package `src/` inside it is written
`src/...` and `ai4/` is `ai4/...`.

## The system

AI4-Constrain puts a controller between a text provider (a language model, or
a deterministic offline stand-in) and its user. A candidate text is scored by
five rubrics ("shards", two of them *hard*), the scores are arbitrated into
accept, revise or refuse, and the candidate is sent back for revision a bounded
number of times. Around that core there are sessions kept on disk, an optional
hybrid path in which a second model (the examiner) adds findings under a shared
budget, a kernel for agent identities, and a preparation step for transactions.

| Component | State it keeps | Operations | Interacts by |
|---|---|---|---|
| Shard evaluation, arbitration (`src/shards`, `src/constraints`) | none | `evaluate`, `arbitrate`, `decide` | called by both loops |
| Revision loop (`src/agents/recursive_agent.py`, `src/control_contract.py`) | completions, rounds used, deadline | `run` for conditions A to D | calls provider, evaluator, middleware, clock |
| Report (`ai4/constrain/api.py`, `report.py`) | captured decisions of one run | `run`, `evaluate` | wraps the loop's middleware, reads its result |
| Session (`ai4/constrain/session.py`, `trace.py`) | turns in memory, one JSON file per session, a trace file | `complete`, `evaluate_text`, `load` | calls the report API under a lock, then the file system |
| Run budget (`ai4/constrain/_v07_3a/budget.py`, `_v07_3b/budget.py`) | two lanes of counts, USD reserved and committed, handles | `reserve_*`, `begin_execute`, `commit`, `release` | shared by proposal adapter and examiner path, under a lock |
| Hybrid run (`ai4/constrain/_v07_3c`) | installed identity, continuity document, report document | `execute_configured`: repair, install, governing loop, persist | budget, examiner, stores; shares its session document with plain sessions |
| Hybrid context and gates (`_v07_3b`, `governing.py`) | none | origins, provenance, separation, readiness | called by the hybrid entry |
| Evaluator wall and extension points (`evaluator_wall.py`, `ext.py`) | the bound evaluator | bind, preflight, overlay | between evaluator and both loops |
| Semantic findings and fusion (`semantic_*.py`) | none | parse, bind, map, fuse | called by the governing loop |
| Live provider, spend gate (`src/providers/live.py`, `src/stage2d/spend.py`) | money spent | `complete`, `revise` | network |
| Identity (`ai4/identity`) | trust context handed from call to call | attest, verify, rotate, resolve | files, signatures, clock |
| Transaction (`ai4/transaction`) | prepared transfer, status, receipt | prepare, firewall, hand off, observe | RPC, a page for a wallet, files |
| Study (`src/stage2d`, `src/experiment.py`) | rows and summaries, output file | generate, load, run, summarise | the loop above, the live provider |
| Privacy, explanation, command lines, placeholders | none | text transformations, printing | the reports above |

### What is hard in it

* **Threads on one budget.** Two lanes and one ledger are shared; costs are
  known only after a call; a call may be refused, late, failing, without a
  known cost, or over budget, and each of these paths settles differently.
* **A clock that is read more than once.** The loop reads it before it decides
  and again before it acts; the budget reads it in `reserve` and in
  `begin_execute`.
* **State rebuilt from texts.** The report of a run is assembled from recorded
  decisions by matching texts, which repeat when candidates alternate.
* **Files shared by processes, and processes that die.** A save is a write to
  a temporary file and a rename; memory is rolled back when it fails. A hybrid
  run keeps two documents, one of which a plain session writes too.
* **Order of tests.** One decision table with veto, irreconcilable failures,
  rounds left and best-effort emit, in which the order is the policy; validators
  whose first failing check names the answer.
* **Things that change while they are looked at.** Connections drift during a
  call, record files are replaced between two readings, a clock passes between
  two checks of one record, a node reports a transaction that is then dropped.
* **What counts as evidence.** A failing examiner, a repeated claim, an
  evaluator that says "passed", a request that was billed and failed.

The list of these hazards with their lines, and the properties aimed at each,
is `hazards` in `PROJECT.json`.

## Modules

| Module | Models | Runs | Proofs |
|---|---|---|---|
| `LaneGate` | what a run budget promises about counts (abstract) | refined by `run_budget` | that it is refined: `RunBudgetProofs` |
| `RunBudget` | `RunBudgetAuthority` and its two callers | `run_budget` | `RunBudgetProofs` |
| `Arbitration` | `arbitrate` and `ConstraintMiddleware.decide`, as operators | through the next modules | |
| `ControlLoop` | `ConstrainedAgent.run`, `next_loop_action`, `api.run`'s report; EXTENDS `Arbitration` | `control_loop` | `ControlLoopProofs` |
| `GoverningRun` | `run_governing_loop` and `execute_configured`'s report; EXTENDS `Arbitration`, INSTANCEs `RunBudget` for one run | `governing_run`, `governing_run_refusal` | `HybridProofs` |
| `ShardScoring` | rubrics: scores, thresholds, conflicts, as operators | `judgement` | |
| `SemanticFindings` | examiner adapter, findings schema, policy map, fuse, as operators; EXTENDS `ShardScoring` | `judgement` | |
| `Judgement` | how one text is judged, on every path; EXTENDS `SemanticFindings`, INSTANCEs `Arbitration` | `judgement` | `JudgementProofs` |
| `Checks` | the first failing check of a list | through the next modules | |
| `HybridContext` | settings of a hybrid run: origins, provenance, separation, gates, as operators | `hybrid_entry` | |
| `HybridEntry` | `execute_configured` over its two documents, beside a plain session; EXTENDS `HybridContext` | `hybrid_entry` | `HybridProofs` |
| `SessionLog` | what a persisted session promises (abstract) | refined by `session_commit` | that it is refined: `SessionCommitProofs` |
| `SessionCommit` | `ConstrainedSession` over `FileSessionStore` and a tracer | `session_commit`, `session_commit_shared` | `SessionCommitProofs` |
| `TransferRules` | validation, firewall, hand-off, status, receipt, as operators | `transfer_proof` | |
| `TransferProof` | the DevNet proof with wallet, node and chain; EXTENDS `TransferRules` | `transfer_proof` | `TransferProofProofs` |
| `IdentityRules` | schemas, attestations, rotations, trust, discovery, as operators | `identity_verify`, `identity_unsigned` | |
| `IdentityVerify` | one run of the identity command line, and a verifier that follows rotations; EXTENDS `IdentityRules` | `identity_verify`, `identity_unsigned` | `IdentityVerifyProofs` |
| `StudyRules` | loaders, constraint checker, metrics, as operators | `study` | |
| `StudyFixture` | the generator of the stage 2D cases; EXTENDS `StudyRules` | `study` | |
| `Study` | a study under its spend gate; EXTENDS `StudyRules` | `study` | `StudyProofs` |

How they compose: `GoverningRun` moves the counters of `RunBudget`, so that a
run's calls and the budget are one state; `HybridEntry` surrounds it, with what
`GoverningRun` does as its step `Govern`; `Judgement` is what one round of
`GoverningRun` or `ControlLoop` makes of one text, with scores in place of the
set of failing shards that those two take as given.

Operators named after a bug ("Bug: ..." in their comment) are not used by any
specification. They are plausible errors of the definition below them, kept to
show that each property notices one.

Where a module has a type invariant `TypeOK` it is a theorem; the runs check
deeper properties and leave it out (`EntryTypeOK` is that of `HybridEntry`).
`TransferProof`, `IdentityVerify`, `Study` and `Judgement`,
whose records come from outside, have the part of it their proofs need in their
invariants.

`HybridProofs` extends both `HybridEntry` and `GoverningRun`, the two halves of a
hybrid run. Hence the names of `HybridEntry`: `place` is to it what `pc` and
`outcome` are to `GoverningRun`, and `EntrySpec` is its specification. The two have no variable in common, and each theorem is about one of them.

### RunBudget

One action per method of the authority (each runs under its lock) and one per
step a caller takes outside it. `reservations` is `_reservations`: handles are
frozen records, so a transition stores a new record (`Restamped`). `pc` follows
a thread through `BudgetAwareProviderAdapter._call` or `_observe_semantic`:
reserve, begin, the call itself, commit, and the `except` branches (`Unwind`,
which is `_release_unless_committed`). `expired` is the one fact about the
clock both deadline checks read. USD is an integer; `overrun` and `incurred`
are history variables.

*Run.* `run_budget`: two threads, lanes of two and one, three units of money,
reservations of 0 or 2 and costs of 2 or 4, three reservations. That is enough
for both lanes to be contended, for a cost below, equal to and above its
reservation, for two commits to race past the cap, and for every refusal.
`LaneGate` keeps sets of calls instead of counters; the refinement maps a set
to the handles in the matching state. The fairness behind
`EveryCallSettles`: a thread that holds a reservation keeps running, and a
provider call ends, which `urlopen(..., timeout=30)` in `src/providers/live.py`
justifies.

*Proved* for any number of threads, maxima and amounts: `TypeOK`,
`LanesMatchHandles`, `LaneNeverOversold`, `SpendBounded`, `KnownSpendBooked`,
`NoLateStart`, and that the budget implements `LaneGate` (`BudgetIsGate`). A count
alone is not inductive: that releasing never takes a lane below zero needs to
know that the counter is the number of live handles, and that a client that
stands between reserve and settle owns the live handle it will settle, and
shares it with no other client. `IInv` in `RunBudgetProofs` adds these.
`SpendBounded` is then inductive: a commit moves at most the amount its own
handle holds, plus the excess that `overrun` counts, and a release only lowers
the total. `KnownSpendBooked` needs no more than `IInv` beside it, but speaks of a
sum over threads, of which there may be any number: that finitely many calls have
a commit due follows from their handles being distinct, and that a call which
returns or is booked changes the sum by its own cost is `SumRemove`, see "What is
proved". One lemma per effect on the ledger (`ReleaseStep`, `BookStep`), one
per action above them. For the refinement each effect becomes a step of the gate:
a reservation adds a handle to the set in flight, a release takes one out, a
commit moves one; the gate's guard, a cardinality, is the counter's comparison
by `LanesMatchHandles`.

### ControlLoop

`pc` is where the thread stands between two points at which something else can
happen: the clock passing, a provider answering, a call raising. `late` is
`timed_out()`. `fails` and `warranted` make evaluator and critic functions of
the text, chosen once per run; a provider answers with any text, so candidates
can repeat and alternate. `captures` is `RecordingMiddleware.captures`, from
which `CapturedTrace` and `DrivingCapture` rebuild the report as
`_captured_trace` and `_driving_from_capture` do, by text: the n-th revision that
starts from a text takes the n-th capture of it, which is what popping the first
unused match amounts to.

*Run.* `control_loop`: two texts (enough to alternate), two hard shards that
conflict and one soft one, up to three revisions (so that a text can be decided
on twice with another in between), completion limits below, at and above the
rounds. The fairness behind `RunEnds`: the loop's thread keeps running and a
provider call ends (its timeout); nothing else is assumed.

A text that fails a hard shard is put out nevertheless, also one condition D has
decided on: on a timeout the loop puts out the candidate in hand, and a revision
that gives the same text back ends it with that text (`recursive_agent.py:125`,
`145-152`). `HardFailureOnlyWhenStopped` says that these are the only ends at which
it happens and what each of them takes: the clock, or the completions gone
while a revision is due, or the repeated text itself.

*Proved* for all texts, shards, conflicts and limits: `TypeOK`, `CallsBounded`,
`AcceptedPasses`, `HardFailureOnlyWhenStopped`, `NoCallAfterVerdict`, `NoCallBegunLate`,
and of the report `TraceIsTheLoop`, `ReportExplainsDecision` and
`TrustedIsClean`: every safety property of the run. What makes the first ones
inductive is that a decision still refers to the current text and round while it
is acted upon (`DecisionIsCurrent`), and that a revision under way is due
(`RevisionIsDue`: the round is left, the budget is left, and the candidate
fails without an irreconcilable pair); neither follows from the goals. The
report needs a second invariant, `RInv`: capture *i* is the decision on completion
*i* in round *i* - 1, and asked for a revision where completion *i* + 1 is there
(`CapturesFollow`), so that the *n*-th capture of a text is the one its *n*-th
revision started from, however often the text comes back. That `Occurrence`
finds that capture is a fact about cardinalities (`ExplainingIsItself`).

### ShardScoring, SemanticFindings and Judgement

A text is the set of criteria it fails (the regular expressions are not
modelled). Weights, scores, thresholds, penalties and caps are in hundredths, as
rubrics and policy map write them; at that grain the code's floats are exact up
to the tolerance it compares with. `Judgement` follows one text on its way:
an evaluator is bound (identity, reserved identities, rubrics, preflight),
scores the text, passes the wall, which derives `passed` anew; on the hybrid
path an examiner's answer is accepted or refused, its findings are fused into
the scores, and arbitration rules. The policy map is the packaged one, or the
run finds another installed and refuses it.

*Run.* `judgement`: the packaged rubrics and map; every text with up to two
failed criteria; custom evaluators with good and bad scores, missing, doubled
and malformed entries; some twenty examiner answers that must not be accepted
and every answer with up to two findings of two classes, bins and spans, or
three of a smaller pool. Two failed criteria suffice for two hard shards, two criteria of one
shard and a soft shard that sinks below its threshold by the second one. There
is no liveness in it: a judgement is a straight line.

*Proved* for any rubrics, findings, evaluators and examiners and a packaged map
with any numbers: `HardCriterionVetoes`, `RepairNeverHurts`, `ClaimsCountOnce` and
`FailureIsNoEvidence`. Of the packaged files `PackagedAssumption` asks only what
the code relies on: a criterion weighs something, a hard shard asks for all of its
criteria, no finding bears on a hard shard, more confidence never costs less. TLC
evaluates it on the numbers of the files. `InputsAssumption` gives the types of the
inputs. A verdict is a function of scores and
findings; `IInv` says whose these are when it is given: scores behind the wall, the
frozen evaluator's unless the caller brought one, and findings of this text that
the schema let through. The rest is about that function. The survivors
of deduplication are the best finding of each claim, so that findings which are
outdone claim by claim by others cost no more than those (`CostGrows`): taking
findings away is an instance of it, and so is adding a claim made before, in both
directions. Fewer failed criteria score no lower (`ScoreGrows`), fused scores that
are higher on every shard are ruled on no more harshly (`VerdictGrows`).

What the packaged numbers imply, as the run shows: only `truth` and `autonomy`
are routed, so no finding makes or lifts a veto; the cap of `autonomy` (0.30)
leaves a spotless text at 0.70, which is the threshold, so findings about
autonomy alone never make a text fail.

### GoverningRun

The rounds of a hybrid run after its install: recheck the connections, evaluate
the text, show it to the examiner, fuse what it says into the scores, decide,
perhaps ask for a revision. The module holds the loop's own state and takes the
budget from `RunBudget`: an action that calls the authority conjoins the
`RunBudget` action with what the run does with its outcome, so reserving,
beginning, committing, releasing and their failures are those of that module,
with `Clients` a single run. `stage` is where the loop stands; the position in a
call is the budget's `pc`.

The environment may answer with any text, name any served model, return any
findings, fail in a call or not know its cost, and change a connection's slots
while a call is under way. A connection is abstracted to how it compares with
the snapshot taken at install. `fails` is the evaluator, a function of the text;
findings add failing shards, since fusing only lowers scores and `passed` is
derived anew from the fused score. Fusing may fail in any round: the packaged
files are read again each time.

*Runs.* `governing_run`: two texts (a candidate may repeat), a hard and a soft
shard, no revision round or two against lanes of three and two calls, so that
the rounds, a lane or the money (five units, reservations of two, costs of one
and three) may be what ends a run, and a connection whose account changes (the
other mismatches differ only in their class). The fairness behind `RunEnds`: the
run's thread keeps going and calls end, as the provider's transport timeout
makes them; nothing forces the clock.

`governing_run_refusal` expects a violation: a refused hybrid run reports the
refused text as its output, where the protocol asks for a fixed safe refusal.

*Proved* for any texts, shards, limits, amounts and drifts: `TypeOK` together with
the budget's, `EndedRunHoldsNothing`, `VerdictRestsOnBoth`, `VerdictMatchesBooks`,
`NoVerdictOverBudget` and `ExaminerAskedAsInstalled`. They speak of a run that
has ended; `IInv` says at each point before what makes them so: what the
run has reserved (`HoldsOne`: one handle, in the lane of the call, for all that is
reserved, or the paid call whose overrun leaves the `except` branch nothing to
release), how the committed counts follow completions and trace (`BooksFollow`),
that decision and examination are of the current candidate (`EvidenceIsCurrent`),
and that money spent above the budget leaves only the way to the abort
(`OverrunAborts`). `RunBudget`'s assumptions are repeated as `BudgetAssumption`,
since the module is instantiated and not extended.

Merged or left out: the recheck between the first answer and the first round is
the round's own (nothing happens between them); the identity snapshot compares
an immutable context with itself; the quote comparison after the examiner
recomputes a hash bound to the same candidate. An evaluator that returns a
malformed evaluation stands under `EvaluatorRaises` or is left out.

### HybridContext and HybridEntry

A *setting* is what a caller brings: pins, origins, connections, limits.
`HybridContext` says of a setting whether its configuration is accepted, its
connections can be observed and bound, its roles are separate, and which gate of
`compute_ready_facts` fails first. `HybridEntry` lets runs with such settings
share one session id: each loads the two documents, assesses, installs its
marker, governs, reloads, saves the session and then the report. Beside them a plain
`ConstrainedSession` of the same id may be opened before the marker and save
its turns after it, as often as it likes; and each process may die anywhere.

A save is not one step. Both stores write to a temporary file whose name is made of
the session id alone (`persist.py:98`, `session.py:455`), so all savers of a
document share it, the plain session's included. `Save` is: open it (which
empties it), write, replace, remove what is left; each may fail, and those of
different writers interleave. `tmp` and `live` are the two names of each document,
`hand` says which of them the file a writer has open goes by now, since a rename by
another does not take it out of a writer's hand. Thus one run's replace may install
what another has just emptied or half written, or that run's marker or report, and
a replace or a removal may take the file from under another run, whose save then
raises. `crossed` keeps which runs were under way when a save of the document
was opened while another held it.

What this does to the promises: `NeverOffAgain` holds regardless, since a document
that is damaged raises and none is ever removed. `MarkerBeforeCalls` and
`VerdictIffReported` do not: with two writers in one save a run may govern over a
document it did not write, be given a verdict while the report document is
another's, or an abort while its report is there. Both name the exception, `crossed`,
as `MarkerBeforeCalls` does the plain session that writes over the marker
(`cleared`). The code has no lock that would rule it out; `session_commit_shared`
shows the same on the plain store.

The deadline is `entry.py:191-199`, set after the documents are loaded, and
`ready.py:174-175`, which reads the clock again in the assessment (`Assess`, whose
`late` is that reading) and in the installation (`InstallTooLate`). A report
may hold text that has no UTF-8 encoding; that is no `OSError` and leaves
`execute_configured` (`"escaping"`).

*Run.* `hybrid_entry`: two runs, a plain session, a setting that is ready and
six that differ from it in one thing each (another identity, a blind connection,
the same provider twice, a peer that is not the requested origin, an origin off the
list, an artifact that is not the packaged one). Two runs are enough for one to
install, load or save between any two steps of the other, to have its file
renamed or removed by it, and for a later run to find what an earlier one left.
The two runs are symmetric. The configuration's view leaves out what no later
step and no property can read: the temporary file while nobody has it open or
written, what a run has loaded once it is assessed, what it began with once it has
failed or something is beside it, and histories of runs whose end no property
looks at. Nothing is claimed about liveness: a failing disk may stop every run.

*Proved* for any runs and settings and any interleaving of their saves:
`EntryTypeOK`, `MarkerBeforeCalls`, `NeverOffAgain`, `VerdictIffReported`,
`IdentityIsKept`. `EntryIInv` follows the evidence from one place to the next: what
a run found when it began is in the documents until it has loaded them and in what
it has loaded until it assesses it, unless a plain session wrote over the marker
meanwhile (`EvidenceStays`, `IdentityStays`); this needs nothing of the temporary
file but that no document goes away (`DocumentsRemain`). That the marker and the
report are where a run has put them does: from its first step in a save on, a run
that is not crossed has the document to itself, and finds in the temporary file
what it put there or nothing (`NotCrossed`, `Undisturbed`, `Clean`), so that a
replace installs what its writer had to save (`UndisturbedMoves`). On that rest
`MarkerIsThere` and `ReportIsThere`. Any step may be one of another writer;
`Beside`, `SaveMoves` and `StopMoves` state what a step of each kind leaves alone in
all others, and `Changes` the only ways in which a document changes.

What reading it for the model brought up, none of it claimed otherwise by a
document: an installation writes its marker over an empty session, so earlier
plain turns are gone; errors of the configuration and of loading raise out of
`run()` even where continuity is required, instead of an abort report; a plain
session that was open before the marker can write over it, after which only the
report document keeps the session from the plain path, and where no report was
saved yet nothing does (`NeverOffAgain` and `MarkerBeforeCalls` name that case,
`cleared`); a `ConstrainedSession` with an integration saves turns of a hybrid
report version that `DecisionReport.from_dict` later refuses to load.

### SessionCommit

A save is four steps: open the temporary file (which empties it), write, replace,
remove. The directory maps two names to inodes, since a process that has the
file open goes on writing to it after another has renamed it. Every step may
fail, a process may die between any two and start again, and a turn may contain
text that has no UTF-8 encoding. What a turn decides is `ControlLoop`'s matter:
here a turn is a number.

*Runs.* `session_commit`: one process at a time, four turns, one of them not
encodable. It implements `SessionLog`: turns on disk are only ever appended,
a call that returned is on disk for good, and the trace tells of no other turn.
`IdleMatchesDisk` leaves out objects that hold an unencodable turn: such a turn
stays in memory after its save has failed, since the exception is neither an
`OSError` nor the error `_commit_turn` rolls back for.
`session_commit_shared`: with two processes, the fixed name of the temporary
file lets one process install the file another has just emptied.

*Proved* for any number of turns and any that cannot be encoded, one process at
a time (the hypothesis `OneProcess` of every theorem; with two the run above
shows the contrary): `TypeOK`, `IdleMatchesDisk`, and that the module implements
`SessionLog`. The refinement needs to know at each point of a save what is in
the temporary file (`TmpIsOurs`) and how the turns in memory compare with those
on disk (`MemoryIsLog`: they are the same, or memory has the turn under way in
addition), through every failure and every death; the step at which a turn
appends to the log is the rename.

There is no fairness in this module and no liveness claim: a failing disk can
keep a session from saving for ever.

### TransferRules and TransferProof

`TransferRules` has the functions of `ai4/transaction` as operators, each a list
of checks in the code's order. An amount is an integer number of units, which are
`FineDigits` decimals finer than a lamport, and products are rounded half to even to
the `Precision` digits (28) the Decimal context keeps, since that rounding comes before
the test for whole lamports. `TransferProof` is
`devnet_e2e.py` from arguments to exit code: prepare, hand off, wait for a
signature, prepare again, poll, report. Around it, the wallet sends what the page
was written for, as often as its button is pressed; a chain on which entries
deepen, fail or, while processed, are dropped; and a node that may answer
with any entry the signature has ever had, with none, or fail.

*Run.* `transfer_proof`: a plain command line and 17 that differ in one
thing, among them amounts that are no decimal, negative, zero, finer than a
lamport, rounded to whole lamports and not, at and above the cap; two signatures (two presses, one of
which the user pastes) and three polls. Units are hundredths of a lamport and
the context keeps three digits, so that of the amounts above ten lamports 10.01 and
11.99 are rounded to whole lamports and 10.15 is not. As in the code, every
lamport count in range has fewer digits than the context keeps. The fairness behind `ObservationEnds`: the
program's own steps, among them a poll, whose request has a timeout; nothing is
asked of user, wallet or chain, and the deadline need not pass, since polls are
counted.

*Proved* for any command lines, keys, signatures, cap and number of polls:
`ReceiptIsOnChain`, `SentAsApproved`, `ExitZeroIsSuccess`. A lagging node may
answer with any earlier entry, so the invariant says what a chain does not take
back: an entry once seen at `confirmed` stays, with its error or without, and one
seen at `finalized` stays finalized (`ChainInv`); what a receipt says then stays
true (`Grounded`). `SentAsApproved` compares what the wallet is asked for with the
amount on the command line, not with what validation made of it: the two are
equal, or the amount has more digits than the context keeps, is not whole lamports,
and what is sent is the lamports next to it. It is proved for every precision
and every number of decimals, the code's included, from the arithmetic of `Product`:
the place of the last digit kept is a power of ten (`LastPlace`), and a rounded
amount that is whole lamports is within half a unit of that place. That `Cap` is
whole lamports, as the proof's constant is, keeps it within the cap.

That second case is a divergence. `docs/transaction-control.md:75-78` denies an
amount with more than nine decimals, and so says the refusal of
`validate.py:138-142`. The product is rounded before it is tested, so that an amount
of more than 28 significant digits whose excess rounds away is accepted, approved
and handed off, less than half a lamport off. The property states this exception
in place of the documented rule; no run is expected to fail for it.

### IdentityRules and IdentityVerify

A record stands for its own hash and carries the key that signed it; what is
wrong with the form of a record is its field `shape`. `IdentityVerify` is one
run of `resolve` or `verify`. Each reading of a file or of the clock is a step
(`Resolve` is the name and the clock, `Records` the file, `pipeline.py:90-91`), so that a publisher may replace the records file and time may pass between any
two. Beside it a verifier follows rotations with `verify_rotation` and gives a
run the trust it holds when the run begins.

*Runs.* `identity_verify`: an agent whose key returns (version 1 under one key,
2 under another, 3 under the first again, a version 4 signed for in the first
reign, and a version 1 issued twice), forged and expired rotations, eleven contents
of the attestation file, eight of the records file, ten command lines, a clock
of four instants. The chain of three reigns is the shortest in which a key comes
back. `TrustHandedOver` shows that what the key signed in its first reign is
of no use in its second. `FreshRecords` is about a single records file, which is
read once; a directory of files is read twice and can pair the time of one
version with the records of another.

*Proved* for any command lines, files, rotations, trusts and clock:
`SupersededNeverCurrent`, `ExitZeroMeansVerified`, `FreshRecords` and the action
property `TrustHandedOver`. The verifier's versions grow with each rotation it
follows, so whatever it has left has a smaller version than what it gives a run
(`PinInv`); a record under comparison was parsed and its signature was checked
while it was in its window (`Checked`, which speaks of the clock only in ways that
its passing cannot undo); a record is current if it is what the trust names or
what the trust's holder signed its key over to (`Current`). `VerifyAssumption` is
what parsing ensures of the inputs: versions, times and ages are integers.

`identity_unsigned` expects a violation: `verify` with neither `--trust` nor
`--report` answers `SIGNATURE VALID: yes` and exits with 0 for an attestation that
is not valid yet and was never signed, since the window is compared before the
signature is looked at. With a trust or a report the exit code is sound, which
is what `ExitZeroMeansVerified` claims.

### StudyRules, StudyFixture and Study

`StudyRules` has the loaders, the independent constraint checker and the metrics
as operators; `StudyFixture` the builders of the nine categories, each giving
its principles, constraints and acceptable terminals (a regular expression is a
name). `Study` runs conditions over cases with the offline or the live provider.
Each call passes the stage's gate and the provider's, both of which compare the
cap with what was booked so far; the service bills a failed request as it likes,
up to the reservation, and may leave out the usage.

*Run.* `study`: one or two generated cases, two calls per run, a reservation of
two units against caps of one to five and costs of one and three, a cap that is
no number, and 23 command lines in all, each different in one thing. The
generated splits (24 and 120 cases) are checked by an assumption of the MC
module: counts add up, every case loads, none is left to the reviewer alone. The
bound on what is billed is only ever reached after an answer without usage or
above its reservation, or under a cap that is no number. There is no liveness: a study that waits for a user's
money owes nobody an end.

*Proved* for any command lines, prices and texts, and for fixtures and condition
lists of any length: `TrueSpendWithinCap`, `PayloadIsWhole` and
`SummariesAccountForSpend`. The first
is not inductive, since the gate compares the cap with what was booked and not
with what was billed; `MoneyInv` adds that the two are equal until the study
ends, which holds because the one request that is billed and not booked ends it.
For the second, `IInv` says that the rows are those of the cases before the
present one and that the results are those of the conditions before the present
one, each whole. For the third, `SpendInv` says that what was booked is in the
summaries, in the rows of the condition under way or in the calls of the run under
way; where no condition is asked for twice the one that ends is not among
the results yet, so that no summary is overwritten. `CommandsAssumption` is what the code ensures of a command line:
no conditions are replaced by the default ones, a cap is a number, NaN or not
there, a file has finitely many lines. `Cases` counts lines instead of selecting
them, since facts about `SelectSeq` need induction.

Noted on the way: `--allow-heldout` with `--provider live` runs a paid held-out
study, although its help text says that it "Does not authorize a paid run"; an
answer without usage books nothing; the v0.1 loader does not look for duplicate
ids, the stage 2D one does.

## Findings

| Run | What the code does |
|---|---|
| `governing_run_refusal` | a refused hybrid run puts out the refused text (`entry.py:368`) |
| `session_commit_shared` | a save returns without its turn being in the live file (`session.py:455`) |
| `identity_unsigned` | `verify` exits with 0 on an attestation outside its window that nobody signed (`cli.py:174`) |

Divergences met on the way that have no run of their own are noted with the
hazards they belong to in `PROJECT.json`: a wall-clock timeout labelled
`budget_exhausted`, an irreconcilable pair on account of a criterion that
passed, a turn with a lone surrogate that stays in memory, an amount finer than a
lamport that is rounded instead of denied.

## What is proved, what is model-checked

TLAPS proves, for every value of the constants, the theorems of the eight
`...Proofs` modules; `theorems` in `PROJECT.json` lists them with the property
each one states. Each section above names the invariant that carries
them. Each of these invariants was model-checked on the instance of the module's
run before it was proved. The proofs rest on

* the assumptions on the constants in `RunBudget`, `Arbitration`, `ControlLoop`,
  `GoverningRun`, `HybridEntry`, `Judgement`, `SessionCommit`, `TransferRules`,
  `TransferProof`, `IdentityVerify` and `Study`, all of them evaluated by TLC on the instances. They are
  types and distinctness of constants, what the program's own parsing ensures of its
  inputs, that a lamport count in range has fewer digits than the context keeps
  (`RulesAssumption` of `TransferRules`), and what the packaged rubrics and map say
  (`Judgement`);
* for `SessionCommit`, the hypothesis that there is one process;
* the library's facts about finite sets, sequences and well-founded relations.
  Where a proof needs a least number with some property (the first failing
  check, the first capture of a text), it takes it from the well-foundedness of
  `<` (`HasMin`) in place of an induction.

What is proved per run of the table, and what only the run shows:

| Run | Proved | Model-checked only |
|---|---|---|
| `run_budget` | all safety properties, the refinement of `LaneGate` | `EveryCallSettles` |
| `control_loop` | all safety properties | `RunEnds` |
| `governing_run` | all safety properties | `RunEnds` |
| `judgement` | all | |
| `hybrid_entry` | all | |
| `session_commit` | all, the refinement of `SessionLog` | |
| `transfer_proof` | all safety properties | `ObservationEnds` |
| `identity_verify` | all | |
| `study` | all | |

`KnownSpendBooked`, `SummariesAccountForSpend` and the scores of `Judgement` are sums over
finite sets, and what a fold computes would need induction over data. The proofs go around it:
`AddsUp` states the equation a fold solves, `SumsExist` shows by a least
counterexample that it has a solution, `SumsAgree` that the sum over a set does
not depend on the larger one it was computed in, and `SumRemove` that it does not
matter which element is taken out first, since the least set where it did would
have to have a smaller one. From there on a sum changes by what a step adds to or
takes from the set, and grows with its terms (`SumLeq`). The lemmas stand in the three
modules that need them, which have nothing else in common.

What is left to the runs alone is liveness: `EveryCallSettles`, `RunEnds` of either
loop and `ObservationEnds` hold under fairness, which is beyond the prover at hand.

## Not modelled

What regular expressions match, texts and feedback wording, redaction and
explanation, JSON shapes and their validation beyond the checks named in the
rules modules, rounding of USD, sessions with `persist=False`, compatibility
checks when a session is loaded, composed history, deletion of sessions, power
loss (the store claims nothing about it), network transport, cryptographic
primitives and canonical bytes, the offline provider's rewriting, the held-out
generator of v0.1 and the audits of the study, binding of providers and the
runtime configuration, multiple gateways in resolution, the constrain and
transaction command lines and generated pages.

An evaluator of the caller's is assumed to keep its rubrics after it was bound.

## Plan

Done: run budget, loop and report, session, hybrid run and entry, judgement,
transfers, identity, study, with their proofs. To come, in this order:

1. The rest of the session (compatibility on load, composed history, deletion)
   and of the report.
