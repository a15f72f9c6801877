---------------------------- MODULE GoverningRun ----------------------------
(***************************************************************************)
(* One run of the hybrid path after a successful install:                  *)
(* run_governing_loop (ai4/constrain/_v07_3c/loop.py) and the report       *)
(* execute_configured (entry.py) makes of its result.                      *)
(*                                                                         *)
(* In a round the connections are rechecked, the text is evaluated and     *)
(* shown to the examiner, its findings are fused into the scores, and the  *)
(* middleware decides.  Every provider and examiner call goes through the  *)
(* budget: the steps of a call are RunBudget's, with this run as its only  *)
(* client, and what the run makes of them is added here.                   *)
(*                                                                         *)
(* A provider, the examiner and the connections to them answer for         *)
(* themselves: any text, any findings, and slots that read differently     *)
(* after a call than before it.                                            *)
(***************************************************************************)
EXTENDS Arbitration, Integers, Sequences, SequencesExt

CONSTANTS
    MaxProposal, MaxExaminer, MaxUsd, ReserveAmounts, ActualCosts, MaxReservations,
                        \* those of RunBudget
    Run,                \* the run, as a client of the budget
    Texts,              \* what the provider may answer
    EmptyText,          \* "", the output of an aborted run
    SafeRefusal,        \* SAFE_REFUSAL
    RoundLimits,        \* values of max_revision_rounds
    Drifts              \* ways a connection may read otherwise than at install

\* Those RunBudget makes of its own constants.
ASSUME BudgetAssumption ==
    /\ MaxProposal \in Nat /\ MaxExaminer \in Nat /\ MaxReservations \in Nat
    /\ MaxUsd \in Nat /\ ReserveAmounts \subseteq Nat /\ ActualCosts \subseteq Nat
\* A run reserves at most once more than its lanes admit.
ASSUME BoundsSuffice == MaxReservations > MaxProposal + MaxExaminer
ASSUME RunAssumption ==
    /\ EmptyText \notin Texts /\ SafeRefusal \notin Texts
    /\ RoundLimits \subseteq Nat
    /\ Drifts \subseteq {"missing", "origin", "account", "model"}

VARIABLES
    \* the run's RunBudgetAuthority
    expired, nextId, reservations, usdReserved, usdCommitted, reserved, committed,
    pc, held, cost, raised, overrun, incurred,
    \* the loop
    config,       \* rounds; whether the caller supplied a draft; amounts to reserve
    fails,        \* text -> shards it fails without the examiner
    connection,   \* role -> how its observation slots compare with the install
    stage,        \* where the loop stands
    answer,       \* the provider's answer, until its cost is committed
    observation,  \* what the examiner last said, and of which text
    completions,  \* texts of the completions, in order
    trace,        \* RevisionStep records
    used,         \* revision rounds used
    last,         \* the last RoundResult
    outcome       \* the report

\* A supplied draft reserves and costs 0.
Budget == INSTANCE RunBudget WITH Clients        <- {Run},
                                  ReserveAmounts <- ReserveAmounts \cup {0},
                                  ActualCosts    <- ActualCosts \cup {0}

loop == <<config, fails, connection, stage, answer, observation,
          completions, trace, used, last, outcome>>
account == <<expired, nextId, reservations, usdReserved, usdCommitted, reserved, committed,
             pc, held, cost, raised, overrun, incurred>>
vars == <<account, loop>>

-----------------------------------------------------------------------------

Roles == {"proposer", "examiner"}
Links == {"installed"} \cup Drifts

\* The stages whose step is a call, and where a run has ended.
CallStages == {"propose", "examine", "revise"}
Ended == {"finished", "aborted", "escaped"}

NoRound == [text |-> EmptyText, failing |-> {}, action |-> "none", reason |-> ""]
NoOutcome == [terminal |-> "none", abort |-> "none", output |-> EmptyText, failing |-> {}, calls |-> 0]

Current == Last(completions)

Lane == IF stage = "examine" THEN Budget!Examiner ELSE Budget!Proposal

\* The draft the caller supplied takes a place in the proposal lane, and no money.
DraftInHand == stage = "propose" /\ config.supplied

Promise == IF DraftInHand THEN 0
           ELSE IF stage = "examine" THEN config.reserveExaminer ELSE config.reserveProposal

\* Each role is read, then compared in the order origin, account, model.
Mismatch(link) ==
    CASE link = "origin"  -> "origin_allowlist_failure"
      [] link = "account" -> "account_session_mismatch"
      [] link = "model"   -> "served_model_mismatch"

\* Bug: the examiner's connection is not compared.
DriftClassOfProposer ==
    IF connection["proposer"] = "missing" THEN "provenance_mismatch"
    ELSE IF connection["proposer"] # "installed" THEN Mismatch(connection["proposer"])
    ELSE "none"

\* The abort class of _recheck_runtime_provenance, "none" if it passes.
DriftClass ==
    IF \E r \in Roles : connection[r] = "missing" THEN "provenance_mismatch"
    ELSE IF connection["proposer"] # "installed" THEN Mismatch(connection["proposer"])
    ELSE IF connection["examiner"] # "installed" THEN Mismatch(connection["examiner"])
    ELSE "none"

\* While a call is under way the slots of one connection may change.
ConnectionMayChange ==
    \/ UNCHANGED connection
    \/ \E r \in Roles, link \in Links : connection' = [connection EXCEPT ![r] = link]

\* What the examiner may say of a text, once accepted (SemanticFindings): findings
\* lower the scores of some shards, perhaps below the threshold; each has a
\* feedback template or not.
Observations ==
    [text : Texts, findings : {"templated", "untemplated"}, penalised : SUBSET Shards]
    \cup [text : Texts, findings : {"none"}, penalised : {{}}]

-----------------------------------------------------------------------------

Init ==
    /\ Budget!Init
    /\ config \in [rounds : RoundLimits, supplied : BOOLEAN,
                   reserveProposal : ReserveAmounts, reserveExaminer : ReserveAmounts]
    /\ fails \in [Texts -> SUBSET Shards]
    /\ connection \in [Roles -> Links]
    /\ stage = "start"
    /\ answer = [text |-> EmptyText, strange |-> FALSE]
    /\ observation = [text |-> EmptyText, findings |-> "none", penalised |-> {}]
    /\ completions = << >>
    /\ trace = << >>
    /\ used = 0
    /\ last = NoRound
    /\ outcome = NoOutcome

\* A HybridExecutionAbort: the report has a class and nothing of the rounds.
Abort(class) ==
    /\ stage' = "aborted"
    /\ outcome' = [NoOutcome EXCEPT !.abort = class]

\* The result of round and the report made of it: whatever the terminal, the
\* output is the text the last decision was about.
Conclude(terminal, round) ==
    /\ stage' = "finished"
    /\ outcome' = [terminal |-> terminal, abort |-> "none", output |-> round.text,
                   failing |-> round.failing, calls |-> Len(completions')]

-----------------------------------------------------------------------------

\* Before the first call and at the top of every round.  The check between the
\* first answer and the first round reads the same slots as the round's own.
Recheck ==
    /\ stage \in {"start", "round"}
    /\ IF DriftClass # "none"
       THEN Abort(DriftClass)
       ELSE /\ stage' = IF stage = "start" THEN "propose" ELSE "examine"
            /\ UNCHANGED outcome
    /\ UNCHANGED <<account, config, fails, connection, answer, observation,
                   completions, trace, used, last>>

\* The evaluator runs before the examiner.  What it raises is no
\* HybridExecutionAbort: it leaves execute_configured, and there is no report.
EvaluatorRaises ==
    /\ stage = "examine" /\ pc[Run] = "idle"
    /\ stage' = "escaped"
    /\ UNCHANGED <<account, config, fails, connection, answer, observation,
                   completions, trace, used, last, outcome>>

ReserveLane ==
    /\ stage \in CallStages
    /\ Budget!Reserve(Run, Lane, Promise)
    /\ UNCHANGED loop

LaneRefused ==
    /\ stage \in CallStages
    /\ Budget!ReserveRefused(Run, Lane, Promise)
    /\ Abort(Budget!Refusal(Lane, Promise))
    /\ UNCHANGED <<config, fails, connection, answer, observation, completions, trace, used, last>>

BeginCall ==
    /\ Budget!BeginExecute(Run)
    /\ UNCHANGED loop

BeginTooLate ==
    /\ Budget!BeginExecuteTooLate(Run)
    /\ Abort("wall_deadline_exhausted")
    /\ UNCHANGED <<config, fails, connection, answer, observation, completions, trace, used, last>>

\* provider.complete or provider.revise answers, and says which model served
\* it: "strange" is a model other than the installed one.
ProviderAnswers(text, strange, usd) ==
    /\ stage \in {"propose", "revise"} /\ ~DraftInHand
    /\ Budget!CallReturns(Run, usd)
    /\ answer' = [text |-> text, strange |-> strange]
    /\ ConnectionMayChange
    /\ UNCHANGED <<config, fails, stage, observation, completions, trace, used, last, outcome>>

\* No call is made for a supplied draft: it costs 0 and bears the model the
\* connection shows.
DraftAnswers(text, strange) ==
    /\ DraftInHand
    /\ Budget!CallReturns(Run, 0)
    /\ connection["proposer"] # "missing" => strange = (connection["proposer"] = "model")
    /\ answer' = [text |-> text, strange |-> strange]
    /\ UNCHANGED <<config, fails, connection, stage, observation, completions, trace, used, last, outcome>>

\* observe_semantic_candidate returns findings, bound to the current text, and
\* the backend knows its cost.
ExaminerAnswers(observed, usd) ==
    /\ stage = "examine"
    /\ observed.text = Current
    /\ Budget!CallReturns(Run, usd)
    /\ observation' = observed
    /\ ConnectionMayChange
    /\ UNCHANGED <<config, fails, stage, answer, completions, trace, used, last, outcome>>

\* The call raises or its cost is unknown; an examiner may also answer with a
\* status other than "ok" (a timeout has a class of its own; the others are
\* told apart by wording only and stand under "schema_invalid").
CallFails(class) ==
    /\ stage \in CallStages /\ ~DraftInHand
    /\ class = "wall_deadline_exhausted" => stage = "examine"
    /\ Budget!CallFails(Run, class)
    /\ ConnectionMayChange
    /\ UNCHANGED <<config, fails, stage, answer, observation, completions, trace, used, last, outcome>>

-----------------------------------------------------------------------------

\* The proposal was paid for and took the total over max_usd.
ProposalOverruns ==
    /\ stage \in {"propose", "revise"}
    /\ Budget!Commit(Run) /\ Budget!Over(Run)
    /\ Abort("spend_reservation_rejection")
    /\ UNCHANGED <<config, fails, connection, answer, observation, completions, trace, used, last>>

TakeFirst ==
    /\ stage = "propose"
    /\ Budget!Commit(Run) /\ ~Budget!Over(Run)
    /\ completions' = <<answer.text>>
    /\ IF answer.strange
       THEN Abort("served_model_mismatch")
       ELSE stage' = "round" /\ UNCHANGED outcome
    /\ UNCHANGED <<config, fails, connection, answer, observation, trace, used, last>>

Revised == [round |-> used + 1, input |-> Current, output |-> answer.text,
            failing |-> last.failing, action |-> last.action]

\* Bug: the revised text goes straight to the decision.
TakeRevisionUnexamined ==
    /\ stage = "revise"
    /\ Budget!Commit(Run) /\ ~Budget!Over(Run)
    /\ completions' = Append(completions, answer.text)
    /\ used' = used + 1
    /\ trace' = Append(trace, Revised)
    /\ IF answer.text = Current
       THEN Conclude("repeated", last)
       ELSE stage' = "decide" /\ UNCHANGED outcome
    /\ UNCHANGED <<config, fails, connection, answer, observation, last>>

\* A repeated candidate ends the run with the result of the round before.  The
\* test of used against max_revision_rounds that follows cannot fail.
TakeRevision ==
    /\ stage = "revise"
    /\ Budget!Commit(Run) /\ ~Budget!Over(Run)
    /\ completions' = Append(completions, answer.text)
    /\ used' = used + 1
    /\ trace' = Append(trace, Revised)
    /\ IF answer.text = Current
       THEN Conclude("repeated", last)
       ELSE stage' = "round" /\ UNCHANGED outcome
    /\ UNCHANGED <<config, fails, connection, answer, observation, last>>

\* After an overrun the budget goes to its except branch and the stage stays.
TakeObservation ==
    /\ stage = "examine"
    /\ Budget!Commit(Run)
    /\ stage' = IF Budget!Over(Run) THEN "examine" ELSE "decide"
    /\ UNCHANGED <<config, fails, connection, answer, observation, completions, trace, used, last, outcome>>

\* Bugs: nothing is raised again when there is nothing to release; a call that
\* was paid for counts as made, over budget or not; the run is aborted before
\* the reservation is given back.
UnwindOnlyUncommitted ==
    /\ Budget!Unwind(Run)
    /\ reservations[held[Run]].state # "committed"
    /\ Abort(raised[Run])
    /\ UNCHANGED <<config, fails, connection, answer, observation, completions, trace, used, last>>

UnwindAcceptsPaid ==
    /\ Budget!Unwind(Run)
    /\ IF raised[Run] = "spend_reservation_rejection"
       THEN stage' = "decide" /\ UNCHANGED outcome
       ELSE Abort(raised[Run])
    /\ UNCHANGED <<config, fails, connection, answer, observation, completions, trace, used, last>>

UnwindForgetsRelease ==
    /\ pc[Run] = "unwinding"
    /\ Abort(raised[Run])
    /\ UNCHANGED <<account, config, fails, connection, answer, observation,
                   completions, trace, used, last>>

Unwind ==
    /\ Budget!Unwind(Run)
    /\ Abort(raised[Run])
    /\ UNCHANGED <<config, fails, connection, answer, observation, completions, trace, used, last>>

-----------------------------------------------------------------------------

\* Bug: findings replace what the rubrics say.
FusedFailingForgetsRubrics ==
    IF observation.findings = "none" THEN fails[Current] ELSE observation.penalised

\* Fusing only lowers scores, and the wall derives passed from the fused score.
FusedFailing == fails[Current] \cup observation.penalised

Decision == Decide(FusedFailing, used, config.rounds, FALSE)

\* map_and_fuse_v2 reads the packaged registry and map again in every round and
\* refuses them once they are not the locked ones.  What else it refuses the
\* examiner's step has refused before (Judgement).
FuseFails ==
    /\ stage = "decide"
    /\ Abort("fuse_failure")
    /\ UNCHANGED <<account, config, fails, connection, answer, observation,
                   completions, trace, used, last>>

\* A text that is to be revised has findings, each with a template, or the run
\* is aborted, even when there is no round left to send the feedback in.
NoTemplate ==
    /\ stage = "decide"
    /\ Decision.action = "revise"
    /\ observation.findings \in {"none", "untemplated"}
    /\ Abort("schema_invalid")
    /\ UNCHANGED <<account, config, fails, connection, answer, observation,
                   completions, trace, used, last>>

AskRevision == used < config.rounds

\* decide, and next_loop_action with budget_left=True and timed_out=False.
DecideRound ==
    /\ stage = "decide"
    /\ Decision.action = "revise" => observation.findings = "templated"
    /\ last' = [text |-> Current, failing |-> FusedFailing,
                action |-> Decision.action, reason |-> Decision.reason]
    /\ IF Decision.action = "revise" /\ AskRevision
       THEN stage' = "revise" /\ UNCHANGED <<outcome, completions>>
       ELSE UNCHANGED completions /\ Conclude(Decision.action, last')
    /\ UNCHANGED <<account, config, fails, connection, answer, observation, trace, used>>

DeadlinePasses ==
    /\ stage \notin Ended
    /\ Budget!DeadlinePasses
    /\ UNCHANGED loop

-----------------------------------------------------------------------------

CallEnds ==
    \/ \E text \in Texts, strange \in BOOLEAN :
         \/ DraftAnswers(text, strange)
         \/ \E usd \in ActualCosts : ProviderAnswers(text, strange, usd)
    \/ \E observed \in Observations, usd \in ActualCosts : ExaminerAnswers(observed, usd)
    \/ \E class \in {"backend_error", "schema_invalid", "wall_deadline_exhausted"} : CallFails(class)

Loop ==
    \/ Recheck
    \/ EvaluatorRaises
    \/ ReserveLane \/ LaneRefused
    \/ BeginCall \/ BeginTooLate
    \/ CallEnds
    \/ ProposalOverruns \/ TakeFirst \/ TakeRevision \/ TakeObservation \/ Unwind
    \/ FuseFails \/ NoTemplate \/ DecideRound

Next == DeadlinePasses \/ Loop

Spec == Init /\ [][Next]_vars

\* The run is one thread that keeps running, and calls end (a provider's by its
\* transport timeout); nothing else is assumed.
FairSpec == Spec /\ WF_vars(Loop)

-----------------------------------------------------------------------------

Terminals == {"accept", "revise", "refuse", "repeated"}

AbortClasses == Budget!AbortClasses \cup
    {"provenance_mismatch", "origin_allowlist_failure", "account_session_mismatch",
     "served_model_mismatch", "fuse_failure"}

Reasons == {"", "all shards passed", "irreconcilable hard shards", "revision requested",
            "hard shard still failing after revision budget",
            "soft shard still failing; returning last revision"}

LoopTypeOK ==
    /\ config \in [rounds : RoundLimits, supplied : BOOLEAN,
                   reserveProposal : ReserveAmounts, reserveExaminer : ReserveAmounts]
    /\ fails \in [Texts -> SUBSET Shards]
    /\ connection \in [Roles -> Links]
    /\ stage \in CallStages \cup Ended \cup {"start", "round", "decide"}
    /\ answer \in [text : Texts \cup {EmptyText}, strange : BOOLEAN]
    /\ observation \in Observations \cup
         {[text |-> EmptyText, findings |-> "none", penalised |-> {}]}
    /\ completions \in Seq(Texts)
    /\ trace \in Seq([round : Nat, input : Texts, output : Texts,
                      failing : SUBSET Shards, action : {"revise"}])
    /\ used \in Nat
    /\ last \in [text : Texts \cup {EmptyText}, failing : SUBSET Shards,
                 action : {"none", "accept", "revise", "refuse"}, reason : Reasons]
    /\ outcome \in [terminal : Terminals \cup {"none"}, abort : AbortClasses \cup {"none"},
                    output : Texts \cup {EmptyText}, failing : SUBSET Shards, calls : Nat]

TypeOK == Budget!TypeOK /\ LoopTypeOK

\* However a run ends, by verdict, by abort in any step of any call, or by an
\* exception that leaves the loop, it holds no reservation: the authority has
\* its counts and its money back (loop.py, _release_unless_committed and the
\* except branches; budget.py of _v07_3b).
EndedRunHoldsNothing ==
    stage \in Ended => usdReserved = 0 /\ \A k \in DOMAIN reserved : reserved[k] = 0

\* A verdict is about a text the rubrics and the examiner have both looked at
\* in this round, and rests on what both said; only a repeated candidate is
\* reported with the verdict of its earlier appearance.
VerdictRestsOnBoth ==
    outcome.terminal # "none" =>
        /\ observation.text = outcome.output
        /\ outcome.failing = fails[outcome.output] \cup observation.penalised
        /\ outcome.terminal = "accept" <=> outcome.failing = {}

\* The books and the run agree at a verdict: each completion was committed in
\* the proposal lane, a supplied draft too, and each text was examined once,
\* the repeated one not again.
VerdictMatchesBooks ==
    outcome.terminal # "none" =>
        /\ outcome.calls = committed[Budget!Proposal]
        /\ outcome.calls = committed[Budget!Examiner] + (IF outcome.terminal = "repeated" THEN 1 ELSE 0)
        /\ outcome.calls = Len(trace) + 1

\* No run that has overspent ends in a verdict ("a valid known cost that then
\* exceeds max USD is already committed"): the overrun is an abort, in the lane
\* that lets the exception pass and in the one that catches it.
NoVerdictOverBudget == usdCommitted > MaxUsd => outcome.terminal = "none"

\* The examiner is asked only over connections that read as they did at
\* install: a slot that changed in the call before, on either side, stops the
\* run first (test_sf2_revision_round_drift_aborts_before_next_decision).
ExaminerAskedAsInstalled ==
    [][ reserved'[Budget!Examiner] > reserved[Budget!Examiner] =>
          \A r \in Roles : connection[r] = "installed" ]_vars

\* docs/protocol-v0.1.md, rule for refuse: "Emit a fixed safe refusal".
RefusalIsSafe == outcome.terminal = "refuse" => outcome.output = SafeRefusal

\* Every run ends.
RunEnds == <>(stage \in Ended)

=============================================================================
