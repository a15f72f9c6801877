---------------------------- MODULE ControlLoop ----------------------------
(***************************************************************************)
(* One run of ConstrainedAgent (src/agents/recursive_agent.py) under any   *)
(* of the conditions A to D, with the shared machine step of               *)
(* src/control_contract.py, and the report ai4/constrain/api.py makes of a *)
(* condition-D run from the decisions it recorded on the way.              *)
(*                                                                         *)
(* A provider call takes time and answers with any text, or raises; so     *)
(* does an evaluation.  The loop reads the clock three times: before the   *)
(* first call, and twice in every round, before and after it decides.      *)
(*                                                                         *)
(* A text is a model value; which shards it fails, and whether the critic  *)
(* of condition C wants it revised, is fixed for the run: both are         *)
(* functions of the text alone.                                            *)
(***************************************************************************)
EXTENDS Arbitration, Sequences, SequencesExt

CONSTANTS
    Texts,              \* what a provider may answer
    EmptyText,          \* "", the text of a run that made no call
    SafeRefusal,        \* SAFE_REFUSAL
    Conditions,         \* the conditions to run, of "A", "B", "C", "D"
    RoundLimits,        \* values of max_revision_rounds
    CompletionLimits    \* values of max_completions

ASSUME LoopAssumption ==
    /\ EmptyText \notin Texts /\ SafeRefusal \notin Texts /\ EmptyText # SafeRefusal
    /\ Conditions \subseteq {"A", "B", "C", "D"}
    /\ RoundLimits \subseteq Nat
    /\ CompletionLimits \subseteq Nat

VARIABLES
    config,       \* AgentConfig of the run
    fails,        \* text -> shards it fails
    warranted,    \* texts condition C's critic wants revised
    late,         \* the clock has reached the deadline
    pc,
    completions,  \* texts of the completions, in order
    captures,     \* decide() results the recording middleware kept, in order
    decision,     \* LoopDecision of the current round
    used,         \* revision_rounds_used
    result,       \* RunResult
    report        \* DecisionReport

inputs == <<config, fails, warranted>>
vars == <<inputs, late, pc, completions, captures, decision, used, result, report>>

-----------------------------------------------------------------------------

Terminals == {"accept", "revise", "refuse", "timeout", "repeated"}
Actions == {"accept", "revise", "refuse", "timeout"}

NoDecision == [action |-> "none", reason |-> ""]
NoResult == [state |-> "none", text |-> EmptyText, reason |-> ""]
NoReport == [terminal |-> "none", decision |-> "none", driving |-> EmptyText,
             verdict |-> "none", veto |-> FALSE, trusted |-> EmptyText, trace |-> << >>]

\* The loop's variable of this name holds the last completion's text.
Current == Last(completions)

BudgetLeft == Len(completions) < config.completions

\* Condition C: the critic's two answers as parse_c_decision reads them.
Critique(text, timedOut) ==
    IF timedOut THEN Ruled("timeout", "timeout during self-refine")
    ELSE IF text \in warranted
         THEN Ruled("revise", "revision warranted after principle critique")
         ELSE Ruled("accept", "no revision warranted")

\* _loop_decision.
LoopDecision(text, timedOut) ==
    IF config.condition = "C"
    THEN Critique(text, timedOut)
    ELSE Decide(fails[text], used, config.rounds, timedOut)

RoundLeft == used < config.rounds

\* Bug: the clock is read only before the decision.
StepTrustsDecision(d) ==
    IF d.action = "timeout" THEN "timeout"
    ELSE IF d.action \in {"refuse", "accept"} THEN d.action
    ELSE IF RoundLeft THEN IF BudgetLeft THEN "revise_call" ELSE "timeout"
    ELSE "emit_exhausted"

\* next_loop_action, with the clock read now.  A decision asks for a revision
\* exactly when its action is "revise".
NextLoopAction(d) ==
    IF late \/ d.action = "timeout" THEN "timeout"
    ELSE IF d.action \in {"refuse", "accept"} THEN d.action
    ELSE IF RoundLeft THEN IF BudgetLeft THEN "revise_call" ELSE "timeout"
    ELSE "emit_exhausted"

-----------------------------------------------------------------------------

Init ==
    /\ config \in [condition : Conditions, rounds : RoundLimits, completions : CompletionLimits]
    /\ fails \in [Texts -> SUBSET Shards]
    /\ warranted \in SUBSET Texts
    /\ config.condition # "D" => \A t \in Texts : fails[t] = {}   \* not read
    /\ config.condition # "C" => warranted = {}                   \* not read
    /\ late \in BOOLEAN
    /\ pc = "start"
    /\ completions = << >>
    /\ captures = << >>
    /\ decision = NoDecision
    /\ used = 0
    /\ result = NoResult
    /\ report = NoReport

ClockPasses ==
    /\ ~late
    /\ late' = TRUE
    /\ UNCHANGED <<inputs, pc, completions, captures, decision, used, result, report>>

Finish(state, text, reason) ==
    /\ pc' = "done"
    /\ result' = [state |-> state, text |-> text, reason |-> reason]

\* Bug: no result when it is too late.
StartOnlyInTime ==
    /\ pc = "start"
    /\ ~late /\ BudgetLeft
    /\ pc' = "first_call"
    /\ UNCHANGED <<inputs, late, completions, captures, decision, used, result, report>>


Start ==
    /\ pc = "start"
    /\ IF late \/ ~BudgetLeft
       THEN Finish("timeout", EmptyText, "timeout before first completion")
       ELSE pc' = "first_call" /\ UNCHANGED result
    /\ UNCHANGED <<inputs, late, completions, captures, decision, used, report>>

\* provider.complete answers, or the draft the caller supplied is issued.
FirstCompletion(text) ==
    /\ pc = "first_call"
    /\ completions' = <<text>>
    /\ IF config.condition \in {"A", "B"}
       THEN Finish("accept", text, "one-shot emit")
       ELSE pc' = "decide" /\ UNCHANGED result
    /\ UNCHANGED <<inputs, late, captures, decision, used, report>>

\* The evaluation of the current text and the decision on it.  Under condition
\* D the middleware that decides is the recording one.
DecideRound ==
    /\ pc = "decide"
    /\ decision' = LoopDecision(Current, late)
    /\ captures' = IF config.condition = "D"
                   THEN Append(captures, [text |-> Current, failing |-> fails[Current],
                                          round |-> used, action |-> decision'.action])
                   ELSE captures
    /\ pc' = "act"
    /\ UNCHANGED <<inputs, late, completions, used, result, report>>

ActOnDecision ==
    /\ pc = "act"
    /\ CASE NextLoopAction(decision) = "timeout" ->
              Finish("timeout", Current,
                     IF ~BudgetLeft /\ decision.action = "revise"
                     THEN "completion budget exhausted" ELSE decision.reason)
         [] NextLoopAction(decision) = "accept" -> Finish("accept", Current, decision.reason)
         [] NextLoopAction(decision) = "refuse" -> Finish("refuse", SafeRefusal, decision.reason)
         [] NextLoopAction(decision) = "emit_exhausted" -> Finish("revise", Current, decision.reason)
         [] NextLoopAction(decision) = "revise_call" -> pc' = "revise_call" /\ UNCHANGED result
    /\ UNCHANGED <<inputs, late, completions, captures, decision, used, report>>

\* provider.revise answers.
Revision(text) ==
    /\ pc = "revise_call"
    /\ completions' = Append(completions, text)
    /\ used' = used + 1
    /\ IF text = Current
       THEN Finish("repeated", Current, "repeated candidate")
       ELSE pc' = "decide" /\ UNCHANGED result
    /\ UNCHANGED <<inputs, late, captures, decision, report>>

\* A provider, critic or evaluator raises: the run fails closed and there is
\* no result (api.run turns it into ConstraintExecutionError).  finish
\* evaluates the text it is given when the round has no evaluation of it.
Raise ==
    /\ \/ pc \in {"first_call", "decide", "revise_call"}
       \/ pc = "start" /\ (late \/ ~BudgetLeft)
       \/ pc = "act" /\ (NextLoopAction(decision) = "refuse" \/ config.condition = "C")
    /\ pc' = "raised"
    /\ UNCHANGED <<inputs, late, completions, captures, decision, used, result, report>>

-----------------------------------------------------------------------------

\* api.run's report of a condition-D run.

\* frozen_terminal_label: a timeout whose reason contains "budget" counts as
\* an exhausted budget.
MentionsBudget == {"completion budget exhausted", "hard shard still failing after revision budget"}

TerminalLabel(state, reason) ==
    CASE state = "accept"   -> "accepted"
      [] state = "revise"   -> "revision_exhausted"
      [] state = "refuse"   -> "refused"
      [] state = "repeated" -> "repeated_candidate"
      [] state = "timeout"  -> IF reason \in MentionsBudget THEN "budget_exhausted" ELSE "timed_out"

\* product_decision: an execution terminal is no decision.
ProductDecision(state) ==
    CASE state \in {"accept", "revise", "refuse"} -> state
      [] state = "repeated" -> "revise"
      [] state = "timeout"  -> "null"

\* Of the captures of its text, in order, the one that capture j is.
Occurrence(j) == Cardinality({h \in 1..j : captures[h].text = captures[j].text})

\* Bug: a capture may explain two revisions.
NthUseReuses(i) == 1

\* How often revisions 1..i have started from the text that revision i did:
\* each takes the first capture of its text that none before it has used.
NthUse(i) == Cardinality({j \in 1..i : completions[j] = completions[i]})

Explaining(i) == {j \in DOMAIN captures : /\ captures[j].text = completions[i]
                                          /\ Occurrence(j) = NthUse(i)}

Unexplained(i) == Explaining(i) = {}

\* _captured_trace.
CapturedTrace ==
    [i \in 1..(Len(completions) - 1) |->
        [round |-> i, input |-> completions[i], output |-> completions[i + 1],
         capture |-> captures[CHOOSE j \in Explaining(i) : TRUE]]]

\* Bug: the first capture of the text explains the outcome.
DrivingCaptureOfFirst == IF captures = << >> THEN 0 ELSE 1

\* _driving_from_capture and the capture _report_from_run pairs with it: of
\* the evaluations of the last completion's text, the last.
DrivingCapture == SelectLastInSeq(captures, LAMBDA c : c.text = Current)

\* Bug: every constraint decision makes its text trusted.
TrustedOutputOfAnyDecision(productDecision, terminal, text) ==
    IF productDecision # "null" THEN text ELSE EmptyText

\* session.trusted_assistant_output of the report.
TrustedOutput(productDecision, terminal, text) ==
    IF \/ productDecision = "accept" /\ terminal = "accepted"
       \/ productDecision = "refuse" /\ terminal = "refused" /\ text = SafeRefusal
    THEN text ELSE EmptyText

ReportOf(driving) ==
    LET terminal == TerminalLabel(result.state, result.reason)
        productDecision == ProductDecision(result.state)
    IN [terminal |-> terminal,
        decision |-> productDecision,
        driving  |-> IF driving = 0 THEN EmptyText ELSE captures[driving].text,
        verdict  |-> IF driving = 0 THEN "none" ELSE Arbitrate(captures[driving].failing).verdict,
        veto     |-> IF driving = 0 THEN FALSE ELSE Arbitrate(captures[driving].failing).veto,
        trusted  |-> TrustedOutput(productDecision, terminal, result.text),
        trace    |-> CapturedTrace]

\* A candidate or a revision without a captured decision fails the report.
Report ==
    /\ pc = "done"
    /\ config.condition = "D"
    /\ IF \/ \E i \in 1..(Len(completions) - 1) : Unexplained(i)
          \/ (completions # << >> /\ DrivingCapture = 0)
       THEN pc' = "unreported" /\ UNCHANGED report
       ELSE /\ pc' = "reported"
            /\ report' = ReportOf(IF completions = << >> THEN 0 ELSE DrivingCapture)
    /\ UNCHANGED <<inputs, late, completions, captures, decision, used, result>>

-----------------------------------------------------------------------------

Loop ==
    \/ Start
    \/ \E text \in Texts : FirstCompletion(text) \/ Revision(text)
    \/ DecideRound
    \/ ActOnDecision
    \/ Report

Next == ClockPasses \/ Loop \/ Raise

Spec == Init /\ [][Next]_vars

\* The loop is one thread that keeps running, and a provider call ends; nothing
\* obliges a provider to raise.
FairSpec == Spec /\ WF_vars(Loop)

-----------------------------------------------------------------------------

Captures == [text : Texts, failing : SUBSET Shards, round : Nat, action : Actions]

TypeOK ==
    /\ config \in [condition : Conditions, rounds : RoundLimits, completions : CompletionLimits]
    /\ fails \in [Texts -> SUBSET Shards]
    /\ warranted \subseteq Texts
    /\ late \in BOOLEAN
    /\ pc \in {"start", "first_call", "decide", "act", "revise_call", "done", "raised",
               "reported", "unreported"}
    /\ completions \in Seq(Texts)
    /\ captures \in Seq(Captures)
    /\ decision.action \in Actions \cup {"none"}
    /\ used \in Nat
    /\ result.state \in Terminals \cup {"none"}
    /\ result.text \in Texts \cup {EmptyText, SafeRefusal}

\* A run makes at most max_completions completions and at most one first and
\* max_revision_rounds revised ones, whichever limit is the smaller, and it
\* counts its rounds right (protocol-v0.1, comparable budget).
CallsBounded ==
    /\ Len(completions) <= config.completions
    /\ used <= config.rounds
    /\ Len(completions) <= used + 1

\* A text condition D accepts fails no shard, in whichever round, whatever
\* the clock did between the decision and the step taken on it.
AcceptedPasses ==
    config.condition = "D" /\ result.state = "accept" => fails[result.text] = {}

\* Condition D decides no text that fails a hard shard into the open: such a
\* text is put out only where the run was stopped without a decision to emit
\* it.  The clock ran out, or the completions did while a revision was due, and
\* the text in hand goes out as a timeout; or the revision that was asked for
\* gave the same text back.  Irreconcilable shards leave the clock alone.
HardFailureOnlyWhenStopped ==
    config.condition = "D" /\ result.text \in Texts /\ HardFailing(fails[result.text]) # {} =>
        \/ /\ result.state = "timeout"
           /\ late \/ (~BudgetLeft /\ RoundLeft /\ ~Irreconcilable(fails[result.text]))
        \/ /\ result.state = "repeated"
           /\ Len(completions) > 1 /\ completions[Len(completions) - 1] = result.text
           /\ ~Irreconcilable(fails[result.text])

\* The reported trace is the loop that ran: step i explains revision i by the
\* decision of round i, even when the candidates go round in a circle and one
\* text was decided on in several rounds.
TraceIsTheLoop ==
    pc = "reported" =>
        /\ Len(report.trace) = IF completions = << >> THEN 0 ELSE Len(completions) - 1
        /\ \A i \in DOMAIN report.trace :
             LET step == report.trace[i] IN
             /\ step.input = completions[i] /\ step.output = completions[i + 1]
             /\ step.capture.round = i - 1
             /\ step.capture.action = "revise"

\* The scores a report shows explain the decision it states: accept comes with
\* a pass, refuse with a veto, revise with a failure, an execution terminal
\* with no decision; and they are the scores of the last candidate.
ReportExplainsDecision ==
    pc = "reported" =>
        /\ report.decision = "accept" => report.verdict = "pass"
        /\ report.decision = "refuse" => report.veto
        /\ report.decision = "revise" => report.verdict = "fail"
        /\ report.decision = "null" <=> report.terminal \in {"timed_out", "budget_exhausted"}
        /\ completions # << >> => report.driving = Current

\* What a session takes into its trusted history is the safe refusal or a text
\* that fails no shard: never a timed-out, exhausted or repeated candidate.
TrustedIsClean ==
    report.trusted \in Texts => fails[report.trusted] = {}

\* After the deadline the loop begins no provider call, not even one it had
\* decided on in time.
NoCallBegunLate ==
    [][ late => pc' \notin {"first_call", "revise_call"} \ {pc} ]_vars

\* "mark irreconcilable and refuse without more model calls" (arbitration.py,
\* rule 5), and no call is spent on a candidate that passes.
NoCallAfterVerdict ==
    [][ config.condition = "D" /\ completions # << >> /\ completions' # completions =>
            fails[Current] # {} /\ ~Irreconcilable(fails[Current]) ]_vars

\* Every run ends: with a result (condition D: with its report) or an error.
RunEnds == <>(pc \in {"raised", "reported"} \/ (pc = "done" /\ config.condition # "D"))

=============================================================================
