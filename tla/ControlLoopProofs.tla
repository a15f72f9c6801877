------------------------- MODULE ControlLoopProofs -------------------------
(***************************************************************************)
(* What ControlLoop guarantees for every set of shards, of texts and of    *)
(* limits.                                                                 *)
(*                                                                         *)
(* The invariant ties the two counts of the loop (completions, rounds      *)
(* used) to where the loop stands, and says that the decision in hand is   *)
(* the middleware's decision on the current text, taken at either value of *)
(* the clock: that is what makes the second reading of the clock harmless. *)
(* A second one, RInv, follows the captures of a condition-D run, for what *)
(* is reported of it.                                                      *)
(***************************************************************************)
EXTENDS ControlLoop, FiniteSetTheorems, SequenceTheorems, WellFoundedInduction, TLAPS

Deciding == pc \in {"decide", "act", "revise_call"}
Ended == pc \in {"done", "reported", "unreported"}

\* The counts a run keeps, wherever it stands.
CountsAgree ==
    /\ pc \in {"start", "first_call"} => completions = << >> /\ used = 0
    /\ pc = "first_call" => BudgetLeft
    /\ Deciding => Len(completions) = used + 1
    /\ pc = "revise_call" => BudgetLeft /\ RoundLeft

\* The decision in hand is decide's on the current text, and a timeout only if
\* the clock has run out.
DecisionIsCurrent ==
    pc = "act" /\ config.condition = "D" =>
        \E timedOut \in BOOLEAN :
            /\ timedOut => late
            /\ decision = Decide(fails[Current], used, config.rounds, timedOut)

\* A revision is asked for only of a text that fails and can be reconciled.
RevisionIsDue ==
    pc = "revise_call" /\ config.condition = "D" =>
        fails[Current] # {} /\ ~Irreconcilable(fails[Current])

ResultAtTheEnd == ~Ended => result.state = "none" /\ result.text = EmptyText

Types ==
    /\ config \in [condition : Conditions, rounds : RoundLimits, completions : CompletionLimits]
    /\ fails \in [Texts -> SUBSET Shards]
    /\ completions \in Seq(Texts)
    /\ used \in Nat

IInv ==
    /\ Types
    /\ CallsBounded
    /\ CountsAgree
    /\ DecisionIsCurrent
    /\ RevisionIsDue
    /\ ResultAtTheEnd
    /\ AcceptedPasses
    /\ HardFailureOnlyWhenStopped

-----------------------------------------------------------------------------

\* The text a sequence of completions ends in.
LEMMA LastOfAppend ==
    ASSUME NEW S, NEW s \in Seq(S), NEW e \in S
    PROVE  /\ Append(s, e) \in Seq(S)
           /\ Len(Append(s, e)) = Len(s) + 1
           /\ Last(Append(s, e)) = e
BY DEF Last

\* The text in hand is one of Texts.
LEMMA CurrentIsText ==
    ASSUME Types, Len(completions) > 0
    PROVE  Current \in Texts
BY DEF Current, Last, Types

\* decide rules one of four actions.
LEMMA DecideActions ==
    ASSUME NEW failing, NEW round, NEW rounds, NEW timedOut
    PROVE  Decide(failing, round, rounds, timedOut).action \in Actions
BY DEF Decide, NoRoundLeft, Ruled, Actions

\* decide accepts a text that passes and no other.
LEMMA DecideAccepts ==
    ASSUME NEW failing, NEW round, NEW rounds, NEW timedOut,
           Decide(failing, round, rounds, timedOut).action = "accept"
    PROVE  failing = {}
BY DEF Decide, NoRoundLeft, Ruled

\* What decide leaves to a revision fails, can be reconciled, and fails no hard
\* shard once no round is left.
LEMMA DecideRevises ==
    ASSUME NEW failing, NEW round, NEW rounds, NEW timedOut,
           Decide(failing, round, rounds, timedOut).action = "revise"
    PROVE  /\ failing # {}
           /\ ~Irreconcilable(failing)
           /\ ~(round < rounds) => HardFailing(failing) = {}
BY DEF Decide, NoRoundLeft, Ruled, CanRevise

\* decide rules a timeout only of a clock that has run out.
LEMMA DecideTimesOut ==
    ASSUME NEW failing, NEW round, NEW rounds, NEW timedOut,
           Decide(failing, round, rounds, timedOut).action = "timeout"
    PROVE  timedOut
BY DEF Decide, NoRoundLeft, Ruled

-----------------------------------------------------------------------------

\* The limits of a run are natural numbers.
LEMMA LimitsAreNat ==
    ASSUME Types
    PROVE  config.completions \in Nat /\ config.rounds \in Nat
BY LoopAssumption DEF Types

\* What the machine step and decide can say.
LEMMA StepsAre ==
    NextLoopAction(decision) \in {"timeout", "accept", "refuse", "emit_exhausted", "revise_call"}
BY DEF NextLoopAction

\* A finished run has the result it finished with.
LEMMA FinishResult ==
    ASSUME NEW state, NEW text, NEW reason, Finish(state, text, reason)
    PROVE  pc' = "done" /\ result'.state = state /\ result'.text = text
BY DEF Finish

LEMMA InitInv == Init => IInv
<1> SUFFICES ASSUME Init PROVE IInv
  OBVIOUS
<1>1. Types
  BY DEF Init, Types
<1>2. CallsBounded
  <2>1. config.completions \in Nat /\ config.rounds \in Nat
    BY <1>1, LimitsAreNat
  <2> QED
    BY <2>1 DEF Init, CallsBounded
<1>3. CountsAgree /\ DecisionIsCurrent /\ RevisionIsDue
  BY DEF Init, CountsAgree, DecisionIsCurrent, RevisionIsDue, Deciding
<1>4. ResultAtTheEnd /\ AcceptedPasses /\ HardFailureOnlyWhenStopped
  BY LoopAssumption DEF Init, ResultAtTheEnd, AcceptedPasses, HardFailureOnlyWhenStopped, NoResult
<1> QED
  BY <1>1, <1>2, <1>3, <1>4 DEF IInv

\* A step that ends no run and leaves the counts alone.
LEMMA ClockInv == IInv /\ ClockPasses => IInv'
BY DEF IInv, Types, CallsBounded, CountsAgree, DecisionIsCurrent, RevisionIsDue, ResultAtTheEnd,
       AcceptedPasses, HardFailureOnlyWhenStopped, ClockPasses, Deciding, Ended, inputs,
       BudgetLeft, RoundLeft, Current

LEMMA StartInv == IInv /\ Start => IInv'
<1> SUFFICES ASSUME IInv, Start PROVE IInv'
  OBVIOUS
<1>1. UNCHANGED <<config, fails, completions, used>>
  BY DEF Start, inputs
<1>2. pc' \in {"done", "first_call"} /\ (pc' = "first_call" => BudgetLeft)
  BY FinishResult DEF Start
<1>3. pc' = "done" => result'.state = "timeout" /\ result'.text = EmptyText
  BY FinishResult DEF Start
<1>4. pc' # "done" => result' = result
  BY FinishResult DEF Start
<1>5. pc = "start"
  BY DEF Start
<1>6. result.state = "none" /\ result.text = EmptyText
  BY <1>5 DEF IInv, ResultAtTheEnd, Ended
<1>7. Types' /\ CallsBounded'
  BY <1>1 DEF IInv, Types, CallsBounded
<1>8. CountsAgree' /\ DecisionIsCurrent' /\ RevisionIsDue'
  BY <1>1, <1>2, <1>5 DEF IInv, CountsAgree, DecisionIsCurrent, RevisionIsDue, Deciding, BudgetLeft
<1>9. ResultAtTheEnd' /\ AcceptedPasses' /\ HardFailureOnlyWhenStopped'
  BY <1>1, <1>2, <1>3, <1>4, <1>6, LoopAssumption DEF ResultAtTheEnd, AcceptedPasses, HardFailureOnlyWhenStopped, Ended
<1> QED
  BY <1>7, <1>8, <1>9 DEF IInv

LEMMA FirstInv == ASSUME NEW text \in Texts PROVE IInv /\ FirstCompletion(text) => IInv'
<1> SUFFICES ASSUME IInv, FirstCompletion(text) PROVE IInv'
  OBVIOUS
<1>1. /\ pc = "first_call" /\ completions = << >> /\ used = 0 /\ BudgetLeft
      /\ result.state = "none" /\ result.text = EmptyText
  BY DEF IInv, FirstCompletion, CountsAgree, ResultAtTheEnd, Ended
<1>2. UNCHANGED <<config, fails, used>> /\ completions' = <<text>>
  BY DEF FirstCompletion, inputs
<1>3. /\ pc' \in {"done", "decide"}
      /\ pc' = "done" => config.condition # "D"
      /\ pc' = "decide" => result' = result
  BY FinishResult DEF FirstCompletion
<1>4. Types'
  BY <1>2 DEF IInv, Types
<1>5. CallsBounded'
  BY <1>1, <1>2, LimitsAreNat DEF IInv, CallsBounded, BudgetLeft
<1>6. CountsAgree' /\ DecisionIsCurrent' /\ RevisionIsDue'
  BY <1>1, <1>2, <1>3 DEF CountsAgree, DecisionIsCurrent, RevisionIsDue, Deciding
<1>7. ResultAtTheEnd' /\ AcceptedPasses' /\ HardFailureOnlyWhenStopped'
  BY <1>1, <1>2, <1>3, LoopAssumption DEF ResultAtTheEnd, AcceptedPasses, HardFailureOnlyWhenStopped, Ended
<1> QED
  BY <1>4, <1>5, <1>6, <1>7 DEF IInv

LEMMA DecideInv == IInv /\ DecideRound => IInv'
<1> SUFFICES ASSUME IInv, DecideRound PROVE IInv'
  OBVIOUS
<1>1. /\ UNCHANGED <<config, fails, completions, used, result, late>>
      /\ pc = "decide" /\ pc' = "act" /\ decision' = LoopDecision(Current, late)
  BY DEF DecideRound, inputs
<1>2. Types' /\ CallsBounded' /\ ResultAtTheEnd' /\ AcceptedPasses' /\ HardFailureOnlyWhenStopped'
  BY <1>1, LoopAssumption DEF IInv, Types, CallsBounded, ResultAtTheEnd, AcceptedPasses,
                              HardFailureOnlyWhenStopped, Ended, Current
<1>3. CountsAgree' /\ RevisionIsDue'
  BY <1>1 DEF IInv, CountsAgree, RevisionIsDue, Deciding
<1>4. DecisionIsCurrent'
  <2>1. CASE config.condition = "D"
    <3>1. decision' = Decide(fails[Current], used, config.rounds, late)
      BY <1>1, <2>1 DEF LoopDecision
    <3>2. late = TRUE \/ late # TRUE
      OBVIOUS
    <3>3. \E timedOut \in BOOLEAN :
            /\ timedOut => late
            /\ decision' = Decide(fails[Current], used, config.rounds, timedOut)
      BY <3>1, <3>2 DEF Decide
    <3> QED
      BY <1>1, <3>3 DEF DecisionIsCurrent, Current
  <2> QED
    BY <1>1, <2>1 DEF DecisionIsCurrent
<1> QED
  BY <1>2, <1>3, <1>4 DEF IInv

LEMMA ActInv == IInv /\ ActOnDecision => IInv'
<1> SUFFICES ASSUME IInv, ActOnDecision PROVE IInv'
  OBVIOUS
<1>1. UNCHANGED <<config, fails, completions, used, late>> /\ pc = "act"
  BY DEF ActOnDecision, inputs
<1>2. Len(completions) = used + 1 /\ result.state = "none" /\ result.text = EmptyText
  BY <1>1 DEF IInv, CountsAgree, Deciding, ResultAtTheEnd, Ended
<1>3. Current \in Texts /\ Current' = Current
  BY <1>1, <1>2, CurrentIsText DEF IInv, Types, Current
<1>4. Types' /\ CallsBounded'
  BY <1>1 DEF IInv, Types, CallsBounded
<1>5. ASSUME config.condition = "D", decision.action = "accept"
      PROVE  fails[Current] = {}
  BY <1>1, <1>5, DecideAccepts DEF IInv, DecisionIsCurrent
<1>6. ASSUME config.condition = "D", decision.action = "revise"
      PROVE  /\ fails[Current] # {} /\ ~Irreconcilable(fails[Current])
             /\ ~RoundLeft => HardFailing(fails[Current]) = {}
  BY <1>1, <1>6, DecideRevises DEF IInv, DecisionIsCurrent, RoundLeft
<1>7. NextLoopAction(decision) \in {"timeout", "accept", "refuse", "emit_exhausted", "revise_call"}
  BY StepsAre
<1>8. CASE NextLoopAction(decision) = "timeout"
  <2>1. pc' = "done" /\ result'.state = "timeout" /\ result'.text = Current
    BY <1>8, FinishResult DEF ActOnDecision
  <2>2. CountsAgree' /\ DecisionIsCurrent' /\ RevisionIsDue'
    BY <2>1 DEF CountsAgree, DecisionIsCurrent, RevisionIsDue, Deciding
  <2>3. late \/ decision.action = "timeout" \/ (~BudgetLeft /\ RoundLeft)
    BY <1>8 DEF NextLoopAction
  <2>4. config.condition = "D" => late \/ (~BudgetLeft /\ RoundLeft /\ decision.action = "revise")
    <3> SUFFICES ASSUME config.condition = "D", ~late
                 PROVE  ~BudgetLeft /\ RoundLeft /\ decision.action = "revise"
      OBVIOUS
    <3>1. decision.action # "timeout"
      BY <1>1, DecideTimesOut DEF IInv, DecisionIsCurrent
    <3>2. decision.action \in Actions
      BY <1>1, DecideActions DEF IInv, DecisionIsCurrent
    <3>3. decision.action \notin {"refuse", "accept"}
      BY <1>8 DEF NextLoopAction
    <3> QED
      BY <2>3, <3>1, <3>2, <3>3 DEF Actions
  <2>5. HardFailureOnlyWhenStopped'
    BY <1>1, <1>6, <2>1, <2>4 DEF HardFailureOnlyWhenStopped, BudgetLeft, RoundLeft
  <2>6. ResultAtTheEnd' /\ AcceptedPasses'
    BY <2>1 DEF ResultAtTheEnd, AcceptedPasses, Ended
  <2> QED
    BY <1>4, <2>2, <2>5, <2>6 DEF IInv
<1>9. CASE NextLoopAction(decision) = "accept"
  <2>1. pc' = "done" /\ result'.state = "accept" /\ result'.text = Current
    BY <1>9, FinishResult DEF ActOnDecision
  <2>2. CountsAgree' /\ DecisionIsCurrent' /\ RevisionIsDue'
    BY <2>1 DEF CountsAgree, DecisionIsCurrent, RevisionIsDue, Deciding
  <2>3. decision.action = "accept"
    BY <1>9 DEF NextLoopAction
  <2>4. ResultAtTheEnd' /\ AcceptedPasses' /\ HardFailureOnlyWhenStopped'
    BY <1>1, <1>5, <2>1, <2>3 DEF ResultAtTheEnd, AcceptedPasses, HardFailureOnlyWhenStopped, Ended,
                                 HardFailing
  <2> QED
    BY <1>4, <2>2, <2>4 DEF IInv
<1>10. CASE NextLoopAction(decision) = "refuse"
  <2>1. pc' = "done" /\ result'.state = "refuse" /\ result'.text = SafeRefusal
    BY <1>10, FinishResult DEF ActOnDecision
  <2>2. CountsAgree' /\ DecisionIsCurrent' /\ RevisionIsDue'
    BY <2>1 DEF CountsAgree, DecisionIsCurrent, RevisionIsDue, Deciding
  <2>3. ResultAtTheEnd' /\ AcceptedPasses' /\ HardFailureOnlyWhenStopped'
    BY <2>1, LoopAssumption DEF ResultAtTheEnd, AcceptedPasses, HardFailureOnlyWhenStopped, Ended
  <2> QED
    BY <1>4, <2>2, <2>3 DEF IInv
<1>11. CASE NextLoopAction(decision) = "emit_exhausted"
  <2>1. pc' = "done" /\ result'.state = "revise" /\ result'.text = Current
    BY <1>11, FinishResult DEF ActOnDecision
  <2>2. CountsAgree' /\ DecisionIsCurrent' /\ RevisionIsDue'
    BY <2>1 DEF CountsAgree, DecisionIsCurrent, RevisionIsDue, Deciding
  <2>3. config.condition = "D" => decision.action = "revise"
    <3> SUFFICES ASSUME config.condition = "D" PROVE decision.action = "revise"
      OBVIOUS
    <3>1. decision.action \notin {"timeout", "accept", "refuse"}
      BY <1>11 DEF NextLoopAction
    <3>2. decision.action \in Actions
      BY <1>1, DecideActions DEF IInv, DecisionIsCurrent
    <3> QED
      BY <3>1, <3>2 DEF Actions
  <2>4. ~RoundLeft
    BY <1>11 DEF NextLoopAction
  <2>5. ResultAtTheEnd' /\ AcceptedPasses' /\ HardFailureOnlyWhenStopped'
    BY <1>1, <1>6, <2>1, <2>3, <2>4 DEF ResultAtTheEnd, AcceptedPasses, HardFailureOnlyWhenStopped, Ended
  <2> QED
    BY <1>4, <2>2, <2>5 DEF IInv
<1>12. CASE NextLoopAction(decision) = "revise_call"
  <2>1. pc' = "revise_call" /\ result' = result
    BY <1>12 DEF ActOnDecision
  <2>2. BudgetLeft /\ RoundLeft /\ decision.action \notin {"timeout", "accept", "refuse"}
    BY <1>12 DEF NextLoopAction
  <2>3. config.condition = "D" => decision.action \in Actions
    BY <1>1, DecideActions DEF IInv, DecisionIsCurrent
  <2>4. CountsAgree' /\ DecisionIsCurrent'
    BY <1>1, <1>2, <2>1, <2>2 DEF CountsAgree, DecisionIsCurrent, Deciding, BudgetLeft, RoundLeft
  <2>5. RevisionIsDue'
    BY <1>1, <1>3, <1>6, <2>1, <2>2, <2>3 DEF RevisionIsDue, Actions
  <2>6. ResultAtTheEnd' /\ AcceptedPasses' /\ HardFailureOnlyWhenStopped'
    BY <1>1, <1>2, <2>1, LoopAssumption
       DEF ResultAtTheEnd, AcceptedPasses, HardFailureOnlyWhenStopped, Ended
  <2> QED
    BY <1>4, <2>4, <2>5, <2>6 DEF IInv
<1> QED
  BY <1>7, <1>8, <1>9, <1>10, <1>11, <1>12

LEMMA RevisionInv == ASSUME NEW text \in Texts PROVE IInv /\ Revision(text) => IInv'
<1> SUFFICES ASSUME IInv, Revision(text) PROVE IInv'
  OBVIOUS
<1>1. /\ pc = "revise_call" /\ Len(completions) = used + 1
      /\ result.state = "none" /\ result.text = EmptyText
      /\ BudgetLeft /\ RoundLeft
  BY DEF IInv, Revision, CountsAgree, Deciding, ResultAtTheEnd, Ended
<1>2. UNCHANGED <<config, fails>> /\ completions' = Append(completions, text) /\ used' = used + 1
  BY DEF Revision, inputs
<1>3. /\ pc' \in {"done", "decide"}
      /\ pc' = "done" => /\ result'.state = "repeated" /\ result'.text = Current
                        /\ text = Current
      /\ pc' = "decide" => result' = result
  BY FinishResult DEF Revision
<1>4. completions' \in Seq(Texts) /\ Len(completions') = Len(completions) + 1
  BY <1>2, LastOfAppend DEF IInv, Types
<1>5. Types'
  BY <1>2, <1>4 DEF IInv, Types
<1>6. CallsBounded'
  BY <1>1, <1>2, <1>4, LimitsAreNat DEF IInv, Types, CallsBounded, BudgetLeft, RoundLeft
<1>7. CountsAgree' /\ DecisionIsCurrent' /\ RevisionIsDue'
  BY <1>1, <1>2, <1>3, <1>4 DEF CountsAgree, DecisionIsCurrent, RevisionIsDue, Deciding
<1>8. ResultAtTheEnd' /\ AcceptedPasses'
  BY <1>1, <1>2, <1>3 DEF ResultAtTheEnd, AcceptedPasses, Ended
<1>9. HardFailureOnlyWhenStopped'
  <2>1. CASE pc' = "done"
    <3>1. used \in Nat /\ Len(completions') > 1 /\ completions'[Len(completions') - 1] = Current
      BY <1>1, <1>2, <1>4, LastOfAppend DEF IInv, Types, Current, Last
    <3>2. config.condition = "D" => ~Irreconcilable(fails[Current])
      BY <1>1 DEF IInv, RevisionIsDue
    <3> QED
      BY <1>2, <1>3, <2>1, <3>1, <3>2 DEF HardFailureOnlyWhenStopped
  <2>2. CASE pc' = "decide"
    BY <1>1, <1>2, <1>3, <2>2, LoopAssumption DEF HardFailureOnlyWhenStopped
  <2> QED
    BY <1>3, <2>1, <2>2
<1> QED
  BY <1>5, <1>6, <1>7, <1>8, <1>9 DEF IInv

\* A run that raises, and a report, leave what the run did as it is.
LEMMA LeaveInv == IInv /\ (Raise \/ Report) => IInv'
<1> SUFFICES ASSUME IInv, Raise \/ Report PROVE IInv'
  OBVIOUS
<1>1. UNCHANGED <<config, fails, completions, used, result, late>>
  BY DEF Raise, Report, inputs
<1>2. /\ pc' \in {"raised", "reported", "unreported"}
      /\ pc' = "raised" => ~Ended
  BY DEF Raise, Report, Ended
<1>3. Types' /\ CallsBounded' /\ AcceptedPasses' /\ HardFailureOnlyWhenStopped'
  BY <1>1 DEF IInv, Types, CallsBounded, AcceptedPasses, HardFailureOnlyWhenStopped,
             BudgetLeft, RoundLeft
<1>4. CountsAgree' /\ DecisionIsCurrent' /\ RevisionIsDue'
  BY <1>2 DEF CountsAgree, DecisionIsCurrent, RevisionIsDue, Deciding
<1>5. ResultAtTheEnd'
  BY <1>1, <1>2 DEF IInv, ResultAtTheEnd, Ended
<1> QED
  BY <1>3, <1>4, <1>5 DEF IInv

LEMMA StutterInv == IInv /\ UNCHANGED vars => IInv'
BY DEF IInv, Types, CallsBounded, CountsAgree, DecisionIsCurrent, RevisionIsDue, ResultAtTheEnd,
       AcceptedPasses, HardFailureOnlyWhenStopped, vars, Deciding, Ended, inputs,
       BudgetLeft, RoundLeft, Current

LEMMA NextInv == IInv /\ [Next]_vars => IInv'
<1> SUFFICES ASSUME IInv, [Next]_vars PROVE IInv'
  OBVIOUS
<1>1. CASE ClockPasses
  BY <1>1, ClockInv
<1>2. CASE Loop
  BY <1>2, StartInv, FirstInv, RevisionInv, DecideInv, ActInv, LeaveInv DEF Loop
<1>3. CASE Raise
  BY <1>3, LeaveInv
<1>4. CASE UNCHANGED vars
  BY <1>4, StutterInv
<1> QED
  BY <1>1, <1>2, <1>3, <1>4 DEF Next

LEMMA LoopInv == Spec => []IInv
BY InitInv, NextInv, PTL DEF Spec

-----------------------------------------------------------------------------

\* Types, in the states the invariant describes.
LEMMA TypeStep == TypeOK /\ IInv /\ [Next]_vars => TypeOK'
<1> SUFFICES ASSUME TypeOK, IInv, [Next]_vars PROVE TypeOK'
  OBVIOUS
<1>1. Deciding => Current \in Texts
  <2>1. Deciding => Len(completions) > 0
    BY DEF IInv, CountsAgree, TypeOK
  <2> QED
    BY <2>1, CurrentIsText DEF IInv
<1>2. CASE ClockPasses
  BY <1>2 DEF TypeOK, ClockPasses, inputs
<1>3. CASE Start
  <2>1. /\ pc' \in {"done", "first_call"}
        /\ result'.state \in Terminals \cup {"none"}
        /\ result'.text \in Texts \cup {EmptyText, SafeRefusal}
    BY <1>3, FinishResult DEF TypeOK, Start, Terminals
  <2> QED
    BY <1>3, <2>1 DEF TypeOK, Start, inputs
<1>4. ASSUME NEW text \in Texts, FirstCompletion(text) PROVE TypeOK'
  <2>1. /\ pc' \in {"done", "decide"}
        /\ result'.state \in Terminals \cup {"none"}
        /\ result'.text \in Texts \cup {EmptyText, SafeRefusal}
    BY <1>4, FinishResult DEF TypeOK, FirstCompletion, Terminals
  <2>2. completions' \in Seq(Texts)
    <3>1. completions' = <<text>>
      BY <1>4 DEF FirstCompletion
    <3> QED
      BY <3>1
  <2> QED
    BY <1>4, <2>1, <2>2 DEF TypeOK, FirstCompletion, inputs
<1>5. ASSUME NEW text \in Texts, Revision(text) PROVE TypeOK'
  <2>1. completions' = Append(completions, text) /\ used' = used + 1
    BY <1>5 DEF Revision
  <2>2. completions' \in Seq(Texts) /\ used' \in Nat
    BY <2>1, LastOfAppend DEF TypeOK
  <2>3. Current \in Texts
    BY <1>1, <1>5 DEF Revision, Deciding
  <2>4. /\ pc' \in {"done", "decide"}
        /\ result'.state \in Terminals \cup {"none"}
        /\ result'.text \in Texts \cup {EmptyText, SafeRefusal}
    BY <1>5, <2>3, FinishResult DEF TypeOK, Revision, Terminals
  <2> QED
    BY <1>5, <2>2, <2>4 DEF TypeOK, Revision, inputs
<1>6. CASE DecideRound
  <2>1. Current \in Texts
    BY <1>1, <1>6 DEF DecideRound, Deciding
  <2>2. LoopDecision(Current, late).action \in Actions
    BY DecideActions DEF LoopDecision, Critique, Ruled, Actions
  <2>3. decision'.action \in Actions
    BY <1>6, <2>2 DEF DecideRound
  <2>4. [text |-> Current, failing |-> fails[Current], round |-> used,
         action |-> decision'.action] \in Captures
    BY <2>1, <2>3 DEF TypeOK, Captures
  <2>5. captures' \in Seq(Captures)
    BY <1>6, <2>4, LastOfAppend DEF TypeOK, DecideRound
  <2> QED
    BY <1>6, <2>3, <2>5 DEF TypeOK, DecideRound, inputs
<1>7. CASE ActOnDecision
  <2>1. Current \in Texts
    BY <1>1, <1>7 DEF ActOnDecision, Deciding
  <2>2. /\ pc' \in {"done", "revise_call"}
        /\ result'.state \in Terminals \cup {"none"}
        /\ result'.text \in Texts \cup {EmptyText, SafeRefusal}
    BY <1>7, <2>1, StepsAre, FinishResult DEF TypeOK, ActOnDecision, Terminals
  <2> QED
    BY <1>7, <2>2 DEF TypeOK, ActOnDecision, inputs
<1>8. CASE Raise
  BY <1>8 DEF TypeOK, Raise, inputs
<1>9. CASE Report
  BY <1>9 DEF TypeOK, Report, inputs
<1>10. CASE UNCHANGED vars
  BY <1>10 DEF TypeOK, vars, inputs
<1> QED
  BY <1>2, <1>3, <1>4, <1>5, <1>6, <1>7, <1>8, <1>9, <1>10 DEF Next, Loop

LEMMA InitType == Init => TypeOK
<1> SUFFICES ASSUME Init PROVE TypeOK
  OBVIOUS
<1>1. decision.action = "none" /\ result.state = "none" /\ result.text = EmptyText
  BY DEF Init, NoDecision, NoResult
<1>2. completions \in Seq(Texts) /\ captures \in Seq(Captures)
  BY DEF Init
<1> QED
  BY <1>1, <1>2 DEF Init, TypeOK

\* Every variable of the loop keeps its type.
THEOREM TypeCorrect == Spec => []TypeOK
BY InitType, TypeStep, LoopInv, PTL DEF Spec

\* No run makes more completions than either limit allows.
THEOREM CallsStayBounded == Spec => []CallsBounded
<1>1. IInv => CallsBounded
  BY DEF IInv
<1> QED
  BY LoopInv, <1>1, PTL

\* Condition D accepts no text that fails a shard.
THEOREM AcceptIsSound == Spec => []AcceptedPasses
<1>1. IInv => AcceptedPasses
  BY DEF IInv
<1> QED
  BY LoopInv, <1>1, PTL

\* Condition D puts out a text that fails a hard shard only where the run is
\* stopped before it can emit by decision: by the clock, by the completion
\* budget with a revision due, or by a revision that changes nothing.
THEOREM HardFailureNeedsStop == Spec => []HardFailureOnlyWhenStopped
<1>1. IInv => HardFailureOnlyWhenStopped
  BY DEF IInv
<1> QED
  BY LoopInv, <1>1, PTL

\* A provider is asked for a revision only of a text that fails and whose
\* failing shards can be reconciled.
THEOREM CallsAreDue == Spec => NoCallAfterVerdict
<1>1. ASSUME IInv, [Next]_vars, config.condition = "D", completions # << >>,
             completions' # completions
      PROVE  fails[Current] # {} /\ ~Irreconcilable(fails[Current])
  <2>1. PICK text \in Texts : FirstCompletion(text) \/ Revision(text)
    BY <1>1 DEF Next, Loop, ClockPasses, Start, DecideRound, ActOnDecision, Raise, Report, vars
  <2>2. pc = "revise_call"
    BY <1>1, <2>1 DEF FirstCompletion, Revision, IInv, CountsAgree
  <2> QED
    BY <1>1, <2>2 DEF IInv, RevisionIsDue
<1>2. IInv /\ [Next]_vars =>
        [config.condition = "D" /\ completions # << >> /\ completions' # completions =>
            fails[Current] # {} /\ ~Irreconcilable(fails[Current])]_vars
  BY <1>1
<1> QED
  BY LoopInv, <1>2, PTL DEF Spec, NoCallAfterVerdict

-----------------------------------------------------------------------------

\* What is reported of a condition-D run.  IInv says nothing of the captures;
\* CapturesFollow does: capture i is the decision on completion i, in round
\* i - 1, and it asked for a revision if completion i + 1 is there.

CapturesFollow ==
    config.condition = "D" =>
        /\ Len(captures) <= Len(completions)
        /\ \A i \in 1..Len(captures) :
             /\ captures[i].text = completions[i]
             /\ captures[i].failing = fails[completions[i]]
             /\ captures[i].round = i - 1
             /\ i < Len(completions) => captures[i].action = "revise"
        /\ pc \in {"act", "revise_call"} => Len(captures) = Len(completions)
        /\ pc = "act" => captures[Len(captures)].action = decision.action
        /\ pc = "revise_call" => captures[Len(captures)].action = "revise"
        /\ pc = "decide" => Len(captures) = Len(completions) - 1
        /\ pc = "done" => Len(completions) - 1 <= Len(captures)

\* A result is about the last completion, and it is due.
ResultIsDue ==
    config.condition = "D" /\ pc = "done" =>
        /\ result.state \in Terminals
        /\ result.state # "timeout" => completions # << >>
        /\ result.state = "accept" => fails[Current] = {}
        /\ result.state = "refuse" => HardFailing(fails[Current]) # {}
        /\ result.state \in {"revise", "repeated"} => fails[Current] # {}

ReportAtTheEnd == pc # "reported" => report.trusted = EmptyText

RInv ==
    /\ TypeOK /\ IInv /\ CapturesFollow /\ ResultIsDue /\ ReportAtTheEnd
    /\ TraceIsTheLoop /\ ReportExplainsDecision /\ TrustedIsClean

\* A set of natural numbers that is not empty has a least one, and a greatest
\* one if it is bounded.
LEMMA HasMin ==
    ASSUME NEW S \in SUBSET Nat, S # {}
    PROVE  \E m \in S : \A n \in S : m <= n
<1> DEFINE Less == {ss \in Nat \X Nat : ss[1] < ss[2]}
<1>1. IsWellFoundedOn(Less, Nat)
  BY NatLessThanWellFounded DEF OpToRel
<1>2. PICK m \in S : \A n \in S : <<n, m>> \notin Less
  BY <1>1, WFMin
<1>3. ASSUME NEW n \in S PROVE m <= n
  <2>1. ~(n < m)
    BY <1>2
  <2> QED BY <2>1
<1> QED BY <1>3

LEMMA HasMax ==
    ASSUME NEW N \in Nat, NEW S \in SUBSET (1..N), S # {}
    PROVE  Max(S) \in S
<1> DEFINE T == {N - n : n \in S}
<1>1. \A n \in S : N - n \in Nat
  OBVIOUS
<1>2. T \in SUBSET Nat
  BY <1>1
<1>3. T # {}
  OBVIOUS
<1>4. PICK t \in T : \A u \in T : t <= u
  BY <1>2, <1>3, HasMin
<1>5. PICK m \in S : t = N - m
  OBVIOUS
<1>6. ASSUME NEW n \in S PROVE m >= n
  BY <1>4, <1>5
<1> QED BY <1>6 DEF Max

\* decide refuses only a text that fails a hard shard.
LEMMA DecideRefuses ==
    ASSUME NEW failing, NEW round, NEW rounds, NEW timedOut,
           Decide(failing, round, rounds, timedOut).action = "refuse"
    PROVE  HardFailing(failing) # {}
<1>1. Irreconcilable(failing) \/ HardFailing(failing) # {}
  BY DEF Decide, NoRoundLeft, Ruled
<1>2. Irreconcilable(failing) => HardFailing(failing) # {}
  BY FS_EmptySet DEF Irreconcilable
<1> QED BY <1>1, <1>2

\* The last evaluation of the last completion's text is an evaluation of it.
LEMMA DrivingIsCurrent ==
    ASSUME captures \in Seq(Captures), DrivingCapture # 0
    PROVE  DrivingCapture \in 1..Len(captures) /\ captures[DrivingCapture].text = Current
<1> DEFINE I == {i \in 1..Len(captures) : captures[i].text = Current}
<1>1. DrivingCapture = IF I # {} THEN Max(I) ELSE 0
  BY DEF DrivingCapture, SelectLastInSeq
<1>2. Len(captures) \in Nat /\ I \in SUBSET (1..Len(captures))
  OBVIOUS
<1>3. I # {}
  BY <1>1
<1>4. Max(I) \in I
  BY <1>2, <1>3, HasMax
<1> QED BY <1>1, <1>3, <1>4

\* While the captures follow the completions, the one capture that explains
\* revision i is capture i, however often its text comes back.
LEMMA ExplainingIsItself ==
    ASSUME CapturesFollow, config.condition = "D",
           completions \in Seq(Texts), captures \in Seq(Captures),
           NEW i \in 1..Len(captures)
    PROVE  Explaining(i) = {i}
<1> DEFINE Same(j) == {h \in 1..j : completions[h] = completions[j]}
<1>1. /\ Len(captures) \in Nat /\ Len(captures) <= Len(completions) /\ Len(completions) \in Nat
      /\ \A j \in 1..Len(captures) : captures[j].text = completions[j]
      /\ DOMAIN captures = 1..Len(captures)
  BY DEF CapturesFollow
<1>2. ASSUME NEW j \in 1..Len(captures) PROVE Occurrence(j) = Cardinality(Same(j))
  <2>1. \A h \in 1..j : h \in 1..Len(captures)
    BY <1>1
  <2>2. {h \in 1..j : captures[h].text = captures[j].text} = Same(j)
    BY <1>1, <2>1
  <2> QED BY <2>2 DEF Occurrence
<1>3. NthUse(i) = Cardinality(Same(i))
  BY DEF NthUse
<1>4. i \in Explaining(i)
  BY <1>1, <1>2, <1>3 DEF Explaining
<1>5. ASSUME NEW j \in Explaining(i) PROVE j = i
  <2>1. /\ j \in 1..Len(captures) /\ completions[j] = completions[i]
        /\ Cardinality(Same(j)) = Cardinality(Same(i))
    BY <1>1, <1>2, <1>3 DEF Explaining
  <2>2. IsFiniteSet(Same(i)) /\ IsFiniteSet(Same(j))
    <3>1. IsFiniteSet(1..i) /\ IsFiniteSet(1..j)
      BY FS_Interval, <2>1
    <3>2. Same(i) \in SUBSET (1..i) /\ Same(j) \in SUBSET (1..j)
      OBVIOUS
    <3> QED BY <3>1, <3>2, FS_Subset
  <2>3. CASE j < i
    <3>1. Same(j) \in SUBSET Same(i) /\ i \in Same(i) /\ i \notin Same(j)
      BY <1>1, <2>1, <2>3
    <3> QED BY <2>1, <2>2, <3>1, FS_Subset
  <2>4. CASE i < j
    <3>1. Same(i) \in SUBSET Same(j) /\ j \in Same(j) /\ j \notin Same(i)
      BY <1>1, <2>1, <2>4
    <3> QED BY <2>1, <2>2, <3>1, FS_Subset
  <2> QED BY <1>1, <2>1, <2>3, <2>4
<1> QED BY <1>4, <1>5

-----------------------------------------------------------------------------

\* The types of what the lemmas below look at.
LEMMA RunTypes ==
    ASSUME RInv
    PROVE  /\ completions \in Seq(Texts) /\ Len(completions) \in Nat
           /\ captures \in Seq(Captures) /\ Len(captures) \in Nat
           /\ used \in Nat /\ fails \in [Texts -> SUBSET Shards]
           /\ Deciding => Len(completions) = used + 1 /\ Current = completions[Len(completions)]
           /\ completions # << >> => Current \in Texts
BY CurrentIsText DEF RInv, TypeOK, IInv, CountsAgree, Current, Last

\* A step that moves only where the loop stands.
LEMMA CapturesKept ==
    ASSUME RInv, UNCHANGED <<config, fails, completions, captures, decision>>,
           \/ pc' = pc
           \/ pc' \in {"raised", "reported", "unreported", "first_call"}
           \/ pc \in {"start", "act"} /\ pc' = "done"
    PROVE  CapturesFollow'
<1>1. pc \in {"start", "first_call"} => Len(completions) = 0
  BY DEF RInv, IInv, CountsAgree
<1>2. pc = "act" /\ config.condition = "D" => Len(captures) = Len(completions)
  BY DEF RInv, CapturesFollow
<1>3. Len(captures) \in Nat /\ Len(completions) \in Nat
  BY RunTypes
<1> QED BY <1>1, <1>2, <1>3 DEF RInv, CapturesFollow

LEMMA FirstCaptures ==
    ASSUME RInv, NEW text \in Texts, FirstCompletion(text)
    PROVE  CapturesFollow'
<1>1. /\ pc = "first_call" /\ completions' = <<text>>
      /\ UNCHANGED <<config, fails, captures, decision>>
      /\ pc' \in {"done", "decide"} /\ (config.condition = "D" => pc' = "decide")
  BY FinishResult DEF FirstCompletion, inputs
<1>2. completions = << >>
  BY <1>1 DEF RInv, IInv, CountsAgree
<1>3. config.condition = "D" => Len(captures) = 0
  BY <1>2, RunTypes DEF RInv, CapturesFollow
<1>4. Len(completions') = 1
  BY <1>1
<1> QED BY <1>1, <1>3, <1>4 DEF CapturesFollow

LEMMA DecideCaptures ==
    ASSUME RInv, DecideRound
    PROVE  CapturesFollow'
<1>1. /\ pc = "decide" /\ pc' = "act" /\ UNCHANGED <<config, fails, completions, used>>
      /\ config.condition = "D" =>
           captures' = Append(captures, [text |-> Current, failing |-> fails[Current],
                                         round |-> used, action |-> decision'.action])
  BY DEF DecideRound, inputs
<1> SUFFICES ASSUME config.condition = "D" PROVE CapturesFollow'
  BY <1>1 DEF CapturesFollow
<1>2. /\ Len(captures) = Len(completions) - 1 /\ used = Len(completions) - 1
      /\ Current = completions[Len(completions)]
      /\ \A i \in 1..Len(captures) :
           /\ captures[i].text = completions[i]
           /\ captures[i].failing = fails[completions[i]]
           /\ captures[i].round = i - 1
           /\ i < Len(completions) => captures[i].action = "revise"
  BY <1>1, RunTypes DEF RInv, CapturesFollow, Deciding
<1>3. /\ Len(captures') = Len(completions) /\ Len(completions) \in Nat
      /\ \A i \in 1..Len(captures) : captures'[i] = captures[i]
      /\ captures'[Len(completions)] = [text |-> Current, failing |-> fails[Current],
                                        round |-> used, action |-> decision'.action]
  BY <1>1, <1>2, RunTypes, AppendProperties
<1>4. \A i \in 1..Len(captures') :
        /\ captures'[i].text = completions[i]
        /\ captures'[i].failing = fails[completions[i]]
        /\ captures'[i].round = i - 1
        /\ i < Len(completions) => captures'[i].action = "revise"
  <2> TAKE i \in 1..Len(captures')
  <2>1. CASE i = Len(completions)
    BY <1>2, <1>3, <2>1
  <2>2. CASE i # Len(completions)
    <3>1. i \in 1..Len(captures)
      BY <1>2, <1>3, <2>2
    <3> QED BY <1>2, <1>3, <3>1
  <2> QED BY <2>1, <2>2
<1> QED BY <1>1, <1>3, <1>4 DEF CapturesFollow

\* A decision from which a revision is called for asks for one.
LEMMA RevisionWasAsked ==
    ASSUME RInv, pc = "act", config.condition = "D",
           NextLoopAction(decision) \in {"revise_call", "emit_exhausted"}
    PROVE  decision.action = "revise"
<1>1. decision.action \in Actions
  BY DecideActions DEF RInv, IInv, DecisionIsCurrent
<1> QED BY <1>1 DEF NextLoopAction, Actions

LEMMA ActCaptures ==
    ASSUME RInv, ActOnDecision
    PROVE  CapturesFollow'
<1>1. pc = "act" /\ UNCHANGED <<config, fails, completions, captures, decision>>
  BY DEF ActOnDecision, inputs
<1>2. CASE NextLoopAction(decision) = "revise_call"
  <2>1. pc' = "revise_call"
    BY <1>2 DEF ActOnDecision
  <2>2. config.condition = "D" => decision.action = "revise"
    BY <1>1, <1>2, RevisionWasAsked
  <2> QED BY <1>1, <2>1, <2>2, RunTypes DEF RInv, CapturesFollow
<1>3. CASE NextLoopAction(decision) # "revise_call"
  <2>1. pc' = "done"
    BY <1>3, StepsAre, FinishResult DEF ActOnDecision
  <2> QED BY <1>1, <2>1, CapturesKept
<1> QED BY <1>2, <1>3

LEMMA RevisionCaptures ==
    ASSUME RInv, NEW text \in Texts, Revision(text)
    PROVE  CapturesFollow'
<1>1. /\ pc = "revise_call" /\ pc' \in {"done", "decide"}
      /\ completions' = Append(completions, text)
      /\ UNCHANGED <<config, fails, captures>>
  BY FinishResult DEF Revision, inputs
<1> SUFFICES ASSUME config.condition = "D" PROVE CapturesFollow'
  BY <1>1 DEF CapturesFollow
<1>2. /\ Len(captures) = Len(completions) /\ captures[Len(captures)].action = "revise"
      /\ \A i \in 1..Len(captures) :
           /\ captures[i].text = completions[i]
           /\ captures[i].failing = fails[completions[i]]
           /\ captures[i].round = i - 1
           /\ i < Len(completions) => captures[i].action = "revise"
  BY <1>1 DEF RInv, CapturesFollow
<1>3. /\ Len(completions') = Len(completions) + 1 /\ Len(completions) \in Nat
      /\ \A i \in 1..Len(completions) : completions'[i] = completions[i]
  BY <1>1, RunTypes, AppendProperties
<1>4. \A i \in 1..Len(captures) :
        /\ captures[i].text = completions'[i]
        /\ captures[i].failing = fails[completions'[i]]
        /\ captures[i].round = i - 1
        /\ captures[i].action = "revise"
  <2> TAKE i \in 1..Len(captures)
  <2>1. i = Len(captures) \/ i < Len(completions)
    BY <1>2, <1>3
  <2> QED BY <1>2, <1>3, <2>1
<1> QED BY <1>1, <1>2, <1>3, <1>4 DEF CapturesFollow

\* Each step keeps the captures in line with the completions.
LEMMA CapturesStep ==
    ASSUME RInv, [Next]_vars
    PROVE  CapturesFollow'
<1>1. CASE ClockPasses \/ UNCHANGED vars
  BY <1>1, CapturesKept DEF ClockPasses, vars, inputs
<1>2. CASE Start
  <2>1. pc' = "done" \/ pc' = "first_call"
    BY <1>2, FinishResult DEF Start
  <2> QED BY <1>2, <2>1, CapturesKept DEF Start, inputs
<1>3. CASE Raise \/ Report
  <2>1. pc' \in {"raised", "reported", "unreported"}
    BY <1>3 DEF Raise, Report
  <2> QED BY <1>3, <2>1, CapturesKept DEF Raise, Report, inputs
<1> QED BY <1>1, <1>2, <1>3, FirstCaptures, RevisionCaptures, DecideCaptures, ActCaptures
        DEF Next, Loop

-----------------------------------------------------------------------------

LEMMA ActResult ==
    ASSUME RInv, ActOnDecision, config.condition = "D", pc' = "done"
    PROVE  ResultIsDue'
<1>1. pc = "act" /\ UNCHANGED <<config, fails, completions>>
  BY DEF ActOnDecision, inputs
<1>2. completions # << >> /\ Current' = Current
  BY <1>1, RunTypes DEF Deciding, Current
<1>3. PICK timedOut \in BOOLEAN : decision = Decide(fails[Current], used, config.rounds, timedOut)
  BY <1>1 DEF RInv, IInv, DecisionIsCurrent
<1>4. /\ decision.action = "accept" => fails[Current] = {}
      /\ decision.action = "refuse" => HardFailing(fails[Current]) # {}
      /\ decision.action = "revise" => fails[Current] # {}
  BY <1>3, DecideAccepts, DecideRefuses, DecideRevises
<1>5. NextLoopAction(decision) # "revise_call"
  BY DEF ActOnDecision
<1>6. CASE NextLoopAction(decision) = "timeout"
  <2>1. result'.state = "timeout"
    BY <1>6, FinishResult DEF ActOnDecision
  <2> QED BY <2>1 DEF ResultIsDue, Terminals
<1>7. CASE NextLoopAction(decision) = "accept"
  <2>1. result'.state = "accept" /\ decision.action = "accept"
    BY <1>7, FinishResult DEF ActOnDecision, NextLoopAction
  <2> QED BY <1>1, <1>2, <1>4, <2>1 DEF ResultIsDue, Terminals
<1>8. CASE NextLoopAction(decision) = "refuse"
  <2>1. result'.state = "refuse" /\ decision.action = "refuse"
    BY <1>8, FinishResult DEF ActOnDecision, NextLoopAction
  <2> QED BY <1>1, <1>2, <1>4, <2>1 DEF ResultIsDue, Terminals, HardFailing
<1>9. CASE NextLoopAction(decision) = "emit_exhausted"
  <2>1. result'.state = "revise" /\ decision.action = "revise"
    BY <1>1, <1>9, FinishResult, RevisionWasAsked DEF ActOnDecision
  <2> QED BY <1>1, <1>2, <1>4, <2>1 DEF ResultIsDue, Terminals
<1> QED BY <1>5, <1>6, <1>7, <1>8, <1>9, StepsAre

LEMMA RevisionResult ==
    ASSUME RInv, NEW text \in Texts, Revision(text), config.condition = "D", pc' = "done"
    PROVE  ResultIsDue'
<1>1. /\ pc = "revise_call" /\ completions' = Append(completions, text)
      /\ UNCHANGED <<config, fails>> /\ text = Current /\ result'.state = "repeated"
  BY FinishResult DEF Revision, inputs
<1>2. fails[Current] # {}
  BY <1>1 DEF RInv, IInv, RevisionIsDue
<1>3. Current' = Current /\ completions' # << >>
  BY <1>1, RunTypes, LastOfAppend DEF Current
<1> QED BY <1>1, <1>2, <1>3 DEF ResultIsDue, Terminals

\* Each step that ends a run ends it with a result that is due.
LEMMA ResultStep ==
    ASSUME RInv, [Next]_vars
    PROVE  ResultIsDue'
<1> SUFFICES ASSUME config'.condition = "D", pc' = "done" PROVE ResultIsDue'
  BY DEF ResultIsDue
<1>1. config' = config
  BY DEF Next, Loop, ClockPasses, Start, FirstCompletion, Revision, DecideRound, ActOnDecision,
         Raise, Report, vars, inputs
<1>2. CASE ClockPasses \/ UNCHANGED vars
  BY <1>2 DEF RInv, ResultIsDue, ClockPasses, vars, inputs, Current
<1>3. CASE Start
  <2>1. result'.state = "timeout"
    BY <1>3, FinishResult DEF Start
  <2> QED BY <2>1 DEF ResultIsDue, Terminals
<1>4. ASSUME NEW text \in Texts, FirstCompletion(text) PROVE FALSE
  BY <1>1, <1>4 DEF FirstCompletion
<1>5. ASSUME DecideRound \/ Raise \/ Report PROVE FALSE
  BY <1>5 DEF DecideRound, Raise, Report
<1> QED BY <1>1, <1>2, <1>3, <1>4, <1>5, ActResult, RevisionResult DEF Next, Loop

-----------------------------------------------------------------------------

\* A step that is no report leaves the report as it is, and the run unreported
\* unless it was reported before.
LEMMA ReportKept ==
    ASSUME RInv, [Next]_vars, ~Report
    PROVE  ReportAtTheEnd' /\ TraceIsTheLoop' /\ ReportExplainsDecision' /\ TrustedIsClean'
<1>1. report' = report /\ fails' = fails
  BY DEF Next, Loop, ClockPasses, Start, FirstCompletion, Revision, DecideRound, ActOnDecision,
         Raise, vars, inputs
<1>2. CASE ClockPasses \/ UNCHANGED vars
  <2>1. UNCHANGED <<pc, completions, report, fails>>
    BY <1>2 DEF ClockPasses, vars, inputs
  <2> QED
    BY <2>1 DEF RInv, ReportAtTheEnd, TraceIsTheLoop, ReportExplainsDecision, TrustedIsClean, Current
<1>3. CASE Loop \/ Raise
  <2>1. pc # "reported" /\ pc' # "reported"
    BY <1>3, FinishResult, StepsAre
       DEF Loop, Start, FirstCompletion, Revision, DecideRound, ActOnDecision, Raise
  <2>2. report'.trusted = EmptyText /\ EmptyText \notin Texts
    BY <1>1, <2>1, LoopAssumption DEF RInv, ReportAtTheEnd
  <2> QED
    BY <2>1, <2>2 DEF ReportAtTheEnd, TraceIsTheLoop, ReportExplainsDecision, TrustedIsClean
<1> QED BY <1>2, <1>3 DEF Next

\* The capture a report is made from shows how the text the result is about
\* was judged.
LEMMA DrivingJudges ==
    ASSUME RInv, config.condition = "D", DrivingCapture # 0
    PROVE  /\ captures[DrivingCapture].text = Current
           /\ captures[DrivingCapture].failing = fails[Current]
<1>1. DrivingCapture \in 1..Len(captures) /\ captures[DrivingCapture].text = Current
  BY RunTypes, DrivingIsCurrent
<1> QED BY <1>1 DEF RInv, CapturesFollow

\* What the states of a result are reported as.
LEMMA Labels ==
    ASSUME NEW state \in Terminals, NEW reason
    PROVE  /\ ProductDecision(state) = "accept" <=> state = "accept"
           /\ ProductDecision(state) = "refuse" <=> state = "refuse"
           /\ ProductDecision(state) = "revise" <=> state \in {"revise", "repeated"}
           /\ ProductDecision(state) = "null" <=> state = "timeout"
           /\ TerminalLabel(state, reason) \in {"timed_out", "budget_exhausted"}
                <=> state = "timeout"
BY DEF Terminals, ProductDecision, TerminalLabel

\* The trace a run is reported with has one step for each revision, explained
\* by the decision of its round.
LEMMA TraceFollows ==
    ASSUME RInv, config.condition = "D", pc = "done"
    PROVE  /\ Len(CapturedTrace) = IF completions = << >> THEN 0 ELSE Len(completions) - 1
           /\ \A i \in DOMAIN CapturedTrace :
                /\ CapturedTrace[i].input = completions[i]
                /\ CapturedTrace[i].output = completions[i + 1]
                /\ CapturedTrace[i].capture.round = i - 1
                /\ CapturedTrace[i].capture.action = "revise"
<1>1. /\ completions \in Seq(Texts) /\ captures \in Seq(Captures)
      /\ Len(completions) \in Nat /\ Len(captures) \in Nat /\ CapturesFollow
  BY RunTypes DEF RInv
<1>2. Len(completions) - 1 <= Len(captures)
  BY <1>1 DEF CapturesFollow
<1>3. DOMAIN CapturedTrace = 1..(Len(completions) - 1)
  BY DEF CapturedTrace
<1>4. Len(CapturedTrace) = IF completions = << >> THEN 0 ELSE Len(completions) - 1
  <2>1. CASE completions = << >>
    <3>1. DOMAIN CapturedTrace = 1..0
      BY <1>3, <2>1
    <3> QED BY <2>1, <3>1, LenProperties
  <2>2. CASE completions # << >>
    <3>1. Len(completions) - 1 \in Nat
      BY <1>1, <2>2
    <3> QED BY <1>3, <2>2, <3>1
  <2> QED BY <2>1, <2>2
<1>5. ASSUME NEW i \in 1..(Len(completions) - 1)
      PROVE  /\ CapturedTrace[i].input = completions[i]
             /\ CapturedTrace[i].output = completions[i + 1]
             /\ CapturedTrace[i].capture = captures[i]
             /\ captures[i].round = i - 1 /\ captures[i].action = "revise"
  <2>1. i \in 1..Len(captures) /\ i < Len(completions)
    BY <1>1, <1>2
  <2>2. Explaining(i) = {i}
    BY <1>1, <2>1, ExplainingIsItself
  <2>3. (CHOOSE j \in Explaining(i) : TRUE) = i
    BY <2>2
  <2>4. CapturedTrace[i] = [round |-> i, input |-> completions[i], output |-> completions[i + 1],
                            capture |-> captures[i]]
    BY <2>3 DEF CapturedTrace
  <2>5. captures[i].round = i - 1 /\ captures[i].action = "revise"
    BY <1>1, <2>1 DEF CapturesFollow
  <2> QED BY <2>4, <2>5
<1> QED BY <1>3, <1>4, <1>5

\* A report that is made shows the loop that ran and explains its decision.
LEMMA ReportIsDue ==
    ASSUME RInv, Report
    PROVE  ReportAtTheEnd' /\ TraceIsTheLoop' /\ ReportExplainsDecision' /\ TrustedIsClean'
<1>1. /\ pc = "done" /\ config.condition = "D" /\ UNCHANGED <<fails, completions>>
      /\ pc' \in {"reported", "unreported"}
  BY DEF Report, inputs
<1>2. CASE pc' = "unreported"
  <2>1. report' = report /\ report.trusted = EmptyText /\ EmptyText \notin Texts
    BY <1>1, <1>2, LoopAssumption DEF RInv, ReportAtTheEnd, Report
  <2> QED
    BY <1>2, <2>1 DEF ReportAtTheEnd, TraceIsTheLoop, ReportExplainsDecision, TrustedIsClean
<1>3. CASE pc' = "reported"
  <2> DEFINE driving == IF completions = << >> THEN 0 ELSE DrivingCapture
  <2>1. report' = ReportOf(driving) /\ (completions = << >> \/ DrivingCapture # 0)
    BY <1>3 DEF Report
  <2>2. result.state \in Terminals /\ Current' = Current
    BY <1>1 DEF RInv, ResultIsDue, Current
  <2>3. /\ report'.terminal = TerminalLabel(result.state, result.reason)
        /\ report'.decision = ProductDecision(result.state)
        /\ report'.trusted = TrustedOutput(report'.decision, report'.terminal, result.text)
        /\ report'.trace = CapturedTrace
    BY <2>1 DEF ReportOf
  <2>4. completions # << >> =>
          /\ report'.driving = Current
          /\ report'.verdict = IF fails[Current] = {} THEN "pass" ELSE "fail"
          /\ report'.veto = (HardFailing(fails[Current]) # {})
    BY <1>1, <2>1, DrivingJudges DEF ReportOf, Arbitrate
  <2>5. /\ report'.decision = "accept" <=> result.state = "accept"
        /\ report'.decision = "refuse" <=> result.state = "refuse"
        /\ report'.decision = "revise" <=> result.state \in {"revise", "repeated"}
        /\ report'.decision = "null" <=> result.state = "timeout"
        /\ report'.terminal \in {"timed_out", "budget_exhausted"} <=> result.state = "timeout"
    BY <2>2, <2>3, Labels
  <2>6. TraceIsTheLoop'
    BY <1>1, <2>3, TraceFollows DEF TraceIsTheLoop
  <2>7. ReportExplainsDecision'
    BY <1>1, <2>2, <2>4, <2>5 DEF RInv, ResultIsDue, ReportExplainsDecision
  <2>8. TrustedIsClean'
    <3> SUFFICES ASSUME report'.trusted \in Texts PROVE fails[report'.trusted] = {}
      BY <1>1 DEF TrustedIsClean
    <3>1. report'.trusted = result.text /\ result.text # SafeRefusal
      BY <2>3, LoopAssumption DEF TrustedOutput
    <3>2. result.state = "accept"
      BY <2>3, <2>5, <3>1, LoopAssumption DEF TrustedOutput
    <3> QED BY <1>1, <3>1, <3>2 DEF RInv, IInv, AcceptedPasses
  <2> QED BY <1>3, <2>6, <2>7, <2>8 DEF ReportAtTheEnd
<1> QED BY <1>1, <1>2, <1>3

LEMMA RunInit == Init => RInv
<1> SUFFICES ASSUME Init PROVE RInv
  OBVIOUS
<1>1. TypeOK /\ IInv
  BY InitType, InitInv
<1>2. CapturesFollow /\ ResultIsDue
  BY DEF Init, CapturesFollow, ResultIsDue
<1>3. report.trusted = EmptyText /\ EmptyText \notin Texts /\ pc = "start"
  BY LoopAssumption DEF Init, NoReport
<1> QED
  BY <1>1, <1>2, <1>3
     DEF RInv, ReportAtTheEnd, TraceIsTheLoop, ReportExplainsDecision, TrustedIsClean

LEMMA ReportInv == Spec => []RInv
<1>1. RInv /\ [Next]_vars => RInv'
  <2> SUFFICES ASSUME RInv, [Next]_vars PROVE RInv'
    OBVIOUS
  <2>1. TypeOK' /\ IInv'
    BY TypeStep, NextInv DEF RInv
  <2>2. CapturesFollow' /\ ResultIsDue'
    BY CapturesStep, ResultStep
  <2>3. ReportAtTheEnd' /\ TraceIsTheLoop' /\ ReportExplainsDecision' /\ TrustedIsClean'
    BY ReportKept, ReportIsDue
  <2> QED BY <2>1, <2>2, <2>3 DEF RInv
<1> QED
  BY RunInit, <1>1, PTL DEF Spec

\* Step i of a reported trace is revision i, explained by the decision of its
\* own round, however often a text comes back.
THEOREM TraceExplainsTheLoop == Spec => []TraceIsTheLoop
<1>1. RInv => TraceIsTheLoop
  BY DEF RInv
<1> QED
  BY ReportInv, <1>1, PTL

\* The scores a report shows are the last candidate's and explain its decision.
THEOREM ReportIsConsistent == Spec => []ReportExplainsDecision
<1>1. RInv => ReportExplainsDecision
  BY DEF RInv
<1> QED
  BY ReportInv, <1>1, PTL

\* A session takes into its trusted history no text that fails a shard.
THEOREM TrustedStaysClean == Spec => []TrustedIsClean
<1>1. RInv => TrustedIsClean
  BY DEF RInv
<1> QED
  BY ReportInv, <1>1, PTL

\* No provider call begins after the deadline.
THEOREM NoneBeginsLate == Spec => NoCallBegunLate
<1>1. ASSUME [Next]_vars, late PROVE pc' \notin {"first_call", "revise_call"} \ {pc}
  <2>1. CASE ClockPasses \/ UNCHANGED vars
    BY <2>1 DEF ClockPasses, vars
  <2>2. CASE Start
    BY <1>1, <2>2, FinishResult DEF Start
  <2>3. CASE ActOnDecision
    <3>1. NextLoopAction(decision) = "timeout"
      BY <1>1 DEF NextLoopAction
    <3> QED BY <2>3, <3>1, FinishResult DEF ActOnDecision
  <2>4. ASSUME NEW text \in Texts, FirstCompletion(text) \/ Revision(text)
        PROVE  pc' \notin {"first_call", "revise_call"}
    BY <2>4, FinishResult DEF FirstCompletion, Revision
  <2>5. CASE DecideRound \/ Raise \/ Report
    BY <2>5 DEF DecideRound, Raise, Report
  <2> QED BY <1>1, <2>1, <2>2, <2>3, <2>4, <2>5 DEF Next, Loop
<1>2. [Next]_vars => [late => pc' \notin {"first_call", "revise_call"} \ {pc}]_vars
  BY <1>1
<1> QED
  BY <1>2, PTL DEF Spec, NoCallBegunLate

=============================================================================
