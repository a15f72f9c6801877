------------------------------- MODULE Study -------------------------------
(***************************************************************************)
(* One study: the stage 2D runner (src/stage2d/runner.py, main) or the     *)
(* v0.1 experiment (src/experiment.py, src/main.py) over a fixture under   *)
(* the conditions asked for, with the offline provider or with the live    *)
(* one behind its spend gate (src/providers/live.py, src/stage2d/spend.py).*)
(*                                                                         *)
(* ControlLoop says what one run of the agent does; here a run is the      *)
(* calls it makes and what it ends with.  The service behind the live      *)
(* provider bills a request that fails as it likes, up to what was         *)
(* reserved, and may leave the usage out of its answer.                    *)
(*                                                                         *)
(* Money is in units of the reservation of one call.  The cap is read from *)
(* the environment at every call; NaN is a float the comparisons of which  *)
(* are all false.                                                          *)
(***************************************************************************)
EXTENDS StudyRules

CONSTANTS
    NaN,
    HardCap,      \* STAGE2D_MAX_SPEND_USD
    Reservation,  \* _reservation_usd, and PER_CALL_FLOOR_USD below it
    Costs,        \* what an answered call may cost
    MaxCalls,     \* max_completions of AgentConfig
    Commands,     \* command lines with the environment they run in
    Texts,        \* what a run may end with
    BillBound     \* bound: no call is made once this much was billed

ASSUME StudyAssumption ==
    /\ {HardCap, Reservation, BillBound} \subseteq Nat \ {0} /\ MaxCalls \in Nat \ {0} /\ Costs \subseteq Nat

\* No conditions are the default ones (run_stage2d, run_experiment); a cap is a
\* number, NaN, or not there; a fixture has finitely many lines.
ASSUME CommandsAssumption ==
    /\ NaN \notin Int
    /\ \A c \in Commands :
        /\ c.cap \in Int \cup {None, NaN}
        /\ c.conditions # << >> /\ c.conditions \in Seq(ToSet(c.conditions))
        /\ c.fixture # None => IsFiniteSet(DOMAIN c.fixture)

VARIABLES
    command,
    pc,
    cases,      \* the cases loaded
    selected,   \* the conditions to run, in order
    at,         \* the condition and the case of the agent's run
    run,        \* calls and estimated money of the agent's run
    rows,       \* the rows of the condition so far
    results,    \* condition -> its rows and summary
    payload,    \* the JSON written, None where there is none
    error,      \* why there is none
    spent,      \* spent_usd of the provider
    billed,     \* history: what the service billed
    odd         \* history: an answer without usage, or above its reservation

progress == <<cases, selected, at, run, rows, results>>
output == <<payload, error>>
money == <<spent, billed, odd>>
vars == <<command, pc, progress, output, money>>

-----------------------------------------------------------------------------
(* The gates. *)

\* Comparisons of floats.
Exceeds(a, b) == a # NaN /\ a > b
Below(a, b) == a # NaN /\ a < b

Remaining == IF command.cap = NaN THEN NaN ELSE command.cap - spent

\* _ensure_allowed of LiveProvider.
EnsureRefusal == FirstRefusal(<<
    Check(command.enabled, "disabled"),
    Check(command.cap # None, "no_cap"),
    Check(command.cap = None \/ command.cap = NaN \/ command.cap > 0, "no_cap"),
    Check(command.key, "no_key")>>)

\* assert_stage2d_live_allowed with parse_cap.
StageRefusal == FirstRefusal(<<
    Check(command.enabled, "disabled"),
    Check(command.cap # None, "no_cap"),
    Check(command.cap = None \/ command.cap = NaN \/ command.cap > 0, "no_cap"),
    Check(command.cap = None \/ ~Exceeds(command.cap, HardCap), "above_hard_cap")>>)

\* The comparison of _chat and of _preflight.
ReservationRefusal == IF Below(Remaining, Reservation) THEN "budget" ELSE "ok"

\* Stage2DLiveGuard.complete or revise, and LiveProvider._chat up to the request.
CallRefusal ==
    IF command.kind = "stage2d" /\ StageRefusal # "ok" THEN StageRefusal
    ELSE IF EnsureRefusal # "ok" THEN EnsureRefusal
    ELSE ReservationRefusal

-----------------------------------------------------------------------------
(* The command line. *)

\* validate_conditions, validate_experiment_config.
ConditionsRefusal == IF ToSet(command.conditions) \subseteq {"A", "B", "C", "D"} THEN "ok" ELSE "condition"

StartRefusal == FirstRefusal(<<
    Check(command.provider = "mock" \/ command.kind = "experiment" \/ StageRefusal = "ok", "spend"),
    Check(ConditionsRefusal = "ok", "condition"),
    Check(command.kind = "experiment" \/ ~command.heldout \/ command.allowHeldout, "heldout"),
    Check(LoadRefusal(command.kind, command.fixture) = "ok", "fixture")>>)

Init ==
    /\ command \in Commands
    /\ pc = "start"
    /\ cases = << >> /\ selected = << >> /\ at = <<1, 1>> /\ run = [calls |-> 0, usd |-> 0]
    /\ rows = << >> /\ results = << >>
    /\ payload = None /\ error = "none"
    /\ spent = 0 /\ billed = 0 /\ odd = FALSE

\* An exception that leaves run_stage2d or run_experiment: no payload.
Raise(why) == pc' = "ended" /\ error' = why /\ UNCHANGED payload

Start ==
    /\ pc = "start"
    /\ IF StartRefusal # "ok" THEN Raise(StartRefusal) /\ UNCHANGED progress
       ELSE /\ cases' = Cases(command.fixture) /\ selected' = command.conditions
            /\ pc' = "agent" /\ UNCHANGED <<at, run, rows, results, output>>
    /\ UNCHANGED <<command, money>>

-----------------------------------------------------------------------------
(* The agent's run on one case. *)

Condition == selected[at[1]]
Case == cases[at[2]]

\* Conditions A and B emit the first completion; C and D may revise.
CallLeft == run.calls < IF Condition \in {"A", "B"} THEN 1 ELSE MaxCalls

\* _completion of mock.py: no money.
CallMock ==
    /\ pc = "agent" /\ CallLeft /\ command.provider = "mock"
    /\ run' = [run EXCEPT !.calls = @ + 1]
    /\ UNCHANGED <<command, pc, cases, selected, at, rows, results, output, money>>

CallRefused ==
    /\ pc = "agent" /\ CallLeft /\ command.provider = "live"
    /\ CallRefusal # "ok" /\ Raise(CallRefusal)
    /\ UNCHANGED <<command, progress, money>>

Sendable == pc = "agent" /\ CallLeft /\ command.provider = "live" /\ CallRefusal = "ok"

\* Bug: what the provider has spent is what the last call cost.
BookedLast(cost) == cost

\* spent_usd += estimated.
Booked(cost) == spent + cost

CallAnswered ==
    /\ Sendable /\ billed < BillBound
    /\ \E cost \in Costs, usage \in BOOLEAN :
        /\ billed' = billed + cost
        /\ spent' = IF usage THEN Booked(cost) ELSE spent
        /\ odd' = (odd \/ ~usage \/ cost > Reservation)
        /\ run' = [calls |-> run.calls + 1, usd |-> run.usd + IF usage THEN cost ELSE 0]
    /\ UNCHANGED <<command, pc, cases, selected, at, rows, results, output>>

\* Bug: a request that failed is one call less.
CallRetried ==
    /\ Sendable /\ billed < BillBound
    /\ \E cost \in 1..Reservation : billed' = billed + cost
    /\ run' = [run EXCEPT !.calls = @ + 1]
    /\ UNCHANGED <<command, pc, cases, selected, at, rows, results, output, spent, odd>>

\* The request fails, or its answer has no text: billed or not, nothing is booked
\* and the exception ends the study.
CallFails ==
    /\ Sendable /\ billed < BillBound
    /\ \E cost \in 0..Reservation : billed' = billed + cost
    /\ Raise("request")
    /\ UNCHANGED <<command, progress, spent, odd>>

\* Bug: the rows of a condition outlive it.
NextConditionKeepsRows(done) ==
    /\ results' = [c \in DOMAIN results \cup {Condition} |->
                      IF c = Condition THEN [rows |-> done, summary |-> Summarize(done)] ELSE results[c]]
    /\ rows' = done
    /\ at' = <<at[1] + 1, 1>>
    /\ pc' = IF at[1] < Len(selected) THEN "agent" ELSE "write"

\* The end of run_condition: a condition asked for twice overwrites its result.
NextCondition(done) ==
    /\ results' = [c \in DOMAIN results \cup {Condition} |->
                      IF c = Condition THEN [rows |-> done, summary |-> Summarize(done)] ELSE results[c]]
    /\ rows' = << >>
    /\ at' = <<at[1] + 1, 1>>
    /\ pc' = IF at[1] < Len(selected) THEN "agent" ELSE "write"

\* run_condition, after one agent.run: the clock may end it before its first call.
RunEnds ==
    /\ pc = "agent"
    /\ \E text \in Texts, terminal \in FrozenTerminals :
        /\ run.calls = 0 => terminal = "timed_out"
        /\ Condition \in {"A", "B"} /\ run.calls = 1 => terminal = "accepted"
        /\ LET done == Append(rows, ItemRow(Case, text, terminal, run.calls, run.usd)) IN
           IF at[2] = Len(cases) THEN NextCondition(done)
           ELSE rows' = done /\ at' = <<at[1], at[2] + 1>> /\ UNCHANGED <<pc, results>>
    /\ run' = [calls |-> 0, usd |-> 0]
    /\ UNCHANGED <<command, cases, selected, output, money>>

Write ==
    /\ pc = "write"
    /\ payload' = [results |-> results, comparison |-> Compare(results)]
    /\ pc' = "ended"
    /\ UNCHANGED <<command, progress, error, money>>

Next == Start \/ CallMock \/ CallRefused \/ CallAnswered \/ CallFails \/ RunEnds \/ Write

Spec == Init /\ [][Next]_vars

-----------------------------------------------------------------------------
(* Properties. *)

\* As long as answers come with their usage and cost no more than was reserved,
\* the service has billed no more than a numeric cap: a request that was billed
\* and failed is not booked, and the study must end with it (spend.py, live.py).
TrueSpendWithinCap ==
    command.provider = "live" /\ command.cap \notin {None, NaN} /\ ~odd =>
        billed = 0 \/ billed <= command.cap

\* What is written is whole: every condition asked for has one row for every case
\* of the fixture, in its order, and the comparison sets C beside D over the same
\* cases (runner.py, run_condition; metrics.py, compare_c_vs_d).
PayloadIsWhole ==
    payload # None =>
        /\ DOMAIN payload.results = ToSet(command.conditions)
        /\ \A c \in DOMAIN payload.results :
            LET r == payload.results[c].rows IN
            [k \in DOMAIN r |-> r[k].id] = [k \in DOMAIN cases |-> cases[k].id]
        /\ payload.comparison.available <=> {"C", "D"} \subseteq ToSet(command.conditions)
        /\ payload.comparison.available =>
            /\ payload.comparison.c.n = payload.comparison.d.n
            /\ payload.comparison.c = Summarize(payload.results["C"].rows)
            /\ payload.comparison.d = Summarize(payload.results["D"].rows)

\* Where no condition is asked for twice, the money in the summaries is what the
\* provider booked: every call paid for is in the row of its case.
SummariesAccountForSpend ==
    payload # None /\ IsInjective(command.conditions) =>
        SumFunction([c \in DOMAIN payload.results |-> payload.results[c].summary.usd]) = spent
=============================================================================
