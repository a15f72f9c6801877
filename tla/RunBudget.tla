------------------------------ MODULE RunBudget ------------------------------
(***************************************************************************)
(* The run-scoped budget of the hybrid path: RunBudgetAuthority            *)
(* (ai4/constrain/_v07_3a/budget.py) and the two callers that spend from   *)
(* it, BudgetAwareProviderAdapter._call (the proposal lane) and            *)
(* _observe_semantic (the examiner lane).                                  *)
(*                                                                         *)
(* The two lanes have separate count budgets and share one USD ledger and  *)
(* one deadline.  Every method of the authority runs under its lock, so a  *)
(* method is one action; a client's calls interleave with the other        *)
(* clients' and with the clock.  A provider or examiner call costs what it *)
(* costs: the actual amount is known only when the call has returned, and  *)
(* may exceed the amount reserved for it.                                  *)
(*                                                                         *)
(* USD is counted in whole units.  The code counts it in binary floating   *)
(* point: rounding is not modelled.                                        *)
(***************************************************************************)
EXTENDS Integers, FiniteSets, FiniteSetsExt

CONSTANTS
    Clients,          \* threads of the process that share the authority
    MaxProposal,      \* max_proposal_completions
    MaxExaminer,      \* max_examiner_calls
    MaxUsd,           \* max_usd
    ReserveAmounts,   \* the amounts a client may ask to reserve
    ActualCosts,      \* the costs a finished call may report
    MaxReservations   \* bound: reservations granted in one behaviour

ASSUME CountsAssumption ==
    /\ MaxProposal \in Nat
    /\ MaxExaminer \in Nat
    /\ MaxReservations \in Nat
ASSUME UsdAssumption ==
    /\ MaxUsd \in Nat
    /\ ReserveAmounts \subseteq Nat
    /\ ActualCosts \subseteq Nat

VARIABLES
    expired,       \* the clock has reached the deadline
    nextId,        \* what the authority's itertools.count returns next
    reservations,  \* reservation id -> stored handle
    usdReserved, usdCommitted,
    reserved,      \* lane -> reservations not yet settled
    committed,     \* lane -> committed reservations
    pc,            \* client -> where it stands in its call
    held,          \* client -> id of the handle it holds
    cost,          \* client -> known cost of the call that returned
    raised,        \* client -> abort class of its last call, or "none"
    overrun,       \* history: total cost above the amounts reserved for it
    incurred       \* history: total known cost of the calls that returned

ledger == <<nextId, reservations, usdReserved, usdCommitted, reserved, committed>>
vars == <<expired, ledger, pc, held, cost, raised, overrun, incurred>>

-----------------------------------------------------------------------------

Proposal == "proposal_completion"
Examiner == "examiner_call"
Kinds == {Proposal, Examiner}

MaxCount(k) == IF k = Proposal THEN MaxProposal ELSE MaxExaminer

ReservationIds == 1..MaxReservations
States == {"unused", "reserved", "executing", "committed", "released"}
Unsettled == {"reserved", "executing"}
Handles == [kind : Kinds, usd : Nat, state : States]
NoHandle == [kind |-> Proposal, usd |-> 0, state |-> "unused"]

AbortClasses == {"already_expired_deadline", "wall_deadline_exhausted",
                 "proposal_completion_exhausted", "examiner_call_exhaustion",
                 "spend_reservation_rejection", "backend_error", "schema_invalid"}

\* The handle that replaces the stored handle i: handles are frozen records.
Restamped(i, usd, state) == [kind |-> reservations[i].kind, usd |-> usd, state |-> state]

Live(k) == {i \in ReservationIds :
              reservations[i].kind = k /\ reservations[i].state \in Unsettled}
Done(k) == {i \in ReservationIds :
              reservations[i].kind = k /\ reservations[i].state = "committed"}

\* A bug this sum could have: promised money counts as free.
AvailableIgnoresReserved == MaxUsd - usdCommitted

Available == MaxUsd - usdCommitted - usdReserved

Excess(actual, promised) == IF actual > promised THEN actual - promised ELSE 0

-----------------------------------------------------------------------------

Init ==
    /\ expired \in BOOLEAN
    /\ nextId = 1
    /\ reservations = [i \in ReservationIds |-> NoHandle]
    /\ usdReserved = 0 /\ usdCommitted = 0
    /\ reserved = [k \in Kinds |-> 0]
    /\ committed = [k \in Kinds |-> 0]
    /\ pc = [c \in Clients |-> "idle"]
    /\ held = [c \in Clients |-> 0]
    /\ cost = [c \in Clients |-> 0]
    /\ raised = [c \in Clients |-> "none"]
    /\ overrun = 0 /\ incurred = 0

\* Bugs this test could have: only settled calls count; no deadline test.
RefusalIgnoresInFlight(k, usd) ==
    IF expired THEN "already_expired_deadline"
    ELSE IF committed[k] >= MaxCount(k) THEN "examiner_call_exhaustion"
    ELSE IF usd > Available THEN "spend_reservation_rejection"
    ELSE "none"

RefusalIgnoresDeadline(k, usd) ==
    IF reserved[k] + committed[k] >= MaxCount(k) THEN "examiner_call_exhaustion"
    ELSE IF usd > Available THEN "spend_reservation_rejection"
    ELSE "none"

\* The abort class _reserve raises, tested in the code's order; "none": granted.
Refusal(k, usd) ==
    IF expired THEN "already_expired_deadline"
    ELSE IF reserved[k] + committed[k] >= MaxCount(k)
         THEN IF k = Proposal THEN "proposal_completion_exhausted"
                              ELSE "examiner_call_exhaustion"
    ELSE IF usd > Available THEN "spend_reservation_rejection"
    ELSE "none"

Reserve(c, k, usd) ==
    /\ pc[c] = "idle"
    /\ Refusal(k, usd) = "none"
    /\ nextId \in ReservationIds
    /\ reservations' = [reservations EXCEPT
                          ![nextId] = [kind |-> k, usd |-> usd, state |-> "reserved"]]
    /\ nextId' = nextId + 1
    /\ reserved' = [reserved EXCEPT ![k] = @ + 1]
    /\ usdReserved' = usdReserved + usd
    /\ pc' = [pc EXCEPT ![c] = "reserved"]
    /\ held' = [held EXCEPT ![c] = nextId]
    /\ raised' = [raised EXCEPT ![c] = "none"]
    /\ UNCHANGED <<expired, usdCommitted, committed, cost, overrun, incurred>>

ReserveRefused(c, k, usd) ==
    /\ pc[c] = "idle"
    /\ Refusal(k, usd) # "none"
    /\ raised' = [raised EXCEPT ![c] = Refusal(k, usd)]
    /\ UNCHANGED <<expired, ledger, pc, held, cost, overrun, incurred>>

\* _release_locked on the stored handle i.
ReleaseLocked(i) ==
    /\ usdReserved' = usdReserved - reservations[i].usd
    /\ reserved' = [reserved EXCEPT ![reservations[i].kind] = @ - 1]
    /\ reservations' = [reservations EXCEPT ![i] = Restamped(i, 0, "released")]
    /\ UNCHANGED <<nextId, usdCommitted, committed>>

BeginExecute(c) ==
    /\ pc[c] = "reserved"
    /\ ~expired
    /\ reservations[held[c]].state = "reserved"
    /\ reservations' = [reservations EXCEPT ![held[c]] = Restamped(held[c], @.usd, "executing")]
    /\ pc' = [pc EXCEPT ![c] = "executing"]
    /\ UNCHANGED <<expired, nextId, usdReserved, usdCommitted, reserved, committed,
                   held, cost, raised, overrun, incurred>>

BeginExecuteTooLate(c) ==
    /\ pc[c] = "reserved"
    /\ expired
    /\ reservations[held[c]].state = "reserved"
    /\ ReleaseLocked(held[c])
    /\ pc' = [pc EXCEPT ![c] = "idle"]
    /\ raised' = [raised EXCEPT ![c] = "wall_deadline_exhausted"]
    /\ UNCHANGED <<expired, held, cost, overrun, incurred>>

\* The provider or the examiner answers and its cost is a known number.
CallReturns(c, usd) ==
    /\ pc[c] = "executing"
    /\ pc' = [pc EXCEPT ![c] = "returned"]
    /\ cost' = [cost EXCEPT ![c] = usd]
    /\ incurred' = incurred + usd
    /\ UNCHANGED <<expired, ledger, held, raised, overrun>>

\* The call raises, or answers without a known cost (require_known_actual_usd).
CallFails(c, class) ==
    /\ pc[c] = "executing"
    /\ pc' = [pc EXCEPT ![c] = "unwinding"]
    /\ raised' = [raised EXCEPT ![c] = class]
    /\ UNCHANGED <<expired, ledger, held, cost, overrun, incurred>>

-----------------------------------------------------------------------------

\* Bugs the booking could have: the lane count is not handed back; the
\* reservation stands in for the actual cost.
BookKeepsLane(i, actual) ==
    /\ usdReserved' = usdReserved - reservations[i].usd
    /\ usdCommitted' = usdCommitted + actual
    /\ committed' = [committed EXCEPT ![reservations[i].kind] = @ + 1]
    /\ reservations' = [reservations EXCEPT ![i] = Restamped(i, actual, "committed")]
    /\ UNCHANGED <<nextId, reserved>>

BookReservedAmount(i, actual) ==
    /\ usdReserved' = usdReserved - reservations[i].usd
    /\ usdCommitted' = usdCommitted + reservations[i].usd
    /\ reserved' = [reserved EXCEPT ![reservations[i].kind] = @ - 1]
    /\ committed' = [committed EXCEPT ![reservations[i].kind] = @ + 1]
    /\ reservations' = [reservations EXCEPT ![i] = Restamped(i, @.usd, "committed")]
    /\ UNCHANGED nextId

\* The ledger update of commit on the stored handle i.
Book(i, actual) ==
    /\ usdReserved' = usdReserved - reservations[i].usd
    /\ usdCommitted' = usdCommitted + actual
    /\ reserved' = [reserved EXCEPT ![reservations[i].kind] = @ - 1]
    /\ committed' = [committed EXCEPT ![reservations[i].kind] = @ + 1]
    /\ reservations' = [reservations EXCEPT ![i] = Restamped(i, actual, "committed")]
    /\ UNCHANGED nextId

Over(c) == usdCommitted + cost[c] > MaxUsd

\* commit books the actual cost whatever it is, and raises afterwards if the
\* total is over max_usd.  The adapter lets that propagate; the examiner path
\* catches it and goes through _release_unless_committed.
Commit(c) ==
    /\ pc[c] = "returned"
    /\ reservations[held[c]].state = "executing"
    /\ Book(held[c], cost[c])
    /\ overrun' = overrun + Excess(cost[c], reservations[held[c]].usd)
    /\ raised' = IF Over(c) THEN [raised EXCEPT ![c] = "spend_reservation_rejection"] ELSE raised
    /\ pc' = [pc EXCEPT ![c] =
                IF Over(c) /\ reservations[held[c]].kind = Examiner THEN "unwinding" ELSE "idle"]
    /\ UNCHANGED <<expired, held, cost, incurred>>

\* Bug: the except branch waits for a handle that can be released.
UnwindOnlyUncommitted(c) ==
    /\ pc[c] = "unwinding"
    /\ reservations[held[c]].state \in Unsettled
    /\ ReleaseLocked(held[c])
    /\ pc' = [pc EXCEPT ![c] = "idle"]
    /\ UNCHANGED <<expired, held, cost, raised, overrun, incurred>>

\* The except branches: release, unless the stored handle is committed.
Unwind(c) ==
    /\ pc[c] = "unwinding"
    /\ IF reservations[held[c]].state = "committed"
       THEN UNCHANGED ledger
       ELSE ReleaseLocked(held[c])
    /\ pc' = [pc EXCEPT ![c] = "idle"]
    /\ UNCHANGED <<expired, held, cost, raised, overrun, incurred>>

DeadlinePasses ==
    /\ ~expired
    /\ expired' = TRUE
    /\ UNCHANGED <<ledger, pc, held, cost, raised, overrun, incurred>>

-----------------------------------------------------------------------------

CallEnds(c) ==
    \/ \E usd \in ActualCosts : CallReturns(c, usd)
    \/ \E class \in {"backend_error", "schema_invalid", "wall_deadline_exhausted"} :
         CallFails(c, class)

Finish(c) ==
    \/ BeginExecute(c)
    \/ BeginExecuteTooLate(c)
    \/ CallEnds(c)
    \/ Commit(c)
    \/ Unwind(c)

Next ==
    \/ DeadlinePasses
    \/ \E c \in Clients :
         \/ \E k \in Kinds, usd \in ReserveAmounts :
              Reserve(c, k, usd) \/ ReserveRefused(c, k, usd)
         \/ Finish(c)

Spec == Init /\ [][Next]_vars

\* A thread that holds a reservation keeps running, and a provider or examiner
\* call ends: LiveProvider passes a timeout to urlopen.
FairSpec == Spec /\ \A c \in Clients : WF_vars(Finish(c))

-----------------------------------------------------------------------------

TypeOK ==
    /\ expired \in BOOLEAN
    /\ nextId \in 1..(MaxReservations + 1)
    /\ reservations \in [ReservationIds -> Handles]
    /\ usdReserved \in Int /\ usdCommitted \in Nat
    /\ reserved \in [Kinds -> Nat] /\ committed \in [Kinds -> Nat]
    /\ pc \in [Clients -> {"idle", "reserved", "executing", "returned", "unwinding"}]
    /\ held \in [Clients -> 0..MaxReservations]
    /\ cost \in [Clients -> Nat]
    /\ raised \in [Clients -> AbortClasses \cup {"none"}]
    /\ overrun \in Nat /\ incurred \in Nat

\* Each lane counter is the number of handles in the matching state: no path
\* through reserve, execute, commit, release and the except branches moves a
\* count twice or forgets one (budget.py, commit and _release_locked).
LanesMatchHandles ==
    \A k \in Kinds : /\ reserved[k] = Cardinality(Live(k))
                     /\ committed[k] = Cardinality(Done(k))

\* However the clients interleave, a lane never has more calls in flight and
\* done than its count budget ("proposal completions and examiner calls ...
\* count budgets stay separate").
LaneNeverOversold ==
    \A k \in Kinds : Cardinality(Live(k)) + Cardinality(Done(k)) <= MaxCount(k)

\* What is spent or promised exceeds max_usd by at most what calls cost above
\* their own reservations: the shared ledger itself never oversells.
SpendBounded == usdCommitted + usdReserved <= MaxUsd + overrun

\* "commit(actual_usd) always records incurred spend": every known cost is in
\* the ledger, except that of calls whose commit is still to come.
KnownSpendBooked ==
    incurred = usdCommitted + MapThenSumSet(LAMBDA c : cost[c], {c \in Clients : pc[c] = "returned"})

\* After the deadline no reservation is granted and no call starts, not even
\* one reserved in time (reserve and begin_execute read the clock separately).
NoLateStart ==
    [][ expired => /\ nextId' = nextId
                   /\ \A i \in ReservationIds :
                        reservations'[i].state = "executing" => reservations[i].state = "executing" ]_vars

\* A client that holds a reservation is rid of it in the end, by commit or by
\* release.
EveryCallSettles == \A c \in Clients : pc[c] # "idle" ~> pc[c] = "idle"

-----------------------------------------------------------------------------

\* The counters implement the gate that keeps sets of calls: a call refused,
\* failed, late or over budget gives its place back exactly once, a committed
\* one never.
Gate == INSTANCE LaneGate WITH
            Lanes    <- Kinds,
            Calls    <- ReservationIds,
            Limit    <- [k \in Kinds |-> MaxCount(k)],
            inFlight <- [k \in Kinds |-> Live(k)],
            done     <- [k \in Kinds |-> Done(k)]

ImplementsLaneGate == Gate!Spec

=============================================================================
