--------------------------- MODULE RunBudgetProofs ---------------------------
(***************************************************************************)
(* Proofs about RunBudget, for every number of threads and every budget.   *)
(*                                                                         *)
(* The safety properties are not inductive by themselves: a release or a   *)
(* commit subtracts one from a lane counter, so one must know that the     *)
(* handle a client holds is still counted, and that no other client holds  *)
(* the same one.  HandlesOwned says so, and IInv adds it to the properties.*)
(***************************************************************************)
EXTENDS RunBudget, FiniteSetTheorems, WellFoundedInduction, TLAPS

USE CountsAssumption, UsdAssumption

\* A client's place in its call fixes the state of the handle it holds; two
\* clients in a call hold different handles; handles not yet granted are unused.
HandlesOwned ==
    /\ \A i \in ReservationIds : i >= nextId => reservations[i].state = "unused"
    /\ \A c \in Clients : pc[c] # "idle" =>
         /\ held[c] \in ReservationIds
         /\ pc[c] = "reserved" => reservations[held[c]].state = "reserved"
         /\ pc[c] \in {"executing", "returned"} => reservations[held[c]].state = "executing"
         /\ pc[c] = "unwinding" => reservations[held[c]].state \in {"executing", "committed"}
    /\ \A c, d \in Clients :
         c # d /\ pc[c] # "idle" /\ pc[d] # "idle" => held[c] # held[d]

IInv == TypeOK /\ HandlesOwned /\ LanesMatchHandles /\ LaneNeverOversold /\ SpendBounded

-----------------------------------------------------------------------------

\* The handles of a lane in one state are finitely many.
LEMMA LanesFinite ==
    ASSUME NEW k
    PROVE  /\ IsFiniteSet(Live(k)) /\ Cardinality(Live(k)) \in Nat
           /\ IsFiniteSet(Done(k)) /\ Cardinality(Done(k)) \in Nat
<1>1. IsFiniteSet(ReservationIds)
  BY FS_Interval DEF ReservationIds
<1>2. Live(k) \in SUBSET ReservationIds /\ Done(k) \in SUBSET ReservationIds
  BY DEF Live, Done
<1> QED BY <1>1, <1>2, FS_Subset, FS_CardinalityType

\* _release_locked takes an unsettled handle out of its lane, and only that.
LEMMA ReleaseStep ==
    ASSUME IInv, NEW i \in ReservationIds, reservations[i].state \in Unsettled,
           ReleaseLocked(i)
    PROVE  /\ reservations' \in [ReservationIds -> Handles]
           /\ usdReserved' \in Int
           /\ usdReserved' <= usdReserved
           /\ reserved' \in [Kinds -> Nat]
           /\ LanesMatchHandles' /\ LaneNeverOversold'
           /\ reservations'[i].state = "released"
           /\ \A j \in ReservationIds \ {i} : reservations'[j] = reservations[j]
           /\ reservations[i].kind \in Kinds
           /\ \A k \in Kinds : /\ Live(k)' = Live(k) \ {i} /\ Done(k)' = Done(k)
                               /\ i \in Live(k) <=> k = reservations[i].kind
<1> DEFINE h == reservations[i]
<1>1. /\ h \in Handles /\ h.kind \in Kinds /\ h.usd \in Nat
      /\ reservations \in [ReservationIds -> Handles]
      /\ reserved \in [Kinds -> Nat] /\ committed \in [Kinds -> Nat] /\ usdReserved \in Int
  BY DEF IInv, TypeOK, Handles
<1>2. reservations' = [reservations EXCEPT ![i] = [kind |-> h.kind, usd |-> 0, state |-> "released"]]
  BY DEF ReleaseLocked, Restamped
<1>3. reservations' \in [ReservationIds -> Handles]
  BY <1>1, <1>2 DEF Handles, States
<1>4. /\ reservations'[i].state = "released" /\ reservations'[i].kind = h.kind
      /\ \A j \in ReservationIds \ {i} : reservations'[j] = reservations[j]
  BY <1>1, <1>2
<1>5. usdReserved' \in Int /\ usdReserved' <= usdReserved
  BY <1>1 DEF ReleaseLocked
<1>6. \A k \in Kinds : /\ Live(k)' = Live(k) \ {i}
                       /\ Done(k)' = Done(k)
                       /\ i \in Live(k) <=> k = h.kind
  BY <1>1, <1>4 DEF Live, Done, Unsettled
<1>7. \A k \in Kinds : /\ Cardinality(Live(k)') = IF k = h.kind THEN reserved[k] - 1 ELSE reserved[k]
                       /\ Cardinality(Done(k)') = committed[k]
                       /\ Cardinality(Live(k)') \in Nat
  <2> TAKE k \in Kinds
  <2>1. Cardinality(Live(k)) = reserved[k] /\ Cardinality(Done(k)) = committed[k]
    BY DEF IInv, LanesMatchHandles
  <2>2. Cardinality(Live(k) \ {i}) = IF i \in Live(k) THEN Cardinality(Live(k)) - 1 ELSE Cardinality(Live(k))
    BY LanesFinite, FS_RemoveElement
  <2>3. Cardinality(Live(k) \ {i}) \in Nat
    BY LanesFinite, FS_RemoveElement, FS_CardinalityType
  <2> QED BY <1>6, <2>1, <2>2, <2>3
<1>8. /\ reserved' = [reserved EXCEPT ![h.kind] = @ - 1]
      /\ committed' = committed
  BY DEF ReleaseLocked
<1>9. reserved' \in [Kinds -> Nat] /\ LanesMatchHandles'
  <2>1. \A k \in Kinds : reserved'[k] = Cardinality(Live(k)') /\ reserved'[k] \in Nat
    BY <1>1, <1>7, <1>8
  <2>2. \A k \in Kinds : committed'[k] = Cardinality(Done(k)')
    BY <1>7, <1>8
  <2>3. reserved' \in [Kinds -> Nat]
    BY <1>1, <1>8, <2>1
  <2> QED BY <2>1, <2>2, <2>3 DEF LanesMatchHandles
<1>10. LaneNeverOversold'
  <2>1. \A k \in Kinds : /\ reserved[k] + committed[k] <= MaxCount(k)
                         /\ reserved[k] \in Nat /\ committed[k] \in Nat /\ MaxCount(k) \in Nat
    BY <1>1 DEF IInv, LaneNeverOversold, LanesMatchHandles, MaxCount
  <2>2. \A k \in Kinds : Cardinality(Live(k)') + Cardinality(Done(k)') <= MaxCount(k)
    BY <1>7, <2>1
  <2> QED BY <2>2 DEF LaneNeverOversold, MaxCount
<1> QED BY <1>1, <1>3, <1>4, <1>5, <1>6, <1>9, <1>10

\* commit moves an executing handle from the live to the done side of its lane.
LEMMA BookStep ==
    ASSUME IInv, NEW i \in ReservationIds, reservations[i].state = "executing",
           NEW actual \in Nat, Book(i, actual)
    PROVE  /\ reservations' \in [ReservationIds -> Handles]
           /\ usdReserved' = usdReserved - reservations[i].usd
           /\ usdCommitted' = usdCommitted + actual
           /\ reserved' \in [Kinds -> Nat] /\ committed' \in [Kinds -> Nat]
           /\ LanesMatchHandles' /\ LaneNeverOversold'
           /\ reservations'[i].state = "committed"
           /\ \A j \in ReservationIds \ {i} : reservations'[j] = reservations[j]
           /\ reservations[i].kind \in Kinds
           /\ \A k \in Kinds :
                /\ Live(k)' = Live(k) \ {i}
                /\ Done(k)' = IF k = reservations[i].kind THEN Done(k) \cup {i} ELSE Done(k)
                /\ i \in Live(k) <=> k = reservations[i].kind
<1> DEFINE h == reservations[i]
<1>1. /\ h \in Handles /\ h.kind \in Kinds
      /\ reservations \in [ReservationIds -> Handles]
      /\ reserved \in [Kinds -> Nat] /\ committed \in [Kinds -> Nat]
  BY DEF IInv, TypeOK, Handles
<1>2. reservations' = [reservations EXCEPT ![i] = [kind |-> h.kind, usd |-> actual, state |-> "committed"]]
  BY DEF Book, Restamped
<1>3. reservations' \in [ReservationIds -> Handles]
  BY <1>1, <1>2 DEF Handles, States
<1>4. /\ reservations'[i].state = "committed" /\ reservations'[i].kind = h.kind
      /\ \A j \in ReservationIds \ {i} : reservations'[j] = reservations[j]
  BY <1>1, <1>2
<1>5. \A k \in Kinds : /\ Live(k)' = Live(k) \ {i}
                       /\ Done(k)' = IF k = h.kind THEN Done(k) \cup {i} ELSE Done(k)
                       /\ i \in Live(k) <=> k = h.kind
                       /\ i \notin Done(k)
  BY <1>1, <1>4 DEF Live, Done, Unsettled
<1>6. \A k \in Kinds :
        /\ Cardinality(Live(k)') = IF k = h.kind THEN reserved[k] - 1 ELSE reserved[k]
        /\ Cardinality(Done(k)') = IF k = h.kind THEN committed[k] + 1 ELSE committed[k]
        /\ Cardinality(Live(k)') \in Nat
  <2> TAKE k \in Kinds
  <2>1. Cardinality(Live(k)) = reserved[k] /\ Cardinality(Done(k)) = committed[k]
    BY DEF IInv, LanesMatchHandles
  <2>2. Cardinality(Live(k) \ {i}) = IF i \in Live(k) THEN Cardinality(Live(k)) - 1 ELSE Cardinality(Live(k))
    BY LanesFinite, FS_RemoveElement
  <2>3. Cardinality(Live(k) \ {i}) \in Nat
    BY LanesFinite, FS_RemoveElement, FS_CardinalityType
  <2>4. Cardinality(Done(k) \cup {i}) = IF i \in Done(k) THEN Cardinality(Done(k)) ELSE Cardinality(Done(k)) + 1
    BY LanesFinite, FS_AddElement
  <2> QED BY <1>5, <2>1, <2>2, <2>3, <2>4
<1>7. /\ reserved' = [reserved EXCEPT ![h.kind] = @ - 1]
      /\ committed' = [committed EXCEPT ![h.kind] = @ + 1]
      /\ usdReserved' = usdReserved - h.usd /\ usdCommitted' = usdCommitted + actual
  BY DEF Book
<1>8. \A k \in Kinds : /\ reserved'[k] = Cardinality(Live(k)') /\ reserved'[k] \in Nat
                       /\ committed'[k] = Cardinality(Done(k)') /\ committed'[k] \in Nat
  BY <1>1, <1>6, <1>7
<1>9. reserved' \in [Kinds -> Nat] /\ committed' \in [Kinds -> Nat]
  BY <1>1, <1>7, <1>8
<1>10. LanesMatchHandles'
  BY <1>8 DEF LanesMatchHandles
<1>11. LaneNeverOversold'
  <2>1. \A k \in Kinds : /\ reserved[k] + committed[k] <= MaxCount(k)
                         /\ reserved[k] \in Nat /\ committed[k] \in Nat /\ MaxCount(k) \in Nat
    BY <1>1 DEF IInv, LaneNeverOversold, LanesMatchHandles, MaxCount
  <2>2. \A k \in Kinds : Cardinality(Live(k)') + Cardinality(Done(k)') <= MaxCount(k)
    BY <1>6, <2>1
  <2> QED BY <2>2 DEF LaneNeverOversold, MaxCount
<1> QED BY <1>1, <1>3, <1>4, <1>5, <1>7, <1>9, <1>10, <1>11

-----------------------------------------------------------------------------

LEMMA InitInv == Init => IInv
<1> SUFFICES ASSUME Init PROVE IInv
  OBVIOUS
<1>1. \A k \in Kinds : Live(k) = {} /\ Done(k) = {}
  BY DEF Init, Live, Done, Unsettled, NoHandle
<1>2. TypeOK
  BY DEF Init, TypeOK, Handles, NoHandle, States, Kinds, Proposal, ReservationIds
<1>3. HandlesOwned
  BY DEF Init, HandlesOwned, NoHandle
<1>4. LanesMatchHandles /\ LaneNeverOversold
  <2>1. \A k \in Kinds : Cardinality(Live(k)) = 0 /\ Cardinality(Done(k)) = 0
    BY <1>1, FS_EmptySet
  <2>2. \A k \in Kinds : reserved[k] = 0 /\ committed[k] = 0
    BY DEF Init
  <2> QED BY <2>1, <2>2 DEF LanesMatchHandles, LaneNeverOversold, MaxCount
<1>5. SpendBounded
  BY DEF Init, SpendBounded
<1> QED BY <1>2, <1>3, <1>4, <1>5 DEF IInv

\* Granting a reservation: the refusal tests are what keeps both bounds.
LEMMA ReserveInv ==
    ASSUME IInv, NEW c \in Clients, NEW k \in Kinds, NEW usd \in ReserveAmounts,
           Reserve(c, k, usd)
    PROVE  IInv'
<1> USE DEF Reserve
<1>1. /\ nextId \in ReservationIds /\ nextId \in 1..(MaxReservations + 1)
      /\ reservations \in [ReservationIds -> Handles]
      /\ reserved \in [Kinds -> Nat] /\ committed \in [Kinds -> Nat]
      /\ usdReserved \in Int /\ usdCommitted \in Nat /\ usd \in Nat /\ overrun \in Nat
      /\ pc \in [Clients -> {"idle", "reserved", "executing", "returned", "unwinding"}]
      /\ held \in [Clients -> 0..MaxReservations]
  BY DEF IInv, TypeOK
<1>2. /\ ~expired
      /\ reserved[k] + committed[k] < MaxCount(k)
      /\ usdCommitted + usdReserved + usd <= MaxUsd
  <2>1. reserved[k] + committed[k] \in Nat /\ MaxCount(k) \in Nat
    BY <1>1 DEF MaxCount
  <2> QED BY <1>1, <2>1 DEF Refusal, Available, Proposal
<1>3. reservations[nextId].state = "unused"
  BY <1>1 DEF IInv, HandlesOwned
<1>4. /\ reservations'[nextId] = [kind |-> k, usd |-> usd, state |-> "reserved"]
      /\ \A j \in ReservationIds \ {nextId} : reservations'[j] = reservations[j]
      /\ reservations' \in [ReservationIds -> Handles]
  BY <1>1 DEF Handles, States
<1>5. \A l \in Kinds : /\ Live(l)' = IF l = k THEN Live(l) \cup {nextId} ELSE Live(l)
                       /\ Done(l)' = Done(l)
                       /\ nextId \notin Live(l)
  BY <1>1, <1>3, <1>4 DEF Live, Done, Unsettled
<1>6. \A l \in Kinds :
        /\ Cardinality(Live(l)') = IF l = k THEN reserved[l] + 1 ELSE reserved[l]
        /\ Cardinality(Done(l)') = committed[l]
  <2> TAKE l \in Kinds
  <2>1. Cardinality(Live(l)) = reserved[l] /\ Cardinality(Done(l)) = committed[l]
    BY DEF IInv, LanesMatchHandles
  <2>2. Cardinality(Live(l) \cup {nextId}) =
          IF nextId \in Live(l) THEN Cardinality(Live(l)) ELSE Cardinality(Live(l)) + 1
    BY LanesFinite, FS_AddElement
  <2> QED BY <1>5, <2>1, <2>2
<1>7. TypeOK'
  <2>1. nextId' \in 1..(MaxReservations + 1) /\ held' \in [Clients -> 0..MaxReservations]
    BY <1>1 DEF ReservationIds
  <2>2. reserved' \in [Kinds -> Nat] /\ usdReserved' \in Int
    BY <1>1
  <2>3. raised' \in [Clients -> AbortClasses \cup {"none"}]
    BY DEF IInv, TypeOK
  <2> QED BY <1>1, <1>4, <2>1, <2>2, <2>3 DEF IInv, TypeOK
<1>8. HandlesOwned'
  <2>1. \A i \in ReservationIds : i >= nextId' => reservations'[i].state = "unused"
    BY <1>1, <1>4 DEF IInv, HandlesOwned, ReservationIds
  <2>2. \A d \in Clients : d # c /\ pc[d] # "idle" => held[d] # nextId
    BY <1>3 DEF IInv, HandlesOwned, TypeOK
  <2>3. \A d \in Clients \ {c} : pc'[d] = pc[d] /\ held'[d] = held[d]
    BY <1>1
  <2>4. pc'[c] = "reserved" /\ held'[c] = nextId
    BY <1>1
  <2>5. \A d \in Clients \ {c} : pc[d] # "idle" => reservations'[held[d]] = reservations[held[d]]
    BY <1>4, <2>2 DEF IInv, HandlesOwned
  <2>6. \A d \in Clients : pc'[d] # "idle" =>
           /\ held'[d] \in ReservationIds
           /\ pc'[d] = "reserved" => reservations'[held'[d]].state = "reserved"
           /\ pc'[d] \in {"executing", "returned"} => reservations'[held'[d]].state = "executing"
           /\ pc'[d] = "unwinding" => reservations'[held'[d]].state \in {"executing", "committed"}
    <3> TAKE d \in Clients
    <3>1. CASE d = c
      BY <1>1, <1>4, <2>4, <3>1
    <3>2. CASE d # c
      BY <2>3, <2>5, <3>2 DEF IInv, HandlesOwned
    <3> QED BY <3>1, <3>2
  <2>7. \A d, e \in Clients :
           d # e /\ pc'[d] # "idle" /\ pc'[e] # "idle" => held'[d] # held'[e]
    BY <2>2, <2>3, <2>4 DEF IInv, HandlesOwned
  <2> QED BY <2>1, <2>6, <2>7 DEF HandlesOwned
<1>9. LanesMatchHandles'
  <2>1. \A l \in Kinds : reserved'[l] = IF l = k THEN reserved[l] + 1 ELSE reserved[l]
    BY <1>1
  <2> QED BY <1>6, <2>1 DEF LanesMatchHandles
<1>10. LaneNeverOversold'
  <2>1. \A l \in Kinds : reserved[l] + committed[l] <= MaxCount(l)
    BY DEF IInv, LaneNeverOversold, LanesMatchHandles
  <2>2. \A l \in Kinds : Cardinality(Live(l)') + Cardinality(Done(l)') <= MaxCount(l)
    <3> TAKE l \in Kinds
    <3>1. reserved[l] \in Nat /\ committed[l] \in Nat /\ MaxCount(l) \in Nat
      BY <1>1 DEF MaxCount
    <3> QED BY <1>2, <1>6, <2>1, <3>1
  <2> QED BY <2>2 DEF LaneNeverOversold, MaxCount
<1>11. SpendBounded'
  BY <1>1, <1>2 DEF SpendBounded
<1> QED BY <1>7, <1>8, <1>9, <1>10, <1>11 DEF IInv

\* A client that leaves its call while only its own handle changes state leaves
\* the other clients' handles as they were.
LEMMA LeaveKeepsOwned ==
    ASSUME IInv, NEW c \in Clients, pc[c] # "idle",
           nextId' = nextId, held' = held,
           NEW p \in {"idle", "unwinding"}, pc' = [pc EXCEPT ![c] = p],
           p = "unwinding" => reservations'[held[c]].state = "committed",
           reservations'[held[c]].state \in {"released", "committed"} \/ reservations' = reservations,
           \A j \in ReservationIds \ {held[c]} : reservations'[j] = reservations[j]
    PROVE  HandlesOwned'
<1>1. /\ held[c] \in ReservationIds /\ reservations[held[c]].state # "unused"
      /\ pc \in [Clients -> {"idle", "reserved", "executing", "returned", "unwinding"}]
      /\ nextId \in 1..(MaxReservations + 1)
  BY DEF IInv, HandlesOwned, TypeOK
<1>2. held[c] < nextId
  BY <1>1 DEF IInv, HandlesOwned, ReservationIds
<1>3. \A i \in ReservationIds : i >= nextId' => reservations'[i].state = "unused"
  <2> SUFFICES ASSUME NEW i \in ReservationIds, i >= nextId PROVE reservations'[i].state = "unused"
    OBVIOUS
  <2>1. i # held[c]
    BY <1>1, <1>2 DEF ReservationIds
  <2> QED BY <2>1 DEF IInv, HandlesOwned
<1>4. \A d \in Clients \ {c} : pc'[d] = pc[d]
  BY <1>1
<1>5. \A d \in Clients \ {c} : pc[d] # "idle" =>
         held[d] \in ReservationIds /\ reservations'[held[d]] = reservations[held[d]]
  BY DEF IInv, HandlesOwned
<1>6. \A d \in Clients : pc'[d] # "idle" =>
         /\ held'[d] \in ReservationIds
         /\ pc'[d] = "reserved" => reservations'[held'[d]].state = "reserved"
         /\ pc'[d] \in {"executing", "returned"} => reservations'[held'[d]].state = "executing"
         /\ pc'[d] = "unwinding" => reservations'[held'[d]].state \in {"executing", "committed"}
  <2> TAKE d \in Clients
  <2>1. CASE d = c
    BY <1>1, <2>1
  <2>2. CASE d # c
    BY <1>4, <1>5, <2>2 DEF IInv, HandlesOwned
  <2> QED BY <2>1, <2>2
<1>7. \A d, e \in Clients : d # e /\ pc'[d] # "idle" /\ pc'[e] # "idle" => held'[d] # held'[e]
  BY <1>1, <1>4 DEF IInv, HandlesOwned
<1> QED BY <1>3, <1>6, <1>7 DEF HandlesOwned

\* Everything a release does, for the two actions that release.
LEMMA ReleaseInv ==
    ASSUME IInv, NEW c \in Clients, pc[c] # "idle",
           reservations[held[c]].state \in Unsettled, ReleaseLocked(held[c]),
           pc' = [pc EXCEPT ![c] = "idle"],
           raised' \in [Clients -> AbortClasses \cup {"none"}],
           UNCHANGED <<expired, held, cost, overrun, incurred>>
    PROVE  IInv'
<1>1. held[c] \in ReservationIds
  BY DEF IInv, HandlesOwned
<1>2. nextId' = nextId /\ usdCommitted' = usdCommitted /\ committed' = committed
  BY DEF ReleaseLocked
<1>3. TypeOK'
  BY <1>1, <1>2, ReleaseStep DEF IInv, TypeOK
<1>4. HandlesOwned'
  BY <1>1, <1>2, ReleaseStep, LeaveKeepsOwned
<1>5. SpendBounded'
  BY <1>1, <1>2, ReleaseStep DEF IInv, TypeOK, SpendBounded
<1> QED BY <1>1, <1>3, <1>4, <1>5, ReleaseStep DEF IInv

LEMMA CommitInv ==
    ASSUME IInv, NEW c \in Clients, Commit(c)
    PROVE  IInv'
<1> DEFINE i == held[c]
<1>1. /\ pc[c] = "returned" /\ i \in ReservationIds /\ reservations[i].state = "executing"
      /\ cost[c] \in Nat /\ reservations[i].usd \in Nat /\ Book(i, cost[c])
      /\ nextId' = nextId
  BY DEF Commit, Book, IInv, TypeOK, HandlesOwned, Handles
<1>2. /\ reservations' \in [ReservationIds -> Handles]
      /\ usdReserved' = usdReserved - reservations[i].usd
      /\ usdCommitted' = usdCommitted + cost[c]
      /\ reserved' \in [Kinds -> Nat] /\ committed' \in [Kinds -> Nat]
      /\ LanesMatchHandles' /\ LaneNeverOversold'
      /\ reservations'[i].state = "committed"
      /\ \A j \in ReservationIds \ {i} : reservations'[j] = reservations[j]
  BY <1>1, BookStep
<1>3. PICK p \in {"idle", "unwinding"} : pc' = [pc EXCEPT ![c] = p]
  BY DEF Commit
<1>4. TypeOK'
  <2>1. pc' \in [Clients -> {"idle", "reserved", "executing", "returned", "unwinding"}]
    BY <1>3 DEF IInv, TypeOK
  <2>2. raised' \in [Clients -> AbortClasses \cup {"none"}]
    BY DEF Commit, IInv, TypeOK, AbortClasses
  <2>3. usdReserved' \in Int /\ usdCommitted' \in Nat /\ overrun' \in Nat
    BY <1>1, <1>2 DEF Commit, IInv, TypeOK, Excess
  <2> QED BY <1>1, <1>2, <2>1, <2>2, <2>3 DEF Commit, IInv, TypeOK
<1>5. HandlesOwned'
  <2>1. held' = held
    BY DEF Commit
  <2> QED BY <1>1, <1>2, <1>3, <2>1, LeaveKeepsOwned
<1>6. SpendBounded'
  BY <1>1, <1>2 DEF Commit, IInv, TypeOK, SpendBounded, Excess
<1> QED BY <1>2, <1>4, <1>5, <1>6 DEF IInv

\* Steps that leave the ledger alone keep everything the ledger promises.
LEMMA LedgerUnchanged ==
    ASSUME IInv, UNCHANGED ledger, overrun' = overrun
    PROVE  LanesMatchHandles' /\ LaneNeverOversold' /\ SpendBounded'
<1>1. \A k \in Kinds : Live(k)' = Live(k) /\ Done(k)' = Done(k)
  BY DEF ledger, Live, Done
<1> QED BY <1>1 DEF IInv, ledger, LanesMatchHandles, LaneNeverOversold, SpendBounded, MaxCount

\* begin_execute restamps a handle within its lane.
LEMMA BeginInv ==
    ASSUME IInv, NEW c \in Clients, BeginExecute(c)
    PROVE  IInv'
<1> DEFINE i == held[c]
<1>1. /\ pc[c] = "reserved" /\ i \in ReservationIds /\ reservations[i].state = "reserved"
      /\ reservations[i] \in Handles /\ reservations \in [ReservationIds -> Handles]
      /\ pc \in [Clients -> {"idle", "reserved", "executing", "returned", "unwinding"}]
  BY DEF BeginExecute, IInv, HandlesOwned, TypeOK
<1>2. /\ reservations'[i] = [kind |-> reservations[i].kind, usd |-> reservations[i].usd,
                             state |-> "executing"]
      /\ \A j \in ReservationIds \ {i} : reservations'[j] = reservations[j]
      /\ reservations' \in [ReservationIds -> Handles]
  BY <1>1 DEF BeginExecute, Restamped, Handles, States
<1>3. \A k \in Kinds : Live(k)' = Live(k) /\ Done(k)' = Done(k)
  BY <1>1, <1>2 DEF Live, Done, Unsettled
<1>4. TypeOK'
  BY <1>1, <1>2 DEF BeginExecute, IInv, TypeOK
<1>5. HandlesOwned'
  <2>1. pc'[c] = "executing" /\ \A d \in Clients \ {c} : pc'[d] = pc[d]
    BY <1>1 DEF BeginExecute
  <2>2. \A j \in ReservationIds : j >= nextId' => reservations'[j].state = "unused"
    BY <1>1, <1>2 DEF BeginExecute, IInv, HandlesOwned
  <2>3. \A d \in Clients \ {c} : pc[d] # "idle" =>
           held[d] \in ReservationIds /\ reservations'[held[d]] = reservations[held[d]]
    BY <1>1, <1>2 DEF IInv, HandlesOwned
  <2>4. \A d \in Clients : pc'[d] # "idle" =>
           /\ held'[d] \in ReservationIds
           /\ pc'[d] = "reserved" => reservations'[held'[d]].state = "reserved"
           /\ pc'[d] \in {"executing", "returned"} => reservations'[held'[d]].state = "executing"
           /\ pc'[d] = "unwinding" => reservations'[held'[d]].state \in {"executing", "committed"}
    <3> TAKE d \in Clients
    <3>1. CASE d = c
      BY <1>1, <1>2, <2>1, <3>1 DEF BeginExecute
    <3>2. CASE d # c
      BY <2>1, <2>3, <3>2 DEF BeginExecute, IInv, HandlesOwned
    <3> QED BY <3>1, <3>2
  <2>5. \A d, e \in Clients : d # e /\ pc'[d] # "idle" /\ pc'[e] # "idle" => held'[d] # held'[e]
    BY <1>1, <2>1 DEF BeginExecute, IInv, HandlesOwned
  <2> QED BY <2>2, <2>4, <2>5 DEF HandlesOwned
<1>6. LanesMatchHandles' /\ LaneNeverOversold'
  BY <1>3 DEF BeginExecute, IInv, LanesMatchHandles, LaneNeverOversold, MaxCount
<1>7. SpendBounded'
  BY DEF BeginExecute, IInv, SpendBounded
<1> QED BY <1>4, <1>5, <1>6, <1>7 DEF IInv

\* The call itself changes nothing the authority stores.
LEMMA CallEndsInv ==
    ASSUME IInv, NEW c \in Clients, CallEnds(c)
    PROVE  IInv'
<1>1. /\ pc[c] = "executing" /\ UNCHANGED ledger /\ held' = held /\ overrun' = overrun
      /\ \E p \in {"returned", "unwinding"} : pc' = [pc EXCEPT ![c] = p]
  BY DEF CallEnds, CallReturns, CallFails
<1>2. TypeOK'
  <2>1. pc' \in [Clients -> {"idle", "reserved", "executing", "returned", "unwinding"}]
    BY <1>1 DEF IInv, TypeOK
  <2>2. /\ cost' \in [Clients -> Nat] /\ incurred' \in Nat
        /\ raised' \in [Clients -> AbortClasses \cup {"none"}] /\ expired' \in BOOLEAN
    BY DEF CallEnds, CallReturns, CallFails, IInv, TypeOK, AbortClasses
  <2> QED BY <1>1, <2>1, <2>2 DEF IInv, TypeOK, ledger
<1>3. HandlesOwned'
  <2>1. PICK p \in {"returned", "unwinding"} : pc' = [pc EXCEPT ![c] = p]
    BY <1>1
  <2>2. \A d \in Clients : pc'[d] # "idle" => pc[d] # "idle"
    BY <1>1, <2>1 DEF IInv, TypeOK
  <2>3. nextId' = nextId /\ reservations' = reservations
    BY <1>1 DEF ledger
  <2>4. reservations[held[c]].state = "executing"
    BY <1>1 DEF IInv, HandlesOwned
  <2> QED BY <1>1, <2>1, <2>2, <2>3, <2>4 DEF IInv, TypeOK, HandlesOwned
<1> QED BY <1>1, <1>2, <1>3, LedgerUnchanged DEF IInv

LEMMA UnwindInv ==
    ASSUME IInv, NEW c \in Clients, Unwind(c)
    PROVE  IInv'
<1>1. /\ pc[c] = "unwinding" /\ pc' = [pc EXCEPT ![c] = "idle"]
      /\ UNCHANGED <<expired, held, cost, raised, overrun, incurred>>
  BY DEF Unwind
<1>2. CASE reservations[held[c]].state = "committed"
  <2>1. UNCHANGED ledger
    BY <1>2 DEF Unwind
  <2>2. TypeOK'
    BY <1>1, <2>1 DEF IInv, TypeOK, ledger
  <2>3. HandlesOwned'
    BY <1>1, <2>1, LeaveKeepsOwned DEF ledger
  <2> QED BY <1>1, <2>1, <2>2, <2>3, LedgerUnchanged DEF IInv
<1>3. CASE reservations[held[c]].state # "committed"
  <2>1. reservations[held[c]].state \in Unsettled /\ ReleaseLocked(held[c])
    BY <1>1, <1>3 DEF Unwind, IInv, HandlesOwned, Unsettled
  <2> QED BY <1>1, <2>1, ReleaseInv DEF IInv, TypeOK
<1> QED BY <1>2, <1>3

LEMMA NextInv == IInv /\ [Next]_vars => IInv'
<1> SUFFICES ASSUME IInv, [Next]_vars PROVE IInv'
  OBVIOUS
<1>1. ASSUME NEW c \in Clients, NEW k \in Kinds, NEW usd \in ReserveAmounts, Reserve(c, k, usd)
      PROVE  IInv'
  BY <1>1, ReserveInv
<1>2. ASSUME NEW c \in Clients, NEW k \in Kinds, NEW usd \in ReserveAmounts, ReserveRefused(c, k, usd)
      PROVE  IInv'
  <2>1. /\ UNCHANGED <<expired, ledger, pc, held, cost, overrun, incurred>>
        /\ raised' \in [Clients -> AbortClasses \cup {"none"}]
    BY <1>2 DEF ReserveRefused, Refusal, IInv, TypeOK, AbortClasses
  <2>2. TypeOK' /\ HandlesOwned'
    BY <2>1 DEF IInv, TypeOK, HandlesOwned, ledger
  <2> QED BY <2>1, <2>2, LedgerUnchanged DEF IInv
<1>3. ASSUME NEW c \in Clients, BeginExecute(c) PROVE IInv'
  BY <1>3, BeginInv
<1>4. ASSUME NEW c \in Clients, BeginExecuteTooLate(c) PROVE IInv'
  <2>1. raised' \in [Clients -> AbortClasses \cup {"none"}]
    BY <1>4 DEF BeginExecuteTooLate, IInv, TypeOK, AbortClasses
  <2> QED BY <1>4, <2>1, ReleaseInv DEF BeginExecuteTooLate, Unsettled
<1>5. ASSUME NEW c \in Clients, CallEnds(c) PROVE IInv'
  BY <1>5, CallEndsInv
<1>6. ASSUME NEW c \in Clients, Commit(c) PROVE IInv'
  BY <1>6, CommitInv
<1>7. ASSUME NEW c \in Clients, Unwind(c) PROVE IInv'
  BY <1>7, UnwindInv
<1>8. CASE DeadlinePasses
  <2>1. TypeOK' /\ HandlesOwned'
    BY <1>8 DEF DeadlinePasses, IInv, TypeOK, HandlesOwned, ledger
  <2> QED BY <1>8, <2>1, LedgerUnchanged DEF DeadlinePasses, IInv
<1>9. CASE UNCHANGED vars
  <2>1. TypeOK' /\ HandlesOwned'
    BY <1>9 DEF vars, IInv, TypeOK, HandlesOwned, ledger
  <2> QED BY <1>9, <2>1, LedgerUnchanged DEF vars, IInv
<1> QED BY <1>1, <1>2, <1>3, <1>4, <1>5, <1>6, <1>7, <1>8, <1>9 DEF Next, Finish

LEMMA BudgetInv == Spec => []IInv
BY InitInv, NextInv, PTL DEF Spec

-----------------------------------------------------------------------------

\* Every variable keeps its type: no lane counter ever goes below zero.
THEOREM TypeCorrect == Spec => []TypeOK
<1>1. IInv => TypeOK
  BY DEF IInv
<1> QED BY <1>1, BudgetInv, PTL

\* The lane counters of budget.py always count the stored handles.
THEOREM CountersAreExact == Spec => []LanesMatchHandles
<1>1. IInv => LanesMatchHandles
  BY DEF IInv
<1> QED BY <1>1, BudgetInv, PTL

\* No interleaving of the threads oversells a count budget (budget.py, _reserve).
THEOREM NeverOversold == Spec => []LaneNeverOversold
<1>1. IInv => LaneNeverOversold
  BY DEF IInv
<1> QED BY <1>1, BudgetInv, PTL

\* Promised and booked money stays within max_usd plus what calls cost above
\* their own reservations (budget.py, _reserve and commit).
THEOREM SpendStaysBounded == Spec => []SpendBounded
<1>1. IInv => SpendBounded
  BY DEF IInv
<1> QED BY <1>1, BudgetInv, PTL

\* No call starts after the deadline, in any interleaving with the clock.
THEOREM NeverLate == Spec => NoLateStart
<1> DEFINE A == expired => /\ nextId' = nextId
                           /\ \A i \in ReservationIds :
                                reservations'[i].state = "executing" => reservations[i].state = "executing"
<1>1. IInv /\ [Next]_vars => A
  <2> SUFFICES ASSUME IInv, [Next]_vars, expired PROVE A
    OBVIOUS
  <2>1. ASSUME NEW c \in Clients, NEW k \in Kinds, NEW usd \in ReserveAmounts, Reserve(c, k, usd)
        PROVE  FALSE
    BY <2>1 DEF Reserve, Refusal
  <2>2. ASSUME NEW c \in Clients, BeginExecuteTooLate(c) PROVE A
    <3>1. held[c] \in ReservationIds /\ reservations[held[c]].state \in Unsettled
      BY <2>2 DEF BeginExecuteTooLate, IInv, HandlesOwned, Unsettled
    <3>2. ReleaseLocked(held[c]) /\ nextId' = nextId
      BY <2>2 DEF BeginExecuteTooLate, ReleaseLocked
    <3> QED BY <3>1, <3>2, ReleaseStep
  <2>3. ASSUME NEW c \in Clients, Commit(c) PROVE A
    <3>1. /\ held[c] \in ReservationIds /\ reservations[held[c]].state = "executing"
          /\ cost[c] \in Nat /\ Book(held[c], cost[c]) /\ nextId' = nextId
      BY <2>3 DEF Commit, Book, IInv, TypeOK, HandlesOwned
    <3> QED BY <3>1, BookStep
  <2>4. ASSUME NEW c \in Clients, Unwind(c) PROVE A
    <3>1. CASE UNCHANGED ledger
      BY <3>1 DEF ledger
    <3>2. CASE ReleaseLocked(held[c]) /\ reservations[held[c]].state # "committed"
      <4>1. held[c] \in ReservationIds /\ reservations[held[c]].state \in Unsettled
        BY <2>4, <3>2 DEF Unwind, IInv, HandlesOwned, Unsettled
      <4>2. nextId' = nextId
        BY <3>2 DEF ReleaseLocked
      <4> QED BY <3>2, <4>1, <4>2, ReleaseStep
    <3> QED BY <2>4, <3>1, <3>2 DEF Unwind
  <2>5. ASSUME NEW c \in Clients, BeginExecute(c) PROVE FALSE
    BY <2>5 DEF BeginExecute
  <2>6. CASE UNCHANGED ledger
    BY <2>6 DEF ledger
  <2> QED BY <2>1, <2>2, <2>3, <2>4, <2>5, <2>6
        DEF Next, Finish, CallEnds, CallReturns, CallFails, ReserveRefused, DeadlinePasses, vars
<1>2. IInv /\ [Next]_vars => [A]_vars
  BY <1>1
<1> QED BY <1>2, BudgetInv, PTL DEF Spec, NoLateStart

-----------------------------------------------------------------------------

\* The refinement: sets of calls in flight and done, in place of counters.

InFlight == [k \in Kinds |-> Live(k)]
Counted == [k \in Kinds |-> Done(k)]

\* Steps that change no handle's lane or side move no call.
LEMMA NothingMoves ==
    ASSUME \A k \in Kinds : Live(k)' = Live(k) /\ Done(k)' = Done(k)
    PROVE  UNCHANGED <<InFlight, Counted>>
BY DEF InFlight, Counted

LEMMA ReserveAdmits ==
    ASSUME IInv, NEW c \in Clients, NEW k \in Kinds, NEW usd \in ReserveAmounts,
           Reserve(c, k, usd)
    PROVE  nextId \in ReservationIds /\ Gate!Admit(k, nextId)
<1>1. /\ nextId \in ReservationIds /\ ~expired
      /\ reservations \in [ReservationIds -> Handles]
      /\ reserved[k] \in Nat /\ committed[k] \in Nat
      /\ Refusal(k, usd) = "none"
      /\ reservations' = [reservations EXCEPT
                            ![nextId] = [kind |-> k, usd |-> usd, state |-> "reserved"]]
  BY DEF Reserve, Refusal, IInv, TypeOK
<1>2. reservations[nextId].state = "unused"
  <2>1. nextId >= nextId
    BY <1>1 DEF ReservationIds
  <2> QED BY <1>1, <2>1 DEF IInv, HandlesOwned
<1>3. /\ reservations'[nextId] = [kind |-> k, usd |-> usd, state |-> "reserved"]
      /\ \A j \in ReservationIds \ {nextId} : reservations'[j] = reservations[j]
  BY <1>1
<1>4. \A l \in Kinds : /\ Live(l)' = IF l = k THEN Live(l) \cup {nextId} ELSE Live(l)
                       /\ Done(l)' = Done(l)
                       /\ nextId \notin Live(l) \cup Done(l)
  BY <1>1, <1>2, <1>3 DEF Live, Done, Unsettled
<1>5. Cardinality(Live(k)) + Cardinality(Done(k)) < MaxCount(k)
  <2>1. reserved[k] + committed[k] < MaxCount(k)
    BY <1>1 DEF Refusal, MaxCount
  <2> QED BY <2>1 DEF IInv, LanesMatchHandles
<1>6. InFlight' = [InFlight EXCEPT ![k] = @ \cup {nextId}] /\ Counted' = Counted
  BY <1>4 DEF InFlight, Counted
<1>7. \A l \in Kinds : nextId \notin InFlight[l] \cup Counted[l]
  BY <1>4 DEF InFlight, Counted
<1>8. Gate!Cardinality(InFlight[k]) + Gate!Cardinality(Counted[k]) < MaxCount(k)
  <2>1. InFlight[k] = Live(k) /\ Counted[k] = Done(k)
    BY DEF InFlight, Counted
  <2>2. Gate!Cardinality(Live(k)) = Cardinality(Live(k)) /\ Gate!Cardinality(Done(k)) = Cardinality(Done(k))
    BY DEF Gate!Cardinality, Cardinality
  <2> QED BY <1>5, <2>1, <2>2
<1> QED BY <1>1, <1>6, <1>7, <1>8 DEF Gate!Admit, InFlight, Counted

LEMMA ReleaseGivesBack ==
    ASSUME IInv, NEW i \in ReservationIds, reservations[i].state \in Unsettled,
           ReleaseLocked(i)
    PROVE  reservations[i].kind \in Kinds /\ Gate!GiveBack(reservations[i].kind, i)
<1>k. PICK k : k = reservations[i].kind
  OBVIOUS
<1>1. /\ k \in Kinds
      /\ \A l \in Kinds : /\ Live(l)' = Live(l) \ {i} /\ Done(l)' = Done(l)
                          /\ i \in Live(l) <=> l = k
  BY <1>k, ReleaseStep
<1>2. InFlight' = [InFlight EXCEPT ![k] = @ \ {i}] /\ Counted' = Counted
  BY <1>1 DEF InFlight, Counted
<1> QED BY <1>k, <1>1, <1>2 DEF Gate!GiveBack, InFlight, Counted

LEMMA BookCompletes ==
    ASSUME IInv, NEW i \in ReservationIds, reservations[i].state = "executing",
           NEW actual \in Nat, Book(i, actual)
    PROVE  reservations[i].kind \in Kinds /\ Gate!Complete(reservations[i].kind, i)
<1>k. PICK k : k = reservations[i].kind
  OBVIOUS
<1>1. /\ k \in Kinds
      /\ \A l \in Kinds : /\ Live(l)' = Live(l) \ {i}
                          /\ Done(l)' = IF l = k THEN Done(l) \cup {i} ELSE Done(l)
                          /\ i \in Live(l) <=> l = k
  BY <1>k, BookStep
<1>2. InFlight' = [InFlight EXCEPT ![k] = @ \ {i}]
  BY <1>1 DEF InFlight
<1>3. Counted' = [Counted EXCEPT ![k] = @ \cup {i}]
  <2>1. \A l \in Kinds : Done(l)' = IF l = k THEN Done(k) \cup {i} ELSE Done(l)
    BY <1>1
  <2> QED BY <1>1, <2>1 DEF Counted
<1> QED BY <1>k, <1>1, <1>2, <1>3 DEF Gate!Complete, InFlight, Counted

\* Every step of the authority and of its clients admits one call, gives one
\* back, completes one, or leaves the gate alone.
LEMMA StepRefines ==
    ASSUME IInv, [Next]_vars
    PROVE  Gate!Next \/ UNCHANGED <<InFlight, Counted>>
<1>1. ASSUME NEW c \in Clients, NEW k \in Kinds, NEW usd \in ReserveAmounts, Reserve(c, k, usd)
      PROVE  Gate!Next
  BY <1>1, ReserveAdmits DEF Gate!Next
<1>2. ASSUME NEW c \in Clients, BeginExecuteTooLate(c) PROVE Gate!Next
  <2>1. /\ held[c] \in ReservationIds /\ reservations[held[c]].state \in Unsettled
        /\ ReleaseLocked(held[c])
    BY <1>2 DEF BeginExecuteTooLate, IInv, HandlesOwned, Unsettled
  <2> QED BY <2>1, ReleaseGivesBack DEF Gate!Next
<1>3. ASSUME NEW c \in Clients, Commit(c) PROVE Gate!Next
  <2>1. /\ held[c] \in ReservationIds /\ reservations[held[c]].state = "executing"
        /\ cost[c] \in Nat /\ Book(held[c], cost[c])
    BY <1>3 DEF Commit, IInv, TypeOK, HandlesOwned
  <2> QED BY <2>1, BookCompletes DEF Gate!Next
<1>4. CASE UNCHANGED ledger
  <2>1. \A k \in Kinds : Live(k)' = Live(k) /\ Done(k)' = Done(k)
    BY <1>4 DEF ledger, Live, Done
  <2> QED BY <2>1, NothingMoves
<1>5. ASSUME NEW c \in Clients, Unwind(c) PROVE Gate!Next \/ UNCHANGED <<InFlight, Counted>>
  <2>1. CASE reservations[held[c]].state # "committed"
    <3>1. /\ held[c] \in ReservationIds /\ reservations[held[c]].state \in Unsettled
          /\ ReleaseLocked(held[c])
      BY <1>5, <2>1 DEF Unwind, IInv, HandlesOwned, Unsettled
    <3> QED BY <3>1, ReleaseGivesBack DEF Gate!Next
  <2> QED BY <1>4, <1>5, <2>1 DEF Unwind
<1>6. ASSUME NEW c \in Clients, BeginExecute(c) PROVE UNCHANGED <<InFlight, Counted>>
  <2>1. /\ held[c] \in ReservationIds /\ reservations[held[c]].state = "reserved"
        /\ reservations \in [ReservationIds -> Handles]
        /\ reservations' = [reservations EXCEPT
             ![held[c]] = [kind |-> reservations[held[c]].kind, usd |-> reservations[held[c]].usd,
                           state |-> "executing"]]
    BY <1>6 DEF BeginExecute, Restamped, IInv, TypeOK, HandlesOwned
  <2>2. \A k \in Kinds : Live(k)' = Live(k) /\ Done(k)' = Done(k)
    BY <2>1 DEF Live, Done, Unsettled
  <2> QED BY <2>2, NothingMoves
<1> QED BY <1>1, <1>2, <1>3, <1>4, <1>5, <1>6
        DEF Next, Finish, CallEnds, CallReturns, CallFails, ReserveRefused, DeadlinePasses, vars

\* The counters of budget.py implement the gate: a place in a lane is given back
\* exactly once, by a call that failed, and never by one that was committed.
THEOREM BudgetIsGate == Spec => ImplementsLaneGate
<1>1. Init => Gate!Init
  <2> SUFFICES ASSUME Init PROVE Gate!Init
    OBVIOUS
  <2>1. \A k \in Kinds : Live(k) = {} /\ Done(k) = {}
    BY DEF Init, Live, Done, Unsettled, NoHandle
  <2> QED BY <2>1 DEF Gate!Init
<1>2. IInv /\ [Next]_vars => [Gate!Next]_<<InFlight, Counted>>
  BY StepRefines
<1>3. IInv /\ [Next]_vars => [Gate!Next]_(Gate!gate)
  BY <1>2 DEF Gate!gate, InFlight, Counted
<1> QED BY <1>1, <1>3, BudgetInv, PTL DEF Spec, ImplementsLaneGate, Gate!Spec

-----------------------------------------------------------------------------
(* Sums over finite sets. *)

LEMMA HasMin ==
    ASSUME NEW S \in SUBSET Nat, S # {}
    PROVE  \E m \in S : \A n \in S : m <= n
<1> DEFINE Less == {ss \in Nat \X Nat : ss[1] < ss[2]}
<1>1. IsWellFoundedOn(Less, Nat)
  BY NatLessThanWellFounded DEF OpToRel
<1>2. PICK m \in S : \A n \in S : <<n, m>> \notin Less
  BY <1>1, WFMin
<1>3. ASSUME NEW n \in S PROVE m <= n
  <2>1. ~(n < m)
    BY <1>2
  <2> QED BY <2>1
<1> QED BY <1>3

\* What MapThenSumSet adds up, without the operator it takes: the sums of f over
\* the subsets of S, and over S.
Chosen(s) == CHOOSE x \in s : TRUE
AddsUp(f, S, g) ==
    g = [s \in SUBSET S |-> IF s = {} THEN 0 ELSE f[Chosen(s)] + g[s \ {Chosen(s)}]]
Sums(f, S) == CHOOSE g : AddsUp(f, S, g)
SumOver(f, S) == Sums(f, S)[S]

\* Of sets that are not all alike, some are least: none of their subsets is one.
LEMMA LeastSet ==
    ASSUME NEW S, IsFiniteSet(S), NEW B \in SUBSET SUBSET S, B # {}
    PROVE  \E T \in B : \A U \in SUBSET T : U # T => U \notin B
<1> DEFINE sizes == {n \in Nat : \E T \in B : Cardinality(T) = n}
<1>1. \A T \in B : IsFiniteSet(T) /\ Cardinality(T) \in sizes
  BY FS_Subset, FS_CardinalityType
<1>2. PICK m \in sizes : \A n \in sizes : m <= n
  <2>1. sizes # {}
    BY <1>1
  <2> QED BY <2>1, HasMin
<1>3. PICK T \in B : Cardinality(T) = m
  OBVIOUS
<1>4. ASSUME NEW U \in SUBSET T, U # T, U \in B PROVE FALSE
  <2>1. Cardinality(U) < Cardinality(T)
    BY <1>1, <1>4, FS_Subset
  <2>2. m <= Cardinality(U) /\ Cardinality(U) \in Nat
    BY <1>1, <1>2, <1>4
  <2> QED BY <1>3, <2>1, <2>2
<1> QED BY <1>4

LEMMA ChosenIn ==
    ASSUME NEW s, s # {}
    PROVE  Chosen(s) \in s
BY DEF Chosen

LEMMA SumsExist ==
    ASSUME NEW f, NEW S, IsFiniteSet(S)
    PROVE  \E g : AddsUp(f, S, g)
<1> DEFINE Upto(n) == {s \in SUBSET S : Cardinality(s) <= n}
           Good(n) == \E g : g = [s \in Upto(n) |-> IF s = {} THEN 0
                                                    ELSE f[Chosen(s)] + g[s \ {Chosen(s)}]]
           bad == {n \in Nat : ~Good(n)}
<1>1. \A s \in SUBSET S : Cardinality(s) \in Nat /\ Cardinality(s) <= Cardinality(S) /\ IsFiniteSet(s)
  BY FS_Subset, FS_CardinalityType
<1>2. Good(0)
  <2> DEFINE g == [s \in Upto(0) |-> 0]
  <2>1. \A s \in Upto(0) : s = {}
    BY <1>1, FS_EmptySet
  <2>2. g = [s \in Upto(0) |-> IF s = {} THEN 0 ELSE f[Chosen(s)] + g[s \ {Chosen(s)}]]
    BY <2>1
  <2> QED BY <2>2
<1>3. ASSUME NEW n \in Nat, Good(n) PROVE Good(n + 1)
  <2>1. PICK g : g = [s \in Upto(n) |-> IF s = {} THEN 0
                                        ELSE f[Chosen(s)] + g[s \ {Chosen(s)}]]
    BY <1>3
  <2> DEFINE h == [s \in Upto(n + 1) |-> IF s = {} THEN 0
                                         ELSE f[Chosen(s)] + g[s \ {Chosen(s)}]]
  <2>2. ASSUME NEW s \in Upto(n + 1), s # {}
        PROVE  s \ {Chosen(s)} \in Upto(n) /\ s \ {Chosen(s)} \in Upto(n + 1)
    <3>1. Chosen(s) \in s
      BY <2>2, ChosenIn
    <3>2. Cardinality(s \ {Chosen(s)}) = Cardinality(s) - 1
      BY <1>1, <3>1, FS_RemoveElement
    <3> QED BY <1>1, <3>2
  <2>3. \A s \in Upto(n) : s \in Upto(n + 1) /\ h[s] = g[s]
    <3>1. \A s \in Upto(n) : s \in Upto(n + 1)
      BY <1>1
    <3> HIDE DEF Upto
    <3> QED BY <2>1, <3>1
  <2>4. h = [s \in Upto(n + 1) |-> IF s = {} THEN 0
                                   ELSE f[Chosen(s)] + h[s \ {Chosen(s)}]]
    <3> HIDE DEF Upto
    <3>1. \A s \in Upto(n + 1) : s # {} => h[s \ {Chosen(s)}] = g[s \ {Chosen(s)}]
      BY <2>2, <2>3
    <3> QED BY <3>1
  <2> QED BY <2>4
<1>4. bad = {}
  <2> HIDE DEF Good
  <2> SUFFICES ASSUME bad # {} PROVE FALSE
    OBVIOUS
  <2>1. PICK m \in bad : \A n \in bad : m <= n
    BY HasMin
  <2>2. m # 0 /\ m - 1 \in Nat /\ m - 1 \notin bad
    BY <1>2, <2>1
  <2>3. Good((m - 1) + 1) /\ (m - 1) + 1 = m
    BY <1>3, <2>2
  <2> QED BY <2>1, <2>3
<1>5. Good(Cardinality(S))
  <2> HIDE DEF Good
  <2> QED BY <1>1, <1>4
<1>6. Upto(Cardinality(S)) = SUBSET S
  BY <1>1
<1> HIDE DEF Upto
<1> QED BY <1>5, <1>6 DEF AddsUp

LEMMA SumsAddUp ==
    ASSUME NEW f, NEW S, IsFiniteSet(S)
    PROVE  AddsUp(f, S, Sums(f, S))
<1>1. \E g : AddsUp(f, S, g)
  BY SumsExist
<1> QED BY <1>1, Zenon DEF Sums

\* The sum over a set depends on f on that set alone.
LEMMA SumsAgree ==
    ASSUME NEW f, NEW h, NEW S, NEW R, IsFiniteSet(S), IsFiniteSet(R),
           NEW T \in SUBSET (S \cap R), \A x \in T : f[x] = h[x]
    PROVE  Sums(f, S)[T] = Sums(h, R)[T]
<1> DEFINE bad == {U \in SUBSET T : Sums(f, S)[U] # Sums(h, R)[U]}
<1> SUFFICES ASSUME bad # {} PROVE FALSE
  OBVIOUS
<1>1. IsFiniteSet(T)
  BY FS_Subset
<1>2. PICK U \in bad : \A V \in SUBSET U : V # U => V \notin bad
  <2>1. bad \in SUBSET SUBSET T
    OBVIOUS
  <2> HIDE DEF bad
  <2> QED BY <1>1, <2>1, LeastSet
<1>3. U \in SUBSET S /\ U \in SUBSET R
  OBVIOUS
<1>4. /\ U = {} => Sums(f, S)[U] = 0
      /\ U # {} => Sums(f, S)[U] = f[Chosen(U)] + Sums(f, S)[U \ {Chosen(U)}]
  <2>1. AddsUp(f, S, Sums(f, S))
    BY SumsAddUp
  <2> HIDE DEF bad
  <2> QED BY <1>3, <2>1 DEF AddsUp
<1>5. /\ U = {} => Sums(h, R)[U] = 0
      /\ U # {} => Sums(h, R)[U] = h[Chosen(U)] + Sums(h, R)[U \ {Chosen(U)}]
  <2>1. AddsUp(h, R, Sums(h, R))
    BY SumsAddUp
  <2> HIDE DEF bad
  <2> QED BY <1>3, <2>1 DEF AddsUp
<1>6. U # {} /\ Chosen(U) \in U
  BY <1>4, <1>5, ChosenIn
<1>7. Sums(f, S)[U \ {Chosen(U)}] = Sums(h, R)[U \ {Chosen(U)}]
  <2>1. U \ {Chosen(U)} \in SUBSET U /\ U \ {Chosen(U)} # U
    BY <1>6
  <2> QED BY <1>2, <2>1
<1>8. f[Chosen(U)] = h[Chosen(U)]
  BY <1>6
<1> QED BY <1>4, <1>5, <1>6, <1>7, <1>8

LEMMA SumEmpty == \A f : SumOver(f, {}) = 0
<1> SUFFICES ASSUME NEW f PROVE SumOver(f, {}) = 0
  OBVIOUS
<1>1. AddsUp(f, {}, Sums(f, {}))
  BY SumsAddUp, FS_EmptySet
<1> QED BY <1>1 DEF AddsUp, SumOver

LEMMA SumChosen ==
    ASSUME NEW f, NEW S, IsFiniteSet(S), S # {}
    PROVE  /\ Chosen(S) \in S
           /\ SumOver(f, S) = f[Chosen(S)] + SumOver(f, S \ {Chosen(S)})
<1>1. Chosen(S) \in S
  BY ChosenIn
<1>2. IsFiniteSet(S \ {Chosen(S)})
  BY FS_Subset
<1>3. Sums(f, S)[S \ {Chosen(S)}] = Sums(f, S \ {Chosen(S)})[S \ {Chosen(S)}]
  BY <1>2, SumsAgree
<1>4. Sums(f, S)[S] = f[Chosen(S)] + Sums(f, S)[S \ {Chosen(S)}]
  <2>1. AddsUp(f, S, Sums(f, S))
    BY SumsAddUp
  <2> QED BY <2>1 DEF AddsUp
<1> QED BY <1>1, <1>3, <1>4 DEF SumOver

LEMMA SumAgrees ==
    ASSUME NEW f, NEW h, NEW S, IsFiniteSet(S), \A x \in S : f[x] = h[x]
    PROVE  SumOver(f, S) = SumOver(h, S)
BY SumsAgree DEF SumOver

LEMMA SumType ==
    ASSUME NEW f, NEW S, IsFiniteSet(S), \A x \in S : f[x] \in Int
    PROVE  SumOver(f, S) \in Int
<1> DEFINE bad == {U \in SUBSET S : SumOver(f, U) \notin Int}
<1> SUFFICES ASSUME bad # {} PROVE FALSE
  OBVIOUS
<1>1. PICK U \in bad : \A V \in SUBSET U : V # U => V \notin bad
  <2>1. bad \in SUBSET SUBSET S
    OBVIOUS
  <2> HIDE DEF bad
  <2> QED BY <2>1, LeastSet
<1>2. U # {} /\ IsFiniteSet(U)
  <2>1. U \in SUBSET S /\ SumOver(f, U) \notin Int
    OBVIOUS
  <2> HIDE DEF bad
  <2>2. SumOver(f, {}) = 0
    BY SumEmpty
  <2>3. IsFiniteSet(U)
    BY <2>1, FS_Subset
  <2> QED BY <2>1, <2>2, <2>3
<1>3. Chosen(U) \in U /\ SumOver(f, U) = f[Chosen(U)] + SumOver(f, U \ {Chosen(U)})
  BY <1>2, SumChosen
<1>4. SumOver(f, U \ {Chosen(U)}) \in Int
  <2>1. U \ {Chosen(U)} \in SUBSET U /\ U \ {Chosen(U)} # U /\ U \ {Chosen(U)} \in SUBSET S
    BY <1>3
  <2> QED BY <1>1, <2>1
<1>5. f[Chosen(U)] \in Int
  BY <1>3
<1> QED BY <1>3, <1>4, <1>5

\* Whichever element is taken out first.
LEMMA SumRemove ==
    ASSUME NEW f, NEW S, IsFiniteSet(S), \A y \in S : f[y] \in Int, NEW x \in S
    PROVE  SumOver(f, S) = f[x] + SumOver(f, S \ {x})
<1> DEFINE bad == {U \in SUBSET S : \E y \in U : SumOver(f, U) # f[y] + SumOver(f, U \ {y})}
<1> SUFFICES ASSUME bad # {} PROVE FALSE
  OBVIOUS
<1>1. PICK U \in bad : \A V \in SUBSET U : V # U => V \notin bad
  <2>1. bad \in SUBSET SUBSET S
    OBVIOUS
  <2> HIDE DEF bad
  <2> QED BY <2>1, LeastSet
<1>2. PICK y \in U : SumOver(f, U) # f[y] + SumOver(f, U \ {y})
  OBVIOUS
<1> DEFINE p == Chosen(U)
           rest == U \ {p, y}
<1>3. IsFiniteSet(U) /\ p \in U /\ SumOver(f, U) = f[p] + SumOver(f, U \ {p})
  <2>1. IsFiniteSet(U) /\ U # {}
    BY FS_Subset
  <2> QED BY <2>1, SumChosen
<1> HIDE DEF p
<1>4. p # y
  BY <1>2, <1>3
<1>5. SumOver(f, U \ {p}) = f[y] + SumOver(f, rest)
  <2>1. U \ {p} \in SUBSET U /\ U \ {p} # U /\ y \in U \ {p} /\ (U \ {p}) \ {y} = rest
    BY <1>3, <1>4
  <2>2. U \ {p} \notin bad
    BY <1>1, <2>1
  <2> QED BY <2>1, <2>2
<1>6. SumOver(f, U \ {y}) = f[p] + SumOver(f, rest)
  <2>1. U \ {y} \in SUBSET U /\ U \ {y} # U /\ p \in U \ {y} /\ (U \ {y}) \ {p} = rest
    BY <1>3, <1>4
  <2>2. U \ {y} \notin bad
    BY <1>1, <2>1
  <2> QED BY <2>1, <2>2
<1>7. SumOver(f, rest) \in Int /\ f[p] \in Int /\ f[y] \in Int
  <2>1. IsFiniteSet(rest) /\ \A z \in rest : f[z] \in Int
    BY <1>3, FS_Subset
  <2> QED BY <1>3, <2>1, SumType
<1> QED BY <1>2, <1>3, <1>5, <1>6, <1>7

-----------------------------------------------------------------------------
(* The books. *)

Returned == {c \in Clients : pc[c] = "returned"}

BooksAreComplete == incurred = usdCommitted + SumOver(cost, Returned)

LEMMA BooksAreKnownSpend == KnownSpendBooked <=> BooksAreComplete
<1>1. MapThenSumSet(LAMBDA c : cost[c], Returned) = SumOver(cost, Returned)
  BY Zenon DEF MapThenSumSet, MapThenFoldSet, SumOver, Sums, AddsUp, Chosen
<1> QED BY <1>1 DEF KnownSpendBooked, BooksAreComplete, Returned

\* Calls that are under way hold different handles, of which there are finitely many.
LEMMA ReturnedFinite ==
    ASSUME IInv
    PROVE  IsFiniteSet(Returned)
<1> DEFINE f == [c \in Returned |-> held[c]]
<1>1. f \in Injection(Returned, ReservationIds)
  BY DEF IInv, HandlesOwned, Returned, Injection, IsInjective
<1>2. IsFiniteSet(ReservationIds)
  BY FS_Interval DEF ReservationIds
<1> QED BY <1>1, <1>2, FS_Injection DEF ExistsInjection

\* A step that returns no call and books none.
LEMMA BooksKept ==
    ASSUME BooksAreComplete, UNCHANGED <<usdCommitted, cost, incurred>>, Returned' = Returned
    PROVE  BooksAreComplete'
BY DEF BooksAreComplete

LEMMA ReturnIsDue ==
    ASSUME IInv, BooksAreComplete, NEW c \in Clients, NEW usd \in ActualCosts, CallReturns(c, usd)
    PROVE  BooksAreComplete'
<1>1. /\ pc \in [Clients -> {"idle", "reserved", "executing", "returned", "unwinding"}]
      /\ cost \in [Clients -> Nat] /\ usd \in Nat /\ pc[c] = "executing"
      /\ pc' = [pc EXCEPT ![c] = "returned"] /\ cost' = [cost EXCEPT ![c] = usd]
  BY DEF CallReturns, IInv, TypeOK
<1>2. usdCommitted' = usdCommitted /\ incurred' = incurred + usd
  BY DEF CallReturns, ledger
<1>3. Returned' = Returned \cup {c} /\ c \notin Returned /\ Returned \subseteq Clients
  BY <1>1 DEF Returned
<1>4. /\ cost' \in [Clients -> Nat] /\ cost'[c] = usd
      /\ \A d \in Returned : cost'[d] = cost[d]
  BY <1>1, <1>3
<1>5. IsFiniteSet(Returned) /\ IsFiniteSet(Returned \cup {c})
  BY ReturnedFinite, FS_AddElement
<1> HIDE DEF Returned
<1>6. SumOver(cost', Returned \cup {c}) = usd + SumOver(cost', Returned)
  <2>1. \A d \in Returned \cup {c} : cost'[d] \in Int
    BY <1>3, <1>4
  <2>2. (Returned \cup {c}) \ {c} = Returned
    BY <1>3
  <2>3. SumOver(cost', Returned \cup {c}) = cost'[c] + SumOver(cost', (Returned \cup {c}) \ {c})
    BY <1>5, <2>1, SumRemove
  <2> QED BY <1>4, <2>2, <2>3
<1>7. SumOver(cost', Returned) = SumOver(cost, Returned)
  BY <1>4, <1>5, SumAgrees
<1>8. SumOver(cost, Returned) \in Int
  BY <1>1, <1>3, <1>5, SumType
<1>9. incurred = usdCommitted + SumOver(cost, Returned) /\ usdCommitted \in Nat
  BY DEF BooksAreComplete, IInv, TypeOK
<1>10. incurred' = usdCommitted' + SumOver(cost', Returned')
  BY <1>1, <1>2, <1>3, <1>6, <1>7, <1>8, <1>9
<1> QED BY <1>10 DEF BooksAreComplete

LEMMA CommitBooks ==
    ASSUME IInv, BooksAreComplete, NEW c \in Clients, Commit(c)
    PROVE  BooksAreComplete'
<1>1. /\ pc \in [Clients -> {"idle", "reserved", "executing", "returned", "unwinding"}]
      /\ cost \in [Clients -> Nat] /\ pc[c] = "returned" /\ usdCommitted \in Nat
      /\ \E p \in {"unwinding", "idle"} : pc' = [pc EXCEPT ![c] = p]
  BY DEF Commit, IInv, TypeOK
<1>2. usdCommitted' = usdCommitted + cost[c] /\ cost' = cost /\ incurred' = incurred
  BY DEF Commit, Book
<1>3. Returned' = Returned \ {c} /\ c \in Returned /\ Returned \subseteq Clients
  BY <1>1 DEF Returned
<1>4. IsFiniteSet(Returned) /\ IsFiniteSet(Returned \ {c})
  BY ReturnedFinite, FS_RemoveElement
<1> HIDE DEF Returned
<1>5. \A d \in Returned : cost[d] \in Int
  BY <1>1, <1>3
<1>6. SumOver(cost, Returned) = cost[c] + SumOver(cost, Returned \ {c})
  BY <1>3, <1>4, <1>5, SumRemove
<1>7. SumOver(cost, Returned \ {c}) \in Int /\ cost[c] \in Int
  BY <1>3, <1>4, <1>5, SumType
<1>8. incurred = usdCommitted + SumOver(cost, Returned)
  BY DEF BooksAreComplete
<1>9. incurred' = usdCommitted' + SumOver(cost', Returned')
  BY <1>1, <1>2, <1>3, <1>6, <1>7, <1>8
<1> QED BY <1>9 DEF BooksAreComplete

LEMMA BooksStep == IInv /\ BooksAreComplete /\ [Next]_vars => BooksAreComplete'
<1> SUFFICES ASSUME IInv, BooksAreComplete, [Next]_vars PROVE BooksAreComplete'
  OBVIOUS
<1>1. ASSUME NEW c \in Clients, NEW p \in {"idle", "reserved", "executing", "unwinding"},
             pc' = [pc EXCEPT ![c] = p], pc[c] # "returned",
             UNCHANGED <<usdCommitted, cost, incurred>>
      PROVE  BooksAreComplete'
  <2>1. Returned' = Returned
    BY <1>1 DEF Returned, IInv, TypeOK
  <2> QED BY <1>1, <2>1, BooksKept
<1>2. ASSUME UNCHANGED <<pc, usdCommitted, cost, incurred>> PROVE BooksAreComplete'
  BY <1>2, BooksKept DEF Returned
<1>3. ASSUME NEW c \in Clients, NEW k \in Kinds, NEW usd \in ReserveAmounts,
             Reserve(c, k, usd) \/ ReserveRefused(c, k, usd)
      PROVE  BooksAreComplete'
  BY <1>1, <1>2, <1>3 DEF Reserve, ReserveRefused, ledger
<1>4. ASSUME NEW c \in Clients, BeginExecute(c) \/ BeginExecuteTooLate(c) PROVE BooksAreComplete'
  BY <1>1, <1>4 DEF BeginExecute, BeginExecuteTooLate, ReleaseLocked
<1>5. ASSUME NEW c \in Clients, CallEnds(c) PROVE BooksAreComplete'
  BY <1>1, <1>5, ReturnIsDue DEF CallEnds, CallFails, ledger
<1>6. ASSUME NEW c \in Clients, Unwind(c) PROVE BooksAreComplete'
  BY <1>1, <1>6 DEF Unwind, ReleaseLocked, ledger
<1>7. CASE DeadlinePasses \/ UNCHANGED vars
  BY <1>2, <1>7 DEF DeadlinePasses, vars, ledger
<1> QED BY <1>3, <1>4, <1>5, <1>6, <1>7, CommitBooks DEF Next, Finish

\* Every known cost is in the ledger, but for calls whose commit is still to come:
\* what a thread learns it has spent is never lost, whichever path settles the
\* call (budget.py, commit).
THEOREM KnownSpendIsBooked == Spec => []KnownSpendBooked
<1>1. Init => BooksAreComplete
  <2> SUFFICES ASSUME Init PROVE BooksAreComplete
    OBVIOUS
  <2>1. Returned = {}
    BY DEF Init, Returned
  <2> QED BY <2>1, SumEmpty DEF Init, BooksAreComplete
<1>2. Spec => []BooksAreComplete
  BY <1>1, BudgetInv, BooksStep, PTL DEF Spec
<1> QED BY <1>2, BooksAreKnownSpend, PTL
=============================================================================
