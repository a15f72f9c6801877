----------------------------- MODULE StudyProofs -----------------------------
(***************************************************************************)
(* What Study guarantees for every set of command lines, prices and texts, *)
(* and for fixtures and lists of conditions of any length.                 *)
(*                                                                         *)
(* Money: until the study ends, what the provider booked is what the       *)
(* service billed, since a request that is billed and not booked ends it;  *)
(* so the comparison of the cap with the one is a comparison with the      *)
(* other.  Rows: at every moment the rows of the condition under way are   *)
(* those of the cases before the present one, and the results are whole    *)
(* for the conditions before the present one.                              *)
(***************************************************************************)
EXTENDS Study, FiniteSetTheorems, SequenceTheorems, WellFoundedInduction, TLAPS

-----------------------------------------------------------------------------
(* Sums over finite sets. *)

LEMMA HasMin ==
    ASSUME NEW S \in SUBSET Nat, S # {}
    PROVE  \E m \in S : \A n \in S : m <= n
<1> DEFINE Less == {ss \in Nat \X Nat : ss[1] < ss[2]}
<1>1. IsWellFoundedOn(Less, Nat)
  BY NatLessThanWellFounded DEF OpToRel
<1>2. PICK m \in S : \A n \in S : <<n, m>> \notin Less
  BY <1>1, WFMin
<1>3. ASSUME NEW n \in S PROVE m <= n
  <2>1. ~(n < m)
    BY <1>2
  <2> QED BY <2>1
<1> QED BY <1>3

\* What MapThenSumSet adds up, without the operator it takes: the sums of f over
\* the subsets of S, and over S.
Chosen(s) == CHOOSE x \in s : TRUE
AddsUp(f, S, g) ==
    g = [s \in SUBSET S |-> IF s = {} THEN 0 ELSE f[Chosen(s)] + g[s \ {Chosen(s)}]]
Sums(f, S) == CHOOSE g : AddsUp(f, S, g)
SumOver(f, S) == Sums(f, S)[S]

\* Of sets that are not all alike, some are least: none of their subsets is one.
LEMMA LeastSet ==
    ASSUME NEW S, IsFiniteSet(S), NEW B \in SUBSET SUBSET S, B # {}
    PROVE  \E T \in B : \A U \in SUBSET T : U # T => U \notin B
<1> DEFINE sizes == {n \in Nat : \E T \in B : Cardinality(T) = n}
<1>1. \A T \in B : IsFiniteSet(T) /\ Cardinality(T) \in sizes
  BY FS_Subset, FS_CardinalityType
<1>2. PICK m \in sizes : \A n \in sizes : m <= n
  <2>1. sizes # {}
    BY <1>1
  <2> QED BY <2>1, HasMin
<1>3. PICK T \in B : Cardinality(T) = m
  OBVIOUS
<1>4. ASSUME NEW U \in SUBSET T, U # T, U \in B PROVE FALSE
  <2>1. Cardinality(U) < Cardinality(T)
    BY <1>1, <1>4, FS_Subset
  <2>2. m <= Cardinality(U) /\ Cardinality(U) \in Nat
    BY <1>1, <1>2, <1>4
  <2> QED BY <1>3, <2>1, <2>2
<1> QED BY <1>4

LEMMA ChosenIn ==
    ASSUME NEW s, s # {}
    PROVE  Chosen(s) \in s
BY DEF Chosen

LEMMA SumsExist ==
    ASSUME NEW f, NEW S, IsFiniteSet(S)
    PROVE  \E g : AddsUp(f, S, g)
<1> DEFINE Upto(n) == {s \in SUBSET S : Cardinality(s) <= n}
           Good(n) == \E g : g = [s \in Upto(n) |-> IF s = {} THEN 0
                                                    ELSE f[Chosen(s)] + g[s \ {Chosen(s)}]]
           bad == {n \in Nat : ~Good(n)}
<1>1. \A s \in SUBSET S : Cardinality(s) \in Nat /\ Cardinality(s) <= Cardinality(S) /\ IsFiniteSet(s)
  BY FS_Subset, FS_CardinalityType
<1>2. Good(0)
  <2> DEFINE g == [s \in Upto(0) |-> 0]
  <2>1. \A s \in Upto(0) : s = {}
    BY <1>1, FS_EmptySet
  <2>2. g = [s \in Upto(0) |-> IF s = {} THEN 0 ELSE f[Chosen(s)] + g[s \ {Chosen(s)}]]
    BY <2>1
  <2> QED BY <2>2
<1>3. ASSUME NEW n \in Nat, Good(n) PROVE Good(n + 1)
  <2>1. PICK g : g = [s \in Upto(n) |-> IF s = {} THEN 0
                                        ELSE f[Chosen(s)] + g[s \ {Chosen(s)}]]
    BY <1>3
  <2> DEFINE h == [s \in Upto(n + 1) |-> IF s = {} THEN 0
                                         ELSE f[Chosen(s)] + g[s \ {Chosen(s)}]]
  <2>2. ASSUME NEW s \in Upto(n + 1), s # {}
        PROVE  s \ {Chosen(s)} \in Upto(n) /\ s \ {Chosen(s)} \in Upto(n + 1)
    <3>1. Chosen(s) \in s
      BY <2>2, ChosenIn
    <3>2. Cardinality(s \ {Chosen(s)}) = Cardinality(s) - 1
      BY <1>1, <3>1, FS_RemoveElement
    <3> QED BY <1>1, <3>2
  <2>3. \A s \in Upto(n) : s \in Upto(n + 1) /\ h[s] = g[s]
    <3>1. \A s \in Upto(n) : s \in Upto(n + 1)
      BY <1>1
    <3> HIDE DEF Upto
    <3> QED BY <2>1, <3>1
  <2>4. h = [s \in Upto(n + 1) |-> IF s = {} THEN 0
                                   ELSE f[Chosen(s)] + h[s \ {Chosen(s)}]]
    <3> HIDE DEF Upto
    <3>1. \A s \in Upto(n + 1) : s # {} => h[s \ {Chosen(s)}] = g[s \ {Chosen(s)}]
      BY <2>2, <2>3
    <3> QED BY <3>1
  <2> QED BY <2>4
<1>4. bad = {}
  <2> HIDE DEF Good
  <2> SUFFICES ASSUME bad # {} PROVE FALSE
    OBVIOUS
  <2>1. PICK m \in bad : \A n \in bad : m <= n
    BY HasMin
  <2>2. m # 0 /\ m - 1 \in Nat /\ m - 1 \notin bad
    BY <1>2, <2>1
  <2>3. Good((m - 1) + 1) /\ (m - 1) + 1 = m
    BY <1>3, <2>2
  <2> QED BY <2>1, <2>3
<1>5. Good(Cardinality(S))
  <2> HIDE DEF Good
  <2> QED BY <1>1, <1>4
<1>6. Upto(Cardinality(S)) = SUBSET S
  BY <1>1
<1> HIDE DEF Upto
<1> QED BY <1>5, <1>6 DEF AddsUp

LEMMA SumsAddUp ==
    ASSUME NEW f, NEW S, IsFiniteSet(S)
    PROVE  AddsUp(f, S, Sums(f, S))
<1>1. \E g : AddsUp(f, S, g)
  BY SumsExist
<1> QED BY <1>1, Zenon DEF Sums

\* The sum over a set depends on f on that set alone.
LEMMA SumsAgree ==
    ASSUME NEW f, NEW h, NEW S, NEW R, IsFiniteSet(S), IsFiniteSet(R),
           NEW T \in SUBSET (S \cap R), \A x \in T : f[x] = h[x]
    PROVE  Sums(f, S)[T] = Sums(h, R)[T]
<1> DEFINE bad == {U \in SUBSET T : Sums(f, S)[U] # Sums(h, R)[U]}
<1> SUFFICES ASSUME bad # {} PROVE FALSE
  OBVIOUS
<1>1. IsFiniteSet(T)
  BY FS_Subset
<1>2. PICK U \in bad : \A V \in SUBSET U : V # U => V \notin bad
  <2>1. bad \in SUBSET SUBSET T
    OBVIOUS
  <2> HIDE DEF bad
  <2> QED BY <1>1, <2>1, LeastSet
<1>3. U \in SUBSET S /\ U \in SUBSET R
  OBVIOUS
<1>4. /\ U = {} => Sums(f, S)[U] = 0
      /\ U # {} => Sums(f, S)[U] = f[Chosen(U)] + Sums(f, S)[U \ {Chosen(U)}]
  <2>1. AddsUp(f, S, Sums(f, S))
    BY SumsAddUp
  <2> HIDE DEF bad
  <2> QED BY <1>3, <2>1 DEF AddsUp
<1>5. /\ U = {} => Sums(h, R)[U] = 0
      /\ U # {} => Sums(h, R)[U] = h[Chosen(U)] + Sums(h, R)[U \ {Chosen(U)}]
  <2>1. AddsUp(h, R, Sums(h, R))
    BY SumsAddUp
  <2> HIDE DEF bad
  <2> QED BY <1>3, <2>1 DEF AddsUp
<1>6. U # {} /\ Chosen(U) \in U
  BY <1>4, <1>5, ChosenIn
<1>7. Sums(f, S)[U \ {Chosen(U)}] = Sums(h, R)[U \ {Chosen(U)}]
  <2>1. U \ {Chosen(U)} \in SUBSET U /\ U \ {Chosen(U)} # U
    BY <1>6
  <2> QED BY <1>2, <2>1
<1>8. f[Chosen(U)] = h[Chosen(U)]
  BY <1>6
<1> QED BY <1>4, <1>5, <1>6, <1>7, <1>8

LEMMA SumEmpty == \A f : SumOver(f, {}) = 0
<1> SUFFICES ASSUME NEW f PROVE SumOver(f, {}) = 0
  OBVIOUS
<1>1. AddsUp(f, {}, Sums(f, {}))
  BY SumsAddUp, FS_EmptySet
<1> QED BY <1>1 DEF AddsUp, SumOver

LEMMA SumChosen ==
    ASSUME NEW f, NEW S, IsFiniteSet(S), S # {}
    PROVE  /\ Chosen(S) \in S
           /\ SumOver(f, S) = f[Chosen(S)] + SumOver(f, S \ {Chosen(S)})
<1>1. Chosen(S) \in S
  BY ChosenIn
<1>2. IsFiniteSet(S \ {Chosen(S)})
  BY FS_Subset
<1>3. Sums(f, S)[S \ {Chosen(S)}] = Sums(f, S \ {Chosen(S)})[S \ {Chosen(S)}]
  BY <1>2, SumsAgree
<1>4. Sums(f, S)[S] = f[Chosen(S)] + Sums(f, S)[S \ {Chosen(S)}]
  <2>1. AddsUp(f, S, Sums(f, S))
    BY SumsAddUp
  <2> QED BY <2>1 DEF AddsUp
<1> QED BY <1>1, <1>3, <1>4 DEF SumOver

LEMMA SumAgrees ==
    ASSUME NEW f, NEW h, NEW S, IsFiniteSet(S), \A x \in S : f[x] = h[x]
    PROVE  SumOver(f, S) = SumOver(h, S)
BY SumsAgree DEF SumOver

LEMMA SumType ==
    ASSUME NEW f, NEW S, IsFiniteSet(S), \A x \in S : f[x] \in Int
    PROVE  SumOver(f, S) \in Int
<1> DEFINE bad == {U \in SUBSET S : SumOver(f, U) \notin Int}
<1> SUFFICES ASSUME bad # {} PROVE FALSE
  OBVIOUS
<1>1. PICK U \in bad : \A V \in SUBSET U : V # U => V \notin bad
  <2>1. bad \in SUBSET SUBSET S
    OBVIOUS
  <2> HIDE DEF bad
  <2> QED BY <2>1, LeastSet
<1>2. U # {} /\ IsFiniteSet(U)
  <2>1. U \in SUBSET S /\ SumOver(f, U) \notin Int
    OBVIOUS
  <2> HIDE DEF bad
  <2>2. SumOver(f, {}) = 0
    BY SumEmpty
  <2>3. IsFiniteSet(U)
    BY <2>1, FS_Subset
  <2> QED BY <2>1, <2>2, <2>3
<1>3. Chosen(U) \in U /\ SumOver(f, U) = f[Chosen(U)] + SumOver(f, U \ {Chosen(U)})
  BY <1>2, SumChosen
<1>4. SumOver(f, U \ {Chosen(U)}) \in Int
  <2>1. U \ {Chosen(U)} \in SUBSET U /\ U \ {Chosen(U)} # U /\ U \ {Chosen(U)} \in SUBSET S
    BY <1>3
  <2> QED BY <1>1, <2>1
<1>5. f[Chosen(U)] \in Int
  BY <1>3
<1> QED BY <1>3, <1>4, <1>5

\* Whichever element is taken out first.
LEMMA SumRemove ==
    ASSUME NEW f, NEW S, IsFiniteSet(S), \A y \in S : f[y] \in Int, NEW x \in S
    PROVE  SumOver(f, S) = f[x] + SumOver(f, S \ {x})
<1> DEFINE bad == {U \in SUBSET S : \E y \in U : SumOver(f, U) # f[y] + SumOver(f, U \ {y})}
<1> SUFFICES ASSUME bad # {} PROVE FALSE
  OBVIOUS
<1>1. PICK U \in bad : \A V \in SUBSET U : V # U => V \notin bad
  <2>1. bad \in SUBSET SUBSET S
    OBVIOUS
  <2> HIDE DEF bad
  <2> QED BY <2>1, LeastSet
<1>2. PICK y \in U : SumOver(f, U) # f[y] + SumOver(f, U \ {y})
  OBVIOUS
<1> DEFINE p == Chosen(U)
           rest == U \ {p, y}
<1>3. IsFiniteSet(U) /\ p \in U /\ SumOver(f, U) = f[p] + SumOver(f, U \ {p})
  <2>1. IsFiniteSet(U) /\ U # {}
    BY FS_Subset
  <2> QED BY <2>1, SumChosen
<1> HIDE DEF p
<1>4. p # y
  BY <1>2, <1>3
<1>5. SumOver(f, U \ {p}) = f[y] + SumOver(f, rest)
  <2>1. U \ {p} \in SUBSET U /\ U \ {p} # U /\ y \in U \ {p} /\ (U \ {p}) \ {y} = rest
    BY <1>3, <1>4
  <2>2. U \ {p} \notin bad
    BY <1>1, <2>1
  <2> QED BY <2>1, <2>2
<1>6. SumOver(f, U \ {y}) = f[p] + SumOver(f, rest)
  <2>1. U \ {y} \in SUBSET U /\ U \ {y} # U /\ p \in U \ {y} /\ (U \ {y}) \ {p} = rest
    BY <1>3, <1>4
  <2>2. U \ {y} \notin bad
    BY <1>1, <2>1
  <2> QED BY <2>1, <2>2
<1>7. SumOver(f, rest) \in Int /\ f[p] \in Int /\ f[y] \in Int
  <2>1. IsFiniteSet(rest) /\ \A z \in rest : f[z] \in Int
    BY <1>3, FS_Subset
  <2> QED BY <1>3, <2>1, SumType
<1> QED BY <1>2, <1>3, <1>5, <1>6, <1>7


LEMMA SumAdd ==
    ASSUME NEW f, NEW h, NEW S, IsFiniteSet(S), NEW x, x \notin S,
           \A y \in S \cup {x} : h[y] \in Int, \A y \in S : h[y] = f[y]
    PROVE  SumOver(h, S \cup {x}) = h[x] + SumOver(f, S)
<1>1. IsFiniteSet(S \cup {x}) /\ (S \cup {x}) \ {x} = S
  BY FS_AddElement
<1>2. SumOver(h, S \cup {x}) = h[x] + SumOver(h, (S \cup {x}) \ {x})
  BY <1>1, SumRemove
<1>3. SumOver(h, S) = SumOver(f, S)
  BY SumAgrees
<1> QED BY <1>1, <1>2, <1>3

LEMMA SumIsSumFunction == \A f : SumFunction(f) = SumOver(f, DOMAIN f)
  BY Zenon DEF SumFunction, SumFunctionOnSet, FoldFunctionOnSet, MapThenFoldSet, SumOver, Sums, AddsUp, Chosen

-----------------------------------------------------------------------------
(* Invariants. *)

USE StudyAssumption, CommandsAssumption

\* A live study under a cap that is a number, all answers of which were as expected.
Accounted == command.provider = "live" /\ command.cap \notin {None, NaN} /\ ~odd

MoneyInv ==
    /\ command \in Commands /\ spent \in Nat /\ billed \in Nat
    /\ Accounted =>
        /\ pc # "ended" => billed = spent
        /\ billed = 0 \/ billed <= command.cap

\* The rows are those of all cases, in order.
Whole(r) == [k \in DOMAIN r |-> r[k].id] = [k \in DOMAIN cases |-> cases[k].id]

Listed(s) == s \in Seq(ToSet(s))

\* The conditions that have been run.
Finished == {selected[i] : i \in 1..at[1] - 1}

AtInv ==
    /\ at \in (Nat \ {0}) \X (Nat \ {0})
    /\ pc = "start" => at = <<1, 1>>
    /\ pc = "agent" => at[1] <= Len(selected) /\ at[2] <= Len(cases)
    /\ pc = "write" => at[1] = Len(selected) + 1

RowsInv ==
    /\ Listed(cases) /\ Listed(rows) /\ Listed(selected)
    /\ pc = "start" => rows = << >> /\ results = << >>
    /\ pc \in {"agent", "write"} => selected = command.conditions
    /\ pc = "agent" =>
        /\ Len(rows) = at[2] - 1
        /\ \A k \in 1..Len(rows) : rows[k].id = cases[k].id

ResultsInv ==
    /\ pc \in {"agent", "write"} => DOMAIN results = Finished
    /\ \A c \in DOMAIN results :
        /\ Listed(results[c].rows) /\ Whole(results[c].rows)
        /\ results[c].summary = Summarize(results[c].rows)

IInv ==
    /\ command \in Commands /\ pc \in {"start", "agent", "write", "ended"}
    /\ AtInv /\ RowsInv /\ ResultsInv
    /\ pc # "ended" => payload = None
    /\ PayloadIsWhole

\* The money in some rows, and in the summaries of some conditions.
RowUsd(r) == [k \in DOMAIN r |-> r[k].usd]
RowsUsd(r) == SumOver(RowUsd(r), DOMAIN r)
SummaryUsd(res) == [c \in DOMAIN res |-> res[c].summary.usd]
SummariesUsd(res) == SumOver(SummaryUsd(res), DOMAIN res)

\* What was booked is in the summaries, in the rows of the condition under way or
\* in the calls of the run under way.
SpendInv ==
    /\ spent \in Int /\ run \in [calls : Nat, usd : Int] /\ IsFiniteSet(DOMAIN results)
    /\ \A k \in DOMAIN rows : rows[k].usd \in Int
    /\ \A c \in DOMAIN results : results[c].summary.usd \in Int
    /\ pc = "start" => spent = 0 /\ run.usd = 0
    /\ pc = "write" => rows = << >> /\ run.usd = 0
    /\ pc \in {"agent", "write"} /\ IsInjective(command.conditions) =>
        spent = SummariesUsd(results) + RowsUsd(rows) + run.usd
    /\ SummariesAccountForSpend

-----------------------------------------------------------------------------
(* Money. *)

\* A call that may be sent leaves room for its reservation under a numeric cap.
LEMMA RoomForReservation ==
    ASSUME MoneyInv, Sendable, command.cap \notin {None, NaN}
    PROVE  command.cap \in Int /\ spent + Reservation <= command.cap
<1>1. ReservationRefusal = "ok"
  BY DEF Sendable, CallRefusal
<1>2. command.cap \in Int
  BY DEF MoneyInv
<1>3. command.cap - spent \in Int
  BY <1>2 DEF MoneyInv
<1>4. Remaining = command.cap - spent /\ Remaining # NaN
  BY <1>2, <1>3 DEF Remaining
<1>5. ~(Remaining < Reservation)
  BY <1>1, <1>4 DEF ReservationRefusal, Below
<1> QED BY <1>2, <1>4, <1>5 DEF MoneyInv

LEMMA MoneyStep == MoneyInv /\ [Next]_vars => MoneyInv'
<1> SUFFICES ASSUME MoneyInv, [Next]_vars PROVE MoneyInv'
  OBVIOUS
<1>1. CASE UNCHANGED <<command, money>> /\ (pc' # "ended" => pc # "ended")
  BY <1>1 DEF MoneyInv, Accounted, money
<1>2. CASE CallAnswered
  <2>1. PICK price \in Costs, usage \in BOOLEAN :
          /\ billed' = billed + price
          /\ spent' = IF usage THEN spent + price ELSE spent
          /\ odd' = (odd \/ ~usage \/ price > Reservation)
    BY <1>2 DEF CallAnswered, Booked
  <2>2. command' = command /\ pc' = pc
    BY <1>2 DEF CallAnswered
  <2>3. price \in Nat /\ spent' \in Nat /\ billed' \in Nat
    <3>1. (spent' = spent + price \/ spent' = spent) /\ billed' = billed + price
      BY <2>1, Zenon
    <3> QED BY <3>1 DEF MoneyInv
  <2>4. ASSUME Accounted' PROVE billed' = spent' /\ billed' <= command.cap
    <3>a. ~odd /\ usage /\ ~(price > Reservation)
      <4>1. ~(odd \/ ~usage \/ price > Reservation)
        BY <2>1, <2>4, Zenon DEF Accounted
      <4> QED BY <4>1, Zenon
    <3>0. Accounted /\ usage /\ ~(price > Reservation)
      BY <2>2, <2>4, <3>a DEF Accounted
    <3>1. Accounted /\ price <= Reservation /\ spent' = spent + price
      BY <2>1, <2>3, <3>0
    <3>2. billed = spent
      BY <1>2, <3>1 DEF MoneyInv, CallAnswered, Sendable
    <3>3. command.cap \in Int /\ spent + Reservation <= command.cap
      BY <1>2, <3>1, RoomForReservation DEF Accounted, CallAnswered
    <3>4. spent \in Nat /\ billed' = billed + price
      BY <2>1 DEF MoneyInv
    <3> QED BY <2>3, <3>1, <3>2, <3>3, <3>4
  <2> QED BY <2>2, <2>3, <2>4 DEF MoneyInv
<1>3. CASE CallFails
  <2>1. PICK price \in 0..Reservation : billed' = billed + price
    BY <1>3 DEF CallFails
  <2>2. UNCHANGED <<command, spent, odd>> /\ pc' = "ended"
    BY <1>3 DEF CallFails, Raise
  <2>3. billed' \in Nat
    BY <2>1 DEF MoneyInv
  <2>4. ASSUME Accounted' PROVE billed' <= command.cap
    <3>1. Accounted
      BY <2>2, <2>4 DEF Accounted
    <3>2. billed = spent
      BY <1>3, <3>1 DEF MoneyInv, CallFails, Sendable
    <3>3. command.cap \in Int /\ spent + Reservation <= command.cap
      BY <1>3, <3>1, RoomForReservation DEF Accounted, CallFails
    <3> QED BY <2>1, <3>2, <3>3 DEF MoneyInv
  <2> QED BY <2>2, <2>3, <2>4 DEF MoneyInv
<1>4. CASE Start \/ CallMock \/ CallRefused \/ RunEnds \/ Write
  BY <1>1, <1>4 DEF Start, CallMock, CallRefused, RunEnds, Write
<1>5. CASE UNCHANGED vars
  BY <1>1, <1>5 DEF vars
<1> QED BY <1>2, <1>3, <1>4, <1>5 DEF Next

\* As long as answers come with their usage and cost no more than was reserved,
\* the service has billed no more than a numeric cap, although failed requests
\* are billed and not booked (spend.py, live.py).
THEOREM SpendIsCapped == Spec => []TrueSpendWithinCap
<1>1. Init => MoneyInv
  BY DEF Init, MoneyInv, Accounted
<1>2. MoneyInv => TrueSpendWithinCap
  BY DEF MoneyInv, Accounted, TrueSpendWithinCap
<1> QED BY <1>1, <1>2, MoneyStep, PTL DEF Spec

-----------------------------------------------------------------------------
(* Rows and results. *)

\* Nothing is refused only if every check holds.
LEMMA NoneRefused ==
    ASSUME NEW checks, DOMAIN checks \subseteq Nat, FirstRefusal(checks) = "ok",
           \A i \in DOMAIN checks : checks[i].refusal # "ok"
    PROVE  \A i \in DOMAIN checks : checks[i].holds
<1> DEFINE failed == FailedChecks(checks)
<1>1. ASSUME failed # {} PROVE FALSE
  <2>1. \E m \in failed : \A n \in failed : m <= n
    BY <1>1, HasMin DEF FailedChecks
  <2>2. (CHOOSE i \in failed : \A j \in failed : i <= j) \in failed
    BY <2>1
  <2> QED BY <1>1, <2>2 DEF FirstRefusal, FailedChecks
<1> QED BY <1>1 DEF FailedChecks

\* The cases of a fixture are a sequence, as long as it has lines that are not blank.
LEMMA CasesListed ==
    ASSUME NEW lines, IsFiniteSet(DOMAIN lines)
    PROVE  Listed(Cases(lines)) /\ Len(Cases(lines)) = Cardinality(Written(lines))
<1> DEFINE n == Cardinality(Written(lines))
           loaded == Cases(lines)
           Nth(i) == lines[CHOOSE k \in Written(lines) :
                              Cardinality({j \in Written(lines) : j <= k}) = i]
<1>1. n \in Nat
  BY FS_CardinalityType, FS_Subset DEF Written
<1>1a. loaded = [i \in 1..n |-> Nth(i)]
  BY Zenon DEF Cases
<1> HIDE DEF loaded, n, Nth
<1>2. DOMAIN loaded = 1..n /\ loaded = [i \in 1..n |-> loaded[i]]
  BY <1>1a
<1>3. loaded \in [1..n -> ToSet(loaded)]
  BY <1>2 DEF ToSet
<1>4. loaded \in Seq(ToSet(loaded)) /\ Len(loaded) = n
  BY <1>1, <1>2, <1>3
<1> QED BY <1>4 DEF Listed, loaded, n

\* A study that starts has read a fixture with a case in it.
LEMMA StartLoads ==
    ASSUME StartRefusal = "ok", command \in Commands
    PROVE  Listed(Cases(command.fixture)) /\ Len(Cases(command.fixture)) \in Nat \ {0}
<1> DEFINE checks == <<
        Check(command.provider = "mock" \/ command.kind = "experiment" \/ StageRefusal = "ok", "spend"),
        Check(ConditionsRefusal = "ok", "condition"),
        Check(command.kind = "experiment" \/ ~command.heldout \/ command.allowHeldout, "heldout"),
        Check(LoadRefusal(command.kind, command.fixture) = "ok", "fixture")>>
<1>1. \A i \in 1..4 : checks[i].refusal # "ok"
  BY DEF Check
<1>2. DOMAIN checks = 1..4 /\ FirstRefusal(checks) = "ok"
  BY DEF StartRefusal
<1>3. checks[4].holds <=> LoadRefusal(command.kind, command.fixture) = "ok"
  BY DEF Check
<1> HIDE DEF checks
<1>4. LoadRefusal(command.kind, command.fixture) = "ok"
  BY <1>1, <1>2, <1>3, NoneRefused
<1>5. command.fixture # None /\ Written(command.fixture) # {}
  BY <1>4 DEF LoadRefusal
<1>6. IsFiniteSet(DOMAIN command.fixture)
  BY <1>5
<1>7. IsFiniteSet(Written(command.fixture))
  BY <1>6, FS_Subset DEF Written
<1>8. Cardinality(Written(command.fixture)) \in Nat \ {0}
  BY <1>5, <1>7, FS_CardinalityType, FS_EmptySet
<1> QED BY <1>6, <1>8, CasesListed

LEMMA AppendListed ==
    ASSUME NEW s, Listed(s), NEW x
    PROVE  /\ Listed(Append(s, x)) /\ Len(Append(s, x)) = Len(s) + 1 /\ Len(s) \in Nat
           /\ DOMAIN Append(s, x) = 1..Len(s) + 1
           /\ \A k \in 1..Len(s) : Append(s, x)[k] = s[k]
           /\ Append(s, x)[Len(s) + 1] = x
<1> DEFINE S == ToSet(s) \cup {x}
<1>1. s \in Seq(S) /\ x \in S
  BY DEF Listed
<1> HIDE DEF S
<1>2. /\ Append(s, x) \in Seq(S) /\ Len(Append(s, x)) = Len(s) + 1 /\ Len(s) \in Nat
      /\ \A k \in 1..Len(s) : Append(s, x)[k] = s[k]
      /\ Append(s, x)[Len(s) + 1] = x
  BY <1>1
<1>3. Append(s, x) \in Seq(ToSet(Append(s, x)))
  BY <1>2 DEF ToSet
<1> QED BY <1>2, <1>3 DEF Listed

LEMMA SummaryCounts == ASSUME NEW r PROVE Summarize(r).n = Len(r)
  BY Zenon DEF Summarize

LEMMA InitInv == Init => IInv
<1> SUFFICES ASSUME Init PROVE IInv
  OBVIOUS
<1>1. Listed(<< >>)
  BY DEF Listed
<1>2. AtInv /\ RowsInv /\ ResultsInv
  BY <1>1 DEF Init, AtInv, RowsInv, ResultsInv, Finished
<1>3. command \in Commands /\ pc = "start" /\ payload = None
  BY DEF Init
<1> QED BY <1>2, <1>3 DEF IInv, PayloadIsWhole

LEMMA StartInv == IInv /\ Start => IInv'
<1> SUFFICES ASSUME IInv, Start PROVE IInv'
  OBVIOUS
<1>1. pc = "start" /\ payload = None /\ payload' = None /\ command' = command /\ command \in Commands
  BY DEF IInv, Start, Raise, output
<1>2. at' = at /\ rows' = rows /\ results' = results
  BY DEF Start, Raise, progress
<1>3. at = <<1, 1>> /\ rows = << >> /\ results = << >>
  BY <1>1 DEF IInv, AtInv, RowsInv
<1>4. CASE StartRefusal # "ok"
  <2>1. pc' = "ended" /\ cases' = cases /\ selected' = selected
    BY <1>4 DEF Start, Raise, progress
  <2> QED BY <1>1, <1>2, <1>3, <2>1 DEF IInv, AtInv, RowsInv, ResultsInv, Listed, PayloadIsWhole
<1>5. CASE StartRefusal = "ok"
  <2>1. pc' = "agent" /\ cases' = Cases(command.fixture) /\ selected' = command.conditions
    BY <1>5 DEF Start
  <2>2. Listed(cases') /\ Len(cases') \in Nat \ {0}
    BY <1>1, <1>5, <2>1, StartLoads
  <2>3. Listed(selected') /\ Len(selected') \in Nat \ {0}
    BY <1>1, <2>1 DEF Listed
  <2>4. AtInv'
    BY <1>2, <1>3, <2>1, <2>2, <2>3 DEF AtInv
  <2>5. RowsInv'
    BY <1>1, <1>2, <1>3, <2>1, <2>2, <2>3 DEF RowsInv, Listed
  <2>6. ResultsInv'
    BY <1>2, <1>3, <2>1 DEF ResultsInv, Finished
  <2> QED BY <1>1, <2>1, <2>4, <2>5, <2>6 DEF IInv, PayloadIsWhole
<1> QED BY <1>4, <1>5

\* A call leaves rows and results as they are; an exception in it ends the study
\* without a payload.
LEMMA CallInv ==
    ASSUME IInv, CallMock \/ CallRefused \/ CallAnswered \/ CallFails
    PROVE  IInv'
<1>1. /\ pc = "agent" /\ pc' \in {"agent", "ended"} /\ payload' = payload
      /\ command' = command /\ UNCHANGED <<cases, selected, at, rows, results>>
  BY DEF CallMock, CallRefused, CallAnswered, CallFails, Sendable, Raise, progress, output
<1>2. payload = None
  BY <1>1 DEF IInv
<1>3. AtInv' /\ RowsInv'
  BY <1>1 DEF IInv, AtInv, RowsInv, Listed
<1>4. ResultsInv'
  BY <1>1 DEF IInv, ResultsInv, Finished, Listed, Whole
<1> QED BY <1>1, <1>2, <1>3, <1>4 DEF IInv, PayloadIsWhole

\* The run that ends adds the row of its case, and after the last one the results
\* of its condition.
LEMMA RunEndsInv == IInv /\ RunEnds => IInv'
<1> SUFFICES ASSUME IInv, RunEnds PROVE IInv'
  OBVIOUS
<1>1. PICK text \in Texts, terminal \in FrozenTerminals :
        LET done == Append(rows, ItemRow(Case, text, terminal, run.calls, run.usd)) IN
        IF at[2] = Len(cases) THEN NextCondition(done)
        ELSE rows' = done /\ at' = <<at[1], at[2] + 1>> /\ UNCHANGED <<pc, results>>
  BY DEF RunEnds
<1> DEFINE row == ItemRow(Case, text, terminal, run.calls, run.usd)
           done == Append(rows, row)
<1>2. row.id = cases[at[2]].id
  BY Zenon DEF ItemRow, Case
<1>3. /\ pc = "agent" /\ UNCHANGED <<command, cases, selected, payload>> /\ payload = None
  BY DEF RunEnds, output, IInv
<1>4. /\ IF at[2] = Len(cases) THEN NextCondition(done)
         ELSE rows' = done /\ at' = <<at[1], at[2] + 1>> /\ UNCHANGED <<pc, results>>
  BY <1>1
<1> HIDE DEF row
<1>5. /\ at \in (Nat \ {0}) \X (Nat \ {0}) /\ at[1] <= Len(selected) /\ at[2] <= Len(cases)
      /\ Listed(cases) /\ Listed(rows) /\ Listed(selected) /\ selected = command.conditions
      /\ Len(rows) = at[2] - 1 /\ \A k \in 1..Len(rows) : rows[k].id = cases[k].id
      /\ DOMAIN results = Finished
  BY <1>3 DEF IInv, AtInv, RowsInv, ResultsInv
<1>6. /\ Listed(done) /\ Len(done) = at[2] /\ DOMAIN done = 1..at[2]
      /\ \A k \in 1..at[2] - 1 : done[k] = rows[k]
      /\ done[at[2]] = row
  BY <1>5, AppendListed
<1> HIDE DEF done
<1>7. \A k \in 1..at[2] : done[k].id = cases[k].id
  <2> TAKE k \in 1..at[2]
  <2>1. CASE k = at[2]
    BY <1>2, <1>6, <2>1
  <2>2. CASE k \in 1..at[2] - 1
    BY <1>5, <1>6, <2>2
  <2> QED BY <1>5, <2>1, <2>2
<1>8. Len(cases) \in Nat /\ DOMAIN cases = 1..Len(cases) /\ Len(selected) \in Nat
  BY <1>5 DEF Listed
<1>9. CASE at[2] # Len(cases)
  <2>1. rows' = done /\ at' = <<at[1], at[2] + 1>> /\ UNCHANGED <<pc, results>>
    BY <1>4, <1>9
  <2>2. AtInv'
    BY <1>3, <1>5, <1>8, <1>9, <2>1 DEF AtInv
  <2>3. RowsInv'
    BY <1>3, <1>5, <1>6, <1>7, <2>1 DEF RowsInv, Listed
  <2>4. ResultsInv'
    <3>1. at'[1] = at[1]
      BY <1>5, <2>1
    <3>2. Finished' = Finished
      BY <1>3, <3>1 DEF Finished
    <3>3. \A c \in DOMAIN results :
            /\ Listed(results[c].rows)' /\ Whole(results[c].rows)'
            /\ (results[c].summary = Summarize(results[c].rows))'
      BY <1>3, <2>1 DEF IInv, ResultsInv, Listed, Whole
    <3> QED BY <1>3, <1>5, <2>1, <3>2, <3>3 DEF ResultsInv
  <2> QED BY <1>3, <2>1, <2>2, <2>3, <2>4 DEF IInv, PayloadIsWhole
<1>10. CASE at[2] = Len(cases)
  <2>1. /\ results' = [c \in DOMAIN results \cup {Condition} |->
                          IF c = Condition THEN [rows |-> done, summary |-> Summarize(done)]
                          ELSE results[c]]
        /\ rows' = << >> /\ at' = <<at[1] + 1, 1>>
        /\ pc' = IF at[1] < Len(selected) THEN "agent" ELSE "write"
    BY <1>4, <1>10 DEF NextCondition
  <2>2. Whole(done)
    BY <1>6, <1>7, <1>8, <1>10 DEF Whole
  <2>3. AtInv'
    BY <1>3, <1>5, <1>8, <1>10, <2>1 DEF AtInv
  <2>4. RowsInv'
    BY <1>3, <1>5, <2>1 DEF RowsInv, Listed
  <2>5. DOMAIN results' = Finished'
    <3>1. DOMAIN results' = Finished \cup {selected[at[1]]}
      BY <1>5, <2>1 DEF Condition
    <3>2. (1..at'[1] - 1) = (1..at[1] - 1) \cup {at[1]}
      BY <1>5, <2>1
    <3> QED BY <1>3, <3>1, <3>2 DEF Finished
  <2>6. ASSUME NEW c \in DOMAIN results'
        PROVE  /\ Listed(results'[c].rows) /\ Whole(results'[c].rows)
               /\ results'[c].summary = Summarize(results'[c].rows)
    <3>1. CASE c = Condition
      BY <1>6, <2>1, <2>2, <3>1
    <3>2. CASE c # Condition
      BY <2>1, <3>2 DEF IInv, ResultsInv
    <3> QED BY <3>1, <3>2
  <2>7. ResultsInv'
    BY <1>3, <2>5, <2>6 DEF ResultsInv, Whole, Listed
  <2> QED BY <1>3, <2>1, <2>3, <2>4, <2>7 DEF IInv, PayloadIsWhole
<1> QED BY <1>9, <1>10

LEMMA WriteInv == IInv /\ Write => IInv'
<1> SUFFICES ASSUME IInv, Write PROVE IInv'
  OBVIOUS
<1>1. /\ pc = "write" /\ pc' = "ended"
      /\ UNCHANGED <<command, cases, selected, at, rows, results>>
      /\ payload' = [results |-> results, comparison |-> Compare(results)]
  BY DEF Write, progress
<1>2. AtInv' /\ RowsInv' /\ ResultsInv'
  BY <1>1 DEF IInv, AtInv, RowsInv, ResultsInv, Finished, Listed, Whole
<1>3. DOMAIN results = ToSet(command.conditions)
  BY <1>1 DEF IInv, AtInv, RowsInv, ResultsInv, Finished, Listed, ToSet
<1>4. \A c \in DOMAIN results :
        /\ Whole(results[c].rows) /\ Len(results[c].rows) = Len(cases)
        /\ results[c].summary = Summarize(results[c].rows)
  <2> TAKE c \in DOMAIN results
  <2>1. /\ Listed(results[c].rows) /\ Whole(results[c].rows) /\ Listed(cases)
        /\ results[c].summary = Summarize(results[c].rows)
    BY DEF IInv, RowsInv, ResultsInv
  <2>2. DOMAIN results[c].rows = DOMAIN cases
    BY <2>1 DEF Whole
  <2>3. Len(results[c].rows) = Len(cases)
    BY <2>1, <2>2 DEF Listed
  <2> QED BY <2>1, <2>3
<1>5. Compare(results).available <=> {"C", "D"} \subseteq DOMAIN results
  BY DEF Compare
<1>6. ASSUME {"C", "D"} \subseteq DOMAIN results
      PROVE  /\ Compare(results).c.n = Compare(results).d.n
             /\ Compare(results).c = Summarize(results["C"].rows)
             /\ Compare(results).d = Summarize(results["D"].rows)
  <2>1. Compare(results).c = results["C"].summary /\ Compare(results).d = results["D"].summary
    BY <1>6 DEF Compare
  <2> QED BY <1>4, <1>6, <2>1, SummaryCounts
<1>7. PayloadIsWhole'
  BY <1>1, <1>3, <1>4, <1>5, <1>6 DEF PayloadIsWhole, Whole
<1> QED BY <1>1, <1>2, <1>7 DEF IInv

LEMMA NextInv == IInv /\ [Next]_vars => IInv'
<1>1. IInv /\ UNCHANGED vars => IInv'
  BY DEF vars, progress, output, IInv, AtInv, RowsInv, ResultsInv, Finished, Listed, Whole, PayloadIsWhole
<1> QED BY <1>1, StartInv, CallInv, RunEndsInv, WriteInv DEF Next

\* What is written has a row for every case and every condition asked for, and
\* compares C with D over the same cases (runner.py, run_condition; metrics.py).
THEOREM PayloadHoldsAll == Spec => []PayloadIsWhole
<1>1. IInv => PayloadIsWhole
  BY DEF IInv
<1> QED BY <1>1, InitInv, NextInv, PTL DEF Spec

-----------------------------------------------------------------------------
(* The money in the summaries. *)

LEMMA SummaryAddsRows == ASSUME NEW r PROVE Summarize(r).usd = RowsUsd(r)
<1>1. Summarize(r).usd = SumFunction(RowUsd(r))
  BY Zenon DEF Summarize, Total, RowUsd
<1>2. DOMAIN RowUsd(r) = DOMAIN r
  BY DEF RowUsd
<1> QED BY <1>1, <1>2, SumIsSumFunction DEF RowsUsd

LEMMA SummariesAddUp ==
    ASSUME NEW res
    PROVE  SumFunction([c \in DOMAIN res |-> res[c].summary.usd]) = SummariesUsd(res)
<1>1. DOMAIN SummaryUsd(res) = DOMAIN res
  BY DEF SummaryUsd
<1>2. SumFunction(SummaryUsd(res)) = SummariesUsd(res)
  BY <1>1, SumIsSumFunction DEF SummariesUsd
<1> QED BY <1>2, Zenon DEF SummaryUsd

LEMMA NothingSpent == RowsUsd(<< >>) = 0 /\ SummariesUsd(<< >>) = 0
  BY SumEmpty DEF RowsUsd, SummariesUsd

LEMMA RowsType ==
    ASSUME NEW r, Listed(r), \A k \in DOMAIN r : r[k].usd \in Int
    PROVE  RowsUsd(r) \in Int
<1>1. IsFiniteSet(DOMAIN r)
  BY FS_Interval DEF Listed
<1>2. \A k \in DOMAIN r : RowUsd(r)[k] \in Int
  BY DEF RowUsd
<1> QED BY <1>1, <1>2, SumType DEF RowsUsd

\* One more row adds its money.
LEMMA RowAdds ==
    ASSUME NEW r, Listed(r), \A k \in DOMAIN r : r[k].usd \in Int, NEW row, row.usd \in Int
    PROVE  /\ RowsUsd(Append(r, row)) = row.usd + RowsUsd(r)
           /\ \A k \in DOMAIN Append(r, row) : Append(r, row)[k].usd \in Int
<1> DEFINE done == Append(r, row)
<1>0. DOMAIN r = 1..Len(r) /\ Len(r) \in Nat /\ IsFiniteSet(1..Len(r))
  BY FS_Interval DEF Listed
<1>1. /\ DOMAIN done = DOMAIN r \cup {Len(r) + 1} /\ Len(r) + 1 \notin DOMAIN r
      /\ \A k \in DOMAIN r : done[k] = r[k]
      /\ done[Len(r) + 1] = row /\ IsFiniteSet(DOMAIN r)
  BY <1>0, AppendListed
<1> HIDE DEF done
<1>2. \A k \in DOMAIN done : done[k].usd \in Int
  BY <1>1
<1>3. /\ \A k \in DOMAIN r : RowUsd(done)[k] = RowUsd(r)[k]
      /\ \A k \in DOMAIN done : RowUsd(done)[k] \in Int
      /\ RowUsd(done)[Len(r) + 1] = row.usd
  BY <1>1, <1>2 DEF RowUsd
<1>4. RowsUsd(done) = row.usd + RowsUsd(r)
  BY <1>1, <1>3, SumAdd DEF RowsUsd
<1> QED BY <1>2, <1>4 DEF done

\* A call adds to what is booked what it adds to its run.
LEMMA CallSpends ==
    ASSUME IInv, SpendInv, CallMock \/ CallRefused \/ CallAnswered \/ CallFails
    PROVE  SpendInv'
<1>1. /\ pc = "agent" /\ pc' \in {"agent", "ended"} /\ UNCHANGED <<command, payload, rows, results>>
      /\ payload = None
  BY DEF CallMock, CallRefused, CallAnswered, CallFails, Sendable, Raise, progress, output, IInv
<1>2. \E price \in Int :
        spent' = spent + price /\ run'.usd = run.usd + price /\ run' \in [calls : Nat, usd : Int]
  <2>1. spent \in Int /\ run \in [calls : Nat, usd : Int]
    BY DEF SpendInv
  <2>2. CASE CallMock \/ CallRefused \/ CallFails
    <3>1. spent' = spent /\ run'.usd = run.usd /\ run' \in [calls : Nat, usd : Int]
      BY <2>1, <2>2 DEF CallMock, CallRefused, CallFails, money, progress
    <3> QED BY <2>1, <3>1
  <2>3. CASE CallAnswered
    <3>1. PICK price \in Costs, usage \in BOOLEAN :
            /\ spent' = IF usage THEN spent + price ELSE spent
            /\ run' = [calls |-> run.calls + 1, usd |-> run.usd + IF usage THEN price ELSE 0]
      BY <2>3 DEF CallAnswered, Booked
    <3>2. CASE usage
      BY <2>1, <3>1, <3>2
    <3>3. CASE ~usage
      BY <2>1, <3>1, <3>3
    <3> QED BY <3>2, <3>3
  <2> QED BY <2>2, <2>3
<1>3. SummariesUsd(results) \in Int
  BY SumType DEF SpendInv, SummariesUsd, SummaryUsd
<1>4. RowsUsd(rows) \in Int
  BY RowsType DEF SpendInv, IInv, RowsInv
<1>5. IsInjective(command.conditions) => spent' = SummariesUsd(results) + RowsUsd(rows) + run'.usd
  BY <1>1, <1>2, <1>3, <1>4 DEF SpendInv
<1>6. SummariesUsd(results)' = SummariesUsd(results) /\ RowsUsd(rows)' = RowsUsd(rows)
  BY <1>1
<1>7. SummariesAccountForSpend'
  BY <1>1 DEF SummariesAccountForSpend
<1>8. spent' \in Int /\ run' \in [calls : Nat, usd : Int]
  BY <1>2 DEF SpendInv
<1> QED BY <1>1, <1>5, <1>6, <1>7, <1>8 DEF SpendInv

LEMMA RunEndsSpends == IInv /\ SpendInv /\ RunEnds => SpendInv'
<1> SUFFICES ASSUME IInv, SpendInv, RunEnds PROVE SpendInv'
  OBVIOUS
<1>1. PICK text \in Texts, terminal \in FrozenTerminals :
        LET done == Append(rows, ItemRow(Case, text, terminal, run.calls, run.usd)) IN
        IF at[2] = Len(cases) THEN NextCondition(done)
        ELSE rows' = done /\ at' = <<at[1], at[2] + 1>> /\ UNCHANGED <<pc, results>>
  BY DEF RunEnds
<1> DEFINE row == ItemRow(Case, text, terminal, run.calls, run.usd)
           done == Append(rows, row)
<1>2. row.usd = run.usd
  BY Zenon DEF ItemRow
<1>3. IF at[2] = Len(cases) THEN NextCondition(done)
      ELSE rows' = done /\ at' = <<at[1], at[2] + 1>> /\ UNCHANGED <<pc, results>>
  BY <1>1
<1> HIDE DEF row
<1>4. /\ pc = "agent" /\ UNCHANGED <<command, spent, payload>> /\ payload = None
      /\ run' \in [calls : Nat, usd : Int] /\ run'.usd = 0
  BY DEF RunEnds, output, money, IInv
<1>5. /\ spent \in Int /\ run.usd \in Int /\ IsFiniteSet(DOMAIN results)
      /\ Listed(rows) /\ (\A k \in DOMAIN rows : rows[k].usd \in Int)
      /\ (\A c \in DOMAIN results : results[c].summary.usd \in Int)
      /\ IsInjective(command.conditions) =>
            spent = SummariesUsd(results) + RowsUsd(rows) + run.usd
  BY <1>4 DEF SpendInv, IInv, RowsInv
<1>6. /\ RowsUsd(done) = run.usd + RowsUsd(rows) /\ Listed(done)
      /\ \A k \in DOMAIN done : done[k].usd \in Int
  BY <1>2, <1>5, RowAdds, AppendListed
<1> HIDE DEF done
<1>7. RowsUsd(rows) \in Int /\ RowsUsd(done) \in Int
  BY <1>5, <1>6, RowsType
<1>8. SummariesUsd(results) \in Int
  BY <1>5, SumType DEF SummariesUsd, SummaryUsd
<1>9. SummariesAccountForSpend'
  BY <1>4 DEF SummariesAccountForSpend
<1>10. CASE at[2] # Len(cases)
  <2>1. rows' = done /\ UNCHANGED <<pc, results>>
    BY <1>3, <1>10
  <2>2. SummariesUsd(results)' = SummariesUsd(results) /\ RowsUsd(rows)' = RowsUsd(done)
    BY <2>1
  <2>3. IsInjective(command.conditions) =>
          spent = SummariesUsd(results') + RowsUsd(rows') + run'.usd
    BY <1>4, <1>5, <1>6, <1>7, <1>8, <2>1
  <2> QED BY <1>4, <1>5, <1>6, <1>9, <2>1, <2>3 DEF SpendInv
<1>11. CASE at[2] = Len(cases)
  <2>1. /\ results' = [c \in DOMAIN results \cup {Condition} |->
                          IF c = Condition THEN [rows |-> done, summary |-> Summarize(done)]
                          ELSE results[c]]
        /\ rows' = << >> /\ pc' \in {"agent", "write"}
    BY <1>3, <1>11 DEF NextCondition
  <2>2. /\ DOMAIN results' = DOMAIN results \cup {Condition}
        /\ results'[Condition].summary.usd = RowsUsd(done)
        /\ \A c \in DOMAIN results : c # Condition => results'[c].summary.usd = results[c].summary.usd
    BY <2>1, SummaryAddsRows
  <2>3. /\ \A c \in DOMAIN results' : results'[c].summary.usd \in Int
        /\ IsFiniteSet(DOMAIN results')
    BY <1>5, <1>7, <2>2, FS_AddElement
  <2>4. RowsUsd(rows') = 0
    BY <2>1, NothingSpent
  <2>5. ASSUME IsInjective(command.conditions)
        PROVE  SummariesUsd(results') = RowsUsd(done) + SummariesUsd(results)
    <3>1. Condition \notin DOMAIN results
      <4>1. /\ at[1] \in Nat \ {0} /\ at[1] <= Len(selected) /\ selected = command.conditions
            /\ Listed(selected) /\ DOMAIN results = Finished
        BY <1>4 DEF IInv, AtInv, RowsInv, ResultsInv
      <4>2. ASSUME NEW i \in 1..at[1] - 1 PROVE selected[i] # selected[at[1]]
        <5>1. i \in DOMAIN selected /\ at[1] \in DOMAIN selected /\ i # at[1]
          BY <4>1 DEF Listed
        <5> QED BY <2>5, <4>1, <5>1 DEF IsInjective
      <4> QED BY <4>1, <4>2 DEF Finished, Condition
    <3> DEFINE f == SummaryUsd(results)
               h == SummaryUsd(results')
    <3>2. /\ \A c \in DOMAIN results : h[c] = f[c]
          /\ \A c \in DOMAIN results \cup {Condition} : h[c] \in Int
          /\ h[Condition] = RowsUsd(done)
      BY <2>2, <2>3, <3>1 DEF SummaryUsd
    <3> HIDE DEF f, h
    <3>3. SumOver(h, DOMAIN results \cup {Condition}) = h[Condition] + SumOver(f, DOMAIN results)
      BY <1>5, <3>1, <3>2, SumAdd
    <3> QED BY <2>2, <3>2, <3>3 DEF SummariesUsd, f, h
  <2>6. IsInjective(command.conditions) =>
          spent = SummariesUsd(results') + RowsUsd(rows') + run'.usd
    BY <1>4, <1>5, <1>6, <1>7, <1>8, <2>4, <2>5
  <2>7. DOMAIN rows' = {}
    BY <2>1
  <2> QED BY <1>4, <1>5, <1>9, <2>1, <2>3, <2>6, <2>7 DEF SpendInv
<1> QED BY <1>10, <1>11

LEMMA WriteSpends == IInv /\ SpendInv /\ Write => SpendInv'
<1> SUFFICES ASSUME IInv, SpendInv, Write PROVE SpendInv'
  OBVIOUS
<1>1. /\ pc = "write" /\ pc' = "ended" /\ UNCHANGED <<command, run, rows, results, spent>>
      /\ payload'.results = results
  BY DEF Write, progress, money
<1>2. IsInjective(command.conditions) => spent = SummariesUsd(results)
  <2>1. rows = << >> /\ run.usd = 0 /\ RowsUsd(rows) = 0
    BY <1>1, NothingSpent DEF SpendInv
  <2>2. SummariesUsd(results) \in Int
    BY SumType DEF SpendInv, SummariesUsd, SummaryUsd
  <2> QED BY <1>1, <2>1, <2>2 DEF SpendInv
<1>3. SummariesAccountForSpend'
  BY <1>1, <1>2, SummariesAddUp, Zenon DEF SummariesAccountForSpend
<1> QED BY <1>1, <1>3 DEF SpendInv

LEMMA StartSpends == IInv /\ SpendInv /\ Start => SpendInv'
<1> SUFFICES ASSUME IInv, SpendInv, Start PROVE SpendInv'
  OBVIOUS
<1>1. /\ pc = "start" /\ pc' \in {"agent", "ended"} /\ payload = None
      /\ UNCHANGED <<command, run, rows, results, payload, spent>>
  BY DEF Start, Raise, progress, output, money, IInv
<1>2. rows = << >> /\ results = << >> /\ spent = 0 /\ run.usd = 0
  BY <1>1 DEF IInv, RowsInv, SpendInv
<1>3. SummariesAccountForSpend'
  BY <1>1 DEF SummariesAccountForSpend
<1> QED BY <1>1, <1>2, <1>3, NothingSpent DEF SpendInv

\* Where no condition is asked for twice, the money in the summaries written is what
\* the provider booked: every call paid for is in the row of its case, and every row
\* in the summary of its condition (runner.py, run_condition; metrics.py).
THEOREM SummariesHoldSpend == Spec => []SummariesAccountForSpend
<1>1. Init => SpendInv
  BY FS_EmptySet DEF Init, SpendInv, SummariesAccountForSpend
<1>2. IInv /\ SpendInv /\ [Next]_vars => SpendInv'
  <2>1. IInv /\ SpendInv /\ UNCHANGED vars => SpendInv'
    BY DEF vars, progress, output, money, SpendInv, SummariesAccountForSpend
  <2> QED BY <2>1, StartSpends, CallSpends, RunEndsSpends, WriteSpends DEF Next
<1>3. SpendInv => SummariesAccountForSpend
  BY DEF SpendInv
<1> QED BY <1>1, <1>2, <1>3, InitInv, NextInv, PTL DEF Spec
=============================================================================
