--------------------------- MODULE JudgementProofs ---------------------------
(***************************************************************************)
(* What Judgement guarantees for every set of rubrics and of findings, for *)
(* evaluators and examiners that answer anything, and for a packaged map   *)
(* with any numbers, as long as it says what PackagedAssumption asks.      *)
(*                                                                         *)
(* A verdict is a function of the scores and the findings; IInv says whose *)
(* they are when it is given: scores behind the wall, those of the frozen  *)
(* evaluator unless the caller brought one, and findings the schema let    *)
(* through.  The rest is about that function.  Of one claim only the best  *)
(* finding counts, so findings that outdo others claim by claim cost at    *)
(* least as much (CostGrows); fewer failed criteria score at least as high *)
(* (ScoreGrows); and of two evaluations the one that is higher everywhere  *)
(* is ruled on no more harshly (VerdictGrows).                             *)
(***************************************************************************)
EXTENDS Judgement, FiniteSetTheorems, SequenceTheorems, WellFoundedInduction, TLAPS

-----------------------------------------------------------------------------
(* Sums over finite sets. *)

LEMMA HasMin ==
    ASSUME NEW S \in SUBSET Nat, S # {}
    PROVE  \E m \in S : \A n \in S : m <= n
<1> DEFINE Less == {ss \in Nat \X Nat : ss[1] < ss[2]}
<1>1. IsWellFoundedOn(Less, Nat)
  BY NatLessThanWellFounded DEF OpToRel
<1>2. PICK m \in S : \A n \in S : <<n, m>> \notin Less
  BY <1>1, WFMin
<1>3. ASSUME NEW n \in S PROVE m <= n
  <2>1. ~(n < m)
    BY <1>2
  <2> QED BY <2>1
<1> QED BY <1>3

\* What MapThenSumSet adds up, without the operator it takes: the sums of f over
\* the subsets of S, and over S.
Chosen(s) == CHOOSE x \in s : TRUE
AddsUp(f, S, g) ==
    g = [s \in SUBSET S |-> IF s = {} THEN 0 ELSE f[Chosen(s)] + g[s \ {Chosen(s)}]]
Sums(f, S) == CHOOSE g : AddsUp(f, S, g)
SumOver(f, S) == Sums(f, S)[S]

\* Of sets that are not all alike, some are least: none of their subsets is one.
LEMMA LeastSet ==
    ASSUME NEW S, IsFiniteSet(S), NEW B \in SUBSET SUBSET S, B # {}
    PROVE  \E T \in B : \A U \in SUBSET T : U # T => U \notin B
<1> DEFINE sizes == {n \in Nat : \E T \in B : Cardinality(T) = n}
<1>1. \A T \in B : IsFiniteSet(T) /\ Cardinality(T) \in sizes
  BY FS_Subset, FS_CardinalityType
<1>2. PICK m \in sizes : \A n \in sizes : m <= n
  <2>1. sizes # {}
    BY <1>1
  <2> QED BY <2>1, HasMin
<1>3. PICK T \in B : Cardinality(T) = m
  OBVIOUS
<1>4. ASSUME NEW U \in SUBSET T, U # T, U \in B PROVE FALSE
  <2>1. Cardinality(U) < Cardinality(T)
    BY <1>1, <1>4, FS_Subset
  <2>2. m <= Cardinality(U) /\ Cardinality(U) \in Nat
    BY <1>1, <1>2, <1>4
  <2> QED BY <1>3, <2>1, <2>2
<1> QED BY <1>4

LEMMA ChosenIn ==
    ASSUME NEW s, s # {}
    PROVE  Chosen(s) \in s
BY DEF Chosen

LEMMA SumsExist ==
    ASSUME NEW f, NEW S, IsFiniteSet(S)
    PROVE  \E g : AddsUp(f, S, g)
<1> DEFINE Upto(n) == {s \in SUBSET S : Cardinality(s) <= n}
           Good(n) == \E g : g = [s \in Upto(n) |-> IF s = {} THEN 0
                                                    ELSE f[Chosen(s)] + g[s \ {Chosen(s)}]]
           bad == {n \in Nat : ~Good(n)}
<1>1. \A s \in SUBSET S : Cardinality(s) \in Nat /\ Cardinality(s) <= Cardinality(S) /\ IsFiniteSet(s)
  BY FS_Subset, FS_CardinalityType
<1>2. Good(0)
  <2> DEFINE g == [s \in Upto(0) |-> 0]
  <2>1. \A s \in Upto(0) : s = {}
    BY <1>1, FS_EmptySet
  <2>2. g = [s \in Upto(0) |-> IF s = {} THEN 0 ELSE f[Chosen(s)] + g[s \ {Chosen(s)}]]
    BY <2>1
  <2> QED BY <2>2
<1>3. ASSUME NEW n \in Nat, Good(n) PROVE Good(n + 1)
  <2>1. PICK g : g = [s \in Upto(n) |-> IF s = {} THEN 0
                                        ELSE f[Chosen(s)] + g[s \ {Chosen(s)}]]
    BY <1>3
  <2> DEFINE h == [s \in Upto(n + 1) |-> IF s = {} THEN 0
                                         ELSE f[Chosen(s)] + g[s \ {Chosen(s)}]]
  <2>2. ASSUME NEW s \in Upto(n + 1), s # {}
        PROVE  s \ {Chosen(s)} \in Upto(n) /\ s \ {Chosen(s)} \in Upto(n + 1)
    <3>1. Chosen(s) \in s
      BY <2>2, ChosenIn
    <3>2. Cardinality(s \ {Chosen(s)}) = Cardinality(s) - 1
      BY <1>1, <3>1, FS_RemoveElement
    <3> QED BY <1>1, <3>2
  <2>3. \A s \in Upto(n) : s \in Upto(n + 1) /\ h[s] = g[s]
    <3>1. \A s \in Upto(n) : s \in Upto(n + 1)
      BY <1>1
    <3> HIDE DEF Upto
    <3> QED BY <2>1, <3>1
  <2>4. h = [s \in Upto(n + 1) |-> IF s = {} THEN 0
                                   ELSE f[Chosen(s)] + h[s \ {Chosen(s)}]]
    <3> HIDE DEF Upto
    <3>1. \A s \in Upto(n + 1) : s # {} => h[s \ {Chosen(s)}] = g[s \ {Chosen(s)}]
      BY <2>2, <2>3
    <3> QED BY <3>1
  <2> QED BY <2>4
<1>4. bad = {}
  <2> HIDE DEF Good
  <2> SUFFICES ASSUME bad # {} PROVE FALSE
    OBVIOUS
  <2>1. PICK m \in bad : \A n \in bad : m <= n
    BY HasMin
  <2>2. m # 0 /\ m - 1 \in Nat /\ m - 1 \notin bad
    BY <1>2, <2>1
  <2>3. Good((m - 1) + 1) /\ (m - 1) + 1 = m
    BY <1>3, <2>2
  <2> QED BY <2>1, <2>3
<1>5. Good(Cardinality(S))
  <2> HIDE DEF Good
  <2> QED BY <1>1, <1>4
<1>6. Upto(Cardinality(S)) = SUBSET S
  BY <1>1
<1> HIDE DEF Upto
<1> QED BY <1>5, <1>6 DEF AddsUp

LEMMA SumsAddUp ==
    ASSUME NEW f, NEW S, IsFiniteSet(S)
    PROVE  AddsUp(f, S, Sums(f, S))
<1>1. \E g : AddsUp(f, S, g)
  BY SumsExist
<1> QED BY <1>1, Zenon DEF Sums

\* The sum over a set depends on f on that set alone.
LEMMA SumsAgree ==
    ASSUME NEW f, NEW h, NEW S, NEW R, IsFiniteSet(S), IsFiniteSet(R),
           NEW T \in SUBSET (S \cap R), \A x \in T : f[x] = h[x]
    PROVE  Sums(f, S)[T] = Sums(h, R)[T]
<1> DEFINE bad == {U \in SUBSET T : Sums(f, S)[U] # Sums(h, R)[U]}
<1> SUFFICES ASSUME bad # {} PROVE FALSE
  OBVIOUS
<1>1. IsFiniteSet(T)
  BY FS_Subset
<1>2. PICK U \in bad : \A V \in SUBSET U : V # U => V \notin bad
  <2>1. bad \in SUBSET SUBSET T
    OBVIOUS
  <2> HIDE DEF bad
  <2> QED BY <1>1, <2>1, LeastSet
<1>3. U \in SUBSET S /\ U \in SUBSET R
  OBVIOUS
<1>4. /\ U = {} => Sums(f, S)[U] = 0
      /\ U # {} => Sums(f, S)[U] = f[Chosen(U)] + Sums(f, S)[U \ {Chosen(U)}]
  <2>1. AddsUp(f, S, Sums(f, S))
    BY SumsAddUp
  <2> HIDE DEF bad
  <2> QED BY <1>3, <2>1 DEF AddsUp
<1>5. /\ U = {} => Sums(h, R)[U] = 0
      /\ U # {} => Sums(h, R)[U] = h[Chosen(U)] + Sums(h, R)[U \ {Chosen(U)}]
  <2>1. AddsUp(h, R, Sums(h, R))
    BY SumsAddUp
  <2> HIDE DEF bad
  <2> QED BY <1>3, <2>1 DEF AddsUp
<1>6. U # {} /\ Chosen(U) \in U
  BY <1>4, <1>5, ChosenIn
<1>7. Sums(f, S)[U \ {Chosen(U)}] = Sums(h, R)[U \ {Chosen(U)}]
  <2>1. U \ {Chosen(U)} \in SUBSET U /\ U \ {Chosen(U)} # U
    BY <1>6
  <2> QED BY <1>2, <2>1
<1>8. f[Chosen(U)] = h[Chosen(U)]
  BY <1>6
<1> QED BY <1>4, <1>5, <1>6, <1>7, <1>8

LEMMA SumEmpty == \A f : SumOver(f, {}) = 0
<1> SUFFICES ASSUME NEW f PROVE SumOver(f, {}) = 0
  OBVIOUS
<1>1. AddsUp(f, {}, Sums(f, {}))
  BY SumsAddUp, FS_EmptySet
<1> QED BY <1>1 DEF AddsUp, SumOver

LEMMA SumChosen ==
    ASSUME NEW f, NEW S, IsFiniteSet(S), S # {}
    PROVE  /\ Chosen(S) \in S
           /\ SumOver(f, S) = f[Chosen(S)] + SumOver(f, S \ {Chosen(S)})
<1>1. Chosen(S) \in S
  BY ChosenIn
<1>2. IsFiniteSet(S \ {Chosen(S)})
  BY FS_Subset
<1>3. Sums(f, S)[S \ {Chosen(S)}] = Sums(f, S \ {Chosen(S)})[S \ {Chosen(S)}]
  BY <1>2, SumsAgree
<1>4. Sums(f, S)[S] = f[Chosen(S)] + Sums(f, S)[S \ {Chosen(S)}]
  <2>1. AddsUp(f, S, Sums(f, S))
    BY SumsAddUp
  <2> QED BY <2>1 DEF AddsUp
<1> QED BY <1>1, <1>3, <1>4 DEF SumOver

LEMMA SumAgrees ==
    ASSUME NEW f, NEW h, NEW S, IsFiniteSet(S), \A x \in S : f[x] = h[x]
    PROVE  SumOver(f, S) = SumOver(h, S)
BY SumsAgree DEF SumOver

\* A sum of members of a set that is closed under addition is in it.
LEMMA SumIn ==
    ASSUME NEW f, NEW S, IsFiniteSet(S), NEW T, 0 \in T, \A a, b \in T : a + b \in T,
           \A x \in S : f[x] \in T
    PROVE  SumOver(f, S) \in T
<1> DEFINE bad == {U \in SUBSET S : SumOver(f, U) \notin T}
<1> SUFFICES ASSUME bad # {} PROVE FALSE
  OBVIOUS
<1>1. PICK U \in bad : \A V \in SUBSET U : V # U => V \notin bad
  <2>1. bad \in SUBSET SUBSET S
    OBVIOUS
  <2> HIDE DEF bad
  <2> QED BY <2>1, LeastSet
<1>2. U # {} /\ IsFiniteSet(U)
  <2>1. U \in SUBSET S /\ SumOver(f, U) \notin T
    OBVIOUS
  <2> HIDE DEF bad
  <2>2. SumOver(f, {}) = 0
    BY SumEmpty
  <2>3. IsFiniteSet(U)
    BY <2>1, FS_Subset
  <2> QED BY <2>1, <2>2, <2>3
<1>3. Chosen(U) \in U /\ SumOver(f, U) = f[Chosen(U)] + SumOver(f, U \ {Chosen(U)})
  BY <1>2, SumChosen
<1>4. SumOver(f, U \ {Chosen(U)}) \in T
  <2>1. U \ {Chosen(U)} \in SUBSET U /\ U \ {Chosen(U)} # U /\ U \ {Chosen(U)} \in SUBSET S
    BY <1>3
  <2> QED BY <1>1, <2>1
<1>5. f[Chosen(U)] \in T
  BY <1>3
<1> QED BY <1>3, <1>4, <1>5

LEMMA SumType ==
    ASSUME NEW f, NEW S, IsFiniteSet(S), \A x \in S : f[x] \in Int
    PROVE  SumOver(f, S) \in Int
<1>1. 0 \in Int /\ \A a, b \in Int : a + b \in Int
  OBVIOUS
<1> QED BY <1>1, SumIn

LEMMA SumNat ==
    ASSUME NEW f, NEW S, IsFiniteSet(S), \A x \in S : f[x] \in Nat
    PROVE  SumOver(f, S) \in Nat
<1>1. 0 \in Nat /\ \A a, b \in Nat : a + b \in Nat
  OBVIOUS
<1> QED BY <1>1, SumIn

\* Whichever element is taken out first.
LEMMA SumRemove ==
    ASSUME NEW f, NEW S, IsFiniteSet(S), \A y \in S : f[y] \in Int, NEW x \in S
    PROVE  SumOver(f, S) = f[x] + SumOver(f, S \ {x})
<1> DEFINE bad == {U \in SUBSET S : \E y \in U : SumOver(f, U) # f[y] + SumOver(f, U \ {y})}
<1> SUFFICES ASSUME bad # {} PROVE FALSE
  OBVIOUS
<1>1. PICK U \in bad : \A V \in SUBSET U : V # U => V \notin bad
  <2>1. bad \in SUBSET SUBSET S
    OBVIOUS
  <2> HIDE DEF bad
  <2> QED BY <2>1, LeastSet
<1>2. PICK y \in U : SumOver(f, U) # f[y] + SumOver(f, U \ {y})
  OBVIOUS
<1> DEFINE p == Chosen(U)
           rest == U \ {p, y}
<1>3. IsFiniteSet(U) /\ p \in U /\ SumOver(f, U) = f[p] + SumOver(f, U \ {p})
  <2>1. IsFiniteSet(U) /\ U # {}
    BY FS_Subset
  <2> QED BY <2>1, SumChosen
<1> HIDE DEF p
<1>4. p # y
  BY <1>2, <1>3
<1>5. SumOver(f, U \ {p}) = f[y] + SumOver(f, rest)
  <2>1. U \ {p} \in SUBSET U /\ U \ {p} # U /\ y \in U \ {p} /\ (U \ {p}) \ {y} = rest
    BY <1>3, <1>4
  <2>2. U \ {p} \notin bad
    BY <1>1, <2>1
  <2> QED BY <2>1, <2>2
<1>6. SumOver(f, U \ {y}) = f[p] + SumOver(f, rest)
  <2>1. U \ {y} \in SUBSET U /\ U \ {y} # U /\ p \in U \ {y} /\ (U \ {y}) \ {p} = rest
    BY <1>3, <1>4
  <2>2. U \ {y} \notin bad
    BY <1>1, <2>1
  <2> QED BY <2>1, <2>2
<1>7. SumOver(f, rest) \in Int /\ f[p] \in Int /\ f[y] \in Int
  <2>1. IsFiniteSet(rest) /\ \A z \in rest : f[z] \in Int
    BY <1>3, FS_Subset
  <2> QED BY <1>3, <2>1, SumType
<1> QED BY <1>2, <1>3, <1>5, <1>6, <1>7


LEMMA SumAdd ==
    ASSUME NEW f, NEW h, NEW S, IsFiniteSet(S), NEW x, x \notin S,
           \A y \in S \cup {x} : h[y] \in Int, \A y \in S : h[y] = f[y]
    PROVE  SumOver(h, S \cup {x}) = h[x] + SumOver(f, S)
<1>1. IsFiniteSet(S \cup {x}) /\ (S \cup {x}) \ {x} = S
  BY FS_AddElement
<1>2. SumOver(h, S \cup {x}) = h[x] + SumOver(h, (S \cup {x}) \ {x})
  BY <1>1, SumRemove
<1>3. SumOver(h, S) = SumOver(f, S)
  BY SumAgrees
<1> QED BY <1>1, <1>2, <1>3

LEMMA SumIsSumFunction == \A f : SumFunction(f) = SumOver(f, DOMAIN f)
  BY Zenon DEF SumFunction, SumFunctionOnSet, FoldFunctionOnSet, MapThenFoldSet, SumOver, Sums, AddsUp, Chosen

\* A sum is no less than another one the terms of which are matched by some of its
\* own that are no less.
LEMMA SumLeq ==
    ASSUME NEW f, NEW h, NEW S, NEW R, IsFiniteSet(S), IsFiniteSet(R),
           NEW m \in [S -> R], \A x, y \in S : m[x] = m[y] => x = y,
           \A x \in S : f[x] \in Nat /\ f[x] <= h[m[x]], \A y \in R : h[y] \in Nat
    PROVE  SumOver(f, S) <= SumOver(h, R)
<1> DEFINE Short(U, V) == ~(SumOver(f, U) <= SumOver(h, V))
           bad == {U \in SUBSET S : \E V \in SUBSET R : (\A x \in U : m[x] \in V) /\ Short(U, V)}
<1>1. ASSUME bad # {} PROVE FALSE
  <2>1. PICK U \in bad : \A V \in SUBSET U : V # U => V \notin bad
    <3>1. bad \in SUBSET SUBSET S
      OBVIOUS
    <3> HIDE DEF bad
    <3> QED BY <1>1, <3>1, LeastSet
  <2>2. PICK V \in SUBSET R : (\A x \in U : m[x] \in V) /\ Short(U, V)
    OBVIOUS
  <2>3. U \in SUBSET S
    OBVIOUS
  <2>4. \A W \in SUBSET U, X \in SUBSET R : W # U /\ (\A x \in W : m[x] \in X) => ~Short(W, X)
    BY <2>1, <2>3
  <2> HIDE DEF bad
  <2>5. IsFiniteSet(U) /\ IsFiniteSet(V)
    BY <2>3, FS_Subset
  <2>6. SumOver(h, V) \in Nat
    BY <2>5, SumNat
  <2>7. U # {}
    BY <2>2, <2>6, SumEmpty
  <2>8. Chosen(U) \in U /\ SumOver(f, U) = f[Chosen(U)] + SumOver(f, U \ {Chosen(U)})
    BY <2>5, <2>7, SumChosen
  <2> DEFINE p == Chosen(U)
             q == m[p]
  <2>9. q \in V /\ SumOver(h, V) = h[q] + SumOver(h, V \ {q})
    <3>1. q \in V /\ \A y \in V : h[y] \in Int
      BY <2>2, <2>8
    <3> HIDE DEF q
    <3> QED BY <2>5, <3>1, SumRemove
  <2>10. SumOver(f, U \ {p}) <= SumOver(h, V \ {q})
    <3>1. U \ {p} \in SUBSET U /\ U \ {p} # U /\ V \ {q} \in SUBSET R
      BY <2>8
    <3>2. \A x \in U \ {p} : m[x] \in V \ {q}
      BY <2>2, <2>3, <2>8
    <3> HIDE DEF Short, p, q
    <3>3. ~Short(U \ {p}, V \ {q})
      BY <2>4, <3>1, <3>2
    <3> QED BY <3>3 DEF Short
  <2>11. SumOver(f, U \ {p}) \in Nat /\ SumOver(h, V \ {q}) \in Nat
    <3>1. IsFiniteSet(U \ {p}) /\ IsFiniteSet(V \ {q})
      BY <2>5, FS_Subset
    <3>2. (\A x \in U \ {p} : f[x] \in Nat) /\ (\A y \in V \ {q} : h[y] \in Nat)
      BY <2>3
    <3> HIDE DEF p, q
    <3> QED BY <3>1, <3>2, SumNat
  <2>12. f[p] \in Nat /\ h[q] \in Nat /\ f[p] <= h[q]
    BY <2>3, <2>8
  <2> HIDE DEF p, q
  <2>13. SumOver(f, U) <= SumOver(h, V)
    BY <2>8, <2>9, <2>10, <2>11, <2>12 DEF p
  <2> QED BY <2>2, <2>13
<1>2. \A x \in S : m[x] \in R
  OBVIOUS
<1> HIDE DEF Short
<1>3. ~Short(S, R)
  BY <1>1, <1>2
<1> QED BY <1>3 DEF Short

\* Nothing is refused only if every check holds.
LEMMA NoneRefused ==
    ASSUME NEW checks, DOMAIN checks \subseteq Nat, FirstRefusal(checks) = "ok",
           \A i \in DOMAIN checks : checks[i].refusal # "ok"
    PROVE  \A i \in DOMAIN checks : checks[i].holds
<1> DEFINE failing == FailedChecks(checks)
<1>1. ASSUME failing # {} PROVE FALSE
  <2>1. \E m \in failing : \A n \in failing : m <= n
    BY <1>1, HasMin DEF FailedChecks
  <2>2. (CHOOSE i \in failing : \A j \in failing : i <= j) \in failing
    BY <2>1
  <2> QED BY <1>1, <2>2 DEF FirstRefusal, FailedChecks
<1> QED BY <1>1 DEF FailedChecks

-----------------------------------------------------------------------------
(* Findings and what they cost. *)

LEMMA Ranks ==
    /\ ToSet(Bins) = {"low", "medium", "high"}
    /\ Rank("low") = 1 /\ Rank("medium") = 2 /\ Rank("high") = 3
<1>1. DOMAIN Bins = 1..3 /\ Bins[1] = "low" /\ Bins[2] = "medium" /\ Bins[3] = "high"
  BY DEF Bins
<1>2. ToSet(Bins) = {"low", "medium", "high"}
  BY <1>1 DEF ToSet
<1>3. \A k \in 1..3 : k = 1 \/ k = 2 \/ k = 3
  OBVIOUS
<1>4. ASSUME NEW j \in 1..3 PROVE Rank(Bins[j]) = j
  <2>1. \A k \in 1..3 : Bins[k] = Bins[j] => k = j
    BY <1>1, <1>3, <1>4
  <2> QED BY <1>1, <2>1 DEF Rank
<1> QED BY <1>1, <1>2, <1>4

\* Findings the schema let through: their classes and bins are known, and no two of
\* them have one id.
Known(f) == f.class \in Classes /\ f.bin \in ToSet(Bins) /\ f.id \in Nat

Told(F) ==
    /\ IsFiniteSet(F)
    /\ \A f \in F : Known(f)
    /\ \A f, g \in F : f.id = g.id => f = g

\* f makes g's claim with more confidence, or under an id that comes first.
Beats(f, g) ==
    /\ Fingerprint(g) = Fingerprint(f)
    /\ Rank(g.bin) < Rank(f.bin) \/ (Rank(g.bin) = Rank(f.bin) /\ f.id <= g.id)

Best(F) == {f \in F : \A g \in F : Fingerprint(g) = Fingerprint(f) => Beats(f, g)}

LEMMA SurvivorsAreBest == ASSUME NEW seq PROVE Survivors(seq) = Best(ToSet(seq))
  BY Zenon DEF Survivors, Best, Beats

\* Every claim has a best finding, and only one.
LEMMA BestExists ==
    ASSUME NEW F, Told(F), NEW f \in F
    PROVE  \E t \in Best(F) : Fingerprint(t) = Fingerprint(f) /\ Rank(f.bin) <= Rank(t.bin)
<1> DEFINE claim == {g \in F : Fingerprint(g) = Fingerprint(f)}
           distances == {n \in 0..2 : \E g \in claim : n = 3 - Rank(g.bin)}
<1>1. \A g \in F : Rank(g.bin) \in 1..3 /\ g.id \in Nat
  BY Ranks DEF Told, Known
<1>2. PICK n \in distances : \A k \in distances : n <= k
  <2>1. 3 - Rank(f.bin) \in distances
    BY <1>1
  <2>2. distances \in SUBSET Nat
    OBVIOUS
  <2> HIDE DEF distances
  <2> QED BY <2>1, <2>2, HasMin
<1> DEFINE top == {g \in claim : Rank(g.bin) = 3 - n}
           ids == {i \in Nat : \E g \in top : g.id = i}
<1>3. \A g \in claim : Rank(g.bin) <= 3 - n
  <2> TAKE g \in claim
  <2>1. 3 - Rank(g.bin) \in distances
    BY <1>1
  <2> QED BY <1>1, <1>2, <2>1
<1>4. PICK i \in ids : \A j \in ids : i <= j
  <2>1. PICK g \in claim : n = 3 - Rank(g.bin)
    BY <1>2
  <2>2. g \in top /\ g.id \in ids
    BY <1>1, <2>1
  <2>3. ids \in SUBSET Nat
    OBVIOUS
  <2> HIDE DEF ids
  <2> QED BY <2>2, <2>3, HasMin
<1>5. PICK t \in top : t.id = i
  BY <1>4
<1>6. ASSUME NEW g \in F, Fingerprint(g) = Fingerprint(t) PROVE Beats(t, g)
  <2>1. g \in claim /\ t \in claim /\ Rank(t.bin) = 3 - n
    BY <1>5, <1>6
  <2>2. CASE Rank(g.bin) = 3 - n
    <3>1. g.id \in ids
      BY <1>1, <2>1, <2>2
    <3>2. t.id <= g.id
      BY <1>4, <1>5, <3>1
    <3> QED BY <1>6, <2>1, <2>2, <3>2 DEF Beats
  <2>3. CASE Rank(g.bin) # 3 - n
    <3>1. Rank(g.bin) < Rank(t.bin)
      BY <1>1, <1>3, <2>1, <2>3
    <3> QED BY <1>6, <3>1 DEF Beats
  <2> QED BY <2>2, <2>3
<1>7. t \in Best(F) /\ Fingerprint(t) = Fingerprint(f)
  BY <1>5, <1>6 DEF Best
<1>8. Rank(f.bin) <= Rank(t.bin)
  <2>1. f \in claim
    OBVIOUS
  <2>2. Rank(t.bin) = 3 - n
    BY <1>5
  <2> QED BY <1>3, <2>1, <2>2
<1> QED BY <1>7, <1>8

LEMMA BestUnique ==
    ASSUME NEW F, Told(F), NEW t \in Best(F), NEW u \in Best(F), Fingerprint(t) = Fingerprint(u)
    PROVE  t = u
<1>1. Beats(t, u) /\ Beats(u, t) /\ t \in F /\ u \in F
  BY DEF Best
<1>2. Rank(t.bin) \in Int /\ Rank(u.bin) \in Int /\ t.id \in Nat /\ u.id \in Nat
  BY <1>1, Ranks DEF Told, Known
<1>3. t.id = u.id
  BY <1>1, <1>2 DEF Beats
<1> QED BY <1>1, <1>3 DEF Told

\* The packaged map is valid: a finding costs a shard something between nothing and
\* its cap, or nothing if its class does not bear on the shard.
LEMMA MapIsValid ==
    ASSUME NEW c \in Classes, NEW b \in ToSet(Bins)
    PROVE  LET mapping == LockedMap.mappings[c] IN
           /\ DOMAIN mapping.deltas[b] = ToSet(mapping.shards)
           /\ ToSet(mapping.shards) \subseteq Shards
           /\ \A s \in ToSet(mapping.shards) : mapping.deltas[b][s] \in 0..LockedMap.caps[s]
<1> DEFINE ofMap == <<
        Check(DOMAIN LockedMap.caps = Shards /\ \A s \in Shards : LockedMap.caps[s] >= 0, "caps"),
        Check(DOMAIN LockedMap.mappings = Classes, "classes"),
        Check(\A k \in DOMAIN LockedMap.mappings :
                MappingRefusal(LockedMap.caps, LockedMap.mappings[k]) = "ok", "mapping")>>
<1>1. DOMAIN LockedMap.mappings = Classes /\ MappingRefusal(LockedMap.caps, LockedMap.mappings[c]) = "ok"
  <2>1. DOMAIN ofMap = 1..3 /\ \A i \in 1..3 : ofMap[i].refusal # "ok"
    BY DEF Check
  <2>2. FirstRefusal(ofMap) = "ok"
    BY LockedMapAssumption DEF MapRefusal
  <2>3. /\ ofMap[2].holds => DOMAIN LockedMap.mappings = Classes
        /\ ofMap[3].holds => \A k \in DOMAIN LockedMap.mappings :
                                MappingRefusal(LockedMap.caps, LockedMap.mappings[k]) = "ok"
    BY DEF Check
  <2> HIDE DEF ofMap
  <2>4. ofMap[2].holds /\ ofMap[3].holds
    BY <2>1, <2>2, NoneRefused
  <2> QED BY <2>3, <2>4
<1> DEFINE mapping == LockedMap.mappings[c]
           caps == LockedMap.caps
           ofMapping == <<
        Check(mapping.shards # << >> /\ Distinct(mapping.shards), "shards"),
        Check(ToSet(mapping.shards) \subseteq Shards, "shard_name"),
        Check(DOMAIN mapping.deltas = ToSet(Bins), "bins"),
        Check(\A d \in ToSet(Bins) : DOMAIN mapping.deltas[d] = ToSet(mapping.shards), "overlay_shards"),
        Check(\A d \in ToSet(Bins), s \in ToSet(mapping.shards) : mapping.deltas[d][s] \in 0..caps[s], "penalty")>>
<1> HIDE DEF mapping, caps
<1>2. DOMAIN ofMapping = 1..5 /\ \A i \in 1..5 : ofMapping[i].refusal # "ok"
  BY DEF Check
<1>3. FirstRefusal(ofMapping) = "ok"
  BY <1>1, Zenon DEF MappingRefusal, mapping, caps
<1>4. /\ ofMapping[2].holds => ToSet(mapping.shards) \subseteq Shards
      /\ ofMapping[4].holds => \A d \in ToSet(Bins) : DOMAIN mapping.deltas[d] = ToSet(mapping.shards)
      /\ ofMapping[5].holds =>
            \A d \in ToSet(Bins), s \in ToSet(mapping.shards) : mapping.deltas[d][s] \in 0..caps[s]
  BY DEF Check
<1> HIDE DEF ofMapping
<1>5. ofMapping[2].holds /\ ofMapping[4].holds /\ ofMapping[5].holds
  BY <1>2, <1>3, NoneRefused
<1> QED BY <1>4, <1>5 DEF mapping, caps

LEMMA PenaltyType ==
    ASSUME NEW f, Known(f), NEW s \in Shards
    PROVE  Penalty(f, s) \in Nat /\ (s \in Hard => Penalty(f, s) = 0)
<1> DEFINE mapping == LockedMap.mappings[f.class]
           deltas == mapping.deltas[f.bin]
<1>1. Penalty(f, s) = IF s \in DOMAIN deltas THEN deltas[s] ELSE 0
  BY Zenon DEF Penalty
<1>2. DOMAIN deltas = ToSet(mapping.shards) /\ \A t \in ToSet(mapping.shards) : deltas[t] \in 0..LockedMap.caps[t]
  BY MapIsValid DEF Known
<1>3. LockedMap.caps[s] \in Nat
  BY PackagedAssumption
<1>4. ToSet(mapping.shards) \cap Hard = {}
  BY PackagedAssumption DEF Known
<1> HIDE DEF deltas, mapping
<1>5. s \in DOMAIN deltas => deltas[s] \in Nat /\ s \notin Hard
  BY <1>2, <1>3, <1>4
<1> QED BY <1>1, <1>5

\* The same claim with more confidence costs no less.
LEMMA PenaltyGrows ==
    ASSUME NEW f, Known(f), NEW g, Known(g), Fingerprint(f) = Fingerprint(g),
           Rank(f.bin) <= Rank(g.bin), NEW s \in Shards
    PROVE  Penalty(f, s) <= Penalty(g, s)
<1>1. f.class = g.class /\ g.class \in Classes
  BY DEF Fingerprint, Known
<1> DEFINE mapping == LockedMap.mappings[g.class]
           before == mapping.deltas[f.bin]
           after == mapping.deltas[g.bin]
<1>2. /\ Penalty(f, s) = IF s \in DOMAIN before THEN before[s] ELSE 0
      /\ Penalty(g, s) = IF s \in DOMAIN after THEN after[s] ELSE 0
  BY <1>1, Zenon DEF Penalty
<1>3. DOMAIN before = ToSet(mapping.shards) /\ DOMAIN after = ToSet(mapping.shards)
  BY <1>1, MapIsValid DEF Known
<1>4. \A t \in ToSet(mapping.shards) : before[t] <= after[t]
  BY <1>1, PackagedAssumption DEF Known
<1> HIDE DEF before, after, mapping
<1> QED BY <1>2, <1>3, <1>4

\* What some findings cost a shard, before the cap.
Penalties(F, s) == [f \in Best(F) |-> Penalty(f, s)]
Cost(F, s) == SumOver(Penalties(F, s), Best(F))

Capped(cost, s) == IF cost < LockedMap.caps[s] THEN cost ELSE LockedMap.caps[s]

LEMMA OverlayIsCost ==
    ASSUME NEW seq, NEW s \in Shards
    PROVE  Overlay(seq)[s] = Capped(Cost(ToSet(seq), s), s)
<1>1. SumFunction(Penalties(ToSet(seq), s)) = Cost(ToSet(seq), s)
  BY SumIsSumFunction DEF Penalties, Cost
<1>2. SumFunction([f \in Survivors(seq) |-> Penalty(f, s)]) = Cost(ToSet(seq), s)
  BY <1>1, SurvivorsAreBest, Zenon DEF Penalties
<1>3. Overlay(seq)[s] = Capped(SumFunction([f \in Survivors(seq) |-> Penalty(f, s)]), s)
  BY Zenon DEF Overlay, Capped
<1> QED BY <1>2, <1>3

LEMMA CostType ==
    ASSUME NEW F, Told(F), NEW s \in Shards
    PROVE  Cost(F, s) \in Nat /\ (s \in Hard => Cost(F, s) = 0)
<1>1. IsFiniteSet(Best(F))
  BY FS_Subset DEF Told, Best
<1>2. \A f \in Best(F) : Penalties(F, s)[f] \in Nat /\ (s \in Hard => Penalties(F, s)[f] \in {0})
  BY PenaltyType DEF Told, Best, Penalties
<1>3. Cost(F, s) \in Nat
  BY <1>1, <1>2, SumNat DEF Cost
<1>4. ASSUME s \in Hard PROVE Cost(F, s) \in {0}
  <2>1. 0 \in {0} /\ \A a, b \in {0} : a + b \in {0}
    OBVIOUS
  <2> QED BY <1>1, <1>2, <1>4, <2>1, SumIn DEF Cost
<1> QED BY <1>3, <1>4

\* Findings cost no more than others that make the same claims with no less confidence.
LEMMA CostGrows ==
    ASSUME NEW F, Told(F), NEW G, Told(G), NEW s \in Shards,
           \A f \in F : \E g \in G : Fingerprint(f) = Fingerprint(g) /\ Rank(f.bin) <= Rank(g.bin)
    PROVE  Cost(F, s) <= Cost(G, s)
<1> DEFINE m == [f \in Best(F) |-> CHOOSE t \in Best(G) : Fingerprint(t) = Fingerprint(f)]
<1>1. \A f \in F : Rank(f.bin) \in Int
  BY Ranks DEF Told, Known
<1>2. \A g \in G : Rank(g.bin) \in Int
  BY Ranks DEF Told, Known
<1>3. Best(F) \subseteq F /\ Best(G) \subseteq G
  BY DEF Best
<1>4. ASSUME NEW f \in Best(F)
      PROVE  /\ m[f] \in Best(G) /\ Fingerprint(m[f]) = Fingerprint(f)
             /\ Rank(f.bin) <= Rank(m[f].bin)
  <2>1. PICK g \in G : Fingerprint(f) = Fingerprint(g) /\ Rank(f.bin) <= Rank(g.bin)
    BY <1>3
  <2>2. PICK t \in Best(G) : Fingerprint(t) = Fingerprint(g) /\ Rank(g.bin) <= Rank(t.bin)
    BY BestExists
  <2>3. m[f] \in Best(G) /\ Fingerprint(m[f]) = Fingerprint(f)
    BY <2>1, <2>2
  <2> HIDE DEF m
  <2>4. m[f] = t
    BY <2>1, <2>2, <2>3, BestUnique
  <2>5. Rank(f.bin) <= Rank(t.bin)
    BY <1>1, <1>2, <1>3, <2>1, <2>2
  <2> QED BY <2>3, <2>4, <2>5
<1>5. m \in [Best(F) -> Best(G)]
  BY <1>4
<1> HIDE DEF m
<1>6. \A f, g \in Best(F) : m[f] = m[g] => f = g
  <2> SUFFICES ASSUME NEW f \in Best(F), NEW g \in Best(F), m[f] = m[g] PROVE f = g
    OBVIOUS
  <2>1. Fingerprint(f) = Fingerprint(g)
    BY <1>4
  <2> QED BY <2>1, BestUnique
<1>7. \A f \in Best(F) : Penalties(F, s)[f] \in Nat /\ Penalties(F, s)[f] <= Penalties(G, s)[m[f]]
  <2> TAKE f \in Best(F)
  <2>1. Known(f) /\ Known(m[f])
    BY <1>3, <1>5 DEF Told
  <2>2. Penalty(f, s) \in Nat /\ Penalty(f, s) <= Penalty(m[f], s)
    BY <1>4, <2>1, PenaltyType, PenaltyGrows
  <2> QED BY <1>5, <2>2 DEF Penalties
<1>8. \A g \in Best(G) : Penalties(G, s)[g] \in Nat
  BY <1>3, PenaltyType DEF Told, Penalties
<1>9. IsFiniteSet(Best(F)) /\ IsFiniteSet(Best(G))
  BY <1>3, FS_Subset DEF Told
<1> QED BY <1>5, <1>6, <1>7, <1>8, <1>9, SumLeq DEF Cost

LEMMA OverlayType ==
    ASSUME NEW seq, Told(ToSet(seq)), NEW s \in Shards
    PROVE  Overlay(seq)[s] \in Nat /\ (s \in Hard => Overlay(seq)[s] = 0)
<1>1. LockedMap.caps[s] \in Nat
  BY PackagedAssumption
<1>2. Cost(ToSet(seq), s) \in Nat /\ (s \in Hard => Cost(ToSet(seq), s) = 0)
  BY CostType
<1> QED BY <1>1, <1>2, OverlayIsCost DEF Capped

LEMMA OverlayGrows ==
    ASSUME NEW before, Told(ToSet(before)), NEW after, Told(ToSet(after)), NEW s \in Shards,
           \A f \in ToSet(before) : \E g \in ToSet(after) :
                Fingerprint(f) = Fingerprint(g) /\ Rank(f.bin) <= Rank(g.bin)
    PROVE  Overlay(before)[s] <= Overlay(after)[s]
<1>1. LockedMap.caps[s] \in Nat
  BY PackagedAssumption
<1>2. Cost(ToSet(before), s) \in Nat /\ Cost(ToSet(after), s) \in Nat
  BY CostType
<1>3. Cost(ToSet(before), s) <= Cost(ToSet(after), s)
  BY CostGrows
<1> QED BY <1>1, <1>2, <1>3, OverlayIsCost DEF Capped

-----------------------------------------------------------------------------
(* What the rubrics say. *)

LEMMA SumIsSumOnSet == \A f, S : SumFunctionOnSet(f, S) = SumOver(f, S)
  BY Zenon DEF SumFunctionOnSet, FoldFunctionOnSet, MapThenFoldSet, SumOver, Sums, AddsUp, Chosen

LEMMA WeightsType ==
    ASSUME NEW s \in Shards, NEW f
    PROVE  /\ \A i \in DOMAIN Rubrics[s].criteria : Weights(s)[i] \in Nat /\ Weights(s)[i] > 0
           /\ DOMAIN Rubrics[s].criteria = 1..Len(Rubrics[s].criteria)
           /\ IsFiniteSet(FailedOf(s, f)) /\ FailedOf(s, f) \subseteq DOMAIN Rubrics[s].criteria
<1> DEFINE criteria == Rubrics[s].criteria
<1> DEFINE R == [id : CriterionIds, weight : Nat \ {0}]
<1>1. criteria \in Seq(R)
  BY PackagedAssumption
<1>7. \A r \in R : r.weight \in Nat /\ r.weight > 0
  OBVIOUS
<1> HIDE DEF criteria, R
<1>2. DOMAIN criteria = 1..Len(criteria) /\ Len(criteria) \in Nat
  BY <1>1
<1>3. \A i \in DOMAIN criteria : criteria[i].weight \in Nat /\ criteria[i].weight > 0
  <2>1. \A i \in DOMAIN criteria : criteria[i] \in R
    BY <1>1, <1>2
  <2> QED BY <1>7, <2>1
<1>4. FailedOf(s, f) \subseteq DOMAIN criteria
  BY DEF FailedOf, criteria
<1>5. IsFiniteSet(FailedOf(s, f))
  <2>1. IsFiniteSet(1..Len(criteria))
    BY <1>2, FS_Interval
  <2> QED BY <1>2, <1>4, <2>1, FS_Subset
<1>6. \A i \in DOMAIN criteria : Weights(s)[i] = criteria[i].weight
  BY DEF Weights, criteria
<1> QED BY <1>2, <1>3, <1>4, <1>5, <1>6 DEF criteria

\* What comes off for the criteria of f.
Loss(s, f) == SumOver(Weights(s), FailedOf(s, f))

LEMMA ScoreIsLoss == ASSUME NEW s, NEW f PROVE Score(s, f) = Clamped(Full - Loss(s, f))
  BY SumIsSumOnSet DEF Score, Loss

LEMMA LossType ==
    ASSUME NEW s \in Shards, NEW f
    PROVE  Loss(s, f) \in Nat /\ (Loss(s, f) > 0 <=> Listed(s) \cap f # {})
<1>1. \A i \in FailedOf(s, f) : Weights(s)[i] \in Nat /\ Weights(s)[i] > 0
  BY WeightsType
<1>2. IsFiniteSet(FailedOf(s, f))
  BY WeightsType
<1>3. Loss(s, f) \in Nat
  BY <1>1, <1>2, SumNat DEF Loss
<1>4. Listed(s) \cap f # {} <=> FailedOf(s, f) # {}
  BY WeightsType DEF Listed, FailedOf
<1>5. FailedOf(s, f) = {} => Loss(s, f) = 0
  BY SumEmpty DEF Loss
<1>6. ASSUME FailedOf(s, f) # {} PROVE Loss(s, f) > 0
  <2> DEFINE S == FailedOf(s, f)
             w == Weights(s)
  <2> HIDE DEF S, w
  <2>1. Chosen(S) \in S /\ SumOver(w, S) = w[Chosen(S)] + SumOver(w, S \ {Chosen(S)})
    BY <1>2, <1>6, SumChosen DEF S
  <2>2. SumOver(w, S \ {Chosen(S)}) \in Nat
    <3>1. IsFiniteSet(S \ {Chosen(S)}) /\ \A i \in S \ {Chosen(S)} : w[i] \in Nat
      BY <1>1, <1>2, FS_Subset DEF S, w
    <3> QED BY <3>1, SumNat
  <2>3. w[Chosen(S)] \in Nat /\ w[Chosen(S)] > 0
    BY <1>1, <2>1 DEF S, w
  <2>4. SumOver(w, S) > 0
    BY <2>1, <2>2, <2>3
  <2> QED BY <2>4 DEF Loss, S, w
<1> QED BY <1>3, <1>4, <1>5, <1>6

\* One failed criterion is enough to lose the full score.
LEMMA ScoreType ==
    ASSUME NEW s \in Shards, NEW f
    PROVE  Score(s, f) \in 0..Full /\ (Score(s, f) < Full <=> Listed(s) \cap f # {})
<1>1. Loss(s, f) \in Nat /\ (Loss(s, f) > 0 <=> Listed(s) \cap f # {})
  BY LossType
<1>2. Full = 100
  BY DEF Full
<1> QED BY <1>1, <1>2, ScoreIsLoss DEF Clamped

LEMMA ScoreGrows ==
    ASSUME NEW s \in Shards, NEW more, NEW fewer \in SUBSET more
    PROVE  Score(s, more) <= Score(s, fewer)
<1> DEFINE w == Weights(s)
           S == FailedOf(s, fewer)
           R == FailedOf(s, more)
           m == [i \in S |-> i]
<1>1. S \subseteq R
  BY DEF FailedOf
<1>2. IsFiniteSet(S) /\ IsFiniteSet(R) /\ \A i \in R : w[i] \in Nat
  BY WeightsType
<1> HIDE DEF w, S, R
<1>3. /\ m \in [S -> R] /\ \A i, j \in S : m[i] = m[j] => i = j
      /\ \A i \in S : w[i] \in Nat /\ w[i] <= w[m[i]]
  BY <1>1, <1>2
<1> HIDE DEF m
<1>4. SumOver(w, S) <= SumOver(w, R)
  BY <1>2, <1>3, SumLeq
<1>5. Loss(s, fewer) <= Loss(s, more)
  BY <1>4 DEF Loss, w, S, R
<1>6. Loss(s, fewer) \in Nat /\ Loss(s, more) \in Nat
  BY LossType
<1> QED BY <1>5, <1>6, ScoreIsLoss DEF Clamped, Full

-----------------------------------------------------------------------------
(* Rulings. *)

AllScores == [Shards -> 0..Full]

LEMMA FusedType ==
    ASSUME NEW det \in AllScores, NEW seq, Told(ToSet(seq)), NEW s \in Shards
    PROVE  /\ det[s] \in 0..Full
           /\ Fused(det, Overlay(seq))[s] =
                IF det[s] - Overlay(seq)[s] < 0 THEN 0 ELSE det[s] - Overlay(seq)[s]
           /\ Fused(det, Overlay(seq))[s] \in Int
           /\ s \in Hard => Fused(det, Overlay(seq))[s] = det[s]
<1>1. det[s] \in 0..Full
  BY DEF AllScores
<1>2. Overlay(seq)[s] \in Nat /\ (s \in Hard => Overlay(seq)[s] = 0)
  BY OverlayType
<1>3. Fused(det, Overlay(seq))[s] =
        IF det[s] - Overlay(seq)[s] < 0 THEN 0 ELSE det[s] - Overlay(seq)[s]
  BY DEF Fused
<1> QED BY <1>1, <1>2, <1>3 DEF Full

\* Arbitration counts as this module does.
LEMMA SameCardinality == \A S : A!Cardinality(S) = Cardinality(S)
  BY Zenon DEF A!Cardinality, Cardinality

\* A shard that scores no less fails no sooner, and where fewer shards fail the ruling
\* is no harsher.
LEMMA VerdictGrows ==
    ASSUME NEW det \in AllScores, NEW better \in AllScores,
           NEW seq, Told(ToSet(seq)), NEW fewer, Told(ToSet(fewer)),
           \A s \in Shards : det[s] <= better[s] /\ Overlay(fewer)[s] <= Overlay(seq)[s]
    PROVE  NoHarsher(Verdict(det, seq), Verdict(better, fewer))
<1> DEFINE before == Fused(det, Overlay(seq))
           after == Fused(better, Overlay(fewer))
<1>1. ASSUME NEW s \in Shards PROVE before[s] \in Int /\ after[s] \in Int /\ before[s] <= after[s]
  <2>1. Overlay(seq)[s] \in Nat /\ Overlay(fewer)[s] \in Nat
    BY OverlayType
  <2>2. /\ det[s] \in Int /\ better[s] \in Int
        /\ before[s] = IF det[s] - Overlay(seq)[s] < 0 THEN 0 ELSE det[s] - Overlay(seq)[s]
        /\ after[s] = IF better[s] - Overlay(fewer)[s] < 0 THEN 0 ELSE better[s] - Overlay(fewer)[s]
    BY FusedType DEF Full
  <2> HIDE DEF before, after
  <2> QED BY <2>1, <2>2
<1> HIDE DEF before, after
<1>2. \A s \in Shards : Rubrics[s].threshold \in Int
  BY PackagedAssumption
<1>3. Failing(after) \subseteq Failing(before)
  BY <1>1, <1>2 DEF Failing, Passes
<1>4. A!HardFailing(Failing(after)) \subseteq A!HardFailing(Failing(before))
  BY <1>3 DEF A!HardFailing
<1>5. /\ IsFiniteSet(A!HardFailing(Failing(before)))
      /\ Cardinality(A!HardFailing(Failing(after))) <= Cardinality(A!HardFailing(Failing(before)))
      /\ Cardinality(A!HardFailing(Failing(before))) \in Nat
      /\ Cardinality(A!HardFailing(Failing(after))) \in Nat
  <2>1. IsFiniteSet(A!HardFailing(Failing(before)))
    BY PackagedAssumption, FS_Subset DEF A!HardFailing, Failing
  <2> QED BY <1>4, <2>1, FS_Subset, FS_CardinalityType
<1>6. A!Irreconcilable(Failing(after)) => A!Irreconcilable(Failing(before))
  <2> DEFINE pairs == Pairs(conflictsWith)
             hard == A!HardFailing(Failing(before))
             left == A!HardFailing(Failing(after))
  <2>1. /\ A!Irreconcilable(Failing(before)) =
              (Cardinality(hard) >= 2 /\ \E pair \in pairs : pair \subseteq hard)
        /\ A!Irreconcilable(Failing(after)) =
              (Cardinality(left) >= 2 /\ \E pair \in pairs : pair \subseteq left)
    BY SameCardinality DEF A!Irreconcilable
  <2> HIDE DEF pairs, hard, left
  <2>2. Cardinality(left) >= 2 => Cardinality(hard) >= 2
    BY <1>5 DEF hard, left
  <2>3. left \subseteq hard
    BY <1>4 DEF hard, left
  <2> QED BY <2>1, <2>2, <2>3
<1>7. /\ Verdict(det, seq).targets = Failing(before)
      /\ Verdict(better, fewer).targets = Failing(after)
      /\ Verdict(det, seq).irreconcilable = A!Irreconcilable(Failing(before))
      /\ Verdict(better, fewer).irreconcilable = A!Irreconcilable(Failing(after))
  BY Zenon DEF Verdict, A!Arbitrate, before, after
<1> QED BY <1>3, <1>6, <1>7 DEF NoHarsher

LEMMA VetoIsHard ==
    ASSUME NEW det \in AllScores, NEW seq, Told(ToSet(seq))
    PROVE  Verdict(det, seq).veto <=> \E s \in Hard : det[s] < Full
<1> DEFINE fused == Fused(det, Overlay(seq))
<1>1. Verdict(det, seq).veto = (A!HardFailing(Failing(fused)) # {})
  BY Zenon DEF Verdict, A!Arbitrate
<1>2. \A s \in Hard : s \in Shards /\ fused[s] = det[s] /\ det[s] \in 0..Full
  BY FusedType DEF Hard
<1> HIDE DEF fused
<1>3. \A s \in Hard : Rubrics[s].threshold = Full
  BY PackagedAssumption
<1>4. \A s \in Hard : s \in Failing(fused) <=> det[s] < Full
  BY <1>2, <1>3 DEF Failing, Passes, Full
<1> QED BY <1>1, <1>4 DEF A!HardFailing

-----------------------------------------------------------------------------
(* What an examiner said. *)

\* Findings of an answer that was accepted.
Evidence(seq) ==
    /\ seq \in Seq(ToSet(seq))
    /\ Told(ToSet(seq))
    /\ \A f \in ToSet(seq) : {"id", "class", "bin", "start", "end"} \subseteq DOMAIN f

LEMMA ListedFinite ==
    ASSUME NEW seq, seq \in Seq(ToSet(seq))
    PROVE  IsFiniteSet(ToSet(seq))
<1>1. DOMAIN seq = 1..Len(seq) /\ IsFiniteSet(1..Len(seq))
  BY FS_Interval
<1>2. seq \in Surjection(DOMAIN seq, ToSet(seq))
  BY DEF Surjection, ToSet
<1> QED BY <1>1, <1>2, FS_Surjection

LEMMA FindingIsKnown ==
    ASSUME NEW f, FindingRefusal(f) = "ok", f.id \in Nat
    PROVE  Known(f)
<1> DEFINE checks == <<
        Check(f.keys # "smuggled", "policy_field"),
        Check(f.keys = "exact", "fields"),
        Check(f.class \in Classes, "class"),
        Check(f.bin \in ToSet(Bins), "bin"),
        Check(f.start < f.end /\ f.start >= 0, "span"),
        Check(f.code \in Codes, "code"),
        Check(ToSet(f.signals) \subseteq Signals /\ Distinct(f.signals), "signal")>>
<1>1. DOMAIN checks = 1..7 /\ \A i \in 1..7 : checks[i].refusal # "ok"
  BY DEF Check
<1>2. FirstRefusal(checks) = "ok"
  BY DEF FindingRefusal
<1>3. (checks[3].holds <=> f.class \in Classes) /\ (checks[4].holds <=> f.bin \in ToSet(Bins))
  BY DEF Check
<1> HIDE DEF checks
<1>4. checks[3].holds /\ checks[4].holds
  BY <1>1, <1>2, NoneRefused
<1> QED BY <1>3, <1>4 DEF Known

LEMMA PayloadIsEvidence ==
    ASSUME NEW p, PayloadRefusal(p) = "ok", p.findings \in Seq(ToSet(p.findings)),
           \A f \in ToSet(p.findings) :
                {"id", "class", "bin", "start", "end"} \subseteq DOMAIN f /\ f.id \in Nat
    PROVE  Evidence(p.findings)
<1> DEFINE checks == <<
        Check(p.keys # "smuggled" /\ \A f \in ToSet(p.findings) : f.keys # "smuggled", "policy_field"),
        Check(p.keys = "exact", "fields"),
        Check(p.schema = "current", "schema"),
        Check(p.status \in Statuses, "status"),
        Check(p.status = "ok" \/ p.findings = << >>, "findings_of_failure"),
        Check(\A f \in ToSet(p.findings) : FindingRefusal(f) = "ok", "finding"),
        Check(Distinct(Ids(p.findings)), "duplicate_id"),
        Check(p.temperature = 0, "temperature")>>
<1>1. DOMAIN checks = 1..8 /\ \A i \in 1..8 : checks[i].refusal # "ok"
  BY DEF Check
<1>2. FirstRefusal(checks) = "ok"
  BY DEF PayloadRefusal
<1>3. /\ checks[6].holds <=> \A f \in ToSet(p.findings) : FindingRefusal(f) = "ok"
      /\ checks[7].holds <=> Distinct(Ids(p.findings))
  BY DEF Check
<1> HIDE DEF checks
<1>8. DOMAIN checks \subseteq Nat /\ 6 \in DOMAIN checks /\ 7 \in DOMAIN checks
  BY <1>1
<1>9. \A i \in DOMAIN checks : checks[i].refusal # "ok"
  BY <1>1
<1>4. checks[6].holds /\ checks[7].holds
  BY <1>2, <1>8, <1>9, NoneRefused
<1>5. \A f \in ToSet(p.findings) : Known(f)
  BY <1>3, <1>4, FindingIsKnown
<1>6. ASSUME NEW f \in ToSet(p.findings), NEW g \in ToSet(p.findings), f.id = g.id PROVE f = g
  <2>1. PICK j, k \in DOMAIN p.findings : f = p.findings[j] /\ g = p.findings[k]
    BY DEF ToSet
  <2>2. j = k
    BY <1>3, <1>4, <1>6, <2>1 DEF Distinct, Ids, IsInjective
  <2> QED BY <2>1, <2>2
<1>7. IsFiniteSet(ToSet(p.findings))
  BY ListedFinite
<1> QED BY <1>5, <1>6, <1>7 DEF Evidence, Told

\* What the examiner's answer must have been for its findings to go on.
Heeded(r, seq) ==
    /\ r.status = "ok" /\ r.payload.status = "ok" /\ r.payload.pins = "echoed"
    /\ seq = r.payload.findings
    /\ \A f \in ToSet(seq) : f.quote = SubSeq(Candidate, f.start + 1, f.end)

LEMMA HeardIsHeeded ==
    ASSUME NEW r \in Results, Heard(r) = "ok"
    PROVE  r.payload # Absent /\ Heeded(r, r.payload.findings) /\ Evidence(r.payload.findings)
<1>1. ObserveRefusal(r) = "ok" /\ r.status = "ok"
  BY DEF Heard
<1>2. r.payload # Absent /\ AcceptRefusal(r) = "ok"
  BY <1>1 DEF ObserveRefusal
<1> DEFINE checks == <<
        Check(r.payload.status = r.status, "status_disagrees"),
        Check(r.payload.pins = "echoed", "pins"),
        Check(BindRefusal(r.payload) = "ok", "quote")>>
<1>3. DOMAIN checks = 1..3 /\ \A i \in 1..3 : checks[i].refusal # "ok"
  BY DEF Check
<1>4. PayloadRefusal(r.payload) = "ok" /\ FirstRefusal(checks) = "ok"
  BY <1>2 DEF AcceptRefusal
<1>5. /\ checks[1].holds <=> r.payload.status = r.status
      /\ checks[2].holds <=> r.payload.pins = "echoed"
      /\ checks[3].holds <=> BindRefusal(r.payload) = "ok"
  BY DEF Check
<1> HIDE DEF checks
<1>6. checks[1].holds /\ checks[2].holds /\ checks[3].holds
  BY <1>3, <1>4, NoneRefused
<1>7. \A f \in ToSet(r.payload.findings) : f.quote = SubSeq(Candidate, f.start + 1, f.end)
  BY <1>5, <1>6 DEF BindRefusal, QuotesCandidate
<1>8. Evidence(r.payload.findings)
  BY <1>2, <1>4, PayloadIsEvidence, InputsAssumption
<1> QED BY <1>1, <1>2, <1>5, <1>6, <1>7, <1>8 DEF Heeded

\* What passes the wall is a score for every shard.
LEMMA WallHolds ==
    ASSUME NEW answer, WallRefusal(answer) = "ok"
    PROVE  Overlaid(answer) \in AllScores
<1> DEFINE checks == <<
        Check(Distinct(ShardsOf(answer)) /\ ToSet(ShardsOf(answer)) = Shards, "shards"),
        Check(\A k \in DOMAIN answer : answer[k].score # NaN, "not_finite"),
        Check(\A k \in DOMAIN answer : answer[k].score \in 0..Full, "range")>>
<1>1. DOMAIN checks = 1..3 /\ \A i \in 1..3 : checks[i].refusal # "ok"
  BY DEF Check
<1>2. FirstRefusal(checks) = "ok"
  BY DEF WallRefusal
<1>3. /\ checks[1].holds => ToSet(ShardsOf(answer)) = Shards
      /\ checks[3].holds => \A k \in DOMAIN answer : answer[k].score \in 0..Full
  BY DEF Check
<1> HIDE DEF checks
<1>4. checks[1].holds /\ checks[3].holds
  BY <1>1, <1>2, NoneRefused
<1>5. ASSUME NEW s \in Shards PROVE ScoreIn(answer, s) \in 0..Full
  <2>1. \E k \in DOMAIN answer : answer[k].shard = s
    BY <1>3, <1>4 DEF ShardsOf, ToSet
  <2> DEFINE k == CHOOSE j \in DOMAIN answer : answer[j].shard = s
  <2>2. k \in DOMAIN answer
    BY <2>1
  <2>3. ScoreIn(answer, s) = answer[k].score
    BY Zenon DEF ScoreIn
  <2> HIDE DEF k
  <2> QED BY <1>3, <1>4, <2>2, <2>3
<1> QED BY <1>5 DEF Overlaid, AllScores

-----------------------------------------------------------------------------
(* The invariant. *)

\* By the time a text is ruled on its scores passed the wall and are those of the
\* frozen evaluator unless the caller brought one, and the findings, none off the
\* hybrid path, are those of an answer that was accepted.
ScoredInv ==
    stage \in {"observe", "fuse", "arbitrate", "ruled"} =>
        /\ scored \in AllScores
        /\ evaluator.kind # "custom" => scored = FrozenScores(failed)

FindingsInv ==
    /\ Evidence(findings)
    /\ stage \in {"bind", "evaluate"} => findings = << >>
    /\ stage \in {"observe", "fuse"} => way = "hybrid"
    /\ stage \in {"fuse", "arbitrate", "ruled"} /\ way = "hybrid" => Heeded(result, findings)

IInv == ScoredInv /\ FindingsInv /\ (stage = "ruled" => outcome = Verdict(scored, findings))

LEMMA FrozenScored == ASSUME NEW f PROVE FrozenScores(f) \in AllScores
  BY ScoreType DEF FrozenScores, AllScores

LEMMA NoEvidence == Evidence(<< >>)
<1>1. ToSet(<< >>) = {} /\ << >> \in Seq({})
  BY DEF ToSet
<1> QED BY <1>1, FS_EmptySet DEF Evidence, Told

LEMMA InitInv == Init => IInv
  BY NoEvidence DEF Init, IInv, ScoredInv, FindingsInv

LEMMA NextInv == IInv /\ [Next]_vars => IInv'
<1> SUFFICES ASSUME IInv, [Next]_vars PROVE IInv'
  OBVIOUS
<1>1. CASE Bind
  <2>1. /\ stage = "bind" /\ stage' \in {"evaluate", "raised"}
        /\ UNCHANGED <<way, evaluator, failed, scored, result, findings>>
    BY <1>1 DEF Bind, Raise
  <2> QED BY <2>1 DEF IInv, ScoredInv, FindingsInv
<1>2. CASE EvaluateFrozen
  <2>1. /\ stage = "evaluate" /\ stage' = (IF way = "hybrid" THEN "observe" ELSE "arbitrate")
        /\ scored' = FrozenScores(failed')
        /\ UNCHANGED <<way, evaluator, result, findings>>
    BY <1>2 DEF EvaluateFrozen, Scored
  <2>2. FrozenScores(failed') = FrozenScores(failed)'
    BY DEF FrozenScores
  <2> QED BY <2>1, <2>2, FrozenScored DEF IInv, ScoredInv, FindingsInv
<1>3. CASE EvaluateCustom
  <2>1. /\ stage = "evaluate" /\ evaluator.kind = "custom"
        /\ UNCHANGED <<way, evaluator, failed, result, findings>>
    BY <1>3 DEF EvaluateCustom
  <2>2. CASE WallRefusal(evaluator.answers[2]) # "ok"
    <3>1. stage' = "raised"
      BY <1>3, <2>2 DEF EvaluateCustom, Raise
    <3> QED BY <2>1, <3>1 DEF IInv, ScoredInv, FindingsInv
  <2>3. CASE WallRefusal(evaluator.answers[2]) = "ok"
    <3>1. /\ scored' = Overlaid(evaluator.answers[2])
          /\ stage' = IF way = "hybrid" THEN "observe" ELSE "arbitrate"
      BY <1>3, <2>3 DEF EvaluateCustom, Scored
    <3>2. scored' \in AllScores
      BY <2>3, <3>1, WallHolds
    <3> QED BY <2>1, <3>1, <3>2 DEF IInv, ScoredInv, FindingsInv
  <2> QED BY <2>2, <2>3
<1>4. CASE Observe
  <2>1. /\ stage = "observe" /\ way = "hybrid" /\ result' \in Results
        /\ UNCHANGED <<way, evaluator, conflictsWith, failed, scored, outcome>>
    BY <1>4 DEF Observe, IInv, FindingsInv
  <2>2. CASE Heard(result') # "ok"
    <3>1. stage' = "raised" /\ findings' = findings
      BY <1>4, <2>2 DEF Observe, Raise
    <3> QED BY <2>1, <3>1 DEF IInv, ScoredInv, FindingsInv
  <2>3. CASE Heard(result') = "ok"
    <3>1. /\ result'.payload # Absent /\ Heeded(result', result'.payload.findings)
          /\ Evidence(result'.payload.findings)
      BY <2>1, <2>3, HeardIsHeeded
    <3>2. stage' = "fuse" /\ findings' = result'.payload.findings
      BY <1>4, <2>3, <3>1 DEF Observe
    <3> QED BY <2>1, <3>1, <3>2 DEF IInv, ScoredInv, FindingsInv
  <2> QED BY <2>2, <2>3
<1>5. CASE Fuse
  <2>1. /\ stage = "fuse" /\ stage' \in {"arbitrate", "raised"}
        /\ UNCHANGED <<way, evaluator, conflictsWith, failed, scored, result, findings, outcome>>
    BY <1>5 DEF Fuse, Raise
  <2> QED BY <2>1 DEF IInv, ScoredInv, FindingsInv
<1>6. CASE Rule
  <2>1. /\ stage = "arbitrate" /\ stage' = "ruled" /\ outcome' = Verdict(scored, findings)
        /\ UNCHANGED <<way, evaluator, conflictsWith, failed, scored, result, findings>>
    BY <1>6 DEF Rule
  <2>2. Verdict(scored, findings)' = Verdict(scored, findings)
    BY <2>1 DEF Verdict, A!Arbitrate, A!Irreconcilable, A!HardFailing
  <2> QED BY <2>1, <2>2 DEF IInv, ScoredInv, FindingsInv
<1>7. CASE UNCHANGED vars
  <2>1. Verdict(scored, findings)' = Verdict(scored, findings)
    BY <1>7 DEF vars, Verdict, A!Arbitrate, A!Irreconcilable, A!HardFailing
  <2> QED BY <1>7, <2>1 DEF vars, IInv, ScoredInv, FindingsInv
<1> QED BY <1>1, <1>2, <1>3, <1>4, <1>5, <1>6, <1>7 DEF Next

LEMMA JudgementInv == Spec => []IInv
  BY InitInv, NextInv, PTL DEF Spec

-----------------------------------------------------------------------------
(* The rulings. *)

\* A text is ruled on with scores behind the wall and with evidence, if any.
LEMMA RuledOn ==
    ASSUME IInv, Ruled
    PROVE  /\ scored \in AllScores /\ Told(ToSet(findings)) /\ outcome = Verdict(scored, findings)
           /\ evaluator.kind # "custom" => scored = FrozenScores(failed)
  BY DEF IInv, Ruled, ScoredInv, FindingsInv, Evidence

\* A veto means a hard shard below full score, and for the frozen evaluator a failed
\* criterion of one; findings have no say (arbitration.py, evaluator_wall.py).
THEOREM JudgementVetoes == Spec => []HardCriterionVetoes
<1>1. ASSUME IInv, Ruled
      PROVE  /\ outcome.veto <=> \E s \in Hard : scored[s] < Full
             /\ evaluator.kind # "custom" =>
                  (outcome.veto <=> \E s \in Hard : Listed(s) \cap failed # {})
  <2>1. outcome.veto <=> \E s \in Hard : scored[s] < Full
    BY <1>1, RuledOn, VetoIsHard
  <2>2. ASSUME evaluator.kind # "custom", NEW s \in Hard
        PROVE  scored[s] < Full <=> Listed(s) \cap failed # {}
    <3>1. s \in Shards /\ scored[s] = Score(s, failed)
      BY <1>1, <2>2, RuledOn DEF FrozenScores, Hard
    <3> QED BY <3>1, ScoreType
  <2> QED BY <2>1, <2>2
<1>2. IInv => HardCriterionVetoes
  BY <1>1 DEF HardCriterionVetoes
<1> QED BY <1>2, JudgementInv, PTL

\* What is left when one finding is taken away was there before.
LEMMA RemovedIsThere ==
    ASSUME NEW seq, Evidence(seq), NEW k \in DOMAIN seq
    PROVE  ToSet(RemoveAt(seq, k)) \subseteq ToSet(seq)
<1> DEFINE front == SubSeq(seq, 1, k - 1)
           back == SubSeq(seq, k + 1, Len(seq))
           T == ToSet(seq)
<1>1. seq \in Seq(T) /\ k \in 1..Len(seq)
  BY DEF Evidence
<1> HIDE DEF T
<1>2. front \in Seq(T) /\ back \in Seq(T)
  BY <1>1, SubSeqProperties
<1>3. RemoveAt(seq, k) \in Seq(T)
  BY <1>2, ConcatProperties DEF RemoveAt
<1> DEFINE left == RemoveAt(seq, k)
<1> HIDE DEF left
<1>4. left \in Seq(T)
  BY <1>3 DEF left
<1>5. \A i \in DOMAIN left : left[i] \in T
  BY <1>4
<1> QED BY <1>5 DEF ToSet, left, T

\* One failure less makes a ruling no harsher: a repaired criterion costs no shard a
\* point, and a finding that is gone leaves the claims of the others as they were
\* (shard_evaluator.py, semantic_fuse.py, arbitration.py).
THEOREM JudgementRepairs == Spec => []RepairNeverHurts
<1>1. ASSUME IInv, Ruled, evaluator.kind # "custom", NEW id \in failed
      PROVE  NoHarsher(outcome, Verdict(FrozenScores(failed \ {id}), findings))
  <2> DEFINE better == FrozenScores(failed \ {id})
  <2>1. /\ scored \in AllScores /\ better \in AllScores /\ Told(ToSet(findings))
        /\ outcome = Verdict(scored, findings)
    BY <1>1, RuledOn, FrozenScored
  <2>2. ASSUME NEW s \in Shards
        PROVE  scored[s] <= better[s] /\ Overlay(findings)[s] <= Overlay(findings)[s]
    <3>1. scored[s] = Score(s, failed) /\ better[s] = Score(s, failed \ {id})
      BY <1>1, RuledOn DEF FrozenScores
    <3>2. Overlay(findings)[s] \in Nat
      BY <2>1, OverlayType
    <3> QED BY <3>1, <3>2, ScoreGrows
  <2> HIDE DEF better
  <2>3. NoHarsher(Verdict(scored, findings), Verdict(better, findings))
    BY <2>1, <2>2, VerdictGrows
  <2> QED BY <2>1, <2>3 DEF better
<1>2. ASSUME IInv, Ruled, NEW k \in DOMAIN findings
      PROVE  NoHarsher(outcome, Verdict(scored, RemoveAt(findings, k)))
  <2> DEFINE left == RemoveAt(findings, k)
  <2>1. /\ scored \in AllScores /\ Told(ToSet(findings)) /\ outcome = Verdict(scored, findings)
    BY <1>2, RuledOn
  <2>2. ToSet(left) \subseteq ToSet(findings)
    BY <1>2, RemovedIsThere DEF IInv, FindingsInv
  <2> HIDE DEF left
  <2>3. Told(ToSet(left))
    BY <2>1, <2>2, FS_Subset DEF Told
  <2>4. \A f \in ToSet(findings) : Rank(f.bin) <= Rank(f.bin)
    BY <2>1, Ranks DEF Told, Known
  <2>5. ASSUME NEW s \in Shards
        PROVE  scored[s] <= scored[s] /\ Overlay(left)[s] <= Overlay(findings)[s]
    <3>1. Overlay(left)[s] <= Overlay(findings)[s]
      BY <2>1, <2>2, <2>3, <2>4, OverlayGrows
    <3> QED BY <2>1, <3>1 DEF AllScores
  <2>6. NoHarsher(Verdict(scored, findings), Verdict(scored, left))
    BY <2>1, <2>3, <2>5, VerdictGrows
  <2> QED BY <2>1, <2>6 DEF left
<1>3. IInv => RepairNeverHurts
  BY <1>1, <1>2 DEF RepairNeverHurts
<1> QED BY <1>3, JudgementInv, PTL

\* A claim made again with no more confidence costs nothing.
LEMMA AgainIsNothing ==
    ASSUME NEW seq, Evidence(seq), NEW f \in ToSet(seq), NEW b \in ToSet(Bins), NEW id \in Nat,
           \A h \in ToSet(seq) : h.id # id, Rank(b) <= Rank(f.bin)
    PROVE  Overlay(Append(seq, [f EXCEPT !.bin = b, !.id = id])) = Overlay(seq)
<1> DEFINE g == [f EXCEPT !.bin = b, !.id = id]
           more == Append(seq, g)
<1>1. g.bin = b /\ g.id = id /\ g.class = f.class /\ g.start = f.start /\ g.end = f.end
  BY DEF Evidence
<1>2. Fingerprint(g) = Fingerprint(f) /\ Known(g)
  BY <1>1 DEF Fingerprint, Known, Evidence, Told
<1> HIDE DEF g
<1>3. ToSet(more) = ToSet(seq) \cup {g}
  <2> DEFINE T == ToSet(seq)
  <2>1. seq \in Seq(T)
    BY DEF Evidence
  <2> HIDE DEF T
  <2>2. /\ DOMAIN more = 1..Len(seq) + 1 /\ DOMAIN seq = 1..Len(seq) /\ Len(seq) \in Nat
        /\ more[Len(seq) + 1] = g
        /\ \A i \in 1..Len(seq) : more[i] = seq[i]
    BY <2>1
  <2> QED BY <2>2 DEF ToSet
<1>4. Told(ToSet(more))
  <2>1. IsFiniteSet(ToSet(seq) \cup {g})
    BY FS_AddElement DEF Evidence, Told
  <2>2. Told(ToSet(seq))
    BY DEF Evidence
  <2> QED BY <1>1, <1>2, <1>3, <2>1, <2>2 DEF Told
<1> HIDE DEF more
<1>5. Told(ToSet(seq))
  BY DEF Evidence
<1>6. \A h \in ToSet(seq) : Rank(h.bin) <= Rank(h.bin)
  BY <1>5, Ranks DEF Told, Known
<1>7. ASSUME NEW s \in Shards PROVE Overlay(more)[s] = Overlay(seq)[s]
  <2>1. Overlay(seq)[s] <= Overlay(more)[s]
    BY <1>3, <1>4, <1>5, <1>6, OverlayGrows
  <2>2. \A h \in ToSet(more) : \E t \in ToSet(seq) :
            Fingerprint(h) = Fingerprint(t) /\ Rank(h.bin) <= Rank(t.bin)
    BY <1>1, <1>2, <1>3, <1>6
  <2>3. Overlay(more)[s] <= Overlay(seq)[s]
    BY <1>4, <1>5, <2>2, OverlayGrows
  <2>4. Overlay(more)[s] \in Nat /\ Overlay(seq)[s] \in Nat
    BY <1>4, <1>5, OverlayType
  <2> QED BY <2>1, <2>3, <2>4
<1>8. Overlay(more) = [s \in Shards |-> Overlay(more)[s]] /\ Overlay(seq) = [s \in Shards |-> Overlay(seq)[s]]
  BY DEF Overlay
<1> QED BY <1>7, <1>8 DEF more, g

\* Whatever the examiner repeats, the overlay is that of its distinct claims
\* (_dedupe_findings in semantic_fuse.py).
THEOREM JudgementClaims == Spec => []ClaimsCountOnce
<1>1. ASSUME IInv, Ruled, NEW f \in ToSet(findings), NEW b \in ToSet(Bins),
             NEW id \in (0..1 + Len(findings)) \ ToSet(Ids(findings)), Rank(b) <= Rank(f.bin)
      PROVE  Overlay(Append(findings, [f EXCEPT !.bin = b, !.id = id])) = Overlay(findings)
  <2>1. Evidence(findings)
    BY <1>1 DEF IInv, FindingsInv
  <2>2. id \in Nat
    OBVIOUS
  <2>3. \A h \in ToSet(findings) : h.id # id
    BY DEF Ids, ToSet
  <2> QED BY <1>1, <2>1, <2>2, <2>3, AgainIsNothing
<1>2. IInv => ClaimsCountOnce
  BY <1>1 DEF ClaimsCountOnce
<1> QED BY <1>2, JudgementInv, PTL

\* No hybrid ruling without an examiner that said ok of this very text
\* (semantic_examiner.py, hybrid.py).
THEOREM JudgementEvidence == Spec => []FailureIsNoEvidence
<1>1. IInv => FailureIsNoEvidence
  BY DEF IInv, FindingsInv, Heeded, FailureIsNoEvidence, Ruled
<1> QED BY <1>1, JudgementInv, PTL
=============================================================================
