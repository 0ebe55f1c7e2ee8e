---------------------------- MODULE SumTheorems ----------------------------
(***************************************************************************)
(* Facts about SumFunctionOnSet, the fold of addition over a finite set    *)
(* that states what vaults, receipts and ballots add up to.                *)
(*                                                                         *)
(* The induction theorems of the library quantify over an operator, which  *)
(* an SMT solver cannot instantiate.  The induction here is over a set of  *)
(* subsets instead: being a proper subset is well founded on the subsets   *)
(* of a finite set (FS_StrictSubsetOrderingWellFounded), so a nonempty set *)
(* of counterexamples has a smallest one (WFMin).                          *)
(***************************************************************************)
EXTENDS Functions, FiniteSetTheorems, TLAPS

\* Of the subsets of a finite set that have some property, one is smallest.
LEMMA SmallestSubset ==
  ASSUME NEW S, IsFiniteSet(S), NEW Bad \in SUBSET (SUBSET S), Bad # {}
  PROVE  \E T \in Bad : \A U \in Bad : ~(U \subseteq T /\ U # T)
<1>1. IsWellFoundedOn(StrictSubsetOrdering(S), SUBSET S)
  BY FS_StrictSubsetOrderingWellFounded, FS_FiniteSubsetsOfFinite
<1>2. PICK T \in Bad : \A U \in Bad : ~ (<<U, T>> \in StrictSubsetOrdering(S))
  BY <1>1, WFMin
<1>3. QED
  BY <1>2 DEF StrictSubsetOrdering

\* The element a fold takes first.
Pick(s) == CHOOSE x \in s : TRUE

\* g gives the sum of f over every subset of S.
Sums(f, S, g) ==
  g = [s \in SUBSET S |-> IF s = {} THEN 0 ELSE f[Pick(s)] + g[s \ {Pick(s)}]]

\* At most one: two such functions agree wherever both are defined.
LEMMA SumsAgree ==
  ASSUME NEW f, NEW T, IsFiniteSet(T), NEW U \in SUBSET T, NEW g, NEW h,
         Sums(f, T, g), Sums(f, U, h)
  PROVE  \A s \in SUBSET U : g[s] = h[s]
<1> DEFINE Bad == {s \in SUBSET U : g[s] # h[s]}
<1> SUFFICES ASSUME Bad # {} PROVE FALSE
  OBVIOUS
<1>1. IsFiniteSet(U)
  BY FS_Subset
<1>2. PICK s \in Bad : \A w \in Bad : ~(w \subseteq s /\ w # s)
  <2>1. Bad \in SUBSET (SUBSET U)
    OBVIOUS
  <2> HIDE DEF Bad
  <2>2. QED
    BY <1>1, <2>1, SmallestSubset
<1>3. s # {}
  BY <1>2 DEF Sums
<1>4. Pick(s) \in s
  BY <1>3 DEF Pick
<1>5. s \ {Pick(s)} \in SUBSET U /\ s \ {Pick(s)} # s
  BY <1>2, <1>4
<1>6. g[s \ {Pick(s)}] = h[s \ {Pick(s)}]
  BY <1>2, <1>5
<1>7. g[s] = f[Pick(s)] + g[s \ {Pick(s)}]
  BY <1>2, <1>3 DEF Sums
<1>8. h[s] = f[Pick(s)] + h[s \ {Pick(s)}]
  BY <1>2, <1>3 DEF Sums
<1>9. QED
  BY <1>2, <1>6, <1>7, <1>8

\* The community module defines the sum by that recursion.
LEMMA SumOnIsSums ==
  ASSUME NEW f, NEW S
  PROVE  SumFunctionOnSet(f, S) = (CHOOSE g : Sums(f, S, g))[S]
BY DEF SumFunctionOnSet, FoldFunctionOnSet, MapThenFoldSet, Sums, Pick
SumsOf(f, S) == CHOOSE g : Sums(f, S, g)

\* At least one: the recursion has a solution on every finite set.
LEMMA SumsExist ==
  ASSUME NEW f, NEW S, IsFiniteSet(S)
  PROVE  Sums(f, S, SumsOf(f, S))
<1> DEFINE Bad == {T \in SUBSET S : ~Sums(f, T, SumsOf(f, T))}
<1> SUFFICES ASSUME Bad # {} PROVE FALSE
  OBVIOUS
<1>1. PICK T \in Bad : \A U \in Bad : ~(U \subseteq T /\ U # T)
  <2>1. Bad \in SUBSET (SUBSET S)
    OBVIOUS
  <2> HIDE DEF Bad
  <2>2. QED
    BY <2>1, SmallestSubset
<1>2. IsFiniteSet(T)
  BY <1>1, FS_Subset
<1>3. \A U \in (SUBSET T) \ {T} : Sums(f, U, SumsOf(f, U))
  BY <1>1
<1> DEFINE sum(U) == SumsOf(f, U)[U]
           g      == [s \in SUBSET T |-> IF s = {} THEN 0
                        ELSE f[Pick(s)] + sum(s \ {Pick(s)})]
<1>4. ASSUME NEW s \in (SUBSET T) \ {T} PROVE g[s] = sum(s)
  <2>1. CASE s = {}
    <3>1. SumsOf(f, s)[s] = 0
      BY <1>3, <2>1 DEF Sums
    <3>2. QED
      BY <2>1, <3>1
  <2>2. CASE s # {}
    <3> DEFINE u == s \ {Pick(s)}
    <3>1. Pick(s) \in s
      BY <2>2 DEF Pick
    <3>2. u \in (SUBSET T) \ {T} /\ u \in SUBSET s /\ IsFiniteSet(s)
      BY <1>2, <3>1, FS_Subset
    <3>3. Sums(f, s, SumsOf(f, s)) /\ Sums(f, u, SumsOf(f, u))
      BY <1>3, <3>2
    <3>4. SumsOf(f, s)[u] = SumsOf(f, u)[u]
      <4> HIDE DEF u
      <4>1. QED
        BY <3>2, <3>3, SumsAgree
    <3>5. SumsOf(f, s)[s] = f[Pick(s)] + SumsOf(f, s)[u]
      BY <2>2, <3>3 DEF Sums
    <3>6. QED
      BY <2>2, <3>4, <3>5
  <2>3. QED
    BY <2>1, <2>2
<1>5. Sums(f, T, g)
  <2>1. ASSUME NEW s \in SUBSET T, s # {}
        PROVE  sum(s \ {Pick(s)}) = g[s \ {Pick(s)}]
    <3>1. Pick(s) \in s
      BY <2>1 DEF Pick
    <3>2. s \ {Pick(s)} \in (SUBSET T) \ {T}
      BY <3>1
    <3> HIDE DEF g, sum
    <3>3. QED
      BY <1>4, <3>2
  <2>2. QED
    BY <2>1 DEF Sums
<1>6. Sums(f, T, SumsOf(f, T))
  <2> HIDE DEF g
  <2>1. QED
    BY <1>5 DEF SumsOf
<1>7. QED
  BY <1>1, <1>6

\* So the sum over a set is what its recursion says it is.
LEMMA SumUnfolds ==
  ASSUME NEW f, NEW S, IsFiniteSet(S)
  PROVE  SumFunctionOnSet(f, S) =
           IF S = {} THEN 0
           ELSE f[Pick(S)] + SumFunctionOnSet(f, S \ {Pick(S)})
<1>1. \A T : SumFunctionOnSet(f, T) = SumsOf(f, T)[T]
  BY SumOnIsSums DEF SumsOf
<1>2. Sums(f, S, SumsOf(f, S))
  BY SumsExist
<1>3. CASE S = {}
  BY <1>1, <1>2, <1>3 DEF Sums
<1>4. CASE S # {}
  <2> DEFINE T == S \ {Pick(S)}
  <2>1. Pick(S) \in S
    BY <1>4 DEF Pick
  <2>2. T \in SUBSET S /\ IsFiniteSet(T)
    BY FS_Subset
  <2>3. Sums(f, T, SumsOf(f, T))
    BY <2>2, SumsExist
  <2>4. SumsOf(f, S)[T] = SumsOf(f, T)[T]
    <3> HIDE DEF T
    <3>1. QED
      BY <1>2, <2>2, <2>3, SumsAgree
  <2>5. SumsOf(f, S)[S] = f[Pick(S)] + SumsOf(f, S)[T]
    BY <1>2, <1>4 DEF Sums
  <2>6. QED
    BY <1>1, <1>4, <2>4, <2>5
<1>5. QED
  BY <1>3, <1>4
-----------------------------------------------------------------------------

\* Induction: what holds of {}, and of a set when it holds of the set without
\* one of its elements, holds of all subsets of a finite set.
LEMMA SubsetInduction ==
  ASSUME NEW S, IsFiniteSet(S), NEW Good,
         {} \in Good,
         \A T \in SUBSET S, x \in S : x \in T /\ T \ {x} \in Good => T \in Good
  PROVE  \A T \in SUBSET S : T \in Good
<1> DEFINE Bad == {T \in SUBSET S : T \notin Good}
<1> SUFFICES ASSUME Bad # {} PROVE FALSE
  OBVIOUS
<1>1. PICK T \in Bad : \A U \in Bad : ~(U \subseteq T /\ U # T)
  <2>1. Bad \in SUBSET (SUBSET S)
    OBVIOUS
  <2> HIDE DEF Bad
  <2>2. QED
    BY <2>1, SmallestSubset
<1>2. PICK x \in S : x \in T
  BY <1>1
<1>3. T \ {x} \in SUBSET S /\ T \ {x} \subseteq T /\ T \ {x} # T
  BY <1>1, <1>2
<1>4. QED
  BY <1>1, <1>2, <1>3

\* Nothing adds up to zero.
LEMMA SumEmpty ==
  ASSUME NEW f
  PROVE  SumFunctionOnSet(f, {}) = 0
BY SumUnfolds, FS_EmptySet

\* A sum of integers is an integer.
LEMMA SumInt ==
  ASSUME NEW f, NEW S, IsFiniteSet(S), \A x \in S : f[x] \in Int
  PROVE  SumFunctionOnSet(f, S) \in Int
<1> DEFINE Bad == {T \in SUBSET S : SumFunctionOnSet(f, T) \notin Int}
<1> SUFFICES ASSUME Bad # {} PROVE FALSE
  OBVIOUS
<1>1. PICK T \in Bad : \A U \in Bad : ~(U \subseteq T /\ U # T)
  <2>1. Bad \in SUBSET (SUBSET S)
    OBVIOUS
  <2> HIDE DEF Bad
  <2>2. QED
    BY <2>1, SmallestSubset
<1>2. IsFiniteSet(T)
  BY <1>1, FS_Subset
<1>3. ASSUME T = {} PROVE FALSE
  <2>1. SumFunctionOnSet(f, T) = 0
    BY <1>3, SumEmpty
  <2>2. QED
    BY <1>1, <2>1
<1>4. Pick(T) \in T
  BY <1>3 DEF Pick
<1>5. SumFunctionOnSet(f, T \ {Pick(T)}) \in Int
  BY <1>1, <1>4
<1>6. SumFunctionOnSet(f, T) = f[Pick(T)] + SumFunctionOnSet(f, T \ {Pick(T)})
  BY <1>2, <1>3, SumUnfolds
<1>7. QED
  BY <1>1, <1>4, <1>5, <1>6

\* The order of adding does not matter: any element may be taken out first.
LEMMA SumRemove ==
  ASSUME NEW f, NEW S, IsFiniteSet(S), \A x \in S : f[x] \in Int, NEW y \in S
  PROVE  SumFunctionOnSet(f, S) = f[y] + SumFunctionOnSet(f, S \ {y})
<1> DEFINE sum(T) == SumFunctionOnSet(f, T)
           Splits(T) == \A x \in T : sum(T) = f[x] + sum(T \ {x})
           Bad == {T \in SUBSET S : ~Splits(T)}
<1>1. \A T \in SUBSET S : IsFiniteSet(T) /\ sum(T) \in Int
  <2> SUFFICES ASSUME NEW T \in SUBSET S PROVE IsFiniteSet(T) /\ sum(T) \in Int
    OBVIOUS
  <2>1. IsFiniteSet(T)
    BY FS_Subset
  <2>2. QED
    BY <2>1, SumInt
<1>2. \A T \in SUBSET S : T # {} => Pick(T) \in T /\ sum(T) = f[Pick(T)] + sum(T \ {Pick(T)})
  <2> SUFFICES ASSUME NEW T \in SUBSET S, T # {}
               PROVE  Pick(T) \in T /\ sum(T) = f[Pick(T)] + sum(T \ {Pick(T)})
    OBVIOUS
  <2>1. Pick(T) \in T
    BY DEF Pick
  <2>2. QED
    BY <1>1, <2>1, SumUnfolds
<1> SUFFICES ASSUME Bad # {} PROVE FALSE
  OBVIOUS
<1>3. PICK T \in Bad : \A U \in Bad : ~(U \subseteq T /\ U # T)
  <2>1. Bad \in SUBSET (SUBSET S)
    OBVIOUS
  <2> HIDE DEF Bad
  <2>2. QED
    BY <2>1, SmallestSubset
<1>4. PICK x \in T : sum(T) # f[x] + sum(T \ {x})
  BY <1>3
<1> DEFINE p == Pick(T)
<1>5. p \in T /\ sum(T) = f[p] + sum(T \ {p}) /\ p # x
  BY <1>2, <1>3, <1>4
<1>6. \A U \in SUBSET S : U \subseteq T /\ U # T => Splits(U)
  BY <1>3
<1> HIDE DEF p
<1>7. /\ T \ {p} \in SUBSET S /\ T \ {p} \subseteq T /\ T \ {p} # T /\ x \in T \ {p}
      /\ T \ {x} \in SUBSET S /\ T \ {x} \subseteq T /\ T \ {x} # T /\ p \in T \ {x}
  BY <1>3, <1>4, <1>5
<1>8. sum(T \ {p}) = f[x] + sum((T \ {p}) \ {x})
  BY <1>6, <1>7
<1>9. sum(T \ {x}) = f[p] + sum((T \ {x}) \ {p})
  BY <1>6, <1>7
<1>10. (T \ {p}) \ {x} = (T \ {x}) \ {p} /\ (T \ {x}) \ {p} \in SUBSET S
  BY <1>3
<1>11. f[x] \in Int /\ f[p] \in Int /\ sum((T \ {x}) \ {p}) \in Int
  BY <1>1, <1>3, <1>4, <1>5, <1>10
<1> DEFINE rest == sum((T \ {x}) \ {p})
<1>12. sum(T) = f[p] + (f[x] + rest)
  BY <1>5, <1>8, <1>10
<1>13. f[x] + sum(T \ {x}) = f[x] + (f[p] + rest)
  BY <1>9
<1>14. rest \in Int
  BY <1>11
<1> HIDE DEF rest, sum
<1>15. f[p] + (f[x] + rest) = f[x] + (f[p] + rest)
  BY <1>11, <1>14
<1>16. QED
  BY <1>4, <1>12, <1>13, <1>15

\* One more element adds its value.
LEMMA SumAdd ==
  ASSUME NEW f, NEW S, IsFiniteSet(S), \A x \in S : f[x] \in Int,
         NEW y, y \notin S, f[y] \in Int
  PROVE  SumFunctionOnSet(f, S \cup {y}) = SumFunctionOnSet(f, S) + f[y]
<1> DEFINE T == S \cup {y}
<1>1. IsFiniteSet(T) /\ y \in T /\ T \ {y} = S /\ \A x \in T : f[x] \in Int
  BY FS_AddElement
<1>2. SumFunctionOnSet(f, S) \in Int
  BY SumInt
<1> HIDE DEF T
<1>3. SumFunctionOnSet(f, T) = f[y] + SumFunctionOnSet(f, S)
  BY <1>1, SumRemove
<1>4. QED
  BY <1>2, <1>3 DEF T

\* Functions that agree on a set have the same sum over it.
LEMMA SumSame ==
  ASSUME NEW f, NEW g, NEW S, IsFiniteSet(S),
         \A x \in S : f[x] \in Int /\ g[x] = f[x]
  PROVE  SumFunctionOnSet(g, S) = SumFunctionOnSet(f, S)
<1> DEFINE Good == {T \in SUBSET S : SumFunctionOnSet(g, T) = SumFunctionOnSet(f, T)}
<1>1. {} \in Good
  BY SumEmpty
<1>2. ASSUME NEW T \in SUBSET S, NEW x \in S, x \in T, T \ {x} \in Good
      PROVE  T \in Good
  <2>1. IsFiniteSet(T) /\ \A y \in T : f[y] \in Int /\ g[y] \in Int
    BY FS_Subset
  <2>2. SumFunctionOnSet(f, T) = f[x] + SumFunctionOnSet(f, T \ {x})
    BY <1>2, <2>1, SumRemove
  <2>3. SumFunctionOnSet(g, T) = g[x] + SumFunctionOnSet(g, T \ {x})
    BY <1>2, <2>1, SumRemove
  <2>4. QED
    BY <1>2, <2>2, <2>3
<1>3. S \in Good
  <2> HIDE DEF Good
  <2>1. QED
    BY <1>1, <1>2, SubsetInduction
<1>4. QED
  BY <1>3

\* Changing one value changes the sum by the difference.
LEMMA SumChange ==
  ASSUME NEW f, NEW g, NEW S, IsFiniteSet(S), NEW y \in S, f[y] \in Int, g[y] \in Int,
         \A x \in S \ {y} : f[x] \in Int /\ g[x] = f[x]
  PROVE  SumFunctionOnSet(g, S) = SumFunctionOnSet(f, S) + (g[y] - f[y])
<1> DEFINE T == S \ {y}
<1>1. IsFiniteSet(T)
  BY FS_Subset
<1>2. /\ SumFunctionOnSet(f, S) = f[y] + SumFunctionOnSet(f, T)
      /\ SumFunctionOnSet(g, S) = g[y] + SumFunctionOnSet(g, T)
  BY SumRemove
<1> HIDE DEF T
<1>3. SumFunctionOnSet(g, T) = SumFunctionOnSet(f, T) /\ SumFunctionOnSet(f, T) \in Int
  BY <1>1, SumSame, SumInt DEF T
<1>4. QED
  BY <1>2, <1>3

\* A sum of natural numbers is one.
LEMMA SumNat ==
  ASSUME NEW f, NEW S, IsFiniteSet(S), \A x \in S : f[x] \in Nat
  PROVE  SumFunctionOnSet(f, S) \in Nat
<1> DEFINE Good == {T \in SUBSET S : SumFunctionOnSet(f, T) \in Nat}
<1>1. {} \in Good
  BY SumEmpty
<1>2. ASSUME NEW T \in SUBSET S, NEW x \in S, x \in T, T \ {x} \in Good
      PROVE  T \in Good
  <2>1. IsFiniteSet(T) /\ \A y \in T : f[y] \in Int
    BY FS_Subset
  <2>2. SumFunctionOnSet(f, T) = f[x] + SumFunctionOnSet(f, T \ {x})
    BY <1>2, <2>1, SumRemove
  <2>3. QED
    BY <1>2, <2>2
<1>3. S \in Good
  <2> HIDE DEF Good
  <2>1. QED
    BY <1>1, <1>2, SubsetInduction
<1>4. QED
  BY <1>3

\* Zeros add up to zero.
LEMMA SumOfZeros ==
  ASSUME NEW f, NEW S, IsFiniteSet(S), \A x \in S : f[x] = 0
  PROVE  SumFunctionOnSet(f, S) = 0
<1> DEFINE Good == {T \in SUBSET S : SumFunctionOnSet(f, T) = 0}
<1>1. {} \in Good
  BY SumEmpty
<1>2. ASSUME NEW T \in SUBSET S, NEW x \in S, x \in T, T \ {x} \in Good
      PROVE  T \in Good
  <2>1. IsFiniteSet(T) /\ \A y \in T : f[y] \in Int
    BY FS_Subset
  <2>2. SumFunctionOnSet(f, T) = f[x] + SumFunctionOnSet(f, T \ {x})
    BY <1>2, <2>1, SumRemove
  <2>3. QED
    BY <1>2, <2>2
<1>3. S \in Good
  <2> HIDE DEF Good
  <2>1. QED
    BY <1>1, <1>2, SubsetInduction
<1>4. QED
  BY <1>3

\* A set and its complement share the sum between them.
LEMMA SumOfUnion ==
  ASSUME NEW f, NEW S, IsFiniteSet(S), \A x \in S : f[x] \in Int, NEW A \in SUBSET S
  PROVE  SumFunctionOnSet(f, S) = SumFunctionOnSet(f, A) + SumFunctionOnSet(f, S \ A)
<1> DEFINE B == S \ A
           sum(T) == SumFunctionOnSet(f, T)
           Good == {T \in SUBSET A : sum(T \cup B) = sum(T) + sum(B)}
<1>1. /\ \A T \in SUBSET S : IsFiniteSet(T) /\ sum(T) \in Int
  <2> SUFFICES ASSUME NEW T \in SUBSET S PROVE IsFiniteSet(T) /\ sum(T) \in Int
    OBVIOUS
  <2>1. IsFiniteSet(T)
    BY FS_Subset
  <2>2. QED
    BY <2>1, SumInt
<1>2. {} \in Good
  <2>1. sum({}) = 0 /\ {} \cup B = B /\ sum(B) \in Int
    BY <1>1, SumEmpty
  <2>2. QED
    BY <2>1
<1>3. ASSUME NEW T \in SUBSET A, NEW x \in A, x \in T, T \ {x} \in Good
      PROVE  T \in Good
  <2> DEFINE U == T \cup B
             R == T \ {x}
  <2>1. U \in SUBSET S /\ x \in U /\ U \ {x} = R \cup B /\ R \in SUBSET S
    BY <1>3
  <2>2. sum(U) = f[x] + sum(U \ {x})
    <3> HIDE DEF U
    <3>1. IsFiniteSet(U) /\ \A y \in U : f[y] \in Int
      BY <1>1, <2>1
    <3>2. QED
      BY <2>1, <3>1, SumRemove
  <2>3. sum(T) = f[x] + sum(R)
    <3>1. IsFiniteSet(T) /\ \A y \in T : f[y] \in Int
      BY <1>1
    <3>2. QED
      BY <1>3, <3>1, SumRemove
  <2>4. sum(R \cup B) = sum(R) + sum(B)
    BY <1>3
  <2>5. sum(R) \in Int /\ sum(B) \in Int /\ f[x] \in Int
    BY <1>1, <2>1
  <2>6. sum(U) = f[x] + (sum(R) + sum(B)) /\ sum(T) + sum(B) = (f[x] + sum(R)) + sum(B)
    BY <2>1, <2>2, <2>3, <2>4
  <2> DEFINE a == sum(R)
             b == sum(B)
  <2>7. f[x] + (a + b) = (f[x] + a) + b
    <3>1. a \in Int /\ b \in Int /\ f[x] \in Int
      BY <2>5
    <3> HIDE DEF a, b
    <3>2. QED
      BY <3>1
  <2>8. QED
    BY <2>6, <2>7
<1>4. A \in Good
  <2>1. IsFiniteSet(A)
    BY <1>1
  <2> HIDE DEF Good
  <2>2. QED
    BY <1>2, <1>3, <2>1, SubsetInduction
<1>5. A \cup B = S
  OBVIOUS
<1>6. QED
  BY <1>4, <1>5

\* A part of natural numbers adds up to at most the whole.
LEMMA SumAtMost ==
  ASSUME NEW f, NEW S, IsFiniteSet(S), \A x \in S : f[x] \in Nat, NEW A \in SUBSET S
  PROVE  SumFunctionOnSet(f, A) <= SumFunctionOnSet(f, S)
<1>1. IsFiniteSet(A) /\ IsFiniteSet(S \ A)
  BY FS_Subset
<1>2. SumFunctionOnSet(f, A) \in Nat /\ SumFunctionOnSet(f, S \ A) \in Nat
  BY <1>1, SumNat
<1>3. SumFunctionOnSet(f, S) = SumFunctionOnSet(f, A) + SumFunctionOnSet(f, S \ A)
  BY SumOfUnion
<1>4. QED
  BY <1>2, <1>3
\* Smaller numbers add up to less.
LEMMA SumLeq ==
  ASSUME NEW f, NEW g, NEW S, IsFiniteSet(S),
         \A x \in S : f[x] \in Int /\ g[x] \in Int /\ f[x] <= g[x]
  PROVE  SumFunctionOnSet(f, S) <= SumFunctionOnSet(g, S)
<1> DEFINE Good == {T \in SUBSET S : SumFunctionOnSet(f, T) <= SumFunctionOnSet(g, T)}
<1>1. {} \in Good
  <2>1. SumFunctionOnSet(f, {}) = 0 /\ SumFunctionOnSet(g, {}) = 0
    BY SumEmpty
  <2>2. QED
    BY <2>1
<1>2. ASSUME NEW T \in SUBSET S, NEW x \in S, x \in T, T \ {x} \in Good
      PROVE  T \in Good
  <2> DEFINE R == T \ {x}
  <2>1. IsFiniteSet(T) /\ IsFiniteSet(R) /\ \A y \in T : f[y] \in Int /\ g[y] \in Int
    BY FS_Subset
  <2>2. SumFunctionOnSet(f, T) = f[x] + SumFunctionOnSet(f, R)
    BY <1>2, <2>1, SumRemove
  <2>3. SumFunctionOnSet(g, T) = g[x] + SumFunctionOnSet(g, R)
    BY <1>2, <2>1, SumRemove
  <2>4. SumFunctionOnSet(f, R) \in Int /\ SumFunctionOnSet(g, R) \in Int
    BY <2>1, SumInt
  <2>5. SumFunctionOnSet(f, R) <= SumFunctionOnSet(g, R)
    BY <1>2
  <2> HIDE DEF R
  <2>6. SumFunctionOnSet(f, T) <= SumFunctionOnSet(g, T)
    BY <2>2, <2>3, <2>4, <2>5
  <2>7. QED
    BY <2>6
<1>3. S \in Good
  <2> HIDE DEF Good
  <2>1. QED
    BY <1>1, <1>2, SubsetInduction
<1>4. QED
  BY <1>3

\* Adding up under other names: h renames the elements of S one to one.
LEMMA SumReindexed ==
  ASSUME NEW f, NEW g, NEW S, IsFiniteSet(S), NEW All, NEW h \in Bijection(S, All),
         \A x \in S : g[x] = f[h[x]] /\ f[h[x]] \in Int
  PROVE  SumFunctionOnSet(g, S) = SumFunctionOnSet(f, All)
<1>0. /\ \A x \in S : h[x] \in All
      /\ \A x, y \in S : h[x] = h[y] => x = y
      /\ \A y \in All : \E x \in S : h[x] = y
  BY DEF Bijection, Injection, Surjection, IsInjective
<1> DEFINE Im(T) == {h[x] : x \in T}
           Good  == {T \in SUBSET S : /\ IsFiniteSet(Im(T))
                                     /\ SumFunctionOnSet(g, T) = SumFunctionOnSet(f, Im(T))}
<1>1. {} \in Good
  <2>1. Im({}) = {}
    OBVIOUS
  <2>2. SumFunctionOnSet(g, {}) = 0 /\ SumFunctionOnSet(f, {}) = 0 /\ IsFiniteSet({})
    BY SumEmpty, FS_EmptySet
  <2>3. QED
    BY <2>1, <2>2
<1>2. ASSUME NEW T \in SUBSET S, NEW x \in S, x \in T, T \ {x} \in Good
      PROVE  T \in Good
  <2> DEFINE R == T \ {x}
             I == Im(R)
  <2>1. Im(T) = I \cup {h[x]} /\ h[x] \notin I
    BY <1>0, <1>2
  <2>2. IsFiniteSet(I) /\ SumFunctionOnSet(g, R) = SumFunctionOnSet(f, I)
    BY <1>2
  <2>3. \A i \in I \cup {h[x]} : f[i] \in Int
    BY <1>2
  <2>4. IsFiniteSet(I \cup {h[x]})
    <3> HIDE DEF I
    <3>1. QED
      BY <2>2, FS_AddElement
  <2>5. SumFunctionOnSet(f, I \cup {h[x]}) = SumFunctionOnSet(f, I) + f[h[x]]
    <3> HIDE DEF I
    <3>1. QED
      BY <2>1, <2>2, <2>3, SumAdd
  <2>6. IsFiniteSet(T) /\ \A y \in T : g[y] \in Int
    BY FS_Subset
  <2>7. SumFunctionOnSet(g, T) = g[x] + SumFunctionOnSet(g, R)
    BY <1>2, <2>6, SumRemove
  <2>8. SumFunctionOnSet(f, I) \in Int
    <3> HIDE DEF I
    <3>1. QED
      BY <2>2, <2>3, SumInt
  <2>9. SumFunctionOnSet(g, T) = SumFunctionOnSet(f, I \cup {h[x]})
    <3> HIDE DEF I, R
    <3>1. g[x] = f[h[x]] /\ f[h[x]] \in Int
      BY <1>2
    <3>2. QED
      BY <2>2, <2>5, <2>7, <2>8, <3>1
  <2>10. QED
    BY <2>1, <2>4, <2>9
<1>3. S \in Good
  <2> HIDE DEF Good
  <2>1. QED
    BY <1>1, <1>2, SubsetInduction
<1>4. Im(S) = All
  BY <1>0
<1>5. QED
  BY <1>3, <1>4
=============================================================================
