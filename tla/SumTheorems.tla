----------------------------- MODULE SumTheorems -----------------------------
(***************************************************************************)
(* Sums over finite sets: SumFunctionOnSet, which CanaryCampaign counts    *)
(* pairs with, PositionSizing adds up money, weights and risks with and    *)
(* ResearchTurns tokens and reads; and greatest elements of sets.          *)
(*                                                                         *)
(* The library defines the sum by recursion over subsets.  That the        *)
(* recursion has a solution is shown first, the facts follow by taking a   *)
(* smallest subset that violates them: the theorems about induction and    *)
(* recursive definitions take an operator, and the provers cannot apply    *)
(* them.                                                                   *)
(***************************************************************************)
EXTENDS Integers, FiniteSetsExt, FiniteSetTheorems, WellFoundedInduction, TLAPS

\* Among some subsets of a finite set there is a smallest one.
LEMMA SmallestSubset ==
  ASSUME NEW S, IsFiniteSet(S), NEW Bad \in SUBSET SUBSET S, Bad # {}
  PROVE  \E T \in Bad : \A U \in SUBSET T : U # T => U \notin Bad
<1> DEFINE R == StrictSubsetOrdering(S)
<1>1. IsWellFoundedOn(R, SUBSET S)
  BY FS_StrictSubsetOrderingWellFounded, FS_FiniteSubsetsOfFinite
<1> HIDE DEF R
<1>2. PICK T \in Bad : \A U \in Bad : ~ (<<U, T>> \in R)
  BY <1>1, WFMin
<1>3. ASSUME NEW U \in SUBSET T, U # T, U \in Bad
      PROVE  FALSE
  <2>1. U \in SUBSET S /\ T \in SUBSET S
    BY <1>3
  <2>2. <<U, T>> \in R
    BY <2>1, <1>3 DEF R, StrictSubsetOrdering
  <2> QED
    BY <1>2, <1>3, <2>2
<1> QED
  BY <1>3

\* Induction over the subsets of a finite set, an element at a time.
LEMMA SetInduction ==
  ASSUME NEW S, IsFiniteSet(S), NEW Good, {} \in Good,
         \A T \in SUBSET S : \A x \in S \ T : T \in Good => T \cup {x} \in Good
  PROVE  S \in Good
<1> DEFINE Bad == {T \in SUBSET S : T \notin Good}
<1> SUFFICES ASSUME Bad # {} PROVE FALSE
  OBVIOUS
<1>1. PICK T \in Bad : \A U \in SUBSET T : U # T => U \notin Bad
  <2> HIDE DEF Bad
  <2>1. Bad \in SUBSET SUBSET S
    BY DEF Bad
  <2> QED
    BY <2>1, SmallestSubset
<1>2. PICK x : x \in T
  OBVIOUS
<1>3. T \ {x} \in Good
  BY <1>1, <1>2
<1>4. T = (T \ {x}) \cup {x} /\ T \ {x} \in SUBSET S /\ x \in S \ (T \ {x})
  BY <1>2
<1> QED
  BY <1>3, <1>4

------------------------------------------------------------------------------
(***************************************************************************)
(* The recursion that defines a sum.                                       *)
(***************************************************************************)
Pick(s) == CHOOSE x \in s : TRUE
Rest(s) == s \ {Pick(s)}
Adding(f, g, s) == IF s = {} THEN 0 ELSE f[Pick(s)] + g[Rest(s)]
Solves(f, S, g) == g = [s \in SUBSET S |-> Adding(f, g, s)]

\* The element that the recursion takes away is one of the set's.
LEMMA PickIsElement ==
  ASSUME NEW s, s # {}
  PROVE  Pick(s) \in s /\ Rest(s) \in SUBSET s /\ Rest(s) # s
BY DEF Pick, Rest

\* A sum is what the chosen solution says of the whole set.
LEMMA SumIsChosen ==
  ASSUME NEW f, NEW S
  PROVE  SumFunctionOnSet(f, S) = (CHOOSE g : Solves(f, S, g))[S]
BY Zenon DEF SumFunctionOnSet, FoldFunctionOnSet, MapThenFoldSet, Solves, Adding, Rest, Pick

\* Two solutions agree where both are defined.
LEMMA SolutionsAgree ==
  ASSUME NEW f, NEW S, IsFiniteSet(S), NEW T \in SUBSET S,
         NEW g, Solves(f, S, g), NEW h, Solves(f, T, h)
  PROVE  \A u \in SUBSET T : g[u] = h[u]
<1> DEFINE Bad == {u \in SUBSET T : g[u] # h[u]}
<1> SUFFICES ASSUME Bad # {} PROVE FALSE
  OBVIOUS
<1>0. IsFiniteSet(T)
  BY FS_Subset
<1>1. PICK u \in Bad : \A v \in SUBSET u : v # u => v \notin Bad
  <2> HIDE DEF Bad
  <2>1. Bad \in SUBSET SUBSET T
    BY DEF Bad
  <2> QED
    BY <1>0, <2>1, SmallestSubset
<1>2. g[u] = Adding(f, g, u)
  <2>1. u \in SUBSET S
    OBVIOUS
  <2>2. g = [s \in SUBSET S |-> Adding(f, g, s)]
    BY DEF Solves
  <2> QED
    BY <2>1, <2>2
<1>3. h[u] = Adding(f, h, u)
  <2>1. h = [s \in SUBSET T |-> Adding(f, h, s)]
    BY DEF Solves
  <2> QED
    BY <2>1
<1>4. CASE u = {}
  BY <1>2, <1>3, <1>4 DEF Adding
<1>5. CASE u # {}
  <2>1. Rest(u) \in SUBSET u /\ Rest(u) # u
    BY <1>5, PickIsElement
  <2>2. g[Rest(u)] = h[Rest(u)]
    BY <1>1, <2>1
  <2> QED
    BY <1>2, <1>3, <1>5, <2>2 DEF Adding
<1> QED
  BY <1>4, <1>5

\* There is a solution.
LEMMA SolutionExists ==
  ASSUME NEW f, NEW S, IsFiniteSet(S)
  PROVE  \E g : Solves(f, S, g)
<1> DEFINE Bad == {T \in SUBSET S : ~ \E g : Solves(f, T, g)}
<1> SUFFICES ASSUME Bad # {} PROVE FALSE
  OBVIOUS
<1>1. PICK T \in Bad : \A U \in SUBSET T : U # T => U \notin Bad
  <2> HIDE DEF Bad
  <2>1. Bad \in SUBSET SUBSET S
    BY DEF Bad
  <2> QED
    BY <2>1, SmallestSubset
<1> DEFINE Of(U) == CHOOSE g : Solves(f, U, g)
<1>2. \A U \in SUBSET T : U # T => Solves(f, U, Of(U))
  <2> SUFFICES ASSUME NEW U \in SUBSET T, U # T PROVE Solves(f, U, Of(U))
    OBVIOUS
  <2>1. U \in SUBSET S /\ U \notin Bad
    BY <1>1
  <2>2. \E g : Solves(f, U, g)
    BY <2>1
  <2> HIDE DEF Bad
  <2> QED
    BY <2>2
<1>3. \A U \in SUBSET T : IsFiniteSet(U)
  BY FS_Subset
<1> HIDE DEF Of
\* What the solutions of the smaller sets say, and one step more for T.
<1> DEFINE Small(u) == Of(u)[u]
           Whole == IF T = {} THEN 0 ELSE f[Pick(T)] + Small(Rest(T))
           g == [u \in SUBSET T |-> IF u = T THEN Whole ELSE Small(u)]
<1>4. \A u \in SUBSET T : u # T => Small(u) = IF u = {} THEN 0 ELSE f[Pick(u)] + Small(Rest(u))
  <2> SUFFICES ASSUME NEW u \in SUBSET T, u # T
               PROVE  Of(u)[u] = IF u = {} THEN 0 ELSE f[Pick(u)] + Of(Rest(u))[Rest(u)]
    OBVIOUS
  <2>1. Of(u) = [s \in SUBSET u |-> Adding(f, Of(u), s)]
    BY <1>2 DEF Solves
  <2>2. Of(u)[u] = Adding(f, Of(u), u)
    BY <2>1
  <2>3. CASE u = {}
    BY <2>2, <2>3 DEF Adding
  <2>4. CASE u # {}
    <3>1. Rest(u) \in SUBSET u /\ Rest(u) # T /\ Rest(u) \in SUBSET T
      BY <2>4, PickIsElement
    <3>2. Solves(f, u, Of(u)) /\ Solves(f, Rest(u), Of(Rest(u))) /\ IsFiniteSet(u)
      BY <1>2, <1>3, <3>1
    <3>3. Of(u)[Rest(u)] = Of(Rest(u))[Rest(u)]
      BY <3>1, <3>2, SolutionsAgree
    <3> QED
      BY <2>2, <2>4, <3>3 DEF Adding
  <2> QED
    BY <2>3, <2>4
<1> HIDE DEF Small
<1>5. \A u \in SUBSET T : g[u] = Adding(f, g, u)
  <2> SUFFICES ASSUME NEW u \in SUBSET T PROVE g[u] = Adding(f, g, u)
    OBVIOUS
  <2>1. CASE u = {}
    <3>1. Adding(f, g, u) = 0
      BY <2>1 DEF Adding
    <3>2. g[u] = 0
      BY <1>4, <2>1
    <3> QED
      BY <3>1, <3>2
  <2>2. CASE u # {}
    <3>1. Rest(u) \in SUBSET T /\ Rest(u) # T
      BY <2>2, PickIsElement
    <3>2. g[Rest(u)] = Small(Rest(u))
      BY <3>1
    <3>3. g[u] = f[Pick(u)] + Small(Rest(u))
      BY <1>4, <2>2
    <3> HIDE DEF g
    <3> QED
      BY <2>2, <3>2, <3>3 DEF Adding
  <2> QED
    BY <2>1, <2>2
<1>6. g = [u \in SUBSET T |-> g[u]]
  OBVIOUS
<1>7. Solves(f, T, g)
  <2> HIDE DEF g
  <2> QED
    BY <1>5, <1>6 DEF Solves
<1> HIDE DEF g
<1> QED
  BY <1>7

------------------------------------------------------------------------------
(***************************************************************************)
(* What a sum is.                                                          *)
(***************************************************************************)
\* The equation of the recursion holds of the sums themselves.
LEMMA SumEquation ==
  ASSUME NEW f, NEW S, IsFiniteSet(S)
  PROVE  SumFunctionOnSet(f, S) =
           IF S = {} THEN 0 ELSE f[Pick(S)] + SumFunctionOnSet(f, Rest(S))
<1> DEFINE g == CHOOSE g : Solves(f, S, g)
           h == CHOOSE h : Solves(f, Rest(S), h)
<1>1. Solves(f, S, g)
  BY SolutionExists
<1>2. SumFunctionOnSet(f, S) = g[S] /\ SumFunctionOnSet(f, Rest(S)) = h[Rest(S)]
  BY SumIsChosen
<1> HIDE DEF g
<1>3. g[S] = Adding(f, g, S)
  <2>1. g = [s \in SUBSET S |-> Adding(f, g, s)]
    BY <1>1 DEF Solves
  <2> QED
    BY <2>1
<1>4. CASE S = {}
  BY <1>2, <1>3, <1>4 DEF Adding
<1>5. CASE S # {}
  <2>1. Rest(S) \in SUBSET S /\ IsFiniteSet(Rest(S))
    BY <1>5, PickIsElement, FS_Subset
  <2>2. Solves(f, Rest(S), h)
    BY <2>1, SolutionExists
  <2> HIDE DEF h
  <2>3. g[Rest(S)] = h[Rest(S)]
    BY <1>1, <2>1, <2>2, SolutionsAgree
  <2> QED
    BY <1>2, <1>3, <1>5, <2>3 DEF Adding
<1> QED
  BY <1>4, <1>5

\* The sum over nothing.
THEOREM SumEmpty == ASSUME NEW f PROVE SumFunctionOnSet(f, {}) = 0
BY SumEquation, FS_EmptySet

\* A sum of integers is one.
LEMMA SumInt ==
  ASSUME NEW S, IsFiniteSet(S), NEW f, \A x \in S : f[x] \in Int
  PROVE  SumFunctionOnSet(f, S) \in Int
<1> DEFINE Bad == {T \in SUBSET S : SumFunctionOnSet(f, T) \notin Int}
<1> SUFFICES ASSUME Bad # {} PROVE FALSE
  OBVIOUS
<1>1. PICK T \in Bad : \A U \in SUBSET T : U # T => U \notin Bad
  <2> HIDE DEF Bad
  <2>1. Bad \in SUBSET SUBSET S
    BY DEF Bad
  <2> QED
    BY <2>1, SmallestSubset
<1>2. IsFiniteSet(T)
  BY FS_Subset
<1>3. CASE T = {}
  BY <1>1, <1>3, SumEmpty
<1>4. CASE T # {}
  <2>1. Pick(T) \in S /\ Rest(T) \in SUBSET T /\ Rest(T) # T
    BY <1>4, PickIsElement
  <2>2. SumFunctionOnSet(f, Rest(T)) \in Int
    BY <1>1, <2>1
  <2>3. SumFunctionOnSet(f, T) \in Int
    BY <1>2, <1>4, <2>1, <2>2, SumEquation
  <2> QED
    BY <2>3
<1> QED
  BY <1>3, <1>4

\* Any element may be taken away, not only the one that the recursion takes.
THEOREM SumWithout ==
  ASSUME NEW S, IsFiniteSet(S), NEW f, \A x \in S : f[x] \in Int, NEW x \in S
  PROVE  SumFunctionOnSet(f, S) = f[x] + SumFunctionOnSet(f, S \ {x})
<1> DEFINE Bad == {T \in SUBSET S :
                     \E y \in T : SumFunctionOnSet(f, T) # f[y] + SumFunctionOnSet(f, T \ {y})}
<1> SUFFICES ASSUME Bad # {} PROVE FALSE
  <2>1. S \notin Bad
    OBVIOUS
  <2> QED
    BY <2>1
<1>1. PICK T \in Bad : \A U \in SUBSET T : U # T => U \notin Bad
  <2> HIDE DEF Bad
  <2>1. Bad \in SUBSET SUBSET S
    BY DEF Bad
  <2> QED
    BY <2>1, SmallestSubset
<1>2. PICK y \in T : SumFunctionOnSet(f, T) # f[y] + SumFunctionOnSet(f, T \ {y})
  OBVIOUS
<1>3. T \in SUBSET S /\ \A U \in SUBSET T : IsFiniteSet(U) /\ SumFunctionOnSet(f, U) \in Int
  <2> SUFFICES ASSUME NEW U \in SUBSET T
               PROVE  IsFiniteSet(U) /\ SumFunctionOnSet(f, U) \in Int
    OBVIOUS
  <2>1. IsFiniteSet(U) /\ \A z \in U : f[z] \in Int
    BY FS_Subset
  <2> QED
    BY <2>1, SumInt
<1> DEFINE p == Pick(T)
<1>4. p \in T /\ Rest(T) = T \ {p}
  BY <1>2, PickIsElement DEF Rest
<1>5. SumFunctionOnSet(f, T) = f[p] + SumFunctionOnSet(f, T \ {p})
  BY <1>2, <1>3, <1>4, SumEquation
<1> HIDE DEF p
<1>6. p # y
  BY <1>2, <1>5
<1>7. SumFunctionOnSet(f, T \ {p}) = f[y] + SumFunctionOnSet(f, (T \ {p}) \ {y})
  <2>1. T \ {p} \in SUBSET T /\ T \ {p} # T /\ y \in T \ {p}
    BY <1>4, <1>6
  <2>2. T \ {p} \in SUBSET S /\ T \ {p} \notin Bad
    BY <1>1, <2>1
  <2> QED
    BY <2>1, <2>2
<1>8. SumFunctionOnSet(f, T \ {y}) = f[p] + SumFunctionOnSet(f, (T \ {y}) \ {p})
  <2>1. T \ {y} \in SUBSET T /\ T \ {y} # T /\ p \in T \ {y}
    BY <1>4, <1>6
  <2>2. T \ {y} \in SUBSET S /\ T \ {y} \notin Bad
    BY <1>1, <2>1
  <2> QED
    BY <2>1, <2>2
<1> HIDE DEF Bad
<1>9. (T \ {p}) \ {y} = (T \ {y}) \ {p}
  OBVIOUS
<1>10. f[p] \in Int /\ f[y] \in Int /\ SumFunctionOnSet(f, (T \ {y}) \ {p}) \in Int
  <2>1. (T \ {y}) \ {p} \in SUBSET T
    OBVIOUS
  <2> QED
    BY <1>3, <1>4, <2>1
<1>11. \A a, b, c \in Int : a + (b + c) = b + (a + c)
  OBVIOUS
<1>12. SumFunctionOnSet(f, T) = f[p] + (f[y] + SumFunctionOnSet(f, (T \ {y}) \ {p}))
  BY <1>5, <1>7, <1>9, Zenon
<1>13. f[y] + SumFunctionOnSet(f, T \ {y}) = f[y] + (f[p] + SumFunctionOnSet(f, (T \ {y}) \ {p}))
  BY <1>8, Zenon
<1> QED
  BY <1>2, <1>10, <1>11, <1>12, <1>13, Zenon

\* What one element more adds.
THEOREM SumWith ==
  ASSUME NEW S, IsFiniteSet(S), NEW f, NEW x, x \notin S, \A y \in S \cup {x} : f[y] \in Int
  PROVE  SumFunctionOnSet(f, S \cup {x}) = f[x] + SumFunctionOnSet(f, S)
<1>1. IsFiniteSet(S \cup {x}) /\ (S \cup {x}) \ {x} = S
  BY FS_AddElement
<1>2. SumFunctionOnSet(f, S \cup {x}) = f[x] + SumFunctionOnSet(f, (S \cup {x}) \ {x})
  BY <1>1, SumWithout
<1> QED
  BY <1>1, <1>2

\* The sum over one element.
THEOREM SumOne ==
  ASSUME NEW x, NEW f, f[x] \in Int
  PROVE  SumFunctionOnSet(f, {x}) = f[x]
<1>1. IsFiniteSet({}) /\ {} \cup {x} = {x}
  BY FS_EmptySet
<1>2. SumFunctionOnSet(f, {} \cup {x}) = f[x] + SumFunctionOnSet(f, {})
  BY <1>1, SumWith
<1> QED
  BY <1>1, <1>2, SumEmpty

\* Only the values count.
THEOREM SumSame ==
  ASSUME NEW S, IsFiniteSet(S), NEW f, NEW g,
         \A x \in S : f[x] \in Int /\ f[x] = g[x]
  PROVE  SumFunctionOnSet(f, S) = SumFunctionOnSet(g, S)
<1> DEFINE Good == {T \in SUBSET S : SumFunctionOnSet(f, T) = SumFunctionOnSet(g, T)}
<1>1. {} \in Good
  BY SumEmpty
<1>2. ASSUME NEW T \in SUBSET S, NEW x \in S \ T, T \in Good
      PROVE  T \cup {x} \in Good
  <2>1. IsFiniteSet(T)
    BY FS_Subset
  <2>2. SumFunctionOnSet(f, T \cup {x}) = f[x] + SumFunctionOnSet(f, T)
    BY <2>1, SumWith
  <2>3. SumFunctionOnSet(g, T \cup {x}) = g[x] + SumFunctionOnSet(g, T)
    BY <2>1, SumWith
  <2> QED
    BY <1>2, <2>2, <2>3
<1> HIDE DEF Good
<1>3. S \in Good
  BY <1>1, <1>2, SetInduction
<1> QED
  BY <1>3 DEF Good

\* A sum of smaller values is smaller.
THEOREM SumMonotone ==
  ASSUME NEW S, IsFiniteSet(S), NEW f, NEW g,
         \A x \in S : f[x] \in Int /\ g[x] \in Int /\ f[x] <= g[x]
  PROVE  SumFunctionOnSet(f, S) <= SumFunctionOnSet(g, S)
<1> DEFINE Good == {T \in SUBSET S : SumFunctionOnSet(f, T) <= SumFunctionOnSet(g, T)}
<1>1. {} \in Good
  BY SumEmpty
<1>2. ASSUME NEW T \in SUBSET S, NEW x \in S \ T, T \in Good
      PROVE  T \cup {x} \in Good
  <2>1. /\ IsFiniteSet(T)
        /\ SumFunctionOnSet(f, T) \in Int /\ SumFunctionOnSet(g, T) \in Int
    <3>1. IsFiniteSet(T) /\ \A y \in T : f[y] \in Int /\ g[y] \in Int
      BY FS_Subset
    <3> QED
      BY <3>1, SumInt
  <2>2. SumFunctionOnSet(f, T \cup {x}) = f[x] + SumFunctionOnSet(f, T)
    BY <2>1, SumWith
  <2>3. SumFunctionOnSet(g, T \cup {x}) = g[x] + SumFunctionOnSet(g, T)
    BY <2>1, SumWith
  <2>4. SumFunctionOnSet(f, T) <= SumFunctionOnSet(g, T)
    BY <1>2
  <2> HIDE DEF Good
  <2>5. SumFunctionOnSet(f, T \cup {x}) <= SumFunctionOnSet(g, T \cup {x})
    BY <2>1, <2>2, <2>3, <2>4
  <2> QED
    BY <2>5 DEF Good
<1> HIDE DEF Good
<1>3. S \in Good
  BY <1>1, <1>2, SetInduction
<1> QED
  BY <1>3 DEF Good

\* A sum of sums.
THEOREM SumPlus ==
  ASSUME NEW S, IsFiniteSet(S), NEW f, NEW g, NEW h,
         \A x \in S : f[x] \in Int /\ g[x] \in Int /\ h[x] = f[x] + g[x]
  PROVE  SumFunctionOnSet(h, S) = SumFunctionOnSet(f, S) + SumFunctionOnSet(g, S)
<1> DEFINE Good == {T \in SUBSET S : SumFunctionOnSet(h, T)
                                       = SumFunctionOnSet(f, T) + SumFunctionOnSet(g, T)}
<1>1. {} \in Good
  BY SumEmpty
<1>2. ASSUME NEW T \in SUBSET S, NEW x \in S \ T, T \in Good
      PROVE  T \cup {x} \in Good
  <2>1. /\ IsFiniteSet(T)
        /\ SumFunctionOnSet(f, T) \in Int /\ SumFunctionOnSet(g, T) \in Int
    <3>1. IsFiniteSet(T) /\ \A y \in T : f[y] \in Int /\ g[y] \in Int
      BY FS_Subset
    <3> QED
      BY <3>1, SumInt
  <2>2. /\ SumFunctionOnSet(f, T \cup {x}) = f[x] + SumFunctionOnSet(f, T)
        /\ SumFunctionOnSet(g, T \cup {x}) = g[x] + SumFunctionOnSet(g, T)
    BY <2>1, SumWith
  <2>3. SumFunctionOnSet(h, T \cup {x}) = h[x] + SumFunctionOnSet(h, T)
    <3>1. \A y \in T \cup {x} : h[y] \in Int
      OBVIOUS
    <3> QED
      BY <2>1, <3>1, SumWith
  <2>4. SumFunctionOnSet(h, T) = SumFunctionOnSet(f, T) + SumFunctionOnSet(g, T)
    BY <1>2
  <2> HIDE DEF Good
  <2>5. SumFunctionOnSet(h, T \cup {x})
          = SumFunctionOnSet(f, T \cup {x}) + SumFunctionOnSet(g, T \cup {x})
    BY <2>1, <2>2, <2>3, <2>4
  <2> QED
    BY <2>5 DEF Good
<1> HIDE DEF Good
<1>3. S \in Good
  BY <1>1, <1>2, SetInduction
<1> QED
  BY <1>3 DEF Good

\* A sum of multiples.
THEOREM SumTimes ==
  ASSUME NEW S, IsFiniteSet(S), NEW k \in Int, NEW f, NEW h,
         \A x \in S : f[x] \in Int /\ h[x] = k * f[x]
  PROVE  SumFunctionOnSet(h, S) = k * SumFunctionOnSet(f, S)
<1> DEFINE Good == {T \in SUBSET S : SumFunctionOnSet(h, T) = k * SumFunctionOnSet(f, T)}
<1>1. {} \in Good
  BY SumEmpty
<1>2. ASSUME NEW T \in SUBSET S, NEW x \in S \ T, T \in Good
      PROVE  T \cup {x} \in Good
  <2>1. IsFiniteSet(T) /\ SumFunctionOnSet(f, T) \in Int
    <3>1. IsFiniteSet(T) /\ \A y \in T : f[y] \in Int
      BY FS_Subset
    <3> QED
      BY <3>1, SumInt
  <2>2. SumFunctionOnSet(f, T \cup {x}) = f[x] + SumFunctionOnSet(f, T)
    BY <2>1, SumWith
  <2>3. SumFunctionOnSet(h, T \cup {x}) = h[x] + SumFunctionOnSet(h, T)
    <3>1. \A y \in T \cup {x} : h[y] \in Int
      OBVIOUS
    <3> QED
      BY <2>1, <3>1, SumWith
  <2>4. SumFunctionOnSet(h, T) = k * SumFunctionOnSet(f, T)
    BY <1>2
  <2>5. \A a, b \in Int : k * (a + b) = k * a + k * b
    OBVIOUS
  <2>6. k * (f[x] + SumFunctionOnSet(f, T)) = k * f[x] + k * SumFunctionOnSet(f, T)
    BY <2>1, <2>5
  <2> HIDE DEF Good
  <2>7. SumFunctionOnSet(h, T \cup {x}) = k * SumFunctionOnSet(f, T \cup {x})
    BY <2>2, <2>3, <2>4, <2>6
  <2> QED
    BY <2>7 DEF Good
<1> HIDE DEF Good
<1>3. S \in Good
  BY <1>1, <1>2, SetInduction
<1> QED
  BY <1>3 DEF Good

\* Counting is adding up ones.
THEOREM SumCounts ==
  ASSUME NEW S, IsFiniteSet(S), NEW C \in SUBSET S, NEW f,
         \A x \in S : f[x] = IF x \in C THEN 1 ELSE 0
  PROVE  SumFunctionOnSet(f, S) = Cardinality(C)
<1> DEFINE Good == {T \in SUBSET S : SumFunctionOnSet(f, T) = Cardinality(C \cap T)}
<1>1. {} \in Good
  <2>1. C \cap {} = {}
    OBVIOUS
  <2> QED
    BY <2>1, SumEmpty, FS_EmptySet
<1>2. ASSUME NEW T \in SUBSET S, NEW x \in S \ T, T \in Good
      PROVE  T \cup {x} \in Good
  <2>1. IsFiniteSet(T) /\ IsFiniteSet(C \cap T) /\ Cardinality(C \cap T) \in Nat
    <3>1. IsFiniteSet(T) /\ IsFiniteSet(C \cap T)
      BY FS_Subset
    <3> QED
      BY <3>1, FS_CardinalityType
  <2>2. SumFunctionOnSet(f, T \cup {x}) = f[x] + SumFunctionOnSet(f, T)
    <3>1. \A y \in T \cup {x} : f[y] \in Int
      OBVIOUS
    <3> QED
      BY <2>1, <3>1, SumWith
  <2>3. CASE x \in C
    <3>1. C \cap (T \cup {x}) = (C \cap T) \cup {x} /\ x \notin C \cap T
      BY <2>3
    <3>2. Cardinality(C \cap (T \cup {x})) = Cardinality(C \cap T) + 1
      BY <2>1, <3>1, FS_AddElement
    <3> QED
      BY <1>2, <2>1, <2>2, <2>3, <3>2
  <2>4. CASE x \notin C
    <3>1. C \cap (T \cup {x}) = C \cap T
      BY <2>4
    <3>2. f[x] = 0 /\ SumFunctionOnSet(f, T) = Cardinality(C \cap T)
      BY <1>2, <2>4
    <3>3. SumFunctionOnSet(f, T \cup {x}) = 0 + Cardinality(C \cap T)
      BY <2>2, <3>2, Zenon
    <3>4. 0 + Cardinality(C \cap T) = Cardinality(C \cap T)
      BY <2>1
    <3> QED
      BY <3>1, <3>3, <3>4, Zenon
  <2> QED
    BY <2>3, <2>4
<1> HIDE DEF Good
<1>3. S \in Good
  BY <1>1, <1>2, SetInduction
<1>4. C \cap S = C
  OBVIOUS
<1> QED
  BY <1>3, <1>4 DEF Good

\* A sum of naturals is one, and no value exceeds it.
THEOREM SumNat ==
  ASSUME NEW S, IsFiniteSet(S), NEW f, \A x \in S : f[x] \in Nat
  PROVE  SumFunctionOnSet(f, S) \in Nat /\ \A x \in S : f[x] <= SumFunctionOnSet(f, S)
<1> DEFINE Good == {T \in SUBSET S : SumFunctionOnSet(f, T) \in Nat}
<1>1. {} \in Good
  BY SumEmpty
<1>2. ASSUME NEW T \in SUBSET S, NEW x \in S \ T, T \in Good
      PROVE  T \cup {x} \in Good
  <2>1. IsFiniteSet(T)
    BY FS_Subset
  <2>2. SumFunctionOnSet(f, T \cup {x}) = f[x] + SumFunctionOnSet(f, T)
    <3>1. \A y \in T \cup {x} : f[y] \in Int
      OBVIOUS
    <3> QED
      BY <2>1, <3>1, SumWith
  <2> QED
    BY <1>2, <2>2
<1>3. \A T \in SUBSET S : T \in Good
  <2> SUFFICES ASSUME NEW T \in SUBSET S PROVE T \in Good
    OBVIOUS
  <2>1. IsFiniteSet(T) /\ \A U \in SUBSET T : \A x \in T \ U : U \in Good => U \cup {x} \in Good
    BY <1>2, FS_Subset
  <2> HIDE DEF Good
  <2> QED
    BY <1>1, <2>1, SetInduction
<1>4. ASSUME NEW x \in S PROVE f[x] <= SumFunctionOnSet(f, S)
  <2>1. S \ {x} \in SUBSET S
    OBVIOUS
  <2>2. SumFunctionOnSet(f, S \ {x}) \in Nat
    BY <1>3, <2>1
  <2>3. SumFunctionOnSet(f, S) = f[x] + SumFunctionOnSet(f, S \ {x})
    BY SumWithout
  <2> QED
    BY <2>2, <2>3
<1>5. S \in Good
  BY <1>3
<1> QED
  BY <1>4, <1>5

\* A sum over a set is no greater than over a larger one, of naturals.
THEOREM SumSubset ==
  ASSUME NEW S, IsFiniteSet(S), NEW T \in SUBSET S, NEW f, \A x \in S : f[x] \in Nat
  PROVE  SumFunctionOnSet(f, T) <= SumFunctionOnSet(f, S)
<1> DEFINE Good == {U \in SUBSET S : SumFunctionOnSet(f, U \cap T) <= SumFunctionOnSet(f, U)}
<1>1. {} \in Good
  <2>1. {} \cap T = {}
    OBVIOUS
  <2>2. SumFunctionOnSet(f, {}) = 0
    BY SumEmpty
  <2> QED
    BY <2>1, <2>2
<1>2. ASSUME NEW U \in SUBSET S, NEW x \in S \ U, U \in Good
      PROVE  U \cup {x} \in Good
  <2>1. IsFiniteSet(U) /\ IsFiniteSet(U \cap T)
    BY FS_Subset
  <2>2. \A y \in U \cup {x} : f[y] \in Int
    OBVIOUS
  <2>3. SumFunctionOnSet(f, U \cup {x}) = f[x] + SumFunctionOnSet(f, U)
    BY <2>1, <2>2, SumWith
  <2>4. SumFunctionOnSet(f, U) \in Int /\ SumFunctionOnSet(f, U \cap T) \in Int /\ f[x] \in Nat
    <3>1. \A y \in U : f[y] \in Int
      OBVIOUS
    <3>2. \A y \in U \cap T : f[y] \in Int
      OBVIOUS
    <3> QED
      BY <2>1, <3>1, <3>2, SumInt
  <2>5. CASE x \in T
    <3>1. (U \cup {x}) \cap T = (U \cap T) \cup {x} /\ x \notin U \cap T
      BY <2>5
    <3>2. \A y \in (U \cap T) \cup {x} : f[y] \in Int
      OBVIOUS
    <3>3. SumFunctionOnSet(f, (U \cap T) \cup {x}) = f[x] + SumFunctionOnSet(f, U \cap T)
      BY <2>1, <3>1, <3>2, SumWith
    <3> QED
      BY <1>2, <2>3, <2>4, <3>1, <3>3
  <2>6. CASE x \notin T
    <3>1. (U \cup {x}) \cap T = U \cap T
      BY <2>6
    <3>2. SumFunctionOnSet(f, U \cap T) <= SumFunctionOnSet(f, U)
      BY <1>2
    <3>3. SumFunctionOnSet(f, U \cap T) <= f[x] + SumFunctionOnSet(f, U)
      BY <2>4, <3>2
    <3>4. SumFunctionOnSet(f, (U \cup {x}) \cap T) <= SumFunctionOnSet(f, U \cup {x})
      BY <2>3, <3>1, <3>3, Zenon
    <3> QED
      BY <3>4
  <2> QED
    BY <2>5, <2>6
<1> HIDE DEF Good
<1>3. S \in Good
  BY <1>1, <1>2, SetInduction
<1>4. S \cap T = T
  OBVIOUS
<1> QED
  BY <1>3, <1>4 DEF Good

\* A sum whose terms outside a part are zero is the sum over that part.
THEOREM SumPart ==
  ASSUME NEW S, IsFiniteSet(S), NEW T \in SUBSET S, NEW f, \A x \in S : f[x] \in Int,
         \A x \in S \ T : f[x] = 0
  PROVE  SumFunctionOnSet(f, S) = SumFunctionOnSet(f, T)
<1> DEFINE Good == {U \in SUBSET S : SumFunctionOnSet(f, U) = SumFunctionOnSet(f, U \cap T)}
<1>1. {} \in Good
  <2>1. {} \cap T = {}
    OBVIOUS
  <2> QED
    BY <2>1
<1>2. ASSUME NEW U \in SUBSET S, NEW x \in S \ U, U \in Good
      PROVE  U \cup {x} \in Good
  <2>1. IsFiniteSet(U) /\ IsFiniteSet(U \cap T)
    BY FS_Subset
  <2>2. \A y \in U \cup {x} : f[y] \in Int
    OBVIOUS
  <2>3. SumFunctionOnSet(f, U \cup {x}) = f[x] + SumFunctionOnSet(f, U)
    BY <2>1, <2>2, SumWith
  <2>4. SumFunctionOnSet(f, U) = SumFunctionOnSet(f, U \cap T)
    BY <1>2
  <2>5. CASE x \in T
    <3>1. (U \cup {x}) \cap T = (U \cap T) \cup {x} /\ x \notin U \cap T
      BY <2>5
    <3>2. \A y \in (U \cap T) \cup {x} : f[y] \in Int
      OBVIOUS
    <3>3. SumFunctionOnSet(f, (U \cap T) \cup {x}) = f[x] + SumFunctionOnSet(f, U \cap T)
      BY <2>1, <3>1, <3>2, SumWith
    <3> QED
      BY <2>3, <2>4, <3>1, <3>3
  <2>6. CASE x \notin T
    <3>1. (U \cup {x}) \cap T = U \cap T /\ f[x] = 0
      BY <2>6
    <3>2. SumFunctionOnSet(f, U) \in Int
      <4>1. \A y \in U : f[y] \in Int
        OBVIOUS
      <4> QED
        BY <2>1, <4>1, SumInt
    <3>3. f[x] + SumFunctionOnSet(f, U) = SumFunctionOnSet(f, U)
      BY <3>1, <3>2
    <3>4. SumFunctionOnSet(f, U \cup {x}) = SumFunctionOnSet(f, (U \cup {x}) \cap T)
      BY <2>3, <2>4, <3>1, <3>3, Zenon
    <3> QED
      BY <3>4
  <2> QED
    BY <2>5, <2>6
<1> HIDE DEF Good
<1>3. S \in Good
  BY <1>1, <1>2, SetInduction
<1>4. S \cap T = T
  OBVIOUS
<1> QED
  BY <1>3, <1>4 DEF Good

------------------------------------------------------------------------------
(***************************************************************************)
(* Least and greatest elements.                                            *)
(***************************************************************************)
\* A set of naturals that is not empty has a least element.
LEMMA HasLeast ==
  ASSUME NEW S \in SUBSET Nat, S # {}
  PROVE  \E x \in S : \A y \in S : x <= y
<1> DEFINE Below == {0 .. x : x \in S}
           R == StrictSubsetOrdering(Nat)
<1>1. IsWellFoundedOn(R, FiniteSubsetsOf(Nat))
  BY FS_StrictSubsetOrderingWellFounded
<1>2. Below \subseteq FiniteSubsetsOf(Nat) /\ Below # {}
  <2>1. \A x \in S : IsFiniteSet(0 .. x)
    BY FS_Interval
  <2>2. \A x \in S : 0 .. x \in SUBSET Nat
    OBVIOUS
  <2> QED
    BY <2>1, <2>2 DEF FiniteSubsetsOf
<1> HIDE DEF R
<1>3. PICK B \in Below : \A C \in Below : ~ (<<C, B>> \in R)
  <2> HIDE DEF Below
  <2> QED
    BY <1>1, <1>2, WFMin
<1>4. PICK x \in S : B = 0 .. x
  BY <1>3
<1>5. ASSUME NEW y \in S, y < x
      PROVE  FALSE
  <2>1. 0 .. y \in SUBSET Nat /\ 0 .. x \in SUBSET Nat /\ 0 .. y \subseteq 0 .. x
    BY <1>5
  <2>2. x \in 0 .. x /\ x \notin 0 .. y
    BY <1>5
  <2>3. <<0 .. y, 0 .. x>> \in R
    BY <2>1, <2>2 DEF R, StrictSubsetOrdering
  <2> QED
    BY <1>3, <1>4, <2>3
<1> QED
  BY <1>5

\* What Max says of a set of naturals with an upper bound.
LEMMA MaxIsGreatest ==
  ASSUME NEW N \in Nat, NEW S \in SUBSET (0 .. N), S # {}
  PROVE  Max(S) \in S /\ \A y \in S : y <= Max(S)
<1> DEFINE T == {N - x : x \in S}
<1>1. T \in SUBSET Nat /\ T # {}
  <2>1. \A x \in S : x \in 0 .. N /\ N - x \in Nat
    <3> SUFFICES ASSUME NEW x \in S PROVE x \in 0 .. N /\ N - x \in Nat
      OBVIOUS
    <3>1. x \in 0 .. N
      OBVIOUS
    <3> QED
      BY <3>1
  <2>2. T \subseteq Nat
    BY <2>1, Zenon
  <2>3. T # {}
    BY Zenon
  <2> QED
    BY <2>2, <2>3, Zenon
<1>2. PICK t \in T : \A y \in T : t <= y
  BY <1>1, HasLeast
<1>3. PICK x \in S : t = N - x
  BY <1>2
<1>4. \A y \in S : x >= y
  <2> SUFFICES ASSUME NEW y \in S PROVE x >= y
    OBVIOUS
  <2>1. N - x <= N - y
    BY <1>2, <1>3
  <2> QED
    BY <2>1
<1> HIDE DEF T
<1>5. Max(S) \in S /\ \A y \in S : Max(S) >= y
  BY <1>4 DEF Max
<1> QED
  BY <1>5
==============================================================================
