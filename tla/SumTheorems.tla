---------------------------- MODULE SumTheorems ----------------------------
(***************************************************************************)
(* Sums over finite sets.  SumFunctionOnSet(f, S) of the community module  *)
(* Functions adds up f[x] for the x in S in an order CHOOSE decides; here  *)
(* it is shown not to depend on that order.                                *)
(*                                                                         *)
(* Every induction is a minimal counterexample: among the subsets of a     *)
(* finite set for which a statement fails there is one none of whose       *)
(* proper subsets fails.                                                   *)
(***************************************************************************)
EXTENDS Integers, FiniteSets, Functions, FiniteSetTheorems, WellFoundedInduction, TLAPS

Sum(f, S) == SumFunctionOnSet(f, S)

-----------------------------------------------------------------------------
LEMMA MinimalSubset ==
  ASSUME NEW S, IsFiniteSet(S), NEW Bad \in SUBSET (SUBSET S), Bad # {}
  PROVE  \E T \in Bad : \A U \in SUBSET T : U # T => U \notin Bad
<1>1. FiniteSubsetsOf(S) = SUBSET S
  BY FS_FiniteSubsetsOfFinite
<1>2. IsWellFoundedOn(StrictSubsetOrdering(S), SUBSET S)
  BY <1>1, FS_StrictSubsetOrderingWellFounded
<1>3. PICK T \in Bad : \A U \in Bad : <<U, T>> \notin StrictSubsetOrdering(S)
  BY <1>2, WFMin, Zenon
<1>4. ASSUME NEW U \in SUBSET T, U # T, U \in Bad PROVE FALSE
  BY <1>3, <1>4 DEF StrictSubsetOrdering
<1> QED
  BY <1>4

(* The element taken first, and the recursion of the fold.                 *)
First(s) == CHOOSE x \in s : TRUE

Adds(f, S, g) ==
  g = [s \in SUBSET S |-> IF s = {} THEN 0 ELSE f[First(s)] + g[s \ {First(s)}]]

LEMMA FirstIn == \A s : s # {} => First(s) \in s
BY DEF First

LEMMA SumIsAdds ==
  ASSUME NEW f, NEW S
  PROVE  Sum(f, S) = (CHOOSE g : Adds(f, S, g))[S]
BY DEF Sum, SumFunctionOnSet, FoldFunctionOnSet, MapThenFoldSet, Adds, First

LEMMA AddsStep ==
  ASSUME NEW f, NEW S, NEW g, Adds(f, S, g), NEW s \in SUBSET S
  PROVE  g[s] = IF s = {} THEN 0 ELSE f[First(s)] + g[s \ {First(s)}]
BY DEF Adds

(* Two such functions agree where both are defined.                        *)
LEMMA AddsAgree ==
  ASSUME NEW f, NEW S, NEW T, NEW g, NEW h, Adds(f, S, g), Adds(f, T, h),
         NEW U, U \subseteq S, U \subseteq T, IsFiniteSet(U)
  PROVE  g[U] = h[U]
<1> DEFINE Bad == {s \in SUBSET U : g[s] # h[s]}
<1> SUFFICES ASSUME Bad # {} PROVE FALSE
  OBVIOUS
<1>0. Bad \in SUBSET (SUBSET U)
  OBVIOUS
<1>1. PICK s \in Bad : \A u \in SUBSET s : u # s => u \notin Bad
  <2> HIDE DEF Bad
  <2> QED
    BY <1>0, MinimalSubset
<1>2. s \in SUBSET S /\ s \in SUBSET T /\ s \in SUBSET U
  OBVIOUS
<1>3. s # {}
  BY <1>2, AddsStep
<1>4. First(s) \in s /\ s \ {First(s)} \subseteq s
  BY <1>3, FirstIn
<1>5. g[s \ {First(s)}] = h[s \ {First(s)}]
  BY <1>1, <1>2, <1>4
<1>6. g[s] = h[s]
  BY <1>2, <1>3, <1>5, AddsStep
<1> QED
  BY <1>6

LEMMA AddsExists ==
  ASSUME NEW f, NEW S, IsFiniteSet(S)
  PROVE  \E g : Adds(f, S, g)
<1> DEFINE Bad == {T \in SUBSET S : ~ \E g : Adds(f, T, g)}
<1> SUFFICES ASSUME Bad # {} PROVE FALSE
  OBVIOUS
<1>0. Bad \in SUBSET (SUBSET S)
  OBVIOUS
<1>1. PICK T \in Bad : \A u \in SUBSET T : u # T => u \notin Bad
  <2> HIDE DEF Bad
  <2> QED
    BY <1>0, MinimalSubset
<1> DEFINE v(u) == (CHOOSE h : Adds(f, u, h))[u]
<1> DEFINE g == [s \in SUBSET T |-> IF s = {} THEN 0
                                    ELSE f[First(s)] + v(s \ {First(s)})]
<1>2. ASSUME NEW u \in SUBSET T, u # T
      PROVE  Adds(f, u, CHOOSE h : Adds(f, u, h)) /\ IsFiniteSet(u)
  <2>1. \E h : Adds(f, u, h)
    BY <1>1, <1>2
  <2>2. u \in SUBSET S
    BY <1>1
  <2> QED
    BY <2>1, <2>2, FS_Subset
<1>3. ASSUME NEW u \in SUBSET T, u # T PROVE g[u] = v(u)
  <2> DEFINE h == CHOOSE h : Adds(f, u, h)
  <2>1. Adds(f, u, h)
    BY <1>2, <1>3
  <2> HIDE DEF h
  <2>2. v(u) = IF u = {} THEN 0 ELSE f[First(u)] + h[u \ {First(u)}]
    BY <2>1, AddsStep DEF h
  <2>3. CASE u = {}
    BY <2>2, <2>3
  <2>4. CASE u # {}
    <3> DEFINE w == u \ {First(u)}
    <3>1. w \subseteq u /\ w \in SUBSET T /\ w # T
      BY <1>3
    <3> DEFINE k == CHOOSE k : Adds(f, w, k)
    <3>2. Adds(f, w, k) /\ IsFiniteSet(w)
      BY <1>2, <3>1
    <3> HIDE DEF k
    <3>3. h[w] = k[w]
      BY <2>1, <3>1, <3>2, AddsAgree
    <3>4. v(w) = k[w]
      BY DEF k
    <3> QED
      BY <2>2, <2>4, <3>1, <3>3, <3>4
  <2> QED
    BY <2>3, <2>4
<1>4. ASSUME NEW s \in SUBSET T, s # {}
      PROVE  v(s \ {First(s)}) = g[s \ {First(s)}]
  <2>1. s \ {First(s)} \in SUBSET T /\ s \ {First(s)} # T
    BY <1>4, FirstIn
  <2> QED
    BY <1>3, <2>1
<1>5. g = [s \in SUBSET T |-> IF s = {} THEN 0 ELSE f[First(s)] + g[s \ {First(s)}]]
  <2> DEFINE k == [s \in SUBSET T |-> IF s = {} THEN 0 ELSE f[First(s)] + g[s \ {First(s)}]]
  <2>1. \A s \in SUBSET T : g[s] = k[s]
    <3> HIDE DEF v
    <3> QED
      BY <1>4
  <2> QED
    BY <2>1
<1>6. Adds(f, T, g)
  BY <1>5 DEF Adds
<1> QED
  BY <1>1, <1>6

LEMMA SumStep ==
  ASSUME NEW f, NEW S, IsFiniteSet(S)
  PROVE  Sum(f, S) = IF S = {} THEN 0 ELSE f[First(S)] + Sum(f, S \ {First(S)})
<1> DEFINE g == CHOOSE g : Adds(f, S, g)
<1>1. Adds(f, S, g) /\ Sum(f, S) = g[S]
  BY AddsExists, SumIsAdds
<1> DEFINE T == S \ {First(S)}
<1> DEFINE h == CHOOSE h : Adds(f, T, h)
<1>2. IsFiniteSet(T) /\ T \subseteq S
  BY FS_RemoveElement
<1>3. Adds(f, T, h) /\ Sum(f, T) = h[T]
  BY <1>2, AddsExists, SumIsAdds
<1> HIDE DEF g, h
<1>4. g[T] = h[T]
  BY <1>1, <1>2, <1>3, AddsAgree
<1>5. S \in SUBSET S
  OBVIOUS
<1>6. g[S] = IF S = {} THEN 0 ELSE f[First(S)] + g[T]
  <2>1. \A s \in SUBSET S :
          g[s] = IF s = {} THEN 0 ELSE f[First(s)] + g[s \ {First(s)}]
    BY <1>1, AddsStep
  <2> QED
    BY <1>5, <2>1
<1> QED
  BY <1>1, <1>3, <1>4, <1>6

(* What the sum is, whatever comes first.                                  *)
LEMMA SumEmpty == \A f : Sum(f, {}) = 0
BY SumStep, FS_EmptySet

IntOn(f, S) == \A x \in S : f[x] \in Int

(* A sum of integers is an integer, and any element can be split off.      *)
LEMMA SumSplitsOff ==
  ASSUME NEW f, NEW S, IsFiniteSet(S), IntOn(f, S)
  PROVE  Sum(f, S) \in Int /\ \A x \in S : Sum(f, S) = f[x] + Sum(f, S \ {x})
<1> DEFINE Good(T) == Sum(f, T) \in Int /\ \A x \in T : Sum(f, T) = f[x] + Sum(f, T \ {x})
<1> DEFINE Bad == {T \in SUBSET S : ~Good(T)}
<1> SUFFICES ASSUME Bad # {} PROVE FALSE
  OBVIOUS
<1>0. Bad \in SUBSET (SUBSET S)
  OBVIOUS
<1>1. PICK T \in Bad : \A u \in SUBSET T : u # T => u \notin Bad
  <2> HIDE DEF Bad
  <2> QED
    BY <1>0, MinimalSubset
<1>2. IsFiniteSet(T) /\ T \in SUBSET S
  BY FS_Subset
<1>3. \A u \in SUBSET T : u # T => Good(u)
  BY <1>1
<1> DEFINE c == First(T)
<1>4. T # {}
  BY <1>2, SumEmpty
<1>5. c \in T /\ f[c] \in Int
  BY <1>2, <1>4, FirstIn DEF IntOn
<1>6. Sum(f, T) = f[c] + Sum(f, T \ {c})
  BY <1>2, <1>4, SumStep
<1>7. Good(T \ {c})
  BY <1>3, <1>5
<1> HIDE DEF c
<1>8. ASSUME NEW x \in T, x # c PROVE Sum(f, T) = f[x] + Sum(f, T \ {x})
  <2> DEFINE d == (T \ {c}) \ {x}
  <2>1. Sum(f, T \ {c}) = f[x] + Sum(f, d)
    BY <1>7, <1>8
  <2>2. Good(T \ {x}) /\ c \in T \ {x} /\ (T \ {x}) \ {c} = d
    BY <1>3, <1>5, <1>8
  <2>3. Sum(f, T \ {x}) = f[c] + Sum(f, d)
    BY <2>2
  <2>4. Sum(f, d) \in Int
    <3>1. d \in SUBSET T /\ d # T
      BY <1>8
    <3> QED
      BY <1>3, <3>1
  <2>5. f[x] \in Int
    BY <1>2 DEF IntOn
  <2> HIDE DEF d, Good
  <2> QED
    BY <1>5, <1>6, <2>1, <2>3, <2>4, <2>5
<1>9. Sum(f, T) \in Int
  BY <1>5, <1>6, <1>7
<1> QED
  BY <1>1, <1>6, <1>8, <1>9

LEMMA SumInt ==
  ASSUME NEW f, NEW S, IsFiniteSet(S), IntOn(f, S)
  PROVE  Sum(f, S) \in Int
BY SumSplitsOff

LEMMA SumAdd ==
  ASSUME NEW f, NEW S, IsFiniteSet(S), NEW x, x \notin S, IntOn(f, S), f[x] \in Int
  PROVE  Sum(f, S \cup {x}) = f[x] + Sum(f, S)
<1>1. IsFiniteSet(S \cup {x}) /\ IntOn(f, S \cup {x}) /\ (S \cup {x}) \ {x} = S
  BY FS_AddElement DEF IntOn
<1> QED
  BY <1>1, SumSplitsOff

(* Two sums whose terms correspond one to one are equal.                   *)
LEMMA SumCorresponds ==
  ASSUME NEW S, NEW T, IsFiniteSet(S), IsFiniteSet(T), NEW f, NEW g, NEW h,
         IntOn(f, S), IntOn(g, T), h \in [S -> T],
         \A x, y \in S : h[x] = h[y] => x = y,
         \A t \in T : \E x \in S : h[x] = t,
         \A x \in S : f[x] = g[h[x]]
  PROVE  Sum(f, S) = Sum(g, T)
<1> DEFINE Im(u) == {h[x] : x \in u}
<1> DEFINE Bad == {u \in SUBSET S : Sum(f, u) # Sum(g, Im(u))}
<1>0. Bad \in SUBSET (SUBSET S)
  OBVIOUS
<1>1. ASSUME Bad # {} PROVE FALSE
  <2>1. PICK u \in Bad : \A w \in SUBSET u : w # u => w \notin Bad
    <3> HIDE DEF Bad
    <3> QED
      BY <1>0, <1>1, MinimalSubset
  <2>2. u \in SUBSET S
    OBVIOUS
  <2>3. u # {}
    <3>1. Im({}) = {}
      OBVIOUS
    <3> QED
      BY <3>1, SumEmpty
  <2>4. PICK x \in u : TRUE
    BY <2>3
  <2> DEFINE w == u \ {x}
  <2>5. Sum(f, w) = Sum(g, Im(w))
    <3>1. w \in SUBSET u /\ w # u /\ w \in SUBSET S
      BY <2>2, <2>4
    <3> QED
      BY <2>1, <3>1
  <2>6. Im(w) = Im(u) \ {h[x]} /\ h[x] \in Im(u) /\ Im(u) \subseteq T
    BY <2>2, <2>4
  <2>7. IsFiniteSet(u) /\ IsFiniteSet(Im(u)) /\ IntOn(f, u) /\ IntOn(g, Im(u))
    <3>1. IsFiniteSet(u) /\ IsFiniteSet(Im(u))
      BY <2>2, <2>6, FS_Subset
    <3> QED
      BY <3>1, <2>2, <2>6 DEF IntOn
  <2>8. Sum(f, u) = f[x] + Sum(f, w)
    BY <2>7, <2>4, SumSplitsOff
  <2>9. Sum(g, Im(u)) = g[h[x]] + Sum(g, Im(w))
    <3> HIDE DEF Im, w
    <3> QED
      BY <2>6, <2>7, SumSplitsOff
  <2> QED
    BY <2>2, <2>5, <2>8, <2>9
<1>2. S \notin Bad
  BY <1>1
<1>3. Im(S) = T
  OBVIOUS
<1> QED
  BY <1>2, <1>3

(* Equal terms, equal sums.                                                *)
LEMMA SumSame ==
  ASSUME NEW S, IsFiniteSet(S), NEW f, NEW g, IntOn(f, S), \A x \in S : f[x] = g[x]
  PROVE  Sum(f, S) = Sum(g, S)
<1> DEFINE h == [x \in S |-> x]
<1>1. /\ h \in [S -> S] /\ IntOn(g, S)
      /\ \A x, y \in S : h[x] = h[y] => x = y
      /\ \A t \in S : \E x \in S : h[x] = t
      /\ \A x \in S : f[x] = g[h[x]]
  BY DEF IntOn
<1> HIDE DEF h
<1> QED
  BY <1>1, SumCorresponds

LEMMA SumDisjoint ==
  ASSUME NEW S, NEW T, IsFiniteSet(S), IsFiniteSet(T), S \cap T = {}, NEW f,
         IntOn(f, S), IntOn(f, T)
  PROVE  Sum(f, S \cup T) = Sum(f, S) + Sum(f, T)
<1> DEFINE Bad == {u \in SUBSET T : Sum(f, S \cup u) # Sum(f, S) + Sum(f, u)}
<1>0. Bad \in SUBSET (SUBSET T)
  OBVIOUS
<1>1. ASSUME Bad # {} PROVE FALSE
  <2>1. PICK u \in Bad : \A w \in SUBSET u : w # u => w \notin Bad
    <3> HIDE DEF Bad
    <3> QED
      BY <1>0, <1>1, MinimalSubset
  <2>2. u \in SUBSET T
    OBVIOUS
  <2>3. Sum(f, S) \in Int
    BY SumInt
  <2>4. u # {}
    <3>1. Sum(f, S \cup {}) = Sum(f, S) + Sum(f, {})
      <4>1. S \cup {} = S /\ Sum(f, {}) = 0
        BY SumEmpty
      <4> QED
        BY <2>3, <4>1
    <3> QED
      BY <3>1
  <2>5. PICK x \in u : TRUE
    BY <2>4
  <2> DEFINE w == u \ {x}
  <2>6. w \in SUBSET u /\ w # u /\ w \in SUBSET T
    BY <2>2, <2>5
  <2>7. Sum(f, S \cup w) = Sum(f, S) + Sum(f, w)
    BY <2>1, <2>6
  <2>8. IsFiniteSet(w) /\ IsFiniteSet(S \cup w) /\ IntOn(f, w) /\ IntOn(f, S \cup w)
    <3>1. IsFiniteSet(w)
      BY <2>6, FS_Subset
    <3>2. IsFiniteSet(S \cup w)
      BY <3>1, FS_Union
    <3> QED
      BY <3>1, <3>2, <2>6 DEF IntOn
  <2>9. w \cup {x} = u /\ (S \cup w) \cup {x} = S \cup u /\ x \notin w /\ x \notin S \cup w
        /\ f[x] \in Int
    BY <2>2, <2>5 DEF IntOn
  <2>10. Sum(f, u) = f[x] + Sum(f, w)
    <3> HIDE DEF w
    <3> QED
      BY <2>8, <2>9, SumAdd
  <2>11. Sum(f, S \cup u) = f[x] + Sum(f, S \cup w)
    <3> HIDE DEF w
    <3> QED
      BY <2>8, <2>9, SumAdd
  <2>12. Sum(f, w) \in Int
    BY <2>8, SumInt
  <2>13. Sum(f, S \cup u) = Sum(f, S) + Sum(f, u)
    <3> HIDE DEF w, Bad
    <3> QED
      BY <2>3, <2>7, <2>9, <2>10, <2>11, <2>12
  <2> QED
    BY <2>13
<1>2. T \notin Bad
  BY <1>1
<1> QED
  BY <1>2

LEMMA SumNegated ==
  ASSUME NEW S, IsFiniteSet(S), NEW f, NEW g, IntOn(f, S), \A x \in S : g[x] = -f[x]
  PROVE  Sum(g, S) = -Sum(f, S)
<1> DEFINE Bad == {u \in SUBSET S : Sum(g, u) # -Sum(f, u)}
<1>0. Bad \in SUBSET (SUBSET S)
  OBVIOUS
<1>1. ASSUME Bad # {} PROVE FALSE
  <2>1. PICK u \in Bad : \A w \in SUBSET u : w # u => w \notin Bad
    <3> HIDE DEF Bad
    <3> QED
      BY <1>0, <1>1, MinimalSubset
  <2>2. u \in SUBSET S
    OBVIOUS
  <2>3. u # {}
    BY SumEmpty
  <2>4. PICK x \in u : TRUE
    BY <2>3
  <2> DEFINE w == u \ {x}
  <2>5. Sum(g, w) = -Sum(f, w)
    <3>1. w \in SUBSET u /\ w # u /\ w \in SUBSET S
      BY <2>2, <2>4
    <3> QED
      BY <2>1, <3>1
  <2>6. IsFiniteSet(u) /\ IntOn(f, u) /\ IntOn(g, u)
    BY <2>2, FS_Subset DEF IntOn
  <2>7. Sum(f, u) = f[x] + Sum(f, w) /\ Sum(g, u) = g[x] + Sum(g, w)
    BY <2>4, <2>6, SumSplitsOff
  <2>8. f[x] \in Int /\ g[x] = -f[x] /\ Sum(f, w) \in Int
    <3>1. IsFiniteSet(w) /\ IntOn(f, w)
      BY <2>2, FS_Subset DEF IntOn
    <3> QED
      BY <2>2, <3>1, SumInt DEF IntOn
  <2>9. Sum(g, u) = -Sum(f, u)
    <3> HIDE DEF w, Bad
    <3> QED
      BY <2>5, <2>7, <2>8
  <2> QED
    BY <2>9
<1>2. S \notin Bad
  BY <1>1
<1> QED
  BY <1>2
=============================================================================
