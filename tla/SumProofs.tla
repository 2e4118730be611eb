----------------------------- MODULE SumProofs -----------------------------
(***************************************************************************)
(* Sums over finite sets.  SumFunctionOnSet folds a set by a recursive     *)
(* function that takes out one element after another.  The provers cannot  *)
(* apply an induction theorem, so that what would be one is an argument    *)
(* about a smallest set for which the claim fails.                         *)
(***************************************************************************)
EXTENDS FiniteSetTheorems, FiniteSetsExt, TLAPS

\* Among any sets of elements of a finite set there is one that has no other
\* of them inside.
LEMMA SmallestSet ==
    ASSUME NEW S, IsFiniteSet(S), NEW T \in SUBSET (SUBSET S), T # {}
    PROVE  \E s \in T : \A t \in T : t \subseteq s => t = s
<1>1. IsWellFoundedOn(StrictSubsetOrdering(S), SUBSET S)
  BY FS_StrictSubsetOrderingWellFounded, FS_FiniteSubsetsOfFinite
<1>2. PICK s \in T : \A t \in T : <<t, s>> \notin StrictSubsetOrdering(S)
  BY <1>1, WFMin
<1>3. ASSUME NEW t \in T, t \subseteq s PROVE t = s
  BY <1>2, <1>3 DEF StrictSubsetOrdering
<1> QED
  BY <1>3

\* g adds up f: it is the function by which the fold is defined.
Adds(g, f, S) ==
    g = [s \in SUBSET S |->
            IF s = {} THEN 0
            ELSE LET x == CHOOSE x \in s : TRUE IN f[x] + g[s \ {x}]]

\* Two functions that add up f agree where both are defined.
LEMMA AddsUnique ==
    ASSUME NEW S, IsFiniteSet(S), NEW f, NEW T, T \subseteq S, NEW g, NEW h,
           Adds(g, f, S), Adds(h, f, T)
    PROVE  \A t \in SUBSET T : g[t] = h[t]
<1> DEFINE Bad == {t \in SUBSET T : g[t] # h[t]}
<1> SUFFICES ASSUME Bad # {} PROVE FALSE
  OBVIOUS
<1>1. Bad \in SUBSET (SUBSET S)
  OBVIOUS
<1>2. PICK s \in Bad : \A t \in Bad : t \subseteq s => t = s
  <2> HIDE DEF Bad
  <2> QED
    BY <1>1, SmallestSet
<1>3. s # {}
  BY <1>2 DEF Adds
<1> DEFINE x == CHOOSE x \in s : TRUE
<1>4. x \in s
  BY <1>3
<1>5. g[s \ {x}] = h[s \ {x}]
  BY <1>2, <1>4
<1>6. g[s] = f[x] + g[s \ {x}] /\ h[s] = f[x] + h[s \ {x}]
  BY <1>2, <1>3 DEF Adds
<1> QED
  BY <1>2, <1>5, <1>6

\* Some function adds up f.
LEMMA AddsExists ==
    ASSUME NEW S, IsFiniteSet(S), NEW f
    PROVE  \E g : Adds(g, f, S)
<1> DEFINE Bad == {t \in SUBSET S : ~ \E g : Adds(g, f, t)}
           G(t) == CHOOSE g : Adds(g, f, t)
<1>1. Bad = {}
  <2> SUFFICES ASSUME Bad # {} PROVE FALSE
    OBVIOUS
  <2>1. Bad \in SUBSET (SUBSET S)
    OBVIOUS
  <2>2. PICK s \in Bad : \A t \in Bad : t \subseteq s => t = s
    <3> HIDE DEF Bad
    <3> QED
      BY <2>1, SmallestSet
  <2>3. \A t \in SUBSET s : t # s => Adds(G(t), f, t)
    BY <2>2
  <2> DEFINE below(t) == LET x == CHOOSE x \in t : TRUE IN f[x] + G(t \ {x})[t \ {x}]
             g == [t \in SUBSET s |-> IF t = {} THEN 0 ELSE below(t)]
  <2>4. ASSUME NEW t \in SUBSET s, t # s PROVE g[t] = G(t)[t]
    <3>1. Adds(G(t), f, t)
      BY <2>3, <2>4
    <3>2. CASE t = {}
      <4>1. g[t] = 0
        BY <3>2
      <4>2. G(t)[t] = 0
        BY <3>1, <3>2 DEF Adds
      <4> QED
        BY <4>1, <4>2
    <3>3. CASE t # {}
      <4> DEFINE x == CHOOSE x \in t : TRUE
      <4>1. x \in t
        BY <3>3
      <4>2. Adds(G(t \ {x}), f, t \ {x})
        BY <2>3, <4>1
      <4>3. IsFiniteSet(t)
        BY FS_Subset
      <4>4. G(t)[t \ {x}] = G(t \ {x})[t \ {x}]
        <5> DEFINE u == t \ {x}
                   gt == G(t)
                   gu == G(u)
        <5>1. Adds(gt, f, t) /\ Adds(gu, f, u) /\ u \subseteq t /\ u \in SUBSET u
          BY <3>1, <4>2
        <5> HIDE DEF u, gt, gu
        <5>2. gt[u] = gu[u]
          BY <5>1, <4>3, AddsUnique
        <5> QED
          BY <5>2 DEF u, gt, gu
      <4>5. G(t)[t] = f[x] + G(t)[t \ {x}]
        BY <3>1, <3>3 DEF Adds
      <4>6. g[t] = f[x] + G(t \ {x})[t \ {x}]
        BY <3>3
      <4> QED
        BY <4>4, <4>5, <4>6
    <3> QED
      BY <3>2, <3>3
  <2>5. ASSUME NEW t \in SUBSET s, t # {}
        PROVE  g[t] = LET x == CHOOSE x \in t : TRUE IN f[x] + g[t \ {x}]
    <3> DEFINE x == CHOOSE x \in t : TRUE
    <3>1. x \in t
      BY <2>5
    <3>2. t \ {x} \in SUBSET s /\ t \ {x} # s
      BY <3>1
    <3>3. g[t \ {x}] = G(t \ {x})[t \ {x}]
      BY <3>2, <2>4
    <3>4. g[t] = f[x] + G(t \ {x})[t \ {x}]
      BY <2>5
    <3> QED
      BY <3>3, <3>4
  <2>6. g = [t \in SUBSET s |-> g[t]] /\ g[{}] = 0
    OBVIOUS
  <2>7. Adds(g, f, s)
    <3> HIDE DEF g
    <3> QED
      BY <2>5, <2>6 DEF Adds
  <2> QED
    BY <2>2, <2>7
<1> QED
  BY <1>1

\* A sum is what any function that adds up f gives, of every subset.
LEMMA SumIsAdded ==
    ASSUME NEW S, IsFiniteSet(S), NEW f, NEW g, Adds(g, f, S), NEW T \in SUBSET S
    PROVE  SumFunctionOnSet(f, T) = g[T]
<1>1. SumFunctionOnSet(f, T) = (CHOOSE h : Adds(h, f, T))[T]
  BY DEF SumFunctionOnSet, FoldFunctionOnSet, MapThenFoldSet, Adds
<1>2. IsFiniteSet(T)
  BY FS_Subset
<1>3. \E h : Adds(h, f, T)
  BY <1>2, AddsExists
<1> DEFINE h == CHOOSE h : Adds(h, f, T)
<1>4. Adds(h, f, T)
  BY <1>3
<1> HIDE DEF h
<1>5. g[T] = h[T]
  BY <1>4, AddsUnique
<1> QED
  BY <1>1, <1>5 DEF h

-----------------------------------------------------------------------------
\* Nothing adds up to 0.
LEMMA SumEmpty == ASSUME NEW f PROVE SumFunctionOnSet(f, {}) = 0
<1>1. IsFiniteSet({})
  BY FS_EmptySet
<1>2. PICK g : Adds(g, f, {})
  BY <1>1, AddsExists
<1>3. g[{}] = 0
  BY <1>2 DEF Adds
<1>4. SumFunctionOnSet(f, {}) = g[{}]
  BY <1>1, <1>2, SumIsAdded
<1> QED
  BY <1>3, <1>4

\* A sum of integers is one, and any of its terms may be taken out first.
LEMMA SumTake ==
    ASSUME NEW S, IsFiniteSet(S), NEW f, \A x \in S : f[x] \in Int
    PROVE  /\ SumFunctionOnSet(f, S) \in Int
           /\ \A x \in S :
                SumFunctionOnSet(f, S) = f[x] + SumFunctionOnSet(f, S \ {x})
<1>1. PICK g : Adds(g, f, S)
  BY AddsExists
<1> DEFINE Good(s) == /\ g[s] \in Int
                      /\ \A x \in s : g[s] = f[x] + g[s \ {x}]
           Bad == {s \in SUBSET S : ~Good(s)}
<1>2. Bad = {}
  <2> SUFFICES ASSUME Bad # {} PROVE FALSE
    OBVIOUS
  <2>1. PICK s \in Bad : \A t \in Bad : t \subseteq s => t = s
    <3>1. Bad \in SUBSET (SUBSET S)
      OBVIOUS
    <3> HIDE DEF Bad
    <3> QED
      BY <3>1, SmallestSet
  <2>2. \A t \in SUBSET s : t # s => Good(t)
    BY <2>1
  <2>3. s # {}
    BY <2>1, <1>1 DEF Adds
  <2> DEFINE y == CHOOSE x \in s : TRUE
  <2>4. y \in s /\ f[y] \in Int
    BY <2>1, <2>3
  <2>5. g[s] = f[y] + g[s \ {y}]
    BY <2>1, <2>3, <1>1 DEF Adds
  <2> HIDE DEF y
  <2>6. g[s \ {y}] \in Int
    BY <2>2, <2>4
  <2>7. ASSUME NEW x \in s PROVE g[s] = f[x] + g[s \ {x}]
    <3>1. CASE x = y
      BY <2>5, <3>1
    <3>2. CASE x # y
      <4>1. g[s \ {y}] = f[x] + g[(s \ {y}) \ {x}]
        BY <2>2, <2>4, <3>2
      <4>2. g[s \ {x}] = f[y] + g[(s \ {x}) \ {y}]
        BY <2>2, <2>4, <3>2
      <4>3. (s \ {y}) \ {x} = (s \ {x}) \ {y}
        OBVIOUS
      <4>4. g[(s \ {x}) \ {y}] \in Int
        BY <2>2, <2>4
      <4>5. f[x] \in Int
        BY <2>1
      <4> DEFINE z == g[(s \ {x}) \ {y}]
      <4>6. g[s \ {y}] = f[x] + z
        BY <4>1, <4>3
      <4>7. g[s \ {x}] = f[y] + z /\ z \in Int
        BY <4>2, <4>4
      <4> HIDE DEF z
      <4>8. f[y] + (f[x] + z) = f[x] + (f[y] + z)
        BY <2>4, <4>5, <4>7
      <4> QED
        BY <2>5, <4>6, <4>7, <4>8
    <3> QED
      BY <3>1, <3>2
  <2>8. Good(s)
    BY <2>4, <2>5, <2>6, <2>7
  <2> QED
    BY <2>1, <2>8
<1>3. Good(S)
  BY <1>2
<1>4. \A T \in SUBSET S : SumFunctionOnSet(f, T) = g[T]
  BY <1>1, SumIsAdded
<1> QED
  BY <1>3, <1>4

\* The same, for an element that is put in.
LEMMA SumPut ==
    ASSUME NEW S, IsFiniteSet(S), NEW f, NEW x, x \notin S,
           f[x] \in Int, \A y \in S : f[y] \in Int
    PROVE  SumFunctionOnSet(f, S \cup {x}) = f[x] + SumFunctionOnSet(f, S)
<1>1. IsFiniteSet(S \cup {x}) /\ (S \cup {x}) \ {x} = S
  BY FS_AddElement
<1> QED
  BY <1>1, SumTake

\* Sums of equal terms are equal.
LEMMA SumSame ==
    ASSUME NEW S, IsFiniteSet(S), NEW f, NEW g,
           \A x \in S : f[x] \in Int /\ g[x] = f[x]
    PROVE  SumFunctionOnSet(g, S) = SumFunctionOnSet(f, S)
<1> DEFINE Bad == {s \in SUBSET S : SumFunctionOnSet(g, s) # SumFunctionOnSet(f, s)}
<1> SUFFICES ASSUME Bad # {} PROVE FALSE
  OBVIOUS
<1>1. PICK s \in Bad : \A t \in Bad : t \subseteq s => t = s
  <2>1. Bad \in SUBSET (SUBSET S)
    OBVIOUS
  <2> HIDE DEF Bad
  <2> QED
    BY <2>1, SmallestSet
<1>2. PICK x : x \in s
  BY <1>1, SumEmpty
<1>3. SumFunctionOnSet(g, s \ {x}) = SumFunctionOnSet(f, s \ {x})
  BY <1>1, <1>2
<1>4. IsFiniteSet(s)
  BY FS_Subset
<1>5. /\ SumFunctionOnSet(f, s) = f[x] + SumFunctionOnSet(f, s \ {x})
      /\ SumFunctionOnSet(g, s) = g[x] + SumFunctionOnSet(g, s \ {x})
  BY <1>2, <1>4, SumTake
<1> QED
  BY <1>1, <1>2, <1>3, <1>5

\* A sum of sums of terms is the sum of the sums.
LEMMA SumPlus ==
    ASSUME NEW S, IsFiniteSet(S), NEW f, NEW g, NEW h,
           \A x \in S : f[x] \in Int /\ g[x] \in Int /\ h[x] = f[x] + g[x]
    PROVE  SumFunctionOnSet(h, S) = SumFunctionOnSet(f, S) + SumFunctionOnSet(g, S)
<1> DEFINE Bad == {s \in SUBSET S : SumFunctionOnSet(h, s)
                                    # SumFunctionOnSet(f, s) + SumFunctionOnSet(g, s)}
<1> SUFFICES ASSUME Bad # {} PROVE FALSE
  OBVIOUS
<1>1. PICK s \in Bad : \A t \in Bad : t \subseteq s => t = s
  <2>1. Bad \in SUBSET (SUBSET S)
    OBVIOUS
  <2> HIDE DEF Bad
  <2> QED
    BY <2>1, SmallestSet
<1>2. PICK x : x \in s
  <2>1. s # {}
    <3>1. SumFunctionOnSet(h, {}) = SumFunctionOnSet(f, {}) + SumFunctionOnSet(g, {})
      BY SumEmpty
    <3> QED
      BY <1>1, <3>1
  <2> QED
    BY <2>1
<1>3. SumFunctionOnSet(h, s \ {x})
         = SumFunctionOnSet(f, s \ {x}) + SumFunctionOnSet(g, s \ {x})
  BY <1>1, <1>2
<1>4. IsFiniteSet(s) /\ IsFiniteSet(s \ {x})
  BY FS_Subset
<1>5. /\ SumFunctionOnSet(f, s) = f[x] + SumFunctionOnSet(f, s \ {x})
      /\ SumFunctionOnSet(g, s) = g[x] + SumFunctionOnSet(g, s \ {x})
      /\ SumFunctionOnSet(h, s) = h[x] + SumFunctionOnSet(h, s \ {x})
  BY <1>2, <1>4, SumTake
<1>6. SumFunctionOnSet(f, s \ {x}) \in Int /\ SumFunctionOnSet(g, s \ {x}) \in Int
  BY <1>4, SumTake
<1>7. f[x] \in Int /\ g[x] \in Int /\ h[x] = f[x] + g[x]
  BY <1>2
<1> QED
  BY <1>1, <1>3, <1>5, <1>6, <1>7

\* Terms of 0 may be left out.
LEMMA SumZeros ==
    ASSUME NEW S, IsFiniteSet(S), NEW f, NEW T, T \subseteq S,
           \A x \in S : f[x] \in Int, \A x \in S \ T : f[x] = 0
    PROVE  SumFunctionOnSet(f, S) = SumFunctionOnSet(f, T)
<1> DEFINE Bad == {s \in SUBSET S : T \subseteq s
                        /\ SumFunctionOnSet(f, s) # SumFunctionOnSet(f, T)}
<1> SUFFICES ASSUME Bad # {} PROVE FALSE
  OBVIOUS
<1>1. PICK s \in Bad : \A t \in Bad : t \subseteq s => t = s
  <2>1. Bad \in SUBSET (SUBSET S)
    OBVIOUS
  <2> HIDE DEF Bad
  <2> QED
    BY <2>1, SmallestSet
<1>2. PICK x \in s : x \notin T
  <2>1. s # T /\ T \subseteq s
    BY <1>1
  <2> QED
    BY <2>1
<1>3. SumFunctionOnSet(f, s \ {x}) = SumFunctionOnSet(f, T)
  BY <1>1, <1>2
<1>4. IsFiniteSet(s) /\ IsFiniteSet(s \ {x})
  BY FS_Subset
<1>5. SumFunctionOnSet(f, s) = 0 + SumFunctionOnSet(f, s \ {x})
  BY <1>2, <1>4, SumTake
<1>6. SumFunctionOnSet(f, s \ {x}) \in Int
  BY <1>4, SumTake
<1> QED
  BY <1>1, <1>3, <1>5, <1>6

\* A sum of naturals is one, and grows with the set.
LEMMA SumGrows ==
    ASSUME NEW S, IsFiniteSet(S), NEW f, NEW T, T \subseteq S,
           \A x \in S : f[x] \in Nat
    PROVE  /\ SumFunctionOnSet(f, S) \in Nat /\ SumFunctionOnSet(f, T) \in Nat
           /\ SumFunctionOnSet(f, T) <= SumFunctionOnSet(f, S)
<1> DEFINE Less(s) == \A u \in SUBSET s : /\ SumFunctionOnSet(f, u) \in Nat
                                          /\ SumFunctionOnSet(f, s) \in Nat
                                          /\ SumFunctionOnSet(f, u) <= SumFunctionOnSet(f, s)
           Bad == {s \in SUBSET S : ~Less(s)}
<1> SUFFICES ASSUME Bad # {} PROVE FALSE
  OBVIOUS
<1>1. PICK s \in Bad : \A t \in Bad : t \subseteq s => t = s
  <2>1. Bad \in SUBSET (SUBSET S)
    OBVIOUS
  <2> HIDE DEF Bad
  <2> QED
    BY <2>1, SmallestSet
<1>2. \A t \in SUBSET s : t # s => Less(t)
  BY <1>1
<1>3. IsFiniteSet(s)
  BY FS_Subset
<1>4. ASSUME NEW x \in s
      PROVE  /\ SumFunctionOnSet(f, s) = f[x] + SumFunctionOnSet(f, s \ {x})
             /\ SumFunctionOnSet(f, s \ {x}) \in Nat /\ f[x] \in Nat
  BY <1>2, <1>3, SumTake
<1>5. SumFunctionOnSet(f, s) \in Nat
  <2>1. CASE s = {}
    BY <2>1, SumEmpty
  <2>2. CASE s # {}
    <3>1. PICK x \in s : TRUE
      BY <2>2
    <3>2. /\ SumFunctionOnSet(f, s) = f[x] + SumFunctionOnSet(f, s \ {x})
          /\ SumFunctionOnSet(f, s \ {x}) \in Nat /\ f[x] \in Nat
      BY <1>4
    <3> QED
      BY <3>2
  <2> QED
    BY <2>1, <2>2
<1>6. ASSUME NEW u \in SUBSET s, u # s
      PROVE  /\ SumFunctionOnSet(f, u) \in Nat
             /\ SumFunctionOnSet(f, u) <= SumFunctionOnSet(f, s)
  <2>1. PICK x \in s : x \notin u
    BY <1>6
  <2>2. /\ SumFunctionOnSet(f, u) \in Nat
        /\ SumFunctionOnSet(f, u) <= SumFunctionOnSet(f, s \ {x})
    BY <1>2, <2>1
  <2> QED
    BY <2>1, <2>2, <1>4
<1> QED
  BY <1>1, <1>5, <1>6

=============================================================================
