--------------------------- MODULE GatewayProofs ---------------------------
(***************************************************************************)
(* The rotation of providers, and what the gateway's requests do with it   *)
(* and with their orders, for any number of requests, providers and        *)
(* weights and whatever goes wrong: no provider is owed without bound, or  *)
(* passed over without end; tokens are frozen while a provider works, the  *)
(* bill agrees with the answer, and an order is resolved once.             *)
(***************************************************************************)
EXTENDS Gateway, SumProofs

(* The rotation *)

\* What a group of providers is owed together, and one turn of all of them.
SumOf(S) == SumFunctionOnSet(current, S)
Turn == WeightOf(Providers)

\* What any group of providers is owed, doubled, is at most a turn for each
\* pair of one of them and one of the others.
Balance ==
    /\ SumOf(Providers) = 0
    /\ \A S \in SUBSET Providers :
         2 * SumOf(S) <= (Cardinality(S) * (Cardinality(Providers) - Cardinality(S))) * Turn

\* Each time a provider is passed over it is owed its weight more.
Owed == \A p \in Providers : 2 * (passed[p] * Weight[p]) <= 2 * current[p] + Allowance

Rotation == DispatchTypeOK /\ Balance /\ Owed

-----------------------------------------------------------------------------
\* Weights add up to a natural number, no more for some than for all.
LEMMA WeightsAddUp ==
    ASSUME NEW S \in SUBSET Providers
    PROVE  /\ IsFiniteSet(S) /\ Cardinality(S) \in Nat
           /\ WeightOf(S) \in Nat /\ WeightOf(S) <= Turn /\ Turn \in Nat
<1>1. \A q \in Providers : Weight[q] \in Nat
  BY WeightAssumption
<1>2. IsFiniteSet(S) /\ Cardinality(S) \in Nat
  BY FS_Subset, FS_CardinalityType, WeightAssumption
<1> QED
  BY <1>1, <1>2, WeightAssumption, SumGrows DEF WeightOf, Turn

\* So do current weights.
LEMMA CurrentAddsUp ==
    ASSUME DispatchTypeOK, NEW S \in SUBSET Providers
    PROVE  SumOf(S) \in Int
<1>1. \A q \in S : current[q] \in Int
  BY DEF DispatchTypeOK
<1> QED
  BY <1>1, WeightsAddUp, SumTake DEF SumOf

\* What the available ones of a group gain before the comparison.
LEMMA RaisedAddsUp ==
    ASSUME DispatchTypeOK, NEW S \in SUBSET Providers
    PROVE  SumFunctionOnSet([q \in Providers |-> Raised(q)], S)
             = SumOf(S) + WeightOf(S \cap Up)
<1> DEFINE gain == [q \in Providers |-> IF q \in Up THEN Weight[q] ELSE 0]
           raised == [q \in Providers |-> Raised(q)]
<1>1. IsFiniteSet(S) /\ IsFiniteSet(S \cap Up)
  BY WeightsAddUp
<1>2. \A q \in Providers : Weight[q] \in Int /\ current[q] \in Int
  BY WeightAssumption DEF DispatchTypeOK
<1>3. SumFunctionOnSet(raised, S) = SumFunctionOnSet(current, S) + SumFunctionOnSet(gain, S)
  <2>1. \A q \in S : current[q] \in Int /\ gain[q] \in Int /\ raised[q] = current[q] + gain[q]
    BY <1>2 DEF Raised
  <2> HIDE DEF gain, raised
  <2> QED
    BY <1>1, <2>1, SumPlus
<1>4. SumFunctionOnSet(gain, S) = SumFunctionOnSet(gain, S \cap Up)
  <2>1. /\ \A q \in S : gain[q] \in Int
        /\ \A q \in S \ (S \cap Up) : gain[q] = 0
    BY <1>2
  <2> HIDE DEF gain
  <2> QED
    BY <1>1, <2>1, SumZeros
<1>5. SumFunctionOnSet(gain, S \cap Up) = WeightOf(S \cap Up)
  <2>1. \A q \in S \cap Up : Weight[q] \in Int /\ gain[q] = Weight[q]
    BY <1>2
  <2> HIDE DEF gain
  <2> QED
    BY <1>1, <2>1, SumSame DEF WeightOf
<1> QED
  BY <1>3, <1>4, <1>5 DEF SumOf

\* A selection: a group that has the one selected pays for those outside it,
\* any other keeps what it gained.
LEMMA SelectedAddsUp ==
    ASSUME DispatchTypeOK, NEW p \in Providers, Select(p), NEW S \in SUBSET Providers
    PROVE  SumOf(S)' = SumOf(S) + WeightOf(S \cap Up) - (IF p \in S THEN WeightOf(Up) ELSE 0)
<1> DEFINE raised == [q \in Providers |-> Raised(q)]
<1>1. /\ WeightOf(S \cap Up) \in Nat /\ WeightOf(Up) \in Nat /\ SumOf(S) \in Int
      /\ IsFiniteSet(S) /\ IsFiniteSet(S \ {p})
  BY WeightsAddUp, CurrentAddsUp DEF Up
<1>2. \A q \in Providers : raised[q] \in Int
  BY WeightAssumption DEF DispatchTypeOK, Raised
<1>3. \A q \in Providers : current'[q] = raised[q] - (IF q = p THEN WeightOf(Up) ELSE 0)
  BY DEF Select
<1>4. SumFunctionOnSet(raised, S) = SumOf(S) + WeightOf(S \cap Up)
  BY RaisedAddsUp
<1> HIDE DEF raised
<1>5. CASE p \notin S
  <2>1. \A q \in S : raised[q] \in Int /\ current'[q] = raised[q]
    BY <1>2, <1>3, <1>5
  <2>2. SumFunctionOnSet(current', S) = SumFunctionOnSet(raised, S)
    BY <2>1, <1>1, SumSame
  <2> QED
    BY <2>2, <1>1, <1>4, <1>5 DEF SumOf
<1>6. CASE p \in S
  <2>1. /\ \A q \in S \ {p} : raised[q] \in Int /\ current'[q] = raised[q]
        /\ \A q \in S : raised[q] \in Int /\ current'[q] \in Int
    BY <1>1, <1>2, <1>3
  <2>2. SumFunctionOnSet(current', S \ {p}) = SumFunctionOnSet(raised, S \ {p})
    BY <2>1, <1>1, SumSame
  <2>3. SumFunctionOnSet(current', S) = current'[p] + SumFunctionOnSet(current', S \ {p})
    BY <2>1, <1>1, <1>6, SumTake
  <2>4. SumFunctionOnSet(raised, S) = raised[p] + SumFunctionOnSet(raised, S \ {p})
    BY <2>1, <1>1, <1>6, SumTake
  <2>5. SumFunctionOnSet(raised, S \ {p}) \in Int
    BY <2>1, <1>1, SumTake
  <2>6. current'[p] = raised[p] - WeightOf(Up) /\ raised[p] \in Int
    BY <1>2, <1>3
  <2>7. SumFunctionOnSet(current', S) = SumFunctionOnSet(raised, S) - WeightOf(Up)
    BY <2>2, <2>3, <2>4, <2>5, <2>6, <1>1
  <2> QED
    BY <2>7, <1>1, <1>4, <1>6 DEF SumOf
<1> QED
  BY <1>5, <1>6

\* The pairs of k of n with the others, as k takes in one more, or leaves one.
LEMMA PairsOf ==
    ASSUME NEW n \in Int, NEW k \in Int, NEW w \in Int
    PROVE  ((k + 1) * (n - (k + 1))) * w + ((k - 1) * (n - (k - 1))) * w + 2 * w
             = 2 * ((k * (n - k)) * w)
<1> DEFINE more == (k + 1) * (n - (k + 1))
           less == (k - 1) * (n - (k - 1))
           same == k * (n - k)
<1>1. more + less + 2 = 2 * same
  OBVIOUS
<1>2. more \in Int /\ less \in Int /\ same \in Int
  OBVIOUS
<1> HIDE DEF more, less, same
<1>3. more * w + less * w + 2 * w = (more + less + 2) * w
  BY <1>2
<1>4. (2 * same) * w = 2 * (same * w)
  BY <1>2
<1>5. more * w + less * w + 2 * w = 2 * (same * w)
  BY <1>1, <1>3, <1>4
<1> QED
  BY <1>5 DEF more, less, same

\* The bound of a group when one of it is compared with the one selected: its
\* own is half of that of the group without it and of the group with the other.
LEMMA SelectBalances ==
    ASSUME Rotation, DispatchTypeOK', NEW p \in Providers, Select(p)
    PROVE  Balance'
<1> DEFINE n == Cardinality(Providers)
           Pairs(S) == (Cardinality(S) * (n - Cardinality(S))) * Turn
           Bad == {S \in SUBSET Providers : ~ (2 * SumOf(S)' <= Pairs(S))}
<1>1. n \in Nat /\ Turn \in Nat /\ WeightOf(Up) \in Nat
  BY WeightsAddUp DEF Up
<1>2. \A S \in SUBSET Providers :
         /\ SumOf(S) \in Int /\ SumOf(S)' \in Int
         /\ Cardinality(S) \in Nat /\ IsFiniteSet(S)
         /\ WeightOf(S \cap Up) \in Nat /\ WeightOf(S \cap Up) <= Turn
         /\ WeightOf(S \cap Up) <= WeightOf(Up)
  <2> SUFFICES ASSUME NEW S \in SUBSET Providers
               PROVE  /\ SumOf(S) \in Int /\ SumOf(S)' \in Int
                      /\ Cardinality(S) \in Nat /\ IsFiniteSet(S)
                      /\ WeightOf(S \cap Up) \in Nat /\ WeightOf(S \cap Up) <= Turn
                      /\ WeightOf(S \cap Up) <= WeightOf(Up)
    OBVIOUS
  <2>1. SumOf(S) \in Int
    BY CurrentAddsUp DEF Rotation
  <2>2. SumOf(S)' \in Int
    <3>1. \A q \in S : current'[q] \in Int
      BY DEF DispatchTypeOK
    <3> QED
      BY <3>1, WeightsAddUp, SumTake DEF SumOf
  <2>3. WeightOf(S \cap Up) <= WeightOf(Up)
    <3>1. IsFiniteSet(Up) /\ \A q \in Up : Weight[q] \in Nat
      BY WeightsAddUp, WeightAssumption DEF Up
    <3> QED
      BY <3>1, SumGrows DEF WeightOf
  <2> QED
    BY <2>1, <2>2, <2>3, WeightsAddUp
<1>3. \A S \in SUBSET Providers :
         SumOf(S)' = SumOf(S) + WeightOf(S \cap Up) - (IF p \in S THEN WeightOf(Up) ELSE 0)
  BY SelectedAddsUp DEF Rotation
<1>4. SumOf(Providers)' = 0
  <2>1. Providers \cap Up = Up
    BY DEF Up
  <2> QED
    BY <1>1, <1>2, <1>3, <2>1 DEF Rotation, Balance
<1>5. \A S \in SUBSET Providers : 2 * SumOf(S) <= Pairs(S)
  BY DEF Rotation, Balance
<1>6. ASSUME NEW S \in SUBSET Providers PROVE Pairs(S) \in Int
  <2>1. Cardinality(S) \in Int /\ n \in Int /\ Turn \in Int
    BY WeightsAddUp
  <2> HIDE DEF n
  <2> QED
    BY <2>1
<1> HIDE DEF n, Pairs
<1>7. Bad = {}
  <2> SUFFICES ASSUME Bad # {} PROVE FALSE
    OBVIOUS
  <2>1. PICK S \in Bad : \A T \in Bad : T \subseteq S => T = S
    <3>1. Bad \in SUBSET (SUBSET Providers)
      OBVIOUS
    <3> HIDE DEF Bad
    <3> QED
      BY <3>1, WeightAssumption, SmallestSet
  <2>2. S \in SUBSET Providers /\ ~ (2 * SumOf(S)' <= Pairs(S))
    BY <2>1
  <2>3. CASE p \in S
    <3>1. SumOf(S)' = SumOf(S) + WeightOf(S \cap Up) - WeightOf(Up)
      BY <2>2, <2>3, <1>3
    <3>2. /\ SumOf(S) \in Int /\ WeightOf(S \cap Up) \in Nat
          /\ WeightOf(S \cap Up) <= WeightOf(Up)
          /\ Pairs(S) \in Int /\ 2 * SumOf(S) <= Pairs(S)
      BY <2>2, <1>2, <1>5, <1>6
    <3> HIDE DEF Bad
    <3> QED
      BY <2>2, <3>1, <3>2, <1>1
  <2>4. CASE S \cap Up = {}
    <3>1. WeightOf(S \cap Up) = 0
      BY <2>4, SumEmpty DEF WeightOf
    <3>2. p \notin S
      BY <2>4 DEF Select
    <3> QED
      BY <2>2, <3>1, <3>2, <1>2, <1>3, <1>5, <1>6
  <2>5. CASE p \notin S /\ S \cap Up # {}
    <3>1. PICK a \in S \cap Up : TRUE
      BY <2>5
    <3> DEFINE T == S \ {a}
               V == S \cup {p}
               k == Cardinality(S)
    <3>2. T \in SUBSET Providers /\ V \in SUBSET Providers /\ a # p /\ a \in Providers
      BY <2>2, <2>5, <3>1 DEF Up
    <3>3. k \in Int /\ Cardinality(T) = k - 1 /\ Cardinality(V) = k + 1
      <4>1. IsFiniteSet(S) /\ Cardinality(S) \in Nat
        BY <1>2, <2>2
      <4>2. Cardinality(T) = k - 1
        BY <4>1, <3>1, FS_RemoveElement
      <4>3. Cardinality(V) = k + 1
        BY <4>1, <2>5, FS_AddElement
      <4> QED
        BY <4>1, <4>2, <4>3
    <3>4. 2 * SumOf(T)' <= Pairs(T)
      BY <2>1, <3>1, <3>2
    <3>5. 2 * SumOf(V) <= Pairs(V)
      BY <1>5, <3>2
    <3>6. Pairs(T) + Pairs(V) + 2 * Turn = 2 * Pairs(S)
      BY <1>1, <3>3, PairsOf DEF Pairs, n
    <3>7. SumOf(V)' = SumOf(V) + WeightOf(V \cap Up) - WeightOf(Up)
      BY <1>3, <3>2
    <3>8. \A q \in Providers : current'[q] \in Int
      BY DEF DispatchTypeOK
    <3>9. SumOf(V)' = current'[p] + SumOf(S)'
      BY <1>2, <2>2, <2>5, <3>8, SumPut DEF SumOf
    <3>10. SumOf(S)' = current'[a] + SumOf(T)'
      BY <1>2, <2>2, <3>1, <3>8, SumTake DEF SumOf
    <3>11. current'[a] <= current'[p] + WeightOf(Up)
      <4>1. Raised(a) <= Raised(p)
        BY <3>1 DEF Select
      <4>2. current'[a] = Raised(a) /\ current'[p] = Raised(p) - WeightOf(Up)
        <5>1. Raised(a) \in Int /\ Raised(p) \in Int
          BY <3>2, WeightAssumption DEF Raised, Rotation, DispatchTypeOK
        <5> QED
          BY <3>2, <5>1 DEF Select
      <4>3. Raised(p) \in Int
        BY WeightAssumption DEF Raised, Rotation, DispatchTypeOK
      <4> QED
        BY <4>1, <4>2, <4>3, <1>1
    <3>12. /\ SumOf(S)' \in Int /\ SumOf(T)' \in Int /\ SumOf(V) \in Int /\ SumOf(V)' \in Int
           /\ WeightOf(V \cap Up) \in Nat /\ WeightOf(V \cap Up) <= Turn
           /\ current'[a] \in Int /\ current'[p] \in Int
           /\ Pairs(S) \in Int /\ Pairs(T) \in Int /\ Pairs(V) \in Int
      BY <1>2, <1>6, <2>2, <3>2, <3>8
    <3> HIDE DEF T, V, k
    <3>13. 2 * SumOf(S)' <= SumOf(V) + Turn + SumOf(T)'
      BY <3>7, <3>9, <3>10, <3>11, <3>12, <1>1
    <3> QED
      BY <2>2, <3>4, <3>5, <3>6, <3>12, <3>13, <1>1
  <2> QED
    BY <2>3, <2>4, <2>5
<1> QED
  BY <1>4, <1>7 DEF Balance, Pairs, n

\* Nobody is owed, or owes, more than the allowance.
Allowed ==
    \A p \in Providers : /\ Allowance \in Int
                         /\ 2 * current[p] <= Allowance
                         /\ 0 <= 2 * current[p] + Allowance

\* What Balance says of one provider and of all but one.
LEMMA AtMostAllowed == DispatchTypeOK /\ Balance => Allowed
<1> SUFFICES ASSUME DispatchTypeOK, Balance, NEW p \in Providers
             PROVE  /\ Allowance \in Int
                    /\ 2 * current[p] <= Allowance
                    /\ 0 <= 2 * current[p] + Allowance
  BY DEF Allowed
<1> DEFINE n == Cardinality(Providers)
           others == Providers \ {p}
<1>1. n \in Nat /\ Turn \in Nat /\ IsFiniteSet(Providers)
  BY WeightsAddUp
<1>2. Cardinality({p}) = 1 /\ Cardinality(others) = n - 1
  BY <1>1, FS_Singleton, FS_RemoveElement
<1>3. \A q \in Providers : current[q] \in Int
  BY DEF DispatchTypeOK
<1>4. SumOf({p}) = current[p]
  <2>1. SumOf({p}) = current[p] + SumOf({p} \ {p})
    BY <1>3, FS_Singleton, SumTake DEF SumOf
  <2>2. {p} \ {p} = {}
    OBVIOUS
  <2> QED
    BY <1>3, <2>1, <2>2, SumEmpty DEF SumOf
<1>5. SumOf(others) = -current[p]
  <2>1. SumOf(Providers) = current[p] + SumOf(others)
    BY <1>1, <1>3, SumTake DEF SumOf
  <2>2. SumOf(others) \in Int
    BY CurrentAddsUp
  <2> QED
    BY <2>1, <2>2, <1>3 DEF Balance
<1>6. 2 * SumOf({p}) <= (1 * (n - 1)) * Turn
  BY <1>2 DEF Balance
<1>7. 2 * SumOf(others) <= ((n - 1) * (n - (n - 1))) * Turn
  BY <1>2 DEF Balance
<1>8. Allowance = (n - 1) * Turn
  BY DEF Allowance, Turn
<1> HIDE DEF n, others
<1>9. 1 * (n - 1) = n - 1 /\ (n - 1) * (n - (n - 1)) = n - 1
  BY <1>1
<1>10. Allowance \in Int
  BY <1>1, <1>8
<1>11. 2 * current[p] <= Allowance /\ 2 * (-current[p]) <= Allowance
  BY <1>4, <1>5, <1>6, <1>7, <1>8, <1>9
<1> QED
  BY <1>3, <1>10, <1>11

-----------------------------------------------------------------------------
\* Nobody is owed anything when the gateway starts.
LEMMA StillBalanced == DispatchInit => Rotation
<1> SUFFICES ASSUME DispatchInit PROVE Rotation
  OBVIOUS
<1> USE DEF DispatchInit
<1>1. DispatchTypeOK
  BY DEF DispatchTypeOK
<1>2. ASSUME NEW S \in SUBSET Providers PROVE SumOf(S) = 0
  <2>1. \A q \in S : current[q] \in Int /\ current[q] = 0
    OBVIOUS
  <2>2. SumFunctionOnSet(current, S) = SumFunctionOnSet(current, {})
    BY <2>1, WeightsAddUp, SumZeros
  <2> QED
    BY <2>2, SumEmpty DEF SumOf
<1>3. ASSUME NEW S \in SUBSET Providers
      PROVE  2 * SumOf(S) <=
                (Cardinality(S) * (Cardinality(Providers) - Cardinality(S))) * Turn
  <2>1. /\ Cardinality(S) \in Nat /\ Cardinality(Providers) \in Nat /\ Turn \in Nat
        /\ Cardinality(S) <= Cardinality(Providers)
    BY WeightsAddUp, WeightAssumption, FS_Subset
  <2>2. ASSUME NEW k \in Nat, NEW m \in Nat, NEW w \in Nat PROVE 0 <= (k * m) * w
    <3>1. k * m \in Nat
      OBVIOUS
    <3> QED
      BY <3>1
  <2>3. Cardinality(Providers) - Cardinality(S) \in Nat
    BY <2>1
  <2> QED
    BY <1>2, <2>1, <2>2, <2>3
<1>4. Balance
  BY <1>2, <1>3 DEF Balance
<1>5. Owed
  <2> SUFFICES ASSUME NEW p \in Providers
               PROVE  2 * (passed[p] * Weight[p]) <= 2 * current[p] + Allowance
    BY DEF Owed
  <2>1. passed[p] = 0 /\ Weight[p] \in Int
    BY WeightAssumption
  <2>2. passed[p] * Weight[p] = 0
    BY <2>1
  <2> QED
    BY <2>2, <1>1, <1>4, AtMostAllowed DEF Allowed
<1> QED
  BY <1>1, <1>4, <1>5 DEF Rotation

\* Whatever a step adds to a provider's turns passed over, it adds its weight
\* to what it is owed; a provider that starts anew owes no more than anybody.
LEMMA StillOwed ==
    ASSUME Rotation, DispatchTypeOK', Balance',
           \A q \in Providers :
              \/ passed'[q] = 0
              \/ passed'[q] = passed[q] /\ current'[q] = current[q]
              \/ passed'[q] = passed[q] + 1 /\ current'[q] = current[q] + Weight[q]
    PROVE  Owed'
<1> SUFFICES ASSUME NEW q \in Providers
             PROVE  2 * (passed'[q] * Weight[q]) <= 2 * current'[q] + Allowance
  BY DEF Owed, Allowance, WeightOf
<1>1. /\ passed[q] \in Nat /\ Weight[q] \in Nat /\ current[q] \in Int
      /\ current'[q] \in Int /\ Allowance \in Int
  BY WeightAssumption, AtMostAllowed DEF Allowed, Rotation, DispatchTypeOK
<1>2. 2 * (passed[q] * Weight[q]) <= 2 * current[q] + Allowance
  BY DEF Rotation, Owed
<1>3. CASE passed'[q] = 0
  <2>1. 0 <= 2 * current'[q] + Allowance
    <3>1. Allowed'
      BY AtMostAllowed, PTL
    <3> QED
      BY <3>1 DEF Allowed, Allowance, WeightOf
  <2>2. passed'[q] * Weight[q] = 0
    BY <1>1, <1>3
  <2> QED
    BY <2>1, <2>2
<1>4. CASE passed'[q] = passed[q] /\ current'[q] = current[q]
  BY <1>2, <1>4
<1>5. CASE passed'[q] = passed[q] + 1 /\ current'[q] = current[q] + Weight[q]
  <2>1. (passed[q] + 1) * Weight[q] = passed[q] * Weight[q] + Weight[q]
    BY <1>1
  <2>2. passed[q] * Weight[q] \in Nat
    BY <1>1
  <2> QED
    BY <1>1, <1>2, <1>5, <2>1, <2>2
<1> QED
  BY <1>3, <1>4, <1>5

\* A step that leaves the current weights alone leaves the balance.
LEMMA SameBalance == ASSUME Balance, UNCHANGED current PROVE Balance'
BY DEF Balance, SumOf, Turn, WeightOf

\* Every step of the rotation keeps what is owed within bounds.
LEMMA RotationStep == Rotation /\ [DispatchNext]_dispatch => Rotation'
<1> SUFFICES ASSUME Rotation, [DispatchNext]_dispatch PROVE Rotation'
  OBVIOUS
<1>1. ASSUME NEW p \in Providers, Select(p) PROVE Rotation'
  <2>1. DispatchTypeOK'
    <3>1. \A q \in Providers : Raised(q) \in Int
      BY WeightAssumption DEF Rotation, DispatchTypeOK, Raised
    <3>2. WeightOf(Up) \in Int
      BY WeightsAddUp DEF Up
    <3> QED
      BY <1>1, <3>1, <3>2 DEF Rotation, DispatchTypeOK, Select, PassOver
  <2>2. Balance'
    BY <1>1, <2>1, SelectBalances
  <2>3. ASSUME NEW q \in Providers
        PROVE  \/ passed'[q] = 0
               \/ passed'[q] = passed[q] + 1 /\ current'[q] = current[q] + Weight[q]
    <3>1. CASE q \notin Up \ {p}
      BY <1>1, <3>1 DEF Select, PassOver
    <3>2. CASE q \in Up \ {p}
      <4>1. passed'[q] = passed[q] + 1
        BY <1>1, <3>2 DEF Select, PassOver
      <4>2. current'[q] = Raised(q) - 0 /\ Raised(q) = current[q] + Weight[q]
        BY <1>1, <3>2 DEF Select, Raised
      <4>3. current[q] + Weight[q] \in Int
        BY WeightAssumption DEF Rotation, DispatchTypeOK
      <4> QED
        BY <4>1, <4>2, <4>3
    <3> QED
      BY <3>1, <3>2
  <2> QED
    BY <2>1, <2>2, <2>3, StillOwed DEF Rotation
<1>2. ASSUME NEW p \in Providers, MarkUnavailable(p) \/ Recover(p) PROVE Rotation'
  <2>1. DispatchTypeOK'
    BY <1>2 DEF Rotation, DispatchTypeOK, MarkUnavailable, Recover
  <2>2. UNCHANGED current
    BY <1>2 DEF MarkUnavailable, Recover
  <2>3. Balance'
    BY <2>2, SameBalance DEF Rotation
  <2>4. \A q \in Providers : passed'[q] = 0 \/ passed'[q] = passed[q]
    BY <1>2 DEF MarkUnavailable, Recover, Rotation, DispatchTypeOK
  <2> QED
    BY <2>1, <2>2, <2>3, <2>4, StillOwed DEF Rotation
<1>3. CASE Restart
  <2>1. DispatchInit'
    BY <1>3 DEF Restart, DispatchInit
  <2> QED
    BY <2>1, StillBalanced, PTL
<1>4. CASE UNCHANGED dispatch
  BY <1>4, SameBalance DEF dispatch, Rotation, DispatchTypeOK, Owed, Allowance, WeightOf
<1> QED
  BY <1>1, <1>2, <1>3, <1>4 DEF DispatchNext

\* Rotation holds in every state of the rotation.
LEMMA RotationHolds == DispatchSpec => []Rotation
BY StillBalanced, RotationStep, PTL DEF DispatchSpec

\* What Rotation means for those who are chosen, or are not.
LEMMA RotationMeans == Rotation => NoDrift /\ NobodyStarves
<1> SUFFICES ASSUME Rotation PROVE NoDrift /\ NobodyStarves
  OBVIOUS
<1>1. ASSUME NEW p \in Providers
      PROVE  /\ 2 * current[p] \in -Allowance .. Allowance
             /\ passed[p] * Weight[p] <= Allowance
  <2>1. /\ Allowance \in Int /\ current[p] \in Int
        /\ 2 * current[p] <= Allowance /\ 0 <= 2 * current[p] + Allowance
    BY AtMostAllowed DEF Allowed, Rotation, DispatchTypeOK
  <2>2. passed[p] * Weight[p] \in Nat
    BY WeightAssumption DEF Rotation, DispatchTypeOK
  <2>3. 2 * (passed[p] * Weight[p]) <= 2 * current[p] + Allowance
    BY DEF Rotation, Owed
  <2> QED
    BY <2>1, <2>2, <2>3
<1>2. SumFunctionOnSet(current, Providers) = 0
  BY DEF Rotation, Balance, SumOf
<1> QED
  BY <1>1, <1>2 DEF NoDrift, NobodyStarves

\* Whoever leaves and comes back between the selections of dispatch.go, for any
\* providers and weights: what is owed adds up to nothing, and stays within the
\* allowance.
THEOREM DebtsAreBounded == DispatchSpec => []NoDrift
BY RotationHolds, RotationMeans, PTL

\* For any providers and weights, an available one is passed over only for so
\* long.
THEOREM EveryTurnComes == DispatchSpec => []NobodyStarves
BY RotationHolds, RotationMeans, PTL

-----------------------------------------------------------------------------
(* The requests *)

\* The inductive invariant.
Inv == RequestsTypeOK /\ FrozenWhileWorking /\ BilledAsAnswered /\ OutcomeKnown

\* A gateway without requests satisfies it.
LEMMA InitInv == Init => Inv
BY DEF Init, Inv, RequestsTypeOK, FrozenWhileWorking, BilledAsAnswered,
       OutcomeKnown, Outcomes, None

\* Every step of every request preserves it: a request's variables change
\* only by its own steps, and each of those leaves them as its next step needs.
LEMMA NextInv == Inv /\ [Next]_vars => Inv'
<1> SUFFICES ASSUME Inv, [Next]_vars PROVE Inv'
  OBVIOUS
<1> USE DEF Inv, RequestsTypeOK, FrozenWhileWorking, BilledAsAnswered,
            OutcomeKnown, Outcomes, None
<1>1. ASSUME NEW r \in Requests, NEW k \in Kinds, Arrive(r, k) PROVE Inv'
  BY <1>1 DEF Arrive
<1>2. ASSUME NEW r \in Requests, Leave(r) PROVE Inv'
  BY <1>2 DEF Leave, handlers, stores
<1>3. ASSUME Crash PROVE Inv'
  BY <1>3 DEF Crash, stores
<1>4. ASSUME NEW r \in Requests, Freeze(r) PROVE Inv'
  <2>1. order' = order \/ order' = [order EXCEPT ![r] = "frozen"]
    BY <1>4 DEF Freeze
  <2>2. /\ \/ order' = [order EXCEPT ![r] = "frozen"] /\ GoTo(r, "select")
           \/ Finish(r) /\ outcome' = [outcome EXCEPT ![r] = "notFrozen"]
        /\ trouble' \in [Requests -> BOOLEAN]
    BY <1>4 DEF Freeze, Succeeds, Fails
  <2>3. pc[r] = "freeze" /\ UNCHANGED <<dispatch, task, audited, here>>
    BY <1>4 DEF Freeze
  <2> QED
    BY <2>1, <2>2, <2>3 DEF GoTo, Finish
<1>5. ASSUME NEW r \in Requests, SelectProvider(r) PROVE Inv'
  BY <1>5 DEF SelectProvider, End, stores
<1>6. ASSUME NEW r \in Requests, FirstChunk(r) PROVE Inv'
  BY <1>6 DEF FirstChunk, GoTo, End, stores
<1>7. ASSUME NEW r \in Requests, CallProvider(r) PROVE Inv'
  BY <1>7 DEF CallProvider, GoTo, End, stores
<1>8. ASSUME NEW r \in Requests, ReadChunks(r) PROVE Inv'
  BY <1>8 DEF ReadChunks, End, stores
<1>9. ASSUME NEW r \in Requests, SaveTask(r) PROVE Inv'
  <2>1. /\ task' \in [Requests -> BOOLEAN]
        /\ trouble' \in [Requests -> BOOLEAN]
    BY <1>9 DEF SaveTask, Succeeds, Fails
  <2>2. pc[r] = "save" /\ UNCHANGED <<dispatch, audited, order, here>>
    BY <1>9 DEF SaveTask
  <2>3. CASE End(r, "success", "settle")
    BY <2>1, <2>2, <2>3 DEF End
  <2>4. CASE End(r, "notSaved", "rollback")
    BY <2>1, <2>2, <2>4 DEF End
  <2> QED
    BY <1>9, <2>3, <2>4 DEF SaveTask
<1>10. ASSUME NEW r \in Requests, Settle(r) PROVE Inv'
  <2>1. /\ order' = order \/ order' = [order EXCEPT ![r] = "settled"]
        /\ trouble' \in [Requests -> BOOLEAN]
    BY <1>10 DEF Settle, Succeeds, Fails
  <2>2. /\ pc[r] = "settle"
        /\ GoTo(r, "audit")
        /\ UNCHANGED <<dispatch, task, audited, here>>
    BY <1>10 DEF Settle
  <2> QED
    BY <2>1, <2>2 DEF GoTo
<1>11. ASSUME NEW r \in Requests, Rollback(r) PROVE Inv'
  <2>1. /\ order' = order \/ order' = [order EXCEPT ![r] = "returned"]
        /\ trouble' \in [Requests -> BOOLEAN]
    BY <1>11 DEF Rollback, Succeeds, Fails
  <2>2. /\ pc[r] = "rollback"
        /\ GoTo(r, "audit")
        /\ UNCHANGED <<dispatch, task, audited, here>>
    BY <1>11 DEF Rollback
  <2> QED
    BY <2>1, <2>2 DEF GoTo
<1>12. ASSUME NEW r \in Requests, Audit(r) PROVE Inv'
  <2>1. /\ audited' \in [Requests -> {None, "success", "failed"}]
        /\ trouble' \in [Requests -> BOOLEAN]
    BY <1>12 DEF Audit, Succeeds, Fails
  <2>2. /\ pc[r] = "audit"
        /\ Finish(r)
        /\ UNCHANGED <<dispatch, outcome, task, order, here>>
    BY <1>12 DEF Audit
  <2> QED
    BY <2>1, <2>2 DEF Finish
<1>13. ASSUME NEW p \in Providers,
              Recover(p) /\ UNCHANGED <<handlers, stores, here, trouble>>
       PROVE  Inv'
  BY <1>13 DEF handlers, stores
<1>14. CASE UNCHANGED vars
  BY <1>14 DEF vars, handlers, stores
<1> QED
  BY <1>1, <1>2, <1>3, <1>4, <1>5, <1>6, <1>7, <1>8, <1>9, <1>10, <1>11,
     <1>12, <1>13, <1>14 DEF Next, Handle

-----------------------------------------------------------------------------
\* No provider works for a request whose tokens are not frozen, and they stay
\* frozen until the request settles or rolls back.
THEOREM FrozenFirst == Spec => []FrozenWhileWorking
<1>1. Inv => FrozenWhileWorking
  BY DEF Inv
<1> QED BY <1>1, InitInv, NextInv, PTL DEF Spec

\* Nobody is told of a failure and charged, or served and given the tokens
\* back, whichever of the gateway's calls fail.
THEOREM BillAgrees == Spec => []BilledAsAnswered
<1>1. Inv => BilledAsAnswered
  BY DEF Inv
<1> QED BY <1>1, InitInv, NextInv, PTL DEF Spec

\* Settlement and rollback come after freezing and exclude each other: the
\* order of a request that settled or rolled back changes no more.
THEOREM OrdersResolveOnce == Spec => ResolvedOnce
<1> DEFINE Kept(r) ==
        order[r] \in {"settled", "returned"} /\ order'[r] # order[r] =>
            pc[r] = "idle"
<1>1. Inv /\ [Next]_vars => [\A r \in Requests : Kept(r)]_vars
  <2> SUFFICES ASSUME Inv, Next, NEW r \in Requests PROVE Kept(r)
    OBVIOUS
  <2> USE DEF Inv, RequestsTypeOK, FrozenWhileWorking, OutcomeKnown, None
  <2>1. ASSUME NEW q \in Requests, NEW k \in Kinds, Arrive(q, k) PROVE Kept(r)
    BY <2>1 DEF Arrive
  <2>2. ASSUME NEW q \in Requests, Freeze(q) PROVE Kept(r)
    BY <2>2 DEF Freeze
  <2>3. ASSUME NEW q \in Requests, Settle(q) PROVE Kept(r)
    BY <2>3 DEF Settle
  <2>4. ASSUME NEW q \in Requests, Rollback(q) PROVE Kept(r)
    BY <2>4 DEF Rollback
  <2>5. CASE UNCHANGED order
    BY <2>5
  <2> QED
    BY <2>1, <2>2, <2>3, <2>4, <2>5
       DEF Next, Handle, Leave, Crash, SelectProvider, FirstChunk,
           CallProvider, ReadChunks, SaveTask, Audit, stores
<1> QED BY <1>1, InitInv, NextInv, PTL DEF Spec, ResolvedOnce

-----------------------------------------------------------------------------
\* Untroubled holds of a gateway without requests.
LEMMA InitUntroubled == Init => Untroubled
BY DEF Init, Untroubled, None

\* The steps of a request's handler keep it: a call that fails leaves the
\* request troubled or finds its client gone.
LEMMA HandleUntroubled ==
    ASSUME Inv, Untroubled, NEW r \in Requests, Handle(r)
    PROVE  Untroubled'
<1> USE DEF Inv, RequestsTypeOK, OutcomeKnown, Untroubled, Outcomes, None
<1>1. CASE Freeze(r)
  BY <1>1 DEF Freeze, Succeeds, Fails, GoTo, Finish
<1>2. CASE SelectProvider(r)
  BY <1>2 DEF SelectProvider, End, stores
<1>3. CASE FirstChunk(r)
  BY <1>3 DEF FirstChunk, GoTo, End, stores
<1>4. CASE CallProvider(r)
  BY <1>4 DEF CallProvider, GoTo, End, stores
<1>5. CASE ReadChunks(r)
  BY <1>5 DEF ReadChunks, End, stores
<1>6. CASE SaveTask(r)
  BY <1>6 DEF SaveTask, Succeeds, Fails, End
<1>7. CASE Settle(r)
  BY <1>7 DEF Settle, Succeeds, Fails, GoTo
<1>8. CASE Rollback(r)
  BY <1>8 DEF Rollback, Succeeds, Fails, GoTo
<1>9. CASE Audit(r)
  BY <1>9 DEF Audit, Unaudited, Succeeds, Fails, Finish
<1> QED
  BY <1>1, <1>2, <1>3, <1>4, <1>5, <1>6, <1>7, <1>8, <1>9 DEF Handle

\* And so does every other step.
LEMMA NextUntroubled == Inv /\ Untroubled /\ [Next]_vars => Untroubled'
<1> SUFFICES ASSUME Inv, Untroubled, [Next]_vars PROVE Untroubled'
  OBVIOUS
<1> USE DEF Inv, RequestsTypeOK, Untroubled, None
<1>1. ASSUME NEW r \in Requests, NEW k \in Kinds, Arrive(r, k)
      PROVE  Untroubled'
  BY <1>1 DEF Arrive
<1>2. ASSUME NEW r \in Requests, Leave(r) PROVE Untroubled'
  BY <1>2 DEF Leave, handlers, stores
<1>3. CASE Crash
  BY <1>3 DEF Crash, stores
<1>4. CASE UNCHANGED <<handlers, stores, here, trouble>>
  BY <1>4 DEF handlers, stores
<1> QED
  BY <1>1, <1>2, <1>3, <1>4, HandleUntroubled DEF Next, vars

\* A request that nothing but providers failed leaves no tokens frozen.
THEOREM NothingFrozen == Spec => []NothingStaysFrozen
<1>1. Untroubled => NothingStaysFrozen
  BY DEF Untroubled, NothingStaysFrozen, Smooth
<1> QED
  BY <1>1, InitInv, NextInv, InitUntroubled, NextUntroubled, PTL DEF Spec

\* The audit entry of such a request agrees with its order.
THEOREM LogReconciles == Spec => []AuditReconciles
<1>1. Untroubled => AuditReconciles
  BY DEF Untroubled, AuditReconciles, Smooth
<1> QED
  BY <1>1, InitInv, NextInv, InitUntroubled, NextUntroubled, PTL DEF Spec

-----------------------------------------------------------------------------
(* The requests and the rotation *)

\* A request that is about to call a provider has been given one.
ViaKnown == \A r \in Requests : pc[r] \in {"firstChunk", "call"} => via[r] \in Providers

\* It is kept by every step: only a selection leads there.
LEMMA NextViaKnown == Inv /\ ViaKnown /\ [Next]_vars => ViaKnown'
<1> SUFFICES ASSUME Inv, ViaKnown, [Next]_vars PROVE ViaKnown'
  OBVIOUS
<1> USE DEF Inv, RequestsTypeOK, ViaKnown
<1>1. ASSUME NEW r \in Requests, NEW k \in Kinds, Arrive(r, k) PROVE ViaKnown'
  BY <1>1 DEF Arrive
<1>2. ASSUME NEW r \in Requests, Freeze(r) PROVE ViaKnown'
  BY <1>2 DEF Freeze, GoTo, Finish
<1>3. ASSUME NEW r \in Requests, SelectProvider(r) PROVE ViaKnown'
  BY <1>3 DEF SelectProvider, End
<1>4. ASSUME NEW r \in Requests, FirstChunk(r) PROVE ViaKnown'
  BY <1>4 DEF FirstChunk, GoTo, End
<1>5. ASSUME NEW r \in Requests, CallProvider(r) PROVE ViaKnown'
  BY <1>5 DEF CallProvider, GoTo, End
<1>6. ASSUME NEW r \in Requests, ReadChunks(r) \/ SaveTask(r) PROVE ViaKnown'
  BY <1>6 DEF ReadChunks, SaveTask, End
<1>7. ASSUME NEW r \in Requests, Settle(r) \/ Rollback(r) \/ Audit(r) PROVE ViaKnown'
  BY <1>7 DEF Settle, Rollback, Audit, GoTo, Finish
<1>8. CASE Crash
  BY <1>8 DEF Crash
<1>9. CASE UNCHANGED handlers
  BY <1>9 DEF handlers
<1> QED
  BY <1>1, <1>2, <1>3, <1>4, <1>5, <1>6, <1>7, <1>8, <1>9 DEF Next, Handle, Leave, vars

\* What a step of the gateway does to the rotation is a step of the rotation,
\* or nothing.
LEMMA StepRotates == Inv /\ ViaKnown /\ [Next]_vars => [DispatchNext]_dispatch
<1> SUFFICES ASSUME Inv, ViaKnown, [Next]_vars PROVE [DispatchNext]_dispatch
  OBVIOUS
<1>1. ASSUME NEW r \in Requests, SelectProvider(r) PROVE [DispatchNext]_dispatch
  BY <1>1 DEF SelectProvider, DispatchNext
<1>2. ASSUME NEW r \in Requests, CallProvider(r) PROVE [DispatchNext]_dispatch
  BY <1>2 DEF CallProvider, DispatchNext, ViaKnown
<1>3. CASE Crash
  BY <1>3 DEF Crash, DispatchNext
<1>4. ASSUME NEW p \in Providers, Recover(p) PROVE [DispatchNext]_dispatch
  BY <1>4 DEF DispatchNext
<1>5. CASE UNCHANGED dispatch
  BY <1>5
<1> QED
  BY <1>1, <1>2, <1>3, <1>4, <1>5
     DEF Next, Handle, Arrive, Leave, Freeze, FirstChunk, ReadChunks, SaveTask,
         Settle, Rollback, Audit, vars

\* Seen from the rotation, the handlers of all requests, and the death of the
\* gateway, are selections, marks, recoveries and restarts one after the other:
\* the gateway implements the rotation.
THEOREM GatewayRotates == Spec => DispatchSpec
<1>1. Init => ViaKnown /\ DispatchInit
  BY DEF Init, ViaKnown
<1> QED
  BY <1>1, InitInv, NextInv, NextViaKnown, StepRotates, PTL DEF Spec, DispatchSpec

\* Every variable of the gateway keeps to its type.
THEOREM TypeCorrect == Spec => []TypeOK
<1>1. Rotation /\ Inv => TypeOK
  BY DEF Rotation, Inv, TypeOK
<1> QED
  BY <1>1, InitInv, NextInv, GatewayRotates, RotationHolds, PTL DEF Spec

\* However many requests select, fail and mark providers at once, no provider
\* is owed, or passed over, more than the allowance (dispatch.go:96).
THEOREM RequestsShareFairly == Spec => [](NoDrift /\ NobodyStarves)
BY GatewayRotates, RotationHolds, RotationMeans, PTL
=============================================================================
