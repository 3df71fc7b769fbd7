-------------------------------- MODULE Sums --------------------------------
(***************************************************************************)
(* What SumFunctionOnSet of the community modules computes: a byte count   *)
(* of the ledgers grows by an element's size when the element joins.       *)
(***************************************************************************)
EXTENDS FiniteSetsExt, FiniteSetTheorems, TLAPS

Pick(s) == CHOOSE x \in s : TRUE
Value(it, f, s) == IF s = {} THEN 0 ELSE f[Pick(s)] + it[s \ {Pick(s)}]

\* The function that the fold iterates over the subsets of S, and the one TLA+ chooses.
Iterates(it, f, S) == it = [s \in SUBSET S |-> Value(it, f, s)]
Fold(f, S) == CHOOSE it : Iterates(it, f, S)

\* A function on the subsets of at most n elements does as the fold does.
Small(S, n) == {s \in SUBSET S : Cardinality(s) <= n}
UpTo(it, f, S, n) == it = [s \in Small(S, n) |-> Value(it, f, s)]

-----------------------------------------------------------------------------
LEMMA SumIsFold == ASSUME NEW f, NEW S PROVE SumFunctionOnSet(f, S) = Fold(f, S)[S]
BY DEF SumFunctionOnSet, FoldFunctionOnSet, MapThenFoldSet, Fold, Iterates, Value, Pick

LEMMA NatSet ==
  ASSUME NEW P \in SUBSET Nat, 0 \in P, \A n \in P : n + 1 \in P PROVE P = Nat
<1> SUFFICES ASSUME Nat \ P # {} PROVE FALSE
  OBVIOUS
<1> DEFINE R == {ss \in Nat \X Nat : ss[1] < ss[2]}
<1>1. IsWellFoundedOn(R, Nat)
  BY NatLessThanWellFounded DEF OpToRel
<1> HIDE DEF R
<1>2. PICK n \in Nat \ P : \A y \in Nat \ P : ~(<<y, n>> \in R)
  BY <1>1, WFMin, Nat \ P \subseteq Nat
<1>3. n # 0 /\ n - 1 \in Nat
  OBVIOUS
<1>4. <<n - 1, n>> \in R
  BY <1>3 DEF R
<1>5. n - 1 \in P
  BY <1>2, <1>3, <1>4
<1> QED BY <1>5

LEMMA SmallestSubset ==
  ASSUME NEW S, IsFiniteSet(S), NEW C \in SUBSET SUBSET S, C # {}
  PROVE  \E T \in C : \A U \in C : U \subseteq T => U = T
<1> DEFINE R == StrictSubsetOrdering(S)
<1>1. IsWellFoundedOn(R, SUBSET S)
  BY FS_StrictSubsetOrderingWellFounded, FS_FiniteSubsetsOfFinite
<1>2. PICK T \in C : \A U \in C : ~(<<U, T>> \in R)
  <2> HIDE DEF R
  <2> QED BY <1>1, WFMin
<1>3. ASSUME NEW U \in C, U \subseteq T, U # T PROVE <<U, T>> \in R
  BY <1>3 DEF StrictSubsetOrdering
<1>4. \A U \in C : U \subseteq T => U = T
  <2> HIDE DEF R
  <2> QED BY <1>2, <1>3
<1> QED BY <1>4

LEMMA PickBelongs == ASSUME NEW s, s # {} PROVE Pick(s) \in s
BY DEF Pick

\* The fold iterates: functions on small subsets extend to functions on larger ones.
LEMMA FoldIterates == ASSUME NEW f, NEW S, IsFiniteSet(S) PROVE Iterates(Fold(f, S), f, S)
<1> DEFINE P == {n \in Nat : \E it : UpTo(it, f, S, n)}
<1>1. \A s \in SUBSET S : Cardinality(s) \in Nat /\ (Cardinality(s) = 0 <=> s = {})
  BY FS_Subset, FS_CardinalityType, FS_EmptySet
<1>2. \A s \in SUBSET S : s # {} =>
        s \ {Pick(s)} \in SUBSET S /\ Cardinality(s \ {Pick(s)}) = Cardinality(s) - 1
  BY FS_Subset, FS_RemoveElement, PickBelongs
<1>3. 0 \in P
  <2> DEFINE it == [s \in Small(S, 0) |-> 0]
  <2>1. \A s \in Small(S, 0) : Value(it, f, s) = 0
    BY <1>1 DEF Small, Value
  <2>2. UpTo(it, f, S, 0)
    BY <2>1 DEF UpTo
  <2> QED BY <2>2
<1>4. ASSUME NEW n \in P PROVE n + 1 \in P
  <2>1. PICK it : UpTo(it, f, S, n)
    OBVIOUS
  <2> DEFINE next == [s \in Small(S, n + 1) |-> Value(it, f, s)]
  <2>2. ASSUME NEW s \in Small(S, n) PROVE next[s] = it[s]
    <3>1. s \in Small(S, n + 1)
      BY <1>1 DEF Small
    <3>2. it[s] = Value(it, f, s)
      BY <2>1 DEF UpTo
    <3> QED BY <3>1, <3>2
  <2>3. ASSUME NEW s \in Small(S, n + 1) PROVE Value(next, f, s) = Value(it, f, s)
    <3>1. CASE s = {}
      BY <3>1 DEF Value
    <3>2. CASE s # {}
      <4>1. s \ {Pick(s)} \in Small(S, n)
        BY <3>2, <1>1, <1>2 DEF Small
      <4> HIDE DEF next
      <4> QED BY <4>1, <2>2, <3>2 DEF Value
    <3> QED BY <3>1, <3>2
  <2>4. UpTo(next, f, S, n + 1)
    BY <2>3 DEF UpTo
  <2> QED BY <2>4
<1>5. P = Nat
  <2> HIDE DEF P
  <2>1. P \in SUBSET Nat
    BY DEF P
  <2> QED BY <1>3, <1>4, <2>1, NatSet
<1>6. Cardinality(S) \in Nat /\ Small(S, Cardinality(S)) = SUBSET S
  BY FS_Subset, FS_CardinalityType DEF Small
<1>7. PICK it : UpTo(it, f, S, Cardinality(S))
  BY <1>5, <1>6
<1>8. Iterates(it, f, S)
  BY <1>6, <1>7 DEF UpTo, Iterates
<1> QED BY <1>8 DEF Fold

LEMMA FoldValue ==
  ASSUME NEW f, NEW S, IsFiniteSet(S), NEW s \in SUBSET S
  PROVE  Fold(f, S)[s] = Value(Fold(f, S), f, s)
<1> DEFINE it == Fold(f, S)
<1>1. Iterates(it, f, S)
  BY FoldIterates
<1> HIDE DEF it
<1>2. it[s] = Value(it, f, s)
  BY <1>1 DEF Iterates
<1> QED BY <1>2 DEF it

\* Folds over sets of functions that agree on a subset agree there.
LEMMA FoldsAgree ==
  ASSUME NEW f, NEW g, NEW S, NEW U, IsFiniteSet(S), IsFiniteSet(U), NEW T \in SUBSET S, T \in SUBSET U,
         \A x \in T : f[x] = g[x]
  PROVE  Fold(f, S)[T] = Fold(g, U)[T]
<1> DEFINE C == {s \in SUBSET T : Fold(f, S)[s] # Fold(g, U)[s]}
<1> SUFFICES ASSUME C # {} PROVE FALSE
  OBVIOUS
<1>1. IsFiniteSet(T)
  BY FS_Subset
<1>2. PICK s \in C : \A r \in C : r \subseteq s => r = s
  <2>1. C \in SUBSET SUBSET T
    OBVIOUS
  <2> HIDE DEF C
  <2> QED BY <1>1, <2>1, SmallestSubset
<1>3. s \in SUBSET T /\ s \in SUBSET S /\ s \in SUBSET U /\ Fold(f, S)[s] # Fold(g, U)[s]
  OBVIOUS
<1>4. Fold(f, S)[s] = Value(Fold(f, S), f, s) /\ Fold(g, U)[s] = Value(Fold(g, U), g, s)
  BY <1>3, FoldValue
<1>5. s # {}
  BY <1>3, <1>4 DEF Value
<1>6. Pick(s) \in s /\ f[Pick(s)] = g[Pick(s)]
  BY <1>3, <1>5, PickBelongs
<1>7. s \ {Pick(s)} \notin C
  BY <1>2, <1>6
<1>8. Fold(f, S)[s \ {Pick(s)}] = Fold(g, U)[s \ {Pick(s)}]
  BY <1>7, <1>3
<1> QED BY <1>3, <1>4, <1>6, <1>8 DEF Value

\* Any element may be taken out first.
LEMMA FoldStep ==
  ASSUME NEW f, NEW S, IsFiniteSet(S), \A x \in S : f[x] \in Int
  PROVE  \A T \in SUBSET S : /\ Fold(f, S)[T] \in Int
                             /\ \A x \in T : Fold(f, S)[T] = f[x] + Fold(f, S)[T \ {x}]
<1> DEFINE F(s) == Fold(f, S)[s]
           C == {T \in SUBSET S : ~(F(T) \in Int /\ \A x \in T : F(T) = f[x] + F(T \ {x}))}
<1> SUFFICES ASSUME C # {} PROVE FALSE
  OBVIOUS
<1>1. PICK T \in C : \A U \in C : U \subseteq T => U = T
  <2>1. C \in SUBSET SUBSET S
    OBVIOUS
  <2> HIDE DEF C
  <2> QED BY <2>1, SmallestSubset
<1>2. F(T) = Value(Fold(f, S), f, T)
  BY FoldValue
<1>3. ASSUME NEW U \in SUBSET T, U # T
      PROVE  F(U) \in Int /\ \A x \in U : F(U) = f[x] + F(U \ {x})
  BY <1>1, <1>3
<1>4. CASE T = {}
  BY <1>2, <1>4 DEF Value
<1>5. CASE T # {}
  <2> DEFINE c == Pick(T)
  <2>1. c \in T /\ c \in S /\ f[c] \in Int
    BY <1>5, PickBelongs
  <2>2. F(T) = f[c] + F(T \ {c})
    BY <1>2, <1>5 DEF Value
  <2>3. F(T \ {c}) \in Int
    BY <1>3, <2>1
  <2>4. ASSUME NEW x \in T, x # c PROVE F(T) = f[x] + F(T \ {x})
    <3>1. F(T \ {c}) = f[x] + F((T \ {c}) \ {x})
      BY <1>3, <2>1, <2>4
    <3>2. F(T \ {x}) = f[c] + F((T \ {x}) \ {c})
      BY <1>3, <2>1, <2>4
    <3>3. (T \ {c}) \ {x} = (T \ {x}) \ {c}
      OBVIOUS
    <3>4. F((T \ {c}) \ {x}) \in Int /\ f[x] \in Int
      BY <1>3, <2>1, <2>4
    <3> DEFINE rest == F((T \ {c}) \ {x})
    <3>5. F(T) = f[c] + (f[x] + rest) /\ F(T \ {x}) = f[c] + rest
      BY <3>1, <3>2, <3>3, <2>2
    <3> HIDE DEF F, c, rest
    <3>6. rest \in Int /\ f[x] \in Int /\ f[c] \in Int
      BY <3>4, <2>1 DEF rest
    <3> QED BY <3>5, <3>6
  <2>5. F(T) \in Int /\ \A x \in T : F(T) = f[x] + F(T \ {x})
    <3> HIDE DEF F, c
    <3> QED BY <2>1, <2>2, <2>3, <2>4
  <2> QED BY <2>5
<1> QED BY <1>4, <1>5

-----------------------------------------------------------------------------
LEMMA SumOfNone == ASSUME NEW f PROVE SumFunctionOnSet(f, {}) = 0
BY SumIsFold, FoldValue, FS_EmptySet DEF Value

LEMMA SumOfZeros ==
  ASSUME NEW f, NEW T, IsFiniteSet(T), \A x \in T : f[x] = 0 PROVE SumFunctionOnSet(f, T) = 0
<1> DEFINE C == {s \in SUBSET T : Fold(f, T)[s] # 0}
<1> SUFFICES ASSUME C # {} PROVE FALSE
  BY SumIsFold
<1>1. PICK s \in C : \A r \in C : r \subseteq s => r = s
  <2>1. C \in SUBSET SUBSET T
    OBVIOUS
  <2> HIDE DEF C
  <2> QED BY <2>1, SmallestSubset
<1>2. Fold(f, T)[s] = Value(Fold(f, T), f, s)
  BY FoldValue
<1>3. s # {}
  BY <1>2 DEF Value
<1>4. Pick(s) \in s /\ f[Pick(s)] = 0 /\ Fold(f, T)[s \ {Pick(s)}] = 0
  BY <1>1, <1>3, PickBelongs
<1> QED BY <1>2, <1>3, <1>4 DEF Value

LEMMA SumsAgree ==
  ASSUME NEW f, NEW g, NEW T, IsFiniteSet(T), \A x \in T : f[x] = g[x]
  PROVE  SumFunctionOnSet(f, T) = SumFunctionOnSet(g, T)
BY SumIsFold, FoldsAgree

\* An element of the set is counted once.
LEMMA SumWith ==
  ASSUME NEW f, NEW T, IsFiniteSet(T), \A x \in T : f[x] \in Int, NEW x \in T
  PROVE  SumFunctionOnSet(f, T) = f[x] + SumFunctionOnSet(f, T \ {x})
<1>1. IsFiniteSet(T \ {x}) /\ T \ {x} \in SUBSET T
  BY FS_Subset
<1>2. Fold(f, T)[T] = f[x] + Fold(f, T)[T \ {x}]
  BY FoldStep
<1>3. Fold(f, T)[T \ {x}] = Fold(f, T \ {x})[T \ {x}]
  BY <1>1, FoldsAgree
<1> QED BY <1>2, <1>3, SumIsFold

LEMMA SumIsInt ==
  ASSUME NEW f, NEW T, IsFiniteSet(T), \A x \in T : f[x] \in Int
  PROVE  SumFunctionOnSet(f, T) \in Int
BY FoldStep, SumIsFold

LEMMA SumAdd ==
  ASSUME NEW f, NEW T, NEW x, IsFiniteSet(T), \A y \in T \union {x} : f[y] \in Int, x \notin T
  PROVE  SumFunctionOnSet(f, T \union {x}) = SumFunctionOnSet(f, T) + f[x]
<1>1. (T \union {x}) \ {x} = T
  OBVIOUS
<1> DEFINE U == T \union {x}
<1>2. IsFiniteSet(U) /\ x \in U /\ \A y \in U : f[y] \in Int
  BY FS_AddElement
<1> HIDE DEF U
<1>3. SumFunctionOnSet(f, U) = f[x] + SumFunctionOnSet(f, U \ {x})
  BY <1>2, SumWith
<1>4. SumFunctionOnSet(f, T) \in Int /\ f[x] \in Int
  BY <1>2, SumIsInt
<1>5. SumFunctionOnSet(f, U) = f[x] + SumFunctionOnSet(f, T)
  BY <1>1, <1>3 DEF U
<1>6. SumFunctionOnSet(f, U) = SumFunctionOnSet(f, T) + f[x]
  BY <1>4, <1>5
<1> QED BY <1>6 DEF U

LEMMA SumRemove ==
  ASSUME NEW f, NEW T, NEW x \in T, IsFiniteSet(T), \A y \in T : f[y] \in Int
  PROVE  SumFunctionOnSet(f, T \ {x}) = SumFunctionOnSet(f, T) - f[x]
<1>1. SumFunctionOnSet(f, T \ {x}) \in Int
  BY SumIsInt, FS_Subset
<1>2. SumFunctionOnSet(f, T) = f[x] + SumFunctionOnSet(f, T \ {x})
  BY SumWith
<1> QED BY <1>1, <1>2

\* A change of one value changes the sum by the difference.
LEMMA SumExcept ==
  ASSUME NEW f, NEW g, NEW T, NEW x \in T, IsFiniteSet(T),
         \A y \in T : f[y] \in Int /\ g[y] \in Int, \A y \in T \ {x} : f[y] = g[y]
  PROVE  SumFunctionOnSet(g, T) = SumFunctionOnSet(f, T) - f[x] + g[x]
<1>1. IsFiniteSet(T \ {x})
  BY FS_Subset
<1>2. SumFunctionOnSet(f, T \ {x}) = SumFunctionOnSet(g, T \ {x})
  BY <1>1, SumsAgree
<1>3. SumFunctionOnSet(f, T) = f[x] + SumFunctionOnSet(f, T \ {x})
  BY SumWith
<1>4. SumFunctionOnSet(g, T) = g[x] + SumFunctionOnSet(g, T \ {x})
  BY SumWith
<1>5. SumFunctionOnSet(f, T \ {x}) \in Int
  BY <1>1, SumIsInt
<1> QED BY <1>2, <1>3, <1>4, <1>5

\* A part of a sum of naturals is at most the whole.
LEMMA SumIsNat ==
  ASSUME NEW f, NEW T, IsFiniteSet(T), \A x \in T : f[x] \in Nat
  PROVE  /\ SumFunctionOnSet(f, T) \in Nat
         /\ \A x \in T : f[x] <= SumFunctionOnSet(f, T)
<1> DEFINE C == {s \in SUBSET T : SumFunctionOnSet(f, s) \notin Nat}
<1>1. \A s \in SUBSET T : IsFiniteSet(s)
  BY FS_Subset
<1>2. C = {}
  <2> SUFFICES ASSUME C # {} PROVE FALSE
    OBVIOUS
  <2>1. PICK s \in C : \A r \in C : r \subseteq s => r = s
    <3>1. C \in SUBSET SUBSET T
      OBVIOUS
    <3> HIDE DEF C
    <3> QED BY <3>1, SmallestSubset
  <2>2. s # {}
    BY SumOfNone
  <2>3. PICK x \in s : TRUE
    BY <2>2
  <2>4. SumFunctionOnSet(f, s) = f[x] + SumFunctionOnSet(f, s \ {x})
    BY <1>1, SumWith
  <2>5. SumFunctionOnSet(f, s \ {x}) \in Nat
    BY <2>1
  <2> QED BY <2>4, <2>5
<1>3. ASSUME NEW x \in T PROVE f[x] <= SumFunctionOnSet(f, T)
  <2>1. SumFunctionOnSet(f, T) = f[x] + SumFunctionOnSet(f, T \ {x})
    BY SumWith
  <2>2. SumFunctionOnSet(f, T \ {x}) \in Nat
    BY <1>2
  <2> QED BY <2>1, <2>2
<1> QED BY <1>2, <1>3

\* Two sets without a common element are counted one by one.
LEMMA SumUnion ==
  ASSUME NEW f, NEW T, NEW U, IsFiniteSet(T), IsFiniteSet(U), T \intersect U = {},
         \A x \in T \union U : f[x] \in Int
  PROVE  SumFunctionOnSet(f, T \union U) = SumFunctionOnSet(f, T) + SumFunctionOnSet(f, U)
<1> DEFINE C == {s \in SUBSET U :
                    SumFunctionOnSet(f, T \union s) # SumFunctionOnSet(f, T) + SumFunctionOnSet(f, s)}
<1>1. \A s \in SUBSET U : IsFiniteSet(s) /\ IsFiniteSet(T \union s)
  BY FS_Subset, FS_Union
<1>2. \A s \in SUBSET U : SumFunctionOnSet(f, s) \in Int /\ SumFunctionOnSet(f, T \union s) \in Int
  <2> TAKE s \in SUBSET U
  <2>1. \A x \in T \union s : f[x] \in Int
    OBVIOUS
  <2> QED BY <1>1, <2>1, SumIsInt
<1>3. SumFunctionOnSet(f, T) \in Int
  BY SumIsInt
<1>4. C = {}
  <2> SUFFICES ASSUME C # {} PROVE FALSE
    OBVIOUS
  <2>1. PICK s \in C : \A r \in C : r \subseteq s => r = s
    <3>1. C \in SUBSET SUBSET U
      OBVIOUS
    <3> HIDE DEF C
    <3> QED BY <3>1, SmallestSubset
  <2>2. s # {}
    <3> SUFFICES ASSUME s = {} PROVE FALSE
      OBVIOUS
    <3>1. T \union s = T
      OBVIOUS
    <3> QED BY <1>3, <3>1, SumOfNone
  <2>3. PICK x \in s : TRUE
    BY <2>2
  <2>4. s \ {x} \notin C /\ x \notin T
    BY <2>1
  <2>5. SumFunctionOnSet(f, T \union (s \ {x})) = SumFunctionOnSet(f, T) + SumFunctionOnSet(f, s \ {x})
    BY <2>4
  <2>6. SumFunctionOnSet(f, s \ {x}) = SumFunctionOnSet(f, s) - f[x]
    BY <1>1, SumRemove
  <2>7. SumFunctionOnSet(f, (T \union s) \ {x}) = SumFunctionOnSet(f, T \union s) - f[x]
    <3>1. x \in T \union s /\ \A y \in T \union s : f[y] \in Int
      OBVIOUS
    <3> QED BY <1>1, <3>1, SumRemove
  <2>8. (T \union s) \ {x} = T \union (s \ {x})
    BY <2>4
  <2>9. f[x] \in Int
    OBVIOUS
  <2>10. s \in SUBSET U /\ SumFunctionOnSet(f, T \union s) # SumFunctionOnSet(f, T) + SumFunctionOnSet(f, s)
    OBVIOUS
  <2>11. SumFunctionOnSet(f, T \union s) - f[x] = SumFunctionOnSet(f, T) + (SumFunctionOnSet(f, s) - f[x])
    BY <2>5, <2>6, <2>7, <2>8
  <2>12. SumFunctionOnSet(f, T \union s) \in Int /\ SumFunctionOnSet(f, s) \in Int
    BY <1>2, <2>10
  <2>13. ASSUME NEW a \in Int, NEW b \in Int, NEW c \in Int, NEW d \in Int, a - d = b + (c - d)
         PROVE  a = b + c
    BY <2>13
  <2>14. SumFunctionOnSet(f, T \union s) = SumFunctionOnSet(f, T) + SumFunctionOnSet(f, s)
    BY <1>3, <2>9, <2>11, <2>12, <2>13
  <2> QED BY <2>10, <2>14
<1> DEFINE ok(s) == SumFunctionOnSet(f, T \union s) = SumFunctionOnSet(f, T) + SumFunctionOnSet(f, s)
<1>5. \A s \in SUBSET U : ok(s)
  BY <1>4
<1>6. ok(U)
  <2>1. U \in SUBSET U
    OBVIOUS
  <2> HIDE DEF ok
  <2> QED BY <1>5, <2>1
<1> QED BY <1>6
=============================================================================
