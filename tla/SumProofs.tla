------------------------------ MODULE SumProofs ------------------------------
(***************************************************************************)
(* Sums over finite sets, as the properties of the contracts take them      *)
(* (SumFunctionOnSet of module Functions): that the fold is *)
(* well defined, that its elements may be taken in any order, and how a sum *)
(* changes when the function does.                                          *)
(*                                                                          *)
(* The induction principles of the library take the induction hypothesis as *)
(* an operator.  The ones used here take it as a set, the collection of the *)
(* subsets for which it holds, so that they can be cited like any lemma.    *)
(***************************************************************************)
EXTENDS Functions, FiniteSets, FiniteSetTheorems, TLAPS

-----------------------------------------------------------------------------
(* Induction.                                                               *)

LEMMA StrictSubsetInduction ==
    ASSUME NEW S, IsFiniteSet(S), NEW G,
           \A T \in SUBSET S : (\A U \in SUBSET T : U # T => U \in G) => T \in G
    PROVE  S \in G
<1> DEFINE Bad == {T \in SUBSET S : T \notin G}
<1> SUFFICES ASSUME S \notin G PROVE FALSE
  OBVIOUS
<1>1. Bad \subseteq FiniteSubsetsOf(S) /\ Bad # {}
  BY FS_FiniteSubsetsOfFinite
<1>2. PICK T \in Bad : \A U \in Bad : <<U, T>> \notin StrictSubsetOrdering(S)
  <2> HIDE DEF Bad
  <2> QED
    BY <1>1, FS_StrictSubsetOrderingWellFounded, WFMin
<1>3. ASSUME NEW U \in SUBSET T, U # T PROVE U \in G
  <2>1. <<U, T>> \in StrictSubsetOrdering(S) /\ U \in SUBSET S
    BY <1>3 DEF StrictSubsetOrdering
  <2> QED
    BY <1>2, <2>1
<1> QED
  BY <1>3

LEMMA SetInduction ==
    ASSUME NEW S, IsFiniteSet(S), NEW G, {} \in G,
           \A T \in SUBSET S, x \in S : T \in G /\ x \notin T => T \cup {x} \in G
    PROVE  S \in G
<1>1. ASSUME NEW T \in SUBSET S, \A U \in SUBSET T : U # T => U \in G
      PROVE  T \in G
  <2>1. CASE T = {}
    BY <2>1
  <2>2. ASSUME NEW x \in T PROVE T \in G
    <3>1. T \ {x} \in G
      BY <1>1
    <3>2. T = (T \ {x}) \cup {x} /\ T \ {x} \in SUBSET S /\ x \in S
      OBVIOUS
    <3> QED
      BY <3>1, <3>2
  <2> QED
    BY <2>1, <2>2
<1> QED
  BY <1>1, StrictSubsetInduction

-----------------------------------------------------------------------------
(* The fold is well defined.                                                *)

Chosen(T) == CHOOSE x \in T : TRUE

\* g is the recursive function of the fold of f, for the subsets in D.
Folds(g, f, D) ==
    g = [T \in D |-> IF T = {} THEN 0 ELSE f[Chosen(T)] + g[T \ {Chosen(T)}]]

LEMMA SumIsFold ==
    ASSUME NEW f, NEW S
    PROVE  SumFunctionOnSet(f, S) = (CHOOSE g : Folds(g, f, SUBSET S))[S]
  BY DEF SumFunctionOnSet, FoldFunctionOnSet, MapThenFoldSet, Folds, Chosen

LEMMA FoldAt ==
    ASSUME NEW g, NEW f, NEW D, Folds(g, f, D), NEW T \in D
    PROVE  g[T] = IF T = {} THEN 0 ELSE f[Chosen(T)] + g[T \ {Chosen(T)}]
  BY DEF Folds

LEMMA ChosenIn ==
    ASSUME NEW T, T # {}
    PROVE  Chosen(T) \in T
  BY DEF Chosen

(* A fold over the strict subsets of a set extends to the set.              *)
LEMMA FoldExists ==
    ASSUME NEW f, NEW S, IsFiniteSet(S)
    PROVE  \E g : Folds(g, f, SUBSET S)
<1> DEFINE D(n) == {T \in SUBSET S : Cardinality(T) <= n}
<1>1. Cardinality(S) \in Nat /\ \A T \in SUBSET S : Cardinality(T) \in Nat
  BY FS_Subset, FS_CardinalityType
<1>2. ASSUME NEW T \in SUBSET S
      PROVE  /\ IsFiniteSet(T) /\ Cardinality(T) \in Nat
             /\ Cardinality(T) <= Cardinality(S)
             /\ Cardinality(T) = 0 <=> T = {}
             /\ T # {} => Cardinality(T \ {Chosen(T)}) = Cardinality(T) - 1
  BY FS_Subset, FS_CardinalityType, FS_EmptySet, FS_RemoveElement, ChosenIn
<1>3. \E g : Folds(g, f, D(0))
  <2>1. ASSUME NEW T \in SUBSET S PROVE Cardinality(T) <= 0 <=> T = {}
    <3>1. Cardinality(T) \in Nat /\ (Cardinality(T) = 0 <=> T = {})
      BY <1>2
    <3> QED
      BY <3>1
  <2>2. D(0) = {{}}
    BY <2>1
  <2> QED
    BY <2>2, Zenon DEF Folds
<1>4. ASSUME NEW n \in Nat, NEW g, Folds(g, f, D(n))
      PROVE  \E h : Folds(h, f, D(n + 1))
  <2> DEFINE h == [T \in D(n + 1) |-> IF T = {} THEN 0
                                      ELSE f[Chosen(T)] + g[T \ {Chosen(T)}]]
  <2>1. ASSUME NEW T \in D(n) PROVE T \in D(n + 1) /\ h[T] = g[T]
    <3>1. T \in D(n + 1)
      BY <1>1
    <3>2. h[T] = IF T = {} THEN 0 ELSE f[Chosen(T)] + g[T \ {Chosen(T)}]
      BY <3>1
    <3> HIDE DEF h, D
    <3> QED
      BY <3>1, <3>2, <1>4, FoldAt
  <2>2. ASSUME NEW T \in D(n + 1), T # {}
        PROVE  T \ {Chosen(T)} \in D(n)
    BY <1>2, <2>2
  <2>3. h = [T \in D(n + 1) |-> IF T = {} THEN 0 ELSE f[Chosen(T)] + h[T \ {Chosen(T)}]]
    <3> HIDE DEF D
    <3>1. ASSUME NEW T \in D(n + 1), T # {}
          PROVE  g[T \ {Chosen(T)}] = h[T \ {Chosen(T)}]
      BY <3>1, <2>1, <2>2
    <3>2. ASSUME NEW T \in D(n + 1)
          PROVE  (IF T = {} THEN 0 ELSE f[Chosen(T)] + g[T \ {Chosen(T)}])
                   = IF T = {} THEN 0 ELSE f[Chosen(T)] + h[T \ {Chosen(T)}]
      BY <3>1
    <3> QED
      BY <3>2, Zenon
  <2> HIDE DEF h
  <2> QED
    BY <2>3 DEF Folds
<1>5. \A n \in Nat : \E g : Folds(g, f, D(n))
  <2> DEFINE Bad == {n \in Nat : ~ \E g : Folds(g, f, D(n))}
  <2> SUFFICES ASSUME Bad # {} PROVE FALSE
    OBVIOUS
  <2>1. PICK n \in Bad : \A m \in Bad : <<m, n>> \notin OpToRel(<, Nat)
    <3> HIDE DEF Bad
    <3>1. Bad \subseteq Nat
      BY DEF Bad
    <3> QED
      BY <3>1, NatLessThanWellFounded, WFMin
  <2>2. n # 0
    BY <1>3
  <2>3. n - 1 \in Nat /\ <<n - 1, n>> \in OpToRel(<, Nat)
    BY <2>2 DEF OpToRel
  <2>4. \E g : Folds(g, f, D(n - 1))
    BY <2>1, <2>3
  <2>5. (n - 1) + 1 = n
    OBVIOUS
  <2> HIDE DEF D
  <2>6. \E h : Folds(h, f, D((n - 1) + 1))
    BY <1>4, <2>3, <2>4
  <2> QED
    BY <2>5, <2>6
<1>6. D(Cardinality(S)) = SUBSET S
  BY <1>2
<1> QED
  BY <1>1, <1>5, <1>6

LEMMA SumFolds ==
    ASSUME NEW f, NEW S, IsFiniteSet(S)
    PROVE  \E g : Folds(g, f, SUBSET S) /\ SumFunctionOnSet(f, S) = g[S]
<1>1. Folds(CHOOSE g : Folds(g, f, SUBSET S), f, SUBSET S)
  BY FoldExists, Zenon
<1> QED
  BY <1>1, SumIsFold, Zenon

(* Two folds of one function agree wherever both are defined.               *)
LEMMA FoldUnique ==
    ASSUME NEW f, NEW S, IsFiniteSet(S), NEW R, S \in SUBSET R,
           NEW g, Folds(g, f, SUBSET R), NEW h, Folds(h, f, SUBSET S)
    PROVE  g[S] = h[S]
<1> DEFINE G == {T \in SUBSET S : g[T] = h[T]}
<1>1. ASSUME NEW T \in SUBSET S, \A U \in SUBSET T : U # T => U \in G
      PROVE  T \in G
  <2>1. T \in SUBSET R
    OBVIOUS
  <2>2. /\ g[T] = IF T = {} THEN 0 ELSE f[Chosen(T)] + g[T \ {Chosen(T)}]
        /\ h[T] = IF T = {} THEN 0 ELSE f[Chosen(T)] + h[T \ {Chosen(T)}]
    BY <2>1, FoldAt
  <2>3. T # {} => g[T \ {Chosen(T)}] = h[T \ {Chosen(T)}]
    BY <1>1, ChosenIn
  <2> QED
    BY <2>2, <2>3
<1>2. S \in G
  <2> HIDE DEF G
  <2> QED
    BY <1>1, StrictSubsetInduction
<1> QED
  BY <1>2

LEMMA SumEmpty ==
    ASSUME NEW f
    PROVE  SumFunctionOnSet(f, {}) = 0
<1>1. PICK g : Folds(g, f, SUBSET {}) /\ SumFunctionOnSet(f, {}) = g[{}]
  BY SumFolds, FS_EmptySet
<1> QED
  BY <1>1, FoldAt

LEMMA SumChosen ==
    ASSUME NEW f, NEW S, IsFiniteSet(S), S # {}
    PROVE  SumFunctionOnSet(f, S) = f[Chosen(S)] + SumFunctionOnSet(f, S \ {Chosen(S)})
<1> DEFINE T == S \ {Chosen(S)}
<1>0. IsFiniteSet(T) /\ T \in SUBSET S
  BY FS_Subset
<1>1. PICK g : Folds(g, f, SUBSET S) /\ SumFunctionOnSet(f, S) = g[S]
  BY SumFolds
<1>2. PICK h : Folds(h, f, SUBSET T) /\ SumFunctionOnSet(f, T) = h[T]
  BY <1>0, SumFolds
<1>3. g[T] = h[T]
  <2>1. ASSUME NEW R, R \in SUBSET S, IsFiniteSet(R), Folds(h, f, SUBSET R)
        PROVE  g[R] = h[R]
    BY <1>1, <2>1, FoldUnique
  <2> HIDE DEF T
  <2> QED
    BY <1>0, <1>2, <2>1
<1>4. g[S] = f[Chosen(S)] + g[T]
  BY <1>1, FoldAt
<1> QED
  BY <1>1, <1>2, <1>3, <1>4

-----------------------------------------------------------------------------
(* The elements of a sum may be taken in any order.                         *)

LEMMA SumType ==
    ASSUME NEW S, IsFiniteSet(S), NEW f, \A x \in S : f[x] \in Int
    PROVE  SumFunctionOnSet(f, S) \in Int
<1> DEFINE G == {T \in SUBSET S : SumFunctionOnSet(f, T) \in Int}
<1>1. ASSUME NEW T \in SUBSET S, \A U \in SUBSET T : U # T => U \in G
      PROVE  T \in G
  <2>1. CASE T = {}
    BY <2>1, SumEmpty
  <2>2. CASE T # {}
    <3>1. SumFunctionOnSet(f, T) = f[Chosen(T)] + SumFunctionOnSet(f, T \ {Chosen(T)})
      BY <2>2, FS_Subset, SumChosen
    <3>2. Chosen(T) \in S /\ T \ {Chosen(T)} \in G
      BY <1>1, <2>2, ChosenIn
    <3>3. SumFunctionOnSet(f, T \ {Chosen(T)}) \in Int /\ f[Chosen(T)] \in Int
      BY <3>2
    <3> QED
      BY <3>1, <3>3
  <2> QED
    BY <2>1, <2>2
<1>2. S \in G
  <2> HIDE DEF G
  <2> QED
    BY <1>1, StrictSubsetInduction
<1> QED
  BY <1>2

LEMMA SumTake ==
    ASSUME NEW S, IsFiniteSet(S), NEW f, \A x \in S : f[x] \in Int, NEW x \in S
    PROVE  SumFunctionOnSet(f, S) = f[x] + SumFunctionOnSet(f, S \ {x})
<1> DEFINE Sum(T) == SumFunctionOnSet(f, T)
           G == {T \in SUBSET S : \A y \in T : Sum(T) = f[y] + Sum(T \ {y})}
<1>1. ASSUME NEW T \in SUBSET S, \A U \in SUBSET T : U # T => U \in G, NEW y \in T
      PROVE  Sum(T) = f[y] + Sum(T \ {y})
  <2> DEFINE c == Chosen(T)
             R == (T \ {c}) \ {y}
  <2>1. c \in T /\ T \in SUBSET S
    BY ChosenIn
  <2>2. Sum(T) = f[c] + Sum(T \ {c})
    BY FS_Subset, SumChosen
  <2>3. CASE y = c
    BY <2>2, <2>3
  <2>4. CASE y # c
    <3>1. Sum(T \ {c}) = f[y] + Sum(R)
      <4>1. T \ {c} \in G /\ y \in T \ {c}
        BY <1>1, <2>1, <2>4
      <4> QED
        BY <4>1
    <3>2. Sum(T \ {y}) = f[c] + Sum(R)
      <4>1. T \ {y} \in G /\ c \in T \ {y}
        BY <1>1, <2>1, <2>4
      <4>2. (T \ {y}) \ {c} = R
        OBVIOUS
      <4> QED
        BY <4>1, <4>2
    <3>3. Sum(R) \in Int /\ f[c] \in Int /\ f[y] \in Int
      BY <2>1, FS_Subset, SumType
    <3> HIDE DEF Sum, R, c
    <3> QED
      BY <2>2, <3>1, <3>2, <3>3
  <2> QED
    BY <2>3, <2>4
<1>2. S \in G
  <2>1. ASSUME NEW T \in SUBSET S, \A U \in SUBSET T : U # T => U \in G
        PROVE  T \in G
    BY <1>1, <2>1
  <2> HIDE DEF G
  <2> QED
    BY <2>1, StrictSubsetInduction
<1> QED
  BY <1>2

LEMMA SumAdd ==
    ASSUME NEW S, IsFiniteSet(S), NEW x, x \notin S,
           NEW f, \A y \in S \cup {x} : f[y] \in Int
    PROVE  SumFunctionOnSet(f, S \cup {x}) = f[x] + SumFunctionOnSet(f, S)
<1>1. (S \cup {x}) \ {x} = S /\ IsFiniteSet(S \cup {x})
  BY FS_AddElement
<1> QED
  BY <1>1, SumTake

(* Functions that agree on the set have the same sum, whatever they are     *)
(* elsewhere.                                                               *)
LEMMA SumSame ==
    ASSUME NEW S, IsFiniteSet(S), NEW f, NEW g,
           \A x \in S : f[x] \in Int /\ g[x] = f[x]
    PROVE  SumFunctionOnSet(g, S) = SumFunctionOnSet(f, S)
<1> DEFINE G == {T \in SUBSET S : SumFunctionOnSet(g, T) = SumFunctionOnSet(f, T)}
<1>1. {} \in G
  BY SumEmpty
<1>2. ASSUME NEW T \in SUBSET S, NEW x \in S, T \in G, x \notin T
      PROVE  T \cup {x} \in G
  <2>1. /\ SumFunctionOnSet(f, T \cup {x}) = f[x] + SumFunctionOnSet(f, T)
        /\ SumFunctionOnSet(g, T \cup {x}) = g[x] + SumFunctionOnSet(g, T)
    BY <1>2, FS_Subset, SumAdd
  <2> QED
    BY <1>2, <2>1
<1>3. S \in G
  <2> HIDE DEF G
  <2> QED
    BY <1>1, <1>2, SetInduction
<1> QED
  BY <1>3

-----------------------------------------------------------------------------
(* How a sum changes with its function and its set.                         *)

LEMMA SumNat ==
    ASSUME NEW S, IsFiniteSet(S), NEW f, \A x \in S : f[x] \in Nat
    PROVE  SumFunctionOnSet(f, S) \in Nat
<1> DEFINE G == {T \in SUBSET S : SumFunctionOnSet(f, T) \in Nat}
<1>0. \A x \in S : f[x] \in Int
  OBVIOUS
<1>1. {} \in G
  BY SumEmpty
<1>2. ASSUME NEW T \in SUBSET S, NEW x \in S, T \in G, x \notin T
      PROVE  T \cup {x} \in G
  <2>1. SumFunctionOnSet(f, T \cup {x}) = f[x] + SumFunctionOnSet(f, T)
    BY <1>0, <1>2, FS_Subset, SumAdd
  <2>2. f[x] \in Nat /\ SumFunctionOnSet(f, T) \in Nat
    BY <1>2
  <2> QED
    BY <2>1, <2>2
<1>3. S \in G
  <2> HIDE DEF G
  <2> QED
    BY <1>1, <1>2, SetInduction
<1> QED
  BY <1>3

LEMMA SumMonotonic ==
    ASSUME NEW S, IsFiniteSet(S), NEW f, NEW g,
           \A x \in S : f[x] \in Int /\ g[x] \in Int /\ f[x] <= g[x]
    PROVE  SumFunctionOnSet(f, S) <= SumFunctionOnSet(g, S)
<1> DEFINE G == {T \in SUBSET S : SumFunctionOnSet(f, T) <= SumFunctionOnSet(g, T)}
<1>1. {} \in G
  BY SumEmpty
<1>2. ASSUME NEW T \in SUBSET S, NEW x \in S, T \in G, x \notin T
      PROVE  T \cup {x} \in G
  <2>1. /\ SumFunctionOnSet(f, T \cup {x}) = f[x] + SumFunctionOnSet(f, T)
        /\ SumFunctionOnSet(g, T \cup {x}) = g[x] + SumFunctionOnSet(g, T)
    BY <1>2, FS_Subset, SumAdd
  <2>2. SumFunctionOnSet(f, T) \in Int /\ SumFunctionOnSet(g, T) \in Int
    BY FS_Subset, SumType
  <2>3. f[x] \in Int /\ g[x] \in Int /\ f[x] <= g[x]
    OBVIOUS
  <2>4. SumFunctionOnSet(f, T) <= SumFunctionOnSet(g, T)
    BY <1>2
  <2> QED
    BY <2>1, <2>2, <2>3, <2>4
<1>3. S \in G
  <2> HIDE DEF G
  <2> QED
    BY <1>1, <1>2, SetInduction
<1> QED
  BY <1>3

(* A sum of sums, multiplied by a constant.                                 *)
LEMMA SumLinear ==
    ASSUME NEW S, IsFiniteSet(S), NEW f, NEW g, NEW h, NEW k \in Int,
           \A x \in S : f[x] \in Int /\ g[x] \in Int /\ h[x] = k * f[x] + g[x]
    PROVE  SumFunctionOnSet(h, S) = k * SumFunctionOnSet(f, S) + SumFunctionOnSet(g, S)
<1> DEFINE G == {T \in SUBSET S : SumFunctionOnSet(h, T) =
                       k * SumFunctionOnSet(f, T) + SumFunctionOnSet(g, T)}
<1>0. \A x \in S : h[x] \in Int
  OBVIOUS
<1>1. {} \in G
  BY SumEmpty
<1>2. ASSUME NEW T \in SUBSET S, NEW x \in S, T \in G, x \notin T
      PROVE  T \cup {x} \in G
  <2>1. /\ SumFunctionOnSet(f, T \cup {x}) = f[x] + SumFunctionOnSet(f, T)
        /\ SumFunctionOnSet(g, T \cup {x}) = g[x] + SumFunctionOnSet(g, T)
        /\ SumFunctionOnSet(h, T \cup {x}) = h[x] + SumFunctionOnSet(h, T)
    BY <1>0, <1>2, FS_Subset, SumAdd
  <2>2. SumFunctionOnSet(f, T) \in Int /\ SumFunctionOnSet(g, T) \in Int
    BY FS_Subset, SumType
  <2>3. f[x] \in Int /\ g[x] \in Int /\ h[x] = k * f[x] + g[x]
    OBVIOUS
  <2>4. SumFunctionOnSet(h, T) = k * SumFunctionOnSet(f, T) + SumFunctionOnSet(g, T)
    BY <1>2
  <2>5. ASSUME NEW a \in Int, NEW b \in Int, NEW c \in Int, NEW d \in Int
        PROVE  (k * a + b) + (k * c + d) = k * (a + c) + (b + d)
    OBVIOUS
  <2> QED
    BY <2>1, <2>2, <2>3, <2>4, <2>5
<1>3. S \in G
  <2> HIDE DEF G
  <2> QED
    BY <1>1, <1>2, SetInduction
<1> QED
  BY <1>3

LEMMA SumPlus ==
    ASSUME NEW S, IsFiniteSet(S), NEW f, NEW g, NEW h,
           \A x \in S : f[x] \in Int /\ g[x] \in Int /\ h[x] = f[x] + g[x]
    PROVE  SumFunctionOnSet(h, S) = SumFunctionOnSet(f, S) + SumFunctionOnSet(g, S)
<1>1. \A x \in S : f[x] \in Int /\ g[x] \in Int /\ h[x] = 1 * f[x] + g[x]
  OBVIOUS
<1>2. SumFunctionOnSet(h, S) = 1 * SumFunctionOnSet(f, S) + SumFunctionOnSet(g, S)
  BY <1>1, SumLinear
<1> QED
  BY <1>2, SumType

(* A function changed at one point.                                         *)
LEMMA SumUpdate ==
    ASSUME NEW S, IsFiniteSet(S), NEW f, NEW g, NEW x \in S,
           \A y \in S : f[y] \in Int /\ g[y] \in Int,
           \A y \in S : y # x => g[y] = f[y]
    PROVE  SumFunctionOnSet(g, S) = SumFunctionOnSet(f, S) + (g[x] - f[x])
<1>1. /\ SumFunctionOnSet(f, S) = f[x] + SumFunctionOnSet(f, S \ {x})
      /\ SumFunctionOnSet(g, S) = g[x] + SumFunctionOnSet(g, S \ {x})
  BY SumTake
<1>2. IsFiniteSet(S \ {x})
  BY FS_RemoveElement
<1>3. SumFunctionOnSet(g, S \ {x}) = SumFunctionOnSet(f, S \ {x})
  BY <1>2, SumSame
<1>4. SumFunctionOnSet(f, S \ {x}) \in Int /\ f[x] \in Int /\ g[x] \in Int
  BY <1>2, SumType
<1> QED
  BY <1>1, <1>3, <1>4

(* The sum over a subset, as a sum over the whole set.                      *)
LEMMA SumOnSubset ==
    ASSUME NEW S, IsFiniteSet(S), NEW R \in SUBSET S, NEW f, NEW g,
           \A x \in S : g[x] = IF x \in R THEN f[x] ELSE 0,
           \A x \in R : f[x] \in Int
    PROVE  SumFunctionOnSet(f, R) = SumFunctionOnSet(g, S)
<1> DEFINE G == {T \in SUBSET S : SumFunctionOnSet(f, T \cap R) = SumFunctionOnSet(g, T)}
<1>0. \A x \in S : g[x] \in Int
  OBVIOUS
<1>1. {} \in G
  <2>1. {} \cap R = {}
    OBVIOUS
  <2> QED
    BY <2>1, SumEmpty
<1>2. ASSUME NEW T \in SUBSET S, NEW x \in S, T \in G, x \notin T
      PROVE  T \cup {x} \in G
  <2>1. SumFunctionOnSet(g, T \cup {x}) = g[x] + SumFunctionOnSet(g, T)
    BY <1>0, <1>2, FS_Subset, SumAdd
  <2>2. SumFunctionOnSet(g, T) \in Int
    BY <1>0, FS_Subset, SumType
  <2>3. CASE x \in R
    <3>1. (T \cup {x}) \cap R = (T \cap R) \cup {x}
      BY <2>3
    <3>2. SumFunctionOnSet(f, (T \cap R) \cup {x}) = f[x] + SumFunctionOnSet(f, T \cap R)
      <4>1. T \cap R \in SUBSET S /\ x \notin T \cap R
        BY <1>2
      <4>2. IsFiniteSet(T \cap R) /\ \A y \in (T \cap R) \cup {x} : f[y] \in Int
        BY <2>3, <4>1, FS_Subset
      <4> QED
        BY <4>1, <4>2, SumAdd
    <3> QED
      BY <1>2, <2>1, <2>3, <3>1, <3>2
  <2>4. CASE x \notin R
    <3>1. (T \cup {x}) \cap R = T \cap R /\ g[x] = 0
      BY <2>4
    <3>2. SumFunctionOnSet(f, (T \cup {x}) \cap R) = SumFunctionOnSet(g, T)
      BY <1>2, <3>1
    <3> QED
      BY <2>1, <2>2, <3>1, <3>2
  <2> QED
    BY <2>3, <2>4
<1>3. S \in G
  <2> HIDE DEF G
  <2> QED
    BY <1>1, <1>2, SetInduction
<1>4. S \cap R = R
  OBVIOUS
<1> QED
  BY <1>3, <1>4

LEMMA SumOfZeros ==
    ASSUME NEW S, IsFiniteSet(S), NEW f, \A x \in S : f[x] = 0
    PROVE  SumFunctionOnSet(f, S) = 0
<1> DEFINE g == [x \in S |-> f[x] + f[x]]
<1>1. \A x \in S : f[x] \in Int /\ g[x] = f[x] + f[x]
  OBVIOUS
<1>2. \A x \in S : g[x] = f[x]
  OBVIOUS
<1> HIDE DEF g
<1>3. SumFunctionOnSet(g, S) = SumFunctionOnSet(f, S) + SumFunctionOnSet(f, S)
  BY <1>1, SumPlus
<1>4. SumFunctionOnSet(g, S) = SumFunctionOnSet(f, S)
  BY <1>1, <1>2, SumSame
<1>5. SumFunctionOnSet(f, S) \in Int
  BY <1>1, SumType
<1>6. \A i \in Int : i = i + i => i = 0
  OBVIOUS
<1> QED
  BY <1>3, <1>4, <1>5, <1>6

LEMMA SumScaled ==
    ASSUME NEW S, IsFiniteSet(S), NEW f, NEW h, NEW k \in Int,
           \A x \in S : f[x] \in Int /\ h[x] = k * f[x]
    PROVE  SumFunctionOnSet(h, S) = k * SumFunctionOnSet(f, S)
<1> DEFINE g == [x \in S |-> 0]
<1>1. \A x \in S : f[x] \in Int /\ g[x] \in Int /\ h[x] = k * f[x] + g[x]
  <2>1. \A x \in S : k * f[x] \in Int
    OBVIOUS
  <2> QED
    BY <2>1
<1>2. \A x \in S : g[x] = 0
  OBVIOUS
<1> HIDE DEF g
<1>3. SumFunctionOnSet(h, S) = k * SumFunctionOnSet(f, S) + SumFunctionOnSet(g, S)
  BY <1>1, SumLinear
<1>4. SumFunctionOnSet(g, S) = 0
  BY <1>2, SumOfZeros
<1>5. SumFunctionOnSet(f, S) \in Int
  BY <1>1, SumType
<1>6. k * SumFunctionOnSet(f, S) \in Int
  BY <1>5
<1> QED
  BY <1>3, <1>4, <1>6

(* The size of a part of a set is a sum of ones.                            *)
LEMMA SumOfOnes ==
    ASSUME NEW S, IsFiniteSet(S), NEW R \in SUBSET S, NEW i,
           \A x \in S : i[x] = IF x \in R THEN 1 ELSE 0
    PROVE  SumFunctionOnSet(i, S) = Cardinality(R)
<1> DEFINE G == {T \in SUBSET S : SumFunctionOnSet(i, T) = Cardinality(T \cap R)}
<1>0. \A x \in S : i[x] \in Int
  OBVIOUS
<1>1. {} \in G
  <2>1. {} \cap R = {}
    OBVIOUS
  <2> QED
    BY <2>1, SumEmpty, FS_EmptySet
<1>2. ASSUME NEW T \in SUBSET S, NEW x \in S, T \in G, x \notin T
      PROVE  T \cup {x} \in G
  <2>1. SumFunctionOnSet(i, T \cup {x}) = i[x] + SumFunctionOnSet(i, T)
    BY <1>0, <1>2, FS_Subset, SumAdd
  <2>2. IsFiniteSet(T \cap R) /\ Cardinality(T \cap R) \in Nat
    BY FS_Subset, FS_CardinalityType
  <2>3. Cardinality((T \cup {x}) \cap R) = i[x] + Cardinality(T \cap R)
    <3>1. CASE x \in R
      <4>1. (T \cup {x}) \cap R = (T \cap R) \cup {x} /\ x \notin T \cap R
        BY <1>2, <3>1
      <4>2. Cardinality((T \cap R) \cup {x}) = Cardinality(T \cap R) + 1
        BY <2>2, <4>1, FS_AddElement
      <4> QED
        BY <2>2, <3>1, <4>1, <4>2
    <3>2. CASE x \notin R
      <4>1. (T \cup {x}) \cap R = T \cap R
        BY <3>2
      <4> QED
        BY <2>2, <3>2, <4>1
    <3> QED
      BY <3>1, <3>2
  <2> QED
    BY <1>2, <2>1, <2>3
<1>3. S \in G
  <2> HIDE DEF G
  <2> QED
    BY <1>1, <1>2, SetInduction
<1>4. S \cap R = R
  OBVIOUS
<1> QED
  BY <1>3, <1>4

(* A sum taken class by class: k[x] is the class of x.  What the vaults     *)
(* owe is split in this way by the option they wrote.                       *)
ClassPart(f, k, t, S) == [x \in S |-> IF k[x] = t THEN f[x] ELSE 0]

THEOREM SumByClass ==
    ASSUME NEW S, IsFiniteSet(S), NEW C, IsFiniteSet(C), NEW f, NEW k,
           \A x \in S : f[x] \in Int,
           \A x \in S : k[x] \in C \/ f[x] = 0
    PROVE  SumFunctionOnSet(f, S) =
               SumFunctionOnSet([t \in C |-> SumFunctionOnSet(ClassPart(f, k, t, S), S)], C)
<1> DEFINE Part(t) == ClassPart(f, k, t, S)
           Parts(T) == [t \in C |-> SumFunctionOnSet(Part(t), T)]
           G == {T \in SUBSET S : SumFunctionOnSet(f, T) = SumFunctionOnSet(Parts(T), C)}
<1>0. \A t : \A x \in S : Part(t)[x] = (IF k[x] = t THEN f[x] ELSE 0) /\ Part(t)[x] \in Int
  BY DEF ClassPart
<1>1. {} \in G
  <2>1. \A t \in C : Parts({})[t] = 0
    BY SumEmpty
  <2>2. SumFunctionOnSet(Parts({}), C) = 0
    <3> HIDE DEF Parts
    <3> QED
      BY <2>1, SumOfZeros
  <2> QED
    BY <2>2, SumEmpty
<1>2. ASSUME NEW T \in SUBSET S, NEW x \in S, T \in G, x \notin T
      PROVE  T \cup {x} \in G
  <2> DEFINE p == Parts(T)
             q == Parts(T \cup {x})
  <2>0. IsFiniteSet(T)
    BY FS_Subset
  <2>1. SumFunctionOnSet(f, T \cup {x}) = f[x] + SumFunctionOnSet(f, T)
    BY <1>2, <2>0, SumAdd
  <2>2. ASSUME NEW t \in C
        PROVE  /\ q[t] = (IF k[x] = t THEN f[x] ELSE 0) + p[t]
               /\ p[t] \in Int /\ q[t] \in Int
    <3>1. \A y \in T \cup {x} : Part(t)[y] \in Int
      BY <1>0
    <3>2. Part(t)[x] = (IF k[x] = t THEN f[x] ELSE 0) /\ Part(t)[x] \in Int
      BY <1>0
    <3>3. p[t] = SumFunctionOnSet(Part(t), T) /\ q[t] = SumFunctionOnSet(Part(t), T \cup {x})
      OBVIOUS
    <3> HIDE DEF Part, p, q
    <3>4. SumFunctionOnSet(Part(t), T \cup {x}) = Part(t)[x] + SumFunctionOnSet(Part(t), T)
      BY <1>2, <2>0, <3>1, SumAdd
    <3>5. SumFunctionOnSet(Part(t), T) \in Int
      BY <2>0, <3>1, SumType
    <3> QED
      BY <3>2, <3>3, <3>4, <3>5
  <2>3. SumFunctionOnSet(q, C) = f[x] + SumFunctionOnSet(p, C)
    <3> HIDE DEF p, q
    <3>1. SumFunctionOnSet(p, C) \in Int
      BY <2>2, SumType
    <3>2. CASE k[x] \in C
      <4>1. \A t \in C : t # k[x] => q[t] = p[t]
        BY <2>2
      <4>2. \A t \in C : p[t] \in Int /\ q[t] \in Int
        BY <2>2
      <4>3. SumFunctionOnSet(q, C) = SumFunctionOnSet(p, C) + (q[k[x]] - p[k[x]])
        BY <3>2, <4>1, <4>2, SumUpdate
      <4>4. q[k[x]] - p[k[x]] = f[x]
        BY <2>2, <3>2
      <4> QED
        BY <3>1, <4>3, <4>4
    <3>3. CASE f[x] = 0
      <4>1. \A t \in C : q[t] = p[t]
        BY <2>2, <3>3
      <4>2. SumFunctionOnSet(q, C) = SumFunctionOnSet(p, C)
        BY <2>2, <4>1, SumSame
      <4> QED
        BY <3>1, <3>3, <4>2
    <3> QED
      BY <3>2, <3>3
  <2>4. SumFunctionOnSet(f, T) = SumFunctionOnSet(p, C)
    BY <1>2
  <2> QED
    BY <2>1, <2>3, <2>4
<1>3. S \in G
  <2> HIDE DEF G
  <2> QED
    BY <1>1, <1>2, SetInduction
<1> QED
  BY <1>3

-----------------------------------------------------------------------------
(* Division that floors.                                                    *)

LEMMA DivMod ==
    ASSUME NEW x \in Nat, NEW d \in Nat \ {0}
    PROVE  x = d * (x \div d) + (x % d) /\ x \div d \in Nat /\ (x % d) \in 0 .. d - 1
  OBVIOUS

LEMMA DivBelow ==
    ASSUME NEW x \in Nat, NEW d \in Nat \ {0}, NEW y \in Nat, x < d * y
    PROVE  x \div d < y
<1> DEFINE q == x \div d
<1>1. x = d * q + (x % d) /\ q \in Nat /\ (x % d) \in 0 .. d - 1
  BY DivMod
<1> HIDE DEF q
<1>2. d * q < d * y
  BY <1>1
<1>3. q >= y => d * q >= d * y
  BY <1>1
<1> QED
  BY <1>1, <1>2, <1>3 DEF q

LEMMA DivExact ==
    ASSUME NEW d \in Nat \ {0}, NEW q \in Nat, NEW r \in 0 .. d - 1
    PROVE  (d * q + r) \div d = q
  OBVIOUS

(* Floors add up to no more than the floor of the sum.                      *)
LEMMA DivSuperadditive ==
    ASSUME NEW x \in Nat, NEW y \in Nat, NEW d \in Nat \ {0}
    PROVE  (x \div d) + (y \div d) <= (x + y) \div d
<1> DEFINE p == x \div d
           q == y \div d
           z == (x + y) \div d
<1>1. /\ x = d * p + (x % d) /\ p \in Nat /\ (x % d) \in 0 .. d - 1
      /\ y = d * q + (y % d) /\ q \in Nat /\ (y % d) \in 0 .. d - 1
  BY DivMod
<1>6. x + y = d * z + ((x + y) % d) /\ z \in Nat /\ ((x + y) % d) \in 0 .. d - 1
  <2>1. x + y \in Nat
    OBVIOUS
  <2> QED
    BY <2>1, DivMod
<1> HIDE DEF p, q, z
<1>2. d * p + d * q < d * z + d
  BY <1>1, <1>6
<1>3. d * p + d * q = d * (p + q) /\ d * z + d = d * (z + 1)
  BY <1>1, <1>6
<1>4. p + q >= z + 1 => d * (p + q) >= d * (z + 1)
  BY <1>1, <1>6, <1>6
<1>5. p + q < z + 1
  BY <1>1, <1>2, <1>3, <1>4, <1>6
<1> QED
  BY <1>1, <1>5, <1>6 DEF p, q, z

(* Flooring a sum loses less than flooring its terms: at most one unit for  *)
(* every inexact term but the first.  Controller._calculatePayout floors    *)
(* per vault in settleVault and per redemption in redeem.                   *)
THEOREM FloorOfSum ==
    ASSUME NEW S, IsFiniteSet(S), NEW f, NEW q, NEW k \in Nat, NEW d \in Nat \ {0},
           \A x \in S : f[x] \in Nat /\ q[x] = (f[x] * k) \div d,
           NEW n, n = Cardinality({x \in S : (f[x] * k) % d # 0})
    PROVE  (SumFunctionOnSet(f, S) * k) \div d
               <= SumFunctionOnSet(q, S) + (IF n = 0 THEN 0 ELSE n - 1)
<1> DEFINE e == [x \in S |-> f[x] * k]
           r == [x \in S |-> (f[x] * k) % d]
           R == {x \in S : (f[x] * k) % d # 0}
           i == [x \in S |-> IF x \in R THEN 1 ELSE 0]
           h == [x \in S |-> (d - 1) * i[x]]
           F == SumFunctionOnSet(f, S)
           Q == SumFunctionOnSet(q, S)
           L == SumFunctionOnSet(r, S)
<1>1. ASSUME NEW x \in S
      PROVE  /\ f[x] \in Nat /\ e[x] \in Nat /\ q[x] \in Nat /\ r[x] \in 0 .. d - 1
             /\ e[x] = k * f[x] /\ e[x] = d * q[x] + r[x]
             /\ x \in R <=> r[x] # 0
  <2> DEFINE y == f[x] * k
  <2>1. f[x] \in Nat /\ y \in Nat /\ y = k * f[x]
    OBVIOUS
  <2>2. e[x] = y /\ q[x] = y \div d /\ r[x] = y % d /\ (x \in R <=> y % d # 0)
    OBVIOUS
  <2> HIDE DEF y, e, r, R
  <2>3. y = d * (y \div d) + (y % d) /\ y \div d \in Nat /\ (y % d) \in 0 .. d - 1
    BY <2>1, DivMod
  <2> QED
    BY <2>1, <2>2, <2>3
<1>2. \A x \in S : i[x] = (IF x \in R THEN 1 ELSE 0) /\ h[x] = (d - 1) * i[x]
  OBVIOUS
<1>3. R \in SUBSET S /\ n = Cardinality(R)
  OBVIOUS
<1> HIDE DEF e, r, R, i, h
<1>4. /\ \A x \in S : f[x] \in Int /\ e[x] = k * f[x]
      /\ \A x \in S : q[x] \in Int /\ r[x] \in Int /\ e[x] = d * q[x] + r[x]
  BY <1>1
<1>5. n \in Nat
  BY <1>3, FS_Subset, FS_CardinalityType
<1>6. SumFunctionOnSet(e, S) = k * F
  BY <1>4, SumScaled
<1>7. SumFunctionOnSet(e, S) = d * Q + L
  <2>1. \A x \in S : q[x] \in Int /\ r[x] \in Int /\ e[x] = d * q[x] + r[x]
    BY <1>4
  <2> QED
    BY <2>1, SumLinear
<1>8. L <= (d - 1) * n
  <2>1. \A x \in S : r[x] \in Int /\ h[x] \in Int /\ r[x] <= h[x]
    <3> SUFFICES ASSUME NEW x \in S PROVE r[x] \in Int /\ h[x] \in Int /\ r[x] <= h[x]
      OBVIOUS
    <3>1. CASE x \in R
      BY <1>1, <1>2, <3>1
    <3>2. CASE x \notin R
      BY <1>1, <1>2, <3>2
    <3> QED
      BY <3>1, <3>2
  <2>2. L <= SumFunctionOnSet(h, S)
    BY <2>1, SumMonotonic
  <2>3. SumFunctionOnSet(h, S) = (d - 1) * SumFunctionOnSet(i, S)
    <3>1. d - 1 \in Int /\ \A x \in S : i[x] \in Int /\ h[x] = (d - 1) * i[x]
      BY <1>2
    <3> QED
      BY <3>1, SumScaled
  <2>4. SumFunctionOnSet(i, S) = n
    BY <1>2, <1>3, SumOfOnes
  <2> QED
    BY <2>2, <2>3, <2>4
<1>9. F \in Nat /\ Q \in Nat /\ L \in Nat
  <2>1. (\A x \in S : f[x] \in Nat) /\ (\A x \in S : q[x] \in Nat) /\ \A x \in S : r[x] \in Nat
    BY <1>1
  <2> QED
    BY <2>1, SumNat
<1> HIDE DEF F, Q, L
<1>10. F * k = d * Q + L /\ F * k \in Nat
  BY <1>6, <1>7, <1>9
<1>11. CASE n = 0
  <2>1. L = 0 /\ 0 \in 0 .. d - 1
    BY <1>8, <1>9, <1>11
  <2>2. (d * Q + 0) \div d = Q
    BY <1>9, <2>1, DivExact
  <2> QED
    BY <1>9, <1>10, <1>11, <2>1, <2>2 DEF F, Q
<1>12. CASE n # 0
  <2>1. (d - 1) * n < d * n
    BY <1>5, <1>12
  <2>2. d * Q + d * n = d * (Q + n) /\ Q + n \in Nat
    BY <1>5, <1>9
  <2>3. F * k < d * (Q + n)
    <3>1. (d - 1) * n \in Int /\ d * n \in Int /\ d * Q \in Int
      BY <1>5, <1>9
    <3> QED
      BY <1>8, <1>9, <1>10, <2>1, <2>2, <3>1
  <2>4. (F * k) \div d < Q + n
    BY <1>10, <2>2, <2>3, DivBelow
  <2>5. (F * k) \div d \in Nat
    BY <1>10, DivMod
  <2> QED
    BY <1>5, <1>9, <1>12, <2>4, <2>5 DEF F, Q
<1> QED
  BY <1>11, <1>12
=============================================================================
