---------------------------- MODULE Sums_proofs ----------------------------
(***************************************************************************)
(* Facts about SumFunctionOnSet(f, S), the sum of f[x] over the elements x *)
(* of a finite set S, in which the agentic-commerce contract's balance,    *)
(* quorum weights and milestone amounts are stated.                        *)
(*                                                                         *)
(* The sum is a recursive function on the subsets of S that removes one    *)
(* chosen element at a time.  That such a function exists is proved first; *)
(* that the choice does not matter follows, and with it everything else.   *)
(***************************************************************************)
EXTENDS Functions, Integers, FiniteSetTheorems, TLAPS

----------------------------------------------------------------------------
(* Induction. *)

(***************************************************************************)
(* A set that contains 0 and the successor of each of its numbers contains *)
(* every natural number.                                                   *)
(***************************************************************************)
LEMMA NatSetInduction ==
    ASSUME NEW A, 0 \in A, \A n \in Nat : n \in A => n + 1 \in A
    PROVE  Nat \subseteq A
<1> SUFFICES ASSUME Nat \ A # {} PROVE FALSE
  OBVIOUS
<1>1. IsWellFoundedOn(OpToRel(<, Nat), Nat)
  BY NatLessThanWellFounded
<1>2. PICK m \in Nat \ A : \A k \in Nat \ A : ~(<<k, m>> \in OpToRel(<, Nat))
  BY <1>1, WFMin
<1>3. \A k \in Nat : k < m => <<k, m>> \in OpToRel(<, Nat)
  BY DEF OpToRel
<1>4. m \in Nat /\ m \notin A /\ m # 0
  BY <1>2
<1>5. m - 1 \in Nat /\ m - 1 < m /\ (m - 1) + 1 = m
  BY <1>4
<1>6. m - 1 \in A
  BY <1>2, <1>3, <1>5
<1> QED
  BY <1>4, <1>5, <1>6

(***************************************************************************)
(* A set of natural numbers has a smallest.                                *)
(***************************************************************************)
LEMMA SmallestNumber ==
    ASSUME NEW S \in SUBSET Nat, S # {}
    PROVE  \E m \in S : \A k \in S : m <= k
<1>1. IsWellFoundedOn(OpToRel(<, Nat), Nat)
  BY NatLessThanWellFounded
<1>2. PICK m \in S : \A k \in S : ~(<<k, m>> \in OpToRel(<, Nat))
  BY <1>1, WFMin
<1>3. \A k \in S : k < m => <<k, m>> \in OpToRel(<, Nat)
  BY DEF OpToRel
<1>4. \A k \in S : m <= k
  <2> TAKE k \in S
  <2>1. m \in Nat /\ k \in Nat /\ ~(k < m)
    BY <1>2, <1>3
  <2> QED
    BY <2>1
<1> QED
  BY <1>4

(***************************************************************************)
(* Taking an element out of a set makes it one element smaller.            *)
(***************************************************************************)
LEMMA OneSmaller ==
    ASSUME NEW T, IsFiniteSet(T), NEW n \in Nat, Cardinality(T) = n + 1,
           NEW x \in T
    PROVE  Cardinality(T \ {x}) = n
<1>1. Cardinality(T \ {x}) = Cardinality(T) - 1
  BY FS_RemoveElement
<1> QED
  BY <1>1

(***************************************************************************)
(* A set of subsets of a finite S that contains {} and stays closed when   *)
(* an element is added contains S.                                         *)
(***************************************************************************)
LEMMA SubsetInduction ==
    ASSUME NEW S, IsFiniteSet(S), NEW P, {} \in P,
           \A T \in SUBSET S : \A x \in S \ T : T \in P => T \cup {x} \in P
    PROVE  S \in P
<1> DEFINE A == {n \in Nat : \A T \in SUBSET S : Cardinality(T) = n => T \in P}
<1>1. \A T \in SUBSET S : IsFiniteSet(T) /\ Cardinality(T) \in Nat
  BY FS_Subset, FS_CardinalityType
<1>2. 0 \in A
  BY <1>1, FS_EmptySet
<1>3. ASSUME NEW n \in Nat, n \in A
      PROVE  n + 1 \in A
  <2> SUFFICES ASSUME NEW T \in SUBSET S, Cardinality(T) = n + 1
               PROVE  T \in P
    OBVIOUS
  <2>1. T # {} /\ IsFiniteSet(T)
    BY <1>1, FS_EmptySet
  <2>2. PICK x \in T : TRUE
    BY <2>1
  <2>3. Cardinality(T \ {x}) = n
    BY <2>1, <2>2, OneSmaller
  <2>4. T \ {x} \in P /\ x \in S \ (T \ {x}) /\ T = (T \ {x}) \cup {x}
    BY <1>3, <2>3
  <2> QED
    BY <2>4
<1> HIDE DEF A
<1>4. Nat \subseteq A
  BY <1>2, <1>3, NatSetInduction
<1> QED
  BY <1>1, <1>4 DEF A

----------------------------------------------------------------------------
(* The recursion. *)

\* The next element the recursion takes out of a set, and what it computes of
\* the set from the sums of the smaller ones.
Next1(s) == CHOOSE x \in s : TRUE

Step(f, F, s) == IF s = {} THEN 0 ELSE f[Next1(s)] + F[s \ {Next1(s)}]

\* F is a solution of the recursion on the subsets of S.
Solves(F, f, S) == F = [s \in SUBSET S |-> Step(f, F, s)]

LEMMA SumIsSolution ==
    ASSUME NEW f, NEW S
    PROVE  SumFunctionOnSet(f, S) = (CHOOSE F : Solves(F, f, S))[S]
BY DEF SumFunctionOnSet, FoldFunctionOnSet, MapThenFoldSet, Solves, Step, Next1

(***************************************************************************)
(* The recursion has a solution on every finite set: one that solves it up *)
(* to a cardinality can be continued to the next.                          *)
(***************************************************************************)
LEMMA SolutionExists ==
    ASSUME NEW f, NEW S, IsFiniteSet(S)
    PROVE  \E F : Solves(F, f, S)
<1> DEFINE Upto(F, n) == \A s \in SUBSET S : Cardinality(s) <= n =>
                            F[s] = Step(f, F, s)
           A == {n \in Nat : \E F : F = [s \in SUBSET S |-> F[s]] /\ Upto(F, n)}
<1>1. \A s \in SUBSET S : IsFiniteSet(s) /\ Cardinality(s) \in Nat
  BY FS_Subset, FS_CardinalityType
<1>2. \A s \in SUBSET S : s # {} =>
         /\ Next1(s) \in s /\ s \ {Next1(s)} \in SUBSET S
         /\ Cardinality(s \ {Next1(s)}) = Cardinality(s) - 1
  <2> SUFFICES ASSUME NEW s \in SUBSET S, s # {}
               PROVE  /\ Next1(s) \in s /\ s \ {Next1(s)} \in SUBSET S
                      /\ Cardinality(s \ {Next1(s)}) = Cardinality(s) - 1
    OBVIOUS
  <2>1. Next1(s) \in s
    BY DEF Next1
  <2> QED
    BY <1>1, <2>1, FS_RemoveElement
<1>3. 0 \in A
  <2> DEFINE F == [s \in SUBSET S |-> 0]
  <2>1. \A s \in SUBSET S : Cardinality(s) <= 0 => s = {}
    BY <1>1, FS_EmptySet
  <2>2. F = [s \in SUBSET S |-> F[s]] /\ Upto(F, 0)
    BY <2>1 DEF Step
  <2> QED
    BY <2>2
<1>4. ASSUME NEW n \in Nat, n \in A
      PROVE  n + 1 \in A
  <2>1. PICK F : F = [s \in SUBSET S |-> F[s]] /\ Upto(F, n)
    BY <1>4
  <2> DEFINE G == [s \in SUBSET S |->
                     IF Cardinality(s) <= n THEN F[s] ELSE Step(f, F, s)]
  <2>2. \A s \in SUBSET S : Cardinality(s) <= n + 1 => G[s] = Step(f, F, s)
    BY <2>1
  <2>3. \A s \in SUBSET S : Cardinality(s) <= n + 1 => Step(f, G, s) = Step(f, F, s)
    BY <1>1, <1>2 DEF Step
  <2>4. G = [s \in SUBSET S |-> G[s]] /\ Upto(G, n + 1)
    BY <2>2, <2>3
  <2>5. \E H : H = [s \in SUBSET S |-> H[s]] /\ Upto(H, n + 1)
    <3> HIDE DEF G, Upto
    <3> QED
      BY <2>4
  <2>6. n + 1 \in Nat
    OBVIOUS
  <2> HIDE DEF Upto, G
  <2> QED
    BY <2>5, <2>6
<1> HIDE DEF A
<1>5. Nat \subseteq A
  BY <1>3, <1>4, NatSetInduction
<1>6. S \in SUBSET S /\ Cardinality(S) \in A
  BY <1>1, <1>5
<1>7. PICK F : F = [s \in SUBSET S |-> F[s]] /\ Upto(F, Cardinality(S))
  BY <1>6 DEF A
<1>8. \A s \in SUBSET S : F[s] = Step(f, F, s)
  BY <1>1, <1>7, FS_Subset
<1>9. F = [s \in SUBSET S |-> Step(f, F, s)]
  BY <1>7, <1>8
<1> QED
  BY <1>9 DEF Solves

(***************************************************************************)
(* Solutions agree wherever both are defined and sum equal values.         *)
(***************************************************************************)
LEMMA SolutionUnique ==
    ASSUME NEW f, NEW g, NEW S, NEW T, NEW F, NEW G,
           IsFiniteSet(S), T \subseteq S,
           Solves(F, f, S), Solves(G, g, T), \A x \in T : f[x] = g[x]
    PROVE  F[T] = G[T]
<1> DEFINE A == {n \in Nat : \A s \in SUBSET T : Cardinality(s) = n => F[s] = G[s]}
<1>1. \A s \in SUBSET T : IsFiniteSet(s) /\ Cardinality(s) \in Nat
  BY FS_Subset, FS_CardinalityType
<1>2. \A s \in SUBSET T : F[s] = Step(f, F, s) /\ G[s] = Step(g, G, s)
  BY DEF Solves
<1>3. 0 \in A
  BY <1>1, <1>2, FS_EmptySet DEF Step
<1>4. ASSUME NEW n \in Nat, n \in A
      PROVE  n + 1 \in A
  <2> SUFFICES ASSUME NEW s \in SUBSET T, Cardinality(s) = n + 1
               PROVE  F[s] = G[s]
    OBVIOUS
  <2>1. s # {}
    BY FS_EmptySet
  <2>2. Next1(s) \in s
    BY <2>1 DEF Next1
  <2>3. Cardinality(s \ {Next1(s)}) = n
    BY <1>1, <2>2, OneSmaller
  <2>4. F[s \ {Next1(s)}] = G[s \ {Next1(s)}] /\ f[Next1(s)] = g[Next1(s)]
    BY <1>4, <2>2, <2>3
  <2> QED
    BY <1>2, <2>1, <2>4 DEF Step
<1> HIDE DEF A
<1>5. Nat \subseteq A
  BY <1>3, <1>4, NatSetInduction
<1> QED
  BY <1>1, <1>5 DEF A

----------------------------------------------------------------------------
(* What the sum computes. *)

(***************************************************************************)
(* The sum over nothing, and over a set of which one element is taken out: *)
(* the chosen one here, any one in SumRemove.                              *)
(***************************************************************************)
LEMMA SumEmpty ==
    ASSUME NEW f
    PROVE  SumFunctionOnSet(f, {}) = 0
<1>1. \E G : Solves(G, f, {})
  BY SolutionExists, FS_EmptySet
<1>2. Solves(CHOOSE F : Solves(F, f, {}), f, {})
  BY <1>1
<1> QED
  BY <1>2, SumIsSolution DEF Solves, Step

(***************************************************************************)
(* Two functions that agree on S have the same sum.                        *)
(***************************************************************************)
LEMMA SumCongruence ==
    ASSUME NEW f, NEW g, NEW S, IsFiniteSet(S), \A x \in S : f[x] = g[x]
    PROVE  SumFunctionOnSet(f, S) = SumFunctionOnSet(g, S)
<1>1. Solves(CHOOSE F : Solves(F, f, S), f, S)
  BY SolutionExists
<1>2. Solves(CHOOSE F : Solves(F, g, S), g, S)
  BY SolutionExists
<1>3. S \subseteq S
  OBVIOUS
<1>4. (CHOOSE F : Solves(F, f, S))[S] = (CHOOSE F : Solves(F, g, S))[S]
  BY <1>1, <1>2, <1>3, SolutionUnique
<1> QED
  BY <1>4, SumIsSolution

LEMMA SumChosen ==
    ASSUME NEW f, NEW S, IsFiniteSet(S), S # {}
    PROVE  /\ Next1(S) \in S
           /\ SumFunctionOnSet(f, S)
                = f[Next1(S)] + SumFunctionOnSet(f, S \ {Next1(S)})
<1> DEFINE T == S \ {Next1(S)}
           F == CHOOSE F : Solves(F, f, S)
           G == CHOOSE G : Solves(G, f, T)
<1>1. Next1(S) \in S
  BY DEF Next1
<1>2. IsFiniteSet(T) /\ T \subseteq S
  BY FS_RemoveElement
<1>3. Solves(F, f, S)
  BY SolutionExists
<1>4. Solves(G, f, T)
  BY <1>2, SolutionExists
<1>5. SumFunctionOnSet(f, S) = F[S] /\ SumFunctionOnSet(f, T) = G[T]
  BY SumIsSolution
<1> HIDE DEF F, G
<1>6. F[S] = Step(f, F, S)
  BY <1>3 DEF Solves
<1>7. F[T] = G[T]
  BY <1>2, <1>3, <1>4, SolutionUnique
<1> QED
  BY <1>1, <1>5, <1>6, <1>7 DEF Step

(***************************************************************************)
(* A sum of integers is an integer.                                        *)
(***************************************************************************)
LEMMA SumInt ==
    ASSUME NEW f, NEW S, IsFiniteSet(S), \A x \in S : f[x] \in Int
    PROVE  SumFunctionOnSet(f, S) \in Int
<1> DEFINE A == {n \in Nat : \A T \in SUBSET S :
                   Cardinality(T) = n => SumFunctionOnSet(f, T) \in Int}
<1>1. \A T \in SUBSET S : IsFiniteSet(T) /\ Cardinality(T) \in Nat
  BY FS_Subset, FS_CardinalityType
<1>2. 0 \in A
  <2> SUFFICES ASSUME NEW T \in SUBSET S, Cardinality(T) = 0
               PROVE  SumFunctionOnSet(f, T) \in Int
    OBVIOUS
  <2>1. T = {}
    BY <1>1, FS_EmptySet
  <2> QED
    BY <2>1, SumEmpty
<1>3. ASSUME NEW n \in Nat, n \in A
      PROVE  n + 1 \in A
  <2> SUFFICES ASSUME NEW T \in SUBSET S, Cardinality(T) = n + 1
               PROVE  SumFunctionOnSet(f, T) \in Int
    OBVIOUS
  <2>1. T # {} /\ IsFiniteSet(T)
    BY <1>1, FS_EmptySet
  <2>2. /\ Next1(T) \in T
        /\ SumFunctionOnSet(f, T) = f[Next1(T)] + SumFunctionOnSet(f, T \ {Next1(T)})
    BY <2>1, SumChosen
  <2>3. Cardinality(T \ {Next1(T)}) = n
    BY <2>1, <2>2, OneSmaller
  <2>4. SumFunctionOnSet(f, T \ {Next1(T)}) \in Int /\ f[Next1(T)] \in Int
    BY <1>3, <2>2, <2>3
  <2> QED
    BY <2>2, <2>4
<1> HIDE DEF A
<1>4. Nat \subseteq A
  BY <1>2, <1>3, NatSetInduction
<1> QED
  BY <1>1, <1>4 DEF A

(***************************************************************************)
(* Any element can be taken out of a sum: the order does not matter.       *)
(***************************************************************************)
LEMMA SumRemove ==
    ASSUME NEW f, NEW S, IsFiniteSet(S), \A x \in S : f[x] \in Int, NEW x \in S
    PROVE  SumFunctionOnSet(f, S) = f[x] + SumFunctionOnSet(f, S \ {x})
<1> DEFINE Sum(T) == SumFunctionOnSet(f, T)
           A == {n \in Nat : \A T \in SUBSET S : \A y \in T :
                   Cardinality(T) = n => Sum(T) = f[y] + Sum(T \ {y})}
<1>1. \A T \in SUBSET S : IsFiniteSet(T) /\ Cardinality(T) \in Nat /\ Sum(T) \in Int
  BY FS_Subset, FS_CardinalityType, SumInt
<1>2. 0 \in A
  BY <1>1, FS_EmptySet
<1>3. ASSUME NEW n \in Nat, n \in A
      PROVE  n + 1 \in A
  <2> SUFFICES ASSUME NEW T \in SUBSET S, NEW y \in T, Cardinality(T) = n + 1
               PROVE  Sum(T) = f[y] + Sum(T \ {y})
    OBVIOUS
  <2> DEFINE c == Next1(T)
  <2>1. IsFiniteSet(T) /\ T # {}
    BY <1>1
  <2>2. c \in T /\ Sum(T) = f[c] + Sum(T \ {c})
    BY <2>1, SumChosen
  <2> HIDE DEF c, Sum
  <2>3. CASE y = c
    BY <2>2, <2>3
  <2>4. CASE y # c
    <3>1. Cardinality(T \ {c}) = n /\ Cardinality(T \ {y}) = n
      BY <2>1, <2>2, OneSmaller
    <3>2. y \in T \ {c} /\ c \in T \ {y}
      BY <2>2, <2>4
    <3>3. Sum(T \ {c}) = f[y] + Sum((T \ {c}) \ {y})
      BY <1>3, <3>1, <3>2
    <3>4. Sum(T \ {y}) = f[c] + Sum((T \ {y}) \ {c})
      BY <1>3, <3>1, <3>2
    <3>5. (T \ {c}) \ {y} = (T \ {y}) \ {c}
      OBVIOUS
    <3> DEFINE rest == Sum((T \ {y}) \ {c})
    <3>6. f[y] \in Int /\ f[c] \in Int /\ rest \in Int
      BY <1>1, <2>2
    <3>7. /\ Sum(T) = f[c] + (f[y] + rest)
          /\ Sum(T \ {y}) = f[c] + rest
      BY <2>2, <3>3, <3>4, <3>5
    <3> HIDE DEF rest
    <3> QED
      BY <3>6, <3>7
  <2> QED
    BY <2>3, <2>4
<1> HIDE DEF A
<1>4. Nat \subseteq A
  BY <1>2, <1>3, NatSetInduction
<1> QED
  BY <1>1, <1>4 DEF A

----------------------------------------------------------------------------
(* What the proofs about the contract use. *)

(***************************************************************************)
(* One more element adds its value.                                        *)
(***************************************************************************)
LEMMA SumAdd ==
    ASSUME NEW f, NEW S, IsFiniteSet(S), NEW x, x \notin S,
           f[x] \in Int, \A y \in S : f[y] \in Int
    PROVE  SumFunctionOnSet(f, S \cup {x}) = SumFunctionOnSet(f, S) + f[x]
<1>1. IsFiniteSet(S \cup {x}) /\ (S \cup {x}) \ {x} = S /\ x \in S \cup {x}
  BY FS_AddElement
<1>2. \A y \in S \cup {x} : f[y] \in Int
  OBVIOUS
<1>3. SumFunctionOnSet(f, S \cup {x})
         = f[x] + SumFunctionOnSet(f, (S \cup {x}) \ {x})
  BY <1>1, <1>2, SumRemove
<1>4. SumFunctionOnSet(f, S \cup {x}) = f[x] + SumFunctionOnSet(f, S)
  BY <1>1, <1>3
<1>5. SumFunctionOnSet(f, S) \in Int
  BY SumInt
<1> QED
  BY <1>4, <1>5

(***************************************************************************)
(* Zeros add up to zero.                                                   *)
(***************************************************************************)
LEMMA SumOfZeros ==
    ASSUME NEW f, NEW S, IsFiniteSet(S), \A x \in S : f[x] = 0
    PROVE  SumFunctionOnSet(f, S) = 0
<1> DEFINE P == {T \in SUBSET S : SumFunctionOnSet(f, T) = 0}
<1>1. {} \in P
  BY SumEmpty
<1>2. ASSUME NEW T \in SUBSET S, NEW x \in S \ T, T \in P PROVE T \cup {x} \in P
  <2>1. IsFiniteSet(T) /\ \A y \in T : f[y] \in Int
    BY FS_Subset
  <2>2. SumFunctionOnSet(f, T \cup {x}) = SumFunctionOnSet(f, T) + f[x]
    BY <2>1, SumAdd
  <2> QED
    BY <1>2, <2>2
<1>3. S \in P
  <2> HIDE DEF P
  <2> QED
    BY <1>1, <1>2, SubsetInduction
<1> QED
  BY <1>3

(***************************************************************************)
(* Changing the value of one element changes the sum by the difference.    *)
(***************************************************************************)
LEMMA SumChange ==
    ASSUME NEW f, NEW g, NEW S, IsFiniteSet(S), NEW x \in S,
           \A y \in S : f[y] \in Int, g[x] \in Int,
           \A y \in S \ {x} : g[y] = f[y]
    PROVE  SumFunctionOnSet(g, S) = SumFunctionOnSet(f, S) - f[x] + g[x]
<1> DEFINE rest == SumFunctionOnSet(f, S \ {x})
<1>1. IsFiniteSet(S \ {x})
  BY FS_RemoveElement
<1>2. SumFunctionOnSet(g, S \ {x}) = rest
  BY <1>1, SumCongruence
<1>3. rest \in Int /\ f[x] \in Int
  BY <1>1, SumInt
<1>4. SumFunctionOnSet(f, S) = f[x] + rest
  BY SumRemove
<1>5. \A y \in S : g[y] \in Int
  OBVIOUS
<1>6. SumFunctionOnSet(g, S) = g[x] + SumFunctionOnSet(g, S \ {x})
  BY <1>5, SumRemove
<1> HIDE DEF rest
<1> QED
  BY <1>2, <1>3, <1>4, <1>6

(***************************************************************************)
(* The sum over two disjoint sets is the sum of their sums.                *)
(***************************************************************************)
LEMMA SumDisjoint ==
    ASSUME NEW f, NEW S, NEW T, IsFiniteSet(S), IsFiniteSet(T), S \cap T = {},
           \A x \in S \cup T : f[x] \in Int
    PROVE  SumFunctionOnSet(f, S \cup T)
              = SumFunctionOnSet(f, S) + SumFunctionOnSet(f, T)
<1> DEFINE Sum(U) == SumFunctionOnSet(f, U)
           P == {U \in SUBSET T : Sum(S \cup U) = Sum(S) + Sum(U)}
<1>1. Sum(S) \in Int
  BY SumInt
<1>2. {} \in P
  <2>1. S \cup {} = S /\ Sum({}) = 0
    BY SumEmpty
  <2> QED
    BY <1>1, <2>1
<1>3. ASSUME NEW U \in SUBSET T, NEW x \in T \ U, U \in P
      PROVE  U \cup {x} \in P
  <2>1. IsFiniteSet(U) /\ IsFiniteSet(S \cup U)
    BY FS_Subset, FS_Union
  <2>2. x \notin U /\ x \notin S \cup U /\ S \cup (U \cup {x}) = (S \cup U) \cup {x}
    OBVIOUS
  <2>3. Sum(U \cup {x}) = Sum(U) + f[x]
    BY <2>1, <2>2, SumAdd
  <2>4. Sum((S \cup U) \cup {x}) = Sum(S \cup U) + f[x]
    BY <2>1, <2>2, SumAdd
  <2>5. Sum(U) \in Int /\ f[x] \in Int
    BY <2>1, SumInt
  <2>6. Sum(S \cup U) = Sum(S) + Sum(U)
    BY <1>3
  <2>7. Sum(S \cup (U \cup {x})) = Sum(S) + Sum(U) + f[x]
    BY <2>2, <2>4, <2>6
  <2> HIDE DEF Sum
  <2>8. Sum(S \cup (U \cup {x})) = Sum(S) + Sum(U \cup {x})
    BY <1>1, <2>3, <2>5, <2>7
  <2> QED
    BY <2>8
<1> HIDE DEF P
<1>4. T \in P
  BY <1>2, <1>3, SubsetInduction
<1> QED
  BY <1>4 DEF P

(***************************************************************************)
(* The sum of positive values is positive, unless there are none.          *)
(***************************************************************************)
LEMMA SumPositive ==
    ASSUME NEW f, NEW S, IsFiniteSet(S), \A x \in S : f[x] \in Int /\ f[x] > 0
    PROVE  /\ SumFunctionOnSet(f, S) \in Nat
           /\ SumFunctionOnSet(f, S) = 0 <=> S = {}
<1> DEFINE Sum(U) == SumFunctionOnSet(f, U)
           P == {U \in SUBSET S : Sum(U) \in Nat /\ (Sum(U) = 0 <=> U = {})}
<1>1. {} \in P
  BY SumEmpty
<1>2. ASSUME NEW U \in SUBSET S, NEW x \in S \ U, U \in P
      PROVE  U \cup {x} \in P
  <2>1. IsFiniteSet(U)
    BY FS_Subset
  <2>2. Sum(U \cup {x}) = Sum(U) + f[x]
    BY <2>1, SumAdd
  <2>3. Sum(U) \in Nat /\ f[x] \in Nat /\ f[x] > 0
    BY <1>2
  <2> HIDE DEF Sum
  <2>4. Sum(U \cup {x}) \in Nat /\ Sum(U \cup {x}) # 0
    BY <2>2, <2>3
  <2> QED
    BY <2>4
<1> HIDE DEF P
<1>3. S \in P
  BY <1>1, <1>2, SubsetInduction
<1> QED
  BY <1>3 DEF P

(***************************************************************************)
(* A part of positive values that sums up to as much as the whole is the   *)
(* whole.                                                                  *)
(***************************************************************************)
LEMMA SumOfPart ==
    ASSUME NEW f, NEW S, IsFiniteSet(S), NEW T \in SUBSET S,
           \A x \in S : f[x] \in Int /\ f[x] > 0
    PROVE  /\ SumFunctionOnSet(f, T) \in Nat /\ SumFunctionOnSet(f, S) \in Nat
           /\ SumFunctionOnSet(f, T) <= SumFunctionOnSet(f, S)
           /\ SumFunctionOnSet(f, T) = SumFunctionOnSet(f, S) <=> T = S
<1> DEFINE R == S \ T
           part == SumFunctionOnSet(f, T)
           rest == SumFunctionOnSet(f, R)
<1>1. IsFiniteSet(T) /\ IsFiniteSet(R) /\ T \cap R = {} /\ T \cup R = S
  BY FS_Subset
<1>2. SumFunctionOnSet(f, T \cup R) = part + rest
  BY <1>1, SumDisjoint
<1>3. part \in Nat /\ rest \in Nat /\ (rest = 0 <=> R = {})
  BY <1>1, SumPositive
<1>4. R = {} <=> T = S
  OBVIOUS
<1>5. SumFunctionOnSet(f, S) = part + rest
  BY <1>1, <1>2
<1> HIDE DEF R, part, rest
<1>6. SumFunctionOnSet(f, S) \in Nat /\ part <= SumFunctionOnSet(f, S)
      /\ (part = SumFunctionOnSet(f, S) <=> rest = 0)
  BY <1>3, <1>5
<1> QED
  BY <1>3, <1>4, <1>6 DEF part

Shifted(S, k) == {k + i : i \in S}

(***************************************************************************)
(* Renumbering the elements does not change the sum.                       *)
(***************************************************************************)
LEMMA SumShift ==
    ASSUME NEW f, NEW g, NEW S \in SUBSET Int, IsFiniteSet(S), NEW k \in Int,
           \A i \in S : f[i] \in Int /\ g[k + i] = f[i]
    PROVE  /\ IsFiniteSet(Shifted(S, k))
           /\ SumFunctionOnSet(g, Shifted(S, k)) = SumFunctionOnSet(f, S)
<1> DEFINE Shift(U) == Shifted(U, k)
           P == {U \in SUBSET S :
                   /\ IsFiniteSet(Shift(U))
                   /\ SumFunctionOnSet(g, Shift(U)) = SumFunctionOnSet(f, U)}
<1>1. {} \in P
  <2>1. Shift({}) = {}
    BY DEF Shifted
  <2> QED
    BY <2>1, SumEmpty, FS_EmptySet
<1>2. ASSUME NEW U \in SUBSET S, NEW x \in S \ U, U \in P
      PROVE  U \cup {x} \in P
  <2>1. IsFiniteSet(U) /\ IsFiniteSet(Shift(U))
    BY <1>2, FS_Subset
  <2>2. Shift(U \cup {x}) = Shift(U) \cup {k + x}
    BY DEF Shifted
  <2>3. k + x \notin Shift(U)
    BY DEF Shifted
  <2>4. g[k + x] = f[x] /\ f[x] \in Int
    OBVIOUS
  <2>5. \A y \in Shift(U) : g[y] \in Int
    BY DEF Shifted
  <2> HIDE DEF Shift
  <2>6. /\ IsFiniteSet(Shift(U) \cup {k + x})
        /\ SumFunctionOnSet(g, Shift(U) \cup {k + x})
              = SumFunctionOnSet(g, Shift(U)) + g[k + x]
    BY <2>1, <2>3, <2>4, <2>5, SumAdd, FS_AddElement
  <2>7. SumFunctionOnSet(f, U \cup {x}) = SumFunctionOnSet(f, U) + f[x]
    BY <2>1, SumAdd
  <2>8. SumFunctionOnSet(g, Shift(U)) = SumFunctionOnSet(f, U)
    BY <1>2
  <2> QED
    BY <2>2, <2>4, <2>6, <2>7, <2>8
<1> HIDE DEF P
<1>3. S \in P
  BY <1>1, <1>2, SubsetInduction
<1> QED
  BY <1>3 DEF P

=============================================================================
