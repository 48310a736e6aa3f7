-------------------------------- MODULE Sums --------------------------------
(***************************************************************************)
(* Facts about the sum of a function over a finite set, for the models     *)
(* that add up capital or contracts with the folds of the community        *)
(* modules.  Where an induction over the subsets of a set is needed, it is *)
(* carried out on a smallest set among those that do not satisfy the fact. *)
(***************************************************************************)
EXTENDS Integers, FiniteSets, FiniteSetsExt, FiniteSetTheorems, TLAPS

SumOf(f, S) == MapThenSumSet(LAMBDA x : f[x], S)

(* The element a fold takes next, and the function it is the last value of. *)
Taken(S) == CHOOSE x \in S : TRUE
Added(f, g, T) == IF T = {} THEN 0 ELSE f[Taken(T)] + g[T \ {Taken(T)}]
IsSum(f, g, S) == g = [T \in SUBSET S |-> Added(f, g, T)]

(* A set of subsets of a finite set has a member with no other below it. *)
LEMMA SmallestSubset ==
  ASSUME NEW S, IsFiniteSet(S), NEW B, B \subseteq SUBSET S, B # {}
  PROVE  \E T \in B : \A U \in SUBSET T : U # T => U \notin B
<1>1. IsWellFoundedOn(StrictSubsetOrdering(S), FiniteSubsetsOf(S))
  BY FS_StrictSubsetOrderingWellFounded
<1>2. FiniteSubsetsOf(S) = SUBSET S
  BY FS_FiniteSubsetsOfFinite
<1>3. \E T \in B : \A U \in B : <<U, T>> \notin StrictSubsetOrdering(S)
  BY <1>1, <1>2, WFMin
<1>. QED
  BY <1>3 DEF StrictSubsetOrdering

LEMMA TakenFromSet == \A S : S # {} => Taken(S) \in S
BY DEF Taken

(* The fold is the value of a function that satisfies its equation. *)
LEMMA SumOfFold ==
  ASSUME NEW f, NEW S
  PROVE  SumOf(f, S) = (CHOOSE g : IsSum(f, g, S))[S]
BY DEF SumOf, MapThenSumSet, MapThenFoldSet, IsSum, Added, Taken

(* Two such functions agree wherever what they add does. *)
LEMMA SumUnique ==
  ASSUME NEW f, NEW g, NEW S, IsFiniteSet(S), IsSum(f, g, S),
         NEW e, NEW h, NEW T, IsSum(e, h, T), \A x \in S \cap T : f[x] = e[x]
  PROVE  \A U \in SUBSET (S \cap T) : g[U] = h[U]
<1> DEFINE B == {U \in SUBSET (S \cap T) : g[U] # h[U]}
<1> SUFFICES ASSUME B # {} PROVE FALSE
  OBVIOUS
<1>1. PICK U \in B : \A V \in SUBSET U : V # U => V \notin B
  <2>1. B \subseteq SUBSET S
    OBVIOUS
  <2> HIDE DEF B
  <2>. QED
    BY <2>1, SmallestSubset
<1>2. U \in SUBSET S /\ U \in SUBSET T /\ g[U] # h[U]
  BY <1>1
<1>3. g[U] = Added(f, g, U) /\ h[U] = Added(e, h, U)
  BY <1>2 DEF IsSum
<1>4. CASE U = {}
  BY <1>2, <1>3, <1>4 DEF Added
<1>5. CASE U # {}
  <2>1. Taken(U) \in U
    BY <1>5, TakenFromSet
  <2>2. g[U \ {Taken(U)}] = h[U \ {Taken(U)}]
    BY <1>1, <1>2, <2>1
  <2>3. f[Taken(U)] = e[Taken(U)]
    BY <1>2, <2>1
  <2>. QED
    BY <1>2, <1>3, <1>5, <2>2, <2>3 DEF Added
<1>. QED
  BY <1>4, <1>5

(* There is such a function: it is put together from those of the subsets. *)
LEMMA SumExists ==
  ASSUME NEW f, NEW S, IsFiniteSet(S)
  PROVE  \E g : IsSum(f, g, S)
<1> DEFINE B == {T \in SUBSET S : ~ \E g : IsSum(f, g, T)}
<1> SUFFICES ASSUME B # {} PROVE FALSE
  OBVIOUS
<1>1. PICK T \in B : \A U \in SUBSET T : U # T => U \notin B
  <2>1. B \subseteq SUBSET S
    OBVIOUS
  <2> HIDE DEF B
  <2>. QED
    BY <2>1, SmallestSubset
<1>2. T \in SUBSET S /\ ~ \E g : IsSum(f, g, T)
  BY <1>1
<1> DEFINE part(U) == CHOOSE g : IsSum(f, g, U)
<1>3. \A U \in SUBSET T : U # T => IsSum(f, part(U), U) /\ IsFiniteSet(U)
  <2>1. \A U \in SUBSET T : U # T => \E g : IsSum(f, g, U)
    BY <1>1, <1>2
  <2>2. \A U \in SUBSET T : IsFiniteSet(U)
    BY <1>2, FS_Subset
  <2>. QED
    BY <2>1, <2>2
<1> HIDE DEF part
<1> DEFINE whole == [U \in SUBSET T |-> IF U = T THEN Added(f, part(T \ {Taken(T)}), T)
                                                 ELSE part(U)[U]]
<1>4. \A U, V : U \in SUBSET T /\ U # T /\ V \in SUBSET U => part(U)[V] = part(V)[V]
  <2> SUFFICES ASSUME NEW U \in SUBSET T, U # T, NEW V \in SUBSET U
               PROVE  part(U)[V] = part(V)[V]
    OBVIOUS
  <2>1. V \in SUBSET T /\ V # T /\ V \in SUBSET (U \cap V)
    OBVIOUS
  <2>2. IsSum(f, part(U), U) /\ IsFiniteSet(U) /\ IsSum(f, part(V), V)
    BY <1>3, <2>1
  <2>. QED
    BY <2>1, <2>2, SumUnique
<1>5. ASSUME NEW U \in SUBSET T PROVE whole[U] = Added(f, whole, U)
  <2>1. CASE U = {}
    <3>1. U # T => part(U)[U] = Added(f, part(U), U)
      BY <1>3 DEF IsSum
    <3>. QED
      BY <2>1, <3>1 DEF Added
  <2>2. CASE U # {} /\ U = T
    <3>1. Taken(T) \in T
      BY <2>2, TakenFromSet
    <3>2. T \ {Taken(T)} \in SUBSET T /\ T \ {Taken(T)} # T
      BY <3>1
    <3>3. whole[T \ {Taken(T)}] = part(T \ {Taken(T)})[T \ {Taken(T)}]
      BY <3>2
    <3>. QED
      BY <2>2, <3>3 DEF Added
  <2>3. CASE U # {} /\ U # T
    <3>1. Taken(U) \in U
      BY <2>3, TakenFromSet
    <3> DEFINE V == U \ {Taken(U)}
    <3>2. V \in SUBSET U /\ V \in SUBSET T /\ V # T
      BY <3>1
    <3>3. whole[V] = part(V)[V] /\ whole[U] = part(U)[U]
      BY <2>3, <3>2
    <3>4. part(U)[U] = Added(f, part(U), U)
      BY <1>3, <2>3 DEF IsSum
    <3>5. part(U)[V] = part(V)[V]
      BY <1>4, <2>3, <3>2
    <3>. QED
      BY <2>3, <3>3, <3>4, <3>5 DEF Added
  <2>. QED
    BY <2>1, <2>2, <2>3
<1>6. IsSum(f, whole, T)
  <2> HIDE DEF whole
  <2>1. whole = [U \in SUBSET T |-> whole[U]]
    BY DEF whole
  <2>. QED
    BY <1>5, <2>1 DEF IsSum
<1>. QED
  BY <1>2, <1>6

(* Any function that satisfies the equation of the sum ends in it. *)
LEMMA SumOfIs ==
  ASSUME NEW f, NEW g, NEW S, IsFiniteSet(S), IsSum(f, g, S)
  PROVE  \A T \in SUBSET S : SumOf(f, T) = g[T]
<1> SUFFICES ASSUME NEW T \in SUBSET S PROVE SumOf(f, T) = g[T]
  OBVIOUS
<1>1. IsFiniteSet(T)
  BY FS_Subset
<1>2. IsSum(f, CHOOSE h : IsSum(f, h, T), T)
  BY <1>1, SumExists
<1>3. T \in SUBSET (S \cap T)
  OBVIOUS
<1>4. g[T] = (CHOOSE h : IsSum(f, h, T))[T]
  BY <1>2, <1>3, SumUnique
<1>. QED
  BY <1>4, SumOfFold

LEMMA SumEmpty == \A f : SumOf(f, {}) = 0
<1> TAKE f
<1>1. PICK g : IsSum(f, g, {})
  BY SumExists, FS_EmptySet
<1>2. SumOf(f, {}) = g[{}]
  BY <1>1, SumOfIs, FS_EmptySet
<1>. QED
  BY <1>1, <1>2 DEF IsSum, Added

(* The two halves of the equation of the sum: the empty set, and the element that
   is taken. *)
LEMMA SumTakes ==
  ASSUME NEW f, NEW S, IsFiniteSet(S), S # {}
  PROVE  SumOf(f, S) = f[Taken(S)] + SumOf(f, S \ {Taken(S)})
<1>1. PICK g : IsSum(f, g, S)
  BY SumExists
<1>2. S \in SUBSET S /\ S \ {Taken(S)} \in SUBSET S
  OBVIOUS
<1>3. SumOf(f, S) = g[S] /\ SumOf(f, S \ {Taken(S)}) = g[S \ {Taken(S)}]
  BY <1>1, <1>2, SumOfIs
<1>. QED
  BY <1>1, <1>2, <1>3 DEF IsSum, Added

-----------------------------------------------------------------------------

(* A sum of numbers is a number. *)
LEMMA SumType ==
  ASSUME NEW N \in {Nat, Int}, NEW f, NEW S, IsFiniteSet(S), \A x \in S : f[x] \in N
  PROVE  SumOf(f, S) \in N
<1> DEFINE B == {T \in SUBSET S : SumOf(f, T) \notin N}
<1> SUFFICES ASSUME B # {} PROVE FALSE
  OBVIOUS
<1>1. PICK T \in B : \A U \in SUBSET T : U # T => U \notin B
  <2>1. B \subseteq SUBSET S
    OBVIOUS
  <2> HIDE DEF B
  <2>. QED
    BY <2>1, SmallestSubset
<1>2. T \in SUBSET S /\ SumOf(f, T) \notin N /\ IsFiniteSet(T)
  BY <1>1, FS_Subset
<1>3. CASE T = {}
  BY <1>2, <1>3, SumEmpty
<1>4. CASE T # {}
  <2>1. Taken(T) \in T
    BY <1>4, TakenFromSet
  <2>2. SumOf(f, T) = f[Taken(T)] + SumOf(f, T \ {Taken(T)})
    BY <1>2, <1>4, SumTakes
  <2>3. SumOf(f, T \ {Taken(T)}) \in N /\ f[Taken(T)] \in N
    BY <1>1, <1>2, <2>1
  <2>. QED
    BY <1>2, <2>2, <2>3
<1>. QED
  BY <1>3, <1>4

(* The order of the summands plays no part: any of them can be taken first. *)
LEMMA SumWithout ==
  ASSUME NEW f, NEW S, IsFiniteSet(S), \A x \in S : f[x] \in Int, NEW y \in S
  PROVE  SumOf(f, S) = f[y] + SumOf(f, S \ {y})
<1> DEFINE Splits(T, x) == SumOf(f, T) = f[x] + SumOf(f, T \ {x})
<1> DEFINE B == {T \in SUBSET S : \E x \in T : ~Splits(T, x)}
<1> SUFFICES ASSUME B # {} PROVE FALSE
  OBVIOUS
<1>1. PICK T \in B : \A U \in SUBSET T : U # T => U \notin B
  <2>1. B \subseteq SUBSET S
    OBVIOUS
  <2> HIDE DEF B
  <2>. QED
    BY <2>1, SmallestSubset
<1>2. PICK x \in T : ~Splits(T, x)
  BY <1>1
<1>3. T \in SUBSET S /\ IsFiniteSet(T)
  BY <1>1, FS_Subset
<1> DEFINE t == Taken(T)
<1>4. t \in T /\ Splits(T, t)
  BY <1>2, <1>3, TakenFromSet, SumTakes
<1>5. x # t
  BY <1>2, <1>4
<1>6. Splits(T \ {t}, x) /\ Splits(T \ {x}, t)
  <2>1. /\ T \ {t} \in SUBSET T /\ T \ {t} # T /\ x \in T \ {t}
        /\ T \ {x} \in SUBSET T /\ T \ {x} # T /\ t \in T \ {x}
        /\ T \ {t} \in SUBSET S /\ T \ {x} \in SUBSET S
    BY <1>3, <1>4, <1>5
  <2> HIDE DEF Splits, t
  <2>. QED
    BY <1>1, <2>1
<1>7. (T \ {t}) \ {x} = (T \ {x}) \ {t}
  OBVIOUS
<1>8. SumOf(f, (T \ {t}) \ {x}) \in Int /\ f[x] \in Int /\ f[t] \in Int
  <2>1. IsFiniteSet((T \ {t}) \ {x}) /\ \A z \in (T \ {t}) \ {x} : f[z] \in Int
    BY <1>3, FS_RemoveElement
  <2>. QED
    BY <1>2, <1>3, <1>4, <2>1, SumType
<1> DEFINE rest == SumOf(f, (T \ {t}) \ {x})
<1>9. /\ SumOf(f, T) = f[t] + SumOf(f, T \ {t})
      /\ SumOf(f, T \ {t}) = f[x] + rest
      /\ SumOf(f, T \ {x}) = f[t] + rest
      /\ SumOf(f, T) # f[x] + SumOf(f, T \ {x})
  BY <1>2, <1>4, <1>6, <1>7
<1>10. rest \in Int /\ f[x] \in Int /\ f[t] \in Int
  BY <1>8
<1> HIDE DEF t, rest
<1>. QED
  BY <1>9, <1>10

(* The same, read as adding an element. *)
LEMMA SumWith ==
  ASSUME NEW f, NEW S, IsFiniteSet(S), NEW y, y \notin S,
         \A x \in S \cup {y} : f[x] \in Int
  PROVE  SumOf(f, S \cup {y}) = SumOf(f, S) + f[y]
<1>1. IsFiniteSet(S \cup {y}) /\ (S \cup {y}) \ {y} = S /\ y \in S \cup {y}
  BY FS_AddElement
<1>2. SumOf(f, S \cup {y}) = f[y] + SumOf(f, S)
  <2>1. SumOf(f, S \cup {y}) = f[y] + SumOf(f, (S \cup {y}) \ {y})
    BY <1>1, SumWithout
  <2>. QED
    BY <1>1, <2>1
<1>3. SumOf(f, S) \in Int /\ f[y] \in Int
  BY SumType
<1>. QED
  BY <1>2, <1>3

(* Only the values over the set count. *)
LEMMA SumSame ==
  ASSUME NEW f, NEW e, NEW S, IsFiniteSet(S), \A x \in S : f[x] = e[x]
  PROVE  SumOf(f, S) = SumOf(e, S)
<1>1. PICK g : IsSum(f, g, S)
  BY SumExists
<1>2. PICK h : IsSum(e, h, S)
  BY SumExists
<1>3. S \in SUBSET (S \cap S) /\ S \in SUBSET S
  OBVIOUS
<1>4. g[S] = h[S]
  BY <1>1, <1>2, <1>3, SumUnique
<1>. QED
  BY <1>1, <1>2, <1>3, <1>4, SumOfIs

(* A part of what is summed, or smaller summands, give no more. *)
LEMMA SumGrows ==
  ASSUME NEW f, NEW e, NEW S, IsFiniteSet(S), NEW R \in SUBSET S,
         \A x \in S : f[x] \in Nat, \A x \in R : e[x] \in Nat /\ e[x] <= f[x]
  PROVE  SumOf(e, R) <= SumOf(f, S)
<1> DEFINE B == {T \in SUBSET S : ~(SumOf(e, R \cap T) <= SumOf(f, T))}
<1> SUFFICES ASSUME B # {} PROVE FALSE
  <2>1. R \cap S = R /\ S \in SUBSET S
    OBVIOUS
  <2>. QED
    BY <2>1
<1>1. PICK T \in B : \A U \in SUBSET T : U # T => U \notin B
  <2>1. B \subseteq SUBSET S
    OBVIOUS
  <2> HIDE DEF B
  <2>. QED
    BY <2>1, SmallestSubset
<1>2. T \in SUBSET S /\ ~(SumOf(e, R \cap T) <= SumOf(f, T)) /\ IsFiniteSet(T)
  BY <1>1, FS_Subset
<1>3. CASE T = {}
  <2>1. R \cap T = {}
    BY <1>3
  <2>. QED
    BY <1>2, <1>3, <2>1, SumEmpty
<1>4. CASE T # {}
  <2>1. PICK x \in T : TRUE
    BY <1>4
  <2> DEFINE U == T \ {x}
  <2>2. U \in SUBSET S /\ IsFiniteSet(U) /\ SumOf(e, R \cap U) <= SumOf(f, U)
    BY <1>1, <1>2, FS_RemoveElement
  <2>3. SumOf(f, T) = f[x] + SumOf(f, U)
    <3>1. \A z \in T : f[z] \in Int
      BY <1>2
    <3>. QED
      BY <1>2, <3>1, SumWithout
  <2>4. SumOf(f, U) \in Nat /\ f[x] \in Nat
    BY <1>2, <2>2, SumType
  <2>5. IsFiniteSet(R \cap T) /\ IsFiniteSet(R \cap U)
    BY <1>2, <2>2, FS_Intersection
  <2>6. \A z \in R \cap T : e[z] \in Int
    OBVIOUS
  <2>7. SumOf(e, R \cap U) \in Nat
    BY <2>5, SumType
  <2>8. CASE x \in R
    <3>1. x \in R \cap T /\ (R \cap T) \ {x} = R \cap U
      BY <2>8
    <3>2. SumOf(e, R \cap T) = e[x] + SumOf(e, R \cap U)
      BY <2>5, <2>6, <3>1, SumWithout
    <3>3. e[x] \in Nat /\ e[x] <= f[x]
      BY <2>8
    <3> HIDE DEF U
    <3>. QED
      BY <1>2, <2>2, <2>3, <2>4, <2>7, <3>2, <3>3
  <2>9. CASE x \notin R
    <3>1. R \cap T = R \cap U
      BY <2>9
    <3>2. SumOf(e, R \cap T) = SumOf(e, R \cap U)
      BY <3>1
    <3> HIDE DEF U
    <3>. QED
      BY <1>2, <2>2, <2>3, <2>4, <2>7, <3>2
  <2>. QED
    BY <2>8, <2>9
<1>. QED
  BY <1>3, <1>4

(* What is zero need not be counted. *)
LEMMA SumOfPart ==
  ASSUME NEW f, NEW S, IsFiniteSet(S), NEW R \in SUBSET S,
         \A x \in S : f[x] \in Int /\ (x \notin R => f[x] = 0)
  PROVE  SumOf(f, S) = SumOf(f, R)
<1> DEFINE B == {T \in SUBSET S : SumOf(f, T) # SumOf(f, R \cap T)}
<1> SUFFICES ASSUME B # {} PROVE FALSE
  <2>1. R \cap S = R /\ S \in SUBSET S
    OBVIOUS
  <2>. QED
    BY <2>1
<1>1. PICK T \in B : \A U \in SUBSET T : U # T => U \notin B
  <2>1. B \subseteq SUBSET S
    OBVIOUS
  <2> HIDE DEF B
  <2>. QED
    BY <2>1, SmallestSubset
<1>2. T \in SUBSET S /\ SumOf(f, T) # SumOf(f, R \cap T) /\ IsFiniteSet(T)
  BY <1>1, FS_Subset
<1>3. PICK x \in T : TRUE
  <2>1. T = {} => R \cap T = T
    OBVIOUS
  <2>. QED
    BY <1>2, <2>1
<1> DEFINE U == T \ {x}
<1>4. U \in SUBSET S /\ IsFiniteSet(U) /\ SumOf(f, U) = SumOf(f, R \cap U)
  BY <1>1, <1>2, FS_RemoveElement
<1>5. SumOf(f, T) = f[x] + SumOf(f, U) /\ SumOf(f, U) \in Int
  <2>1. \A z \in T : f[z] \in Int
    BY <1>2
  <2>. QED
    BY <1>2, <1>4, <2>1, SumWithout, SumType
<1>6. CASE x \in R
  <2>1. x \in R \cap T /\ (R \cap T) \ {x} = R \cap U /\ IsFiniteSet(R \cap T)
    BY <1>2, <1>6, FS_Intersection
  <2>2. SumOf(f, R \cap T) = f[x] + SumOf(f, R \cap U)
    <3>1. \A z \in R \cap T : f[z] \in Int
      OBVIOUS
    <3>2. SumOf(f, R \cap T) = f[x] + SumOf(f, (R \cap T) \ {x})
      BY <2>1, <3>1, SumWithout
    <3>. QED
      BY <2>1, <3>2
  <2> HIDE DEF U
  <2>3. SumOf(f, R \cap T) = SumOf(f, T)
    BY <1>4, <1>5, <2>2
  <2>. QED
    BY <1>2, <2>3
<1>7. CASE x \notin R
  <2>1. R \cap T = R \cap U /\ f[x] = 0
    BY <1>2, <1>7
  <2>2. SumOf(f, R \cap T) = SumOf(f, R \cap U)
    BY <2>1
  <2> HIDE DEF U
  <2> DEFINE n == SumOf(f, U)
  <2>3. n \in Int /\ SumOf(f, T) = f[x] + n
    BY <1>5
  <2>4. SumOf(f, R \cap T) = n
    BY <1>4, <2>2
  <2> HIDE DEF n
  <2>5. SumOf(f, T) = n
    BY <2>1, <2>3
  <2>. QED
    BY <1>2, <2>4, <2>5
<1>. QED
  BY <1>6, <1>7

(* A sum of sums is the sum of both. *)
LEMMA SumAdds ==
  ASSUME NEW f, NEW e, NEW h, NEW S, IsFiniteSet(S),
         \A x \in S : f[x] \in Int /\ e[x] \in Int /\ h[x] = f[x] + e[x]
  PROVE  SumOf(h, S) = SumOf(f, S) + SumOf(e, S)
<1> DEFINE B == {T \in SUBSET S : SumOf(h, T) # SumOf(f, T) + SumOf(e, T)}
<1> SUFFICES ASSUME B # {} PROVE FALSE
  OBVIOUS
<1>1. PICK T \in B : \A U \in SUBSET T : U # T => U \notin B
  <2>1. B \subseteq SUBSET S
    OBVIOUS
  <2> HIDE DEF B
  <2>. QED
    BY <2>1, SmallestSubset
<1>2. T \in SUBSET S /\ SumOf(h, T) # SumOf(f, T) + SumOf(e, T) /\ IsFiniteSet(T)
  BY <1>1, FS_Subset
<1>3. T # {}
  <2> SUFFICES ASSUME T = {} PROVE FALSE
    OBVIOUS
  <2>1. SumOf(h, {}) = 0 /\ SumOf(f, {}) = 0 /\ SumOf(e, {}) = 0
    BY SumEmpty
  <2>2. SumOf(h, {}) # SumOf(f, {}) + SumOf(e, {})
    BY <1>2
  <2>. QED
    BY <2>1, <2>2
<1>4. PICK x \in T : TRUE
  BY <1>3
<1> DEFINE U == T \ {x}
<1>5. U \in SUBSET S /\ IsFiniteSet(U) /\ SumOf(h, U) = SumOf(f, U) + SumOf(e, U)
  BY <1>1, <1>2, FS_RemoveElement
<1>6. /\ \A z \in T : f[z] \in Int /\ e[z] \in Int /\ h[z] \in Int
      /\ h[x] = f[x] + e[x]
  BY <1>2
<1>7. SumOf(f, T) = f[x] + SumOf(f, U)
  BY <1>2, <1>6, SumWithout
<1>8. SumOf(e, T) = e[x] + SumOf(e, U)
  BY <1>2, <1>6, SumWithout
<1>9. SumOf(h, T) = h[x] + SumOf(h, U)
  BY <1>2, <1>6, SumWithout
<1>10. SumOf(f, U) \in Int
  BY <1>2, <1>5, <1>6, SumType
<1>11. SumOf(e, U) \in Int
  BY <1>2, <1>5, <1>6, SumType
<1>. QED
  BY <1>2, <1>5, <1>6, <1>7, <1>8, <1>9, <1>10, <1>11

(* A sum is no more than the number of its summands times the largest. *)
LEMMA SumBound ==
  ASSUME NEW f, NEW S, IsFiniteSet(S), NEW q \in Nat,
         \A x \in S : f[x] \in Nat /\ f[x] <= q
  PROVE  SumOf(f, S) <= Cardinality(S) * q
<1> DEFINE B == {T \in SUBSET S : ~(SumOf(f, T) <= Cardinality(T) * q)}
<1> SUFFICES ASSUME B # {} PROVE FALSE
  OBVIOUS
<1>1. PICK T \in B : \A U \in SUBSET T : U # T => U \notin B
  <2>1. B \subseteq SUBSET S
    OBVIOUS
  <2> HIDE DEF B
  <2>. QED
    BY <2>1, SmallestSubset
<1>2. T \in SUBSET S /\ ~(SumOf(f, T) <= Cardinality(T) * q) /\ IsFiniteSet(T)
  BY <1>1, FS_Subset
<1>3. T # {}
  <2>1. SumOf(f, {}) = 0 /\ Cardinality({}) = 0 /\ 0 * q = 0
    BY SumEmpty, FS_EmptySet
  <2>. QED
    BY <1>2, <2>1
<1>4. PICK x \in T : TRUE
  BY <1>3
<1> DEFINE U == T \ {x}
<1>5. U \in SUBSET S /\ IsFiniteSet(U) /\ SumOf(f, U) <= Cardinality(U) * q
  BY <1>1, <1>2, FS_RemoveElement
<1>6. SumOf(f, T) = f[x] + SumOf(f, U)
  <2>1. \A z \in T : f[z] \in Int
    BY <1>2
  <2>. QED
    BY <1>2, <2>1, SumWithout
<1>7. SumOf(f, U) \in Nat /\ f[x] \in Nat /\ f[x] <= q
  BY <1>2, <1>5, SumType
<1>8. Cardinality(U) \in Nat /\ Cardinality(T) = Cardinality(U) + 1
  <2>1. Cardinality(U) = Cardinality(T) - 1 /\ Cardinality(T) \in Nat
    BY <1>2, FS_RemoveElement, FS_CardinalityType
  <2>. QED
    BY <1>5, <2>1, FS_CardinalityType
<1> HIDE DEF U
<1>9. ASSUME NEW n \in Nat PROVE (n + 1) * q = n * q + q /\ n * q \in Nat
  OBVIOUS
<1>. QED
  BY <1>2, <1>5, <1>6, <1>7, <1>8, <1>9

(* The larger and the smaller of two *)
LEMMA MaxOfTwo ==
  ASSUME NEW a \in Int, NEW b \in Int
  PROVE  Max({a, b}) = IF a >= b THEN a ELSE b
<1>1. \A m \in {a, b} : (\A y \in {a, b} : m >= y) <=> m = IF a >= b THEN a ELSE b
  OBVIOUS
<1>. QED
  BY <1>1 DEF Max

LEMMA MinOfTwo ==
  ASSUME NEW a \in Int, NEW b \in Int
  PROVE  Min({a, b}) = IF a <= b THEN a ELSE b
<1>1. \A m \in {a, b} : (\A y \in {a, b} : m <= y) <=> m = IF a <= b THEN a ELSE b
  OBVIOUS
<1>. QED
  BY <1>1 DEF Min

=============================================================================
