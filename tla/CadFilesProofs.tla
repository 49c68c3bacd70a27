---------------------------- MODULE CadFilesProofs ----------------------------
(***************************************************************************)
(* Whatever STEP files, tables and lists of instances there are, they are  *)
(* kept, and the views of what was made of them agree.                     *)
(*                                                                         *)
(* What the model computes step by step, over the levels of a tree, the    *)
(* places of a sequence or the elements of a set, is a recursive function. *)
(* Of each it is shown that it exists, so that it is what satisfies its    *)
(* rule; then, by an induction over a set of naturals, what it is.  Sums   *)
(* come first: all quantities are sums over finite sets.                   *)
(***************************************************************************)
EXTENDS CadFiles, FiniteSetTheorems, SequenceTheorems, TLAPS

-----------------------------------------------------------------------------
(* Induction, as a fact about sets.                                        *)

\* A set of naturals that is not empty has a least one.
LEMMA LeastNatural ==
    ASSUME NEW T \in SUBSET Nat, T # {}
    PROVE  \E x \in T : \A y \in T : ~(y < x)
<1> DEFINE R == OpToRel(<, Nat)
<1>1. R = {pair \in Nat \X Nat : pair[1] < pair[2]}
  BY DEF OpToRel
<1>2. IsWellFoundedOn(R, Nat)
  BY NatLessThanWellFounded
<1> HIDE DEF R
<1>3. \E x \in T : \A y \in T : ~(<<y, x>> \in R)
  BY <1>2, WFMin
<1> QED
  BY <1>1, <1>3

\* Induction: a set that has 0, and the successor of what it has, has all naturals.
LEMMA Induction ==
    ASSUME NEW S \in SUBSET Nat, 0 \in S, \A k \in S : k + 1 \in S
    PROVE  S = Nat
<1> SUFFICES ASSUME Nat \ S # {} PROVE FALSE
  OBVIOUS
<1>1. PICK x \in Nat \ S : \A y \in Nat \ S : ~(y < x)
  BY LeastNatural
<1>2. x # 0 /\ x - 1 \in Nat
  BY <1>1
<1>3. x - 1 \in S
  BY <1>1, <1>2
<1> QED
  BY <1>1, <1>2, <1>3

\* What holds of the empty set, and of a set with one more element, holds of a finite set.
LEMMA SetInduction ==
    ASSUME NEW S, IsFiniteSet(S), NEW Q, {} \in Q,
           \A T \in SUBSET S : \A x \in S \ T : T \in Q => T \cup {x} \in Q
    PROVE  S \in Q
<1> DEFINE N == {n \in Nat : \A T \in SUBSET S : Cardinality(T) = n => T \in Q}
<1>1. N \in SUBSET Nat /\ 0 \in N
  <2>1. \A T \in SUBSET S : Cardinality(T) = 0 => T = {}
    BY FS_Subset, FS_EmptySet
  <2> QED
    BY <2>1
<1>2. ASSUME NEW n \in N
      PROVE  n + 1 \in N
  <2> SUFFICES ASSUME NEW T \in SUBSET S, Cardinality(T) = n + 1
               PROVE  T \in Q
    OBVIOUS
  <2>1. IsFiniteSet(T)
    BY FS_Subset
  <2>2. T # {}
    <3>1. n + 1 # 0 /\ Cardinality(T) # 0
      OBVIOUS
    <3> QED
      BY <3>1, FS_EmptySet
  <2>3. PICK x \in T : TRUE
    BY <2>2
  <2>4. Cardinality(T \ {x}) = n
    <3>1. Cardinality(T \ {x}) = (n + 1) - 1
      BY ONLY <2>1, <2>3, FS_RemoveElement, Cardinality(T) = n + 1
    <3> QED
      BY <3>1
  <2>5. T \ {x} \in Q
    BY <2>4
  <2>6. (T \ {x}) \cup {x} = T
    OBVIOUS
  <2> QED
    BY <2>5, <2>6
<1> HIDE DEF N
<1>3. N = Nat
  BY <1>1, <1>2, Induction
<1>4. Cardinality(S) \in N
  BY <1>3, FS_CardinalityType
<1> QED
  BY <1>4 DEF N

\* The image of a finite set is finite, and no larger.
LEMMA FiniteImage ==
    ASSUME NEW S, IsFiniteSet(S), NEW b
    PROVE  IsFiniteSet({b[x] : x \in S}) /\ Cardinality({b[x] : x \in S}) <= Cardinality(S)
<1> DEFINE f == [x \in S |-> b[x]]
           T == {b[x] : x \in S}
<1>1. f \in Surjection(S, T)
  BY DEF Surjection
<1> QED
  BY <1>1, FS_Surjection

\* Of finitely many one is largest.
LEMMA LargestOne ==
    ASSUME NEW S, IsFiniteSet(S), S # {}, NEW f, \A x \in S : f[x] \in Nat
    PROVE  \E x \in S : \A y \in S : f[y] <= f[x]
<1> DEFINE Q == {T \in SUBSET S : T # {} => \E x \in T : \A y \in T : f[y] <= f[x]}
<1>1. {} \in Q
  OBVIOUS
<1>2. ASSUME NEW T \in SUBSET S, NEW x \in S \ T, T \in Q
      PROVE  T \cup {x} \in Q
  <2>1. CASE T = {}
    BY <2>1
  <2>2. CASE T # {}
    <3>1. PICK z \in T : \A y \in T : f[y] <= f[z]
      BY <1>2, <2>2
    <3>2. CASE f[x] <= f[z]
      BY <3>1, <3>2
    <3>3. CASE ~(f[x] <= f[z])
      <4>1. \A y \in T \cup {x} : f[y] <= f[x]
        BY <3>1, <3>3
      <4> QED
        BY <4>1
    <3> QED
      BY <3>2, <3>3
  <2> QED
    BY <2>1, <2>2
<1> HIDE DEF Q
<1>3. S \in Q
  BY <1>1, <1>2, SetInduction
<1> QED
  BY <1>3 DEF Q

-----------------------------------------------------------------------------
-----------------------------------------------------------------------------
(* Sums over finite sets (MapThenSumSet).                                  *)

Sum(f, S) == MapThenSumSet(LAMBDA x : f[x], S)

OneOf(s) == CHOOSE x \in s : TRUE
Summed(g, f, s) == IF s = {} THEN 0 ELSE f[OneOf(s)] + g[s \ {OneOf(s)}]
Sums(g, f, S) == g = [s \in SUBSET S |-> Summed(g, f, s)]

\* A sum is what the function that adds up one element after the other gives.
LEMMA SumChosen ==
    ASSUME NEW f, NEW S
    PROVE  Sum(f, S) = (CHOOSE g : Sums(g, f, S))[S]
BY ZenonT(60) DEF Sum, MapThenSumSet, MapThenFoldSet, Sums, Summed, OneOf

\* What is chosen of a set is in it.
LEMMA OneOfIsOne ==
    ASSUME NEW s, s # {}
    PROVE  OneOf(s) \in s
BY DEF OneOf

\* The function that adds up one element after the other exists.
LEMMA SumsExist ==
    ASSUME NEW f, NEW S, IsFiniteSet(S)
    PROVE  \E g : Sums(g, f, S)
<1> DEFINE Right(g, n) == \A s \in SUBSET S : Cardinality(s) <= n => g[s] = Summed(g, f, s)
           N == {n \in Nat : \E g : Right(g, n)}
<1>1. \A s \in SUBSET S : IsFiniteSet(s) /\ Cardinality(s) \in Nat
  BY FS_Subset, FS_CardinalityType
<1>2. 0 \in N
  <2> DEFINE g == [s \in SUBSET S |-> 0]
  <2>1. \A s \in SUBSET S : Cardinality(s) <= 0 => s = {}
    BY <1>1, FS_EmptySet
  <2>2. Right(g, 0)
    BY <2>1 DEF Summed
  <2> QED
    BY <2>2
<1>3. ASSUME NEW n \in N
      PROVE  n + 1 \in N
  <2>1. PICK g : Right(g, n)
    OBVIOUS
  <2> DEFINE h == [s \in SUBSET S |-> IF Cardinality(s) <= n THEN g[s] ELSE Summed(g, f, s)]
  <2>2. ASSUME NEW s \in SUBSET S, Cardinality(s) <= n + 1
        PROVE  Summed(h, f, s) = Summed(g, f, s)
    <3> SUFFICES ASSUME s # {}
                 PROVE  h[s \ {OneOf(s)}] = g[s \ {OneOf(s)}]
      BY DEF Summed
    <3>1. OneOf(s) \in s
      BY OneOfIsOne
    <3>2. Cardinality(s \ {OneOf(s)}) = Cardinality(s) - 1
      BY <1>1, <3>1, FS_RemoveElement
    <3>3. Cardinality(s) - 1 <= n
      BY <1>1, <2>2
    <3> QED
      BY <3>2, <3>3
  <2>3. ASSUME NEW s \in SUBSET S, Cardinality(s) <= n + 1
        PROVE  h[s] = Summed(g, f, s)
    BY <2>1
  <2>4. Right(h, n + 1)
    <3> HIDE DEF h
    <3> QED
      BY <2>2, <2>3
  <2> HIDE DEF h, Right
  <2>5. n + 1 \in Nat /\ \E e : Right(e, n + 1)
    BY <2>4
  <2> QED
    BY <2>5
<1> HIDE DEF N
<1>4. N = Nat
  <2>1. N \in SUBSET Nat
    BY DEF N
  <2> QED
    BY <1>2, <1>3, <2>1, Induction
<1>5. PICK g : Right(g, Cardinality(S))
  BY <1>1, <1>4 DEF N
<1>6. \A s \in SUBSET S : g[s] = Summed(g, f, s)
  <2>1. \A s \in SUBSET S : Cardinality(s) <= Cardinality(S)
    BY FS_Subset
  <2> QED
    BY <1>5, <2>1
<1> DEFINE h == [s \in SUBSET S |-> g[s]]
<1>7. \A s \in SUBSET S : Summed(h, f, s) = Summed(g, f, s)
  BY DEF Summed
<1>8. h = [s \in SUBSET S |-> Summed(h, f, s)]
  <2> HIDE DEF Right
  <2> QED
    BY <1>6, <1>7
<1> QED
  BY <1>8 DEF Sums

\* Functions that add up the same amounts give the same.
LEMMA SumsUnique ==
    ASSUME NEW f, NEW e, NEW S, NEW T \in SUBSET S, IsFiniteSet(T), \A x \in T : f[x] = e[x],
           NEW g, NEW h, Sums(g, f, S), Sums(h, e, T)
    PROVE  g[T] = h[T]
<1> DEFINE N == {n \in Nat : \A s \in SUBSET T : Cardinality(s) = n => g[s] = h[s]}
<1>1. \A s \in SUBSET T : IsFiniteSet(s) /\ Cardinality(s) \in Nat
  BY FS_Subset, FS_CardinalityType
<1>2. \A s \in SUBSET T : g[s] = Summed(g, f, s) /\ h[s] = Summed(h, e, s)
  BY DEF Sums
<1>3. 0 \in N
  <2>1. \A s \in SUBSET T : Cardinality(s) = 0 => s = {}
    BY <1>1, FS_EmptySet
  <2> QED
    BY <1>2, <2>1 DEF Summed
<1>4. ASSUME NEW n \in N
      PROVE  n + 1 \in N
  <2> SUFFICES ASSUME NEW s \in SUBSET T, Cardinality(s) = n + 1
               PROVE  g[s] = h[s]
    OBVIOUS
  <2>1. n + 1 # 0
    OBVIOUS
  <2>2. s # {}
    BY <2>1, FS_EmptySet
  <2>3. OneOf(s) \in s
    BY <2>2, OneOfIsOne
  <2>4. Cardinality(s \ {OneOf(s)}) = (n + 1) - 1
    BY <1>1, <2>3, FS_RemoveElement
  <2>5. g[s \ {OneOf(s)}] = h[s \ {OneOf(s)}]
    BY <2>4
  <2> QED
    BY <1>2, <2>2, <2>3, <2>5 DEF Summed
<1>5. N = Nat
  <2>1. N \in SUBSET Nat
    OBVIOUS
  <2> HIDE DEF N
  <2> QED
    BY <1>3, <1>4, <2>1, Induction
<1>6. Cardinality(T) \in N
  BY <1>1, <1>5
<1> QED
  BY <1>6

\* A sum looks at the elements it is of, and at nothing else.
LEMMA SumSame ==
    ASSUME NEW f, NEW e, NEW S, IsFiniteSet(S), \A x \in S : f[x] = e[x]
    PROVE  Sum(f, S) = Sum(e, S)
<1> DEFINE g == CHOOSE g : Sums(g, f, S)
           h == CHOOSE h : Sums(h, e, S)
<1>1. Sums(g, f, S) /\ Sums(h, e, S)
  BY SumsExist
<1> HIDE DEF g, h
<1>2. g[S] = h[S]
  BY <1>1, SumsUnique
<1> QED
  BY <1>2, SumChosen DEF g, h

\* Nothing adds up to 0.
LEMMA SumEmpty ==
    ASSUME NEW f
    PROVE  Sum(f, {}) = 0
<1>1. PICK g : Sums(g, f, {})
  BY SumsExist, FS_EmptySet
<1> DEFINE h == CHOOSE h : Sums(h, f, {})
<1>2. Sums(h, f, {})
  BY <1>1
<1> HIDE DEF h
<1>3. h[{}] = 0
  BY <1>2 DEF Sums, Summed
<1> QED
  BY <1>3, SumChosen DEF h

\* A sum is the amount of the element that is chosen first, and the rest.
LEMMA SumOfOne ==
    ASSUME NEW f, NEW S, IsFiniteSet(S), S # {}
    PROVE  Sum(f, S) = f[OneOf(S)] + Sum(f, S \ {OneOf(S)})
<1> DEFINE T == S \ {OneOf(S)}
           g == CHOOSE g : Sums(g, f, S)
           h == CHOOSE h : Sums(h, f, T)
<1>1. IsFiniteSet(T)
  BY FS_Subset
<1>2. Sums(g, f, S) /\ Sums(h, f, T)
  BY <1>1, SumsExist
<1> HIDE DEF g, h
<1>3. g[T] = h[T]
  BY <1>1, <1>2, SumsUnique
<1>4. g[S] = f[OneOf(S)] + g[T]
  BY <1>2 DEF Sums, Summed
<1> QED
  BY <1>3, <1>4, SumChosen DEF g, h

\* Naturals add up to a natural.
LEMMA SumNat ==
    ASSUME NEW S, IsFiniteSet(S), NEW f, \A x \in S : f[x] \in Nat
    PROVE  Sum(f, S) \in Nat
<1> DEFINE N == {n \in Nat : \A s \in SUBSET S : Cardinality(s) = n => Sum(f, s) \in Nat}
<1>1. \A s \in SUBSET S : IsFiniteSet(s) /\ Cardinality(s) \in Nat
  BY FS_Subset, FS_CardinalityType
<1>2. 0 \in N
  BY <1>1, FS_EmptySet, SumEmpty
<1>3. ASSUME NEW n \in N
      PROVE  n + 1 \in N
  <2> SUFFICES ASSUME NEW s \in SUBSET S, Cardinality(s) = n + 1
               PROVE  Sum(f, s) \in Nat
    OBVIOUS
  <2>1. n + 1 # 0
    OBVIOUS
  <2>2. s # {} /\ OneOf(s) \in s
    BY <2>1, FS_EmptySet, OneOfIsOne
  <2>3. Cardinality(s \ {OneOf(s)}) = (n + 1) - 1
    BY <1>1, <2>2, FS_RemoveElement
  <2>4. Sum(f, s \ {OneOf(s)}) \in Nat
    BY <2>3
  <2> QED
    BY <1>1, <2>2, <2>4, SumOfOne
<1>4. N = Nat
  <2>1. N \in SUBSET Nat
    OBVIOUS
  <2> HIDE DEF N
  <2> QED
    BY <1>2, <1>3, <2>1, Induction
<1>5. Cardinality(S) \in N
  BY <1>1, <1>4
<1> QED
  BY <1>5

\* The order does not matter.
LEMMA SumWithout ==
    ASSUME NEW S, IsFiniteSet(S), NEW f, \A y \in S : f[y] \in Nat, NEW x \in S
    PROVE  Sum(f, S) = f[x] + Sum(f, S \ {x})
<1> DEFINE N == {n \in Nat : \A s \in SUBSET S : Cardinality(s) = n =>
                                 \A y \in s : Sum(f, s) = f[y] + Sum(f, s \ {y})}
<1>1. \A s \in SUBSET S : IsFiniteSet(s) /\ Cardinality(s) \in Nat
  BY FS_Subset, FS_CardinalityType
<1>2. 0 \in N
  BY <1>1, FS_EmptySet
<1>3. ASSUME NEW n \in N
      PROVE  n + 1 \in N
  <2> SUFFICES ASSUME NEW s \in SUBSET S, Cardinality(s) = n + 1, NEW y \in s
               PROVE  Sum(f, s) = f[y] + Sum(f, s \ {y})
    OBVIOUS
  <2> DEFINE z == OneOf(s)
  <2>1. z \in s
    BY OneOfIsOne
  <2>2. Sum(f, s) = f[z] + Sum(f, s \ {z})
    BY <1>1, SumOfOne
  <2> HIDE DEF z
  <2>3. CASE y = z
    BY <2>2, <2>3
  <2>4. CASE y # z
    <3>1. Cardinality(s \ {z}) = (n + 1) - 1 /\ Cardinality(s \ {y}) = (n + 1) - 1
      BY <1>1, <2>1, FS_RemoveElement
    <3>2. Sum(f, s \ {z}) = f[y] + Sum(f, (s \ {z}) \ {y})
      BY <2>4, <3>1
    <3>3. Sum(f, s \ {y}) = f[z] + Sum(f, (s \ {y}) \ {z})
      BY <2>1, <2>4, <3>1
    <3>4. (s \ {z}) \ {y} = (s \ {y}) \ {z}
      OBVIOUS
    <3>5. Sum(f, (s \ {y}) \ {z}) \in Nat
      <4>1. (s \ {y}) \ {z} \in SUBSET S
        OBVIOUS
      <4> QED
        BY <1>1, <4>1, SumNat
    <3>6. f[y] \in Nat /\ f[z] \in Nat
      BY <2>1
    <3> DEFINE r == Sum(f, (s \ {y}) \ {z})
    <3>7. Sum(f, s) = f[z] + (f[y] + r) /\ Sum(f, s \ {y}) = f[z] + r
      BY <2>2, <3>2, <3>3, <3>4
    <3> HIDE DEF r
    <3>8. r \in Nat
      BY <3>5 DEF r
    <3> QED
      BY ONLY <3>6, <3>7, <3>8
  <2> QED
    BY <2>3, <2>4
<1>4. N = Nat
  <2>1. N \in SUBSET Nat
    OBVIOUS
  <2> HIDE DEF N
  <2> QED
    BY <1>2, <1>3, <2>1, Induction
<1>5. Cardinality(S) \in N
  BY <1>1, <1>4
<1> QED
  BY <1>5

\* One element more adds its amount.
LEMMA SumWith ==
    ASSUME NEW S, IsFiniteSet(S), NEW x, x \notin S, NEW f, \A y \in S \cup {x} : f[y] \in Nat
    PROVE  Sum(f, S \cup {x}) = f[x] + Sum(f, S)
<1>1. IsFiniteSet(S \cup {x}) /\ (S \cup {x}) \ {x} = S
  BY FS_AddElement
<1>2. Sum(f, S \cup {x}) = f[x] + Sum(f, (S \cup {x}) \ {x})
  BY <1>1, SumWithout
<1> QED
  BY <1>1, <1>2

\* Disjoint sets add up.
LEMMA SumDisjoint ==
    ASSUME NEW A, IsFiniteSet(A), NEW B, IsFiniteSet(B), A \cap B = {},
           NEW f, \A x \in A \cup B : f[x] \in Nat
    PROVE  Sum(f, A \cup B) = Sum(f, A) + Sum(f, B)
<1> DEFINE Q == {T \in SUBSET B : Sum(f, A \cup T) = Sum(f, A) + Sum(f, T)}
<1>1. \A T \in SUBSET B : /\ IsFiniteSet(T) /\ IsFiniteSet(A \cup T)
                          /\ Sum(f, T) \in Nat /\ Sum(f, A \cup T) \in Nat
  <2> TAKE T \in SUBSET B
  <2>1. IsFiniteSet(T)
    BY FS_Subset
  <2>2. IsFiniteSet(A \cup T)
    BY <2>1, FS_Union
  <2> QED
    BY <2>1, <2>2, SumNat
<1>2. Sum(f, A) \in Nat
  BY SumNat
<1>3. {} \in Q
  <2>1. A \cup {} = A
    OBVIOUS
  <2> QED
    BY <1>2, <2>1, SumEmpty
<1>4. ASSUME NEW T \in SUBSET B, NEW x \in B \ T, T \in Q
      PROVE  T \cup {x} \in Q
  <2>1. A \cup (T \cup {x}) = (A \cup T) \cup {x}
    OBVIOUS
  <2>2. Sum(f, (A \cup T) \cup {x}) = f[x] + Sum(f, A \cup T)
    BY <1>1, SumWith
  <2>3. Sum(f, T \cup {x}) = f[x] + Sum(f, T)
    BY <1>1, SumWith
  <2>4. f[x] \in Nat
    OBVIOUS
  <2> DEFINE a == Sum(f, A)
             t == Sum(f, T)
  <2>5. a \in Nat /\ t \in Nat
    BY <1>1, <1>2
  <2>6. Sum(f, A \cup (T \cup {x})) = f[x] + (a + t)
    BY <1>4, <2>1, <2>2
  <2> HIDE DEF a
  <2>7. f[x] + (a + t) = a + (f[x] + t)
    BY <2>4, <2>5
  <2> QED
    BY <2>3, <2>6, <2>7 DEF a
<1> HIDE DEF Q
<1>5. B \in Q
  BY <1>3, <1>4, SetInduction
<1> QED
  BY <1>5 DEF Q

\* Equal amounts are multiplied.
LEMMA SumOfSame ==
    ASSUME NEW S, IsFiniteSet(S), NEW c \in Nat, NEW f, \A x \in S : f[x] = c
    PROVE  Sum(f, S) = c * Cardinality(S)
<1> DEFINE Q == {T \in SUBSET S : Sum(f, T) = c * Cardinality(T)}
<1>1. {} \in Q
  <2>1. Cardinality({}) = 0
    BY FS_EmptySet
  <2> QED
    BY <2>1, SumEmpty
<1>2. ASSUME NEW T \in SUBSET S, NEW x \in S \ T, T \in Q
      PROVE  T \cup {x} \in Q
  <2>1. IsFiniteSet(T) /\ Cardinality(T) \in Nat
    BY FS_Subset, FS_CardinalityType
  <2>2. Sum(f, T \cup {x}) = f[x] + Sum(f, T)
    BY <2>1, SumWith
  <2>3. Cardinality(T \cup {x}) = Cardinality(T) + 1
    BY <2>1, FS_AddElement
  <2> DEFINE k == Cardinality(T)
  <2>4. Sum(f, T \cup {x}) = c + c * k
    BY <1>2, <2>2
  <2> HIDE DEF k
  <2>5. c * (k + 1) = c + c * k
    BY <2>1 DEF k
  <2> QED
    BY <2>3, <2>4, <2>5 DEF k
<1> HIDE DEF Q
<1>3. S \in Q
  BY <1>1, <1>2, SetInduction
<1> QED
  BY <1>3 DEF Q

\* A factor common to all amounts is one of the sum.
LEMMA SumScaled ==
    ASSUME NEW S, IsFiniteSet(S), NEW c \in Nat, NEW f, \A x \in S : f[x] \in Nat,
           NEW e, \A x \in S : e[x] = c * f[x]
    PROVE  Sum(e, S) = c * Sum(f, S)
<1> DEFINE Q == {T \in SUBSET S : Sum(e, T) = c * Sum(f, T)}
<1>1. {} \in Q
  BY SumEmpty
<1>2. ASSUME NEW T \in SUBSET S, NEW x \in S \ T, T \in Q
      PROVE  T \cup {x} \in Q
  <2>1. IsFiniteSet(T)
    BY FS_Subset
  <2>2. \A y \in S : c * f[y] \in Nat
    OBVIOUS
  <2>3. Sum(f, T \cup {x}) = f[x] + Sum(f, T)
    BY <2>1, SumWith
  <2>4. Sum(e, T \cup {x}) = e[x] + Sum(e, T)
    <3>1. IsFiniteSet(T) /\ x \notin T /\ \A y \in T \cup {x} : e[y] \in Nat
      BY <2>1, <2>2
    <3> QED
      BY ONLY <3>1, SumWith
  <2> DEFINE t == Sum(f, T)
  <2>5. t \in Nat /\ f[x] \in Nat
    BY <2>1, SumNat
  <2>6. Sum(e, T \cup {x}) = c * f[x] + c * t
    BY <1>2, <2>4
  <2> HIDE DEF t
  <2>7. c * (f[x] + t) = c * f[x] + c * t
    BY <2>5
  <2> QED
    BY <2>3, <2>6, <2>7 DEF t
<1> HIDE DEF Q
<1>3. S \in Q
  BY <1>1, <1>2, SetInduction
<1> QED
  BY <1>3 DEF Q

\* A sum over disjoint sets is the sum of the sums over each.
LEMMA SumOfSums ==
    ASSUME NEW E, IsFiniteSet(E), NEW A, \A k \in E : IsFiniteSet(A[k]),
           \A k, l \in E : k # l => A[k] \cap A[l] = {},
           NEW f, \A k \in E : \A x \in A[k] : f[x] \in Nat,
           NEW g, \A k \in E : g[k] = Sum(f, A[k])
    PROVE  /\ IsFiniteSet(UNION {A[k] : k \in E})
           /\ Sum(g, E) = Sum(f, UNION {A[k] : k \in E})
<1> DEFINE All(T) == UNION {A[k] : k \in T}
           Q == {T \in SUBSET E : IsFiniteSet(All(T)) /\ Sum(g, T) = Sum(f, All(T))}
<1>1. {} \in Q
  <2>1. All({}) = {}
    OBVIOUS
  <2>2. IsFiniteSet({})
    BY FS_EmptySet
  <2> QED
    BY <2>1, <2>2, SumEmpty
<1>2. ASSUME NEW T \in SUBSET E, NEW k \in E \ T, T \in Q
      PROVE  T \cup {k} \in Q
  <2>1. IsFiniteSet(T)
    BY FS_Subset
  <2>2. \A l \in E : g[l] \in Nat
    BY SumNat
  <2>3. Sum(g, T \cup {k}) = g[k] + Sum(g, T)
    BY <2>1, <2>2, SumWith
  <2>4. All(T \cup {k}) = A[k] \cup All(T)
    OBVIOUS
  <2>5. A[k] \cap All(T) = {}
    OBVIOUS
  <2>6. Sum(f, A[k] \cup All(T)) = Sum(f, A[k]) + Sum(f, All(T))
    <3>1. \A x \in A[k] \cup All(T) : f[x] \in Nat
      OBVIOUS
    <3> HIDE DEF All
    <3> QED
      BY <1>2, <2>5, <3>1, SumDisjoint
  <2>7. IsFiniteSet(A[k] \cup All(T))
    BY <1>2, FS_Union
  <2> HIDE DEF All
  <2> QED
    BY <1>2, <2>3, <2>4, <2>6, <2>7
<1> HIDE DEF Q
<1>3. E \in Q
  BY <1>1, <1>2, SetInduction
<1> QED
  BY <1>3 DEF Q

\* A sum may be taken over a renaming.
LEMMA SumRenamed ==
    ASSUME NEW S, IsFiniteSet(S), NEW f, \A x \in S : f[x] \in Nat,
           NEW b, \A x, y \in S : b[x] = b[y] => x = y,
           NEW e, \A x \in S : e[b[x]] = f[x]
    PROVE  /\ IsFiniteSet({b[x] : x \in S})
           /\ Sum(e, {b[x] : x \in S}) = Sum(f, S)
<1> DEFINE To(T) == {b[x] : x \in T}
           Q == {T \in SUBSET S : IsFiniteSet(To(T)) /\ Sum(e, To(T)) = Sum(f, T)}
<1>1. {} \in Q
  <2>1. To({}) = {}
    OBVIOUS
  <2>2. IsFiniteSet({})
    BY FS_EmptySet
  <2> QED
    BY <2>1, <2>2, SumEmpty
<1>2. ASSUME NEW T \in SUBSET S, NEW x \in S \ T, T \in Q
      PROVE  T \cup {x} \in Q
  <2>1. IsFiniteSet(T)
    BY FS_Subset
  <2>2. To(T \cup {x}) = To(T) \cup {b[x]}
    OBVIOUS
  <2>3. b[x] \notin To(T)
    OBVIOUS
  <2>4. Sum(f, T \cup {x}) = f[x] + Sum(f, T)
    BY <2>1, SumWith
  <2>5. Sum(e, To(T) \cup {b[x]}) = e[b[x]] + Sum(e, To(T))
    <3>1. \A y \in To(T) \cup {b[x]} : e[y] \in Nat
      OBVIOUS
    <3> HIDE DEF To
    <3> QED
      BY <1>2, <2>3, <3>1, SumWith
  <2>6. IsFiniteSet(To(T) \cup {b[x]})
    BY <1>2, FS_AddElement
  <2> HIDE DEF To
  <2>7. e[b[x]] = f[x]
    OBVIOUS
  <2> QED
    BY <1>2, <2>2, <2>4, <2>5, <2>6, <2>7
<1> HIDE DEF Q
<1>3. S \in Q
  BY <1>1, <1>2, SetInduction
<1> QED
  BY <1>3 DEF Q

\* The amount of a group is the sum of its quantities, as each is at least 1.
LEMMA AmountIsSum ==
    ASSUME NEW S, IsFiniteSet(S), \A i \in S : i.quantity \in Nat \ {0}
    PROVE  /\ Amount(S) = Sum([i \in S |-> i.quantity], S)
           /\ MapThenSumSet(LAMBDA i : i.quantity, S) = Sum([i \in S |-> i.quantity], S)
<1> DEFINE f == [i \in S |-> Max({i.quantity, 1})]
           e == [i \in S |-> i.quantity]
<1>1. Amount(S) = Sum(f, S)
  BY ZenonT(60) DEF Amount, Sum, MapThenSumSet, MapThenFoldSet
<1>2. MapThenSumSet(LAMBDA i : i.quantity, S) = Sum(e, S)
  BY ZenonT(60) DEF Sum, MapThenSumSet, MapThenFoldSet
<1>3. ASSUME NEW q \in Nat \ {0}
      PROVE  Max({q, 1}) = q
  BY <1>3 DEF Max
<1>4. \A i \in S : f[i] = e[i]
  BY <1>3
<1>5. Sum(f, S) = Sum(e, S)
  <2> HIDE DEF e, f
  <2> QED
    BY <1>4, SumSame
<1> QED
  BY <1>1, <1>2, <1>5

\* What a diff consists of.
LEMMA DiffHas ==
    ASSUME NEW old, NEW new, NEW m, NEW n, NEW diff, diff = Diff(old, new, m, n)
    PROVE  /\ \A kind \in Placed :
                  Told(diff, kind) = Sigs(Added(old[kind], new[kind])) \cup Sigs(Added(new[kind], old[kind]))
                                         \cup Sigs(Moved(old, new, old[kind], new[kind]))
           /\ diff.quantities = QuantityChanges(old, new)
           /\ diff.mappings = IF old = NoSnapshot THEN {} ELSE MappingChanges(old, new, m, n)
BY DEF Diff, Told, Placed, Kinds

\* What has a signature in both snapshots, and is not told of, hangs where it did.
LEMMA UntoldHangs ==
    ASSUME NEW old, NEW new, NEW m, NEW n, NEW kind \in Placed,
           NEW x \in new[kind], NEW y \in old[kind], x.sig = y.sig,
           x.sig \notin Told(Diff(old, new, m, n), kind)
    PROVE  ParentSig(old, y) = ParentSig(new, x)
BY DiffHas DEF Sigs, Moved

\* What a diff does not tell of is in both snapshots.
LEMMA UntoldStays ==
    ASSUME NEW old, NEW new, NEW m, NEW n, NEW kind \in Placed
    PROVE  /\ \A x \in new[kind] : x.sig \notin Told(Diff(old, new, m, n), kind) =>
                  \E y \in old[kind] : y.sig = x.sig
           /\ \A y \in old[kind] : y.sig \notin Told(Diff(old, new, m, n), kind) =>
                  \E x \in new[kind] : x.sig = y.sig
BY DiffHas DEF Sigs, Added

\* What hangs elsewhere in one of two snapshots is told.
LEMMA MovesAreTold ==
    ASSUME NEW old, NEW new, NEW m, NEW n,
           NEW h \in (Hanging(new) \ Hanging(old)) \cup (Hanging(old) \ Hanging(new))
    PROVE  h[2] \in Told(Diff(old, new, m, n), h[1])
<1>1. CASE h \in Hanging(new) \ Hanging(old)
  <2>0. PICK kind \in Placed : \E x \in new[kind] : h = <<kind, x.sig, ParentSig(new, x)>>
    BY <1>1 DEF Hanging
  <2>1. PICK x \in new[kind] : h = <<kind, x.sig, ParentSig(new, x)>>
    BY <2>0
  <2>2. ASSUME NEW y \in old[kind], y.sig = x.sig
        PROVE  ParentSig(old, y) # ParentSig(new, x)
    BY <1>1, <2>1, <2>2 DEF Hanging
  <2> QED
    BY <2>1, <2>2, UntoldHangs, UntoldStays
<1>2. CASE h \in Hanging(old) \ Hanging(new)
  <2>0. PICK kind \in Placed : \E y \in old[kind] : h = <<kind, y.sig, ParentSig(old, y)>>
    BY <1>2 DEF Hanging
  <2>1. PICK y \in old[kind] : h = <<kind, y.sig, ParentSig(old, y)>>
    BY <2>0
  <2>2. ASSUME NEW x \in new[kind], x.sig = y.sig
        PROVE  ParentSig(old, y) # ParentSig(new, x)
    BY <1>2, <2>1, <2>2 DEF Hanging
  <2> QED
    BY <2>1, <2>2, UntoldHangs, UntoldStays
<1> QED
  BY <1>1, <1>2

\* How many of a part are under an assembly is the amount of that group.
LEMMA NumberIsGrouped ==
    ASSUME NEW s, IsSnapshot(s), NEW key
    PROVE  Number(s, key) = GroupedQuantity(s, key)
<1>1. IsFiniteSet(InGroup(s, key)) /\ \A i \in InGroup(s, key) : i.quantity \in Nat \ {0}
  BY FS_Subset DEF IsSnapshot, InGroup
<1> QED
  BY <1>1, AmountIsSum DEF Number, GroupedQuantity

\* Where a number changes and the group does not say so, one of the instances is told of.
LEMMA NumbersAreTold ==
    ASSUME NEW old, NEW new, NEW m, NEW n, IsSnapshot(old), IsSnapshot(new),
           NEW key \in GroupKeys(old) \cup GroupKeys(new), Number(old, key) # Number(new, key),
           key \notin QuantityChanges(old, new)
    PROVE  \E i \in InGroup(old, key) \cup InGroup(new, key) :
               i.sig \in Told(Diff(old, new, m, n), "instances") \cup Swapped(old, new)
<1> DEFINE told == Told(Diff(old, new, m, n), "instances")
<1> SUFFICES ASSUME \A i \in InGroup(old, key) \cup InGroup(new, key) : i.sig \notin told \cup Swapped(old, new)
             PROVE  FALSE
  OBVIOUS
<1>0. "instances" \in Placed /\ old["instances"] = old.instances /\ new["instances"] = new.instances
  BY DEF Placed
<1>1. CASE key \in GroupKeys(old) /\ key \in GroupKeys(new)
  BY <1>1, NumberIsGrouped DEF QuantityChanges
<1>2. CASE key \in GroupKeys(new) /\ key \notin GroupKeys(old)
  <2>1. PICK x \in new.instances : GroupKey(new, x) = key
    BY <1>2 DEF GroupKeys
  <2>2. x.sig \notin told /\ x.sig \notin Swapped(old, new)
    BY <2>1 DEF InGroup
  <2>3. PICK y \in old.instances : y.sig = x.sig
    BY <1>0, <2>2, UntoldStays
  <2>4. ParentSig(old, y) = ParentSig(new, x)
    BY <1>0, <2>2, <2>3, UntoldHangs
  <2>5. PartSig(old, y) = PartSig(new, x)
    BY <2>2, <2>3 DEF Swapped, Sigs
  <2> QED
    BY <1>2, <2>1, <2>4, <2>5 DEF GroupKeys, GroupKey
<1>3. CASE key \in GroupKeys(old) /\ key \notin GroupKeys(new)
  <2>1. PICK y \in old.instances : GroupKey(old, y) = key
    BY <1>3 DEF GroupKeys
  <2>2. y.sig \notin told /\ y.sig \notin Swapped(old, new)
    BY <2>1 DEF InGroup
  <2>3. PICK x \in new.instances : x.sig = y.sig
    BY <1>0, <2>2, UntoldStays
  <2>4. ParentSig(old, y) = ParentSig(new, x)
    BY <1>0, <2>2, <2>3, UntoldHangs
  <2>5. PartSig(old, y) = PartSig(new, x)
    BY <2>2, <2>3 DEF Swapped, Sigs
  <2> QED
    BY <1>3, <2>1, <2>4, <2>5 DEF GroupKeys, GroupKey
<1> QED
  BY <1>1, <1>2, <1>3

\* What hangs where tells where an instance of a signature hangs.
LEMMA HangsThere ==
    ASSUME NEW s, IsSnapshot(s), NEW kind \in Placed, NEW x \in s[kind], NEW p
    PROVE  <<kind, x.sig, p>> \in Hanging(s) <=> ParentSig(s, x) = p
BY DEF Hanging, IsSnapshot

\* Where everything hangs alike nothing is told of.
LEMMA SameTellsNothing ==
    ASSUME NEW old, NEW new, NEW m, NEW n, IsSnapshot(old), IsSnapshot(new), Hanging(old) = Hanging(new),
           NEW kind \in Placed
    PROVE  Told(Diff(old, new, m, n), kind) = {}
<1>1. ASSUME NEW x \in new[kind]
      PROVE  \E y \in old[kind] : y.sig = x.sig
  <2>1. <<kind, x.sig, ParentSig(new, x)>> \in Hanging(old)
    BY HangsThere
  <2>2. PICK k \in Placed : \E y \in old[k] : <<kind, x.sig, ParentSig(new, x)>> = <<k, y.sig, ParentSig(old, y)>>
    BY <2>1 DEF Hanging
  <2> QED
    BY <2>2
<1>2. ASSUME NEW y \in old[kind]
      PROVE  \E x \in new[kind] : x.sig = y.sig
  <2>1. <<kind, y.sig, ParentSig(old, y)>> \in Hanging(new)
    BY HangsThere
  <2>2. PICK k \in Placed : \E x \in new[k] : <<kind, y.sig, ParentSig(old, y)>> = <<k, x.sig, ParentSig(new, x)>>
    BY <2>1 DEF Hanging
  <2> QED
    BY <2>2
<1>3. Added(old[kind], new[kind]) = {} /\ Added(new[kind], old[kind]) = {}
  BY <1>1, <1>2 DEF Added, Sigs
<1>4. Moved(old, new, old[kind], new[kind]) = {}
  <2> SUFFICES ASSUME NEW x \in new[kind], NEW y \in old[kind], y.sig = x.sig
               PROVE  ParentSig(old, y) = ParentSig(new, x)
    BY DEF Moved
  <2>1. <<kind, y.sig, ParentSig(new, x)>> \in Hanging(old)
    BY HangsThere
  <2> QED
    BY <2>1, HangsThere
<1> QED
  BY <1>3, <1>4, DiffHas DEF Sigs

\* The entries of a bill that make up a group, each with its instances.
EntriesOf(s, key) == {e \in DOMAIN Bill(s) : e[2] = key[2] /\ <<"instances", e[1], key[1]>> \in Hanging(s)}
Entered(s, e) == {i \in s.instances : Entry(s, i) = e}

\* A group consists of the entries of the bill that belong to it.
LEMMA GroupOfEntries ==
    ASSUME NEW s, IsSnapshot(s), NEW key \in GroupKeys(s)
    PROVE  InGroup(s, key) = UNION {Entered(s, e) : e \in EntriesOf(s, key)}
<1>1. \A i \in s.instances : <<"instances", i.sig, key[1]>> \in Hanging(s) <=> ParentSig(s, i) = key[1]
  <2>1. "instances" \in Placed /\ s["instances"] = s.instances
    BY DEF Placed
  <2> QED
    BY <2>1, HangsThere
<1>2. \A i \in s.instances : i \in InGroup(s, key) <=> ParentSig(s, i) = key[1] /\ PartSig(s, i) = key[2]
  BY DEF InGroup, GroupKey, GroupKeys
<1>3. \A i \in s.instances : Entry(s, i) \in EntriesOf(s, key) <=> i \in InGroup(s, key)
  <2> TAKE i \in s.instances
  <2>1. Entry(s, i) \in DOMAIN Bill(s)
    BY DEF Bill
  <2>2. Entry(s, i)[1] = i.sig /\ Entry(s, i)[2] = PartSig(s, i)
    BY DEF Entry
  <2> QED
    BY <1>1, <1>2, <2>1, <2>2 DEF EntriesOf
<1> QED
  BY <1>3 DEF Entered, InGroup

\* The amount of a group follows from the bill.
LEMMA GroupedByEntry ==
    ASSUME NEW s, IsSnapshot(s), NEW key \in GroupKeys(s)
    PROVE  GroupedQuantity(s, key) = Sum([e \in DOMAIN Bill(s) |-> e[3] * Bill(s)[e]], EntriesOf(s, key))
<1> DEFINE f == [i \in s.instances |-> i.quantity]
           g == [e \in DOMAIN Bill(s) |-> e[3] * Bill(s)[e]]
           E == EntriesOf(s, key)
           A == [e \in E |-> Entered(s, e)]
<1>1. IsFiniteSet(s.instances) /\ \A i \in s.instances : i.quantity \in Nat \ {0} /\ f[i] = i.quantity
  BY DEF IsSnapshot
<1>2. IsFiniteSet(E)
  <2> DEFINE b == [i \in s.instances |-> Entry(s, i)]
  <2>1. DOMAIN Bill(s) = {b[i] : i \in s.instances}
    BY DEF Bill
  <2> HIDE DEF b
  <2>2. IsFiniteSet({b[i] : i \in s.instances})
    BY <1>1, FiniteImage
  <2> QED
    BY <2>1, <2>2, FS_Subset DEF EntriesOf
<1>3. \A e \in E : IsFiniteSet(A[e]) /\ Cardinality(A[e]) \in Nat /\ A[e] \in SUBSET s.instances
  BY <1>1, FS_Subset, FS_CardinalityType DEF Entered
<1>4. \A e, d \in E : e # d => A[e] \cap A[d] = {}
  BY DEF Entered
<1>5. ASSUME NEW e \in E
      PROVE  g[e] = Sum(f, A[e])
  <2>1. e \in DOMAIN Bill(s) /\ Bill(s)[e] = Cardinality(A[e])
    BY DEF EntriesOf, Bill, Entered
  <2>2. PICK i \in s.instances : e = Entry(s, i)
    BY <2>1 DEF Bill
  <2>3. e[3] \in Nat
    BY <1>1, <2>2 DEF Entry
  <2>4. \A x \in A[e] : f[x] = e[3]
    BY DEF Entered, Entry
  <2> HIDE DEF A, f
  <2>5. Sum(f, A[e]) = e[3] * Cardinality(A[e])
    BY <1>3, <2>3, <2>4, SumOfSame
  <2> QED
    BY <2>1, <2>5
<1>6. UNION {A[e] : e \in E} = InGroup(s, key)
  <2>1. UNION {A[e] : e \in E} = UNION {Entered(s, e) : e \in E}
    OBVIOUS
  <2> QED
    BY <2>1, GroupOfEntries
<1>7. Sum(g, E) = Sum(f, InGroup(s, key)) /\ IsFiniteSet(InGroup(s, key))
  <2> HIDE DEF A, f, g, E
  <2>1. \A e \in E : \A i \in A[e] : f[i] \in Nat
    BY <1>1, <1>3
  <2>2. IsFiniteSet(UNION {A[e] : e \in E}) /\ Sum(g, E) = Sum(f, UNION {A[e] : e \in E})
    <3>1. \A e \in E : g[e] = Sum(f, A[e])
      BY <1>5
    <3>2. \A e \in E : IsFiniteSet(A[e])
      BY <1>3
    <3> QED
      BY ONLY <3>1, <1>4, <1>2, <2>1, <3>2, SumOfSums
  <2> QED
    BY <1>6, <2>2
<1>8. GroupedQuantity(s, key) = Sum([i \in InGroup(s, key) |-> i.quantity], InGroup(s, key))
  BY <1>1, <1>7, AmountIsSum DEF GroupedQuantity, InGroup
<1>9. Sum([i \in InGroup(s, key) |-> i.quantity], InGroup(s, key)) = Sum(f, InGroup(s, key))
  <2> DEFINE h == [i \in InGroup(s, key) |-> i.quantity]
  <2>1. \A i \in InGroup(s, key) : h[i] = f[i]
    BY DEF InGroup
  <2> HIDE DEF h, f
  <2>2. Sum(h, InGroup(s, key)) = Sum(f, InGroup(s, key))
    BY <1>7, <2>1, SumSame
  <2> QED
    BY <2>2 DEF h
<1> QED
  BY <1>7, <1>8, <1>9

\* Equal bills have equal amounts in all groups.
LEMMA SameBillSameQuantities ==
    ASSUME NEW old, NEW new, IsSnapshot(old), IsSnapshot(new),
           Hanging(old) = Hanging(new), Bill(old) = Bill(new)
    PROVE  QuantityChanges(old, new) = {}
<1> SUFFICES ASSUME NEW key \in GroupKeys(old) \cap GroupKeys(new)
             PROVE  GroupedQuantity(old, key) = GroupedQuantity(new, key)
  BY DEF QuantityChanges
<1>1. EntriesOf(old, key) = EntriesOf(new, key)
  BY DEF EntriesOf
<1> QED
  BY <1>1, GroupedByEntry

\* Where all is decided as before no mapping has changed.
LEMMA SameDecisionsSameMappings ==
    ASSUME NEW old, NEW new, NEW m, NEW n, Consistent(old, m), DecisionsOf(old, m) = DecisionsOf(new, n)
    PROVE  MappingChanges(old, new, m, n) = {}
<1> SUFFICES ASSUME NEW kind \in Kinds, NEW x \in new[kind], n[x.id] # Nil
             PROVE  ~Changed(old, m, kind, x, n[x.id])
  BY DEF MappingChanges
<1>1. <<kind, x.sig, n[x.id]>> \in DecisionsOf(old, m)
  <2>1. <<kind, x.sig, n[x.id]>> \in {<<kind, z.sig, n[z.id]>> : z \in new[kind]}
    OBVIOUS
  <2>2. <<kind, x.sig, n[x.id]>> \in DecisionsOf(new, n)
    BY <2>1 DEF DecisionsOf
  <2> QED
    BY <2>2
<1>2. PICK y \in old[kind] : y.sig = x.sig /\ m[y.id] = n[x.id]
  BY <1>1 DEF DecisionsOf
<1>3. y \in Prior(old, m, kind, x)
  BY <1>2 DEF Prior
<1>4. \A z \in Prior(old, m, kind, x) : m[z.id] = n[x.id]
  BY <1>2 DEF Prior, Consistent
<1> QED
  BY <1>3, <1>4 DEF Changed

-----------------------------------------------------------------------------
(* Diffs tell what changed.                                                *)

\* A diff tells what changed between any two snapshots, whatever is mapped
\* (buildCadSnapshotDiff): no move, no change of a number and no swap goes untold, and
\* identities that changed tell nothing.
THEOREM DiffsTell ==
    \A old, new, m, n : IsSnapshot(old) /\ IsSnapshot(new) => Telling(old, new, m, n)
<1> SUFFICES ASSUME NEW old, NEW new, NEW m, NEW n, IsSnapshot(old), IsSnapshot(new)
             PROVE  Telling(old, new, m, n)
  OBVIOUS
<1>1. \A h \in (Hanging(new) \ Hanging(old)) \cup (Hanging(old) \ Hanging(new)) :
          h[2] \in Told(Diff(old, new, m, n), h[1])
  BY MovesAreTold
<1>2. \A key \in GroupKeys(old) \cup GroupKeys(new) :
          Number(old, key) # Number(new, key) =>
              \/ key \in Diff(old, new, m, n).quantities
              \/ \E i \in InGroup(old, key) \cup InGroup(new, key) :
                     i.sig \in Told(Diff(old, new, m, n), "instances") \cup Swapped(old, new)
  BY NumbersAreTold, DiffHas
<1>3. ASSUME Hanging(old) = Hanging(new), Bill(old) = Bill(new)
      PROVE  /\ \A kind \in Placed : Told(Diff(old, new, m, n), kind) = {}
             /\ Diff(old, new, m, n).quantities = {}
             /\ Consistent(old, m) /\ DecisionsOf(old, m) = DecisionsOf(new, n) =>
                    Diff(old, new, m, n).mappings = {}
  BY <1>3, SameTellsNothing, SameBillSameQuantities, SameDecisionsSameMappings, DiffHas
<1> QED
  BY <1>1, <1>2, <1>3 DEF Telling

\* A sequence that is not empty has one element more than its front.
LEMMA FrontAndLast ==
    ASSUME NEW S, NEW t \in Seq(S), t # <<>>
    PROVE  /\ Len(t) \in Nat \ {0}
           /\ Front(t) \in Seq(S) /\ Len(Front(t)) = Len(t) - 1
           /\ \A i \in 1..(Len(t) - 1) : Front(t)[i] = t[i]
           /\ Last(t) \in S /\ Last(t) = t[Len(t)]
<1>1. Len(t) \in Nat \ {0}
  BY EmptySeq
<1>2. \A i \in 1..(Len(t) - 1) : t[i] \in S
  BY <1>1, ElementOfSeq
<1>3. /\ Front(t) \in Seq(S) /\ Len(Front(t)) = Len(t) - 1
      /\ \A i \in 1..(Len(t) - 1) : Front(t)[i] = t[i]
  <2> DEFINE n == Len(t) - 1
  <2>1. /\ SubSeq(t, 1, n) \in Seq(S)
        /\ Len(SubSeq(t, 1, n)) = IF 1 <= n THEN n - 1 + 1 ELSE 0
        /\ \A i \in 1..(n - 1 + 1) : SubSeq(t, 1, n)[i] = t[1 + i - 1]
    BY <1>1, <1>2, SubSeqProperties
  <2> DEFINE f == SubSeq(t, 1, n)
  <2>2. f = Front(t)
    BY DEF Front
  <2>3. f \in Seq(S) /\ Len(f) = (IF 1 <= n THEN n - 1 + 1 ELSE 0) /\ \A i \in 1..(n - 1 + 1) : f[i] = t[1 + i - 1]
    BY <2>1
  <2> HIDE DEF f
  <2>4. \A i \in 1..n : f[i] = t[i]
    <3> TAKE i \in 1..n
    <3>1. i \in 1..(n - 1 + 1) /\ 1 + i - 1 = i
      BY <1>1
    <3> QED
      BY <2>3, <3>1
  <2>5. Len(f) = n
    <3>1. n \in Nat
      BY <1>1
    <3> HIDE DEF n
    <3>2. (IF 1 <= n THEN n - 1 + 1 ELSE 0) = n
      BY <3>1
    <3> QED
      BY <2>3, <3>2
  <2> QED
    BY <2>2, <2>3, <2>4, <2>5
<1>4. Last(t) \in S /\ Last(t) = t[Len(t)]
  BY <1>1, ElementOfSeq DEF Last
<1> QED
  BY <1>1, <1>3, <1>4

\* A prefix is no longer, and equal as far as it goes.
LEMMA PrefixMeans ==
    ASSUME NEW S, NEW s \in Seq(S), NEW t \in Seq(S)
    PROVE  IsPrefix(s, t) <=> Len(s) <= Len(t) /\ \A i \in 1..Len(s) : s[i] = t[i]
<1>1. ASSUME Len(s) <= Len(t)
      PROVE  SubSeq(s, 1, Len(s)) = SubSeq(t, 1, Len(s)) <=> \A i \in 1..Len(s) : s[i] = t[i]
  <2> DEFINE n == Len(s)
             a == SubSeq(s, 1, n)
             b == SubSeq(t, 1, n)
  <2>1. n \in Nat /\ Len(t) \in Nat
    OBVIOUS
  <2>2. \A i \in 1..n : s[i] \in S /\ t[i] \in S
    BY <1>1, <2>1, ElementOfSeq
  <2>3. a \in Seq(S) /\ Len(a) = (IF 1 <= n THEN n - 1 + 1 ELSE 0) /\ \A i \in 1..(n - 1 + 1) : a[i] = s[1 + i - 1]
    BY <2>1, <2>2, SubSeqProperties
  <2>4. b \in Seq(S) /\ Len(b) = (IF 1 <= n THEN n - 1 + 1 ELSE 0) /\ \A i \in 1..(n - 1 + 1) : b[i] = t[1 + i - 1]
    BY <2>1, <2>2, SubSeqProperties
  <2>5. a = b <=> \A i \in 1..n : a[i] = b[i]
    <3>1. Len(a) = n /\ Len(b) = n
      BY <2>1, <2>3, <2>4
    <3> HIDE DEF a, b
    <3> QED
      BY <2>3, <2>4, <3>1, SeqEqual
  <2>6. \A i \in 1..n : a[i] = s[i] /\ b[i] = t[i]
    BY <2>1, <2>3, <2>4
  <2> QED
    BY <2>5, <2>6
<1> QED
  BY <1>1 DEF IsPrefix

-----------------------------------------------------------------------------
(* The views of a tree.                                                    *)

IdsOf(items) == {x.id : x \in items}
Above(a, b) == a.root = b.root /\ IsPrefix(a.path, b.path)
Depth(id) == Len(id.path)

\* Identities are paths from the roots: what is not a root is under a node.
IsTree(s, P, U) ==
    /\ IsFiniteSet(s.nodes) /\ IsFiniteSet(s.instances)
    /\ \A x \in s.nodes \cup s.instances :
        /\ x.id \in [root : P, path : Seq(U)] /\ x.id # Nil
        /\ x.parent = ParentOf(x.id)
        /\ x.parent = Nil <=> x.id.path = <<>>
        /\ x.parent # Nil => x.parent \in IdsOf(s.nodes)
    /\ \A x, y \in s.nodes : x.id = y.id => x = y
    /\ \A x, y \in s.instances : x.id = y.id => x = y
    /\ IdsOf(s.nodes) \cap IdsOf(s.instances) = {}
    /\ \A i \in s.instances : i.quantity \in Nat \ {0}

\* What is above what, by paths.
LEMMA AboveMeans ==
    ASSUME NEW P, NEW U, NEW a \in [root : P, path : Seq(U)], NEW b \in [root : P, path : Seq(U)]
    PROVE  /\ Above(a, b) <=> /\ a.root = b.root /\ Depth(a) <= Depth(b)
                              /\ \A i \in 1..Depth(a) : a.path[i] = b.path[i]
           /\ Above(a, a)
           /\ Above(a, b) /\ Depth(a) = Depth(b) => a = b
           /\ Depth(a) \in Nat
<1>1. a.path \in Seq(U) /\ b.path \in Seq(U) /\ Depth(a) \in Nat /\ Depth(b) \in Nat
  BY DEF Depth
<1>2. Above(a, b) <=> /\ a.root = b.root /\ Depth(a) <= Depth(b)
                      /\ \A i \in 1..Depth(a) : a.path[i] = b.path[i]
  <2>1. IsPrefix(a.path, b.path) <=>
            Len(a.path) <= Len(b.path) /\ \A i \in 1..Len(a.path) : a.path[i] = b.path[i]
    BY <1>1, PrefixMeans
  <2> QED
    BY <2>1 DEF Above, Depth
<1>3. Above(a, a)
  BY <1>1, PrefixMeans DEF Above
<1>4. ASSUME Above(a, b), Depth(a) = Depth(b)
      PROVE  a = b
  <2>1. a.path = b.path
    BY <1>1, <1>2, <1>4, SeqEqual DEF Depth
  <2> QED
    BY <1>2, <1>4, <2>1
<1> QED
  BY <1>1, <1>2, <1>3, <1>4

\* Above something are itself and what is above its parent.
LEMMA AboveParent ==
    ASSUME NEW P, NEW U, NEW a \in [root : P, path : Seq(U)], NEW b \in [root : P, path : Seq(U)],
           b.path # <<>>
    PROVE  /\ ParentOf(b) \in [root : P, path : Seq(U)]
           /\ Depth(ParentOf(b)) = Depth(b) - 1
           /\ Above(a, b) <=> a = b \/ Above(a, ParentOf(b))
           /\ Above(ParentOf(b), b)
<1> DEFINE p == ParentOf(b)
<1>1. p = [root |-> b.root, path |-> Front(b.path)]
  BY DEF ParentOf
<1>2. p \in [root : P, path : Seq(U)] /\ Depth(p) = Depth(b) - 1 /\ p.root = b.root
  <2> DEFINE t == b.path
  <2>1. t \in Seq(U) /\ t # <<>>
    OBVIOUS
  <2>2. Front(t) \in Seq(U) /\ Len(Front(t)) = Len(t) - 1
    BY <2>1, FrontAndLast
  <2> QED
    BY <1>1, <2>2 DEF Depth
<1>3. Depth(b) \in Nat \ {0} /\ Depth(a) \in Nat
  BY FrontAndLast DEF Depth
<1>4. \A i \in 1..Depth(p) : p.path[i] = b.path[i]
  <2> DEFINE t == b.path
  <2>1. t \in Seq(U) /\ t # <<>>
    OBVIOUS
  <2>2. \A i \in 1..(Len(t) - 1) : Front(t)[i] = t[i]
    BY <2>1, FrontAndLast
  <2> QED
    BY <1>1, <1>2, <2>2 DEF Depth
<1> HIDE DEF p
<1>5. Above(p, b)
  BY <1>2, <1>3, <1>4, AboveMeans
<1>6. ASSUME Above(a, p)
      PROVE  Above(a, b)
  BY <1>2, <1>3, <1>4, <1>6, AboveMeans
<1>7. ASSUME Above(a, b), a # b
      PROVE  Above(a, p)
  <2>1. Depth(a) <= Depth(p)
    BY <1>2, <1>3, <1>7, AboveMeans
  <2> QED
    BY <1>2, <1>3, <1>4, <1>7, <2>1, AboveMeans
<1>8. Above(a, a)
  BY AboveMeans
<1> QED
  BY <1>2, <1>5, <1>6, <1>7, <1>8 DEF p

\* Nothing but itself is above a root.
LEMMA AboveRoot ==
    ASSUME NEW P, NEW U, NEW a \in [root : P, path : Seq(U)], NEW b \in [root : P, path : Seq(U)],
           b.path = <<>>
    PROVE  Above(a, b) <=> a = b
<1>1. Depth(b) = 0
  BY DEF Depth
<1> QED
  BY <1>1, AboveMeans

\* What holds of a node whose parent, if it has one, it holds of, holds of all.
LEMMA Downwards ==
    ASSUME NEW s, NEW P, NEW U, IsTree(s, P, U), NEW S \in SUBSET IdsOf(s.nodes),
           \A n \in s.nodes : (n.parent # Nil => n.parent \in S) => n.id \in S
    PROVE  S = IdsOf(s.nodes)
<1> DEFINE T == {Depth(id) : id \in IdsOf(s.nodes) \ S}
<1> SUFFICES ASSUME IdsOf(s.nodes) \ S # {} PROVE FALSE
  OBVIOUS
<1>1. \A n \in s.nodes : n.id \in [root : P, path : Seq(U)] /\ Depth(n.id) \in Nat
  BY DEF IsTree, Depth
<1>2. T \in SUBSET Nat /\ T # {}
  BY <1>1 DEF IdsOf
<1>3. PICK d \in T : \A e \in T : ~(e < d)
  <2> HIDE DEF T
  <2> QED
    BY <1>2, LeastNatural
<1>4. PICK n \in s.nodes : n.id \notin S /\ Depth(n.id) = d
  BY <1>3 DEF IdsOf
<1>5. n.parent # Nil /\ n.parent \notin S
  BY <1>4
<1>6. n.parent \in IdsOf(s.nodes) /\ n.id.path # <<>> /\ n.parent = ParentOf(n.id)
  BY <1>5 DEF IsTree
<1>7. Depth(n.parent) = Depth(n.id) - 1
  BY <1>1, <1>6, AboveParent
<1>8. Depth(n.parent) \in T
  BY <1>5, <1>6
<1> HIDE DEF T
<1> QED
  BY <1>1, <1>3, <1>4, <1>7, <1>8

\* What holds of a node if it holds of those under it, holds of all.
LEMMA Upwards ==
    ASSUME NEW s, NEW P, NEW U, IsTree(s, P, U), NEW S \in SUBSET IdsOf(s.nodes),
           \A n \in s.nodes : (\A x \in s.nodes : x.parent = n.id => x.id \in S) => n.id \in S
    PROVE  S = IdsOf(s.nodes)
<1> DEFINE T == {n \in s.nodes : n.id \notin S}
           f == [n \in T |-> Depth(n.id)]
<1> SUFFICES ASSUME IdsOf(s.nodes) \ S # {} PROVE FALSE
  OBVIOUS
<1>1. \A n \in s.nodes : n.id \in [root : P, path : Seq(U)] /\ Depth(n.id) \in Nat
  BY DEF IsTree, Depth
<1>2. IsFiniteSet(T) /\ T # {} /\ \A n \in T : f[n] \in Nat
  <2>1. IsFiniteSet(T)
    BY FS_Subset DEF IsTree
  <2> QED
    BY <1>1, <2>1 DEF IdsOf
<1>3. PICK n \in T : \A x \in T : f[x] <= f[n]
  <2> HIDE DEF T, f
  <2> QED
    BY <1>2, LargestOne
<1>4. PICK x \in s.nodes : x.parent = n.id /\ x.id \notin S
  BY <1>3
<1>5. x.parent # Nil
  BY <1>3, <1>4 DEF IsTree
<1>6. x.id.path # <<>> /\ x.parent = ParentOf(x.id)
  BY <1>5 DEF IsTree
<1>7. Depth(n.id) = Depth(x.id) - 1
  BY <1>1, <1>4, <1>6, AboveParent
<1>8. x \in T /\ f[x] = Depth(x.id) /\ f[n] = Depth(n.id)
  BY <1>4
<1> HIDE DEF T, f
<1> QED
  BY <1>1, <1>3, <1>4, <1>7, <1>8

\* Nodes are above each other as their identities are.
LEMMA IsAboveIsAbove ==
    \A n, x : IsAbove(n, x) <=> Above(n.id, x.id)
BY DEF IsAbove, Above

\* Of the nodes above a node itself is the nearest, or else the nearest to its parent.
LEMMA NearestAbove ==
    ASSUME NEW s, NEW P, NEW U, IsTree(s, P, U), NEW n \in s.nodes, NEW S \in SUBSET s.nodes,
           NEW here, here = {a \in S : IsAbove(a, n)}
    PROVE  /\ n \in S => here # {} /\ Nearest(here) = n
           /\ n \notin S /\ n.parent = Nil => here = {}
<1>1. \A a \in s.nodes : a.id \in [root : P, path : Seq(U)] /\ Depth(a.id) \in Nat
  BY DEF IsTree, Depth
<1>2. \A a, b \in s.nodes : IsAbove(a, b) <=> Above(a.id, b.id)
  BY DEF IsAbove, Above
<1>3. \A a, b \in s.nodes : a.id = b.id => a = b
  BY DEF IsTree
<1>4. ASSUME n \in S
      PROVE  here # {} /\ Nearest(here) = n
  <2>1. n \in here
    BY <1>1, <1>2, <1>4, AboveMeans
  <2>2. \A a \in here : Depth(a.id) <= Depth(n.id) /\ (Depth(a.id) = Depth(n.id) => a = n)
    BY <1>1, <1>2, <1>3, AboveMeans
  <2>3. \A a \in here : (\A b \in here : Depth(b.id) <= Depth(a.id)) <=> a = n
    <3> TAKE a \in here
    <3>1. Depth(a.id) \in Nat /\ Depth(n.id) \in Nat
      BY <1>1
    <3> QED
      BY <2>1, <2>2, <3>1
  <2> QED
    BY <2>1, <2>3 DEF Nearest, Depth
<1>5. ASSUME n \notin S, n.parent = Nil
      PROVE  here = {}
  <2>1. n.id.path = <<>>
    BY <1>5 DEF IsTree
  <2> QED
    BY <1>1, <1>2, <1>3, <1>5, <2>1, AboveRoot
<1> QED
  BY <1>4, <1>5

\* What is above a node and not the node itself is above its parent.
LEMMA NearestToParent ==
    ASSUME NEW s, NEW P, NEW U, IsTree(s, P, U), NEW n \in s.nodes, NEW S \in SUBSET s.nodes,
           n \notin S, NEW p \in s.nodes, n.parent = p.id
    PROVE  {a \in S : IsAbove(a, n)} = {a \in S : IsAbove(a, p)}
<1>1. \A a \in s.nodes : a.id \in [root : P, path : Seq(U)]
  BY DEF IsTree
<1>2. \A a, b \in s.nodes : IsAbove(a, b) <=> Above(a.id, b.id)
  BY DEF IsAbove, Above
<1>3. \A a, b \in s.nodes : a.id = b.id => a = b
  BY DEF IsTree
<1>4. n.id.path # <<>> /\ p.id = ParentOf(n.id)
  BY DEF IsTree
<1>5. \A a \in S : Above(a.id, n.id) <=> a.id = n.id \/ Above(a.id, p.id)
  BY <1>1, <1>4, AboveParent
<1> QED
  BY <1>2, <1>3, <1>5

\* What a node passes on, if its parent passes on what c says.
Passed(s, m, workspace, c, id) ==
    LET n == NodeOf(s, id)
        d == m[id]
        given == IF n.parent = Nil THEN [subsystem |-> Nil, mechanism |-> Nil] ELSE c[n.parent]
    IN  [subsystem |-> IF Class(n, d) = "SUBSYSTEM" THEN Target(n, d, workspace) ELSE given.subsystem,
         mechanism |-> IF Class(n, d) = "MECHANISM" THEN Target(n, d, workspace)
                       ELSE IF Class(n, d) = "COMPONENT_ASSEMBLY" /\ d # Nil /\ d.target # Nil
                       THEN d.target
                       ELSE given.mechanism]

Passes(s, m, workspace, c) == c = [id \in IdsOf(s.nodes) |-> Passed(s, m, workspace, c, id)]

\* What nodes pass on satisfies the rule by which each passes it on.
LEMMA ContextChosen ==
    ASSUME NEW s, NEW m, NEW workspace
    PROVE  Context(s, m, workspace) = CHOOSE c : Passes(s, m, workspace, c)
BY DEF Context, Passes, Passed, IdsOf

\* A node is found by its identity.
LEMMA NodeOfIs ==
    ASSUME NEW s, NEW P, NEW U, IsTree(s, P, U), NEW n \in s.nodes
    PROVE  NodeOf(s, n.id) = n
BY DEF IsTree, NodeOf

\* The nearest subsystem and mechanism above are what a node passes on.
LEMMA ReviewedIsPassed ==
    ASSUME NEW s, NEW P, NEW U, IsTree(s, P, U), NEW m, NEW workspace, NEW n \in s.nodes, NEW c,
           \A p \in s.nodes : c[p.id] = ReviewedAs(s, m, workspace, p)
    PROVE  ReviewedAs(s, m, workspace, n) = Passed(s, m, workspace, c, n.id)
<1> DEFINE d == m[n.id]
           subs(x) == Subsystems(s, m, x)
           mechs(x) == Mechanisms(s, m, x)
           S == {a \in s.nodes : Class(a, m[a.id]) = "SUBSYSTEM"}
           M == {a \in s.nodes : Class(a, m[a.id]) = "MECHANISM" \/ NamesMechanism(a, m[a.id])}
           nosub == [subsystem |-> Nil, mechanism |-> Nil]
           given == IF n.parent = Nil THEN nosub ELSE c[n.parent]
           r == ReviewedAs(s, m, workspace, n)
<1>1. \A x : subs(x) = {a \in S : IsAbove(a, x)} /\ mechs(x) = {a \in M : IsAbove(a, x)}
  BY DEF Subsystems, Mechanisms
<1>2. S \in SUBSET s.nodes /\ M \in SUBSET s.nodes
  OBVIOUS
<1>3. NodeOf(s, n.id) = n
  BY NodeOfIs
<1>4. n.parent # Nil => \E p \in s.nodes : n.parent = p.id
  BY DEF IsTree, IdsOf
<1>5. \A x : /\ ReviewedAs(s, m, workspace, x).subsystem =
                    IF subs(x) = {} THEN Nil ELSE Target(Nearest(subs(x)), m[Nearest(subs(x)).id], workspace)
             /\ ReviewedAs(s, m, workspace, x).mechanism =
                    IF mechs(x) = {} THEN Nil ELSE MechanismOf(Nearest(mechs(x)), m[Nearest(mechs(x)).id], workspace)
  BY DEF ReviewedAs
<1>6. r.subsystem = IF Class(n, d) = "SUBSYSTEM" THEN Target(n, d, workspace) ELSE given.subsystem
  <2>1. CASE Class(n, d) = "SUBSYSTEM"
    <3>1. n \in S
      BY <2>1
    <3> HIDE DEF S, subs, mechs
    <3>2. subs(n) # {} /\ Nearest(subs(n)) = n
      BY <1>1, <1>2, <3>1, NearestAbove
    <3> QED
      BY <1>5, <2>1, <3>2
  <2>2. CASE Class(n, d) # "SUBSYSTEM"
    <3>1. n \notin S
      BY <2>2
    <3> HIDE DEF S, subs, mechs
    <3>2. CASE n.parent = Nil
      <4>1. subs(n) = {}
        BY <1>1, <1>2, <3>1, <3>2, NearestAbove
      <4> QED
        BY <1>5, <2>2, <3>2, <4>1
    <3>3. CASE n.parent # Nil
      <4>1. PICK p \in s.nodes : n.parent = p.id
        BY <1>4, <3>3
      <4>2. {a \in S : IsAbove(a, n)} = {a \in S : IsAbove(a, p)}
        BY <1>2, <3>1, <4>1, NearestToParent
      <4>3. subs(n) = subs(p)
        BY <1>1, <4>2
      <4>4. given.subsystem = ReviewedAs(s, m, workspace, p).subsystem
        BY <3>3, <4>1
      <4> HIDE DEF given
      <4> QED
        BY <1>5, <2>2, <4>3, <4>4
    <3> QED
      BY <3>2, <3>3
  <2> QED
    BY <2>1, <2>2
<1>7. r.mechanism = IF Class(n, d) = "MECHANISM" THEN Target(n, d, workspace)
                    ELSE IF NamesMechanism(n, d) THEN d.target
                    ELSE given.mechanism
  <2>1. CASE Class(n, d) = "MECHANISM" \/ NamesMechanism(n, d)
    <3>1. n \in M
      BY <2>1
    <3> HIDE DEF M, subs, mechs
    <3>2. mechs(n) # {} /\ Nearest(mechs(n)) = n
      BY <1>1, <1>2, <3>1, NearestAbove
    <3>3. r.mechanism = MechanismOf(n, d, workspace)
      BY <1>5, <3>2
    <3>4. Class(n, d) = "MECHANISM" => ~NamesMechanism(n, d)
      BY DEF NamesMechanism
    <3> QED
      BY <2>1, <3>3, <3>4 DEF MechanismOf
  <2>2. CASE Class(n, d) # "MECHANISM" /\ ~NamesMechanism(n, d)
    <3>1. n \notin M
      BY <2>2
    <3> HIDE DEF M, subs, mechs
    <3>2. CASE n.parent = Nil
      <4>1. mechs(n) = {}
        BY <1>1, <1>2, <3>1, <3>2, NearestAbove
      <4> QED
        BY <1>5, <2>2, <3>2, <4>1
    <3>3. CASE n.parent # Nil
      <4>1. PICK p \in s.nodes : n.parent = p.id
        BY <1>4, <3>3
      <4>2. {a \in M : IsAbove(a, n)} = {a \in M : IsAbove(a, p)}
        BY <1>2, <3>1, <4>1, NearestToParent
      <4>3. mechs(n) = mechs(p)
        BY <1>1, <4>2
      <4>4. given.mechanism = ReviewedAs(s, m, workspace, p).mechanism
        BY <3>3, <4>1
      <4> HIDE DEF given
      <4> QED
        BY <1>5, <2>2, <4>3, <4>4
    <3> QED
      BY <3>2, <3>3
  <2> QED
    BY <2>1, <2>2
<1>8. r = [subsystem |-> r.subsystem, mechanism |-> r.mechanism]
  BY DEF ReviewedAs
<1>9. Passed(s, m, workspace, c, n.id) =
          [subsystem |-> IF Class(n, d) = "SUBSYSTEM" THEN Target(n, d, workspace) ELSE given.subsystem,
           mechanism |-> IF Class(n, d) = "MECHANISM" THEN Target(n, d, workspace)
                         ELSE IF NamesMechanism(n, d) THEN d.target
                         ELSE given.mechanism]
  BY <1>3 DEF Passed, NamesMechanism
<1> HIDE DEF r, given, d
<1> QED
  BY <1>6, <1>7, <1>8, <1>9 DEF r

\* What a node is shown in is the subsystem and the mechanism next above it.
LEMMA ContextIsReviewed ==
    ASSUME NEW s, NEW P, NEW U, IsTree(s, P, U), NEW m, NEW workspace, NEW n \in s.nodes
    PROVE  Context(s, m, workspace)[n.id] = ReviewedAs(s, m, workspace, n)
<1> DEFINE w == [id \in IdsOf(s.nodes) |-> ReviewedAs(s, m, workspace, NodeOf(s, id))]
           c == Context(s, m, workspace)
<1>1. \A p \in s.nodes : w[p.id] = ReviewedAs(s, m, workspace, p)
  BY NodeOfIs DEF IdsOf
<1>2. Passes(s, m, workspace, w)
  <2>1. \A id \in IdsOf(s.nodes) : w[id] = Passed(s, m, workspace, w, id)
    <3> SUFFICES ASSUME NEW p \in s.nodes
                 PROVE  w[p.id] = Passed(s, m, workspace, w, p.id)
      BY DEF IdsOf
    <3> HIDE DEF w
    <3> QED
      BY <1>1, ReviewedIsPassed
  <2>2. w = [id \in IdsOf(s.nodes) |-> w[id]]
    OBVIOUS
  <2> HIDE DEF w
  <2> QED
    BY <2>1, <2>2 DEF Passes
<1> HIDE DEF w
<1>3. Passes(s, m, workspace, c)
  BY <1>2, ContextChosen
<1> HIDE DEF c
<1> DEFINE S == {id \in IdsOf(s.nodes) : c[id] = w[id]}
<1>4. ASSUME NEW p \in s.nodes, p.parent # Nil => p.parent \in S
      PROVE  p.id \in S
  <2>1. p.id \in IdsOf(s.nodes)
    BY DEF IdsOf
  <2>2. c[p.id] = Passed(s, m, workspace, c, p.id) /\ w[p.id] = Passed(s, m, workspace, w, p.id)
    BY <1>2, <1>3, <2>1 DEF Passes
  <2>3. NodeOf(s, p.id) = p
    BY NodeOfIs
  <2>4. p.parent # Nil => c[p.parent] = w[p.parent]
    BY <1>4
  <2>5. Passed(s, m, workspace, c, p.id) = Passed(s, m, workspace, w, p.id)
    BY <2>3, <2>4 DEF Passed
  <2> QED
    BY <2>1, <2>2, <2>5
<1>5. S = IdsOf(s.nodes)
  <2> HIDE DEF S
  <2>1. S \in SUBSET IdsOf(s.nodes)
    BY DEF S
  <2> QED
    BY <1>4, <2>1, Downwards
<1> QED
  BY <1>1, <1>5 DEF c, IdsOf

-----------------------------------------------------------------------------
(* Instances below a node.                                                 *)

Under(s, id) == {i \in s.instances : Above(id, i.id)}

\* Between a node and what is below it is a node right under it.
LEMMA NodeBetween ==
    ASSUME NEW s, NEW P, NEW U, IsTree(s, P, U), NEW id \in IdsOf(s.nodes),
           NEW x \in s.nodes \cup s.instances, Above(id, x.id), x.id # id
    PROVE  x.parent = id \/ \E n \in s.nodes : n.parent = id /\ Above(n.id, x.id)
<1> DEFINE Wrong == {y \in s.nodes \cup s.instances :
                        /\ Above(id, y.id) /\ y.id # id
                        /\ ~(y.parent = id \/ \E n \in s.nodes : n.parent = id /\ Above(n.id, y.id))}
           T == {Depth(y.id) : y \in Wrong}
<1> SUFFICES ASSUME x \in Wrong
             PROVE  FALSE
  OBVIOUS
<1>1. \A y \in s.nodes \cup s.instances : y.id \in [root : P, path : Seq(U)] /\ Depth(y.id) \in Nat
  BY DEF IsTree, Depth
<1>2. id \in [root : P, path : Seq(U)]
  BY <1>1 DEF IdsOf
<1>3. T \in SUBSET Nat /\ T # {}
  BY <1>1
<1>4. PICK d \in T : \A e \in T : ~(e < d)
  <2> HIDE DEF T
  <2> QED
    BY <1>3, LeastNatural
<1>5. PICK y \in Wrong : Depth(y.id) = d
  OBVIOUS
<1>6. /\ y \in s.nodes \cup s.instances /\ Above(id, y.id) /\ y.id # id
      /\ y.parent # id /\ ~\E n \in s.nodes : n.parent = id /\ Above(n.id, y.id)
  OBVIOUS
<1>7. \A z \in s.nodes : z \in Wrong => Depth(z.id) \in T
  OBVIOUS
<1>8. ASSUME NEW z \in s.nodes, z \notin Wrong, Above(id, z.id), z.id # id
      PROVE  z.parent = id \/ \E n \in s.nodes : n.parent = id /\ Above(n.id, z.id)
  BY <1>8
<1> HIDE DEF Wrong, T
<1>9. y.id.path # <<>>
  BY <1>1, <1>2, <1>6, AboveRoot
<1>10. y.parent = ParentOf(y.id) /\ y.parent # Nil
  BY <1>6, <1>9 DEF IsTree
<1>11. PICK p \in s.nodes : y.parent = p.id
  BY <1>6, <1>10 DEF IsTree, IdsOf
<1>12. p.id # id /\ p.id = ParentOf(y.id)
  BY <1>6, <1>10, <1>11
<1>13. /\ Depth(p.id) = Depth(y.id) - 1
       /\ \A n \in s.nodes : Above(n.id, p.id) => Above(n.id, y.id)
       /\ Above(id, p.id)
  BY <1>1, <1>2, <1>6, <1>9, <1>12, AboveParent
<1>14. p \notin Wrong
  BY <1>1, <1>3, <1>4, <1>5, <1>6, <1>7, <1>13
<1>15. p.parent = id \/ \E n \in s.nodes : n.parent = id /\ Above(n.id, p.id)
  BY <1>8, <1>12, <1>13, <1>14
<1>16. PICK n \in s.nodes : n.parent = id /\ Above(n.id, p.id)
  <2>1. Above(p.id, p.id)
    BY <1>1, AboveMeans
  <2> QED
    BY <1>15, <2>1
<1> QED
  BY <1>6, <1>13, <1>16

\* What collects an instance right under a node, and what is under the nodes right under it.
Collects(s, u) ==
    u = [id \in IdsOf(s.nodes) |-> {i \in s.instances : i.parent = id}
                                       \cup UNION {u[n.id] : n \in {n \in s.nodes : n.parent = id}}]

\* What is collected under nodes satisfies the rule of the collection.
LEMMA TotalChosen ==
    ASSUME NEW s
    PROVE  TotalQuantity(s) = LET u == CHOOSE v : Collects(s, v)
                              IN  [id \in DOMAIN u |-> MapThenSumSet(Amount, Groups(u[id]))]
BY DEF TotalQuantity, Collects, IdsOf

\* What is under a node is collected from below.
LEMMA UnderCollects ==
    ASSUME NEW s, NEW P, NEW U, IsTree(s, P, U)
    PROVE  Collects(s, [id \in IdsOf(s.nodes) |-> Under(s, id)])
<1> DEFINE u == [id \in IdsOf(s.nodes) |-> Under(s, id)]
<1>1. \A x \in s.nodes \cup s.instances : x.id \in [root : P, path : Seq(U)]
  BY DEF IsTree
<1>2. ASSUME NEW id \in IdsOf(s.nodes)
      PROVE  Under(s, id) = {i \in s.instances : i.parent = id}
                                \cup UNION {u[n.id] : n \in {n \in s.nodes : n.parent = id}}
  <2>1. \A n \in s.nodes : u[n.id] = Under(s, n.id)
    BY DEF IdsOf
  <2>2. id # Nil
    BY DEF IsTree, IdsOf
  <2>3. ASSUME NEW x \in s.nodes \cup s.instances, x.parent = id
        PROVE  /\ x.id.path # <<>> /\ id = ParentOf(x.id) /\ Above(id, x.id)
               /\ \A i \in s.instances : Above(x.id, i.id) => Above(id, i.id)
    <3>1. x.id.path # <<>> /\ id = ParentOf(x.id)
      BY <2>2, <2>3 DEF IsTree
    <3>2. Above(id, x.id) /\ id \in [root : P, path : Seq(U)] /\ Depth(id) = Depth(x.id) - 1
      BY <1>1, <3>1, AboveParent
    <3>3. ASSUME NEW i \in s.instances, Above(x.id, i.id)
          PROVE  Above(id, i.id)
      <4>1. /\ x.id.root = i.id.root /\ Depth(x.id) <= Depth(i.id)
            /\ \A k \in 1..Depth(x.id) : x.id.path[k] = i.id.path[k]
        BY <1>1, <3>3, AboveMeans
      <4>2. /\ id.root = x.id.root /\ Depth(id) <= Depth(x.id)
            /\ \A k \in 1..Depth(id) : id.path[k] = x.id.path[k]
        BY <1>1, <3>2, AboveMeans
      <4>3. Depth(id) \in Nat /\ Depth(x.id) \in Nat /\ Depth(i.id) \in Nat
        BY <1>1, <3>2 DEF Depth
      <4>4. Depth(id) <= Depth(i.id) /\ \A k \in 1..Depth(id) : id.path[k] = i.id.path[k]
        BY <4>1, <4>2, <4>3
      <4> QED
        BY <1>1, <3>2, <4>1, <4>2, <4>4, AboveMeans
    <3> QED
      BY <3>1, <3>2, <3>3
  <2>4. ASSUME NEW i \in Under(s, id)
        PROVE  i.parent = id \/ \E n \in s.nodes : n.parent = id /\ i \in Under(s, n.id)
    <3>1. i \in s.instances /\ Above(id, i.id)
      BY DEF Under
    <3>2. i.id \in IdsOf(s.instances)
      BY <3>1 DEF IdsOf
    <3>3. i.id # id
      BY <3>2 DEF IsTree
    <3> QED
      BY <3>1, <3>3, NodeBetween DEF Under
  <2>5. ASSUME NEW i \in s.instances, i.parent = id
        PROVE  i \in Under(s, id)
    BY <2>3, <2>5 DEF Under
  <2>6. ASSUME NEW n \in s.nodes, n.parent = id, NEW i \in Under(s, n.id)
        PROVE  i \in Under(s, id)
    BY <2>3, <2>6 DEF Under
  <2>7. Under(s, id) \in SUBSET s.instances
    BY DEF Under
  <2> HIDE DEF u
  <2> QED
    BY <2>1, <2>4, <2>5, <2>6, <2>7
<1> QED
  BY <1>2 DEF Collects

\* What is collected is what the node is above.
LEMMA CollectedIsUnder ==
    ASSUME NEW s, NEW P, NEW U, IsTree(s, P, U), NEW n \in s.nodes
    PROVE  TotalQuantity(s)[n.id] = MapThenSumSet(Amount, Groups(Under(s, n.id)))
<1> DEFINE w == [id \in IdsOf(s.nodes) |-> Under(s, id)]
           u == CHOOSE v : Collects(s, v)
           S == {id \in IdsOf(s.nodes) : u[id] = w[id]}
<1>1. Collects(s, w)
  BY UnderCollects
<1>2. \A id \in IdsOf(s.nodes) : w[id] = Under(s, id)
  OBVIOUS
<1>3. TotalQuantity(s) = [id \in DOMAIN u |-> MapThenSumSet(Amount, Groups(u[id]))]
  BY TotalChosen
<1> HIDE DEF w
<1>4. Collects(s, u)
  BY <1>1
<1> HIDE DEF u
<1>5. ASSUME NEW p \in s.nodes, \A x \in s.nodes : x.parent = p.id => x.id \in S
      PROVE  p.id \in S
  <2>1. p.id \in IdsOf(s.nodes)
    BY DEF IdsOf
  <2> DEFINE C == {x \in s.nodes : x.parent = p.id}
             I == {i \in s.instances : i.parent = p.id}
  <2>2. \A x \in C : u[x.id] = w[x.id]
    BY <1>5
  <2>3. u[p.id] = I \cup UNION {u[x.id] : x \in C} /\ w[p.id] = I \cup UNION {w[x.id] : x \in C}
    BY <1>1, <1>4, <2>1 DEF Collects
  <2> HIDE DEF C, I
  <2>4. u[p.id] = w[p.id]
    BY <2>2, <2>3
  <2> QED
    BY <2>1, <2>4
<1>6. S = IdsOf(s.nodes)
  <2> HIDE DEF S
  <2>1. S \in SUBSET IdsOf(s.nodes)
    BY DEF S
  <2> QED
    BY <1>5, <2>1, Upwards
<1>7. n.id \in IdsOf(s.nodes)
  BY DEF IdsOf
<1>8. DOMAIN u = IdsOf(s.nodes)
  BY <1>4 DEF Collects
<1> QED
  BY <1>2, <1>3, <1>6, <1>7, <1>8

\* The amounts of groups add up to the quantities of all their instances.
LEMMA GroupsAddUp ==
    ASSUME NEW I, IsFiniteSet(I), \A i \in I : i.quantity \in Nat \ {0}
    PROVE  MapThenSumSet(Amount, Groups(I)) = MapThenSumSet(LAMBDA i : i.quantity, I)
<1> DEFINE f == [i \in I |-> i.quantity]
           E == Groups(I)
           g == [group \in E |-> Amount(group)]
           A == [group \in E |-> group]
           b == [i \in I |-> {j \in I : Alike(i, j)}]
<1>1. MapThenSumSet(Amount, Groups(I)) = Sum(g, E)
  BY ZenonT(60) DEF Sum, MapThenSumSet, MapThenFoldSet
<1>2. IsFiniteSet(E)
  <2>1. E = {b[i] : i \in I}
    BY DEF Groups
  <2> HIDE DEF b, E
  <2> QED
    BY <2>1, FiniteImage
<1>3. \A k \in E : A[k] = k /\ k \in SUBSET I /\ IsFiniteSet(k)
  <2> TAKE k \in E
  <2>1. k \in SUBSET I
    BY DEF Groups
  <2> QED
    BY <2>1, FS_Subset
<1>4. \A k, l \in E : k # l => A[k] \cap A[l] = {}
  BY DEF Groups, Alike
<1>5. UNION {A[k] : k \in E} = I
  <2>1. \A i \in I : b[i] \in E /\ i \in b[i]
    BY DEF Groups, Alike
  <2> HIDE DEF A, E, b
  <2> QED
    BY <1>3, <2>1
<1>6. \A i \in I : f[i] \in Nat /\ f[i] = i.quantity
  OBVIOUS
<1>7. ASSUME NEW k \in E
      PROVE  g[k] = Sum(f, A[k])
  <2> DEFINE h == [i \in k |-> i.quantity]
  <2>1. Amount(k) = Sum(h, k)
    BY <1>3, AmountIsSum
  <2>2. \A i \in k : h[i] = f[i]
    BY <1>3, <1>6
  <2> HIDE DEF f, h
  <2>3. Sum(h, k) = Sum(f, k)
    BY <1>3, <2>2, SumSame
  <2> QED
    BY <1>3, <2>1, <2>3
<1>8. Sum(g, E) = Sum(f, I)
  <2> HIDE DEF f, g, E, A
  <2>1. \A k \in E : \A x \in A[k] : f[x] \in Nat
    BY <1>3, <1>6
  <2>2. \A k \in E : IsFiniteSet(A[k])
    BY <1>3
  <2>3. Sum(g, E) = Sum(f, UNION {A[k] : k \in E})
    <3>1. \A k \in E : g[k] = Sum(f, A[k])
      BY <1>7
    <3>2. \A k, l \in E : k # l => A[k] \cap A[l] = {}
      BY <1>4
    <3>3. IsFiniteSet(E)
      BY <1>2
    <3> QED
      BY ONLY <3>1, <3>2, <3>3, <2>1, <2>2, SumOfSums
  <2> QED
    BY <1>5, <2>3
<1>9. MapThenSumSet(LAMBDA i : i.quantity, I) = Sum(f, I)
  BY AmountIsSum
<1> QED
  BY <1>1, <1>8, <1>9

\* The total of a node counts each instance below it.
LEMMA QuantityUnder ==
    ASSUME NEW s, NEW P, NEW U, IsTree(s, P, U), NEW n \in s.nodes
    PROVE  TotalQuantity(s)[n.id] = MapThenSumSet(LAMBDA i : i.quantity, {i \in s.instances : IsAbove(n, i)})
<1> DEFINE I == Under(s, n.id)
<1>1. I = {i \in s.instances : IsAbove(n, i)}
  BY IsAboveIsAbove DEF Under
<1>2. IsFiniteSet(I) /\ \A i \in I : i.quantity \in Nat \ {0}
  BY FS_Subset DEF Under, IsTree
<1>3. TotalQuantity(s)[n.id] = MapThenSumSet(Amount, Groups(I))
  BY CollectedIsUnder
<1>4. MapThenSumSet(LAMBDA i : i.quantity, I) =
          MapThenSumSet(LAMBDA i : i.quantity, {i \in s.instances : IsAbove(n, i)})
  BY <1>1
<1> HIDE DEF I
<1>5. MapThenSumSet(Amount, Groups(I)) = MapThenSumSet(LAMBDA i : i.quantity, I)
  BY <1>2, GroupsAddUp
<1> QED
  BY <1>3, <1>4, <1>5

-----------------------------------------------------------------------------
(* Rows.                                                                   *)

RowOf(m, group) == [of |-> IdsOf(group), as |-> GroupMapping(m, group)]
RowsOfGroups(s, m) == {RowOf(m, group) : group \in Repeated(s)}
OwnRow(m, x) == [of |-> {x}, as |-> m[x]]
GroupedIds(s) == IdsOf(UNION Repeated(s))

\* The rows of the mappings: those of single sources, and one for each repeated group.
LEMMA RowsAre ==
    ASSUME NEW s, NEW m
    PROVE  Rows(s, m) = {OwnRow(m, x) : x \in {x \in DOMAIN m : m[x] # Nil} \ GroupedIds(s)}
                            \cup RowsOfGroups(s, m)
BY DEF Rows, RowsOfGroups, RowOf, OwnRow, GroupedIds, IdsOf

\* Whatever is mapped is in one row.
LEMMA InOneRow ==
    ASSUME NEW s, \A i, j \in s.instances : i.id = j.id => i = j,
           NEW m, NEW x \in DOMAIN m, m[x] # Nil
    PROVE  Cardinality({r \in Rows(s, m) : x \in r.of}) = 1
<1> SUFFICES \E r : {q \in Rows(s, m) : x \in q.of} = {r}
  BY FS_Singleton
<1>1. \A r : r \in Rows(s, m) <=>
          \/ \E y \in {y \in DOMAIN m : m[y] # Nil} \ GroupedIds(s) : r = OwnRow(m, y)
          \/ \E group \in Repeated(s) : r = RowOf(m, group)
  BY RowsAre DEF RowsOfGroups
<1>2. \A y : x \in OwnRow(m, y).of <=> y = x
  BY DEF OwnRow
<1>3. \A group : x \in RowOf(m, group).of <=> \E i \in group : i.id = x
  BY DEF RowOf, IdsOf
<1>4. CASE x \notin GroupedIds(s)
  <2>1. \A group \in Repeated(s) : x \notin RowOf(m, group).of
    BY <1>3, <1>4 DEF GroupedIds, IdsOf
  <2>2. OwnRow(m, x) \in Rows(s, m) /\ x \in OwnRow(m, x).of
    BY <1>1, <1>2, <1>4
  <2>3. \A r \in Rows(s, m) : x \in r.of => r = OwnRow(m, x)
    BY <1>1, <1>2, <2>1
  <2>4. {q \in Rows(s, m) : x \in q.of} = {OwnRow(m, x)}
    BY <2>2, <2>3
  <2> QED
    BY <2>4
<1>5. CASE x \in GroupedIds(s)
  <2>1. PICK group \in Repeated(s) : \E i \in group : i.id = x
    BY <1>5 DEF GroupedIds, IdsOf
  <2>2. PICK i \in group : i.id = x
    BY <2>1
  <2>3. ASSUME NEW other \in Repeated(s), NEW j \in other, j.id = x
        PROVE  other = group
    <3>1. \A g \in Repeated(s) : \E k \in s.instances : g = {l \in s.instances : Alike(k, l)}
      BY DEF Repeated, Groups
    <3>2. i \in s.instances /\ j \in s.instances
      BY <3>1
    <3>3. i = j
      BY <2>2, <2>3, <3>2
    <3>4. \A g \in Repeated(s) : i \in g => g = {l \in s.instances : Alike(i, l)}
      BY <3>1 DEF Alike
    <3> QED
      BY <3>3, <3>4
  <2>4. RowOf(m, group) \in Rows(s, m) /\ x \in RowOf(m, group).of
    BY <1>1, <1>3, <2>2
  <2>5. \A y : x \in OwnRow(m, y).of => y \in GroupedIds(s)
    BY <1>2, <1>5
  <2>6. \A r \in Rows(s, m) : x \in r.of => r = RowOf(m, group)
    BY <1>1, <1>3, <2>3, <2>5
  <2>7. {q \in Rows(s, m) : x \in q.of} = {RowOf(m, group)}
    BY <2>4, <2>6
  <2> QED
    BY <2>7
<1> QED
  BY <1>4, <1>5

\* A decided row is so for all that it stands for.
LEMMA DecidedForAll ==
    ASSUME NEW s, IsFiniteSet(s.instances), NEW m, NEW r \in Rows(s, m), r.as # Undecided, NEW x \in r.of
    PROVE  m[x] = r.as
<1>1. CASE \E y \in {y \in DOMAIN m : m[y] # Nil} \ GroupedIds(s) : r = OwnRow(m, y)
  BY <1>1 DEF OwnRow
<1>2. CASE \E group \in Repeated(s) : r = RowOf(m, group)
  <2>1. PICK group \in Repeated(s) : r = RowOf(m, group)
    BY <1>2
  <2> DEFINE b == [i \in group |-> m[i.id]]
             D == {m[i.id] : i \in group}
  <2>2. r.as = GroupMapping(m, group) /\ r.of = {i.id : i \in group}
    BY <2>1 DEF RowOf, IdsOf
  <2>3. r.as \in D /\ ~Mixed(m, group)
    BY <2>2 DEF GroupMapping
  <2>4. IsFiniteSet(D)
    <3>1. IsFiniteSet(group)
      BY FS_Subset DEF Repeated, Groups
    <3>2. D = {b[i] : i \in group}
      OBVIOUS
    <3> HIDE DEF b, D
    <3> QED
      BY <3>1, <3>2, FiniteImage
  <2>5. m[x] \in D
    BY <2>2
  <2>6. ~(Cardinality(D) > 1)
    BY <2>3 DEF Mixed
  <2> HIDE DEF D
  <2>7. Cardinality(D) \in Nat /\ Cardinality(D) # 0
    BY <2>4, <2>5, FS_CardinalityType, FS_EmptySet
  <2>8. Cardinality(D) = 1
    BY <2>6, <2>7
  <2>9. \E d : D = {d}
    BY <2>4, <2>8, FS_Singleton
  <2> QED
    BY <2>3, <2>5, <2>9
<1> QED
  BY <1>1, <1>2, RowsAre DEF RowsOfGroups

\* The views of any tree agree with each other, whatever is mapped (groupedSnapshotMappings,
\* buildTree, buildHierarchyPartSummary).
THEOREM TreesAgree ==
    \A s, P, U : IsTree(s, P, U) => \A m, workspace : Agreeing(s, m, workspace)
<1> SUFFICES ASSUME NEW s, NEW P, NEW U, IsTree(s, P, U), NEW m, NEW workspace
             PROVE  Agreeing(s, m, workspace)
  OBVIOUS
<1>1. \A i, j \in s.instances : i.id = j.id => i = j
  BY DEF IsTree
<1>2. \A x \in {x \in DOMAIN m : m[x] # Nil} : Cardinality({r \in Rows(s, m) : x \in r.of}) = 1
  BY <1>1, InOneRow
<1>3. \A r \in Rows(s, m) : r.as # Undecided => \A x \in r.of : m[x] = r.as
  BY DecidedForAll DEF IsTree
<1>4. \A n \in s.nodes :
          /\ Context(s, m, workspace)[n.id] = ReviewedAs(s, m, workspace, n)
          /\ TotalQuantity(s)[n.id] =
                 MapThenSumSet(LAMBDA i : i.quantity, {i \in s.instances : IsAbove(n, i)})
  BY ContextIsReviewed, QuantityUnder
<1> QED
  BY <1>2, <1>3, <1>4 DEF Agreeing

\* A function that is defined step by step exists.
Stepwise(a, b, V, c, F) ==
    \E g \in [a..b -> V] : \A n \in a..b : g[n] = IF n = a THEN c ELSE F[<<n, g[n - 1]>>]

\* A function defined step by step from a value exists.
LEMMA Recursion ==
    ASSUME NEW a \in Nat, NEW b \in Nat, NEW V, NEW c \in V, NEW F \in [Nat \X V -> V]
    PROVE  Stepwise(a, b, V, c, F)
<1> DEFINE Right(g, n) == g \in [a..n -> V] /\ \A k \in a..n : g[k] = IF k = a THEN c ELSE F[<<k, g[k - 1]>>]
           N == {n \in Nat : \E g : Right(g, n)}
<1>1. 0 \in N
  <2> DEFINE g == [k \in a..0 |-> c]
  <2>1. \A k \in a..0 : k = a
    OBVIOUS
  <2>2. Right(g, 0)
    BY <2>1
  <2> QED
    BY <2>2
<1>2. ASSUME NEW n \in N
      PROVE  n + 1 \in N
  <2>1. PICK g : Right(g, n)
    OBVIOUS
  <2> DEFINE h == [k \in a..(n + 1) |-> IF k <= n THEN g[k] ELSE IF k = a THEN c ELSE F[<<k, g[n]>>]]
  <2>2. \A k \in a..n : g[k] \in V
    BY <2>1
  <2>3. \A k \in a..(n + 1) : k \in a..n \/ (k = n + 1 /\ ~(k <= n) /\ (k # a => n \in a..n))
    OBVIOUS
  <2>4. \A k \in a..(n + 1) : h[k] \in V
    BY <2>2, <2>3
  <2>5. \A k \in a..n : h[k] = g[k] /\ (k # a => k - 1 \in a..n /\ h[k - 1] = g[k - 1])
    OBVIOUS
  <2>6. \A k \in a..n : h[k] = IF k = a THEN c ELSE F[<<k, h[k - 1]>>]
    <3> HIDE DEF h
    <3> QED
      BY <2>1, <2>5
  <2>7. n + 1 \in a..(n + 1) => h[n + 1] = IF n + 1 = a THEN c ELSE F[<<n + 1, h[(n + 1) - 1]>>]
    OBVIOUS
  <2>8. h \in [a..(n + 1) -> V]
    BY <2>4
  <2>9. Right(h, n + 1)
    <3> HIDE DEF h
    <3> QED
      BY <2>3, <2>6, <2>7, <2>8
  <2> HIDE DEF h, Right
  <2>10. n + 1 \in Nat /\ \E e : Right(e, n + 1)
    BY <2>9
  <2> QED
    BY <2>10
<1>3. N \in SUBSET Nat
  OBVIOUS
<1> HIDE DEF N
<1>4. N = Nat
  BY <1>1, <1>2, <1>3, Induction
<1>5. PICK g : Right(g, b)
  BY <1>4 DEF N
<1> QED
  BY <1>5 DEF Stepwise

-----------------------------------------------------------------------------
(* Files and what is parsed of them.                                       *)

Places(file) == [root : Roots(file), path : Seq(Usages(file))]

\* The elements of a sequence are finitely many.
LEMMA FiniteToSet ==
    ASSUME NEW S, NEW t \in Seq(S)
    PROVE  /\ IsFiniteSet(ToSet(t)) /\ Cardinality(ToSet(t)) <= Len(t)
           /\ ToSet(t) \in SUBSET S
           /\ t # <<>> => t[1] \in ToSet(t)
<1>1. Len(t) \in Nat /\ DOMAIN t = 1..Len(t)
  OBVIOUS
<1>2. IsFiniteSet(1..Len(t)) /\ Cardinality(1..Len(t)) = Len(t)
  BY <1>1, FS_Interval
<1>3. ToSet(t) = {t[i] : i \in 1..Len(t)}
  BY <1>1 DEF ToSet
<1>4. IsFiniteSet({t[i] : i \in 1..Len(t)}) /\ Cardinality({t[i] : i \in 1..Len(t)}) <= Len(t)
  BY <1>2, FiniteImage
<1>5. t # <<>> => 1 \in 1..Len(t)
  BY <1>1, EmptySeq
<1> QED
  BY <1>3, <1>4, <1>5, ElementOfSeq

\* A file has roots, and each of them uses something.
LEMMA RootsAre ==
    ASSUME NEW file, IsFile(file)
    PROVE  /\ IsFiniteSet(Usages(file)) /\ IsFiniteSet(Roots(file)) /\ Roots(file) # {}
           /\ \A r \in Roots(file) : \E u \in Usages(file) : u.parent = r
<1> DEFINE b == [u \in Usages(file) |-> u.parent]
           parents == {u.parent : u \in Usages(file)}
<1>1. IsFiniteSet(Usages(file)) /\ file.usages[1] \in Usages(file)
  BY FiniteToSet DEF IsFile, Usages
<1>2. parents = {b[u] : u \in Usages(file)}
  OBVIOUS
<1>3. IsFiniteSet(parents)
  <2> HIDE DEF b, parents
  <2> QED
    BY <1>1, <1>2, FiniteImage
<1>4. Roots(file) \in SUBSET parents /\ Roots(file) # {}
  BY <1>1 DEF Roots
<1> QED
  BY <1>1, <1>3, <1>4, FS_Subset

\* An occurrence and a usage from it.
Below(o, u) == [o EXCEPT !.path = Append(@, u)]

\* The occurrence that a usage adds below another.
LEMMA BelowIs ==
    ASSUME NEW file, NEW o \in Places(file), NEW u \in Usages(file)
    PROVE  /\ Below(o, u) \in Places(file) /\ Below(o, u).path # <<>>
           /\ Below(o, u).root = o.root /\ Below(o, u).path = Append(o.path, u)
           /\ Depth(Below(o, u)) = Depth(o) + 1 /\ Depth(o) \in Nat
           /\ Last(Below(o, u).path) = u /\ ParentOf(Below(o, u)) = o /\ ProductOf(Below(o, u)) = u.child
<1> DEFINE p == Append(o.path, u)
<1>1. o.path \in Seq(Usages(file)) /\ Len(o.path) \in Nat
  BY DEF Places
<1>2. /\ p \in Seq(Usages(file)) /\ Len(p) = Len(o.path) + 1 /\ p # <<>>
      /\ p[Len(o.path) + 1] = u /\ \A i \in 1..Len(o.path) : p[i] = o.path[i]
  BY <1>1, AppendProperties
<1>3. Below(o, u) = [root |-> o.root, path |-> p]
  <2>1. PICK r, q : o = [root |-> r, path |-> q]
    BY DEF Places
  <2>2. Below(o, u) = [root |-> r, path |-> Append(q, u)]
    BY ONLY <2>1 DEF Below
  <2>3. o.root = r /\ o.path = q
    BY ONLY <2>1
  <2> QED
    BY ONLY <2>2, <2>3
<1>4. Last(p) = u
  BY <1>2 DEF Last
<1>5. Front(p) = o.path
  <2>1. Front(p) \in Seq(Usages(file)) /\ Len(Front(p)) = Len(p) - 1 /\ \A i \in 1..(Len(p) - 1) : Front(p)[i] = p[i]
    <3> HIDE DEF p
    <3> QED
      BY <1>2, FrontAndLast
  <2>2. Len(p) - 1 = Len(o.path)
    BY <1>1, <1>2
  <2> QED
    BY <1>1, <1>2, <2>1, <2>2, SeqEqual
<1> HIDE DEF p
<1>6. ParentOf(Below(o, u)) = o
  BY <1>2, <1>3, <1>5 DEF ParentOf, Places
<1> QED
  BY <1>1, <1>2, <1>3, <1>4, <1>6 DEF Places, Depth, ProductOf, p

-----------------------------------------------------------------------------
(* Occurrences, level by level.                                            *)

Grown(file, B) ==
    UNION {{Below(o, u) : u \in UsesIn(file, ProductOf(o))} : o \in {o \in B : Expanded(file, o)}}
AtRoots(file) == {OccursAtRoot(r) : r \in Roots(file)}
Levels(file) == 0..Len(file.products)
Grows(file, g) ==
    g = [n \in Levels(file) |-> IF n = 0 THEN AtRoots(file) ELSE Grown(file, g[n - 1])]

\* Occurrences are what has grown from the roots, level by level.
LEMMA OccurrencesGrow ==
    ASSUME NEW file
    PROVE  Occurrences(file) = LET g == CHOOSE h : Grows(file, h)
                               IN  UNION {g[n] : n \in Levels(file)}
BY DEF Occurrences, Grows, Grown, Below, AtRoots, Levels

\* What has grown in one more level.
LEMMA GrownIs ==
    ASSUME NEW file, NEW B \in SUBSET Places(file), NEW x
    PROVE  x \in Grown(file, B) <=>
               \E o \in B, u \in Usages(file) :
                   Expanded(file, o) /\ u.parent = ProductOf(o) /\ x = Below(o, u)
BY DEF Grown, UsesIn

\* The roots occur once each, with nothing above them.
LEMMA AtRootsIs ==
    ASSUME NEW file, IsFile(file)
    PROVE  /\ AtRoots(file) \in SUBSET Places(file) /\ IsFiniteSet(AtRoots(file))
           /\ \A o \in AtRoots(file) : o.path = <<>> /\ Depth(o) = 0
           /\ \A o \in Places(file) : o.path = <<>> => o \in AtRoots(file) /\ o = OccursAtRoot(o.root)
<1> DEFINE b == [r \in Roots(file) |-> OccursAtRoot(r)]
<1>1. <<>> \in Seq(Usages(file))
  BY EmptySeq
<1>2. AtRoots(file) \in SUBSET Places(file) /\ \A o \in AtRoots(file) : o.path = <<>> /\ Depth(o) = 0
  <2> SUFFICES ASSUME NEW r \in Roots(file)
               PROVE  /\ OccursAtRoot(r) \in Places(file) /\ OccursAtRoot(r).path = <<>>
                      /\ Depth(OccursAtRoot(r)) = 0
    BY DEF AtRoots
  <2>1. OccursAtRoot(r).path = <<>> /\ OccursAtRoot(r) \in Places(file)
    BY <1>1 DEF OccursAtRoot, Places
  <2> QED
    BY <2>1, EmptySeq DEF Depth
<1>3. IsFiniteSet(AtRoots(file))
  <2>1. AtRoots(file) = {b[r] : r \in Roots(file)}
    BY DEF AtRoots
  <2> HIDE DEF b
  <2> QED
    BY <2>1, RootsAre, FiniteImage
<1>4. \A o \in Places(file) : o.path = <<>> => o \in AtRoots(file) /\ o = OccursAtRoot(o.root)
  BY DEF AtRoots, OccursAtRoot, Places
<1> QED
  BY <1>2, <1>3, <1>4

\* A level grows into finitely many.
LEMMA GrownIsFinite ==
    ASSUME NEW file, IsFile(file), NEW B \in SUBSET Places(file), IsFiniteSet(B)
    PROVE  IsFiniteSet(Grown(file, B)) /\ Grown(file, B) \in SUBSET Places(file)
<1> DEFINE D == B \X Usages(file)
           b == [d \in D |-> Below(d[1], d[2])]
<1>1. IsFiniteSet(D)
  BY RootsAre, FS_Product
<1>2. IsFiniteSet({b[d] : d \in D})
  <2> HIDE DEF b, D
  <2> QED
    BY <1>1, FiniteImage
<1>3. Grown(file, B) \in SUBSET {b[d] : d \in D}
  <2> SUFFICES ASSUME NEW o \in B, NEW u \in Usages(file)
               PROVE  Below(o, u) \in {b[d] : d \in D}
    BY GrownIs
  <2>1. <<o, u>> \in D /\ b[<<o, u>>] = Below(o, u)
    OBVIOUS
  <2> HIDE DEF b, D
  <2> QED
    BY <2>1
<1>4. Grown(file, B) \in SUBSET Places(file)
  BY GrownIs, BelowIs
<1> HIDE DEF b, D
<1> QED
  BY <1>2, <1>3, <1>4, FS_Subset

\* The levels exist.
LEMMA GrowthExists ==
    ASSUME NEW file, IsFile(file)
    PROVE  \E g : Grows(file, g)
<1> DEFINE V == SUBSET Places(file)
           F == [x \in Nat \X V |-> Grown(file, x[2])]
           b == Len(file.products)
<1>1. \A B \in V : Grown(file, B) \in V
  BY GrownIs, BelowIs
<1>2. AtRoots(file) \in V /\ b \in Nat /\ F \in [Nat \X V -> V]
  BY <1>1, AtRootsIs DEF IsFile
<1>3. PICK g \in [0..b -> V] : \A n \in 0..b : g[n] = IF n = 0 THEN AtRoots(file) ELSE F[<<n, g[n - 1]>>]
  <2> DEFINE c == AtRoots(file)
  <2>1. 0 \in Nat /\ c \in V
    BY <1>2
  <2> HIDE DEF V, F, b, c
  <2>2. Stepwise(0, b, V, c, F)
    BY <1>2, <2>1, Recursion
  <2> QED
    BY <2>2 DEF Stepwise, c
<1>4. \A n \in 0..b : n # 0 => F[<<n, g[n - 1]>>] = Grown(file, g[n - 1])
  <2> TAKE n \in 0..b
  <2>1. n # 0 => n - 1 \in 0..b
    BY <1>2
  <2>2. n # 0 => g[n - 1] \in V
    BY <1>3, <2>1
  <2> HIDE DEF V
  <2> QED
    BY <2>2
<1>5. \A n \in 0..b : g[n] = IF n = 0 THEN AtRoots(file) ELSE Grown(file, g[n - 1])
  <2> HIDE DEF F, V
  <2> QED
    BY <1>3, <1>4
<1>6. g = [n \in 0..b |-> g[n]]
  BY <1>3
<1> HIDE DEF F, V
<1>7. g = [n \in 0..b |-> IF n = 0 THEN AtRoots(file) ELSE Grown(file, g[n - 1])]
  BY <1>5, <1>6
<1> QED
  BY <1>7 DEF Grows, Levels

\* A level has occurrences of its depth, each but the roots below an expanded one.
LEMMA LevelsAre ==
    ASSUME NEW file, IsFile(file), NEW g, Grows(file, g), NEW n \in Levels(file)
    PROVE  g[n] \in SUBSET Places(file) /\ IsFiniteSet(g[n]) /\ \A o \in g[n] : Depth(o) = n
<1> DEFINE Right(k) == g[k] \in SUBSET Places(file) /\ IsFiniteSet(g[k]) /\ \A o \in g[k] : Depth(o) = k
           S == {k \in Nat : k \in Levels(file) => Right(k)}
<1>1. Len(file.products) \in Nat
  BY DEF IsFile
<1>2. 0 \in S
  <2>1. 0 \in Levels(file) => g[0] = AtRoots(file)
    BY DEF Grows
  <2> QED
    BY <2>1, AtRootsIs
<1>3. ASSUME NEW k \in S
      PROVE  k + 1 \in S
  <2> SUFFICES ASSUME k + 1 \in Levels(file)
               PROVE  Right(k + 1)
    OBVIOUS
  <2>1. k \in Levels(file) /\ (k + 1) - 1 = k /\ k + 1 # 0
    BY <1>1 DEF Levels
  <2>2. g[k + 1] = Grown(file, g[k])
    BY <2>1 DEF Grows
  <2>3. Right(k)
    BY <2>1
  <2>4. IsFiniteSet(Grown(file, g[k])) /\ Grown(file, g[k]) \in SUBSET Places(file)
    BY <2>3, GrownIsFinite
  <2>5. \A x \in Grown(file, g[k]) : Depth(x) = k + 1
    <3> TAKE x \in Grown(file, g[k])
    <3>1. PICK o \in g[k], u \in Usages(file) : x = Below(o, u)
      BY <2>3, GrownIs
    <3> QED
      BY <2>3, <3>1, BelowIs
  <2> QED
    BY <2>2, <2>4, <2>5
<1>4. S \in SUBSET Nat
  OBVIOUS
<1> HIDE DEF S
<1>5. S = Nat
  BY <1>2, <1>3, <1>4, Induction
<1>6. n \in Nat
  BY <1>1 DEF Levels
<1> QED
  BY <1>5, <1>6 DEF S

\* Each occurrence is at a root, or at a usage from one that is expanded; and there is one
\* at each root, and at each usage from one that is expanded, as far down as there are products.
LEMMA OccurrencesAre ==
    ASSUME NEW file, IsFile(file), NEW Occ, Occ = Occurrences(file)
    PROVE  /\ Occ \in SUBSET Places(file) /\ IsFiniteSet(Occ)
           /\ \A o \in Occ : Depth(o) \in Levels(file)
           /\ AtRoots(file) \subseteq Occ
           /\ \A o \in Occ, u \in Usages(file) :
                  Expanded(file, o) /\ u.parent = ProductOf(o) /\ Depth(o) < Len(file.products) =>
                      Below(o, u) \in Occ
           /\ \A o \in Occ : o.path # <<>> =>
                  \E p \in Occ, u \in Usages(file) :
                      Expanded(file, p) /\ u.parent = ProductOf(p) /\ o = Below(p, u)
<1> DEFINE g == CHOOSE h : Grows(file, h)
           N == Levels(file)
<1>1. Occ = UNION {g[n] : n \in N}
  BY OccurrencesGrow
<1>2. Grows(file, g)
  BY GrowthExists
<1> HIDE DEF g
<1>3. \A n \in N : g[n] \in SUBSET Places(file) /\ IsFiniteSet(g[n]) /\ \A o \in g[n] : Depth(o) = n
  BY <1>2, LevelsAre
<1>4. Len(file.products) \in Nat
  BY DEF IsFile
<1>5. g[0] = AtRoots(file) /\ 0 \in N
  BY <1>2, <1>4 DEF Grows, Levels
<1>6. \A n \in N : n # 0 => n - 1 \in N /\ g[n] = Grown(file, g[n - 1])
  BY <1>2, <1>4 DEF Grows, Levels
<1>7. IsFiniteSet(Occ)
  <2> DEFINE b == [n \in N |-> g[n]]
             B == {b[n] : n \in N}
  <2>1. IsFiniteSet(N)
    BY <1>4, FS_Interval DEF Levels
  <2>2. IsFiniteSet(B) /\ \A T \in B : IsFiniteSet(T)
    <3>1. \A T \in B : IsFiniteSet(T)
      BY <1>3
    <3> HIDE DEF b
    <3>2. IsFiniteSet(B)
      BY <2>1, FiniteImage
    <3> QED
      BY <3>1, <3>2
  <2>3. Occ = UNION B
    BY <1>1
  <2> HIDE DEF B
  <2> QED
    BY <2>2, <2>3, FS_UNION
<1>8. \A o \in Occ : Depth(o) \in N /\ o \in g[Depth(o)] /\ o \in Places(file)
  BY <1>1, <1>3
<1>9. ASSUME NEW o \in Occ, NEW u \in Usages(file), Expanded(file, o), u.parent = ProductOf(o),
             Depth(o) < Len(file.products)
      PROVE  Below(o, u) \in Occ
  <2> DEFINE n == Depth(o) + 1
  <2>1. n \in N /\ n # 0 /\ n - 1 = Depth(o)
    BY <1>4, <1>8, <1>9 DEF Levels
  <2>2. g[n] = Grown(file, g[Depth(o)])
    BY <1>6, <2>1
  <2>3. Below(o, u) \in g[n]
    BY <1>3, <1>8, <1>9, <2>2, GrownIs
  <2> HIDE DEF n
  <2> QED
    BY <1>1, <2>1, <2>3
<1>10. ASSUME NEW o \in Occ, o.path # <<>>
       PROVE  \E p \in Occ, u \in Usages(file) : Expanded(file, p) /\ u.parent = ProductOf(p) /\ o = Below(p, u)
  <2> DEFINE n == Depth(o)
  <2>1. n \in N /\ o \in g[n]
    BY <1>8
  <2>2. n # 0
    BY <1>5, <1>10, <2>1, AtRootsIs
  <2>3. n - 1 \in N /\ g[n] = Grown(file, g[n - 1])
    BY <1>6, <2>1, <2>2
  <2>4. PICK p \in g[n - 1], u \in Usages(file) : Expanded(file, p) /\ u.parent = ProductOf(p) /\ o = Below(p, u)
    BY <1>3, <2>1, <2>3, GrownIs
  <2>5. p \in Occ
    BY <1>1, <2>3
  <2> QED
    BY <2>4, <2>5
<1> QED
  BY <1>1, <1>5, <1>7, <1>8, <1>9, <1>10

Leaves(file) == {o \in Occurrences(file) : ~IsAssembly(file, o)}
Assemblies(file) == Occurrences(file) \ Leaves(file)

\* What a file with usages is parsed to.
LEMMA ParsedIs ==
    ASSUME NEW file, IsFile(file), NEW s, s = Parsed(file)
    PROVE  /\ s.nodes = {Node(file, o) : o \in Assemblies(file)}
           /\ s.parts = {Part(file, ProductOf(o)) : o \in Leaves(file)}
           /\ s.instances = {Instance(file, o) : o \in Leaves(file)}
BY DEF Parsed, Structured, Assemblies, Leaves, IsFile

\* The parent of an occurrence is an assembly.
LEMMA ParentOccurs ==
    ASSUME NEW file, IsFile(file), NEW o \in Occurrences(file), o.path # <<>>
    PROVE  /\ ParentOf(o) \in Assemblies(file) /\ ParentOf(o) # Nil
           /\ Expanded(file, ParentOf(o))
           /\ Last(o.path) \in Usages(file) /\ Last(o.path).parent = ProductOf(ParentOf(o))
           /\ ProductOf(o) = Last(o.path).child
           /\ o = Below(ParentOf(o), Last(o.path))
<1>1. PICK p \in Occurrences(file), u \in Usages(file) :
          Expanded(file, p) /\ u.parent = ProductOf(p) /\ o = Below(p, u)
  BY OccurrencesAre
<1>2. ParentOf(o) = p /\ Last(o.path) = u /\ ProductOf(o) = u.child
  BY <1>1, OccurrencesAre, BelowIs
<1>3. p \in Assemblies(file) /\ p # Nil
  BY <1>1 DEF Expanded, Assemblies, Leaves, IsFile
<1> QED
  BY <1>1, <1>2, <1>3

\* Roots are nodes.
LEMMA RootsAreAssemblies ==
    ASSUME NEW file, IsFile(file), NEW o \in Occurrences(file), o.path = <<>>
    PROVE  o \in Assemblies(file) /\ ParentOf(o) = Nil /\ o = OccursAtRoot(o.root) /\ o.root \in Roots(file)
<1>1. o \in Places(file)
  BY OccurrencesAre
<1>2. o.root \in Roots(file) /\ o = OccursAtRoot(o.root) /\ ProductOf(o) = o.root
  BY <1>1, AtRootsIs DEF Places, ProductOf
<1>3. UsesIn(file, o.root) # {}
  BY <1>2, RootsAre DEF UsesIn
<1> QED
  BY <1>2, <1>3 DEF Assemblies, Leaves, IsAssembly, ParentOf

-----------------------------------------------------------------------------
(* Quantities.                                                             *)

Multiplies(path, f) ==
    f = [n \in 0..Len(path) |-> IF n = 0 THEN 1 ELSE f[n - 1] * path[n].quantity]

\* A quantity is what multiplying along the path gives.
LEMMA QuantityChosen ==
    ASSUME NEW o
    PROVE  QuantityOf(o) = (CHOOSE f : Multiplies(o.path, f))[Len(o.path)]
BY DEF QuantityOf, Multiplies

Counted(U) == \A u \in U : u.quantity \in Nat \ {0}

\* The products along a path exist.
LEMMA MultiplesExist ==
    ASSUME NEW U, Counted(U), NEW path \in Seq(U)
    PROVE  \E f : Multiplies(path, f)
<1> DEFINE b == Len(path)
           F == [x \in Nat \X Nat |-> IF x[1] \in 1..b THEN x[2] * path[x[1]].quantity ELSE 0]
<1>1. b \in Nat /\ 0 \in Nat /\ 1 \in Nat
  OBVIOUS
<1>2. \A n \in 1..b : path[n].quantity \in Nat
  BY ElementOfSeq DEF Counted
<1>3. F \in [Nat \X Nat -> Nat]
  <2>1. \A x \in Nat \X Nat : (IF x[1] \in 1..b THEN x[2] * path[x[1]].quantity ELSE 0) \in Nat
    BY <1>2
  <2> QED
    BY <2>1
<1>4. \A n \in 0..b : \A k \in Nat : n # 0 => F[<<n, k>>] = k * path[n].quantity
  BY <1>1
<1> HIDE DEF F
<1>5. Stepwise(0, b, Nat, 1, F)
  BY <1>1, <1>3, Recursion
<1>6. PICK g \in [0..b -> Nat] : \A n \in 0..b : g[n] = IF n = 0 THEN 1 ELSE F[<<n, g[n - 1]>>]
  BY <1>5 DEF Stepwise
<1>7. \A n \in 0..b : n # 0 => g[n - 1] \in Nat
  BY <1>1, <1>6
<1>8. \A n \in 0..b : g[n] = IF n = 0 THEN 1 ELSE g[n - 1] * path[n].quantity
  BY <1>4, <1>6, <1>7
<1>9. g = [n \in 0..b |-> IF n = 0 THEN 1 ELSE g[n - 1] * path[n].quantity]
  <2>1. g = [n \in 0..b |-> g[n]]
    BY <1>6
  <2> QED
    BY <1>8, <2>1
<1> QED
  BY <1>9 DEF Multiplies

\* Paths that begin alike multiply alike.
LEMMA MultiplesAgree ==
    ASSUME NEW p, NEW q, Len(p) \in Nat, Len(q) \in Nat, Len(p) <= Len(q),
           \A i \in 1..Len(p) : p[i] = q[i],
           NEW f, NEW g, Multiplies(p, f), Multiplies(q, g)
    PROVE  f[Len(p)] = g[Len(p)]
<1> DEFINE S == {n \in Nat : n <= Len(p) => f[n] = g[n]}
<1>1. 0 \in S
  BY DEF Multiplies
<1>2. ASSUME NEW n \in S
      PROVE  n + 1 \in S
  <2> SUFFICES ASSUME n + 1 <= Len(p)
               PROVE  f[n + 1] = g[n + 1]
    OBVIOUS
  <2>1. n + 1 \in 0..Len(p) /\ n + 1 \in 0..Len(q) /\ n + 1 \in 1..Len(p) /\ n + 1 # 0 /\ (n + 1) - 1 = n
    OBVIOUS
  <2>2. f[n] = g[n]
    OBVIOUS
  <2>3. f[n + 1] = f[n] * p[n + 1].quantity /\ g[n + 1] = g[n] * q[n + 1].quantity
    BY <2>1 DEF Multiplies
  <2> QED
    BY <2>1, <2>2, <2>3
<1>3. S \in SUBSET Nat
  OBVIOUS
<1> HIDE DEF S
<1>4. S = Nat
  BY <1>1, <1>2, <1>3, Induction
<1> QED
  BY <1>4 DEF S

\* The quantity below an occurrence is multiplied by that of the usage.
LEMMA Quantities ==
    ASSUME NEW file, IsFile(file)
    PROVE  /\ \A o \in AtRoots(file) : QuantityOf(o) = 1
           /\ \A o \in Places(file), u \in Usages(file) :
                  /\ QuantityOf(Below(o, u)) = QuantityOf(o) * u.quantity
<1>1. Counted(Usages(file))
  BY DEF IsFile, Counted
<1>2. \A o \in Places(file) :
          /\ o.path \in Seq(Usages(file)) /\ Len(o.path) \in Nat
          /\ \E f : Multiplies(o.path, f) /\ QuantityOf(o) = f[Len(o.path)]
  <2> TAKE o \in Places(file)
  <2>1. o.path \in Seq(Usages(file))
    BY DEF Places
  <2> DEFINE g == CHOOSE f : Multiplies(o.path, f)
  <2>2. Multiplies(o.path, g)
    BY <1>1, <2>1, MultiplesExist
  <2>3. QuantityOf(o) = g[Len(o.path)]
    BY QuantityChosen
  <2> HIDE DEF g
  <2> QED
    BY <2>1, <2>2, <2>3
<1>3. ASSUME NEW o \in AtRoots(file)
      PROVE  QuantityOf(o) = 1
  <2>1. o \in Places(file) /\ Len(o.path) = 0
    BY AtRootsIs DEF Depth
  <2> QED
    BY <1>2, <2>1 DEF Multiplies
<1>4. ASSUME NEW o \in Places(file), NEW u \in Usages(file)
      PROVE  QuantityOf(Below(o, u)) = QuantityOf(o) * u.quantity
  <2> DEFINE q == Append(o.path, u)
             p == o.path
             n == Len(p)
  <2>1. Below(o, u) \in Places(file) /\ Below(o, u).path = q
    BY BelowIs
  <2>2. n \in Nat /\ Len(q) = n + 1 /\ q[n + 1] = u /\ \A i \in 1..n : p[i] = q[i]
    <3>1. p \in Seq(Usages(file))
      BY DEF Places
    <3> QED
      BY <3>1, AppendProperties
  <2>3. PICK f : Multiplies(p, f) /\ QuantityOf(o) = f[n]
    BY <1>2
  <2>4. PICK g : Multiplies(q, g) /\ QuantityOf(Below(o, u)) = g[n + 1]
    BY <1>2, <2>1, <2>2
  <2> HIDE DEF q, p, n
  <2>5. f[n] = g[n]
    <3>1. Len(p) = n
      BY DEF n
    <3> QED
      BY <2>2, <2>3, <2>4, <3>1, MultiplesAgree
  <2>6. g[n + 1] = g[n] * u.quantity
    <3>1. n + 1 \in 0..Len(q) /\ n + 1 # 0 /\ (n + 1) - 1 = n
      BY <2>2
    <3> QED
      BY <2>2, <2>4, <3>1 DEF Multiplies
  <2> QED
    BY <2>3, <2>4, <2>5, <2>6
<1> QED
  BY <1>3, <1>4

\* Quantities are naturals, and not 0.
LEMMA QuantityType ==
    ASSUME NEW file, IsFile(file), NEW o \in Occurrences(file)
    PROVE  QuantityOf(o) \in Nat \ {0}
<1> DEFINE S == {n \in Nat : \A p \in Occurrences(file) : Depth(p) = n => QuantityOf(p) \in Nat \ {0}}
<1>1. 0 \in S
  <2> SUFFICES ASSUME NEW p \in Occurrences(file), Depth(p) = 0
               PROVE  QuantityOf(p) \in Nat \ {0}
    OBVIOUS
  <2>1. p \in Places(file) /\ p.path \in Seq(Usages(file))
    BY OccurrencesAre DEF Places
  <2>2. p.path = <<>>
    BY <2>1, EmptySeq DEF Depth
  <2> QED
    BY <2>1, <2>2, AtRootsIs, Quantities
<1>2. ASSUME NEW n \in S
      PROVE  n + 1 \in S
  <2> SUFFICES ASSUME NEW p \in Occurrences(file), Depth(p) = n + 1
               PROVE  QuantityOf(p) \in Nat \ {0}
    OBVIOUS
  <2>1. p.path # <<>>
    BY EmptySeq DEF Depth
  <2>2. PICK q \in Occurrences(file), u \in Usages(file) : p = Below(q, u)
    BY <2>1, OccurrencesAre
  <2>3. q \in Places(file) /\ Depth(q) = n
    <3>1. q \in Places(file)
      BY OccurrencesAre
    <3>2. Depth(p) = Depth(q) + 1 /\ Depth(q) \in Nat
      BY <2>2, <3>1, BelowIs
    <3> QED
      BY <3>1, <3>2
  <2>4. QuantityOf(q) \in Nat \ {0} /\ u.quantity \in Nat \ {0}
    BY <2>3 DEF IsFile
  <2>5. QuantityOf(p) = QuantityOf(q) * u.quantity
    BY <2>2, <2>3, Quantities
  <2> QED
    BY <2>4, <2>5
<1>3. S \in SUBSET Nat
  OBVIOUS
<1> HIDE DEF S
<1>4. S = Nat
  BY <1>1, <1>2, <1>3, Induction
<1>5. Depth(o) \in Nat
  BY OccurrencesAre DEF Levels, IsFile
<1> QED
  BY <1>4, <1>5 DEF S

-----------------------------------------------------------------------------
(* What is parsed is a tree, and a snapshot.                               *)

\* What is parsed is a tree of occurrences.
LEMMA ParsedIsTree ==
    ASSUME NEW file, IsFile(file)
    PROVE  IsTree(Parsed(file), Roots(file), Usages(file))
<1> DEFINE s == Parsed(file)
           P == Roots(file)
           U == Usages(file)
           Occ == Occurrences(file)
           N == Assemblies(file)
           L == Leaves(file)
           node == [o \in N |-> Node(file, o)]
           instance == [o \in L |-> Instance(file, o)]
<1>1. /\ s.nodes = {node[o] : o \in N} /\ s.instances = {instance[o] : o \in L}
  BY ParsedIs
<1>2. N \in SUBSET Occ /\ L \in SUBSET Occ /\ N \cap L = {} /\ Occ = N \cup L /\ IsFiniteSet(Occ)
  BY OccurrencesAre DEF Assemblies, Leaves
<1>3. \A o \in N : node[o].id = o /\ node[o].parent = ParentOf(o)
  BY DEF Node
<1>4. \A o \in L : instance[o].id = o /\ instance[o].parent = ParentOf(o) /\ instance[o].quantity = QuantityOf(o)
  BY DEF Instance
<1>5. IsFiniteSet(N) /\ IsFiniteSet(L)
  BY <1>2, FS_Subset
<1>6. \A o \in Occ : o \in [root : P, path : Seq(U)] /\ o # Nil
  BY OccurrencesAre DEF Places, IsFile
<1>7. \A o \in Occ : o.path # <<>> => ParentOf(o) \in N /\ ParentOf(o) # Nil
  BY ParentOccurs
<1>8. \A o \in Occ : o.path = <<>> => ParentOf(o) = Nil
  BY DEF ParentOf
<1>9. \A o \in L : QuantityOf(o) \in Nat \ {0}
  BY <1>2, QuantityType
<1> HIDE DEF s, P, U, Occ, N, L, node, instance
<1>10. IsFiniteSet(s.nodes) /\ IsFiniteSet(s.instances)
  BY <1>1, <1>5, FiniteImage
<1>11. \A x \in s.nodes : x.id \in N /\ x = node[x.id] /\ x.parent = ParentOf(x.id)
  BY <1>1, <1>3
<1>12. \A x \in s.instances : x.id \in L /\ x = instance[x.id] /\ x.parent = ParentOf(x.id) /\ x.quantity \in Nat \ {0}
  BY <1>1, <1>4, <1>9
<1>13. IdsOf(s.nodes) = N /\ IdsOf(s.instances) = L
  BY <1>1, <1>3, <1>4 DEF IdsOf
<1>14. \A x \in s.nodes \cup s.instances : x.id \in Occ /\ x.parent = ParentOf(x.id)
  BY <1>2, <1>11, <1>12
<1>15. \A x \in s.nodes \cup s.instances :
        /\ x.id \in [root : P, path : Seq(U)] /\ x.id # Nil
        /\ x.parent = ParentOf(x.id)
        /\ x.parent = Nil <=> x.id.path = <<>>
        /\ x.parent # Nil => x.parent \in IdsOf(s.nodes)
  BY <1>6, <1>7, <1>8, <1>13, <1>14
<1>16. IdsOf(s.nodes) \cap IdsOf(s.instances) = {}
  BY <1>2, <1>13
<1>17. IsTree(s, P, U)
  BY <1>10, <1>11, <1>12, <1>15, <1>16 DEF IsTree
<1> QED
  BY <1>17 DEF s, P, U

\* The signature of an occurrence is that of its parent and a segment.
LEMMA SignatureOf ==
    ASSUME NEW file, NEW o \in Places(file)
    PROVE  /\ Len(InstancePath(file, o)) = Depth(o) + 1 /\ Depth(o) \in Nat
           /\ InstancePath(file, o)[1] = <<file.name[o.root], Nil>>
           /\ \A i \in 1..Depth(o) : InstancePath(file, o)[i + 1] = Segment(file, o.path[i])
           /\ InstancePath(file, o) \in Seq({InstancePath(file, o)[i] : i \in 1..(Depth(o) + 1)})
<1> DEFINE a == <<<<file.name[o.root], Nil>>>>
           b == [i \in DOMAIN o.path |-> Segment(file, o.path[i])]
           n == Len(o.path)
           R == {a[1]} \cup {b[i] : i \in 1..n}
<1>1. n \in Nat /\ DOMAIN o.path = 1..n
  BY DEF Places
<1>2. a \in Seq(R) /\ Len(a) = 1
  OBVIOUS
<1>3. b \in Seq(R) /\ Len(b) = n /\ \A i \in 1..n : b[i] = Segment(file, o.path[i])
  <2>1. b = [i \in 1..n |-> Segment(file, o.path[i])]
    BY <1>1
  <2>2. \A i \in 1..n : b[i] \in R
    BY <1>1
  <2>3. \A i \in 1..n : b[i] = Segment(file, o.path[i])
    BY <2>1
  <2>4. DOMAIN b = 1..n /\ b = [i \in 1..n |-> b[i]]
    BY <2>1
  <2> HIDE DEF R, b
  <2>5. b \in [1..n -> R]
    BY <2>2, <2>4
  <2>6. b \in Seq(R)
    BY <1>1, <2>5
  <2>7. Len(b) = n
    BY <1>1, <2>4, <2>6
  <2> QED
    BY <2>3, <2>6, <2>7
<1>4. InstancePath(file, o) = a \o b
  BY DEF InstancePath
<1> HIDE DEF b, R
<1> DEFINE t == a \o b
<1>5. /\ t \in Seq(R) /\ Len(t) = n + 1 /\ \A i \in 1..(n + 1) : t[i] = IF i <= 1 THEN a[i] ELSE b[i - 1]
  BY <1>1, <1>2, <1>3, ConcatProperties
<1>6. t[1] = a[1] /\ \A i \in 1..n : t[i + 1] = b[i]
  BY <1>1, <1>5
<1>7. a[1] = <<file.name[o.root], Nil>>
  OBVIOUS
<1> HIDE DEF a, t
<1>8. t \in Seq({t[i] : i \in 1..(n + 1)})
  <2>1. t = [i \in 1..(n + 1) |-> t[i]]
    BY <1>1, <1>5
  <2> QED
    BY <1>1, <2>1, IsASeq
<1>9. \A i \in 1..n : t[i + 1] = Segment(file, o.path[i])
  BY <1>3, <1>6
<1>10. InstancePath(file, o) = t /\ Depth(o) = n
  BY <1>4 DEF t, Depth
<1> HIDE DEF n
<1> QED
  BY <1>1, <1>5, <1>6, <1>7, <1>8, <1>9, <1>10

\* The parent of an occurrence has its path but for the last usage.
LEMMA ParentPath ==
    ASSUME NEW file, NEW o \in Places(file), o.path # <<>>, NEW n, n = Depth(o)
    PROVE  /\ n \in Nat \ {0} /\ Last(o.path) = o.path[n]
           /\ ParentOf(o) \in Places(file) /\ ParentOf(o).root = o.root /\ Depth(ParentOf(o)) = n - 1
           /\ \A i \in 1..(n - 1) : ParentOf(o).path[i] = o.path[i]
<1> DEFINE t == o.path
<1>1. t \in Seq(Usages(file)) /\ t # <<>> /\ Len(t) = n
  BY DEF Places, Depth
<1>2. ParentOf(o) = [root |-> o.root, path |-> Front(t)]
  BY DEF ParentOf, Places
<1>3. /\ Len(t) \in Nat \ {0} /\ Front(t) \in Seq(Usages(file)) /\ Len(Front(t)) = Len(t) - 1
      /\ \A i \in 1..(Len(t) - 1) : Front(t)[i] = t[i]
      /\ Last(t) = t[Len(t)]
  <2> HIDE DEF t
  <2> QED
    BY <1>1, FrontAndLast
<1>4. o.root \in Roots(file)
  BY DEF Places
<1> HIDE DEF t
<1>5. /\ ParentOf(o) \in Places(file) /\ ParentOf(o).root = o.root /\ ParentOf(o).path = Front(t)
  BY <1>2, <1>3, <1>4 DEF Places
<1> QED
  BY <1>1, <1>3, <1>5 DEF Depth, t

\* What has one signature hangs under one signature.
LEMMA SameSignatureAbove ==
    ASSUME NEW file, IsFile(file), NEW o \in Occurrences(file), NEW p \in Occurrences(file),
           InstancePath(file, o) = InstancePath(file, p)
    PROVE  /\ Depth(o) = Depth(p) /\ file.name[o.root] = file.name[p.root]
           /\ o.path = <<>> <=> p.path = <<>>
           /\ o.path # <<>> =>
                  /\ InstancePath(file, ParentOf(o)) = InstancePath(file, ParentOf(p))
                  /\ Segment(file, Last(o.path)) = Segment(file, Last(p.path))
<1>1. o \in Places(file) /\ p \in Places(file)
  BY OccurrencesAre
<1>2. Depth(o) = Depth(p) /\ Depth(o) \in Nat
  <2>1. Len(InstancePath(file, o)) = Depth(o) + 1 /\ Len(InstancePath(file, p)) = Depth(p) + 1
    BY <1>1, SignatureOf
  <2>2. Depth(o) \in Nat /\ Depth(p) \in Nat
    BY <1>1, SignatureOf
  <2> QED
    BY <2>1, <2>2
<1>3. file.name[o.root] = file.name[p.root]
  <2>1. <<file.name[o.root], Nil>> = <<file.name[p.root], Nil>>
    BY <1>1, SignatureOf
  <2> QED
    BY <2>1
<1>4. o.path \in Seq(Usages(file)) /\ p.path \in Seq(Usages(file))
  BY <1>1 DEF Places
<1>5. o.path = <<>> <=> p.path = <<>>
  BY <1>2, <1>4, EmptySeq DEF Depth
<1>6. ASSUME o.path # <<>>
      PROVE  /\ InstancePath(file, ParentOf(o)) = InstancePath(file, ParentOf(p))
             /\ Segment(file, Last(o.path)) = Segment(file, Last(p.path))
  <2> DEFINE n == Depth(o)
             a == ParentOf(o)
             b == ParentOf(p)
             sig(x) == InstancePath(file, x)
  <2>1. a \in Occurrences(file) /\ b \in Occurrences(file)
    BY <1>5, <1>6, ParentOccurs DEF Assemblies
  <2>2. a \in Places(file) /\ b \in Places(file)
    BY <2>1, OccurrencesAre
  <2>3. /\ Depth(a) = n - 1 /\ a.root = o.root /\ \A i \in 1..(n - 1) : a.path[i] = o.path[i]
        /\ Depth(b) = n - 1 /\ b.root = p.root /\ \A i \in 1..(n - 1) : b.path[i] = p.path[i]
        /\ n \in Nat \ {0} /\ Last(o.path) = o.path[n] /\ Last(p.path) = p.path[n]
    <3>1. /\ Depth(a) = n - 1 /\ a.root = o.root /\ \A i \in 1..(n - 1) : a.path[i] = o.path[i]
          /\ n \in Nat \ {0} /\ Last(o.path) = o.path[n]
      BY <1>1, <1>6, ParentPath
    <3>2. /\ Depth(b) = n - 1 /\ b.root = p.root /\ \A i \in 1..(n - 1) : b.path[i] = p.path[i]
          /\ Last(p.path) = p.path[n]
      <4>1. p.path # <<>>
        BY <1>5, <1>6
      <4>2. /\ Depth(b) = Depth(p) - 1 /\ b.root = p.root
            /\ \A i \in 1..(Depth(p) - 1) : b.path[i] = p.path[i]
            /\ Last(p.path) = p.path[Depth(p)]
        BY <1>1, <4>1, ParentPath
      <4> QED
        BY <1>2, <4>2
    <3> QED
      BY <3>1, <3>2
  <2>4. \A i \in 1..n : Segment(file, o.path[i]) = Segment(file, p.path[i])
    <3> TAKE i \in 1..n
    <3>1. sig(o)[i + 1] = Segment(file, o.path[i]) /\ sig(p)[i + 1] = Segment(file, p.path[i])
      BY <1>1, <1>2, SignatureOf
    <3> QED
      BY <3>1
  <2>5. /\ Len(sig(a)) = n /\ Len(sig(b)) = n
        /\ \A i \in 1..n : sig(a)[i] = sig(b)[i]
    <3>1. Len(sig(a)) = n /\ Len(sig(b)) = n
      <4>1. Len(sig(a)) = Depth(a) + 1 /\ Len(sig(b)) = Depth(b) + 1
        BY <2>2, SignatureOf
      <4>2. Depth(a) + 1 = n /\ Depth(b) + 1 = n
        BY <2>3
      <4> QED
        BY <4>1, <4>2
    <3>2. sig(a)[1] = sig(b)[1]
      <4>1. sig(a)[1] = <<file.name[a.root], Nil>> /\ sig(b)[1] = <<file.name[b.root], Nil>>
        BY <2>2, SignatureOf
      <4> QED
        BY <1>3, <2>3, <4>1
    <3>3. \A i \in 1..(n - 1) : sig(a)[i + 1] = sig(b)[i + 1]
      <4> TAKE i \in 1..(n - 1)
      <4>1. sig(a)[i + 1] = Segment(file, a.path[i]) /\ sig(b)[i + 1] = Segment(file, b.path[i])
        <5>1. i \in 1..Depth(a) /\ i \in 1..Depth(b)
          BY <2>3
        <5> QED
          BY <2>2, <5>1, SignatureOf
      <4> QED
        BY <2>3, <2>4, <4>1
    <3>4. \A i \in 1..n : i = 1 \/ (i - 1 \in 1..(n - 1) /\ i = (i - 1) + 1)
      BY <2>3
    <3> HIDE DEF sig, n, a, b
    <3> QED
      BY <3>1, <3>2, <3>3, <3>4
  <2>6. /\ sig(a) \in Seq({sig(a)[i] : i \in 1..n}) /\ sig(b) \in Seq({sig(b)[i] : i \in 1..n})
    <3>1. Depth(a) + 1 = n /\ Depth(b) + 1 = n
      BY <2>3
    <3> QED
      BY <2>2, <3>1, SignatureOf
  <2>7. sig(a) = sig(b)
    <3> HIDE DEF sig, n, a, b
    <3>1. {sig(a)[i] : i \in 1..n} = {sig(b)[i] : i \in 1..n}
      BY <2>5
    <3> QED
      BY <2>5, <2>6, <3>1, SeqEqual
  <2> QED
    BY <2>3, <2>4, <2>7
<1> QED
  BY <1>2, <1>3, <1>5, <1>6

\* Siblings are told apart.
LEMMA SegmentsDiffer ==
    ASSUME NEW file, IsFile(file), NEW u \in Usages(file), NEW v \in Usages(file), u.parent = v.parent,
           Segment(file, u) = Segment(file, v)
    PROVE  u = v
<1> DEFINE alike(x) == {w \in UsesIn(file, x.parent) : NameOf(file, w) = NameOf(file, x)}
<1>1. NameOf(file, u) = NameOf(file, v)
  BY DEF Segment
<1>2. (IF alike(u) = {u} THEN Nil ELSE u.id) = (IF alike(v) = {v} THEN Nil ELSE v.id)
  BY DEF Segment
<1>3. u \in alike(u) /\ v \in alike(u) /\ alike(u) = alike(v)
  BY <1>1 DEF UsesIn
<1> QED
  BY <1>2, <1>3 DEF IsFile

\* Where no roots share a name, occurrences differ in signature.
LEMMA SignaturesDiffer ==
    ASSUME NEW file, IsFile(file), \A q, r \in Roots(file) : file.name[q] = file.name[r] => q = r,
           NEW o \in Occurrences(file), NEW p \in Occurrences(file),
           InstancePath(file, o) = InstancePath(file, p)
    PROVE  o = p
<1> DEFINE Occ == Occurrences(file)
           S == {n \in Nat : \A x, y \in Occ :
                    Depth(x) = n /\ InstancePath(file, x) = InstancePath(file, y) => x = y}
<1>1. \A x \in Occ : x \in Places(file) /\ Depth(x) \in Nat
  BY OccurrencesAre DEF Levels, IsFile
<1>2. \A x \in Occ : Depth(x) = 0 <=> x.path = <<>>
  BY <1>1, EmptySeq DEF Depth, Places
<1>3. 0 \in S
  <2> SUFFICES ASSUME NEW x \in Occ, NEW y \in Occ, Depth(x) = 0, InstancePath(file, x) = InstancePath(file, y)
               PROVE  x = y
    OBVIOUS
  <2>1. x.path = <<>> /\ y.path = <<>> /\ file.name[x.root] = file.name[y.root]
    BY <1>2, SameSignatureAbove
  <2>2. x.root \in Roots(file) /\ y.root \in Roots(file) /\ x = OccursAtRoot(x.root) /\ y = OccursAtRoot(y.root)
    BY <2>1, RootsAreAssemblies
  <2> QED
    BY <2>1, <2>2
<1>4. ASSUME NEW n \in S
      PROVE  n + 1 \in S
  <2> SUFFICES ASSUME NEW x \in Occ, NEW y \in Occ, Depth(x) = n + 1, InstancePath(file, x) = InstancePath(file, y)
               PROVE  x = y
    OBVIOUS
  <2>1. x.path # <<>> /\ y.path # <<>>
    BY <1>2, SameSignatureAbove
  <2> DEFINE a == ParentOf(x)
             b == ParentOf(y)
             u == Last(x.path)
             v == Last(y.path)
  <2>2. /\ a \in Occ /\ b \in Occ /\ u \in Usages(file) /\ v \in Usages(file)
        /\ u.parent = ProductOf(a) /\ v.parent = ProductOf(b) /\ x = Below(a, u) /\ y = Below(b, v)
    BY <2>1, ParentOccurs DEF Assemblies
  <2>3. InstancePath(file, a) = InstancePath(file, b) /\ Segment(file, u) = Segment(file, v)
    BY <2>1, SameSignatureAbove
  <2> HIDE DEF a, b, u, v
  <2>4. Depth(a) = n
    BY <1>1, <2>2, BelowIs
  <2>5. a = b
    BY <2>2, <2>3, <2>4
  <2>6. u = v
    BY <2>2, <2>3, <2>5, SegmentsDiffer
  <2> QED
    BY <2>2, <2>5, <2>6
<1>5. S \in SUBSET Nat
  OBVIOUS
<1> HIDE DEF S
<1>6. S = Nat
  BY <1>3, <1>4, <1>5, Induction
<1>7. Depth(o) \in S
  BY <1>1, <1>6
<1> QED
  BY <1>7 DEF S

\* The signature of a parent is the path of names to it.
LEMMA ParentSigIs ==
    ASSUME NEW file, IsFile(file), NEW o \in Occurrences(file), NEW x, x.parent = ParentOf(o)
    PROVE  ParentSig(Parsed(file), x) = IF o.path = <<>> THEN Nil ELSE InstancePath(file, ParentOf(o))
<1>1. CASE o.path = <<>>
  BY <1>1 DEF ParentSig, SigOf, ParentOf
<1>2. CASE o.path # <<>>
  <2> DEFINE p == ParentOf(o)
             nodes == Parsed(file).nodes
  <2>1. p \in Assemblies(file) /\ p # Nil
    BY <1>2, ParentOccurs
  <2>2. Node(file, p) \in nodes
    BY <2>1, ParsedIs
  <2>3. \A n \in nodes : n.id = p => n.sig = InstancePath(file, p)
    BY ParsedIs DEF Node
  <2>4. Node(file, p).id = p
    BY DEF Node
  <2> HIDE DEF p
  <2>5. x.parent = p
    BY DEF p
  <2>6. (CHOOSE n \in nodes : n.id = p).sig = InstancePath(file, p)
    BY <2>2, <2>3, <2>4
  <2> QED
    BY <1>2, <2>1, <2>5, <2>6 DEF ParentSig, SigOf, p
<1> QED
  BY <1>1, <1>2

\* What is parsed is a snapshot as diffs take it: one signature hangs in one place.
LEMMA ParsedIsSnapshot ==
    ASSUME NEW file, IsFile(file)
    PROVE  IsSnapshot(Parsed(file))
<1> DEFINE s == Parsed(file)
<1>1. IsFiniteSet(s.instances) /\ \A i \in s.instances : i.quantity \in Nat \ {0}
  BY ParsedIsTree DEF IsTree
<1>2. \A kind \in Placed : \A x \in s[kind] :
          \E o \in Occurrences(file) : x.sig = InstancePath(file, o) /\ x.parent = ParentOf(o)
  <2>1. \A x \in s.nodes : \E o \in Occurrences(file) : x.sig = InstancePath(file, o) /\ x.parent = ParentOf(o)
    BY ParsedIs DEF Node, Assemblies
  <2>2. \A x \in s.instances : \E o \in Occurrences(file) : x.sig = InstancePath(file, o) /\ x.parent = ParentOf(o)
    BY ParsedIs DEF Instance, Leaves
  <2> HIDE DEF s
  <2> QED
    BY <2>1, <2>2 DEF Placed
<1>3. ASSUME NEW kind \in Placed, NEW x \in s[kind], NEW y \in s[kind], x.sig = y.sig
      PROVE  ParentSig(s, x) = ParentSig(s, y)
  <2>1. PICK o \in Occurrences(file) : x.sig = InstancePath(file, o) /\ x.parent = ParentOf(o)
    BY <1>2
  <2>2. PICK p \in Occurrences(file) : y.sig = InstancePath(file, p) /\ y.parent = ParentOf(p)
    BY <1>2
  <2>3. /\ o.path = <<>> <=> p.path = <<>>
        /\ o.path # <<>> => InstancePath(file, ParentOf(o)) = InstancePath(file, ParentOf(p))
    BY <1>3, <2>1, <2>2, SameSignatureAbove
  <2> QED
    BY <2>1, <2>2, <2>3, ParentSigIs
<1> QED
  BY <1>1, <1>3 DEF IsSnapshot

-----------------------------------------------------------------------------
(* The tree that is shown.                                                 *)

\* No node is deeper than there are nodes.
LEMMA DepthBelowCount ==
    ASSUME NEW s, NEW P, NEW U, IsTree(s, P, U), NEW n \in s.nodes
    PROVE  Depth(n.id) \in Nat /\ Depth(n.id) < Cardinality(s.nodes)
<1> DEFINE b == [x \in s.nodes |-> Depth(x.id)]
           D == {b[x] : x \in s.nodes}
           d == Depth(n.id)
           S == {k \in Nat : k <= d => d - k \in D}
<1>1. \A x \in s.nodes : x.id \in [root : P, path : Seq(U)] /\ Depth(x.id) \in Nat
  BY DEF IsTree, Depth
<1>2. IsFiniteSet(s.nodes) /\ Cardinality(s.nodes) \in Nat
  BY FS_CardinalityType DEF IsTree
<1>3. IsFiniteSet(D) /\ Cardinality(D) <= Cardinality(s.nodes) /\ Cardinality(D) \in Nat
  <2> HIDE DEF b
  <2>1. IsFiniteSet(D) /\ Cardinality(D) <= Cardinality(s.nodes)
    BY <1>2, FiniteImage
  <2> QED
    BY <2>1, FS_CardinalityType
<1>4. d \in D /\ d \in Nat
  BY <1>1
<1>5. ASSUME NEW k \in D, k # 0
      PROVE  k - 1 \in D
  <2>1. PICK x \in s.nodes : k = Depth(x.id)
    OBVIOUS
  <2>2. x.id.path # <<>>
    BY <1>5, <2>1, EmptySeq DEF Depth
  <2>3. x.parent = ParentOf(x.id) /\ x.parent \in IdsOf(s.nodes)
    BY <2>2 DEF IsTree
  <2>4. PICK p \in s.nodes : p.id = ParentOf(x.id)
    BY <2>3 DEF IdsOf
  <2>5. Depth(p.id) = k - 1
    BY <1>1, <2>1, <2>2, <2>4, AboveParent
  <2>6. b[p] = k - 1
    BY <2>5
  <2> QED
    BY <2>6
<1>6. D \in SUBSET Nat
  BY <1>1
<1> HIDE DEF D, d
<1>7. 0 \in S
  BY <1>4
<1>8. ASSUME NEW k \in S
      PROVE  k + 1 \in S
  <2> SUFFICES ASSUME k + 1 <= d
               PROVE  d - (k + 1) \in D
    OBVIOUS
  <2>1. d - k \in D /\ d - k # 0 /\ (d - k) - 1 = d - (k + 1)
    BY <1>4
  <2> QED
    BY <1>5, <2>1
<1>9. S \in SUBSET Nat
  OBVIOUS
<1> HIDE DEF S
<1>10. S = Nat
  BY <1>7, <1>8, <1>9, Induction
<1>11. 0..d \in SUBSET D
  <2> SUFFICES ASSUME NEW k \in 0..d
               PROVE  k \in D
    OBVIOUS
  <2>1. d - k \in Nat /\ d - k <= d /\ d - (d - k) = k
    BY <1>4
  <2> QED
    BY <1>10, <2>1 DEF S
<1>12. Cardinality(0..d) = d + 1
  BY <1>4, FS_Interval
<1>13. d + 1 <= Cardinality(D)
  <2>1. Cardinality(0..d) <= Cardinality(D)
    BY <1>3, <1>11, FS_Subset
  <2> QED
    BY <1>12, <2>1
<1>14. d < Cardinality(s.nodes)
  BY <1>2, <1>3, <1>4, <1>13
<1> QED
  BY <1>4, <1>14 DEF d

Children(s, B) == UNION {{x \in s.nodes : x.parent = y.id} : y \in B}
Shows(s, g) ==
    g = [n \in 1..Cardinality(s.nodes) |->
            IF n = 1 THEN {x \in s.nodes : x.parent = Nil} ELSE Children(s, g[n - 1])]

\* What is shown satisfies the rule by which it is shown, level by level.
LEMMA ShownChosen ==
    ASSUME NEW s
    PROVE  Shown(s) = LET g == CHOOSE h : Shows(s, h) IN UNION {g[n] : n \in DOMAIN g}
BY DEF Shown, Shows, Children

\* Every node is shown.
LEMMA AllShown ==
    ASSUME NEW s, NEW P, NEW U, IsTree(s, P, U)
    PROVE  Shown(s) = s.nodes
<1> DEFINE c == Cardinality(s.nodes)
           g == CHOOSE h : Shows(s, h)
           w == [n \in 1..c |-> {x \in s.nodes : Depth(x.id) = n - 1}]
<1>1. \A x \in s.nodes : x.id \in [root : P, path : Seq(U)] /\ Depth(x.id) \in Nat /\ Depth(x.id) < c
  BY DepthBelowCount DEF IsTree
<1>2. c \in Nat
  BY FS_CardinalityType DEF IsTree
<1>3. \A x \in s.nodes : Depth(x.id) = 0 <=> x.parent = Nil
  BY EmptySeq DEF IsTree, Depth
<1>4. ASSUME NEW n \in 1..c, n # 1, NEW x \in s.nodes
      PROVE  Depth(x.id) = n - 1 <=> \E y \in s.nodes : x.parent = y.id /\ Depth(y.id) = n - 2
  <2>1. ASSUME x.parent # Nil
        PROVE  \E y \in s.nodes : x.parent = y.id /\ Depth(y.id) = Depth(x.id) - 1
    <3>1. x.id.path # <<>> /\ x.parent = ParentOf(x.id) /\ x.parent \in IdsOf(s.nodes)
      BY <2>1 DEF IsTree
    <3>2. PICK y \in s.nodes : x.parent = y.id
      BY <3>1 DEF IdsOf
    <3>3. y.id = ParentOf(x.id)
      BY <3>1, <3>2
    <3>4. Depth(ParentOf(x.id)) = Depth(x.id) - 1
      BY <1>1, <3>1, AboveParent
    <3> QED
      BY <3>2, <3>3, <3>4
  <2>2. \A y \in s.nodes : y.id # Nil
    BY DEF IsTree
  <2> QED
    BY <1>1, <1>3, <1>4, <2>1, <2>2
<1>5. Shows(s, w)
  <2>1. ASSUME NEW n \in 1..c, n # 1
        PROVE  w[n] = Children(s, w[n - 1])
    <3>1. n - 1 \in 1..c /\ (n - 1) - 1 = n - 2
      BY <1>2, <2>1
    <3>2. w[n - 1] = {y \in s.nodes : Depth(y.id) = n - 2}
      BY <3>1
    <3>3. w[n] = {x \in s.nodes : Depth(x.id) = n - 1}
      OBVIOUS
    <3>4. \A x \in s.nodes : x \in w[n] <=> \E y \in w[n - 1] : x.parent = y.id
      <4> HIDE DEF w, c
      <4> QED
        BY <1>4, <2>1, <3>2, <3>3
    <3> HIDE DEF w
    <3> QED
      BY <3>3, <3>4 DEF Children
  <2>2. 1 \in 1..c => w[1] = {x \in s.nodes : x.parent = Nil}
    BY <1>3
  <2>3. w = [n \in 1..c |-> w[n]]
    OBVIOUS
  <2> HIDE DEF w, c
  <2>4. w = [n \in 1..c |-> IF n = 1 THEN {x \in s.nodes : x.parent = Nil} ELSE Children(s, w[n - 1])]
    BY <2>1, <2>2, <2>3
  <2> QED
    BY <2>4 DEF Shows, c
<1> HIDE DEF w
<1>6. Shows(s, g)
  BY <1>5
<1> HIDE DEF g
<1> DEFINE S == {n \in Nat : n + 1 \in 1..c => g[n + 1] = w[n + 1]}
<1>7. 0 \in S
  BY <1>5, <1>6 DEF Shows
<1>8. ASSUME NEW n \in S
      PROVE  n + 1 \in S
  <2> DEFINE k == (n + 1) + 1
  <2> SUFFICES ASSUME k \in 1..c
               PROVE  g[k] = w[k]
    OBVIOUS
  <2>1. k # 1 /\ k - 1 = n + 1 /\ n + 1 \in 1..c
    BY <1>2
  <2>2. g[k - 1] = w[k - 1]
    BY <2>1
  <2> HIDE DEF k
  <2>3. g[k] = Children(s, g[k - 1]) /\ w[k] = Children(s, w[k - 1])
    BY <1>5, <1>6, <2>1 DEF Shows
  <2> QED
    BY <2>2, <2>3
<1>9. S \in SUBSET Nat
  OBVIOUS
<1> HIDE DEF S
<1>10. S = Nat
  BY <1>7, <1>8, <1>9, Induction
<1>11. \A n \in 1..c : g[n] = w[n]
  <2> TAKE n \in 1..c
  <2>1. n - 1 \in Nat /\ (n - 1) + 1 = n
    BY <1>2
  <2> QED
    BY <1>10, <2>1 DEF S
<1>12. DOMAIN g = 1..c
  BY <1>6 DEF Shows
<1>13. Shown(s) = UNION {w[n] : n \in 1..c}
  <2>1. Shown(s) = UNION {g[n] : n \in DOMAIN g}
    BY ShownChosen DEF g
  <2> QED
    BY <1>11, <1>12, <2>1
<1>14. \A x \in s.nodes : Depth(x.id) + 1 \in 1..c /\ x \in w[Depth(x.id) + 1]
  <2> TAKE x \in s.nodes
  <2>1. Depth(x.id) + 1 \in 1..c /\ (Depth(x.id) + 1) - 1 = Depth(x.id)
    BY <1>1, <1>2
  <2> QED
    BY <2>1 DEF w
<1>15. \A n \in 1..c : w[n] \in SUBSET s.nodes
  BY DEF w
<1> HIDE DEF c
<1> QED
  BY <1>13, <1>14, <1>15

-----------------------------------------------------------------------------
(* What a file asks for.                                                   *)

\* The products from the root of an occurrence down to its own.
Chain(o, k) == IF k = 0 THEN o.root ELSE o.path[k].child

\* The ancestors of an occurrence along its path.
LEMMA ChainIs ==
    ASSUME NEW file, IsFile(file), NEW o \in Occurrences(file), NEW d, d = Depth(o)
    PROVE  /\ d \in Nat /\ ProductOf(o) = Chain(o, d)
           /\ \A k \in 1..d : o.path[k] \in Usages(file) /\ o.path[k].parent = Chain(o, k - 1)
<1> DEFINE Occ == Occurrences(file)
           Right(x) == \A k \in 1..Depth(x) : x.path[k] \in Usages(file) /\ x.path[k].parent = Chain(x, k - 1)
           S == {n \in Nat : \A x \in Occ : Depth(x) = n => Right(x)}
<1>1. \A x \in Occ : x \in Places(file) /\ Depth(x) \in Nat
  BY OccurrencesAre DEF Levels, IsFile
<1>2. \A x \in Occ : Depth(x) = 0 <=> x.path = <<>>
  BY <1>1, EmptySeq DEF Depth, Places
<1>3. \A x \in Occ : ProductOf(x) = Chain(x, Depth(x))
  BY <1>2 DEF ProductOf, Chain, Last, Depth
<1>4. 0 \in S
  OBVIOUS
<1>5. ASSUME NEW n \in S
      PROVE  n + 1 \in S
  <2> SUFFICES ASSUME NEW x \in Occ, Depth(x) = n + 1, NEW k \in 1..(n + 1)
               PROVE  x.path[k] \in Usages(file) /\ x.path[k].parent = Chain(x, k - 1)
    OBVIOUS
  <2> DEFINE p == ParentOf(x)
  <2>1. x.path # <<>>
    BY <1>2
  <2>2. /\ p \in Occ /\ Last(x.path) \in Usages(file) /\ Last(x.path).parent = ProductOf(p)
    BY <2>1, ParentOccurs DEF Assemblies
  <2>3. /\ Last(x.path) = x.path[n + 1] /\ p.root = x.root /\ Depth(p) = n
        /\ \A i \in 1..n : p.path[i] = x.path[i]
    <3>1. /\ Last(x.path) = x.path[n + 1] /\ p.root = x.root /\ Depth(p) = (n + 1) - 1
          /\ \A i \in 1..((n + 1) - 1) : p.path[i] = x.path[i]
      BY <1>1, <2>1, ParentPath
    <3> QED
      BY <3>1
  <2> HIDE DEF p
  <2>4. \A i \in 0..n : Chain(p, i) = Chain(x, i)
    BY <2>3 DEF Chain
  <2>5. CASE k = n + 1
    <3>1. ProductOf(p) = Chain(p, n)
      BY <1>3, <2>2, <2>3
    <3>2. k - 1 = n /\ n \in 0..n
      BY <2>5
    <3> QED
      BY <2>2, <2>3, <2>4, <2>5, <3>1, <3>2
  <2>6. CASE k # n + 1
    <3>1. k \in 1..n /\ k - 1 \in 0..n
      BY <2>6
    <3>2. p.path[k] \in Usages(file) /\ p.path[k].parent = Chain(p, k - 1)
      BY <2>2, <2>3, <3>1
    <3> QED
      BY <2>3, <2>4, <3>1, <3>2
  <2> QED
    BY <2>5, <2>6
<1>6. S \in SUBSET Nat
  OBVIOUS
<1> HIDE DEF S
<1>7. S = Nat
  BY <1>4, <1>5, <1>6, Induction
<1>8. d \in S
  BY <1>1, <1>7
<1> QED
  BY <1>1, <1>3, <1>8 DEF S

\* Where no product contains itself none is in its own ancestry.
LEMMA NoCycle ==
    ASSUME NEW file, IsFile(file), Founded(file), NEW o \in Occurrences(file),
           NEW j \in 0..Depth(o), NEW k \in 0..Depth(o), j < k
    PROVE  Chain(o, j) # Chain(o, k)
<1> SUFFICES ASSUME Chain(o, j) = Chain(o, k) PROVE FALSE
  OBVIOUS
<1> DEFINE d == Depth(o)
           S == {Chain(o, i) : i \in j..(k - 1)}
<1>1. d \in Nat /\ \A i \in 1..d : o.path[i] \in Usages(file) /\ o.path[i].parent = Chain(o, i - 1)
  BY ChainIs
<1>2. ASSUME NEW i \in j..(k - 1)
      PROVE  \E u \in Usages(file) : u.parent = Chain(o, i) /\ u.child \in S
  <2>1. i + 1 \in 1..d /\ (i + 1) - 1 = i
    BY <1>1
  <2>2. o.path[i + 1] \in Usages(file) /\ o.path[i + 1].parent = Chain(o, i)
    BY <1>1, <2>1
  <2>3. o.path[i + 1].child = Chain(o, i + 1)
    BY <2>1 DEF Chain
  <2>4. CASE i + 1 = k
    <3>1. j \in j..(k - 1)
      BY <1>1
    <3> QED
      BY <2>2, <2>3, <2>4, <3>1
  <2>5. CASE i + 1 # k
    <3>1. i + 1 \in j..(k - 1)
      BY <1>1, <2>5
    <3> QED
      BY <2>2, <2>3, <3>1
  <2> QED
    BY <2>4, <2>5
<1>3. S \in SUBSET {u.parent : u \in Usages(file)}
  BY <1>2
<1>4. S # {}
  <2>1. j \in j..(k - 1)
    BY <1>1
  <2> QED
    BY <2>1
<1>5. PICK p \in S : \A u \in Usages(file) : u.parent = p => u.child \notin S
  <2> HIDE DEF S
  <2> QED
    BY <1>3, <1>4 DEF Founded
<1>6. PICK i \in j..(k - 1) : p = Chain(o, i)
  OBVIOUS
<1> HIDE DEF S
<1> QED
  BY <1>2, <1>5, <1>6

\* Where no product contains itself, every assembly is expanded.
LEMMA FoundedExpands ==
    ASSUME NEW file, IsFile(file), Founded(file), NEW o \in Occurrences(file), IsAssembly(file, o)
    PROVE  Expanded(file, o) /\ Depth(o) < Len(file.products)
<1> DEFINE d == Depth(o)
           b == [k \in 0..d |-> Chain(o, k)]
           products == ToSet(file.products)
<1>1. d \in Nat /\ ProductOf(o) = Chain(o, d)
      /\ \A k \in 1..d : o.path[k] \in Usages(file) /\ o.path[k].parent = Chain(o, k - 1)
  BY ChainIs
<1>2. Expanded(file, o)
  <2> SUFFICES ASSUME o.path # <<>>
               PROVE  ProductOf(o) \notin Visited(ParentOf(o))
    BY DEF Expanded
  <2>1. o \in Places(file)
    BY OccurrencesAre
  <2>2. /\ ParentOf(o).root = o.root /\ ParentOf(o).path \in Seq(Usages(file))
        /\ Len(ParentOf(o).path) = d - 1 /\ d # 0
        /\ \A i \in 1..(d - 1) : ParentOf(o).path[i] = o.path[i]
    BY <2>1, ParentPath DEF Depth, Places
  <2>3. \A x \in Visited(ParentOf(o)) : \E k \in 0..(d - 1) : x = Chain(o, k)
    <3>1. o.root = Chain(o, 0) /\ 0 \in 0..(d - 1)
      BY <1>1, <2>2 DEF Chain
    <3>2. \A i \in 1..(d - 1) : i \in 0..(d - 1) /\ o.path[i].child = Chain(o, i)
      BY <1>1 DEF Chain
    <3>3. DOMAIN ParentOf(o).path = 1..(d - 1)
      BY <2>2
    <3> QED
      BY <2>2, <3>1, <3>2, <3>3 DEF Visited, ToSet
  <2>4. \A k \in 0..(d - 1) : Chain(o, k) # Chain(o, d)
    <3> TAKE k \in 0..(d - 1)
    <3>1. k \in 0..d /\ d \in 0..d /\ k < d
      BY <1>1
    <3> QED
      BY <3>1, NoCycle
  <2> QED
    BY <1>1, <2>3, <2>4
<1>3. \A k \in 0..d : Chain(o, k) \in products
  <2>1. ASSUME NEW u \in Usages(file)
        PROVE  u.parent \in products /\ u.child \in products
    BY DEF IsFile
  <2>2. o.root \in products
    <3>1. o.root \in Roots(file)
      BY OccurrencesAre DEF Places
    <3> QED
      BY <2>1, <3>1, RootsAre
  <2>3. \A k \in 0..d : k # 0 => k \in 1..d
    BY <1>1
  <2> QED
    BY <1>1, <2>1, <2>2, <2>3 DEF Chain
<1>4. \A j, k \in 0..d : b[j] = b[k] => j = k
  <2> SUFFICES ASSUME NEW j \in 0..d, NEW k \in 0..d, b[j] = b[k], j < k
               PROVE  FALSE
    BY <1>1
  <2> QED
    BY NoCycle
<1>5. IsFiniteSet(products) /\ Cardinality(products) <= Len(file.products)
      /\ Cardinality(products) \in Nat /\ Len(file.products) \in Nat
  BY FiniteToSet, FS_CardinalityType DEF IsFile
<1>6. b \in Injection(0..d, products)
  BY <1>3, <1>4 DEF Injection, IsInjective
<1>7. Cardinality(0..d) <= Cardinality(products)
  BY <1>5, <1>6, FS_Injection
<1>8. Cardinality(0..d) = d + 1
  BY <1>1, FS_Interval
<1>9. d < Len(file.products)
  <2> HIDE DEF d, products
  <2> QED
    BY <1>1, <1>5, <1>7, <1>8
<1> QED
  BY <1>2, <1>9 DEF d

Into(file, p) == {u \in Usages(file) : u.child = p}
At(file, p) == {o \in Occurrences(file) : ProductOf(o) = p}
Needs(file, f) ==
    f = [p \in ToSet(file.products) |->
            (IF p \in Roots(file) THEN 1 ELSE 0)
                + MapThenSumSet(LAMBDA u : u.quantity * f[u.parent],
                                {u \in Usages(file) : u.child = p})]

\* What is needed satisfies the rule by which needs add up.
LEMMA NeededChosen ==
    ASSUME NEW file
    PROVE  Needed(file) = CHOOSE f : Needs(file, f)
BY DEF Needed, Needs

\* How often a product occurs: at a root, and once for each occurrence of what uses it.
Counts(file) == [o \in Occurrences(file) |-> QuantityOf(o)]
Weight(file, p) == Sum(Counts(file), At(file, p))

\* A product occurs finitely often.
LEMMA AtIsFinite ==
    ASSUME NEW file, IsFile(file), NEW p
    PROVE  /\ IsFiniteSet(At(file, p)) /\ At(file, p) \in SUBSET Occurrences(file)
           /\ \A o \in At(file, p) : Counts(file)[o] = QuantityOf(o) /\ QuantityOf(o) \in Nat
           /\ Weight(file, p) \in Nat
<1>1. At(file, p) \in SUBSET Occurrences(file)
  BY DEF At
<1>2. IsFiniteSet(At(file, p))
  BY <1>1, OccurrencesAre, FS_Subset
<1>3. \A o \in At(file, p) : Counts(file)[o] = QuantityOf(o) /\ QuantityOf(o) \in Nat
  BY <1>1, QuantityType DEF Counts
<1> QED
  BY <1>1, <1>2, <1>3, SumNat DEF Weight

\* Where a product occurs: as a root, or below an occurrence of what uses it.
LEMMA AtIs ==
    ASSUME NEW file, IsFile(file), Founded(file), NEW p
    PROVE  At(file, p) = (IF p \in Roots(file) THEN {OccursAtRoot(p)} ELSE {})
                             \cup UNION {{Below(o, u) : o \in At(file, u.parent)} : u \in Into(file, p)}
<1> DEFINE Occ == Occurrences(file)
<1>1. Occ \in SUBSET Places(file) /\ AtRoots(file) \subseteq Occ
  BY OccurrencesAre
<1>2. ASSUME p \in Roots(file)
      PROVE  OccursAtRoot(p) \in At(file, p)
  BY <1>1, <1>2 DEF AtRoots, At, ProductOf, OccursAtRoot
<1>3. ASSUME NEW u \in Into(file, p), NEW o \in At(file, u.parent)
      PROVE  Below(o, u) \in At(file, p)
  <2>1. u \in Usages(file) /\ u.child = p /\ o \in Occ /\ u.parent = ProductOf(o)
    BY DEF Into, At
  <2>2. IsAssembly(file, o)
    BY <2>1 DEF IsAssembly, UsesIn
  <2>3. Expanded(file, o) /\ Depth(o) < Len(file.products)
    BY <2>1, <2>2, FoundedExpands
  <2>4. Below(o, u) \in Occ
    BY <2>1, <2>3, OccurrencesAre
  <2>5. ProductOf(Below(o, u)) = u.child
    BY <1>1, <2>1, BelowIs
  <2> QED
    BY <2>1, <2>4, <2>5 DEF At
<1>4. ASSUME NEW x \in At(file, p)
      PROVE  \/ p \in Roots(file) /\ x = OccursAtRoot(p)
             \/ \E u \in Into(file, p) : \E o \in At(file, u.parent) : x = Below(o, u)
  <2>1. x \in Occ /\ ProductOf(x) = p
    BY DEF At
  <2>2. CASE x.path = <<>>
    BY <2>1, <2>2, RootsAreAssemblies DEF ProductOf
  <2>3. CASE x.path # <<>>
    <3>1. /\ ParentOf(x) \in Occ /\ Last(x.path) \in Usages(file)
          /\ Last(x.path).parent = ProductOf(ParentOf(x)) /\ ProductOf(x) = Last(x.path).child
          /\ x = Below(ParentOf(x), Last(x.path))
      BY <2>1, <2>3, ParentOccurs DEF Assemblies
    <3>2. Last(x.path) \in Into(file, p) /\ ParentOf(x) \in At(file, Last(x.path).parent)
      BY <2>1, <3>1 DEF Into, At
    <3> QED
      BY <3>1, <3>2
  <2> QED
    BY <2>2, <2>3
<1>5. \A x : x \in UNION {{Below(o, u) : o \in At(file, u.parent)} : u \in Into(file, p)} <=>
             \E u \in Into(file, p) : \E o \in At(file, u.parent) : x = Below(o, u)
  OBVIOUS
<1> QED
  BY <1>2, <1>3, <1>4, <1>5

\* What a usage adds to the weight of its child.
LEMMA WeightBelow ==
    ASSUME NEW file, IsFile(file), NEW u \in Usages(file), NEW S, S = {Below(o, u) : o \in At(file, u.parent)},
           S \in SUBSET Occurrences(file)
    PROVE  IsFiniteSet(S) /\ Sum(Counts(file), S) = u.quantity * Weight(file, u.parent)
<1> DEFINE T == At(file, u.parent)
           q == Counts(file)
           b == [o \in T |-> Below(o, u)]
           f == [o \in T |-> u.quantity * q[o]]
<1>1. IsFiniteSet(T) /\ T \in SUBSET Occurrences(file) /\ \A o \in T : q[o] = QuantityOf(o) /\ q[o] \in Nat
  BY AtIsFinite
<1>2. u.quantity \in Nat
  BY DEF IsFile
<1>3. \A o \in T : o \in Places(file) /\ ParentOf(Below(o, u)) = o
  BY <1>1, OccurrencesAre, BelowIs
<1>4. \A o \in T : q[Below(o, u)] = u.quantity * q[o]
  <2> TAKE o \in T
  <2>1. Below(o, u) \in Occurrences(file)
    OBVIOUS
  <2>2. q[Below(o, u)] = QuantityOf(Below(o, u))
    BY <2>1 DEF Counts
  <2>3. QuantityOf(Below(o, u)) = QuantityOf(o) * u.quantity
    BY <1>3, Quantities
  <2>4. QuantityOf(o) \in Nat /\ q[o] = QuantityOf(o)
    BY <1>1
  <2> HIDE DEF q
  <2> QED
    BY <1>2, <2>2, <2>3, <2>4
<1>5. \A o \in T : f[o] \in Nat /\ f[o] = u.quantity * q[o]
  BY <1>1, <1>2
<1>6. \A x, y \in T : b[x] = b[y] => x = y
  BY <1>3
<1>7. \A o \in T : q[b[o]] = f[o]
  BY <1>4
<1>8. S = {b[o] : o \in T}
  OBVIOUS
<1>9. Weight(file, u.parent) = Sum(q, T)
  BY DEF Weight
<1> HIDE DEF T, q, b, f
<1>10. IsFiniteSet({b[o] : o \in T}) /\ Sum(q, {b[o] : o \in T}) = Sum(f, T)
  BY <1>1, <1>5, <1>6, <1>7, SumRenamed
<1>11. Sum(f, T) = u.quantity * Sum(q, T)
  BY <1>1, <1>2, <1>5, SumScaled
<1> QED
  BY <1>8, <1>9, <1>10, <1>11 DEF q

\* What the usages of a product ask for, as a sum.
LEMMA AskedIs ==
    ASSUME NEW file, NEW f, NEW p
    PROVE  MapThenSumSet(LAMBDA u : u.quantity * f[u.parent], {u \in Usages(file) : u.child = p})
               = Sum([u \in Into(file, p) |-> u.quantity * f[u.parent]], Into(file, p))
BY ZenonT(60) DEF Sum, MapThenSumSet, MapThenFoldSet, Into

\* A product is used finitely often.
LEMMA IntoIsFinite ==
    ASSUME NEW file, IsFile(file), NEW p
    PROVE  /\ IsFiniteSet(Into(file, p)) /\ Into(file, p) \in SUBSET Usages(file)
           /\ \A u \in Into(file, p) : /\ u.quantity \in Nat
                                       /\ {u.parent, u.child} \subseteq ToSet(file.products)
<1>1. Into(file, p) \in SUBSET Usages(file)
  BY DEF Into
<1>2. IsFiniteSet(Usages(file))
  BY RootsAre
<1> QED
  BY <1>1, <1>2, FS_Subset DEF IsFile

\* The weights of products satisfy the rule by which needs add up.
LEMMA WeightIs ==
    ASSUME NEW file, IsFile(file), Founded(file), NEW p, NEW c,
           \A u \in Into(file, p) : c[u.parent] = Weight(file, u.parent)
    PROVE  Weight(file, p) = (IF p \in Roots(file) THEN 1 ELSE 0)
                                 + Sum([u \in Into(file, p) |-> u.quantity * c[u.parent]], Into(file, p))
<1> DEFINE f == Counts(file)
           E == Into(file, p)
           A == [u \in E |-> {Below(o, u) : o \in At(file, u.parent)}]
           g == [u \in E |-> u.quantity * c[u.parent]]
           R == IF p \in Roots(file) THEN {OccursAtRoot(p)} ELSE {}
           B == UNION {A[u] : u \in E}
<1>1. At(file, p) = R \cup B
  BY AtIs
<1>2. IsFiniteSet(E) /\ E \in SUBSET Usages(file)
  BY IntoIsFinite
<1>3. \A u \in E : A[u] \in SUBSET Occurrences(file)
  <2>1. \A u \in E : A[u] \subseteq At(file, p)
    BY <1>1
  <2> QED
    BY <2>1, AtIsFinite
<1>4. \A u \in E : IsFiniteSet(A[u]) /\ Sum(f, A[u]) = u.quantity * Weight(file, u.parent)
  <2> TAKE u \in E
  <2>1. u \in Usages(file) /\ A[u] = {Below(o, u) : o \in At(file, u.parent)} /\ A[u] \in SUBSET Occurrences(file)
    BY <1>2, <1>3
  <2> QED
    BY <2>1, WeightBelow
<1>5. \A u \in E : g[u] = Sum(f, A[u])
  BY <1>4
<1>6. \A u \in E : \A x \in A[u] : x.path # <<>> /\ Last(x.path) = u
  <2> TAKE u \in E
  <2> TAKE x \in A[u]
  <2>1. PICK o \in At(file, u.parent) : x = Below(o, u)
    OBVIOUS
  <2>2. o \in Places(file) /\ u \in Usages(file)
    BY <1>2, AtIsFinite, OccurrencesAre
  <2> QED
    BY <2>1, <2>2, BelowIs
<1>7. \A u, w \in E : u # w => A[u] \cap A[w] = {}
  <2> HIDE DEF A, E
  <2> QED
    BY <1>6
<1>8. R \cap B = {}
  <2>1. \A x \in R : x.path = <<>>
    BY DEF OccursAtRoot
  <2>2. \A x \in B : x.path # <<>>
    BY <1>6
  <2> QED
    BY <2>1, <2>2
<1>9. \A x \in R \cup B : f[x] \in Nat
  BY <1>1, AtIsFinite
<1>10. \A u \in E : \A x \in A[u] : f[x] \in Nat
  BY <1>9
<1>11. IsFiniteSet(R) /\ IsFiniteSet(B)
  BY <1>1, AtIsFinite, FS_Subset
<1>12. Sum(f, R) = IF p \in Roots(file) THEN 1 ELSE 0
  <2>1. CASE p \in Roots(file)
    <3>1. R = {OccursAtRoot(p)}
      BY <2>1
    <3>2. OccursAtRoot(p) \in Occurrences(file) /\ OccursAtRoot(p) \in AtRoots(file)
      BY <2>1, OccurrencesAre DEF AtRoots
    <3>3. f[OccursAtRoot(p)] = 1
      BY <3>2, Quantities DEF Counts
    <3>4. Sum(f, R) = 1 * Cardinality(R)
      <4>1. IsFiniteSet(R) /\ 1 \in Nat /\ \A x \in R : f[x] = 1
        BY <1>11, <3>1, <3>3
      <4> HIDE DEF f, R
      <4> QED
        BY <4>1, SumOfSame
    <3>5. Cardinality(R) = 1
      BY <3>1, FS_Singleton
    <3> QED
      BY <2>1, <3>4, <3>5
  <2>2. CASE p \notin Roots(file)
    BY <2>2, SumEmpty
  <2> QED
    BY <2>1, <2>2
<1> HIDE DEF f, E, A, g, R
<1>13. Sum(g, E) = Sum(f, B)
  <2>1. \A k \in E : IsFiniteSet(A[k])
    BY <1>4
  <2>6. IsFiniteSet(E)
    BY <1>2
  <2>2. \A k \in E : g[k] = Sum(f, A[k])
    BY <1>5
  <2>3. \A k, l \in E : k # l => A[k] \cap A[l] = {}
    BY <1>7
  <2>4. \A k \in E : \A x \in A[k] : f[x] \in Nat
    BY <1>10
  <2>5. Sum(g, E) = Sum(f, UNION {A[k] : k \in E})
    <3> HIDE DEF B
    <3> QED
      BY ONLY <2>2, <2>3, <2>6, <2>4, <2>1, SumOfSums
  <2> QED
    BY <2>5
<1>14. Sum(f, R \cup B) = Sum(f, R) + Sum(f, B)
  <2> HIDE DEF B
  <2> QED
    BY <1>8, <1>9, <1>11, SumDisjoint
<1>15. Weight(file, p) = Sum(f, R) + Sum(f, B)
  BY <1>1, <1>14 DEF Weight, f
<1>16. Weight(file, p) = Sum(f, R) + Sum(g, E)
  BY <1>13, <1>15
<1> QED
  BY <1>12, <1>16 DEF g, E

\* What is used is used by something that nothing else there uses.
LEMMA NothingGoesRound ==
    ASSUME NEW file, IsFile(file), Founded(file),
           NEW B \in SUBSET {u.parent : u \in Usages(file)},
           \A p \in B : \E u \in Usages(file) : u.child = p /\ u.parent \in B
    PROVE  B = {}
<1> SUFFICES ASSUME B # {} PROVE FALSE
  OBVIOUS
<1> DEFINE Round(S) == S # {} /\ \A p \in S : \E u \in Usages(file) : u.child = p /\ u.parent \in S
           Sizes == {Cardinality(S) : S \in {S \in SUBSET B : Round(S)}}
<1>1. IsFiniteSet(B)
  <2> DEFINE b == [u \in Usages(file) |-> u.parent]
  <2>1. IsFiniteSet(Usages(file))
    BY RootsAre
  <2>2. {b[u] : u \in Usages(file)} = {u.parent : u \in Usages(file)}
    OBVIOUS
  <2> HIDE DEF b
  <2>3. IsFiniteSet({b[u] : u \in Usages(file)})
    BY <2>1, FiniteImage
  <2>4. IsFiniteSet({u.parent : u \in Usages(file)})
    BY <2>2, <2>3
  <2> QED
    BY <2>4, FS_Subset
<1>2. \A S \in SUBSET B : IsFiniteSet(S) /\ Cardinality(S) \in Nat
  BY <1>1, FS_Subset, FS_CardinalityType
<1>3. Sizes \in SUBSET Nat
  BY <1>2
<1>4. Sizes # {}
  OBVIOUS
<1>5. PICK n \in Sizes : \A k \in Sizes : ~(k < n)
  <2> HIDE DEF Sizes
  <2> QED
    BY <1>3, <1>4, LeastNatural
<1>6. PICK S \in SUBSET B : Round(S) /\ Cardinality(S) = n
  OBVIOUS
<1>7. PICK p \in S : \A u \in Usages(file) : u.parent = p => u.child \notin S
  BY <1>6 DEF Founded
<1>8. Round(S \ {p})
  <2>1. PICK u \in Usages(file) : u.child = p /\ u.parent \in S
    BY <1>6
  <2>2. u.parent # p
    BY <1>7, <2>1
  <2>3. \A q \in S \ {p} : \E w \in Usages(file) : w.child = q /\ w.parent \in S \ {p}
    BY <1>6, <1>7
  <2> QED
    BY <2>1, <2>2, <2>3
<1>9. Cardinality(S \ {p}) = Cardinality(S) - 1
  BY <1>2, FS_RemoveElement
<1>10. Cardinality(S \ {p}) \in Sizes
  BY <1>8
<1> HIDE DEF Sizes, Round
<1> QED
  BY <1>2, <1>5, <1>6, <1>9, <1>10

\* Where no product contains itself, what is needed is what occurs.
LEMMA NeededIsWeight ==
    ASSUME NEW file, IsFile(file), Founded(file), NEW p \in ToSet(file.products)
    PROVE  Needed(file)[p] = Weight(file, p)
<1> DEFINE P == ToSet(file.products)
           W == [x \in P |-> Weight(file, x)]
           c == Needed(file)
           Asks(f, x) == (IF x \in Roots(file) THEN 1 ELSE 0)
                             + Sum([u \in Into(file, x) |-> u.quantity * f[u.parent]], Into(file, x))
<1>1. ASSUME NEW x \in P
      PROVE  \A u \in Into(file, x) : W[u.parent] = Weight(file, u.parent)
  <2>1. \A u \in Into(file, x) : u.parent \in P
    BY IntoIsFinite
  <2> QED
    BY <2>1
<1>2. \A x \in P : W[x] = Asks(W, x)
  <2> TAKE x \in P
  <2>1. W[x] = Weight(file, x)
    OBVIOUS
  <2> HIDE DEF W
  <2> QED
    BY <1>1, <2>1, WeightIs
<1>3. Needs(file, W)
  <2>1. \A f : [x \in P |-> Asks(f, x)] =
                   [x \in P |-> (IF x \in Roots(file) THEN 1 ELSE 0)
                       + MapThenSumSet(LAMBDA u : u.quantity * f[u.parent], {u \in Usages(file) : u.child = x})]
    BY AskedIs
  <2>2. W = [x \in P |-> Asks(W, x)]
    <3>1. W = [x \in P |-> W[x]]
      OBVIOUS
    <3> HIDE DEF W, Asks
    <3> QED
      BY <1>2, <3>1
  <2> HIDE DEF W, Asks
  <2> QED
    BY <2>1, <2>2 DEF Needs
<1>4. Needs(file, c)
  BY <1>3, NeededChosen
<1>5. \A x \in P : c[x] = Asks(c, x)
  <2> HIDE DEF c
  <2>1. \A x \in P :
            c[x] = (IF x \in Roots(file) THEN 1 ELSE 0)
                       + MapThenSumSet(LAMBDA u : u.quantity * c[u.parent], {u \in Usages(file) : u.child = x})
    BY <1>4 DEF Needs
  <2> QED
    BY <2>1, AskedIs
<1> DEFINE Bad == {x \in {u.parent : u \in Usages(file)} : c[x] # W[x]}
<1>6. \A x \in P : c[x] # W[x] => \E u \in Usages(file) : u.child = x /\ u.parent \in Bad
  <2> SUFFICES ASSUME NEW x \in P, \A u \in Usages(file) : u.child = x => u.parent \notin Bad
               PROVE  c[x] = W[x]
    OBVIOUS
  <2>1. \A u \in Into(file, x) : c[u.parent] = W[u.parent]
    BY DEF Into
  <2> DEFINE f == [u \in Into(file, x) |-> u.quantity * c[u.parent]]
             e == [u \in Into(file, x) |-> u.quantity * W[u.parent]]
  <2>2. f = e
    <3> HIDE DEF c, W
    <3> QED
      BY <2>1
  <2>3. Asks(c, x) = Asks(W, x)
    <3>1. Sum(f, Into(file, x)) = Sum(e, Into(file, x))
      BY <2>2
    <3> QED
      BY <3>1
  <2> HIDE DEF c, W, Asks
  <2> QED
    BY <1>2, <1>5, <2>3
<1>7. Bad \in SUBSET {u.parent : u \in Usages(file)}
  OBVIOUS
<1>8. \A x \in Bad : \E u \in Usages(file) : u.child = x /\ u.parent \in Bad
  <2>1. \A x \in Bad : x \in P
    BY DEF IsFile
  <2> HIDE DEF c, W
  <2> QED
    BY <1>6, <2>1
<1> HIDE DEF Bad
<1>9. Bad = {}
  BY <1>7, <1>8, NothingGoesRound
<1>10. c[p] = W[p]
  <2> HIDE DEF c, W
  <2> QED
    BY <1>6, <1>9
<1> QED
  BY <1>10

\* A sum over instances, by a function.
LEMMA QuantitiesAddUp ==
    ASSUME NEW I
    PROVE  MapThenSumSet(LAMBDA i : i.quantity, I) = Sum([i \in I |-> i.quantity], I)
BY ZenonT(60) DEF Sum, MapThenSumSet, MapThenFoldSet

\* A part occurs as often as the file asks for.
LEMMA PartsAddUp ==
    ASSUME NEW file, IsFile(file), Founded(file), NEW s, s = Parsed(file), NEW part \in s.parts
    PROVE  MapThenSumSet(LAMBDA i : i.quantity, {i \in s.instances : i.part = part.id}) = Needed(file)[part.id]
<1>1. PICK l \in Leaves(file) : part = Part(file, ProductOf(l))
  BY ParsedIs
<1> DEFINE p == ProductOf(l)
           A == At(file, p)
           I == {i \in s.instances : i.part = part.id}
           b == [o \in A |-> Instance(file, o)]
           q == Counts(file)
           e == [i \in I |-> i.quantity]
<1>2. part.id = p /\ l \in Occurrences(file) /\ ~IsAssembly(file, l)
  BY <1>1 DEF Part, Leaves
<1>3. \A o \in A : o \in Leaves(file)
  BY <1>2 DEF At, Leaves, IsAssembly
<1>4. I = {b[o] : o \in A}
  <2>1. \A o \in A : Instance(file, o) \in I
    BY <1>2, <1>3, ParsedIs DEF Instance, At
  <2>2. \A i \in I : \E o \in A : i = Instance(file, o)
    <3> TAKE i \in I
    <3>1. PICK o \in Leaves(file) : i = Instance(file, o)
      BY ParsedIs
    <3>2. o \in A
      BY <1>2, <3>1 DEF Instance, At, Leaves
    <3> QED
      BY <3>1, <3>2
  <2> QED
    BY <2>1, <2>2
<1>5. \A x, y \in A : b[x] = b[y] => x = y
  BY DEF Instance
<1>6. \A o \in A : e[b[o]] = q[o]
  <2> TAKE o \in A
  <2>1. b[o] \in I
    BY <1>4
  <2>2. e[b[o]] = QuantityOf(o)
    BY <2>1 DEF Instance
  <2>3. o \in Occurrences(file)
    BY DEF At
  <2> QED
    BY <2>2, <2>3 DEF Counts
<1>7. IsFiniteSet(A) /\ \A o \in A : q[o] \in Nat
  BY AtIsFinite
<1>8. MapThenSumSet(LAMBDA i : i.quantity, I) = Sum(e, I)
  BY QuantitiesAddUp
<1>9. p \in ToSet(file.products)
  <2>1. l.path # <<>>
    BY <1>2, RootsAreAssemblies DEF Assemblies, Leaves
  <2>2. Last(l.path) \in Usages(file) /\ p = Last(l.path).child
    BY <1>2, <2>1, ParentOccurs
  <2> QED
    BY <2>2 DEF IsFile
<1>10. Needed(file)[p] = Sum(q, A)
  BY <1>9, NeededIsWeight DEF Weight
<1> HIDE DEF p, A, b, q, e
<1>11. Sum(e, {b[o] : o \in A}) = Sum(q, A)
  BY <1>5, <1>6, <1>7, SumRenamed
<1> QED
  BY <1>2, <1>4, <1>8, <1>10, <1>11

\* An image is as large as the set just if nothing coincides.
LEMMA ImageOfSameSize ==
    ASSUME NEW S, IsFiniteSet(S), NEW b
    PROVE  /\ IsFiniteSet({b[x] : x \in S})
           /\ Cardinality({b[x] : x \in S}) = Cardinality(S) <=> \A x, y \in S : b[x] = b[y] => x = y
<1> DEFINE T == {b[x] : x \in S}
           g == [x \in S |-> b[x]]
<1>1. g \in Surjection(S, T)
  BY DEF Surjection
<1>2. IsFiniteSet(T) /\ (Cardinality(T) = Cardinality(S) <=> g \in Injection(S, T))
  <2> HIDE DEF T, g
  <2> QED
    BY <1>1, FS_Surjection
<1>3. g \in Injection(S, T) <=> \A x, y \in S : b[x] = b[y] => x = y
  BY DEF Injection, IsInjective
<1> QED
  BY <1>2, <1>3

\* Signatures are as many as what has them just if they differ.
LEMMA SigsDiffer ==
    ASSUME NEW S, IsFiniteSet(S), \A x, y \in S : x.sig = y.sig => x = y
    PROVE  Cardinality(Sigs(S)) = Cardinality(S)
<1> DEFINE b == [x \in S |-> x.sig]
<1>1. Sigs(S) = {b[x] : x \in S}
  BY DEF Sigs
<1>2. IsFiniteSet(S) /\ \A x, y \in S : b[x] = b[y] => x = y
  OBVIOUS
<1> HIDE DEF b
<1>3. Cardinality({b[x] : x \in S}) = Cardinality(S)
  BY ONLY <1>2, ImageOfSameSize
<1> QED
  BY <1>1, <1>3

\* Roots differ in name just if they are as many as their names.
LEMMA NamesOfRoots ==
    ASSUME NEW file, IsFile(file), NEW s, s = Parsed(file),
           Cardinality({n \in s.nodes : n.parent = Nil}) = Cardinality({file.name[r] : r \in Roots(file)})
    PROVE  \A q, r \in Roots(file) : file.name[q] = file.name[r] => q = r
<1> DEFINE R == Roots(file)
           N == {n \in s.nodes : n.parent = Nil}
           b == [r \in R |-> Node(file, OccursAtRoot(r))]
           c == [r \in R |-> file.name[r]]
<1>1. IsFiniteSet(R)
  BY RootsAre
<1>2. N = {b[r] : r \in R}
  <2>1. ASSUME NEW r \in R
        PROVE  b[r] \in N
    <3>1. OccursAtRoot(r) \in Occurrences(file) /\ OccursAtRoot(r).path = <<>>
      BY OccurrencesAre DEF AtRoots, OccursAtRoot
    <3>2. OccursAtRoot(r) \in Assemblies(file) /\ ParentOf(OccursAtRoot(r)) = Nil
      BY <3>1, RootsAreAssemblies
    <3> QED
      BY <3>2, ParsedIs DEF Node
  <2>2. ASSUME NEW n \in N
        PROVE  \E r \in R : n = b[r]
    <3>1. PICK o \in Assemblies(file) : n = Node(file, o)
      BY ParsedIs
    <3>2. o \in Occurrences(file) /\ ParentOf(o) = Nil
      BY <3>1 DEF Assemblies, Node
    <3>3. o.path = <<>>
      BY <3>2, ParentOccurs
    <3>4. o = OccursAtRoot(o.root) /\ o.root \in R
      BY <3>2, <3>3, RootsAreAssemblies
    <3> QED
      BY <3>1, <3>4
  <2> QED
    BY <2>1, <2>2
<1>3. \A q, r \in R : b[q] = b[r] => q = r
  BY DEF Node, OccursAtRoot
<1>4. Cardinality(N) = Cardinality(R)
  <2> HIDE DEF R, N, b
  <2>1. Cardinality({b[r] : r \in R}) = Cardinality(R)
    BY ONLY <1>1, <1>3, ImageOfSameSize
  <2> QED
    BY <1>2, <2>1
<1>5. Cardinality({c[r] : r \in R}) = Cardinality(R)
  BY <1>4
<1>6. \A q, r \in R : c[q] = c[r] => q = r
  <2> HIDE DEF R, c
  <2> QED
    BY <1>1, <1>5, ImageOfSameSize
<1> QED
  BY <1>6

\* A STEP file is kept (parseStepTextAssemblyGraph), whatever uses what: all its nodes are
\* shown, instances hang on nodes, signatures tell occurrences apart, and each part occurs as
\* often as the file asks for.
THEOREM FileIsKept ==
    ASSUME NEW file, IsFile(file)
    PROVE  Kept(file)
<1> DEFINE s == Parsed(file)
<1>1. IsTree(s, Roots(file), Usages(file))
  BY ParsedIsTree
<1>2. Shown(s) = s.nodes
  BY <1>1, AllShown
<1>3. \A i \in s.instances : \E n \in s.nodes : n.id = i.parent
  <2> TAKE i \in s.instances
  <2>1. PICK o \in Leaves(file) : i = Instance(file, o)
    BY ParsedIs
  <2>2. o \in Occurrences(file) /\ o.path # <<>>
    BY RootsAreAssemblies DEF Leaves, Assemblies
  <2>3. ParentOf(o) \in Assemblies(file)
    BY <2>2, ParentOccurs
  <2>4. Node(file, ParentOf(o)) \in s.nodes
    BY <2>3, ParsedIs
  <2> QED
    BY <2>1, <2>4 DEF Node, Instance
<1>4. ASSUME Cardinality({n \in s.nodes : n.parent = Nil}) = Cardinality({file.name[r] : r \in Roots(file)})
      PROVE  /\ Cardinality(Sigs(s.nodes)) = Cardinality(s.nodes)
             /\ Cardinality(Sigs(s.instances)) = Cardinality(s.instances)
  <2>1. \A q, r \in Roots(file) : file.name[q] = file.name[r] => q = r
    BY <1>4, NamesOfRoots
  <2>2. \A o, p \in Occurrences(file) : InstancePath(file, o) = InstancePath(file, p) => o = p
    BY <2>1, SignaturesDiffer
  <2>3. \A x, y \in s.nodes : x.sig = y.sig => x = y
    <3>1. \A x \in s.nodes : \E o \in Occurrences(file) : x = Node(file, o)
      BY ParsedIs DEF Assemblies
    <3> QED
      BY <2>2, <3>1 DEF Node
  <2>4. \A x, y \in s.instances : x.sig = y.sig => x = y
    <3>1. \A x \in s.instances : \E o \in Occurrences(file) : x = Instance(file, o)
      BY ParsedIs DEF Leaves
    <3> QED
      BY <2>2, <3>1 DEF Instance
  <2>5. IsFiniteSet(s.nodes) /\ IsFiniteSet(s.instances)
    BY <1>1 DEF IsTree
  <2> HIDE DEF s
  <2> QED
    BY <2>3, <2>4, <2>5, SigsDiffer
<1>5. ASSUME Founded(file), NEW part \in s.parts
      PROVE  MapThenSumSet(LAMBDA i : i.quantity, {i \in s.instances : i.part = part.id}) = Needed(file)[part.id]
  <2> HIDE DEF s
  <2>1. s = Parsed(file)
    BY DEF s
  <2> QED
    BY <1>5, <2>1, PartsAddUp
<1> QED
  BY <1>2, <1>3, <1>4, <1>5 DEF Kept

\* The largest of finitely many naturals.
LEMMA MaxIs ==
    ASSUME NEW S \in SUBSET Nat, IsFiniteSet(S), S # {}
    PROVE  Max(S) \in S /\ \A y \in S : y <= Max(S)
<1> DEFINE f == [x \in S |-> x]
<1>1. \A x \in S : f[x] \in Nat /\ f[x] = x
  OBVIOUS
<1> HIDE DEF f
<1>2. \E x \in S : \A y \in S : f[y] <= f[x]
  BY <1>1, LargestOne
<1>3. \E x \in S : \A y \in S : x >= y
  BY <1>1, <1>2
<1>4. Max(S) \in S /\ \A y \in S : Max(S) >= y
  BY <1>3 DEF Max
<1> QED
  BY <1>4

\* The least of some naturals is one of them.
LEMMA MinIs ==
    ASSUME NEW S \in SUBSET Nat, S # {}
    PROVE  Min(S) \in S
<1>1. \E x \in S : \A y \in S : x <= y
  BY LeastNatural
<1> QED
  BY <1>1 DEF Min

-----------------------------------------------------------------------------
(* Upserts of parts.                                                       *)

Upserts(f, parts, sent) ==
    f = [n \in 0..Max({0} \cup DOMAIN sent) |->
            IF n = 0 THEN [parts |-> parts, taken |-> <<>>]
            ELSE IF n \notin DOMAIN sent THEN f[n - 1]
            ELSE UpsertPart(f[n - 1], sent[n])]

\* What is upserted satisfies the rule, one item after the other.
LEMMA UpsertedChosen ==
    ASSUME NEW parts, NEW sent
    PROVE  UpsertParts(parts, sent) = (CHOOSE f : Upserts(f, parts, sent))[Max({0} \cup DOMAIN sent)]
BY DEF UpsertParts, Upserts

\* Items by place.
Listed(sent) == DOMAIN sent \in SUBSET (Nat \ {0}) /\ IsFiniteSet(DOMAIN sent)

\* No item comes after the last place.
LEMMA LastPlace ==
    ASSUME NEW sent, Listed(sent)
    PROVE  /\ Max({0} \cup DOMAIN sent) \in Nat
           /\ \A n \in DOMAIN sent : n <= Max({0} \cup DOMAIN sent)
<1> DEFINE S == {0} \cup DOMAIN sent
<1>1. S \in SUBSET Nat /\ S # {}
  BY DEF Listed
<1>2. IsFiniteSet(S)
  <2>1. IsFiniteSet({0})
    BY FS_Singleton
  <2> QED
    BY <2>1, FS_Union DEF Listed
<1> HIDE DEF S
<1>3. Max(S) \in S /\ \A y \in S : y <= Max(S)
  BY <1>1, <1>2, MaxIs
<1> QED
  BY <1>1, <1>3 DEF S

\* Upserting one item after the other can be done.
LEMMA UpsertsExist ==
    ASSUME NEW parts, NEW sent, Listed(sent)
    PROVE  \E f : Upserts(f, parts, sent)
<1> DEFINE Of(f, n) == IF n = 0 THEN [parts |-> parts, taken |-> <<>>]
                       ELSE IF n \notin DOMAIN sent THEN f[n - 1]
                       ELSE UpsertPart(f[n - 1], sent[n])
           N == {n \in Nat : \E f : f = [k \in 0..n |-> Of(f, k)]}
<1>1. 0 \in N
  <2> DEFINE f == [k \in 0..0 |-> [parts |-> parts, taken |-> <<>>]]
  <2>1. f = [k \in 0..0 |-> Of(f, k)]
    OBVIOUS
  <2> HIDE DEF f, Of
  <2> QED
    BY <2>1
<1>2. ASSUME NEW n \in N
      PROVE  n + 1 \in N
  <2>1. PICK f : f = [k \in 0..n |-> Of(f, k)]
    OBVIOUS
  <2> DEFINE h == [k \in 0..(n + 1) |-> IF k = n + 1 THEN Of(f, n + 1) ELSE f[k]]
  <2>2. \A k \in 0..n : h[k] = f[k] /\ k \in 0..(n + 1) /\ k # n + 1
    OBVIOUS
  <2>3. \A k \in 0..n : f[k] = Of(f, k)
    BY <2>1
  <2>4. \A k \in 0..n : Of(h, k) = Of(f, k)
    <3>1. \A k \in 0..n : k # 0 => k - 1 \in 0..n
      OBVIOUS
    <3> HIDE DEF h
    <3> QED
      BY <2>2, <3>1
  <2>5. Of(h, n + 1) = Of(f, n + 1)
    <3>1. n \in 0..n /\ (n + 1) - 1 = n
      OBVIOUS
    <3> HIDE DEF h
    <3> QED
      BY <2>2, <3>1
  <2>6. h[n + 1] = Of(f, n + 1)
    OBVIOUS
  <2>7. \A k \in 0..(n + 1) : k \in 0..n \/ k = n + 1
    OBVIOUS
  <2>8. \A k \in 0..(n + 1) : h[k] = Of(h, k)
    <3> HIDE DEF h, Of
    <3> QED
      BY <2>2, <2>3, <2>4, <2>5, <2>6, <2>7
  <2>9. h = [k \in 0..(n + 1) |-> h[k]]
    OBVIOUS
  <2>10. h = [k \in 0..(n + 1) |-> Of(h, k)]
    <3> HIDE DEF h, Of
    <3> QED
      BY <2>8, <2>9
  <2>11. n + 1 \in Nat
    OBVIOUS
  <2> HIDE DEF h, Of
  <2> QED
    BY <2>10, <2>11
<1>3. N \in SUBSET Nat
  OBVIOUS
<1> HIDE DEF N
<1>4. N = Nat
  BY <1>1, <1>2, <1>3, Induction
<1>5. Max({0} \cup DOMAIN sent) \in N
  BY <1>4, LastPlace
<1> QED
  BY <1>5 DEF Upserts, N

\* The state of an upsert, after the items up to the n-th.
KeyPerSource(parts, sent) ==
    \A p, q \in ToSet(parts) \cup Range(sent) : p.source = q.source => p.key = q.key
OneEach(parts) == \A i, j \in DOMAIN parts : parts[i].key = parts[j].key => i = j
Taking(s, parts, sent, n) ==
    /\ s = [parts |-> s.parts, taken |-> s.taken]
    /\ s.taken = [x \in DOMAIN s.taken |-> s.taken[x]]
    /\ s.parts \in Seq(ToSet(parts) \cup Range(sent))
    /\ OneEach(s.parts)
    /\ Len(parts) <= Len(s.parts)
    /\ \A i \in 1..Len(parts) : s.parts[i].key = parts[i].key
    /\ \A i \in 1..Len(s.parts) :
        \/ i \in 1..Len(parts) /\ s.parts[i] = parts[i]
               /\ \A k \in DOMAIN sent : k <= n => sent[k].key # parts[i].key
        \/ \E j \in DOMAIN sent : j <= n /\ s.parts[i] = sent[j]
               /\ \A k \in DOMAIN sent : j < k /\ k <= n => sent[k].key # sent[j].key
    /\ DOMAIN s.taken = {sent[j].source : j \in {j \in DOMAIN sent : j <= n}}
    /\ \A j \in DOMAIN sent : j <= n =>
           s.taken[sent[j].source] \in 1..Len(s.parts) /\ s.parts[s.taken[sent[j].source]].key = sent[j].key

\* Nothing has been taken at first.
LEMMA TakingStarts ==
    ASSUME NEW V, NEW parts \in Seq(V), OneEach(parts), NEW sent, Listed(sent)
    PROVE  Taking([parts |-> parts, taken |-> <<>>], parts, sent, 0)
<1>1. parts \in Seq(ToSet(parts))
  BY DEF ToSet
<1>2. parts \in Seq(ToSet(parts) \cup Range(sent))
  BY <1>1
<1>3. \A j \in DOMAIN sent : ~(j <= 0)
  BY DEF Listed
<1>4. DOMAIN <<>> = {}
  OBVIOUS
<1>5. <<>> = [x \in {} |-> <<>>[x]]
  OBVIOUS
<1> QED
  BY <1>2, <1>3, <1>4, <1>5 DEF Taking

\* A place without an item changes nothing.
LEMMA TakingSkips ==
    ASSUME NEW s, NEW parts, NEW sent, Listed(sent), NEW n \in Nat, Taking(s, parts, sent, n),
           n + 1 \notin DOMAIN sent
    PROVE  Taking(s, parts, sent, n + 1)
<1>1. \A j \in DOMAIN sent : j \in Nat /\ (j <= n + 1 <=> j <= n)
  BY DEF Listed
<1>2. {j \in DOMAIN sent : j <= n + 1} = {j \in DOMAIN sent : j <= n}
  BY <1>1
<1> HIDE DEF OneEach
<1> QED
  BY <1>1, <1>2 DEF Taking

\* An upserted part keeps all that the parts were taken for.
LEMMA TakingGoesOn ==
    ASSUME NEW s, NEW V, NEW parts \in Seq(V), NEW sent, Listed(sent), KeyPerSource(parts, sent),
           NEW n \in Nat, Taking(s, parts, sent, n), n + 1 \in DOMAIN sent
    PROVE  Taking(UpsertPart(s, sent[n + 1]), parts, sent, n + 1)
<1> DEFINE p == sent[n + 1]
           t == UpsertPart(s, p)
           L == Len(s.parts)
           A == ToSet(parts) \cup Range(sent)
           same == {i \in DOMAIN s.parts : s.parts[i].source = p.source \/ s.parts[i].key = p.key}
           at == IF same = {} THEN L + 1 ELSE Min(same)
<1>1. /\ s.parts \in Seq(A) /\ L \in Nat /\ DOMAIN s.parts = 1..L
      /\ \A i \in 1..L : s.parts[i] \in A
      /\ Len(parts) \in Nat /\ Len(parts) <= L
  BY DEF Taking
<1>2. p \in A
  BY DEF Range
<1>3. \A i \in 1..L : s.parts[i].source = p.source => s.parts[i].key = p.key
  BY <1>1, <1>2 DEF KeyPerSource
<1>4. same = {i \in 1..L : s.parts[i].key = p.key}
  BY <1>1, <1>3
<1>5. \A i, j \in 1..L : s.parts[i].key = s.parts[j].key => i = j
  BY <1>1 DEF Taking, OneEach
<1>6. t.parts = (IF same = {} THEN Append(s.parts, p) ELSE [s.parts EXCEPT ![at] = p])
      /\ t.taken = Over([x \in {p.source} |-> at], s.taken)
      /\ t = [parts |-> t.parts, taken |-> t.taken]
  BY DEF UpsertPart
<1>7. same # {} => at \in same
  <2>1. same \in SUBSET Nat
    BY <1>1
  <2> HIDE DEF same
  <2> QED
    BY <2>1, MinIs
<1> HIDE DEF same, at, t
<1>8. /\ t.parts \in Seq(A) /\ Len(t.parts) \in Nat /\ L <= Len(t.parts)
      /\ at \in 1..Len(t.parts) /\ t.parts[at] = p
      /\ \A i \in 1..Len(t.parts) : i # at => i \in 1..L /\ t.parts[i] = s.parts[i]
      /\ \A i \in 1..L : i # at => t.parts[i] = s.parts[i]
      /\ at \in 1..L => s.parts[at].key = p.key
      /\ \A i \in 1..L : i # at => s.parts[i].key # p.key
  <2>1. CASE same = {}
    <3>1. at = L + 1 /\ t.parts = Append(s.parts, p)
      BY <1>6, <2>1 DEF at
    <3> HIDE DEF L, p, A
    <3>2. t.parts \in Seq(A) /\ Len(t.parts) = L + 1 /\ t.parts[L + 1] = p /\ \A i \in 1..L : t.parts[i] = s.parts[i]
      BY <1>1, <1>2, <3>1 DEF L
    <3>3. \A i \in 1..(L + 1) : i # L + 1 => i \in 1..L
      BY <1>1
    <3>4. L + 1 \in 1..(L + 1) /\ L <= L + 1 /\ L + 1 \in Nat /\ L + 1 \notin 1..L
      BY <1>1
    <3>5. \A i \in 1..L : s.parts[i].key # p.key
      BY <1>4, <2>1
    <3> QED
      BY <3>1, <3>2, <3>3, <3>4, <3>5
  <2>2. CASE same # {}
    <3>1. at \in 1..L /\ s.parts[at].key = p.key /\ t.parts = [s.parts EXCEPT ![at] = p]
      BY <1>4, <1>6, <1>7, <2>2
    <3> HIDE DEF L, p, A
    <3>2. t.parts \in Seq(A) /\ Len(t.parts) = L /\ t.parts[at] = p
          /\ \A i \in 1..L : i # at => t.parts[i] = s.parts[i]
      BY <1>1, <1>2, <3>1 DEF L
    <3>3. \A i \in 1..L : i # at => s.parts[i].key # p.key
      BY <1>5, <3>1
    <3> QED
      BY <1>1, <3>1, <3>2, <3>3
  <2> QED
    BY <2>1, <2>2
<1> DEFINE M == Len(t.parts)
<1>9. \A i \in 1..L : t.parts[i].key = s.parts[i].key
  BY <1>8
<1>10. OneEach(t.parts)
  <2>1. DOMAIN t.parts = 1..M
    BY <1>8
  <2>2. \A i, j \in 1..M : t.parts[i].key = t.parts[j].key => i = j
    <3> HIDE DEF p, M, L, A
    <3> QED
      BY <1>5, <1>8 DEF M
  <2> QED
    BY <2>1, <2>2 DEF OneEach
<1>11. Len(parts) <= M /\ \A i \in 1..Len(parts) : t.parts[i].key = parts[i].key
  <2>1. \A i \in 1..Len(parts) : i \in 1..L /\ s.parts[i].key = parts[i].key
    BY <1>1 DEF Taking
  <2>2. Len(parts) <= M
    BY <1>1, <1>8
  <2> QED
    BY <1>9, <2>1, <2>2
<1>12. \A k \in DOMAIN sent : k \in Nat /\ (k <= n + 1 <=> (k <= n \/ k = n + 1))
  BY DEF Listed
<1>13. ASSUME NEW i \in 1..M
       PROVE  \/ i \in 1..Len(parts) /\ t.parts[i] = parts[i]
                     /\ \A k \in DOMAIN sent : k <= n + 1 => sent[k].key # parts[i].key
              \/ \E j \in DOMAIN sent : j <= n + 1 /\ t.parts[i] = sent[j]
                     /\ \A k \in DOMAIN sent : j < k /\ k <= n + 1 => sent[k].key # sent[j].key
  <2>1. CASE i = at
    <3>1. n + 1 \in DOMAIN sent /\ t.parts[i] = sent[n + 1] /\ n + 1 <= n + 1
      BY <1>8, <2>1
    <3>2. \A k \in DOMAIN sent : ~(n + 1 < k /\ k <= n + 1)
      BY <1>12
    <3> QED
      BY <3>1, <3>2
  <2>2. CASE i # at
    <3>1. i \in 1..L /\ t.parts[i] = s.parts[i] /\ s.parts[i].key # p.key
      BY <1>8, <2>2
    <3>2. CASE i \in 1..Len(parts) /\ s.parts[i] = parts[i]
                   /\ \A k \in DOMAIN sent : k <= n => sent[k].key # parts[i].key
      BY <1>12, <3>1, <3>2
    <3>3. CASE \E j \in DOMAIN sent : j <= n /\ s.parts[i] = sent[j]
                   /\ \A k \in DOMAIN sent : j < k /\ k <= n => sent[k].key # sent[j].key
      BY <1>12, <3>1, <3>3
    <3>4. \/ i \in 1..Len(parts) /\ s.parts[i] = parts[i]
                 /\ \A k \in DOMAIN sent : k <= n => sent[k].key # parts[i].key
          \/ \E j \in DOMAIN sent : j <= n /\ s.parts[i] = sent[j]
                 /\ \A k \in DOMAIN sent : j < k /\ k <= n => sent[k].key # sent[j].key
      BY <3>1 DEF Taking
    <3> QED
      BY <3>2, <3>3, <3>4
  <2> QED
    BY <2>1, <2>2
<1>14. t.taken = [x \in {p.source} \cup DOMAIN s.taken |-> IF x = p.source THEN at ELSE s.taken[x]]
  BY <1>6 DEF Over
<1>15. DOMAIN t.taken = {sent[j].source : j \in {j \in DOMAIN sent : j <= n + 1}}
  <2>1. DOMAIN s.taken = {sent[j].source : j \in {j \in DOMAIN sent : j <= n}}
    BY DEF Taking
  <2>2. {j \in DOMAIN sent : j <= n + 1} = {n + 1} \cup {j \in DOMAIN sent : j <= n}
    BY <1>12
  <2>3. DOMAIN t.taken = {p.source} \cup DOMAIN s.taken
    BY <1>14
  <2> QED
    BY <2>1, <2>2, <2>3
<1>16. ASSUME NEW j \in DOMAIN sent, j <= n + 1
       PROVE  /\ t.taken[sent[j].source] \in 1..M
              /\ t.parts[t.taken[sent[j].source]].key = sent[j].key
  <2>1. CASE sent[j].source = p.source
    <3>1. sent[j].key = p.key
      BY <1>2, <2>1 DEF KeyPerSource, Range
    <3>2. t.taken[sent[j].source] = at
      BY <1>14, <2>1
    <3> QED
      BY <1>8, <3>1, <3>2
  <2>2. CASE sent[j].source # p.source
    <3>1. j <= n
      BY <1>12, <1>16, <2>2
    <3>2. s.taken[sent[j].source] \in 1..L /\ s.parts[s.taken[sent[j].source]].key = sent[j].key
          /\ sent[j].source \in DOMAIN s.taken
      BY <3>1 DEF Taking
    <3>3. t.taken[sent[j].source] = s.taken[sent[j].source]
      BY <1>14, <2>2, <3>2
    <3>4. L \in Nat /\ M \in Nat /\ L <= M
      BY <1>1, <1>8
    <3> HIDE DEF L
    <3>5. 1..L \subseteq 1..M
      BY ONLY <3>4
    <3> QED
      BY <1>9, <3>2, <3>3, <3>5
  <2> QED
    BY <2>1, <2>2
<1>17. t.taken = [x \in DOMAIN t.taken |-> t.taken[x]]
  BY <1>14
<1>18. t.parts \in Seq(ToSet(parts) \cup Range(sent))
  BY <1>8
<1> HIDE DEF p, A, L
<1>19. Taking(t, parts, sent, n + 1)
  BY <1>6, <1>10, <1>11, <1>13, <1>15, <1>16, <1>17, <1>18 DEF Taking
<1> QED
  BY <1>19 DEF t, p

\* All parts that were sent are taken for one with their key.
LEMMA UpsertsAreTaken ==
    ASSUME NEW V, NEW parts \in Seq(V), OneEach(parts), NEW sent, Listed(sent), KeyPerSource(parts, sent),
           NEW m, m = Max({0} \cup DOMAIN sent)
    PROVE  m \in Nat /\ Taking(UpsertParts(parts, sent), parts, sent, m)
<1>1. m \in Nat
  BY LastPlace
<1> DEFINE f == CHOOSE g : Upserts(g, parts, sent)
           S == {n \in Nat : n <= m => Taking(f[n], parts, sent, n)}
<1>2. Upserts(f, parts, sent)
  BY UpsertsExist
<1> HIDE DEF f
<1>3. \A n \in 0..m : f[n] = IF n = 0 THEN [parts |-> parts, taken |-> <<>>]
                            ELSE IF n \notin DOMAIN sent THEN f[n - 1]
                            ELSE UpsertPart(f[n - 1], sent[n])
  BY <1>2 DEF Upserts
<1>4. 0 \in S
  <2>1. 0 \in 0..m
    BY <1>1
  <2>2. f[0] = [parts |-> parts, taken |-> <<>>]
    BY <1>3, <2>1
  <2> QED
    BY <2>2, TakingStarts
<1>5. ASSUME NEW n \in S
      PROVE  n + 1 \in S
  <2> SUFFICES ASSUME n + 1 <= m
               PROVE  Taking(f[n + 1], parts, sent, n + 1)
    OBVIOUS
  <2>1. Taking(f[n], parts, sent, n) /\ n \in Nat
    BY <1>1
  <2>2. n + 1 \in 0..m /\ n + 1 # 0 /\ (n + 1) - 1 = n
    BY <1>1
  <2>3. CASE n + 1 \in DOMAIN sent
    <3>1. f[n + 1] = UpsertPart(f[n], sent[n + 1])
      BY <1>3, <2>2, <2>3
    <3> QED
      BY <2>1, <2>3, <3>1, TakingGoesOn
  <2>4. CASE n + 1 \notin DOMAIN sent
    <3>1. f[n + 1] = f[n]
      BY <1>3, <2>2, <2>4
    <3> QED
      BY <2>1, <2>4, <3>1, TakingSkips
  <2> QED
    BY <2>3, <2>4
<1>6. S \in SUBSET Nat
  OBVIOUS
<1> HIDE DEF S
<1>7. S = Nat
  BY <1>4, <1>5, <1>6, Induction
<1>8. Taking(f[m], parts, sent, m)
  <2>1. m \in S /\ m <= m
    BY <1>1, <1>7
  <2> QED
    BY <2>1 DEF S
<1> QED
  BY <1>1, <1>8, UpsertedChosen DEF f

\* Parts that are upserted again stay as they are.
LEMMA UpsertedAgain ==
    ASSUME NEW sent, Listed(sent), KeyPerSource(<<>>, sent), NEW s, s = UpsertParts(<<>>, sent)
    PROVE  UpsertParts(s.parts, sent) = s
<1> DEFINE m == Max({0} \cup DOMAIN sent)
           t == UpsertParts(s.parts, sent)
           V == Range(sent)
<1>1. <<>> \in Seq(V) /\ Len(<<>>) = 0 /\ ToSet(<<>>) = {} /\ OneEach(<<>>)
  BY DEF ToSet, OneEach
<1>2. m \in Nat /\ Taking(s, <<>>, sent, m)
  BY <1>1, UpsertsAreTaken
<1>3. \A j \in DOMAIN sent : j \in Nat /\ j <= m
  BY LastPlace DEF Listed
<1>4. s.parts \in Seq(V) /\ OneEach(s.parts) /\ DOMAIN s.parts = 1..Len(s.parts) /\ Len(s.parts) \in Nat
  <2>1. s.parts \in Seq({} \cup V) /\ OneEach(s.parts)
    BY <1>1, <1>2 DEF Taking
  <2> QED
    BY <2>1
<1>5. KeyPerSource(s.parts, sent)
  <2>1. ToSet(s.parts) \cup V = V
    BY <1>4 DEF ToSet
  <2>2. ToSet(<<>>) \cup V = V
    BY <1>1
  <2> QED
    BY <2>1, <2>2 DEF KeyPerSource
<1> HIDE DEF m
<1>6. Taking(t, s.parts, sent, m)
  BY <1>4, <1>5, UpsertsAreTaken DEF m
<1> HIDE DEF t, V
<1> DEFINE L == Len(s.parts)
<1>7. \A i \in 1..L : \E j \in DOMAIN sent : s.parts[i] = sent[j]
          /\ \A k \in DOMAIN sent : j < k => sent[k].key # sent[j].key
  <2> TAKE i \in 1..L
  <2>1. i \notin 1..Len(<<>>)
    BY <1>1
  <2>2. \E j \in DOMAIN sent : j <= m /\ s.parts[i] = sent[j]
          /\ \A k \in DOMAIN sent : j < k /\ k <= m => sent[k].key # sent[j].key
    BY <1>2, <2>1 DEF Taking
  <2> QED
    BY <1>3, <2>2
<1>8. ASSUME NEW i \in 1..L
      PROVE  i \in 1..Len(t.parts) /\ t.parts[i] = s.parts[i]
  <2>1. L <= Len(t.parts) /\ Len(t.parts) \in Nat /\ t.parts[i].key = s.parts[i].key
    BY <1>6 DEF Taking
  <2>2. i \in 1..Len(t.parts)
    BY <1>4, <2>1
  <2>3. PICK j \in DOMAIN sent : s.parts[i] = sent[j]
            /\ \A k \in DOMAIN sent : j < k => sent[k].key # sent[j].key
    BY <1>7
  <2>4. ~\A k \in DOMAIN sent : k <= m => sent[k].key # s.parts[i].key
    BY <1>3, <2>3
  <2>5. PICK l \in DOMAIN sent : t.parts[i] = sent[l] /\ l <= m
            /\ \A k \in DOMAIN sent : l < k /\ k <= m => sent[k].key # sent[l].key
    BY <1>6, <2>2, <2>4 DEF Taking
  <2>6. j = l
    <3>1. sent[j].key = sent[l].key
      BY <2>1, <2>3, <2>5
    <3>2. j \in Nat /\ l \in Nat /\ ~(j < l) /\ ~(l < j)
      BY <1>3, <2>3, <2>5, <3>1
    <3> QED
      BY <3>2
  <2> QED
    BY <2>2, <2>3, <2>5, <2>6
<1>9. t.parts \in Seq(V) /\ DOMAIN t.parts = 1..Len(t.parts) /\ Len(t.parts) \in Nat
  <2>1. t.parts \in Seq(ToSet(s.parts) \cup V)
    BY <1>6 DEF Taking, V
  <2>2. ToSet(s.parts) \cup V = V
    BY <1>4 DEF ToSet
  <2> QED
    BY <2>1, <2>2
<1>10. ASSUME NEW x \in DOMAIN s.taken
       PROVE  /\ x \in DOMAIN t.taken /\ s.taken[x] \in 1..L /\ t.taken[x] \in 1..Len(t.parts)
              /\ s.parts[s.taken[x]].key = t.parts[t.taken[x]].key
  <2>1. PICK j \in DOMAIN sent : x = sent[j].source /\ j <= m
    BY <1>2 DEF Taking
  <2> QED
    BY <1>2, <1>6, <2>1 DEF Taking
<1>11. DOMAIN t.taken = DOMAIN s.taken
  BY <1>2, <1>6 DEF Taking
<1>12. ASSUME NEW i \in 1..Len(t.parts)
       PROVE  i \in 1..L
  <2>1. CASE i \in 1..Len(s.parts)
    BY <2>1
  <2>2. CASE i \notin 1..Len(s.parts)
    <3>1. PICK j \in DOMAIN sent : t.parts[i] = sent[j] /\ j <= m
      BY <1>6, <2>2 DEF Taking
    <3>2. s.taken[sent[j].source] \in 1..L /\ s.parts[s.taken[sent[j].source]].key = sent[j].key
      BY <1>2, <3>1 DEF Taking
    <3>3. t.parts[s.taken[sent[j].source]] = s.parts[s.taken[sent[j].source]]
          /\ s.taken[sent[j].source] \in 1..Len(t.parts)
      BY <1>8, <3>2
    <3>4. OneEach(t.parts)
      BY <1>6 DEF Taking
    <3>5. i = s.taken[sent[j].source]
      BY <1>9, <3>1, <3>2, <3>3, <3>4 DEF OneEach
    <3> QED
      BY <3>2, <3>5
  <2> QED
    BY <2>1, <2>2
<1>13. t.parts = s.parts
  <2>1. 1..Len(t.parts) = 1..L
    BY <1>8, <1>12
  <2>2. t.parts = [i \in 1..Len(t.parts) |-> t.parts[i]] /\ s.parts = [i \in 1..L |-> s.parts[i]]
    BY <1>4, <1>9
  <2> HIDE DEF L
  <2> QED
    BY <1>8, <2>1, <2>2
<1>14. t.taken = s.taken
  <2>1. \A x \in DOMAIN s.taken : t.taken[x] = s.taken[x]
    BY <1>4, <1>10, <1>13 DEF OneEach
  <2>2. t.taken = [x \in DOMAIN t.taken |-> t.taken[x]] /\ s.taken = [x \in DOMAIN s.taken |-> s.taken[x]]
    BY <1>2, <1>6 DEF Taking
  <2> QED
    BY <1>11, <2>1, <2>2
<1>15. t = [parts |-> t.parts, taken |-> t.taken] /\ s = [parts |-> s.parts, taken |-> s.taken]
  BY <1>2, <1>6 DEF Taking
<1>16. t = s
  BY <1>13, <1>14, <1>15
<1> QED
  BY <1>16 DEF t

-----------------------------------------------------------------------------
(* Bills of materials.                                                     *)

IsBom(bom) ==
    /\ Listed(bom.parts) /\ KeyPerSource(<<>>, bom.parts)
    /\ DOMAIN bom.instances = DOMAIN bom.parts
    /\ \A i \in DOMAIN bom.instances :
        /\ bom.instances[i].part = bom.parts[i].source
        /\ bom.instances[i].parent \in SourcesIn(bom.nodes)
    /\ \A i, j \in DOMAIN bom.instances :
           bom.instances[i].source = bom.instances[j].source => bom.instances[i].part = bom.instances[j].part
    /\ DOMAIN bom.nodes \in SUBSET Nat /\ IsFiniteSet(DOMAIN bom.nodes)
    /\ 0 \in DOMAIN bom.nodes /\ bom.nodes[0] = Root
    /\ Missing \notin SourcesIn(bom.nodes)
    /\ \A i \in DOMAIN bom.nodes \ {0} : bom.nodes[i].parent \in SourcesIn(bom.nodes)

\* The last item of a source is one of that source.
LEMMA LastOfIs ==
    ASSUME NEW items, DOMAIN items \in SUBSET Nat, IsFiniteSet(DOMAIN items), NEW x \in SourcesIn(items)
    PROVE  \E i \in DOMAIN items : LastOf(items, x) = items[i] /\ items[i].source = x
<1> DEFINE S == {i \in DOMAIN items : items[i].source = x}
<1>1. S \in SUBSET Nat /\ S # {} /\ IsFiniteSet(S)
  <2>1. S \in SUBSET (DOMAIN items)
    OBVIOUS
  <2>2. S # {}
    BY DEF SourcesIn
  <2> QED
    BY <2>1, <2>2, FS_Subset
<1>2. LastOf(items, x) = items[Max(S)]
  BY DEF LastOf
<1> HIDE DEF S
<1>3. Max(S) \in S
  BY <1>1, MaxIs
<1> QED
  BY <1>2, <1>3 DEF S

\* What is put over nothing is itself, and the same when put there again.
LEMMA OverNothing ==
    ASSUME NEW f
    PROVE  /\ DOMAIN Over(f, <<>>) = DOMAIN f
           /\ \A x \in DOMAIN f : Over(f, <<>>)[x] = f[x]
           /\ Over(f, Over(f, <<>>)) = Over(f, <<>>)
<1>1. DOMAIN <<>> = {}
  OBVIOUS
<1>2. Over(f, <<>>) = [x \in DOMAIN f |-> f[x]]
  BY <1>1 DEF Over
<1> QED
  BY <1>2 DEF Over

ToNodes(bom) == [source \in SourcesIn(bom.nodes) |-> Among(LastOf(bom.nodes, source).parent, bom.nodes)]
ToInstances(bom, taken) ==
    [source \in SourcesIn(bom.instances) |->
        LET x == LastOf(bom.instances, source)
        IN  [part |-> taken[x.part], parent |-> Among(x.parent, bom.nodes), quantity |-> x.quantity]]

\* An import upserts the nodes, the parts and the instances.
LEMMA ImportedMeans ==
    ASSUME NEW graph, NEW bom, NEW u, u = UpsertParts(graph.parts, bom.parts)
    PROVE  Imported(graph, bom) = [nodes |-> Over(ToNodes(bom), graph.nodes), parts |-> u.parts,
                                   instances |-> Over(ToInstances(bom, u.taken), graph.instances)]
BY DEF Imported, UpsertNodes, UpsertInstances, ToNodes, ToInstances

\* What a first import makes, and that another one of the same adds nothing.
LEMMA ImportedIs ==
    ASSUME NEW bom, IsBom(bom), NEW u, u = UpsertParts(<<>>, bom.parts), NEW graph, graph = Imported(Empty, bom)
    PROVE  /\ graph.parts = u.parts
           /\ DOMAIN graph.nodes = SourcesIn(bom.nodes)
           /\ \A x \in SourcesIn(bom.nodes) :
                  graph.nodes[x] = Among(LastOf(bom.nodes, x).parent, bom.nodes)
           /\ DOMAIN graph.instances = SourcesIn(bom.instances)
           /\ \A x \in SourcesIn(bom.instances) :
                  /\ graph.instances[x].part = u.taken[LastOf(bom.instances, x).part]
                  /\ graph.instances[x].parent = Among(LastOf(bom.instances, x).parent, bom.nodes)
                  /\ graph.instances[x].quantity = LastOf(bom.instances, x).quantity
           /\ Imported(graph, bom) = graph
<1> DEFINE f == ToNodes(bom)
           e == ToInstances(bom, u.taken)
<1>1. graph = [nodes |-> Over(f, <<>>), parts |-> u.parts, instances |-> Over(e, <<>>)]
  <2>1. Empty.parts = <<>> /\ Empty.nodes = <<>> /\ Empty.instances = <<>>
    BY DEF Empty
  <2> QED
    BY <2>1, ImportedMeans
<1>2. UpsertParts(u.parts, bom.parts) = u
  BY UpsertedAgain DEF IsBom
<1>3. Imported(graph, bom) = [nodes |-> Over(f, graph.nodes), parts |-> u.parts, instances |-> Over(e, graph.instances)]
  <2>1. graph.parts = u.parts
    BY <1>1
  <2> QED
    BY <1>2, <2>1, ImportedMeans
<1>4. DOMAIN f = SourcesIn(bom.nodes) /\ DOMAIN e = SourcesIn(bom.instances)
  BY DEF ToNodes, ToInstances
<1>5. \A x \in SourcesIn(bom.nodes) : f[x] = Among(LastOf(bom.nodes, x).parent, bom.nodes)
  BY DEF ToNodes
<1>6. \A x \in SourcesIn(bom.instances) :
          /\ e[x].part = u.taken[LastOf(bom.instances, x).part]
          /\ e[x].parent = Among(LastOf(bom.instances, x).parent, bom.nodes)
          /\ e[x].quantity = LastOf(bom.instances, x).quantity
  BY DEF ToInstances
<1> HIDE DEF f, e
<1>7. Imported(graph, bom) = graph
  BY <1>1, <1>3, OverNothing
<1>8. graph.instances = Over(e, <<>>) /\ graph.nodes = Over(f, <<>>) /\ graph.parts = u.parts
  <2>1. ASSUME NEW a, NEW b, NEW c, graph = [nodes |-> a, parts |-> c, instances |-> b]
        PROVE  graph.instances = b /\ graph.nodes = a /\ graph.parts = c
    BY ONLY <2>1, SMTT(60)
  <2> QED
    BY ONLY <1>1, <2>1
<1> QED
  BY <1>4, <1>5, <1>6, <1>7, <1>8, OverNothing

\* Each part is there once, and each instance is one of its part.
LEMMA PartsAreTaken ==
    ASSUME NEW bom, IsBom(bom), NEW graph, graph = Imported(Empty, bom)
    PROVE  /\ OneEach(graph.parts)
           /\ \A i \in DOMAIN bom.instances :
                  LET x == graph.instances[bom.instances[i].source]
                  IN  graph.parts[x.part].key = bom.parts[i].key
<1> DEFINE u == UpsertParts(<<>>, bom.parts)
           sent == bom.parts
           m == Max({0} \cup DOMAIN sent)
<1>1. Taking(u, <<>>, sent, m) /\ \A j \in DOMAIN sent : j <= m
  <2>1. <<>> \in Seq(Range(sent)) /\ OneEach(<<>>)
    BY DEF OneEach
  <2> QED
    BY <2>1, UpsertsAreTaken, LastPlace DEF IsBom
<1> HIDE DEF m
<1>2. OneEach(u.parts) /\ \A j \in DOMAIN sent : u.parts[u.taken[sent[j].source]].key = sent[j].key
  BY <1>1 DEF Taking
<1>3. graph.parts = u.parts
  <2>1. u = UpsertParts(<<>>, bom.parts)
    OBVIOUS
  <2> HIDE DEF u
  <2> QED
    BY ONLY <2>1, IsBom(bom), graph = Imported(Empty, bom), ImportedIs
<1>4. ASSUME NEW i \in DOMAIN bom.instances
      PROVE  graph.parts[graph.instances[bom.instances[i].source].part].key = bom.parts[i].key
  <2> DEFINE x == bom.instances[i].source
             last == LastOf(bom.instances, x)
  <2>1. x \in SourcesIn(bom.instances)
    BY DEF SourcesIn
  <2>2. PICK k \in DOMAIN bom.instances : last = bom.instances[k] /\ bom.instances[k].source = x
    <3>1. DOMAIN bom.instances \in SUBSET Nat /\ IsFiniteSet(DOMAIN bom.instances)
      BY DEF IsBom, Listed
    <3> QED
      BY <2>1, <3>1, LastOfIs
  <2>3. graph.instances[x].part = u.taken[last.part]
    BY <2>1, ImportedIs
  <2>4. last.part = sent[i].source /\ i \in DOMAIN sent
    BY <2>2 DEF IsBom
  <2> HIDE DEF u
  <2> QED
    BY <1>2, <1>3, <2>3, <2>4
<1> QED
  BY <1>2, <1>3, <1>4

\* Parts of one source have one key.
LEMMA KeyOfSource ==
    ASSUME NEW bom, IsBom(bom), NEW i \in DOMAIN bom.parts
    PROVE  (CHOOSE p \in Range(bom.parts) : p.source = bom.parts[i].source).key = bom.parts[i].key
<1>1. bom.parts[i] \in Range(bom.parts)
  BY DEF Range
<1>2. \A p, q \in Range(bom.parts) : p.source = q.source => p.key = q.key
  BY DEF IsBom, KeyPerSource
<1> QED
  BY <1>1, <1>2

-----------------------------------------------------------------------------
(* What is above what.                                                     *)

Forest(bom) ==
    \A S \in SUBSET (DOMAIN bom.nodes \ {0}) : S # {} =>
        \E i \in S : \A j \in S : bom.nodes[i].parent # bom.nodes[j].source

\* Where items are distinct, each is in the graph as it was sent.
LEMMA NodesAre ==
    ASSUME NEW bom, IsBom(bom), Distinct(bom), NEW graph, graph = Imported(Empty, bom)
    PROVE  /\ \A i, j \in DOMAIN bom.nodes : bom.nodes[i].source = bom.nodes[j].source => i = j
           /\ \A i, j \in DOMAIN bom.instances : bom.instances[i].source = bom.instances[j].source => i = j
           /\ \A i \in DOMAIN bom.nodes : bom.nodes[i].source \in DOMAIN graph.nodes
           /\ \A i \in DOMAIN bom.nodes \ {0} : graph.nodes[bom.nodes[i].source] = bom.nodes[i].parent
           /\ Root.source \in DOMAIN graph.nodes /\ graph.nodes[Root.source] = Missing
           /\ IsFiniteSet(DOMAIN graph.nodes) /\ Cardinality(DOMAIN graph.nodes) \in Nat
           /\ \A i \in DOMAIN bom.instances :
                  graph.instances[bom.instances[i].source].parent = bom.instances[i].parent
                  /\ graph.instances[bom.instances[i].source].quantity = bom.instances[i].quantity
<1> DEFINE N == bom.nodes
           I == bom.instances
           b == [i \in DOMAIN N |-> N[i].source]
           c == [i \in DOMAIN I |-> I[i].source]
<1>1. IsFiniteSet(DOMAIN N) /\ IsFiniteSet(DOMAIN I) /\ DOMAIN N \in SUBSET Nat /\ DOMAIN I \in SUBSET Nat
  BY DEF IsBom, Listed
<1>2. SourcesIn(N) = {b[i] : i \in DOMAIN N} /\ SourcesIn(I) = {c[i] : i \in DOMAIN I}
  BY DEF SourcesIn
<1>3. IsFiniteSet(SourcesIn(N)) /\ \A i, j \in DOMAIN N : b[i] = b[j] => i = j
  <2> HIDE DEF b, N
  <2> QED
    BY <1>1, <1>2, ImageOfSameSize DEF Distinct, N
<1>4. \A i, j \in DOMAIN I : c[i] = c[j] => i = j
  <2> HIDE DEF c, I
  <2> QED
    BY <1>1, <1>2, ImageOfSameSize DEF Distinct, I
<1>5. \A i, j \in DOMAIN N : N[i].source = N[j].source => i = j
  BY <1>3
<1>6. \A i, j \in DOMAIN I : I[i].source = I[j].source => i = j
  BY <1>4
<1>7. ASSUME NEW i \in DOMAIN N
      PROVE  N[i].source \in SourcesIn(N) /\ LastOf(N, N[i].source) = N[i]
  <2>1. N[i].source \in SourcesIn(N)
    BY DEF SourcesIn
  <2> QED
    BY <1>1, <1>5, <2>1, LastOfIs
<1>8. ASSUME NEW i \in DOMAIN I
      PROVE  I[i].source \in SourcesIn(I) /\ LastOf(I, I[i].source) = I[i]
  <2>1. I[i].source \in SourcesIn(I)
    BY DEF SourcesIn
  <2> QED
    BY <1>1, <1>6, <2>1, LastOfIs
<1>9. DOMAIN graph.nodes = SourcesIn(N)
      /\ \A x \in SourcesIn(N) : graph.nodes[x] = Among(LastOf(N, x).parent, N)
  BY ImportedIs
<1>10. ASSUME NEW i \in DOMAIN I
       PROVE  graph.instances[I[i].source].parent = I[i].parent /\ graph.instances[I[i].source].quantity = I[i].quantity
  <2>1. graph.instances[I[i].source].parent = Among(I[i].parent, N)
        /\ graph.instances[I[i].source].quantity = I[i].quantity
    BY <1>8, ImportedIs
  <2> QED
    BY <2>1 DEF Among, IsBom
<1>11. \A i \in DOMAIN N \ {0} : graph.nodes[N[i].source] = N[i].parent
  BY <1>7, <1>9 DEF Among, IsBom
<1>12. Root.source \in DOMAIN graph.nodes /\ graph.nodes[Root.source] = Missing
  <2>1. 0 \in DOMAIN N /\ N[0] = Root
    BY DEF IsBom
  <2>2. Root.parent = Missing
    BY DEF Root
  <2> QED
    BY <1>7, <1>9, <2>1, <2>2 DEF Among, IsBom
<1>13. Cardinality(SourcesIn(N)) \in Nat
  BY <1>3, FS_CardinalityType
<1> QED
  BY <1>3, <1>5, <1>6, <1>7, <1>9, <1>10, <1>11, <1>12, <1>13

Climbs(nodes, source, f) ==
    f = [n \in 0..Cardinality(DOMAIN nodes) |->
            IF n = 0 THEN source ELSE IF f[n - 1] = Missing THEN Missing ELSE nodes[f[n - 1]]]
Climb(nodes, source) == CHOOSE f : Climbs(nodes, source, f)

\* What is above a source is climbed to from it.
LEMMA AboveClimbs ==
    ASSUME NEW graph, NEW source
    PROVE  AboveIn(graph, source) =
               {Climb(graph.nodes, source)[n] : n \in DOMAIN Climb(graph.nodes, source)} \ {Missing}
BY DEF AboveIn, Climb, Climbs

\* A graph whose nodes have nodes or nothing above them.
Hangs(nodes) == /\ \A x \in DOMAIN nodes : nodes[x] \in DOMAIN nodes \cup {Missing}
                /\ Missing \notin DOMAIN nodes
                /\ IsFiniteSet(DOMAIN nodes)

\* A climb goes from each node to the one above it.
LEMMA ClimbIs ==
    ASSUME NEW nodes, Hangs(nodes), NEW source \in DOMAIN nodes, NEW N, N = Cardinality(DOMAIN nodes),
           NEW f, f = Climb(nodes, source)
    PROVE  /\ N \in Nat /\ DOMAIN f = 0..N
           /\ f[0] = source
           /\ \A n \in 0..N : f[n] \in DOMAIN nodes \cup {Missing}
           /\ \A n \in 0..N : n + 1 \in 0..N =>
                  f[n + 1] = IF f[n] = Missing THEN Missing ELSE nodes[f[n]]
<1> DEFINE V == DOMAIN nodes \cup {Missing}
           F == [x \in Nat \X V |-> IF x[2] = Missing THEN Missing ELSE nodes[x[2]]]
<1>1. N \in Nat /\ source \in V
  BY FS_CardinalityType DEF Hangs
<1>2. F \in [Nat \X V -> V]
  <2>1. \A x \in Nat \X V : (IF x[2] = Missing THEN Missing ELSE nodes[x[2]]) \in V
    BY DEF Hangs
  <2> QED
    BY <2>1
<1>3. \A n \in Nat : \A x \in V : F[<<n, x>>] = IF x = Missing THEN Missing ELSE nodes[x]
  OBVIOUS
<1> HIDE DEF F, V
<1>4. Stepwise(0, N, V, source, F)
  BY <1>1, <1>2, Recursion
<1>5. PICK g \in [0..N -> V] : \A n \in 0..N : g[n] = IF n = 0 THEN source ELSE F[<<n, g[n - 1]>>]
  BY <1>4 DEF Stepwise
<1>6. \A n \in 0..N : n # 0 => n - 1 \in 0..N /\ g[n - 1] \in V
  BY <1>1, <1>5
<1>7. \A n \in 0..N : g[n] = IF n = 0 THEN source ELSE IF g[n - 1] = Missing THEN Missing ELSE nodes[g[n - 1]]
  <2> TAKE n \in 0..N
  <2>1. CASE n = 0
    BY <1>5, <2>1
  <2>2. CASE n # 0
    <3>1. n \in Nat /\ g[n - 1] \in V /\ g[n] = F[<<n, g[n - 1]>>]
      BY <1>1, <1>5, <1>6, <2>2
    <3> QED
      BY <1>3, <2>2, <3>1
  <2> QED
    BY <2>1, <2>2
<1>8. g = [n \in 0..N |-> IF n = 0 THEN source ELSE IF g[n - 1] = Missing THEN Missing ELSE nodes[g[n - 1]]]
  <2>1. g \in [0..N -> V]
    BY <1>5
  <2>2. g = [n \in 0..N |-> g[n]]
    BY ONLY <2>1
  <2> QED
    BY ONLY <1>7, <2>2
<1>9. Climbs(nodes, source, f)
  <2>1. \E h : Climbs(nodes, source, h)
    BY <1>8 DEF Climbs
  <2> QED
    BY ONLY <2>1, f = Climb(nodes, source) DEF Climb
<1>10. DOMAIN f = 0..N
       /\ \A n \in 0..N : f[n] = IF n = 0 THEN source ELSE IF f[n - 1] = Missing THEN Missing ELSE nodes[f[n - 1]]
  BY <1>9 DEF Climbs
<1>11. 0 \in 0..N /\ \A n \in 0..N : n + 1 \in 0..N => n + 1 # 0 /\ (n + 1) - 1 = n
  BY <1>1
<1>12. f[0] = source
  BY <1>10, <1>11
<1>13. \A n \in 0..N : n + 1 \in 0..N => f[n + 1] = IF f[n] = Missing THEN Missing ELSE nodes[f[n]]
  BY <1>10, <1>11
<1> DEFINE S == {n \in Nat : n <= N => f[n] \in V}
<1>14. 0 \in S
  BY <1>1, <1>12
<1>15. ASSUME NEW n \in S
       PROVE  n + 1 \in S
  <2> SUFFICES ASSUME n + 1 <= N PROVE f[n + 1] \in V
    OBVIOUS
  <2>1. n \in 0..N /\ n + 1 \in 0..N /\ f[n] \in V
    BY <1>1
  <2>2. f[n + 1] = IF f[n] = Missing THEN Missing ELSE nodes[f[n]]
    BY <1>13, <2>1
  <2> QED
    BY <2>1, <2>2 DEF V, Hangs
<1>16. S \in SUBSET Nat
  OBVIOUS
<1> HIDE DEF S
<1>17. S = Nat
  BY <1>14, <1>15, <1>16, Induction
<1>18. \A n \in 0..N : f[n] \in V
  <2>1. \A n \in 0..N : n \in S /\ n <= N
    BY <1>1, <1>17
  <2> QED
    BY <2>1 DEF S
<1> QED
  BY <1>1, <1>10, <1>12, <1>13, <1>18 DEF V

\* Where nothing goes round, whoever climbs gets to the root before running out of nodes.
Grounded(nodes, root) ==
    /\ root \in DOMAIN nodes /\ nodes[root] = Missing
    /\ \A x \in DOMAIN nodes \ {root} : nodes[x] \in DOMAIN nodes
    /\ \A S \in SUBSET (DOMAIN nodes \ {root}) : S # {} => \E x \in S : nodes[x] \notin S

\* Where nodes are grounded, every climb gets to the root.
LEMMA RootIsReached ==
    ASSUME NEW nodes, Hangs(nodes), NEW root, Grounded(nodes, root), NEW source \in DOMAIN nodes,
           NEW N, N = Cardinality(DOMAIN nodes), NEW f, f = Climb(nodes, source)
    PROVE  \E n \in 0..(N - 1) : f[n] = root
<1> SUFFICES ASSUME \A n \in 0..(N - 1) : f[n] # root PROVE FALSE
  OBVIOUS
<1> DEFINE D == DOMAIN nodes
           T == D \ {root}
           S == {n \in Nat : n <= N - 1 => f[n] \in T}
<1>1. /\ N \in Nat /\ DOMAIN f = 0..N /\ f[0] = source
      /\ \A n \in 0..N : n + 1 \in 0..N =>
             f[n + 1] = IF f[n] = Missing THEN Missing ELSE nodes[f[n]]
  BY ClimbIs
<1>2. IsFiniteSet(D) /\ root \in D /\ Missing \notin D
  BY DEF Hangs, Grounded
<1>3. N # 0
  BY <1>2, FS_EmptySet
<1>4. 0 \in S
  <2>1. 0 \in 0..(N - 1)
    BY <1>1, <1>3
  <2> QED
    BY <1>1, <2>1
<1>5. ASSUME NEW n \in S
      PROVE  n + 1 \in S
  <2> SUFFICES ASSUME n + 1 <= N - 1 PROVE f[n + 1] \in T
    OBVIOUS
  <2>1. n \in 0..N /\ n + 1 \in 0..N /\ n + 1 \in 0..(N - 1) /\ f[n] \in T
    BY <1>1
  <2>2. f[n + 1] = nodes[f[n]]
    BY <1>1, <1>2, <2>1
  <2>3. f[n + 1] # root
    BY <2>1
  <2> QED
    BY <2>1, <2>2, <2>3 DEF Grounded
<1>6. S \in SUBSET Nat
  OBVIOUS
<1> HIDE DEF S
<1>7. S = Nat
  BY <1>4, <1>5, <1>6, Induction
<1>8. \A n \in 0..(N - 1) : f[n] \in T
  <2>1. \A n \in 0..(N - 1) : n \in S /\ n <= N - 1
    BY <1>1, <1>7
  <2> QED
    BY <2>1 DEF S
<1>9. \E i, j \in 0..(N - 1) : i # j /\ f[i] = f[j]
  <2> DEFINE g == [n \in 0..(N - 1) |-> f[n]]
             P == 0..(N - 1)
  <2>1. g \in [P -> T]
    BY <1>8
  <2>2. IsFiniteSet(P) /\ Cardinality(P) = N
    <3>1. 0 \in Int /\ N - 1 \in Int /\ ~(0 > N - 1) /\ (N - 1) - 0 + 1 = N
      BY <1>1, <1>3
    <3> QED
      BY <3>1, FS_Interval
  <2>3. IsFiniteSet(T) /\ Cardinality(T) = N - 1
    BY <1>2, FS_RemoveElement
  <2>4. Cardinality(T) < Cardinality(P)
    BY <1>1, <2>2, <2>3
  <2>5. \A n \in P : g[n] = f[n]
    OBVIOUS
  <2> HIDE DEF g, P, T
  <2>6. \E i, j \in P : i # j /\ g[i] = g[j]
    BY <2>1, <2>2, <2>3, <2>4, FS_PigeonHole
  <2> QED
    BY <2>5, <2>6 DEF P
<1>10. PICK i, j \in 0..(N - 1) : i < j /\ f[i] = f[j]
  BY <1>1, <1>9
<1> DEFINE Round == {f[k] : k \in i..(j - 1)}
<1>11. Round \in SUBSET T /\ Round # {}
  <2>1. \A k \in i..(j - 1) : k \in 0..(N - 1)
    BY <1>1, <1>10
  <2>2. i \in i..(j - 1)
    BY <1>1, <1>10
  <2> QED
    BY <1>8, <2>1, <2>2
<1>12. ASSUME NEW x \in Round
       PROVE  nodes[x] \in Round
  <2>1. PICK k \in i..(j - 1) : x = f[k]
    OBVIOUS
  <2>2. k \in 0..N /\ k + 1 \in 0..N /\ k \in 0..(N - 1)
    BY <1>1, <1>10
  <2>3. f[k + 1] = nodes[x]
    BY <1>1, <1>2, <1>8, <2>1, <2>2
  <2>4. CASE k + 1 = j
    <3>1. i \in i..(j - 1)
      BY <1>1, <1>10
    <3> QED
      BY <1>10, <2>3, <2>4, <3>1
  <2>5. CASE k + 1 # j
    <3>1. k + 1 \in i..(j - 1)
      BY <1>1, <1>10, <2>5
    <3> QED
      BY <2>3, <3>1
  <2> QED
    BY <2>4, <2>5
<1> HIDE DEF Round
<1> QED
  BY <1>11, <1>12 DEF Grounded

\* What is above a node is the node itself, and what is above the one it hangs from.
LEMMA AboveSteps ==
    ASSUME NEW graph, Hangs(graph.nodes), NEW root, Grounded(graph.nodes, root),
           NEW x \in DOMAIN graph.nodes
    PROVE  /\ root \in AboveIn(graph, x)
           /\ x = root => AboveIn(graph, x) = {root}
           /\ x # root => \A z : z \in AboveIn(graph, x) <=> z = x \/ z \in AboveIn(graph, graph.nodes[x])
<1> DEFINE nodes == graph.nodes
           D == DOMAIN nodes
           N == Cardinality(D)
           f == Climb(nodes, x)
           y == nodes[x]
           g == Climb(nodes, y)
<1>1. /\ N \in Nat /\ DOMAIN f = 0..N /\ f[0] = x
      /\ \A n \in 0..N : f[n] \in D \cup {Missing}
      /\ \A n \in 0..N : n + 1 \in 0..N =>
             f[n + 1] = IF f[n] = Missing THEN Missing ELSE nodes[f[n]]
  BY ClimbIs
<1>2. IsFiniteSet(D) /\ root \in D /\ Missing \notin D /\ nodes[root] = Missing
  BY DEF Hangs, Grounded
<1>3. PICK r \in 0..(N - 1) : f[r] = root
  BY RootIsReached
<1>4. root \in AboveIn(graph, x)
  <2>1. r \in 0..N
    BY <1>1
  <2> QED
    BY <1>1, <1>2, <1>3, <2>1, AboveClimbs
<1>5. ASSUME NEW h, DOMAIN h = 0..N, NEW k \in 0..N, h[k] = Missing,
             \A n \in 0..N : n + 1 \in 0..N =>
                 h[n + 1] = IF h[n] = Missing THEN Missing ELSE nodes[h[n]],
             NEW n \in k..N
      PROVE  h[n] = Missing
  <2> DEFINE S == {m \in Nat : m >= k /\ m <= N => h[m] = Missing}
  <2>1. 0 \in S
    BY <1>5, <1>1
  <2>2. ASSUME NEW m \in S
        PROVE  m + 1 \in S
    <3> SUFFICES ASSUME m + 1 >= k, m + 1 <= N PROVE h[m + 1] = Missing
      OBVIOUS
    <3>1. CASE m + 1 = k
      BY <1>5, <3>1
    <3>2. CASE m + 1 # k
      <4>1. m >= k /\ m <= N /\ m \in 0..N /\ m + 1 \in 0..N
        BY <1>1, <3>2
      <4> QED
        BY <1>5, <4>1
    <3> QED
      BY <3>1, <3>2
  <2>3. S \in SUBSET Nat
    OBVIOUS
  <2> HIDE DEF S
  <2>4. S = Nat
    BY <2>1, <2>2, <2>3, Induction
  <2>5. n \in S /\ n >= k /\ n <= N
    BY <1>1, <2>4
  <2> QED
    BY <2>5 DEF S
<1>6. ASSUME x = root
      PROVE  AboveIn(graph, x) = {root}
  <2>1. N # 0
    BY <1>2, FS_EmptySet
  <2>2. 1 \in 0..N /\ 0 \in 0..N /\ 0 + 1 \in 0..N
    BY <1>1, <2>1
  <2>3. f[1] = Missing
    BY <1>1, <1>2, <1>6, <2>2
  <2>4. \A n \in 1..N : f[n] = Missing
    BY <1>1, <1>5, <2>2, <2>3
  <2>5. \A n \in 0..N : n = 0 \/ n \in 1..N
    BY <1>1
  <2>6. root # Missing
    BY <1>2
  <2> HIDE DEF f
  <2>7. {f[n] : n \in DOMAIN f} \ {Missing} = {root}
    BY <1>1, <1>6, <2>2, <2>4, <2>5, <2>6
  <2> QED
    BY <2>7, AboveClimbs DEF f
<1>7. ASSUME x # root
      PROVE  AboveIn(graph, x) = {x} \cup AboveIn(graph, y)
  <2>1. y \in D /\ x \in D /\ x # Missing
    BY <1>2, <1>7 DEF Grounded
  <2>2. /\ DOMAIN g = 0..N /\ g[0] = y
        /\ \A n \in 0..N : g[n] \in D \cup {Missing}
        /\ \A n \in 0..N : n + 1 \in 0..N =>
               g[n + 1] = IF g[n] = Missing THEN Missing ELSE nodes[g[n]]
    <3> HIDE DEF y
    <3> QED
      BY <2>1, ClimbIs
  <2>3. PICK k \in 0..(N - 1) : g[k] = root
    BY <2>1, RootIsReached
  <2> HIDE DEF f, g, N, D
  <2>4. g[N] = Missing
    <3>1. k \in 0..N /\ k + 1 \in 0..N /\ N \in (k + 1)..N
      BY <1>1
    <3>2. g[k + 1] = Missing
      BY <1>2, <2>2, <2>3, <3>1
    <3> QED
      BY <1>5, <2>2, <3>1, <3>2
  <2>5. \A n \in 0..N : n + 1 \in 0..N => f[n + 1] = g[n]
    <3> DEFINE S == {n \in Nat : n + 1 <= N => f[n + 1] = g[n]}
    <3>1. 0 \in S
      <4> SUFFICES ASSUME 0 + 1 <= N PROVE f[0 + 1] = g[0]
        OBVIOUS
      <4>1. 0 \in 0..N /\ 0 + 1 \in 0..N
        BY <1>1
      <4> QED
        BY <1>1, <2>1, <2>2, <4>1
    <3>2. ASSUME NEW n \in S
          PROVE  n + 1 \in S
      <4> SUFFICES ASSUME (n + 1) + 1 <= N PROVE f[(n + 1) + 1] = g[n + 1]
        OBVIOUS
      <4>1. n \in 0..N /\ n + 1 \in 0..N /\ (n + 1) + 1 \in 0..N /\ f[n + 1] = g[n]
        BY <1>1
      <4>2. f[(n + 1) + 1] = IF f[n + 1] = Missing THEN Missing ELSE nodes[f[n + 1]]
        BY <1>1, <4>1
      <4>3. g[n + 1] = IF g[n] = Missing THEN Missing ELSE nodes[g[n]]
        BY <2>2, <4>1
      <4> QED
        BY <4>1, <4>2, <4>3
    <3>3. S \in SUBSET Nat
      OBVIOUS
    <3> HIDE DEF S
    <3>4. S = Nat
      BY <3>1, <3>2, <3>3, Induction
    <3>5. \A n \in 0..N : n \in S /\ (n + 1 \in 0..N => n + 1 <= N)
      BY <1>1, <3>4
    <3> QED
      BY <3>5 DEF S
  <2>6. \A z : z # Missing => ((\E n \in 0..N : f[n] = z) <=> (z = x \/ \E n \in 0..N : g[n] = z))
    <3>1. \A n \in 0..N : n = 0 \/ (n - 1 \in 0..N /\ (n - 1) + 1 = n)
      BY <1>1
    <3>2. \A n \in 0..N : n = N \/ n + 1 \in 0..N
      BY <1>1
    <3>3. 0 \in 0..N
      BY <1>1
    <3>4. ASSUME NEW n \in 0..N
          PROVE  f[n] = x \/ \E m \in 0..N : g[m] = f[n]
      <4>1. CASE n = 0
        BY <1>1, <4>1
      <4>2. CASE n # 0
        <5>1. n - 1 \in 0..N /\ (n - 1) + 1 = n
          BY <3>1, <4>2
        <5>2. f[n] = g[n - 1]
          BY <2>5, <5>1
        <5> QED
          BY <5>1, <5>2
      <4> QED
        BY <4>1, <4>2
    <3>5. ASSUME NEW n \in 0..N, g[n] # Missing
          PROVE  \E m \in 0..N : f[m] = g[n]
      <4>1. n + 1 \in 0..N
        BY <2>4, <3>2, <3>5
      <4> QED
        BY <2>5, <4>1
    <3> QED
      BY <1>1, <3>3, <3>4, <3>5
  <2>7. x # Missing
    BY <2>1
  <2>8. {f[n] : n \in DOMAIN f} \ {Missing} = {x} \cup ({g[n] : n \in DOMAIN g} \ {Missing})
    <3>1. \A z : z \in {f[n] : n \in DOMAIN f} \ {Missing} <=> z # Missing /\ \E n \in 0..N : f[n] = z
      BY <1>1
    <3>2. \A z : z \in {g[n] : n \in DOMAIN g} \ {Missing} <=> z # Missing /\ \E n \in 0..N : g[n] = z
      BY <2>2
    <3> QED
      BY <2>6, <2>7, <3>1, <3>2
  <2> QED
    BY <2>8, AboveClimbs DEF f, g
<1> QED
  BY <1>4, <1>6, <1>7

\* The graph of a forest hangs together, and is grounded in its root.
LEMMA GraphIsGrounded ==
    ASSUME NEW bom, IsBom(bom), Distinct(bom), Forest(bom), NEW graph, graph = Imported(Empty, bom)
    PROVE  Hangs(graph.nodes) /\ Grounded(graph.nodes, Root.source)
<1> DEFINE N == bom.nodes
           D == DOMAIN graph.nodes
<1>1. /\ \A i, j \in DOMAIN N : N[i].source = N[j].source => i = j
      /\ \A i \in DOMAIN N \ {0} : graph.nodes[N[i].source] = N[i].parent
      /\ Root.source \in D /\ graph.nodes[Root.source] = Missing
      /\ IsFiniteSet(D)
  BY NodesAre
<1>2. D = SourcesIn(N)
  BY ImportedIs
<1>3. 0 \in DOMAIN N /\ N[0].source = Root.source /\ Missing \notin D
      /\ \A i \in DOMAIN N \ {0} : N[i].parent \in D
  BY <1>2 DEF IsBom
<1>4. \A x \in D : \E i \in DOMAIN N : x = N[i].source
  BY <1>2 DEF SourcesIn
<1>5. \A x \in D \ {Root.source} : \E i \in DOMAIN N \ {0} : x = N[i].source /\ graph.nodes[x] = N[i].parent
  BY <1>1, <1>3, <1>4
<1>6. \A x \in D \ {Root.source} : graph.nodes[x] \in D
  BY <1>3, <1>5
<1>7. Hangs(graph.nodes)
  BY <1>1, <1>3, <1>6 DEF Hangs
<1>8. ASSUME NEW S \in SUBSET (D \ {Root.source}), S # {}
      PROVE  \E x \in S : graph.nodes[x] \notin S
  <2> DEFINE I == {i \in DOMAIN N \ {0} : N[i].source \in S}
  <2>1. I # {}
    BY <1>5, <1>8
  <2>2. PICK i \in I : \A j \in I : N[i].parent # N[j].source
    <3> HIDE DEF I
    <3>1. I \in SUBSET (DOMAIN N \ {0})
      BY DEF I
    <3> QED
      BY <2>1, <3>1 DEF Forest
  <2>3. graph.nodes[N[i].source] = N[i].parent
    BY <1>1
  <2>4. N[i].parent \notin S
    BY <1>5, <2>2
  <2> QED
    BY <2>3, <2>4
<1> QED
  BY <1>1, <1>6, <1>7, <1>8 DEF Grounded

\* A bill of materials is imported once: again changes nothing, parts and instances are
\* what was sent, and everything is below the root.
LEMMA BomIsImportedOnce ==
    ASSUME NEW bom, IsBom(bom), Distinct(bom) => Forest(bom)
    PROVE  ImportedOnce(bom)
<1> DEFINE graph == Imported(Empty, bom)
           keyOf(source) == (CHOOSE p \in Range(bom.parts) : p.source = source).key
<1>1. Imported(graph, bom) = graph
  BY ImportedIs
<1>2. \A i, j \in DOMAIN graph.parts : graph.parts[i].key = graph.parts[j].key => i = j
  BY PartsAreTaken DEF OneEach
<1>3. \A x \in Range(bom.instances) : graph.parts[graph.instances[x.source].part].key = keyOf(x.part)
  <2> TAKE x \in Range(bom.instances)
  <2>1. PICK i \in DOMAIN bom.instances : x = bom.instances[i]
    BY DEF Range
  <2>2. i \in DOMAIN bom.parts /\ x.part = bom.parts[i].source
    <3>1. \A k \in DOMAIN bom.instances : k \in DOMAIN bom.parts /\ bom.instances[k].part = bom.parts[k].source
      BY ONLY IsBom(bom) DEF IsBom
    <3> QED
      BY ONLY <2>1, <3>1
  <2>3. graph.parts[graph.instances[x.source].part].key = bom.parts[i].key
    BY <2>1, PartsAreTaken
  <2>4. keyOf(x.part) = bom.parts[i].key
    BY <2>2, KeyOfSource
  <2> QED
    BY <2>3, <2>4
<1>4. ASSUME Distinct(bom), NEW source \in DOMAIN graph.nodes
      PROVE  Root.source \in AboveIn(graph, source)
  <2> HIDE DEF graph
  <2>1. Hangs(graph.nodes) /\ Grounded(graph.nodes, Root.source)
    BY <1>4, GraphIsGrounded DEF graph
  <2> QED
    BY <2>1, AboveSteps
<1> QED
  BY <1>1, <1>2, <1>3, <1>4 DEF ImportedOnce

-----------------------------------------------------------------------------
(* Tables.                                                                 *)

\* What the rows of a table have.
LEMMA TableIs ==
    ASSUME NEW rows, IsTable(rows)
    PROVE  /\ DOMAIN rows = 1..Len(rows) /\ Len(rows) \in Nat
           /\ \A i \in DOMAIN rows :
                  /\ i \in Nat \ {0}
                  /\ rows[i].assembly \in BOOLEAN /\ Missing # AssemblySource(RowId(rows, i))
                  /\ rows[i].number \in Seq(Nat) /\ rows[i].quantity \in Nat
           /\ \A i, j \in DOMAIN rows : rows[i].part # RowId(rows, j)
           /\ Missing # Root.source
<1>1. rows \in Seq(ToSet(rows))
  BY DEF IsTable, IsItems
<1>2. DOMAIN rows = 1..Len(rows) /\ Len(rows) \in Nat
  BY <1>1
<1> QED
  BY <1>2 DEF IsTable, IsItems

\* A row is under one that came before it and has its number but for the last place, or
\* under the root if there is none.
LEMMA RowParentIs ==
    ASSUME NEW rows, IsTable(rows), NEW i \in DOMAIN rows
    PROVE  \/ RowParent(rows, i) = Root.source
               /\ \A j \in 1..(i - 1) : rows[j].assembly /\ rows[i].number # <<>> =>
                      rows[j].number # Front(rows[i].number) \/ rows[j].number = <<>>
           \/ \E j \in 1..(i - 1) : /\ rows[j].assembly /\ rows[i].number # <<>>
                                    /\ rows[j].number = Front(rows[i].number) /\ rows[j].number # <<>>
                                    /\ RowParent(rows, i) = AssemblySource(RowId(rows, j))
<1> DEFINE above == {j \in 1..(i - 1) : /\ rows[j].assembly /\ rows[i].number # <<>>
                                        /\ rows[j].number = Front(rows[i].number)
                                        /\ rows[j].number # <<>>}
<1>1. RowParent(rows, i) = AssemblySource(IF above = {} THEN 0 ELSE RowId(rows, Max(above)))
  BY DEF RowParent
<1>2. i \in Nat
  BY TableIs
<1>3. above \in SUBSET Nat /\ IsFiniteSet(above)
  <2>1. IsFiniteSet(1..(i - 1))
    BY <1>2, FS_Interval
  <2>2. above \in SUBSET (1..(i - 1))
    OBVIOUS
  <2>3. above \in SUBSET Nat
    BY <1>2
  <2> HIDE DEF above
  <2> QED
    BY <2>1, <2>2, <2>3, FS_Subset
<1>4. CASE above = {}
  BY <1>1, <1>4 DEF Root
<1>5. CASE above # {}
  <2>1. Max(above) \in above
    <3> HIDE DEF above
    <3> QED
      BY <1>3, <1>5, MaxIs
  <2>2. RowParent(rows, i) = AssemblySource(RowId(rows, Max(above)))
    BY <1>1, <1>5
  <2> QED
    BY <2>1, <2>2
<1> QED
  BY <1>4, <1>5

\* A table makes a bill of materials, and a forest where its rows are distinct.
LEMMA TableIsBom ==
    ASSUME NEW rows, IsTable(rows), NEW bom, bom = OfTable(rows)
    PROVE  /\ IsBom(bom)
           /\ Distinct(bom) => Forest(bom)
<1> DEFINE A == PlacesOf(rows, TRUE)
           P == PlacesOf(rows, FALSE)
           N == bom.nodes
<1>1. /\ DOMAIN N = {0} \cup A /\ N[0] = Root
      /\ \A i \in A : N[i].source = AssemblySource(RowId(rows, i)) /\ N[i].parent = RowParent(rows, i)
  <2>1. \A i \in A : i # 0
    BY TableIs DEF PlacesOf
  <2> QED
    BY <2>1 DEF OfTable
<1>2. DOMAIN bom.parts = P /\ \A i \in P : /\ bom.parts[i].source = PartSource(rows[i], RowId(rows, i))
                                           /\ bom.parts[i].key = PartKey(rows[i], RowId(rows, i))
  BY DEF OfTable, BomPart
<1>3. /\ DOMAIN bom.instances = P
      /\ \A i \in P :
          /\ bom.instances[i].source = <<PartSource(rows[i], RowId(rows, i)), RowId(rows, i)>>
          /\ bom.instances[i].part = PartSource(rows[i], RowId(rows, i))
          /\ bom.instances[i].parent = RowParent(rows, i)
  BY DEF OfTable
<1>4. A \in SUBSET (DOMAIN rows) /\ P \in SUBSET (DOMAIN rows)
  BY DEF PlacesOf
<1> HIDE DEF A, P
<1>5. Listed(bom.parts) /\ IsFiniteSet(DOMAIN N) /\ DOMAIN N \in SUBSET Nat
  <2>1. IsFiniteSet(DOMAIN rows) /\ DOMAIN rows \in SUBSET (Nat \ {0})
    <3>1. DOMAIN rows = 1..Len(rows) /\ Len(rows) \in Int /\ 1 \in Int
      BY TableIs
    <3>2. IsFiniteSet(1..Len(rows))
      BY <3>1, FS_Interval
    <3> QED
      BY <3>1, <3>2
  <2>2. IsFiniteSet(A) /\ IsFiniteSet(P)
    BY <1>4, <2>1, FS_Subset
  <2>3. IsFiniteSet({0} \cup A)
    BY <2>2, FS_Singleton, FS_Union
  <2> QED
    BY <1>1, <1>2, <1>4, <2>1, <2>2, <2>3 DEF Listed
<1>6. KeyPerSource(<<>>, bom.parts)
  <2>1. ToSet(<<>>) = {}
    BY DEF ToSet
  <2>2. ASSUME NEW i \in P, NEW j \in P, bom.parts[i].source = bom.parts[j].source
        PROVE  bom.parts[i].key = bom.parts[j].key
    <3>1. PartSource(rows[i], RowId(rows, i)) = PartSource(rows[j], RowId(rows, j))
      BY <1>2, <2>2
    <3>2. rows[i].part # RowId(rows, j) /\ rows[j].part # RowId(rows, i)
      BY <1>4, TableIs
    <3>3. PartKey(rows[i], RowId(rows, i)) = PartKey(rows[j], RowId(rows, j))
      BY <3>1, <3>2 DEF PartSource, PartKey
    <3> QED
      BY <1>2, <3>3
  <2>3. \A p \in Range(bom.parts) : \E i \in P : p = bom.parts[i]
    BY <1>2 DEF Range
  <2> QED
    BY <2>1, <2>2, <2>3 DEF KeyPerSource
<1>7. Root.source \in SourcesIn(N) /\ \A i \in A : AssemblySource(RowId(rows, i)) \in SourcesIn(N)
  BY <1>1 DEF SourcesIn
<1>8. \A i \in DOMAIN rows : RowParent(rows, i) \in SourcesIn(N)
  <2> TAKE i \in DOMAIN rows
  <2>1. \A j \in 1..(i - 1) : j \in DOMAIN rows
    BY TableIs
  <2>2. \A j \in DOMAIN rows : rows[j].assembly => j \in A
    BY DEF A, PlacesOf
  <2> QED
    BY <1>7, <2>1, <2>2, RowParentIs
<1>9. Missing \notin SourcesIn(N)
  <2>1. \A x \in SourcesIn(N) : x = Root.source \/ \E i \in DOMAIN rows : x = AssemblySource(RowId(rows, i))
    BY <1>1, <1>4 DEF SourcesIn
  <2> QED
    BY <2>1, TableIs
<1>10. IsBom(bom)
  <2>1. \A i, j \in P : bom.instances[i].source = bom.instances[j].source => bom.instances[i].part = bom.instances[j].part
    BY <1>3
  <2>2. \A i \in DOMAIN N \ {0} : N[i].parent \in SourcesIn(N)
    BY <1>1, <1>4, <1>8
  <2>3. \A i \in P : bom.instances[i].part = bom.parts[i].source /\ bom.instances[i].parent \in SourcesIn(N)
    BY <1>2, <1>3, <1>4, <1>8
  <2>4. 0 \in DOMAIN N
    BY <1>1
  <2> QED
    BY <1>1, <1>2, <1>3, <1>5, <1>6, <1>9, <2>1, <2>2, <2>3, <2>4 DEF IsBom
<1>11. ASSUME Distinct(bom)
       PROVE  Forest(bom)
  <2>1. \A i, j \in DOMAIN N : N[i].source = N[j].source => i = j
    BY <1>10, <1>11, NodesAre
  <2> SUFFICES ASSUME NEW S \in SUBSET (DOMAIN N \ {0}), S # {}
               PROVE  \E i \in S : \A j \in S : N[i].parent # N[j].source
    BY DEF Forest
  <2>2. S \in SUBSET Nat /\ S \in SUBSET A
    BY <1>1, <1>5
  <2>3. PICK i \in S : \A j \in S : ~(j < i)
    BY <2>2, LeastNatural
  <2>4. i \in A /\ i \in DOMAIN rows /\ N[i].parent = RowParent(rows, i) /\ i \in Nat
    BY <1>1, <1>4, <2>2
  <2>5. CASE RowParent(rows, i) = Root.source
    <3>1. 0 \in DOMAIN N /\ N[0].source = Root.source
      BY <1>1
    <3> QED
      BY <2>1, <2>4, <2>5, <3>1
  <2>6. CASE \E k \in 1..(i - 1) : rows[k].assembly /\ RowParent(rows, i) = AssemblySource(RowId(rows, k))
    <3>1. PICK k \in 1..(i - 1) : rows[k].assembly /\ RowParent(rows, i) = AssemblySource(RowId(rows, k))
      BY <2>6
    <3>2. k \in A
      <4>1. k \in DOMAIN rows
        BY <2>4, TableIs
      <4> QED
        BY <3>1, <4>1 DEF A, PlacesOf
    <3>3. N[i].parent = N[k].source /\ k \in DOMAIN N
      BY <1>1, <2>4, <3>1, <3>2
    <3>4. k < i
      BY <2>4
    <3> QED
      BY <2>1, <2>3, <3>3, <3>4
  <2> QED
    BY <2>4, <2>5, <2>6, RowParentIs
<1> QED
  BY <1>10, <1>11

\* What is above a node that is not the root: itself, and what is above its parent.
LEMMA AboveAnother ==
    ASSUME NEW graph, Hangs(graph.nodes), NEW root, Grounded(graph.nodes, root),
           NEW x \in DOMAIN graph.nodes, x # root, NEW y, y = graph.nodes[x]
    PROVE  \A z : z \in AboveIn(graph, x) <=> z = x \/ z \in AboveIn(graph, y)
<1>1. \A z : z \in AboveIn(graph, x) <=> z = x \/ z \in AboveIn(graph, graph.nodes[x])
  BY AboveSteps
<1> QED
  BY <1>1

\* A row hangs below those whose item numbers its own begins with.
LEMMA AboveByNumber ==
    ASSUME NEW rows, IsTable(rows), InOrder(rows), NEW bom, bom = OfTable(rows), Distinct(bom),
           NEW graph, graph = Imported(Empty, bom),
           NEW i \in DOMAIN rows, rows[i].assembly, rows[i].number # <<>>, NEW k \in DOMAIN rows
    PROVE  AssemblySource(RowId(rows, i)) \in AboveIn(graph, RowParent(rows, k)) <=>
               IsPrefix(rows[i].number, rows[k].number) /\ rows[i].number # rows[k].number
<1> DEFINE N == bom.nodes
           Src(j) == AssemblySource(RowId(rows, j))
           nr(j) == rows[j].number
           Right(j) == Src(i) \in AboveIn(graph, RowParent(rows, j)) <=>
                           IsPrefix(nr(i), nr(j)) /\ nr(i) # nr(j)
           S == {n \in Nat : \A j \in DOMAIN rows : Len(nr(j)) = n => Right(j)}
<1>1. IsBom(bom) /\ Forest(bom)
  BY TableIsBom
<1>2. Hangs(graph.nodes) /\ Grounded(graph.nodes, Root.source)
  BY <1>1, GraphIsGrounded
<1>3. ASSUME NEW j \in DOMAIN rows, rows[j].assembly
      PROVE  /\ j \in DOMAIN N \ {0} /\ N[j].source = Src(j) /\ N[j].parent = RowParent(rows, j)
             /\ Src(j) \in DOMAIN graph.nodes /\ graph.nodes[Src(j)] = RowParent(rows, j)
             /\ Src(j) # Root.source
  <2>1. j \in PlacesOf(rows, TRUE) /\ j # 0
    BY <1>3, TableIs DEF PlacesOf
  <2>2. j \in DOMAIN N \ {0} /\ N[j].source = Src(j) /\ N[j].parent = RowParent(rows, j)
    BY <2>1 DEF OfTable
  <2>3. 0 \in DOMAIN N /\ N[0].source = Root.source
    BY <1>1 DEF IsBom
  <2> HIDE DEF N, Src
  <2> QED
    BY <1>1, <2>2, <2>3, NodesAre DEF N
<1>4. \A j, l \in DOMAIN rows : rows[j].assembly /\ rows[l].assembly /\ Src(j) = Src(l) => j = l
  <2>1. \A j, l \in DOMAIN N : N[j].source = N[l].source => j = l
    BY <1>1, NodesAre
  <2> HIDE DEF Src, N
  <2> QED
    BY <1>3, <2>1
<1>5. \A j \in DOMAIN rows : nr(j) \in Seq(Nat) /\ Len(nr(j)) \in Nat /\ (Len(nr(j)) = 0 <=> nr(j) = <<>>)
  BY TableIs
<1>6. \A j, l \in DOMAIN rows : nr(j) = nr(l) => j = l
  BY DEF InOrder
<1>7. ASSUME NEW j \in DOMAIN rows, RowParent(rows, j) = Root.source, Len(nr(j)) <= 1
      PROVE  Right(j)
  <2>1. AboveIn(graph, Root.source) = {Root.source}
    BY <1>2, AboveSteps DEF Grounded
  <2>2. Src(i) \notin AboveIn(graph, RowParent(rows, j))
    BY <1>3, <1>7, <2>1
  <2>3. ~(IsPrefix(nr(i), nr(j)) /\ nr(i) # nr(j))
    <3> SUFFICES ASSUME IsPrefix(nr(i), nr(j)) PROVE nr(i) = nr(j)
      OBVIOUS
    <3>1. Len(nr(i)) <= Len(nr(j)) /\ \A m \in 1..Len(nr(i)) : nr(i)[m] = nr(j)[m]
      BY <1>5, PrefixMeans
    <3>2. Len(nr(i)) \in Nat /\ Len(nr(j)) \in Nat /\ Len(nr(i)) # 0
      BY <1>5
    <3>3. nr(i) \in Seq(Nat) /\ nr(j) \in Seq(Nat)
      BY <1>5
    <3> HIDE DEF nr
    <3>4. Len(nr(i)) = 1 /\ Len(nr(j)) = 1
      <4>1. Len(nr(j)) <= 1
        BY <1>7
      <4>2. Len(nr(i)) <= Len(nr(j))
        BY <3>1
      <4> DEFINE a == Len(nr(i))
                 b == Len(nr(j))
      <4>3. a \in Nat /\ b \in Nat /\ a # 0 /\ a <= b /\ b <= 1
        BY <3>2, <4>1, <4>2
      <4> HIDE DEF a, b
      <4>4. a = 1 /\ b = 1
        BY ONLY <4>3
      <4> QED
        BY <4>4 DEF a, b
    <3> QED
      BY <3>1, <3>3, <3>4
  <2> QED
    BY <2>2, <2>3
<1>8. ASSUME NEW n \in Nat, \A j \in DOMAIN rows : Len(nr(j)) < n => Right(j),
             NEW j \in DOMAIN rows, Len(nr(j)) = n
      PROVE  Right(j)
  <2>1. CASE n <= 1
    <3>1. \A l \in 1..(j - 1) : ~(nr(j) # <<>> /\ nr(l) = Front(nr(j)) /\ nr(l) # <<>>)
      <4> SUFFICES ASSUME NEW l \in 1..(j - 1), nr(j) # <<>>, nr(l) = Front(nr(j))
                   PROVE  nr(l) = <<>>
        OBVIOUS
      <4>1. l \in DOMAIN rows
        BY TableIs
      <4>2. /\ nr(j) \in Seq(Nat) /\ Len(nr(j)) \in Nat
            /\ Len(nr(l)) \in Nat /\ (Len(nr(l)) = 0 <=> nr(l) = <<>>)
        BY <1>5, <4>1
      <4>3. Len(Front(nr(j))) = Len(nr(j)) - 1
        BY <4>2, FrontAndLast
      <4> HIDE DEF nr
      <4> QED
        BY <1>8, <2>1, <4>2, <4>3
    <3>2. RowParent(rows, j) = Root.source
      BY <3>1, RowParentIs
    <3> QED
      BY <1>7, <1>8, <2>1, <3>2
  <2>2. CASE n > 1
    <3>1. nr(j) # <<>> /\ nr(j) \in Seq(Nat)
      BY <1>5, <1>8, <2>2
    <3>2. Front(nr(j)) = SubSeq(nr(j), 1, n - 1) /\ Len(Front(nr(j))) = n - 1 /\ Front(nr(j)) # <<>>
      <4>1. Front(nr(j)) = SubSeq(nr(j), 1, n - 1)
        BY <1>8 DEF Front
      <4>2. Len(Front(nr(j))) = n - 1
        BY <1>8, <3>1, FrontAndLast
      <4>3. Len(<<>>) = 0
        OBVIOUS
      <4> HIDE DEF nr
      <4>4. Front(nr(j)) # <<>>
        BY <2>2, <4>2, <4>3
      <4> QED
        BY <4>1, <4>2, <4>4
    <3>3. \E l \in 1..(j - 1) : rows[l].assembly /\ nr(l) = Front(nr(j))
      <4>1. n - 1 \in 1..(Len(nr(j)) - 1)
        BY <1>8, <2>2
      <4>2. \E l \in 1..(j - 1) : rows[l].assembly /\ rows[l].number = SubSeq(rows[j].number, 1, n - 1)
        BY <4>1 DEF InOrder
      <4> QED
        BY <3>2, <4>2
    <3>4. PICK l \in 1..(j - 1) : /\ rows[l].assembly /\ nr(l) = Front(nr(j))
                                  /\ RowParent(rows, j) = Src(l)
      BY <3>1, <3>2, <3>3, RowParentIs
    <3>5. l \in DOMAIN rows /\ Len(nr(l)) < n
      <4>1. l \in DOMAIN rows
        BY TableIs
      <4> QED
        BY <3>2, <3>4, <4>1
    <3>6. Right(l)
      BY <1>8, <3>5
    <3>7. Src(i) \in AboveIn(graph, Src(l)) <=>
              Src(i) = Src(l) \/ Src(i) \in AboveIn(graph, RowParent(rows, l))
      <4>1. Src(l) \in DOMAIN graph.nodes /\ graph.nodes[Src(l)] = RowParent(rows, l) /\ Src(l) # Root.source
        BY <1>3, <3>4, <3>5
      <4>2. PICK y : y = Src(l)
        OBVIOUS
      <4>3. PICK z : z = RowParent(rows, l)
        OBVIOUS
      <4>4. y \in DOMAIN graph.nodes /\ y # Root.source /\ z = graph.nodes[y]
        BY <4>1, <4>2, <4>3
      <4>5. \A v : v \in AboveIn(graph, y) <=> v = y \/ v \in AboveIn(graph, z)
        <5>1. PICK r : r = Root.source
          OBVIOUS
        <5>2. Hangs(graph.nodes) /\ Grounded(graph.nodes, r) /\ y # r
          BY <1>2, <4>4, <5>1
        <5> QED
          BY ONLY <4>4, <5>2, AboveAnother
      <4> QED
        BY <4>2, <4>3, <4>5
    <3>8. Src(i) = Src(l) <=> nr(i) = nr(l)
      BY <1>4, <1>6, <3>4, <3>5
    <3>9. IsPrefix(nr(i), nr(j)) /\ nr(i) # nr(j) <=> IsPrefix(nr(i), nr(l))
      <4> DEFINE a == nr(i)
                 b == nr(j)
                 c == nr(l)
      <4>1. /\ a \in Seq(Nat) /\ b \in Seq(Nat) /\ c \in Seq(Nat) /\ Len(b) = n /\ Len(c) = n - 1
            /\ Len(a) \in Nat
        BY <1>5, <1>8, <3>2, <3>4, <3>5
      <4>2. \A m \in 1..(n - 1) : c[m] = b[m]
        BY <3>2, <3>4, <4>1
      <4> HIDE DEF a, b, c, nr
      <4>3. /\ IsPrefix(a, b) <=> Len(a) <= n /\ \A m \in 1..Len(a) : a[m] = b[m]
            /\ IsPrefix(a, c) <=> Len(a) <= n - 1 /\ \A m \in 1..Len(a) : a[m] = c[m]
        <5>1. a \in Seq(Nat) /\ b \in Seq(Nat) /\ c \in Seq(Nat)
          BY <4>1
        <5>2. \A p, q \in Seq(Nat) : IsPrefix(p, q) <=> Len(p) <= Len(q) /\ \A m \in 1..Len(p) : p[m] = q[m]
          BY ONLY PrefixMeans
        <5>3. IsPrefix(a, b) <=> Len(a) <= Len(b) /\ \A m \in 1..Len(a) : a[m] = b[m]
          BY ONLY <5>1, <5>2
        <5>4. IsPrefix(a, c) <=> Len(a) <= Len(c) /\ \A m \in 1..Len(a) : a[m] = c[m]
          BY ONLY <5>1, <5>2
        <5> QED
          BY <4>1, <5>3, <5>4
      <4>4. ASSUME IsPrefix(a, b), a # b
            PROVE  IsPrefix(a, c)
        <5>1. ASSUME Len(a) = n PROVE FALSE
          <6>1. \A m \in 1..n : a[m] = b[m]
            BY <4>3, <4>4, <5>1
          <6>2. a = b
            BY <4>1, <5>1, <6>1
          <6> QED
            BY <4>4, <6>2
        <5>2. Len(a) <= n - 1
          BY <4>1, <4>3, <4>4, <5>1
        <5>3. \A m \in 1..Len(a) : m \in 1..(n - 1)
          BY <4>1, <5>2
        <5> QED
          BY <4>2, <4>3, <4>4, <5>2, <5>3
      <4>5. ASSUME IsPrefix(a, c)
            PROVE  IsPrefix(a, b) /\ a # b
        <5>1. Len(a) <= n - 1
          BY <4>3, <4>5
        <5>2. \A m \in 1..Len(a) : m \in 1..(n - 1)
          BY <4>1, <5>1
        <5>3. Len(a) <= n /\ Len(a) # Len(b)
          BY <4>1, <5>1
        <5> QED
          BY <4>2, <4>3, <4>5, <5>2, <5>3
      <4>6. IsPrefix(a, b) /\ a # b <=> IsPrefix(a, c)
        BY <4>4, <4>5
      <4> QED
        BY <4>6 DEF a, b, c
    <3>10. nr(i) = nr(l) => IsPrefix(nr(i), nr(l))
      BY <1>5, <3>5, PrefixMeans
    <3> HIDE DEF Src, nr
    <3> QED
      BY <3>4, <3>6, <3>7, <3>8, <3>9, <3>10
  <2> QED
    BY <1>5, <2>1, <2>2
<1> DEFINE B == {n \in Nat : \A j \in DOMAIN rows : Len(nr(j)) < n => Right(j)}
<1>9. 0 \in B
  BY <1>5
<1>10. ASSUME NEW n \in B
       PROVE  n + 1 \in B
  <2>1. n \in Nat /\ \A j \in DOMAIN rows : Len(nr(j)) < n => Right(j)
    OBVIOUS
  <2> HIDE DEF Right
  <2>2. \A j \in DOMAIN rows : Len(nr(j)) = n => Right(j)
    BY <1>8, <2>1
  <2>3. \A j \in DOMAIN rows : Len(nr(j)) < n + 1 => Len(nr(j)) < n \/ Len(nr(j)) = n
    BY <1>5
  <2> QED
    BY <2>1, <2>2, <2>3
<1>11. B \in SUBSET Nat
  OBVIOUS
<1> HIDE DEF B
<1>12. B = Nat
  BY <1>9, <1>10, <1>11, Induction
<1>13. Len(nr(k)) + 1 \in B /\ Len(nr(k)) < Len(nr(k)) + 1
  BY <1>5, <1>12
<1>14. Right(k)
  BY <1>13 DEF B
<1> QED
  BY <1>14

\* A sum over the places of items, by a function.
LEMMA FieldsAddUp ==
    ASSUME NEW items, NEW J
    PROVE  MapThenSumSet(LAMBDA j : items[j].quantity, J) = Sum([j \in J |-> items[j].quantity], J)
BY ZenonT(60) DEF Sum, MapThenSumSet, MapThenFoldSet

\* The instances of a bill of materials that are of a part and below a node, by their places.
PlacesBelow(bom, graph, node, key) ==
    {i \in DOMAIN bom.instances : /\ bom.parts[i].key = key
                                  /\ node \in AboveIn(graph, bom.instances[i].parent)}
QuantitiesIn(bom) == [i \in DOMAIN bom.instances |-> bom.instances[i].quantity]

\* How many of a part are below a node is what the bill of materials says of those.
LEMMA HowManyIs ==
    ASSUME NEW bom, IsBom(bom), Distinct(bom), \A i \in DOMAIN bom.instances : bom.instances[i].quantity \in Nat,
           NEW graph, graph = Imported(Empty, bom), NEW node, NEW key
    PROVE  /\ IsFiniteSet(DOMAIN bom.instances)
           /\ HowMany(graph, node, key) = Sum(QuantitiesIn(bom), PlacesBelow(bom, graph, node, key))
<1> DEFINE I == bom.instances
           b == [i \in DOMAIN I |-> I[i].source]
           T == PlacesBelow(bom, graph, node, key)
           S == {s \in DOMAIN graph.instances : /\ graph.parts[graph.instances[s].part].key = key
                                                /\ node \in AboveIn(graph, graph.instances[s].parent)}
           e == [s \in S |-> graph.instances[s].quantity]
           f == QuantitiesIn(bom)
<1>1. IsFiniteSet(DOMAIN I)
  BY DEF IsBom, Listed
<1>2. DOMAIN graph.instances = {b[i] : i \in DOMAIN I}
  <2>1. DOMAIN graph.instances = SourcesIn(I)
    BY ImportedIs
  <2>2. SourcesIn(I) = {b[i] : i \in DOMAIN I}
    BY DEF SourcesIn
  <2> QED
    BY <2>1, <2>2
<1>3. \A i \in DOMAIN I : /\ b[i] = I[i].source
                          /\ graph.instances[b[i]].parent = I[i].parent
                          /\ graph.instances[b[i]].quantity = I[i].quantity
  <2>1. \A i \in DOMAIN bom.instances :
            graph.instances[bom.instances[i].source].parent = bom.instances[i].parent
            /\ graph.instances[bom.instances[i].source].quantity = bom.instances[i].quantity
    BY ONLY IsBom(bom), Distinct(bom), graph = Imported(Empty, bom), NodesAre, SMTT(60)
  <2>2. \A i \in DOMAIN I : b[i] = I[i].source
    OBVIOUS
  <2> QED
    BY ONLY <2>1, <2>2
<1>4. \A i, j \in DOMAIN I : b[i] = b[j] => i = j
  <2>1. \A i, j \in DOMAIN bom.instances : bom.instances[i].source = bom.instances[j].source => i = j
    BY ONLY IsBom(bom), Distinct(bom), graph = Imported(Empty, bom), NodesAre, SMTT(60)
  <2> QED
    BY ONLY <2>1
<1>5. \A i \in DOMAIN I : graph.parts[graph.instances[b[i]].part].key = bom.parts[i].key
  <2>1. \A i \in DOMAIN I : graph.parts[graph.instances[I[i].source].part].key = bom.parts[i].key
    BY ONLY IsBom(bom), graph = Imported(Empty, bom), PartsAreTaken
  <2> QED
    BY ONLY <2>1
<1>6. T \in SUBSET DOMAIN I /\ \A i \in DOMAIN I :
          i \in T <=> bom.parts[i].key = key /\ node \in AboveIn(graph, I[i].parent)
  BY DEF PlacesBelow
<1>7. S = {b[i] : i \in T}
  <2> HIDE DEF b, T, I
  <2>1. \A i \in DOMAIN I : b[i] \in S <=> i \in T
    BY <1>2, <1>3, <1>5, <1>6
  <2>2. \A s \in S : \E i \in DOMAIN I : s = b[i]
    BY <1>2
  <2> HIDE DEF S
  <2> QED
    BY <1>6, <2>1, <2>2
<1>8. \A i \in T : e[b[i]] = f[i] /\ f[i] \in Nat
  <2>1. \A i \in DOMAIN I : f[i] = I[i].quantity /\ f[i] \in Nat
    BY DEF QuantitiesIn
  <2>2. \A s \in S : e[s] = graph.instances[s].quantity
    OBVIOUS
  <2> HIDE DEF T, S, b, e, f, I
  <2>3. \A i \in T : i \in DOMAIN I /\ b[i] \in S
    BY ONLY <1>6, <1>7
  <2> QED
    BY ONLY <1>3, <2>1, <2>2, <2>3
<1>9. IsFiniteSet(T)
  <2> HIDE DEF T
  <2> QED
    BY ONLY <1>1, <1>6, FS_Subset
<1>10. \A i, j \in T : b[i] = b[j] => i = j
  <2> HIDE DEF T, b
  <2> QED
    BY ONLY <1>4, <1>6
<1>11. HowMany(graph, node, key) = Sum(e, S)
  <2>1. HowMany(graph, node, key) = MapThenSumSet(LAMBDA s : graph.instances[s].quantity, S)
    BY ONLY DEF HowMany
  <2> HIDE DEF S
  <2>2. MapThenSumSet(LAMBDA s : graph.instances[s].quantity, S) = Sum(e, S)
    BY ONLY FieldsAddUp
  <2> QED
    BY ONLY <2>1, <2>2
<1> HIDE DEF b, T, S, e, f
<1>12. Sum(e, {b[i] : i \in T}) = Sum(f, T)
  BY ONLY <1>8, <1>9, <1>10, SumRenamed
<1> QED
  BY <1>1, <1>7, <1>11, <1>12 DEF f, T

\* Below each assembly of a table the graph has as many of each part as the table says.
THEOREM TableIsKept ==
    ASSUME NEW rows, IsTable(rows)
    PROVE  TableKept(rows)
<1> DEFINE bom == OfTable(rows)
           graph == Imported(Empty, bom)
<1>1. IsBom(bom) /\ (Distinct(bom) => Forest(bom))
  BY TableIsBom
<1>2. ImportedOnce(bom)
  BY <1>1, BomIsImportedOnce
<1>3. ASSUME Distinct(bom), InOrder(rows), NEW i \in DOMAIN rows, rows[i].assembly, rows[i].number # <<>>, NEW key
      PROVE  HowMany(graph, AssemblySource(RowId(rows, i)), key) =
                 MapThenSumSet(LAMBDA j : rows[j].quantity,
                     {j \in DOMAIN rows : /\ ~rows[j].assembly
                                          /\ IsPrefix(rows[i].number, rows[j].number)
                                          /\ PartKey(rows[j], RowId(rows, j)) = key})
  <2> DEFINE J == {j \in DOMAIN rows : /\ ~rows[j].assembly
                                       /\ IsPrefix(rows[i].number, rows[j].number)
                                       /\ PartKey(rows[j], RowId(rows, j)) = key}
             node == AssemblySource(RowId(rows, i))
             T == PlacesBelow(bom, graph, node, key)
             e == [j \in J |-> rows[j].quantity]
  <2>1. /\ DOMAIN bom.instances = PlacesOf(rows, FALSE)
        /\ \A j \in PlacesOf(rows, FALSE) : /\ bom.instances[j].quantity = rows[j].quantity
                                            /\ bom.instances[j].parent = RowParent(rows, j)
                                            /\ bom.parts[j].key = PartKey(rows[j], RowId(rows, j))
    BY DEF OfTable, BomPart
  <2>2. \A j : j \in PlacesOf(rows, FALSE) <=> j \in DOMAIN rows /\ ~rows[j].assembly
    BY TableIs DEF PlacesOf
  <2>3. \A j \in DOMAIN bom.instances : bom.instances[j].quantity \in Nat
    BY <2>1, <2>2, TableIs
  <2>4. \A j \in DOMAIN rows :
            node \in AboveIn(graph, RowParent(rows, j)) <=>
                IsPrefix(rows[i].number, rows[j].number) /\ rows[i].number # rows[j].number
    BY <1>3, AboveByNumber
  <2>5. \A j \in DOMAIN rows : ~rows[j].assembly => rows[i].number # rows[j].number
    BY <1>3 DEF InOrder
  <2> HIDE DEF bom, graph, node
  <2>6. T = J
    BY <2>1, <2>2, <2>4, <2>5 DEF PlacesBelow
  <2>7. /\ IsFiniteSet(DOMAIN bom.instances)
        /\ HowMany(graph, node, key) = Sum(QuantitiesIn(bom), T)
    BY <1>1, <1>3, <2>3, HowManyIs DEF graph
  <2>8. IsFiniteSet(T) /\ \A j \in T : QuantitiesIn(bom)[j] = e[j]
    <3>1. T \in SUBSET DOMAIN bom.instances
      BY DEF PlacesBelow
    <3> QED
      BY <2>1, <2>6, <2>7, <3>1, FS_Subset DEF QuantitiesIn
  <2>9. MapThenSumSet(LAMBDA j : rows[j].quantity, J) = Sum(e, J)
    BY FieldsAddUp
  <2> HIDE DEF T, J, e
  <2>10. Sum(QuantitiesIn(bom), T) = Sum(e, T)
    BY <2>8, SumSame
  <2> QED
    BY <2>6, <2>7, <2>9, <2>10 DEF J, node
<1> HIDE DEF bom, graph
<1> QED
  BY <1>2, <1>3 DEF TableKept, bom, graph

-----------------------------------------------------------------------------
(* Lists of instances.                                                     *)

\* What the instances of a list have.
LEMMA ListIs ==
    ASSUME NEW instances, IsList(instances)
    PROVE  /\ IsFiniteSet(DOMAIN instances) /\ DOMAIN instances \in SUBSET (Nat \ {0})
           /\ \A i \in DOMAIN instances :
                  /\ instances[i].assembly \in BOOLEAN /\ Missing # AssemblySource(instances[i].id)
                  /\ instances[i].id # 0
           /\ \A i, j \in DOMAIN instances : /\ instances[i].part # instances[j].id
                                             /\ instances[i].id = instances[j].id => i = j
           /\ Missing # Root.source
<1>1. instances \in Seq(ToSet(instances))
  BY DEF IsList, IsItems
<1>2. DOMAIN instances = 1..Len(instances) /\ Len(instances) \in Int /\ 1 \in Int
  BY <1>1
<1>3. IsFiniteSet(1..Len(instances))
  BY <1>2, FS_Interval
<1> QED
  BY <1>2, <1>3 DEF IsList, IsItems

\* A parent that is missing or no assembly is the root.
LEMMA InstanceParentIs ==
    ASSUME NEW instances, NEW i
    PROVE  \/ InstanceParent(instances, i) = Root.source
           \/ \E j \in PlacesOf(instances, TRUE) :
                  /\ instances[j].id = instances[i].parent
                  /\ InstanceParent(instances, i) = AssemblySource(instances[j].id)
<1> DEFINE parents == {j \in PlacesOf(instances, TRUE) : instances[j].id = instances[i].parent}
<1>1. InstanceParent(instances, i) = AssemblySource(IF parents = {} THEN 0 ELSE instances[i].parent)
  BY DEF InstanceParent
<1>2. CASE parents = {}
  BY <1>1, <1>2 DEF Root
<1>3. CASE parents # {}
  <2>1. PICK j \in parents : TRUE
    BY <1>3
  <2> QED
    BY <1>1, <1>3, <2>1
<1> QED
  BY <1>2, <1>3

\* A list makes a bill of materials, with distinct items, in a forest.
LEMMA ListIsBom ==
    ASSUME NEW instances, IsList(instances), NEW bom, bom = OfInstances(instances)
    PROVE  IsBom(bom) /\ Distinct(bom) /\ Forest(bom)
<1> DEFINE A == PlacesOf(instances, TRUE)
           P == PlacesOf(instances, FALSE)
           N == bom.nodes
           I == bom.instances
           id(i) == instances[i].id
<1>1. /\ DOMAIN N = {0} \cup A /\ N[0] = Root
      /\ \A i \in A : N[i].source = AssemblySource(id(i)) /\ N[i].parent = InstanceParent(instances, i)
  <2>1. \A i \in A : i # 0
    BY ListIs DEF PlacesOf
  <2> QED
    BY <2>1 DEF OfInstances
<1>2. DOMAIN bom.parts = P /\ \A i \in P : /\ bom.parts[i].source = PartSource(instances[i], id(i))
                                           /\ bom.parts[i].key = PartKey(instances[i], id(i))
  BY DEF OfInstances, BomPart
<1>3. /\ DOMAIN I = P
      /\ \A i \in P : /\ I[i].source = <<"part-instance", id(i)>>
                      /\ I[i].part = PartSource(instances[i], id(i))
                      /\ I[i].parent = InstanceParent(instances, i)
  BY DEF OfInstances
<1>4. A \in SUBSET (DOMAIN instances) /\ P \in SUBSET (DOMAIN instances)
  BY DEF PlacesOf
<1> HIDE DEF A, P
<1>5. Listed(bom.parts) /\ IsFiniteSet(DOMAIN N) /\ DOMAIN N \in SUBSET Nat /\ IsFiniteSet(DOMAIN I)
  <2>1. IsFiniteSet(A) /\ IsFiniteSet(P)
    BY <1>4, ListIs, FS_Subset
  <2>2. IsFiniteSet({0} \cup A)
    BY <2>1, FS_Singleton, FS_Union
  <2>3. A \in SUBSET (Nat \ {0}) /\ P \in SUBSET (Nat \ {0})
    BY <1>4, ListIs
  <2> QED
    BY <1>1, <1>2, <1>3, <2>1, <2>2, <2>3 DEF Listed
<1>6. KeyPerSource(<<>>, bom.parts)
  <2>1. ToSet(<<>>) = {}
    BY DEF ToSet
  <2>2. ASSUME NEW i \in P, NEW j \in P, bom.parts[i].source = bom.parts[j].source
        PROVE  bom.parts[i].key = bom.parts[j].key
    <3>1. PartSource(instances[i], id(i)) = PartSource(instances[j], id(j))
      BY <1>2, <2>2
    <3>2. instances[i].part # id(j) /\ instances[j].part # id(i)
      BY <1>4, ListIs
    <3>3. PartKey(instances[i], id(i)) = PartKey(instances[j], id(j))
      BY <3>1, <3>2 DEF PartSource, PartKey
    <3> QED
      BY <1>2, <3>3
  <2>3. \A p \in Range(bom.parts) : \E i \in P : p = bom.parts[i]
    BY <1>2 DEF Range
  <2> QED
    BY <2>1, <2>2, <2>3 DEF KeyPerSource
<1>7. Root.source \in SourcesIn(N) /\ \A i \in A : AssemblySource(id(i)) \in SourcesIn(N)
  BY <1>1 DEF SourcesIn
<1>8. \A i : InstanceParent(instances, i) \in SourcesIn(N)
  BY <1>7, InstanceParentIs DEF A
<1>9. Missing \notin SourcesIn(N)
  <2>1. \A x \in SourcesIn(N) : x = Root.source \/ \E i \in DOMAIN instances : x = AssemblySource(id(i))
    BY <1>1, <1>4 DEF SourcesIn
  <2> QED
    BY <2>1, ListIs
<1>10. /\ \A i, j \in DOMAIN N : N[i].source = N[j].source => i = j
       /\ \A i, j \in DOMAIN I : I[i].source = I[j].source => i = j
  <2>1. \A i, j \in DOMAIN instances : id(i) = id(j) => i = j
    BY ListIs
  <2>2. \A i \in DOMAIN instances : id(i) # 0
    BY ListIs
  <2>3. \A x, y : AssemblySource(x) = AssemblySource(y) => x = y
    BY DEF AssemblySource
  <2>4. Root.source = AssemblySource(0)
    BY DEF Root
  <2> HIDE DEF id
  <2>5. \A i \in A : N[i].source # Root.source
    BY <1>1, <1>4, <2>2, <2>3, <2>4
  <2>6. N[0].source = Root.source
    BY <1>1
  <2>7. \A i, j \in A : N[i].source = N[j].source => i = j
    BY <1>1, <1>4, <2>1, <2>3
  <2>8. \A i, j \in DOMAIN N : N[i].source = N[j].source => i = j
    BY <1>1, <2>5, <2>6, <2>7
  <2>9. \A i, j \in DOMAIN I : I[i].source = I[j].source => id(i) = id(j)
    BY <1>3
  <2> QED
    BY <1>3, <1>4, <2>1, <2>8, <2>9
<1>11. IsBom(bom)
  <2>1. \A i, j \in P : I[i].source = I[j].source => I[i].part = I[j].part
    BY <1>3, <1>10
  <2>2. \A i \in DOMAIN N \ {0} : N[i].parent \in SourcesIn(N)
    BY <1>1, <1>8
  <2>3. \A i \in P : I[i].part = bom.parts[i].source /\ I[i].parent \in SourcesIn(N)
    BY <1>2, <1>3, <1>8
  <2>4. 0 \in DOMAIN N
    BY <1>1
  <2> QED
    BY <1>1, <1>2, <1>3, <1>5, <1>6, <1>9, <2>1, <2>2, <2>3, <2>4 DEF IsBom
<1>12. Distinct(bom)
  <2> DEFINE b == [i \in DOMAIN N |-> N[i].source]
             c == [i \in DOMAIN I |-> I[i].source]
  <2>1. SourcesIn(N) = {b[i] : i \in DOMAIN N} /\ SourcesIn(I) = {c[i] : i \in DOMAIN I}
    BY DEF SourcesIn
  <2>2. \A i, j \in DOMAIN N : b[i] = b[j] => i = j
    BY <1>10
  <2>3. \A i, j \in DOMAIN I : c[i] = c[j] => i = j
    BY <1>10
  <2> HIDE DEF b, c
  <2>4. Cardinality({b[i] : i \in DOMAIN N}) = Cardinality(DOMAIN N)
    <3>1. IsFiniteSet(DOMAIN N)
      BY <1>5
    <3> HIDE DEF N
    <3> QED
      BY ONLY <2>2, <3>1, ImageOfSameSize
  <2>5. Cardinality({c[i] : i \in DOMAIN I}) = Cardinality(DOMAIN I)
    BY <1>5, <2>3, ImageOfSameSize
  <2> QED
    BY <2>1, <2>4, <2>5 DEF Distinct
<1>13. Forest(bom)
  <2> SUFFICES ASSUME NEW S \in SUBSET (DOMAIN N \ {0}), S # {}
               PROVE  \E i \in S : \A j \in S : N[i].parent # N[j].source
    BY DEF Forest
  <2>1. S \in SUBSET A
    BY <1>1
  <2>2. PICK i \in S : \A j \in S : instances[i].parent # id(j)
    BY <2>1 DEF IsList, A
  <2>3. N[i].parent = InstanceParent(instances, i)
    BY <1>1, <2>1, <2>2
  <2>4. ASSUME NEW j \in S, N[i].parent = N[j].source
        PROVE  FALSE
    <3>1. j \in A /\ N[j].source = AssemblySource(id(j)) /\ j \in DOMAIN instances
      BY <1>1, <1>4, <2>1, <2>4
    <3>2. N[j].source # Root.source
      <4>1. id(j) # 0
        BY <3>1, ListIs
      <4> HIDE DEF id
      <4> QED
        BY <3>1, <4>1 DEF Root, AssemblySource
    <3>3. PICK k \in PlacesOf(instances, TRUE) :
              id(k) = instances[i].parent /\ InstanceParent(instances, i) = AssemblySource(id(k))
      BY <2>3, <2>4, <3>2, InstanceParentIs
    <3>4. id(k) = id(j)
      <4>1. AssemblySource(id(k)) = AssemblySource(id(j))
        BY <2>3, <2>4, <3>1, <3>3
      <4> HIDE DEF id
      <4> QED
        BY <4>1 DEF AssemblySource
    <3> QED
      BY <2>2, <3>3, <3>4
  <2> QED
    BY <2>4
<1> QED
  BY <1>11, <1>12, <1>13

\* The graph has each instance of a list once, below the root.
THEOREM ListIsKept ==
    ASSUME NEW instances, IsList(instances)
    PROVE  InstancesKept(instances)
<1> DEFINE bom == OfInstances(instances)
           graph == Imported(Empty, bom)
<1>1. IsBom(bom) /\ Distinct(bom) /\ Forest(bom)
  BY ListIsBom
<1>2. ImportedOnce(bom)
  BY <1>1, BomIsImportedOnce
<1>3. ASSUME NEW key
      PROVE  HowMany(graph, Root.source, key) =
                 Cardinality({i \in PlacesOf(instances, FALSE) : PartKey(instances[i], instances[i].id) = key})
  <2> DEFINE J == {i \in PlacesOf(instances, FALSE) : PartKey(instances[i], instances[i].id) = key}
             T == PlacesBelow(bom, graph, Root.source, key)
             q == QuantitiesIn(bom)
  <2>1. /\ DOMAIN bom.instances = PlacesOf(instances, FALSE)
        /\ \A i \in PlacesOf(instances, FALSE) : /\ bom.instances[i].quantity = 1
                                                 /\ bom.parts[i].key = PartKey(instances[i], instances[i].id)
    BY DEF OfInstances, BomPart
  <2> HIDE DEF bom, graph
  <2>2. \A i \in DOMAIN bom.instances : bom.instances[i].parent \in DOMAIN graph.nodes
    BY <1>1, ImportedIs DEF IsBom, graph
  <2>3. Hangs(graph.nodes) /\ Grounded(graph.nodes, Root.source)
    BY <1>1, GraphIsGrounded DEF graph
  <2>4. \A i \in DOMAIN bom.instances : Root.source \in AboveIn(graph, bom.instances[i].parent)
    BY <2>2, <2>3, AboveSteps
  <2>5. T = J
    BY <2>1, <2>4 DEF PlacesBelow
  <2>6. /\ IsFiniteSet(DOMAIN bom.instances)
        /\ HowMany(graph, Root.source, key) = Sum(q, T)
    <3>1. \A i \in DOMAIN bom.instances : bom.instances[i].quantity \in Nat
      <4>1. 1 \in Nat
        OBVIOUS
      <4> QED
        BY <2>1, <4>1
    <3> QED
      BY <1>1, <3>1, HowManyIs DEF graph
  <2>7. IsFiniteSet(T) /\ \A i \in T : q[i] = 1
    <3>1. T \in SUBSET DOMAIN bom.instances
      BY DEF PlacesBelow
    <3> QED
      BY <2>1, <2>6, <3>1, FS_Subset DEF QuantitiesIn
  <2> HIDE DEF T, J, q
  <2>8. Sum(q, T) = 1 * Cardinality(T) /\ Cardinality(T) \in Nat
    BY <2>7, SumOfSame, FS_CardinalityType
  <2>9. 1 * Cardinality(T) = Cardinality(T)
    BY <2>8
  <2> QED
    BY <2>5, <2>6, <2>8, <2>9 DEF J
<1> HIDE DEF bom, graph
<1> QED
  BY <1>2, <1>3 DEF InstancesKept, bom, graph

-----------------------------------------------------------------------------
(* All inputs.                                                             *)

\* The views of every snapshot agree, and every diff tells what changed (cadDiffService.ts,
\* cadHierarchyReviewService.ts, cadInstanceGrouping.ts), for any files and mappings.
THEOREM AllViewsAgree == FilesSpec => []ViewsAgree
<1>1. FilesInit => ViewsAgree
  <2> SUFFICES ASSUME FilesInit, side = "files"
               PROVE  /\ files.file.usages # <<>> => Agreeing(files.new, files.is, WorkspaceRecords)
                      /\ Telling(files.old, files.new, files.was, files.is)
    BY DEF ViewsAgree
  <2>1. files \in StepFiles
    BY DEF FilesInit
  <2>2. IsSnapshot(files.old) /\ IsSnapshot(files.new)
    BY <2>1, StepFilesAssumption, ParsedIsSnapshot
  <2>3. Telling(files.old, files.new, files.was, files.is)
    BY <2>2, DiffsTell
  <2>4. ASSUME files.file.usages # <<>>
        PROVE  Agreeing(files.new, files.is, WorkspaceRecords)
    <3>1. IsFile(files.file) /\ files.new = Parsed(files.file)
      BY <2>1, <2>4, StepFilesAssumption
    <3>2. IsTree(files.new, Roots(files.file), Usages(files.file))
      BY <3>1, ParsedIsTree
    <3> QED
      BY <3>2, TreesAgree
  <2> QED
    BY <2>3, <2>4
<1>2. ViewsAgree /\ [FALSE]_<<side, files>> => ViewsAgree'
  BY DEF ViewsAgree
<1> QED
  BY <1>1, <1>2, PTL DEF FilesSpec

\* Every STEP file and every bill of materials is kept (parseStepTextAssemblyGraph,
\* normalizeBomTable, normalizeRootAssemblyBom, importBomGraph): no assembly, part or
\* instance is lost, or counted too often.
THEOREM AllFilesAreKept == FilesSpec => []FilesAreKept
<1>1. FilesInit => FilesAreKept
  <2> SUFFICES ASSUME FilesInit
               PROVE  FilesAreKept
    OBVIOUS
  <2>1. side = "files" /\ files.file.usages # <<>> => Kept(files.file)
    <3> SUFFICES ASSUME side = "files", files.file.usages # <<>>
                 PROVE  Kept(files.file)
      OBVIOUS
    <3>1. IsFile(files.file)
      BY StepFilesAssumption DEF FilesInit
    <3> QED
      BY <3>1, FileIsKept
  <2>2. side = "tables" => TableKept(files)
    BY BillsAssumption, TableIsKept DEF FilesInit
  <2>3. side = "instances" => InstancesKept(files)
    BY BillsAssumption, ListIsKept DEF FilesInit
  <2> QED
    BY <2>1, <2>2, <2>3 DEF FilesAreKept
<1>2. FilesAreKept /\ [FALSE]_<<side, files>> => FilesAreKept'
  BY DEF FilesAreKept
<1> QED
  BY <1>1, <1>2, PTL DEF FilesSpec
=============================================================================
