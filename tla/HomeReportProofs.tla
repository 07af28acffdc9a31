-------------------------- MODULE HomeReportProofs --------------------------
(* The report and the balances proved for any ledger, rates and months.      *)
(*                                                                           *)
(* A figure is a sum, and what is claimed of figures is arithmetic of sums:  *)
(* they may be split, grouped by a key and bounded term by term.  The first  *)
(* part proves that of SumFunction, by induction over a finite set stated    *)
(* with a set of sets; the second part is about days and rounding; the third *)
(* follows the statements of a read.                                         *)
EXTENDS HomeReport, FiniteSetTheorems, TLAPS

------------------------------------------------------------------------------
(* Induction *)

(* A set of numbers that is not empty has a least one. *)
LEMMA LeastNumber ==
  ASSUME NEW N \in SUBSET Nat, N # {}
  PROVE  \E n \in N : \A m \in N : n <= m
<1>1. PICK n \in N : \A m \in N : ~ (<<m, n>> \in OpToRel(<, Nat))
  BY NatLessThanWellFounded, WFMin
<1>2. \A m \in N : ~ (m < n)
  BY <1>1 DEF OpToRel
<1>3. QED
  BY <1>2

(* Among subsets of a finite set, one is smallest. *)
LEMMA SmallestSubset ==
  ASSUME NEW S, IsFiniteSet(S), NEW B \in SUBSET SUBSET S, B # {}
  PROVE  \E T \in B : \A x \in T : T \ {x} \notin B
<1> DEFINE Sizes == {Cardinality(T) : T \in B}
<1>1. \A T \in B : IsFiniteSet(T) /\ Cardinality(T) \in Nat
  BY FS_Subset, FS_CardinalityType
<1>2. Sizes \in SUBSET Nat /\ Sizes # {}
  BY <1>1
<1>3. PICK n \in Sizes : \A m \in Sizes : n <= m
  BY <1>2, LeastNumber
<1>4. PICK T \in B : Cardinality(T) = n
  BY <1>3
<1>5. ASSUME NEW x \in T, T \ {x} \in B PROVE FALSE
  <2>1. Cardinality(T \ {x}) = n - 1
    BY <1>1, <1>4, FS_RemoveElement
  <2>2. n <= n - 1 /\ n \in Nat
    BY <1>2, <1>3, <1>5, <2>1
  <2>3. QED
    BY <2>2
<1>6. QED
  BY <1>5

(* What holds of no element, and of one more whenever it holds of a set, holds
   of a finite set.  Good is the set of the subsets it holds of. *)
LEMMA OneByOne ==
  ASSUME NEW S, IsFiniteSet(S), NEW Good, {} \in Good,
         \A T \in SUBSET S : \A x \in S \ T : T \in Good => T \cup {x} \in Good
  PROVE  S \in Good
<1> DEFINE Bad == {T \in SUBSET S : T \notin Good}
<1>1. SUFFICES ASSUME S \notin Good PROVE FALSE
  OBVIOUS
<1>2. PICK T \in Bad : \A x \in T : T \ {x} \notin Bad
  BY <1>1, SmallestSubset
<1>3. PICK x \in T : TRUE
  BY <1>2
<1>4. T \ {x} \in SUBSET S /\ x \in S \ (T \ {x}) /\ (T \ {x}) \cup {x} = T
  BY <1>3
<1>5. QED
  BY <1>2, <1>4

(* What holds of 0, and of n + 1 whenever of n, holds of every number. *)
LEMMA CountUp ==
  ASSUME NEW Good, 0 \in Good, \A n \in Nat : n \in Good => n + 1 \in Good
  PROVE  \A n \in Nat : n \in Good
<1>1. SUFFICES ASSUME {n \in Nat : n \notin Good} # {} PROVE FALSE
  OBVIOUS
<1>2. PICK n \in {n \in Nat : n \notin Good} : \A m \in {k \in Nat : k \notin Good} : n <= m
  BY <1>1, LeastNumber
<1>3. n - 1 \in Nat /\ (n - 1) + 1 = n
  BY <1>2
<1>4. ~ (n <= n - 1)
  BY <1>3
<1>5. QED
  BY <1>2, <1>3, <1>4

------------------------------------------------------------------------------
(* What a sum is *)

\* The element a sum takes first.
Chosen(s) == CHOOSE x \in s : TRUE

\* g sums f over each of the sets in D.
Adds(g, f, D) == g = [s \in D |-> IF s = {} THEN 0 ELSE f[Chosen(s)] + g[s \ {Chosen(s)}]]

LEMMA SumIsChosen ==
  ASSUME NEW f, NEW S
  PROVE  SumFunctionOnSet(f, S) =
           (CHOOSE g : Adds(g, f, SUBSET S))[S]
BY DEF SumFunctionOnSet, FoldFunctionOnSet, MapThenFoldSet, Chosen, Adds

(* Such a function exists: it is built up by the size of the sets. *)
LEMMA AddsExists ==
  ASSUME NEW f, NEW S, IsFiniteSet(S)
  PROVE  \E g : Adds(g, f, SUBSET S)
<1> DEFINE UpTo(n) == {s \in SUBSET S : Cardinality(s) <= n}
           Good == {n \in Nat : \E g : Adds(g, f, UpTo(n))}
<1>0. ASSUME NEW s \in SUBSET S
      PROVE  /\ Cardinality(s) \in Nat
             /\ Cardinality(s) = 0 => s = {}
             /\ s # {} => /\ Chosen(s) \in s
                          /\ Cardinality(s \ {Chosen(s)}) = Cardinality(s) - 1
  <2>1. IsFiniteSet(s)
    BY FS_Subset
  <2>2. s # {} => Chosen(s) \in s
    BY DEF Chosen
  <2>3. QED
    BY <2>1, <2>2, FS_CardinalityType, FS_EmptySet, FS_RemoveElement
<1>1. 0 \in Good
  <2> DEFINE g == [s \in UpTo(0) |-> 0]
  <2>1. ASSUME NEW s \in UpTo(0) PROVE s = {}
    <3>1. Cardinality(s) \in Nat /\ Cardinality(s) <= 0
      BY <1>0
    <3>2. Cardinality(s) = 0
      BY <3>1
    <3>3. QED
      BY <1>0, <3>2
  <2>2. Adds(g, f, UpTo(0))
    BY <2>1 DEF Adds
  <2>3. QED
    BY <2>2
<1>2. ASSUME NEW n \in Nat, n \in Good PROVE n + 1 \in Good
  <2>1. PICK g : Adds(g, f, UpTo(n))
    BY <1>2
  <2> DEFINE h == [s \in UpTo(n + 1) |->
                     IF s = {} THEN 0 ELSE f[Chosen(s)] + g[s \ {Chosen(s)}]]
  <2>2. \A s \in UpTo(n) : s \in UpTo(n + 1) /\ h[s] = g[s]
    <3>1. ASSUME NEW s \in UpTo(n) PROVE s \in UpTo(n + 1)
      <4>1. Cardinality(s) \in Nat /\ Cardinality(s) <= n
        BY <1>0
      <4>2. Cardinality(s) <= n + 1
        BY <4>1
      <4>3. QED
        BY <4>2
    <3>2. \A s \in UpTo(n) : g[s] = IF s = {} THEN 0 ELSE f[Chosen(s)] + g[s \ {Chosen(s)}]
      BY <2>1 DEF Adds
    <3>3. QED
      BY <3>1, <3>2
  <2>3. \A s \in UpTo(n + 1) : s # {} => s \ {Chosen(s)} \in UpTo(n)
    BY <1>0
  <2>4. \A s \in UpTo(n + 1) : s # {} => h[s \ {Chosen(s)}] = g[s \ {Chosen(s)}]
    BY <2>2, <2>3
  <2>5. h = [s \in UpTo(n + 1) |->
               IF s = {} THEN 0 ELSE f[Chosen(s)] + h[s \ {Chosen(s)}]]
    BY <2>4
  <2>6. Adds(h, f, UpTo(n + 1))
    BY <2>5 DEF Adds
  <2>7. n + 1 \in Nat /\ \E k : Adds(k, f, UpTo(n + 1))
    <3> HIDE DEF h, UpTo
    <3>1. QED
      BY <2>6
  <2>8. QED
    BY <2>7
<1>3. \A n \in Nat : n \in Good
  BY <1>1, <1>2, CountUp
<1>4. Cardinality(S) \in Good
  BY <1>0, <1>3
<1>5. UpTo(Cardinality(S)) = SUBSET S
  BY FS_Subset, FS_CardinalityType
<1>6. QED
  BY <1>4, <1>5
(* Two such functions agree where both are defined. *)
LEMMA AddsAgree ==
  ASSUME NEW f, NEW S, IsFiniteSet(S), NEW T \in SUBSET S, NEW g, NEW h,
         Adds(g, f, SUBSET S), Adds(h, f, SUBSET T)
  PROVE  \A s \in SUBSET T : g[s] = h[s]
<1> DEFINE Bad == {s \in SUBSET T : g[s] # h[s]}
<1>1. SUFFICES ASSUME Bad # {} PROVE FALSE
  OBVIOUS
<1>2. IsFiniteSet(T)
  BY FS_Subset
<1>3. PICK s \in Bad : \A x \in s : s \ {x} \notin Bad
  BY <1>1, <1>2, SmallestSubset
<1>4. /\ g[s] = IF s = {} THEN 0 ELSE f[Chosen(s)] + g[s \ {Chosen(s)}]
      /\ h[s] = IF s = {} THEN 0 ELSE f[Chosen(s)] + h[s \ {Chosen(s)}]
  BY <1>3 DEF Adds
<1>5. s # {}
  BY <1>3, <1>4
<1>6. Chosen(s) \in s
  BY <1>5 DEF Chosen
<1>7. g[s \ {Chosen(s)}] = h[s \ {Chosen(s)}]
  BY <1>3, <1>6
<1>8. QED
  BY <1>3, <1>4, <1>7

(* A sum over no element is 0, and one over some is its chosen term and the sum
   over the rest. *)
LEMMA SumUnfolds ==
  ASSUME NEW f, NEW S, IsFiniteSet(S)
  PROVE  /\ S = {} => SumFunctionOnSet(f, S) = 0
         /\ S # {} => SumFunctionOnSet(f, S) =
                        f[Chosen(S)] + SumFunctionOnSet(f, S \ {Chosen(S)})
<1> DEFINE T == S \ {Chosen(S)}
           g == CHOOSE k : Adds(k, f, SUBSET S)
           h == CHOOSE k : Adds(k, f, SUBSET T)
<1>1. IsFiniteSet(T) /\ T \in SUBSET S
  BY FS_Subset
<1>2. Adds(g, f, SUBSET S) /\ Adds(h, f, SUBSET T)
  <2>1. Adds(g, f, SUBSET S)
    BY AddsExists
  <2>2. Adds(h, f, SUBSET T)
    BY <1>1, AddsExists
  <2>3. QED
    BY <2>1, <2>2
<1>3. SumFunctionOnSet(f, S) = g[S] /\ SumFunctionOnSet(f, T) = h[T]
  BY SumIsChosen
<1>4. g[S] = IF S = {} THEN 0 ELSE f[Chosen(S)] + g[T]
  <2> HIDE DEF g
  <2>1. QED
    BY <1>2 DEF Adds
<1>5. g[T] = h[T]
  <2> HIDE DEF g, h, T
  <2>1. \A s \in SUBSET T : g[s] = h[s]
    <3>1. T \in SUBSET S /\ Adds(g, f, SUBSET S) /\ Adds(h, f, SUBSET T)
      BY <1>1, <1>2
    <3>2. QED
      BY <3>1, AddsAgree
  <2>2. T \in SUBSET T
    OBVIOUS
  <2>3. QED
    BY <2>1, <2>2
<1>6. QED
  <2> HIDE DEF g, h
  <2>1. QED
    BY <1>3, <1>4, <1>5

(* A sum of integers is an integer. *)
LEMMA SumIsInteger ==
  ASSUME NEW f, NEW S, IsFiniteSet(S), \A x \in S : f[x] \in Int
  PROVE  SumFunctionOnSet(f, S) \in Int
<1> DEFINE Bad == {s \in SUBSET S : SumFunctionOnSet(f, s) \notin Int}
<1>1. SUFFICES ASSUME Bad # {} PROVE FALSE
  OBVIOUS
<1>2. PICK s \in Bad : \A x \in s : s \ {x} \notin Bad
  BY <1>1, SmallestSubset
<1>3. IsFiniteSet(s)
  BY <1>2, FS_Subset
<1>4. s # {}
  <2>1. s = {} => SumFunctionOnSet(f, s) = 0
    BY <1>3, SumUnfolds
  <2>2. QED
    BY <1>2, <2>1
<1>5. Chosen(s) \in s
  BY <1>4 DEF Chosen
<1>6. SumFunctionOnSet(f, s \ {Chosen(s)}) \in Int
  BY <1>2, <1>5
<1>7. f[Chosen(s)] \in Int
  BY <1>2, <1>5
<1>8. QED
  BY <1>2, <1>3, <1>4, <1>6, <1>7, SumUnfolds

(* Any term may be taken first. *)
LEMMA SumTakesOut ==
  ASSUME NEW f, NEW S, IsFiniteSet(S), \A x \in S : f[x] \in Int
  PROVE  \A x \in S : SumFunctionOnSet(f, S) = f[x] + SumFunctionOnSet(f, S \ {x})
<1> DEFINE Sum(s) == SumFunctionOnSet(f, s)
           Bad == {s \in SUBSET S : \E x \in s : Sum(s) # f[x] + Sum(s \ {x})}
<1>1. SUFFICES ASSUME Bad # {} PROVE FALSE
  <2>1. S \notin Bad
    BY <1>1
  <2>2. QED
    BY <2>1
<1>2. PICK s \in Bad : \A x \in s : s \ {x} \notin Bad
  BY <1>1, SmallestSubset
<1>3. PICK x \in s : Sum(s) # f[x] + Sum(s \ {x})
  BY <1>2
<1> DEFINE c == Chosen(s)
<1>4. c \in s
  BY <1>3 DEF Chosen
<1>5. \A r \in SUBSET S : IsFiniteSet(r) /\ Sum(r) \in Int
  <2>1. ASSUME NEW r \in SUBSET S PROVE IsFiniteSet(r) /\ Sum(r) \in Int
    <3>1. IsFiniteSet(r) /\ \A y \in r : f[y] \in Int
      BY FS_Subset
    <3>2. QED
      BY <3>1, SumIsInteger
  <2>2. QED
    BY <2>1
<1>6. Sum(s) = f[c] + Sum(s \ {c})
  BY <1>2, <1>4, <1>5, SumUnfolds
<1>7. x # c
  BY <1>3, <1>6
<1>8. Sum(s \ {c}) = f[x] + Sum((s \ {c}) \ {x})
  <2>1. x \in s \ {c} /\ s \ {c} \in SUBSET S
    BY <1>2, <1>3, <1>7
  <2>2. s \ {c} \notin Bad
    BY <1>2, <1>4
  <2> HIDE DEF c, Sum
  <2>3. QED
    BY <2>1, <2>2
<1>9. Sum(s \ {x}) = f[c] + Sum((s \ {x}) \ {c})
  <2>1. c \in s \ {x} /\ s \ {x} \in SUBSET S
    BY <1>2, <1>4, <1>7
  <2>2. s \ {x} \notin Bad
    BY <1>2, <1>3
  <2> HIDE DEF c, Sum
  <2>3. QED
    BY <2>1, <2>2
<1>10. (s \ {c}) \ {x} = (s \ {x}) \ {c}
  OBVIOUS
<1>11. /\ f[c] \in Int /\ f[x] \in Int /\ (s \ {x}) \ {c} \in SUBSET S
       /\ Sum((s \ {x}) \ {c}) \in Int
  BY <1>2, <1>3, <1>4, <1>5
<1>12. QED
  <2> HIDE DEF c, Sum
  <2>1. Sum(s) = f[c] + (f[x] + Sum((s \ {x}) \ {c}))
    BY <1>6, <1>8, <1>10
  <2>2. QED
    BY <1>3, <1>9, <1>11, <2>1

------------------------------------------------------------------------------
(* What sums do *)

(* A sum grows by the term of the element that joins. *)
LEMMA SumGrows ==
  ASSUME NEW f, NEW S, IsFiniteSet(S), \A x \in S : f[x] \in Int,
         NEW T \in SUBSET S, NEW x \in S \ T
  PROVE  /\ SumFunctionOnSet(f, T) \in Int /\ f[x] \in Int
         /\ SumFunctionOnSet(f, T \cup {x}) = f[x] + SumFunctionOnSet(f, T)
<1>1. IsFiniteSet(T) /\ IsFiniteSet(T \cup {x}) /\ (T \cup {x}) \ {x} = T
  BY FS_Subset
<1>2. SumFunctionOnSet(f, T) \in Int
  BY <1>1, SumIsInteger
<1>3. SumFunctionOnSet(f, T \cup {x}) = f[x] + SumFunctionOnSet(f, (T \cup {x}) \ {x})
  BY <1>1, SumTakesOut
<1>4. QED
  BY <1>1, <1>2, <1>3

LEMMA SumOfNone ==
  ASSUME NEW f
  PROVE  SumFunctionOnSet(f, {}) = 0
BY SumUnfolds, FS_EmptySet

(* Equal terms, equal sums. *)
LEMMA SumOfEqualTerms ==
  ASSUME NEW f, NEW g, NEW S, IsFiniteSet(S),
         \A x \in S : f[x] \in Int /\ g[x] = f[x]
  PROVE  SumFunctionOnSet(f, S) = SumFunctionOnSet(g, S)
<1> DEFINE Good == {T \in SUBSET S : SumFunctionOnSet(f, T) = SumFunctionOnSet(g, T)}
<1>1. {} \in Good
  BY SumOfNone
<1>2. ASSUME NEW T \in SUBSET S, NEW x \in S \ T, T \in Good PROVE T \cup {x} \in Good
  <2>1. SumFunctionOnSet(f, T \cup {x}) = f[x] + SumFunctionOnSet(f, T)
    BY SumGrows
  <2>2. SumFunctionOnSet(g, T \cup {x}) = g[x] + SumFunctionOnSet(g, T)
    BY SumGrows
  <2>3. QED
    BY <1>2, <2>1, <2>2
<1>3. S \in Good
  <2> HIDE DEF Good
  <2>1. QED
    BY <1>1, <1>2, OneByOne
<1>4. QED
  BY <1>3

(* The sums over two sets that share nothing add up to the sum over both. *)
LEMMA SumOfUnion ==
  ASSUME NEW f, NEW A, NEW B, IsFiniteSet(A), IsFiniteSet(B), A \cap B = {},
         \A x \in A \cup B : f[x] \in Int
  PROVE  /\ SumFunctionOnSet(f, A) \in Int /\ SumFunctionOnSet(f, B) \in Int
         /\ SumFunctionOnSet(f, A \cup B) =
              SumFunctionOnSet(f, A) + SumFunctionOnSet(f, B)
<1> DEFINE Sum(T) == SumFunctionOnSet(f, T)
           Good == {T \in SUBSET B : Sum(A \cup T) = Sum(A) + Sum(T)}
<1>0. IsFiniteSet(A \cup B)
  BY FS_Union
<1>1. Sum(A) \in Int /\ Sum(B) \in Int
  BY SumIsInteger
<1>2. {} \in Good
  <2>1. A \cup {} = A
    OBVIOUS
  <2>2. QED
    BY <1>1, <2>1, SumOfNone
<1>3. ASSUME NEW T \in SUBSET B, NEW x \in B \ T, T \in Good PROVE T \cup {x} \in Good
  <2>1. A \cup T \in SUBSET (A \cup B) /\ x \in (A \cup B) \ (A \cup T)
    BY <1>3
  <2>2. f[x] \in Int /\ Sum((A \cup T) \cup {x}) = f[x] + Sum(A \cup T)
    BY <1>0, <2>1, SumGrows
  <2>3. Sum(T) \in Int /\ Sum(T \cup {x}) = f[x] + Sum(T)
    BY <1>3, SumGrows
  <2>4. (A \cup T) \cup {x} = A \cup (T \cup {x})
    OBVIOUS
  <2>5. Sum(A \cup T) = Sum(A) + Sum(T)
    BY <1>3
  <2>6. Sum(A \cup (T \cup {x})) = f[x] + Sum(A \cup T)
    BY <2>2, <2>4
  <2> HIDE DEF Sum
  <2>7. Sum(A \cup (T \cup {x})) = Sum(A) + Sum(T \cup {x})
    BY <1>1, <2>2, <2>3, <2>5, <2>6
  <2> USE DEF Sum
  <2>8. QED
    BY <1>3, <2>7
<1>4. B \in Good
  <2> HIDE DEF Good
  <2>1. QED
    BY <1>2, <1>3, OneByOne
<1>5. QED
  BY <1>1, <1>4

(* Grouping: the sums of the groups add up to the sum over all. *)
LEMMA SumByKey ==
  ASSUME NEW f, NEW S, IsFiniteSet(S), \A x \in S : f[x] \in Int,
         NEW K, IsFiniteSet(K), NEW key, \A x \in S : key[x] \in K,
         NEW group, \A k \in K : \A x : x \in group[k] <=> x \in S /\ key[x] = k,
         NEW h, \A k \in K : h[k] = SumFunctionOnSet(f, group[k])
  PROVE  /\ \A k \in K : h[k] \in Int
         /\ SumFunctionOnSet(h, K) = SumFunctionOnSet(f, S)
<1> DEFINE Group(k) == {x \in S : key[x] = k}
           In(T) == {x \in S : key[x] \in T}
           Good == {T \in SUBSET K : SumFunctionOnSet(h, T) = SumFunctionOnSet(f, In(T))}
<1>0. \A k \in K : group[k] = Group(k)
  OBVIOUS
<1>1. \A T \in SUBSET S : IsFiniteSet(T) /\ SumFunctionOnSet(f, T) \in Int
  <2>1. ASSUME NEW T \in SUBSET S PROVE IsFiniteSet(T) /\ SumFunctionOnSet(f, T) \in Int
    <3>1. IsFiniteSet(T)
      BY FS_Subset
    <3>2. QED
      BY <3>1, SumIsInteger
  <2>2. QED
    BY <2>1
<1>2. \A k \in K : h[k] \in Int
  BY <1>0, <1>1
<1>3. {} \in Good
  <2>1. In({}) = {}
    OBVIOUS
  <2>2. QED
    BY <2>1, SumOfNone
<1>4. ASSUME NEW T \in SUBSET K, NEW k \in K \ T, T \in Good PROVE T \cup {k} \in Good
  <2>1. SumFunctionOnSet(h, T \cup {k}) = h[k] + SumFunctionOnSet(h, T)
    BY <1>2, SumGrows
  <2>2. /\ In(T \cup {k}) = Group(k) \cup In(T) /\ Group(k) \cap In(T) = {}
        /\ Group(k) \in SUBSET S /\ In(T) \in SUBSET S
    BY <1>4
  <2>3. SumFunctionOnSet(f, Group(k) \cup In(T)) =
          SumFunctionOnSet(f, Group(k)) + SumFunctionOnSet(f, In(T))
    <3> HIDE DEF Group, In
    <3>1. IsFiniteSet(Group(k)) /\ IsFiniteSet(In(T))
      BY <1>1, <2>2
    <3>2. \A x \in Group(k) \cup In(T) : f[x] \in Int
      BY <2>2
    <3>3. QED
      BY <2>2, <3>1, <3>2, SumOfUnion
  <2>4. h[k] = SumFunctionOnSet(f, Group(k))
    BY <1>0
  <2>5. SumFunctionOnSet(h, T) = SumFunctionOnSet(f, In(T))
    BY <1>4
  <2>6. SumFunctionOnSet(h, T \cup {k}) = SumFunctionOnSet(f, In(T \cup {k}))
    <3> HIDE DEF Group, In
    <3>1. QED
      BY <2>1, <2>2, <2>3, <2>4, <2>5
  <2>7. QED
    BY <1>4, <2>6
<1>5. K \in Good
  <2> HIDE DEF Good
  <2>1. QED
    BY <1>3, <1>4, OneByOne
<1>6. In(K) = S
  OBVIOUS
<1>7. QED
  BY <1>2, <1>5, <1>6

(* A sum of ones counts. *)
LEMMA SumCounts ==
  ASSUME NEW f, NEW S, IsFiniteSet(S), NEW P \in SUBSET S,
         \A x \in S : f[x] = IF x \in P THEN 1 ELSE 0
  PROVE  SumFunctionOnSet(f, S) = Cardinality(P)
<1> DEFINE Good == {T \in SUBSET S : SumFunctionOnSet(f, T) = Cardinality(P \cap T)}
<1>1. {} \in Good
  <2>1. P \cap {} = {}
    OBVIOUS
  <2>2. QED
    BY <2>1, SumOfNone, FS_EmptySet
<1>2. ASSUME NEW T \in SUBSET S, NEW x \in S \ T, T \in Good PROVE T \cup {x} \in Good
  <2>1. SumFunctionOnSet(f, T \cup {x}) = f[x] + SumFunctionOnSet(f, T)
    BY SumGrows
  <2>2. IsFiniteSet(P \cap T)
    BY FS_Subset
  <2>3. Cardinality(P \cap T) \in Nat
    BY <2>2, FS_CardinalityType
  <2>4. CASE x \in P
    <3>1. P \cap (T \cup {x}) = (P \cap T) \cup {x} /\ x \notin P \cap T
      BY <1>2, <2>4
    <3>2. Cardinality(P \cap (T \cup {x})) = Cardinality(P \cap T) + 1
      BY <2>2, <3>1, FS_AddElement
    <3>3. QED
      BY <1>2, <2>1, <2>3, <2>4, <3>2
  <2>5. CASE x \notin P
    <3>1. P \cap (T \cup {x}) = P \cap T
      BY <2>5
    <3>2. f[x] = 0
      BY <2>5
    <3>3. SumFunctionOnSet(f, T) = Cardinality(P \cap T)
      BY <1>2
    <3>4. SumFunctionOnSet(f, T \cup {x}) = Cardinality(P \cap T)
      BY <2>1, <2>3, <3>2, <3>3
    <3>5. QED
      BY <1>2, <3>1, <3>4
  <2>6. QED
    BY <2>4, <2>5
<1>3. S \in Good
  <2> HIDE DEF Good
  <2>1. QED
    BY <1>1, <1>2, OneByOne
<1>4. P \cap S = P
  OBVIOUS
<1>5. QED
  BY <1>3, <1>4

(* A sum of natural numbers is one, and no term exceeds it. *)
LEMMA SumOfNaturals ==
  ASSUME NEW f, NEW S, IsFiniteSet(S), \A x \in S : f[x] \in Nat
  PROVE  /\ SumFunctionOnSet(f, S) \in Nat
         /\ \A x \in S : f[x] <= SumFunctionOnSet(f, S)
<1> DEFINE Good == {T \in SUBSET S : SumFunctionOnSet(f, T) \in Nat}
<1>1. {} \in Good
  BY SumOfNone
<1>2. ASSUME NEW T \in SUBSET S, NEW x \in S \ T, T \in Good PROVE T \cup {x} \in Good
  <2>1. SumFunctionOnSet(f, T \cup {x}) = f[x] + SumFunctionOnSet(f, T)
    BY SumGrows
  <2>2. QED
    BY <1>2, <2>1
<1>3. \A T \in SUBSET S : SumFunctionOnSet(f, T) \in Nat
  <2>1. ASSUME NEW T \in SUBSET S PROVE T \in Good
    <3>1. IsFiniteSet(T) /\ \A U \in SUBSET T : U \in SUBSET S
      BY FS_Subset
    <3>2. \A U \in SUBSET T : \A x \in T \ U : U \in Good => U \cup {x} \in Good
      BY <1>2
    <3> HIDE DEF Good
    <3>3. QED
      BY <1>1, <3>1, <3>2, OneByOne
  <2>2. QED
    BY <2>1
<1>4. ASSUME NEW x \in S PROVE f[x] <= SumFunctionOnSet(f, S)
  <2>1. SumFunctionOnSet(f, S) = f[x] + SumFunctionOnSet(f, S \ {x})
    BY SumTakesOut
  <2>2. SumFunctionOnSet(f, S \ {x}) \in Nat
    BY <1>3
  <2>3. QED
    BY <2>1, <2>2
<1>5. QED
  BY <1>3, <1>4

(* Terms that are each off by no more than u are off by no more than u times
   their number when they are added up. *)
LEMMA SumStaysWithin ==
  ASSUME NEW f, NEW g, NEW S, IsFiniteSet(S), NEW u \in Nat, NEW d \in Int, NEW r \in Int,
         \A x \in S : /\ f[x] \in Int /\ g[x] \in Int
                      /\ d * f[x] - r * g[x] <= u /\ r * g[x] - d * f[x] <= u
  PROVE  LET F == SumFunctionOnSet(f, S)
             G == SumFunctionOnSet(g, S)
         IN  /\ F \in Int /\ G \in Int
             /\ d * F - r * G <= u * Cardinality(S)
             /\ r * G - d * F <= u * Cardinality(S)
<1> DEFINE F(T) == SumFunctionOnSet(f, T)
           G(T) == SumFunctionOnSet(g, T)
           Good == {T \in SUBSET S : /\ d * F(T) - r * G(T) <= u * Cardinality(T)
                                     /\ r * G(T) - d * F(T) <= u * Cardinality(T)}
<1>1. {} \in Good
  <2>1. F({}) = 0 /\ G({}) = 0 /\ Cardinality({}) = 0
    BY SumOfNone, FS_EmptySet
  <2>2. d * 0 = 0 /\ r * 0 = 0 /\ u * 0 = 0
    OBVIOUS
  <2> HIDE DEF F, G
  <2>3. QED
    BY <2>1, <2>2
<1>2. ASSUME NEW T \in SUBSET S, NEW x \in S \ T, T \in Good PROVE T \cup {x} \in Good
  <2>1. /\ F(T) \in Int /\ f[x] \in Int /\ F(T \cup {x}) = f[x] + F(T)
        /\ G(T) \in Int /\ g[x] \in Int /\ G(T \cup {x}) = g[x] + G(T)
    BY SumGrows
  <2>2. IsFiniteSet(T)
    BY FS_Subset
  <2>3. Cardinality(T) \in Nat /\ Cardinality(T \cup {x}) = Cardinality(T) + 1
    BY <2>2, FS_CardinalityType, FS_AddElement
  <2>4. /\ d * F(T) - r * G(T) <= u * Cardinality(T)
        /\ r * G(T) - d * F(T) <= u * Cardinality(T)
    BY <1>2
  <2>5. d * f[x] - r * g[x] <= u /\ r * g[x] - d * f[x] <= u
    OBVIOUS
  <2> HIDE DEF F, G
  <2>6. \A a, b, c \in Int : c * (a + b) = c * a + c * b /\ c * a \in Int
    OBVIOUS
  <2>7. /\ d * F(T \cup {x}) = d * f[x] + d * F(T) /\ d * f[x] \in Int /\ d * F(T) \in Int
        /\ r * G(T \cup {x}) = r * g[x] + r * G(T) /\ r * g[x] \in Int /\ r * G(T) \in Int
    BY <2>1, <2>6
  <2>8. u * Cardinality(T \cup {x}) = u * Cardinality(T) + u /\ u * Cardinality(T) \in Int
    BY <2>3
  <2>9. /\ d * F(T \cup {x}) - r * G(T \cup {x}) <= u * Cardinality(T \cup {x})
        /\ r * G(T \cup {x}) - d * F(T \cup {x}) <= u * Cardinality(T \cup {x})
    BY <2>4, <2>5, <2>7, <2>8
  <2>10. QED
    BY <1>2, <2>9
<1>3. S \in Good
  <2> HIDE DEF Good
  <2>1. QED
    BY <1>1, <1>2, OneByOne
<1>4. F(S) \in Int /\ G(S) \in Int
  BY SumIsInteger
<1>5. QED
  BY <1>3, <1>4

------------------------------------------------------------------------------
(* Quotients, days and rounding *)

LEMMA ProductsAreOrdered ==
  ASSUME NEW p \in Int, NEW q \in Int, NEW d \in Nat, p <= q
  PROVE  p * d <= q * d /\ p * d \in Int /\ q * d \in Int
<1>1. q - p \in Nat /\ (q - p) * d \in Nat
  OBVIOUS
<1>2. q * d = p * d + (q - p) * d
  OBVIOUS
<1>3. QED
  BY <1>1, <1>2

LEMMA Quotient ==
  ASSUME NEW a \in Int, NEW d \in Nat \ {0}
  PROVE  /\ a \div d \in Int /\ a % d \in 0 .. d - 1
         /\ a = (a \div d) * d + (a % d)
OBVIOUS

(* The quotient is the only number with the dividend between its multiple and
   the next one. *)
LEMMA QuotientIsUnique ==
  ASSUME NEW a \in Int, NEW d \in Nat \ {0}, NEW q \in Int, q * d <= a, a < q * d + d
  PROVE  a \div d = q
<1> DEFINE p == a \div d
<1>1. p \in Int /\ p * d <= a /\ a < p * d + d /\ p * d \in Int
  BY Quotient
<1> HIDE DEF p
<1>2. CASE p >= q + 1
  <2>1. (q + 1) * d <= p * d
    BY <1>1, <1>2, ProductsAreOrdered
  <2>2. (q + 1) * d = q * d + d
    OBVIOUS
  <2>3. QED
    BY <1>1, <2>1, <2>2
<1>3. CASE q >= p + 1
  <2>1. (p + 1) * d <= q * d
    BY <1>1, <1>3, ProductsAreOrdered
  <2>2. (p + 1) * d = p * d + d
    BY <1>1
  <2>3. QED
    BY <1>1, <2>1, <2>2
<1>4. p = q
  BY <1>1, <1>2, <1>3
<1>5. QED
  BY <1>4 DEF p

(* The day of an instant is n or later when day n has started. *)
LEMMA QuotientReaches ==
  ASSUME NEW a \in Int, NEW d \in Nat \ {0}, NEW n \in Int
  PROVE  a \div d >= n <=> a >= n * d
<1> DEFINE q == a \div d
<1>1. q \in Int /\ q * d <= a /\ a < q * d + d /\ q * d \in Int /\ n * d \in Int
  BY Quotient
<1> HIDE DEF q
<1>2. CASE q >= n
  <2>1. n * d <= q * d
    BY <1>1, <1>2, ProductsAreOrdered
  <2>2. QED
    BY <1>1, <1>2, <2>1 DEF q
<1>3. CASE q + 1 <= n
  <2>1. (q + 1) * d <= n * d
    BY <1>1, <1>3, ProductsAreOrdered
  <2>2. (q + 1) * d = q * d + d
    BY <1>1
  <2>3. QED
    BY <1>1, <1>3, <2>1, <2>2 DEF q
<1>4. QED
  BY <1>1, <1>2, <1>3

\* The month an instant falls in, by its local day.
MonthOf(i) == LocalDay(i) \div MonthLength

LEMMA MonthOfIsInteger ==
  ASSUME NEW i \in Int
  PROVE  LocalDay(i) \in Int /\ MonthOf(i) \in Int
<1>1. i + Offset \in Int /\ DayLength \in Nat \ {0} /\ MonthLength \in Nat \ {0}
  BY ScaleAssumption, TimeAssumption
<1>2. LocalDay(i) \in Int
  BY <1>1, Quotient DEF LocalDay
<1>3. QED
  BY <1>1, <1>2, Quotient DEF MonthOf

(* The bounds of the month as instants, of the SQL, and the local day agree. *)
LEMMA MonthHasStarted ==
  ASSUME NEW i \in Int, NEW m \in Int
  PROVE  /\ i >= MonthStart(m) <=> LocalDay(i) >= m * MonthLength
         /\ i >= MonthStart(m) <=> MonthOf(i) >= m
<1>1. /\ DayLength \in Nat \ {0} /\ MonthLength \in Nat \ {0} /\ Offset \in Int
      /\ m * MonthLength \in Int
  BY ScaleAssumption, TimeAssumption
<1> DEFINE n == m * MonthLength
<1>2. n \in Int /\ n * DayLength \in Int
  BY <1>1
<1>3. MonthStart(m) = n * DayLength - Offset
  BY DEF MonthStart, StartOfDay
<1> HIDE DEF n
<1>4. i >= MonthStart(m) <=> i + Offset >= n * DayLength
  BY <1>1, <1>2, <1>3
<1>5. LocalDay(i) >= n <=> i + Offset >= n * DayLength
  <2>1. i + Offset \in Int
    BY <1>1
  <2>2. QED
    BY <1>1, <1>2, <2>1, QuotientReaches DEF LocalDay
<1>6. MonthOf(i) >= m <=> LocalDay(i) >= n
  BY <1>1, MonthOfIsInteger, QuotientReaches DEF MonthOf, n
<1>7. QED
  BY <1>4, <1>5, <1>6 DEF n

LEMMA OneMonth ==
  ASSUME NEW row, row.instant \in Int, NEW m \in Int
  PROVE  InMonth(row, m) <=> MonthOf(row.instant) = m
<1>1. row.instant >= MonthStart(m) <=> MonthOf(row.instant) >= m
  BY MonthHasStarted
<1>2. row.instant >= MonthStart(m + 1) <=> MonthOf(row.instant) >= m + 1
  BY MonthHasStarted
<1>3. MonthOf(row.instant) \in Int
  BY MonthOfIsInteger
<1>4. MonthStart(m + 1) \in Int
  BY ScaleAssumption, TimeAssumption DEF MonthStart, StartOfDay
<1>5. row.instant < MonthStart(m + 1) <=> ~ (row.instant >= MonthStart(m + 1))
  BY <1>4
<1>6. QED
  BY <1>1, <1>2, <1>3, <1>5 DEF InMonth

(* Both roundings are to the nearest, half away from zero. *)
LEMMA RoundsToNearest ==
  ASSUME NEW n \in Int
  PROVE  /\ RoundSql(n) \in Int
         /\ (2 * Unit) * RoundSql(n) - 2 * n <= Unit
         /\ 2 * n - (2 * Unit) * RoundSql(n) <= Unit
<1> DEFINE a == 2 * Magnitude(n) + Unit
           q == a \div (2 * Unit)
<1>1. Unit \in Nat \ {0} /\ 2 * Unit \in Nat \ {0}
  BY ScaleAssumption
<1>2. Magnitude(n) \in Nat /\ a \in Int
  BY <1>1 DEF Magnitude
<1>3. q \in Int /\ q * (2 * Unit) <= a /\ a < q * (2 * Unit) + 2 * Unit /\ q * (2 * Unit) \in Int
  <2> HIDE DEF a
  <2>1. /\ q \in Int /\ a % (2 * Unit) \in 0 .. 2 * Unit - 1
        /\ a = q * (2 * Unit) + (a % (2 * Unit))
    BY <1>1, <1>2, Quotient
  <2> HIDE DEF q
  <2>2. QED
    BY <1>1, <2>1
<1>4. RoundSql(n) = IF n >= 0 THEN q ELSE -q
  BY DEF RoundSql
<1> HIDE DEF q
<1>5. CASE n >= 0
  <2>1. RoundSql(n) = q /\ (2 * Unit) * q = q * (2 * Unit) /\ Magnitude(n) = n
    BY <1>1, <1>3, <1>4, <1>5 DEF Magnitude
  <2>2. QED
    BY <1>1, <1>3, <2>1
<1>6. CASE n < 0
  <2>1. RoundSql(n) = -q /\ (2 * Unit) * (-q) = -(q * (2 * Unit)) /\ Magnitude(n) = -n
    BY <1>1, <1>3, <1>4, <1>6 DEF Magnitude
  <2>2. QED
    BY <1>1, <1>3, <2>1
<1>7. QED
  BY <1>5, <1>6

LEMMA RoundingsAgree ==
  ASSUME NEW n \in Int
  PROVE  RoundPython(n) = RoundSql(n)
<1> DEFINE a == Magnitude(n)
           w == a \div Unit
           e == a % Unit
           up == IF 2 * e >= Unit THEN w + 1 ELSE w
<1>1. Unit \in Nat \ {0} /\ 2 * Unit \in Nat \ {0}
  BY ScaleAssumption
<1>2. a \in Nat
  BY DEF Magnitude
<1>3. w \in Int /\ e \in 0 .. Unit - 1 /\ a = w * Unit + e /\ w * Unit \in Int
  <2> HIDE DEF a
  <2>1. w \in Int /\ e \in 0 .. Unit - 1 /\ a = w * Unit + e
    BY <1>1, <1>2, Quotient
  <2> HIDE DEF w
  <2>2. QED
    BY <1>1, <2>1
<1>4. RoundPython(n) = IF n >= 0 THEN up ELSE -up
  BY DEF RoundPython
<1>5. RoundSql(n) = IF n >= 0 THEN (2 * a + Unit) \div (2 * Unit) ELSE -((2 * a + Unit) \div (2 * Unit))
  BY DEF RoundSql
<1>6. up \in Int /\ up * (2 * Unit) <= 2 * a + Unit /\ 2 * a + Unit < up * (2 * Unit) + 2 * Unit
  <2> HIDE DEF w, e, a
  <2>1. w * (2 * Unit) = 2 * (w * Unit) /\ (w + 1) * (2 * Unit) = 2 * (w * Unit) + 2 * Unit
    BY <1>1, <1>3
  <2>2. CASE 2 * e >= Unit
    BY <1>1, <1>2, <1>3, <2>1, <2>2
  <2>3. CASE 2 * e < Unit
    BY <1>1, <1>2, <1>3, <2>1, <2>3
  <2>4. QED
    BY <1>1, <1>3, <2>2, <2>3
<1>7. 2 * a + Unit \in Int
  BY <1>1, <1>2
<1>8. (2 * a + Unit) \div (2 * Unit) = up
  <2> HIDE DEF up, a
  <2>1. QED
    BY <1>1, <1>6, <1>7, QuotientIsUnique
<1>9. QED
  BY <1>4, <1>5, <1>8

LEMMA RoundingOfOpposites ==
  ASSUME NEW n \in Int
  PROVE  RoundSql(-n) = -RoundSql(n)
<1>1. Magnitude(-n) = Magnitude(n)
  BY DEF Magnitude
<1> DEFINE q == (2 * Magnitude(n) + Unit) \div (2 * Unit)
<1>2. q \in Int
  <2>1. 2 * Magnitude(n) + Unit \in Int /\ 2 * Unit \in Nat \ {0}
    BY ScaleAssumption DEF Magnitude
  <2>2. QED
    BY <2>1, Quotient
<1>3. /\ RoundSql(n) = IF n >= 0 THEN q ELSE -q
      /\ RoundSql(-n) = IF -n >= 0 THEN q ELSE -q
  BY <1>1 DEF RoundSql
<1>4. n = 0 => q = 0
  <2>1. SUFFICES ASSUME n = 0 PROVE q = 0
    OBVIOUS
  <2>2. 2 * Magnitude(n) + Unit = Unit /\ Unit \in Nat \ {0} /\ 2 * Unit \in Nat \ {0}
    BY <2>1, ScaleAssumption DEF Magnitude
  <2>3. 0 * (2 * Unit) <= Unit /\ Unit < 0 * (2 * Unit) + 2 * Unit
    BY <2>2
  <2>4. Unit \div (2 * Unit) = 0
    BY <2>2, <2>3, QuotientIsUnique
  <2>5. QED
    BY <2>2, <2>4
<1> HIDE DEF q
<1>5. QED
  BY <1>2, <1>3, <1>4

------------------------------------------------------------------------------
(* What a row is worth *)

(* Rows and rates are rows and rates. *)
Types ==
    /\ ledger \in [Txn -> Row \cup {NoRow}]
    /\ rates \in RateTables

LEMMA LastDay ==
  ASSUME NEW S \in SUBSET Int, S # {}, NEW k \in Int, \A d \in S : d <= k
  PROVE  LatestOf(S) # {}
<1> DEFINE N == {k - d : d \in S}
<1>1. N \in SUBSET Nat /\ N # {}
  <2>1. \A d \in S : k - d \in Nat
    OBVIOUS
  <2>2. N \in SUBSET Nat
    BY <2>1
  <2>3. PICK d \in S : TRUE
    OBVIOUS
  <2>4. k - d \in N
    BY <2>3
  <2>5. QED
    BY <2>2, <2>4
<1>2. PICK n \in N : \A m \in N : n <= m
  <2> HIDE DEF N
  <2>1. QED
    BY <1>1, LeastNumber
<1>3. PICK d \in S : n = k - d
  BY <1>2
<1>4. ASSUME NEW e \in S PROVE e <= d
  <2>1. k - e \in N /\ e \in Int /\ d \in Int
    OBVIOUS
  <2>2. k - d <= k - e
    BY <1>2, <1>3, <2>1
  <2>3. QED
    BY <2>1, <2>2
<1>5. QED
  BY <1>4 DEF LatestOf

\* What a lookup may answer.
Answers == {NoRate} \cup [rate : Nat, date : Int]

(* A rate that is carried forward is that of the last stored day up to day k. *)
LEMMA CarriedIsRate ==
  ASSUME NEW table \in RateTables, NEW k \in Int
  PROVE  LET S == {d \in Stored(table) : d <= k} IN
         /\ CarriedForward(table, k) \in Answers
         /\ S = {} => CarriedForward(table, k) = NoRate
         /\ S # {} => CarriedForward(table, k) # NoRate
         /\ CarriedForward(table, k) # NoRate => CarriedForward(table, k).rate \in Nat
         /\ \A d \in LatestOf(S) : CarriedForward(table, k).rate = table[d]
<1> DEFINE S == {d \in Stored(table) : d <= k}
           d0 == CHOOSE d \in LatestOf(S) : TRUE
<1>1. S \in SUBSET Int /\ S \in SUBSET Day /\ \A d \in S : d <= k
  BY DayAssumption DEF Stored
<1>2. S = {} => CarriedForward(table, k) = NoRate
  BY DEF CarriedForward, LatestRow
<1>3. LatestOf(S) \in SUBSET S
  BY DEF LatestOf
<1>4. ASSUME S # {}
      PROVE  /\ CarriedForward(table, k) = [rate |-> table[d0], date |-> d0]
             /\ d0 \in LatestOf(S) /\ table[d0] \in Rate /\ d0 \in Day
  <2>1. CarriedForward(table, k) = [rate |-> table[d0], date |-> d0]
    BY <1>4 DEF CarriedForward, LatestRow
  <2>2. LatestOf(S) # {}
    <3> HIDE DEF S
    <3>1. QED
      BY <1>1, <1>4, LastDay
  <2>3. d0 \in LatestOf(S)
    BY <2>2
  <2>4. d0 \in S
    BY <1>3, <2>3
  <2>5. table[d0] \in Rate
    BY <2>4 DEF Stored, RateTables
  <2>6. QED
    BY <1>1, <2>1, <2>3, <2>4, <2>5
<1>5. \A d \in LatestOf(S), e \in LatestOf(S) : d = e
  BY <1>1 DEF LatestOf
<1> HIDE DEF d0, S
<1>6. ASSUME S # {}
      PROVE  /\ CarriedForward(table, k) \in [rate : Rate, date : Day]
             /\ CarriedForward(table, k).rate = table[d0]
  BY <1>4, <1>6
<1>7. S # {} => CarriedForward(table, k) # NoRate
  BY <1>6, NoRateAssumption
<1>8. Rate \subseteq Nat /\ Day \subseteq Int
  BY RateAssumption, DayAssumption
<1>9. CarriedForward(table, k) \in Answers
  BY <1>2, <1>6, <1>8 DEF Answers
<1>10. CarriedForward(table, k) # NoRate => CarriedForward(table, k).rate \in Nat
  BY <1>2, <1>4, <1>6, <1>8
<1>11. \A d \in LatestOf(S) : CarriedForward(table, k).rate = table[d]
  BY <1>3, <1>4, <1>5, <1>6
<1>12. QED
  BY <1>2, <1>7, <1>9, <1>10, <1>11 DEF S

LEMMA TodaysAnswer ==
  ASSUME Types
  PROVE  TodaysRate \in Answers
BY CarriedIsRate, MonthAssumption DEF Types, TodaysRate

LEMMA RowFacts ==
  ASSUME Types, NEW t \in LiveTxns
  PROVE  /\ t \in Txn /\ ledger[t] \in Row
         /\ ledger[t].instant \in Int /\ ledger[t].amount \in Nat
         /\ ledger[t].inflow \in BOOLEAN
BY RowAssumption, TimeAssumption DEF Types, LiveTxns

(* A row can be converted when it needs no rate or has one, and its cents are
   then a number. *)
LEMMA RowIsWorth ==
  ASSUME Types, NEW t \in LiveTxns
  PROVE  LET row == ledger[t] IN
         /\ row.account \notin InDollars => Convertible(rates, row)
         /\ row.account \in InDollars =>
              (Convertible(rates, row) <=> JoinedRate(rates, row) # Null)
         /\ row.account \in InDollars /\ Convertible(rates, row) =>
              /\ JoinedRate(rates, row) \in Nat
              /\ HomeCents(rates, row) = RoundSql(row.amount * JoinedRate(rates, row))
         /\ Convertible(rates, row) => SignedHomeCents(rates, row) \in Int
<1> DEFINE row == ledger[t]
           rate == JoinedRate(rates, row)
<1>1. row.instant \in Int /\ row.amount \in Nat /\ row.inflow \in BOOLEAN
  BY RowFacts
<1>2. LocalDay(row.instant) \in Int
  BY <1>1, MonthOfIsInteger
<1>3. row.account \in InDollars => rate = Null \/ rate \in Nat
  BY <1>2, CarriedIsRate DEF Types, JoinedRate
<1>4. Null \notin Int
  BY NullAssumption
<1>5. row.account \notin InDollars => HomeCents(rates, row) = row.amount
  BY DEF HomeCents
<1>6. row.account \in InDollars /\ rate # Null => HomeCents(rates, row) = RoundSql(row.amount * rate)
  BY DEF HomeCents
<1>7. row.account \in InDollars /\ rate = Null => HomeCents(rates, row) = Null
  BY DEF HomeCents
<1>8. row.account \in InDollars /\ rate # Null => HomeCents(rates, row) \in Int
  <2>1. SUFFICES ASSUME row.account \in InDollars, rate # Null PROVE HomeCents(rates, row) \in Int
    OBVIOUS
  <2>2. row.amount * rate \in Int
    BY <1>1, <1>3, <2>1
  <2>3. QED
    BY <1>6, <2>1, <2>2, RoundsToNearest
<1> HIDE DEF rate
<1>9. HomeCents(rates, row) \in Int => SignedHomeCents(rates, row) \in Int
  BY <1>1 DEF SignedHomeCents, Signed
<1>10. row.account \notin InDollars => Convertible(rates, row) /\ HomeCents(rates, row) \in Int
  BY <1>1, <1>4, <1>5 DEF Convertible
<1>11. row.account \in InDollars => (Convertible(rates, row) <=> rate # Null)
  BY <1>4, <1>7, <1>8 DEF Convertible
<1>12. QED
  BY <1>3, <1>6, <1>8, <1>9, <1>10, <1>11 DEF rate

------------------------------------------------------------------------------
(* Figures as sums *)

\* The cents a row adds to a figure, and 1 for a row that cannot be converted.
Cents == [t \in LiveTxns |->
            IF Convertible(rates, ledger[t]) THEN SignedHomeCents(rates, ledger[t]) ELSE 0]
Missing == [t \in LiveTxns |-> IF Convertible(rates, ledger[t]) THEN 0 ELSE 1]

LEMMA SumOfZeros ==
  ASSUME NEW f, NEW S, IsFiniteSet(S), \A x \in S : f[x] = 0
  PROVE  SumFunctionOnSet(f, S) = 0
<1>1. {} \in SUBSET S /\ \A x \in S : f[x] = IF x \in {} THEN 1 ELSE 0
  OBVIOUS
<1>2. QED
  BY <1>1, SumCounts, FS_EmptySet

(* Terms that are 0 may be left out. *)
LEMMA SumWithoutZeros ==
  ASSUME NEW f, NEW S, IsFiniteSet(S), NEW T \in SUBSET S,
         \A x \in S : f[x] \in Int, \A x \in S \ T : f[x] = 0
  PROVE  SumFunctionOnSet(f, T) = SumFunctionOnSet(f, S)
<1>1. IsFiniteSet(T) /\ IsFiniteSet(S \ T) /\ T \cup (S \ T) = S /\ T \cap (S \ T) = {}
  BY FS_Subset
<1>2. SumFunctionOnSet(f, S \ T) = 0
  BY <1>1, SumOfZeros
<1>3. /\ SumFunctionOnSet(f, T) \in Int
      /\ SumFunctionOnSet(f, T \cup (S \ T)) =
           SumFunctionOnSet(f, T) + SumFunctionOnSet(f, S \ T)
  BY <1>1, SumOfUnion
<1>4. SumFunctionOnSet(f, T \cup (S \ T)) = SumFunctionOnSet(f, T)
  BY <1>2, <1>3
<1>5. QED
  BY <1>1, <1>4

LEMMA LiveTxnsAreFinite ==
  ASSUME NEW T \in SUBSET LiveTxns
  PROVE  IsFiniteSet(T)
BY LedgerAssumption, FS_Subset DEF LiveTxns

LEMMA CentsFacts ==
  ASSUME Types, NEW t \in LiveTxns
  PROVE  Cents[t] \in Int /\ Missing[t] \in {0, 1}
BY RowIsWorth DEF Cents, Missing

(* The figures of a set of rows are sums over all of them. *)
LEMMA FiguresAreSums ==
  ASSUME Types, NEW T \in SUBSET LiveTxns
  PROVE  /\ Unconverted(T) = SumFunctionOnSet(Missing, T) /\ Unconverted(T) \in Nat
         /\ Unconverted(T) = 0 <=> \A t \in T : Convertible(rates, ledger[t])
         /\ SumHome(T) = SumFunctionOnSet(Cents, T) /\ SumHome(T) \in Int
<1> DEFINE rows == {t \in T : Convertible(rates, ledger[t])}
           none == {t \in T : ~Convertible(rates, ledger[t])}
           home == [t \in rows |-> SignedHomeCents(rates, ledger[t])]
<1>1. IsFiniteSet(T) /\ IsFiniteSet(rows) /\ IsFiniteSet(none)
  BY LiveTxnsAreFinite, FS_Subset
<1>2. \A t \in T : t \in LiveTxns /\ Cents[t] \in Int
  BY CentsFacts
<1>3. Unconverted(T) = SumFunctionOnSet(Missing, T)
  <2>1. none \in SUBSET T /\ \A t \in T : Missing[t] = IF t \in none THEN 1 ELSE 0
    BY DEF Missing
  <2>2. SumFunctionOnSet(Missing, T) = Cardinality(none)
    <3> HIDE DEF none
    <3>1. QED
      BY <1>1, <2>1, SumCounts
  <2>3. QED
    BY <2>2 DEF Unconverted
<1>4. Unconverted(T) \in Nat
  BY <1>1, FS_CardinalityType DEF Unconverted
<1>5. Unconverted(T) = 0 <=> none = {}
  BY <1>1, FS_EmptySet DEF Unconverted
<1>6. SumHome(T) = SumFunctionOnSet(home, rows)
  BY DEF SumHome, SumFunction
<1>7. SumFunctionOnSet(Cents, rows) = SumFunctionOnSet(home, rows)
  <2>1. \A t \in rows : Cents[t] \in Int /\ home[t] = Cents[t]
    BY <1>2 DEF Cents
  <2> HIDE DEF home, rows
  <2>2. QED
    BY <1>1, <2>1, SumOfEqualTerms
<1>8. SumFunctionOnSet(Cents, rows) = SumFunctionOnSet(Cents, T)
  <2>1. rows \in SUBSET T /\ \A t \in T \ rows : Cents[t] = 0
    BY <1>2 DEF Cents
  <2> HIDE DEF rows
  <2>2. QED
    BY <1>1, <1>2, <2>1, SumWithoutZeros
<1>9. SumFunctionOnSet(Cents, T) \in Int
  BY <1>1, <1>2, SumIsInteger
<1>10. QED
  BY <1>3, <1>4, <1>5, <1>6, <1>7, <1>8, <1>9

------------------------------------------------------------------------------
(* The two queries of a month *)

LEMMA FlowsAreLive ==
  ASSUME NEW m
  PROVE  Flows(m) \in SUBSET LiveTxns
BY DEF Flows

(* The figures of the groups add up to the figure of the month's rows. *)
LEMMA GroupsAddUp ==
  ASSUME Types, NEW m
  PROVE  LET T == Flows(m)
             groups == Breakdown(m)
             all == AddUp(groups, DOMAIN groups)
         IN  /\ all.unconverted = Unconverted(T)
             /\ Unconverted(T) > 0 => all.spent = Null
             /\ Unconverted(T) = 0 => all.spent = SumHome(T)
             /\ all.spent = Null <=> \E g \in DOMAIN groups : groups[g].spent = Null
<1> DEFINE T == Flows(m)
           groups == Breakdown(m)
           K == {GroupOf(t) : t \in T}
           key == [t \in T |-> GroupOf(t)]
           members == [g \in K |-> {t \in T : GroupOf(t) = g}]
           missing == [g \in K |-> groups[g].unconverted]
           spent == [g \in K |-> groups[g].spent]
           all == AddUp(groups, DOMAIN groups)
<1>1. /\ T \in SUBSET LiveTxns /\ IsFiniteSet(T)
      /\ \A t \in T : Cents[t] \in Int /\ Missing[t] \in Int
  BY FlowsAreLive, LiveTxnsAreFinite, CentsFacts
<1>2. IsFiniteSet(K)
  <2>1. key \in Surjection(T, K)
    BY DEF Surjection
  <2>2. QED
    BY <1>1, <2>1, FS_Surjection
<1>3. DOMAIN groups = K /\ \A g \in K : groups[g] = Figure(members[g])
  BY DEF Breakdown
<1>4. /\ \A g \in K : members[g] \in SUBSET LiveTxns
      /\ \A g \in K : \A t : t \in members[g] <=> t \in T /\ key[t] = g
  BY <1>1
<1>5. \A t \in T : key[t] \in K
  OBVIOUS
<1>6. /\ all.unconverted = SumFunctionOnSet(missing, K)
      /\ all.spent = IF SumFunctionOnSet(missing, K) > 0 THEN Null
                     ELSE SumFunctionOnSet(spent, K)
  BY <1>3 DEF AddUp, SumFunction
<1> HIDE DEF T, groups, K, key, members
<1>7. \A g \in K : missing[g] = Unconverted(members[g]) /\ Unconverted(members[g]) \in Nat
  BY <1>3, <1>4, FiguresAreSums DEF Figure
<1>8. \A g \in K : spent[g] = IF missing[g] > 0 THEN Null ELSE SumHome(members[g])
  BY <1>3, <1>7 DEF Figure
<1>9. \A g \in K : /\ missing[g] = SumFunctionOnSet(Missing, members[g])
                   /\ SumHome(members[g]) = SumFunctionOnSet(Cents, members[g])
                   /\ SumHome(members[g]) \in Int
  BY <1>4, <1>7, FiguresAreSums
<1> HIDE DEF missing, spent, all
<1>10. SumFunctionOnSet(missing, K) = SumFunctionOnSet(Missing, T)
  <2>1. \A t \in T : Missing[t] \in Int
    BY <1>1
  <2>2. \A g \in K : missing[g] = SumFunctionOnSet(Missing, members[g])
    BY <1>9
  <2>3. QED
    BY <1>1, <1>2, <1>4, <1>5, <2>1, <2>2, SumByKey
<1>11. SumFunctionOnSet(Missing, T) = Unconverted(T) /\ Unconverted(T) \in Nat
  BY <1>1, FiguresAreSums
<1>12. \A g \in K : missing[g] <= Unconverted(T) /\ missing[g] \in Nat
  <2>1. \A g \in K : missing[g] \in Nat
    BY <1>7
  <2>2. \A g \in K : missing[g] <= SumFunctionOnSet(missing, K)
    BY <1>2, <2>1, SumOfNaturals
  <2>3. QED
    BY <1>10, <1>11, <2>1, <2>2
<1>13. CASE Unconverted(T) = 0
  <2>0. \A g \in K : ~ (missing[g] > 0)
    BY <1>12, <1>13
  <2>1. \A g \in K : spent[g] = SumFunctionOnSet(Cents, members[g])
    BY <1>8, <1>9, <2>0
  <2>2. SumFunctionOnSet(spent, K) = SumFunctionOnSet(Cents, T)
    <3>1. \A t \in T : Cents[t] \in Int
      BY <1>1
    <3>2. QED
      BY <1>1, <1>2, <1>4, <1>5, <2>1, <3>1, SumByKey
  <2>3. SumFunctionOnSet(Cents, T) = SumHome(T) /\ SumHome(T) \in Int
    BY <1>1, FiguresAreSums
  <2>4. all.spent = SumHome(T)
    BY <1>6, <1>10, <1>11, <1>13, <2>2, <2>3
  <2>5. \A g \in K : groups[g].spent # Null
    <3>1. \A g \in K : spent[g] = SumHome(members[g]) /\ SumHome(members[g]) \in Int
      BY <1>8, <1>9, <2>0
    <3>2. \A g \in K : spent[g] = groups[g].spent
      BY DEF spent
    <3>3. QED
      BY <3>1, <3>2, NullAssumption
  <2>6. QED
    BY <1>3, <1>6, <1>10, <1>11, <1>13, <2>3, <2>4, <2>5, NullAssumption DEF all, T, groups
<1>14. CASE Unconverted(T) # 0
  <2>1. PICK g \in K : missing[g] # 0
    <3>1. SUFFICES ASSUME \A g \in K : missing[g] = 0 PROVE FALSE
      OBVIOUS
    <3>2. SumFunctionOnSet(missing, K) = 0
      BY <1>2, <3>1, SumOfZeros
    <3>3. QED
      BY <1>10, <1>11, <1>14, <3>2
  <2>2. groups[g].spent = Null
    BY <1>8, <1>12, <2>1 DEF spent
  <2>3. all.spent = Null
    BY <1>6, <1>10, <1>11, <1>14
  <2>4. QED
    BY <1>3, <1>6, <1>10, <1>11, <1>14, <2>2, <2>3 DEF all, T, groups
<1>15. QED
  BY <1>13, <1>14

(* The totals of a month are of the same rows: what comes in less what goes out
   is their sum. *)
LEMMA TotalsAreOfTheRows ==
  ASSUME Types, NEW m
  PROVE  LET T == Flows(m) IN
         /\ Totals(m).unconverted = Unconverted(T)
         /\ Unconverted(T) > 0 => Totals(m).net = Null
         /\ Unconverted(T) = 0 => Totals(m).net = SumHome(T)
<1> DEFINE T == Flows(m)
           rows == {t \in T : Convertible(rates, ledger[t])}
           in == {t \in rows : SignedHomeCents(rates, ledger[t]) > 0}
           out == {t \in rows : SignedHomeCents(rates, ledger[t]) < 0}
<1>1. /\ T \in SUBSET LiveTxns /\ in \in SUBSET LiveTxns /\ out \in SUBSET LiveTxns
      /\ \A t \in T : Cents[t] \in Int
  BY FlowsAreLive, CentsFacts
<1>2. /\ SumHome(T) = SumFunctionOnSet(Cents, T)
      /\ SumHome(in) = SumFunctionOnSet(Cents, in)
      /\ SumHome(out) = SumFunctionOnSet(Cents, out)
      /\ Unconverted(T) \in Nat
  <2> HIDE DEF T, in, out
  <2>1. QED
    BY <1>1, FiguresAreSums
<1>3. \A t \in T \ (in \cup out) : Cents[t] = 0
  <2>1. ASSUME NEW t \in T \ (in \cup out), Convertible(rates, ledger[t])
        PROVE  Cents[t] = 0
    <3>1. Cents[t] = SignedHomeCents(rates, ledger[t]) /\ Cents[t] \in Int
      BY <1>1, <2>1 DEF Cents
    <3>2. ~ (Cents[t] > 0) /\ ~ (Cents[t] < 0)
      BY <2>1, <3>1
    <3>3. QED
      BY <3>1, <3>2
  <2>2. QED
    BY <1>1, <2>1 DEF Cents
<1>4. in \cap out = {}
  <2>1. ASSUME NEW t \in in, t \in out PROVE FALSE
    <3>1. SignedHomeCents(rates, ledger[t]) \in Int
      BY <1>1, <2>1, RowIsWorth
    <3>2. QED
      BY <2>1, <3>1
  <2>2. QED
    BY <2>1
<1>5. in \cup out \in SUBSET T
  OBVIOUS
<1>6. /\ Totals(m).unconverted = IF Unconverted(T) > 0 THEN Unconverted(T) ELSE 0
      /\ Totals(m).net = IF Unconverted(T) > 0 THEN Null
                         ELSE SumHome(in) - (-SumHome(out))
  BY DEF Totals
<1> HIDE DEF T, rows, in, out
<1>7. IsFiniteSet(T) /\ IsFiniteSet(in) /\ IsFiniteSet(out)
  BY <1>1, LiveTxnsAreFinite
<1>8. SumFunctionOnSet(Cents, in \cup out) = SumFunctionOnSet(Cents, T)
  BY <1>1, <1>3, <1>5, <1>7, SumWithoutZeros
<1>9. /\ SumFunctionOnSet(Cents, in) \in Int /\ SumFunctionOnSet(Cents, out) \in Int
      /\ SumFunctionOnSet(Cents, in \cup out) =
           SumFunctionOnSet(Cents, in) + SumFunctionOnSet(Cents, out)
  BY <1>1, <1>4, <1>5, <1>7, SumOfUnion
<1>10. SumHome(in) - (-SumHome(out)) = SumHome(T)
  BY <1>2, <1>8, <1>9
<1>11. QED
  BY <1>2, <1>6, <1>10 DEF T

\* The rows of an account, and what each moves its balance by.
RowsOf(a) == {t \in LiveTxns : ledger[t].account = a}
Moved == [t \in LiveTxns |-> Signed(ledger[t], ledger[t].amount)]

LEMMA BalanceIsSum ==
  ASSUME Types, NEW a
  PROVE  /\ RowsOf(a) \in SUBSET LiveTxns /\ IsFiniteSet(RowsOf(a))
         /\ \A t \in RowsOf(a) : Moved[t] \in Int
         /\ Balance(a) = SumFunctionOnSet(Moved, RowsOf(a)) /\ Balance(a) \in Int
<1> DEFINE T == RowsOf(a)
           own == [t \in T |-> Signed(ledger[t], ledger[t].amount)]
<1>1. T \in SUBSET LiveTxns /\ IsFiniteSet(T)
  BY LiveTxnsAreFinite DEF RowsOf
<1>2. \A t \in T : Moved[t] \in Int /\ own[t] = Moved[t]
  <2>1. ASSUME NEW t \in T PROVE Signed(ledger[t], ledger[t].amount) \in Int
    BY <1>1, RowFacts DEF Signed
  <2>2. QED
    BY <1>1, <2>1 DEF Moved
<1>3. Balance(a) = SumFunctionOnSet(own, T)
  BY DEF Balance, SumFunction, RowsOf
<1> HIDE DEF T, own
<1>4. SumFunctionOnSet(Moved, T) = SumFunctionOnSet(own, T)
  BY <1>1, <1>2, SumOfEqualTerms
<1>5. SumFunctionOnSet(Moved, T) \in Int
  BY <1>1, <1>2, SumIsInteger
<1>6. QED
  BY <1>1, <1>2, <1>3, <1>4, <1>5 DEF T

------------------------------------------------------------------------------
(* While no row and no rate changes, no figure does *)

LEMMA SameFigures ==
  ASSUME ledger' = ledger, rates' = rates
  PROVE  /\ LiveTxns' = LiveTxns
         /\ \A m : /\ Flows(m)' = Flows(m)
                   /\ Breakdown(m)' = Breakdown(m)
                   /\ Totals(m)' = Totals(m)
         /\ \A a : Balance(a)' = Balance(a)
<1>1. LiveTxns' = LiveTxns
  BY DEF LiveTxns
<1>2. \A m : Flows(m)' = Flows(m)
  BY <1>1 DEF Flows
<1>3. \A T : /\ SumHome(T)' = SumHome(T)
             /\ Unconverted(T)' = Unconverted(T)
  BY DEF SumHome, Unconverted
<1>4. \A T : Figure(T)' = Figure(T)
  BY <1>3 DEF Figure
<1>5. \A t : GroupOf(t)' = GroupOf(t)
  BY DEF GroupOf
<1>6. \A m : Breakdown(m)' = Breakdown(m)
  BY <1>2, <1>4, <1>5 DEF Breakdown
<1>7. \A m : Totals(m)' = Totals(m)
  BY <1>2, <1>3 DEF Totals
<1>8. \A a : Balance(a)' = Balance(a)
  BY <1>1 DEF Balance
<1>9. QED
  BY <1>1, <1>2, <1>6, <1>7, <1>8

------------------------------------------------------------------------------
(* Where a read is *)

\* The first month that a report of route k has.
FirstOf(k) == IF k = "range" THEN FirstMonth ELSE LastMonth

\* The months that have been read, all of them with their totals but the one
\* whose second query is yet to come.
Progress ==
    /\ at \in {"idle", "balances", "convert", "await", "categories", "breakdown", "totals", "done"}
    /\ kind \in {"none", "dashboard", "range"}
    /\ kind = "none" <=> at = "idle"
    /\ kind = "range" => ~Unpriced
    /\ month \in FirstMonth .. LastMonth
    /\ kind = "dashboard" => month = LastMonth
    /\ at = "done" => month = LastMonth
    /\ DOMAIN report = CASE Unpriced -> {}
                         [] at \in {"categories", "breakdown"} -> FirstOf(kind) .. month - 1
                         [] at \in {"totals", "done"} -> FirstOf(kind) .. month
    /\ \A m \in DOMAIN report : "totals" \in DOMAIN report[m] <=> ~ (at = "totals" /\ m = month)

\* The two queries of the month that is being read, and of those that were.
SumsUp(entry) ==
    LET groups == entry.groups
        all    == AddUp(groups, DOMAIN groups)
    IN  /\ entry.totals.net = all.spent
        /\ entry.totals.unconverted = all.unconverted
        /\ all.spent = Null <=> \E g \in DOMAIN groups : groups[g].spent = Null

QueriesAgree ==
    /\ at = "totals" /\ month \notin torn => report[month].groups = Breakdown(month)
    /\ \A m \in DOMAIN report : Complete(m) /\ m \notin torn => SumsUp(report[m])

\* Until a write commits, what was read is what would be read now.
AsOfNow ==
    /\ writes \in Nat
    /\ writes = 0 => \A m \in DOMAIN report : Complete(m) => report[m].totals = Totals(m)
    /\ writes = 0 /\ kind = "dashboard" /\ at # "balances" =>
         \A a \in Account : balances[a].cents = Balance(a)

\* What the worker has been told of today's rate is what the table answered
\* during some tick, and is kept no longer than its lifetime from a tick no later
\* than that one; a priced balance is at such an answer.
Priced == kind = "dashboard" /\ ~Unpriced

CacheHonest ==
    /\ clock \in Nat /\ asked \in 0 .. clock
    /\ was \in [0 .. clock -> SUBSET Answers]
    /\ TodaysRate \in was[clock]
    /\ cache = NoEntry \/ \E since \in 0 .. clock : \E t \in since .. clock :
                            \E answer \in was[t] : cache = Entry(answer, since)
    /\ Priced =>
         /\ \E t \in 0 .. clock : t > asked - Lifetime(told) /\ told \in was[t]
         /\ \A a \in Account : balances[a].home = HomeBalance(a, balances[a].cents, told)

\* Balances are numbers of cents from when they are read.
BalancesAreNumbers ==
    kind = "dashboard" /\ at # "balances" => \A a \in Account : balances[a].cents \in Int

HInv == Types /\ Progress /\ QueriesAgree /\ AsOfNow /\ CacheHonest /\ BalancesAreNumbers

LEMMA InitHolds == Init => HInv
<1> SUFFICES ASSUME Init PROVE HInv
  OBVIOUS
<1>1. Types
  BY LedgerAssumption DEF Init, Types
<1>2. DOMAIN report = {}
  BY DEF Init, Nothing
<1>3. Progress
  BY <1>2, MonthAssumption DEF Init, Progress, Unpriced
<1>4. QueriesAgree
  BY <1>2 DEF Init, QueriesAgree
<1>5. AsOfNow
  BY <1>2 DEF Init, AsOfNow
<1>6. CacheHonest
  <2>1. TodaysRate \in Answers
    BY <1>1, TodaysAnswer
  <2>2. 0 .. 0 = {0} /\ was = [t \in {0} |-> {TodaysRate}] /\ clock = 0 /\ asked = 0
    BY DEF Init
  <2>3. cache = NoEntry /\ ~Priced
    BY DEF Init, Priced
  <2>4. was \in [0 .. clock -> SUBSET Answers] /\ TodaysRate \in was[clock]
    BY <2>1, <2>2
  <2>5. QED
    BY <2>2, <2>3, <2>4 DEF CacheHonest
<1>7. BalancesAreNumbers
  BY DEF Init, BalancesAreNumbers
<1>8. QED
  BY <1>1, <1>3, <1>4, <1>5, <1>6, <1>7 DEF HInv

LEMMA TypesHold ==
  ASSUME Types, [Next]_vars
  PROVE  Types'
<1>1. CASE Write
  <2>1. rates' = rates
    BY <1>1 DEF Write
  <2>2. CASE \E t \in Txn, row \in Row \cup {NoRow} : ledger' = [ledger EXCEPT ![t] = row]
    BY <2>1, <2>2 DEF Types
  <2>3. CASE ledger' = ledger
    BY <2>1, <2>3 DEF Types
  <2>4. QED
    BY <1>1, <2>2, <2>3 DEF Write
<1>2. CASE LandRate
  <2>1. PICK d \in Day, r \in Rate : rates' = [rates EXCEPT ![d] = r]
    BY <1>2 DEF LandRate
  <2>2. ledger' = ledger
    BY <1>2 DEF LandRate
  <2>3. QED
    BY <2>1, <2>2 DEF Types, RateTables
<1>3. CASE UNCHANGED <<ledger, rates>>
  BY <1>3 DEF Types
<1>4. QED
  BY <1>1, <1>2, <1>3 DEF Next, vars, Tables, Begin, ReadBalances, ConvertBalances, RateArrives,
     ReadCategories, ReadBreakdown, ReadTotals, LookUpElsewhere, Tick

LEMMA ProgressHolds ==
  ASSUME Progress, [Next]_vars
  PROVE  Progress'
<1> USE MonthAssumption
<1>1. ASSUME NEW route \in {"dashboard", "range"}, Begin(route) PROVE Progress'
  BY <1>1 DEF Begin, Progress, FirstOf, Unpriced
<1>2. CASE ReadBalances
  BY <1>2 DEF ReadBalances, Progress, FirstOf, Unpriced
<1>3. CASE ConvertBalances
  <2>1. at = "convert" /\ at' \in {"await", "categories"} /\ UNCHANGED <<month, report, kind>>
    BY <1>3 DEF ConvertBalances, Converted
  <2>2. QED
    BY <2>1 DEF Progress, FirstOf, Unpriced
<1>4. CASE RateArrives
  <2>1. at = "await" /\ at' = "categories" /\ UNCHANGED <<month, report, kind>>
    BY <1>4 DEF RateArrives, Converted
  <2>2. QED
    BY <2>1 DEF Progress, FirstOf, Unpriced
<1>5. CASE ReadCategories
  BY <1>5 DEF ReadCategories, Progress, FirstOf, Unpriced
<1>6. CASE ReadBreakdown
  BY <1>6 DEF ReadBreakdown, Progress, FirstOf, Unpriced
<1>7. CASE ReadTotals
  BY <1>7 DEF ReadTotals, Progress, FirstOf, Unpriced
<1>8. CASE UNCHANGED <<at, month, report, kind>>
  BY <1>8 DEF Progress, FirstOf, Unpriced
<1>9. QED
  BY <1>1, <1>2, <1>3, <1>4, <1>5, <1>6, <1>7, <1>8
  DEF Next, vars, readVars, Write, LandRate, LookUpElsewhere, Tick

(* The totals that are read sum up with the groups that were, unless a write
   came in between. *)
LEMMA MonthSumsUp ==
  ASSUME Types, NEW m, NEW entry,
         entry.groups = Breakdown(m), entry.totals = Totals(m)
  PROVE  SumsUp(entry)
<1>1. Unconverted(Flows(m)) \in Nat
  BY FlowsAreLive, FiguresAreSums
<1> DEFINE groups == Breakdown(m)
           all == AddUp(groups, DOMAIN groups)
<1>2. /\ all.unconverted = Unconverted(Flows(m))
      /\ Unconverted(Flows(m)) > 0 => all.spent = Null
      /\ Unconverted(Flows(m)) = 0 => all.spent = SumHome(Flows(m))
      /\ all.spent = Null <=> \E g \in DOMAIN groups : groups[g].spent = Null
  BY GroupsAddUp
<1>3. /\ Totals(m).unconverted = Unconverted(Flows(m))
      /\ Unconverted(Flows(m)) > 0 => Totals(m).net = Null
      /\ Unconverted(Flows(m)) = 0 => Totals(m).net = SumHome(Flows(m))
  BY TotalsAreOfTheRows
<1> HIDE DEF groups, all
<1>4. Totals(m).net = all.spent /\ Totals(m).unconverted = all.unconverted
  BY <1>1, <1>2, <1>3
<1>5. QED
  BY <1>2, <1>4 DEF SumsUp, groups, all

LEMMA QueriesAgreeHold ==
  ASSUME HInv, [Next]_vars
  PROVE  QueriesAgree'
<1> USE DEF HInv
<1>1. ASSUME UNCHANGED <<report, torn>>, at' # "totals" PROVE QueriesAgree'
  BY <1>1 DEF QueriesAgree, Complete
<1>2. ASSUME NEW route \in {"dashboard", "range"}, Begin(route) PROVE QueriesAgree'
  BY <1>1, <1>2 DEF Begin, Tables
<1>3. CASE ReadBalances
  BY <1>1, <1>3 DEF ReadBalances, Tables
<1>4. CASE ConvertBalances
  BY <1>1, <1>4 DEF ConvertBalances, Converted, Tables
<1>5. CASE RateArrives
  BY <1>1, <1>5 DEF RateArrives, Converted, Tables
<1>6. CASE ReadCategories
  BY <1>1, <1>6 DEF ReadCategories, Tables
<1>7. CASE ReadBreakdown
  <2>1. month' = month /\ torn' = torn /\ ledger' = ledger /\ rates' = rates
    BY <1>7 DEF ReadBreakdown, Tables
  <2>2. Breakdown(month)' = Breakdown(month)
    BY <2>1, SameFigures
  <2>3. /\ DOMAIN report' = DOMAIN report \cup {month}
        /\ report'[month] = [groups |-> Breakdown(month), categories |-> CategoryRows(Breakdown(month))]
        /\ \A m \in DOMAIN report' : m # month => report'[m] = report[m]
    BY <1>7 DEF ReadBreakdown
  <2>4. report'[month'].groups = Breakdown(month)'
    BY <2>1, <2>2, <2>3
  <2>5. ASSUME NEW m \in DOMAIN report', Complete(m)', m \notin torn' PROVE SumsUp(report[m])'
    <3>1. m # month
      BY <2>3, <2>5 DEF Complete
    <3>2. report'[m] = report[m] /\ Complete(m) /\ m \in DOMAIN report
      BY <2>3, <2>5, <3>1 DEF Complete
    <3>3. SumsUp(report[m])
      BY <2>1, <2>5, <3>2 DEF QueriesAgree
    <3>4. QED
      BY <3>2, <3>3 DEF SumsUp
  <2>6. QED
    BY <2>4, <2>5 DEF QueriesAgree
<1>8. CASE ReadTotals
  <2>1. at = "totals" /\ at' # "totals" /\ torn' = torn
    BY <1>8 DEF ReadTotals, Tables
  <2>2. month \in DOMAIN report
    BY <2>1, MonthAssumption DEF Progress, FirstOf, Unpriced
  <2>3. /\ DOMAIN report' = DOMAIN report
        /\ report'[month] = [groups |-> report[month].groups,
                             categories |-> report[month].categories,
                             totals |-> Totals(month)]
        /\ \A m \in DOMAIN report' : m # month => report'[m] = report[m]
    BY <1>8, <2>2 DEF ReadTotals
  <2>4. ASSUME NEW m \in DOMAIN report', Complete(m)', m \notin torn' PROVE SumsUp(report[m])'
    <3>1. CASE m = month
      <4>1. report'[m].groups = Breakdown(month) /\ report'[m].totals = Totals(month)
        BY <2>1, <2>3, <2>4, <3>1 DEF QueriesAgree
      <4>2. SumsUp(report'[m])
        BY <4>1, MonthSumsUp
      <4>3. QED
        BY <4>2 DEF SumsUp
    <3>2. CASE m # month
      <4>1. report'[m] = report[m] /\ Complete(m) /\ m \in DOMAIN report
        BY <2>3, <2>4, <3>2 DEF Complete
      <4>2. SumsUp(report[m])
        BY <2>1, <2>4, <4>1 DEF QueriesAgree
      <4>3. QED
        BY <4>1, <4>2 DEF SumsUp
    <3>3. QED
      BY <3>1, <3>2
  <2>5. QED
    BY <2>1, <2>4 DEF QueriesAgree
<1>9. ASSUME CommitsAmid, UNCHANGED <<at, month, report>> PROVE QueriesAgree'
  <2>1. torn' = IF at = "totals" /\ <<ledger, rates>>' # <<ledger, rates>>
                  THEN torn \cup {month} ELSE torn
    BY <1>9 DEF CommitsAmid
  <2>2. ASSUME at = "totals", month \notin torn' PROVE report[month].groups = Breakdown(month)'
    <3>1. ledger' = ledger /\ rates' = rates /\ month \notin torn
      BY <2>1, <2>2
    <3>2. Breakdown(month)' = Breakdown(month)
      BY <1>9, <3>1, SameFigures
    <3>3. QED
      BY <2>2, <3>1, <3>2 DEF QueriesAgree
  <2>3. ASSUME NEW m \in DOMAIN report, Complete(m)', m \notin torn' PROVE SumsUp(report[m])
    <3>1. Complete(m) /\ m \notin torn
      BY <1>9, <2>1, <2>3 DEF Complete
    <3>2. QED
      BY <3>1 DEF QueriesAgree
  <2>4. QED
    BY <1>9, <2>2, <2>3 DEF QueriesAgree, SumsUp
<1>10. CASE Write
  BY <1>9, <1>10 DEF Write, readVars
<1>11. CASE LandRate
  <2>1. UNCHANGED <<at, month, report>>
    BY <1>11 DEF LandRate, readVars
  <2>2. CASE at = "idle" /\ UNCHANGED torn
    BY <1>1, <2>1, <2>2
  <2>3. QED
    BY <1>9, <1>11, <2>1, <2>2 DEF LandRate
<1>12. CASE UNCHANGED <<ledger, rates, at, month, report, torn>>
  <2>1. Breakdown(month)' = Breakdown(month)
    BY <1>12, SameFigures
  <2>2. QED
    BY <1>12, <2>1 DEF QueriesAgree, Complete, SumsUp
<1>13. QED
  BY <1>2, <1>3, <1>4, <1>5, <1>6, <1>7, <1>8, <1>10, <1>11, <1>12
  DEF Next, vars, readVars, Tables, LookUpElsewhere, Tick

LEMMA AsOfNowHolds ==
  ASSUME HInv, [Next]_vars
  PROVE  AsOfNow'
<1> USE DEF HInv
<1>1. ASSUME ledger' = ledger, rates' = rates, UNCHANGED <<report, writes>>
      PROVE  /\ writes' \in Nat
             /\ writes' = 0 => \A m \in DOMAIN report' :
                  Complete(m)' => report'[m].totals = Totals(m)'
  BY <1>1, SameFigures DEF AsOfNow, Complete
<1>2. ASSUME NEW route \in {"dashboard", "range"}, Begin(route) PROVE AsOfNow'
  <2>1. ledger' = ledger /\ rates' = rates /\ UNCHANGED <<report, writes>>
    BY <1>2 DEF Begin, Tables
  <2>2. kind' = "dashboard" => at' = "balances"
    BY <1>2 DEF Begin
  <2>3. QED
    BY <1>1, <2>1, <2>2 DEF AsOfNow
<1>3. CASE ReadBalances
  <2>1. ledger' = ledger /\ rates' = rates /\ UNCHANGED <<report, writes>>
    BY <1>3 DEF ReadBalances, Tables
  <2>2. \A a \in Account : balances'[a].cents = Balance(a)'
    BY <1>3, <2>1, SameFigures DEF ReadBalances
  <2>3. QED
    BY <1>1, <2>1, <2>2 DEF AsOfNow
<1>4. ASSUME ledger' = ledger, rates' = rates, UNCHANGED <<writes, kind>>,
             \A a \in Account : balances'[a].cents = balances[a].cents,
             at \notin {"idle", "balances"}
      PROVE  writes' = 0 /\ kind' = "dashboard" => \A a \in Account :
               balances'[a].cents = Balance(a)'
  <2>1. SUFFICES ASSUME writes = 0, kind = "dashboard", NEW a \in Account
        PROVE  balances'[a].cents = Balance(a)'
    BY <1>4
  <2>2. balances[a].cents = Balance(a)
    BY <1>4, <2>1 DEF AsOfNow
  <2>3. Balance(a)' = Balance(a)
    BY <1>4, SameFigures
  <2>4. QED
    BY <1>4, <2>2, <2>3
<1>5. ASSUME NEW answer, Converted(answer)
      PROVE  \A a \in Account : balances'[a].cents = balances[a].cents
  BY <1>5 DEF Converted
<1>6. CASE ConvertBalances
  <2>1. ledger' = ledger /\ rates' = rates /\ UNCHANGED <<report, writes, kind>> /\ at = "convert"
    BY <1>6 DEF ConvertBalances, Tables
  <2>2. \A a \in Account : balances'[a].cents = balances[a].cents
    BY <1>5, <1>6 DEF ConvertBalances
  <2>3. QED
    BY <1>1, <1>4, <2>1, <2>2 DEF AsOfNow
<1>7. CASE RateArrives
  <2>1. ledger' = ledger /\ rates' = rates /\ UNCHANGED <<report, writes, kind>> /\ at = "await"
    BY <1>7 DEF RateArrives, Tables
  <2>2. \A a \in Account : balances'[a].cents = balances[a].cents
    BY <1>5, <1>7 DEF RateArrives
  <2>3. QED
    BY <1>1, <1>4, <2>1, <2>2 DEF AsOfNow
<1>8. CASE ReadCategories
  BY <1>1, <1>4, <1>8 DEF ReadCategories, AsOfNow, Tables
<1>9. CASE ReadBreakdown
  <2>1. ledger' = ledger /\ rates' = rates /\ UNCHANGED <<writes, kind, balances>> /\ at = "breakdown"
    BY <1>9 DEF ReadBreakdown, Tables
  <2>2. ASSUME writes = 0, NEW m \in DOMAIN report', Complete(m)'
        PROVE  report'[m].totals = Totals(m)'
    <3>1. report' = [n \in DOMAIN report \cup {month} |->
                       IF n = month THEN [groups |-> Breakdown(month),
                                          categories |-> CategoryRows(Breakdown(month))]
                       ELSE report[n]]
      BY <1>9 DEF ReadBreakdown
    <3>2. m # month
      BY <2>2, <3>1 DEF Complete
    <3>3. report'[m] = report[m] /\ m \in DOMAIN report /\ Complete(m)
      BY <2>2, <3>1, <3>2 DEF Complete
    <3>4. Totals(m)' = Totals(m)
      BY <2>1, SameFigures
    <3>5. QED
      BY <2>2, <3>3, <3>4 DEF AsOfNow
  <2>3. QED
    BY <1>4, <2>1, <2>2 DEF AsOfNow
<1>10. CASE ReadTotals
  <2>1. ledger' = ledger /\ rates' = rates /\ UNCHANGED <<writes, kind, balances>> /\ at = "totals"
    BY <1>10 DEF ReadTotals, Tables
  <2>2. ASSUME writes = 0, NEW m \in DOMAIN report', Complete(m)'
        PROVE  report'[m].totals = Totals(m)'
    <3>1. Totals(m)' = Totals(m)
      BY <2>1, SameFigures
    <3>2. CASE m = month
      BY <1>10, <2>2, <3>1, <3>2 DEF ReadTotals
    <3>3. CASE m # month
      <4>1. report'[m] = report[m] /\ m \in DOMAIN report /\ Complete(m)
        BY <1>10, <2>2, <3>3 DEF ReadTotals, Complete
      <4>2. QED
        BY <2>2, <3>1, <4>1 DEF AsOfNow
    <3>4. QED
      BY <3>2, <3>3
  <2>3. QED
    BY <1>4, <2>1, <2>2 DEF AsOfNow
<1>11. ASSUME CommitsAmid PROVE AsOfNow'
  BY <1>11 DEF CommitsAmid, AsOfNow
<1>12. CASE Write
  BY <1>11, <1>12 DEF Write
<1>13. CASE LandRate
  <2>1. CASE at = "idle" /\ UNCHANGED writes
    <3>1. DOMAIN report = {} /\ kind # "dashboard" /\ UNCHANGED <<report, kind>>
      BY <1>13, <2>1 DEF Progress, Unpriced, LandRate, readVars
    <3>2. QED
      BY <2>1, <3>1 DEF AsOfNow
  <2>2. QED
    BY <1>11, <1>13, <2>1 DEF LandRate
<1>14. CASE UNCHANGED <<ledger, rates, report, writes, kind, balances, at>>
  <2>1. \A a : Balance(a)' = Balance(a)
    BY <1>14, SameFigures
  <2>2. QED
    BY <1>1, <1>14, <2>1 DEF AsOfNow
<1>15. QED
  BY <1>2, <1>3, <1>6, <1>7, <1>8, <1>9, <1>10, <1>12, <1>13, <1>14
  DEF Next, vars, readVars, Tables, LookUpElsewhere, Tick

(* An answer outlives the moment it was given by less than its lifetime. *)
LEMMA FreshIsRecent ==
  ASSUME CacheHonest, Fresh
  PROVE  \E t \in 0 .. clock : t > clock - Lifetime(cache.answer) /\ cache.answer \in was[t]
<1>1. cache # NoEntry
  BY DEF Fresh, NoEntry, CacheHonest
<1> DEFINE From(since) == \E t \in since .. clock : \E answer \in was[t] : cache = Entry(answer, since)
           At(since, t) == \E answer \in was[t] : cache = Entry(answer, since)
<1>2a. PICK since \in 0 .. clock : From(since)
  BY <1>1 DEF CacheHonest
<1>2b. PICK t \in since .. clock : At(since, t)
  BY <1>2a
<1>2. PICK answer \in was[t] : cache = Entry(answer, since)
  BY <1>2b
<1>3. cache.answer = answer /\ clock < since + Lifetime(answer)
  BY <1>2 DEF Entry, Fresh
<1>4. Lifetime(answer) \in Nat
  BY TtlAssumption DEF Lifetime
<1>5. t \in 0 .. clock /\ t > clock - Lifetime(answer)
  BY <1>2, <1>3, <1>4 DEF CacheHonest
<1>6. QED
  BY <1>2, <1>3, <1>5

LEMMA CacheHonestHolds ==
  ASSUME HInv, [Next]_vars
  PROVE  CacheHonest'
<1> USE DEF HInv
<1>1. TodaysRate' \in Answers
  <2>1. rates' \in RateTables
    BY TypesHold DEF Types
  <2>2. CarriedForward(rates', Today) \in Answers
    BY <2>1, CarriedIsRate, MonthAssumption
  <2>3. QED
    BY <2>2 DEF TodaysRate
<1>2. ASSUME UNCHANGED <<rates, clock, was>> PROVE TodaysRate' = TodaysRate
  BY <1>2 DEF TodaysRate
<1>3. ASSUME UNCHANGED <<rates, clock, was, asked, told, cache>>,
             Priced' => Priced /\ UNCHANGED balances
      PROVE  CacheHonest'
  BY <1>2, <1>3 DEF CacheHonest
<1>4. ASSUME NEW route \in {"dashboard", "range"}, Begin(route) PROVE CacheHonest'
  <2>1. ~Priced'
    BY <1>4 DEF Begin, Priced, Unpriced
  <2>2. QED
    BY <1>3, <1>4, <2>1 DEF Begin, Tables, Around
<1>5. CASE ReadBalances
  <2>1. ~Priced'
    BY <1>5 DEF ReadBalances, Priced, Unpriced
  <2>2. QED
    BY <1>3, <1>5, <2>1 DEF ReadBalances, Tables, Around
<1>6. ASSUME NEW answer, Converted(answer), asked' \in 0 .. clock, UNCHANGED <<rates, clock, was>>,
             \E t \in 0 .. clock : t > asked' - Lifetime(answer) /\ answer \in was[t],
             cache' = NoEntry \/ \E since \in 0 .. clock : \E t \in since .. clock :
                                   \E a \in was[t] : cache' = Entry(a, since)
      PROVE  CacheHonest'
  <2>1. \A a \in Account : balances'[a].home = HomeBalance(a, balances'[a].cents, told')
    BY <1>6 DEF Converted
  <2>2. told' = answer
    BY <1>6 DEF Converted
  <2>3. TodaysRate' = TodaysRate
    BY <1>2, <1>6
  <2>4. QED
    BY <1>6, <2>1, <2>2, <2>3 DEF CacheHonest
<1>7. CASE ConvertBalances
  <2>1. asked' = clock /\ clock \in Nat /\ UNCHANGED <<rates, clock, was>>
    BY <1>7 DEF ConvertBalances, Tables, Around, CacheHonest
  <2>2. CASE Fresh
    <3>1. Converted(cache.answer) /\ cache' = cache
      BY <1>7, <2>2 DEF ConvertBalances
    <3>2. \E t \in 0 .. clock : t > asked' - Lifetime(cache.answer) /\ cache.answer \in was[t]
      BY <2>1, <2>2, FreshIsRecent
    <3>3. cache' = NoEntry \/ \E since \in 0 .. clock : \E t \in since .. clock :
                                \E a \in was[t] : cache' = Entry(a, since)
      BY <3>1 DEF CacheHonest
    <3>4. QED
      BY <1>6, <2>1, <3>1, <3>2, <3>3
  <2>3. CASE ~Fresh
    <3>1. at' = "await" /\ cache' = NoEntry /\ TodaysRate' = TodaysRate
      BY <1>2, <1>7, <2>1, <2>3 DEF ConvertBalances
    <3>2. ~Priced'
      BY <3>1 DEF Priced, Unpriced
    <3>3. QED
      BY <2>1, <3>1, <3>2 DEF CacheHonest
  <2>4. QED
    BY <2>2, <2>3
<1>8. CASE RateArrives
  <2>1. /\ Converted(TodaysRate) /\ cache' = Entry(TodaysRate, asked)
        /\ UNCHANGED <<asked, rates, clock, was>>
    BY <1>8 DEF RateArrives, Tables, Around
  <2>2. clock \in Nat /\ asked \in 0 .. clock /\ TodaysRate \in was[clock]
    BY DEF CacheHonest
  <2>3. Lifetime(TodaysRate) \in Nat \ {0}
    BY TtlAssumption DEF Lifetime
  <2>4. clock \in 0 .. clock /\ clock > asked - Lifetime(TodaysRate) /\ clock \in asked .. clock
    BY <2>2, <2>3
  <2>5. \E t \in 0 .. clock : t > asked' - Lifetime(TodaysRate) /\ TodaysRate \in was[t]
    BY <2>1, <2>2, <2>4
  <2>6. \E since \in 0 .. clock : \E t \in since .. clock : \E a \in was[t] : cache' = Entry(a, since)
    BY <2>1, <2>2, <2>4
  <2>7. QED
    BY <1>6, <2>1, <2>2, <2>5, <2>6
<1>9. CASE ReadCategories \/ ReadBreakdown \/ ReadTotals
  <2>1. UNCHANGED <<rates, clock, was, asked, told, cache, balances, kind>>
    BY <1>9 DEF ReadCategories, ReadBreakdown, ReadTotals, Tables, Around
  <2>2. ~Unpriced
    BY <1>9 DEF ReadCategories, ReadBreakdown, ReadTotals, Unpriced
  <2>3. Priced' => Priced
    BY <2>1, <2>2 DEF Priced
  <2>4. QED
    BY <1>3, <2>1, <2>3
<1>10. CASE Write
  BY <1>3, <1>10 DEF Write, readVars, Around, Priced, Unpriced
<1>11. ASSUME UNCHANGED <<at, kind, balances, asked, told, cache>>, clock' \in Nat, clock <= clock',
              was' \in [0 .. clock' -> SUBSET Answers], TodaysRate' \in was'[clock'],
              \A t \in 0 .. clock : was[t] \subseteq was'[t]
       PROVE  CacheHonest'
  <2>1. clock \in Nat /\ asked' \in 0 .. clock' /\ 0 .. clock \subseteq 0 .. clock'
    BY <1>11 DEF CacheHonest
  <2>2. cache' = NoEntry \/ \E since \in 0 .. clock' : \E t \in since .. clock' :
                              \E a \in was'[t] : cache' = Entry(a, since)
    <3>1. SUFFICES ASSUME cache # NoEntry
          PROVE  \E since \in 0 .. clock' : \E t \in since .. clock' :
                   \E a \in was'[t] : cache' = Entry(a, since)
      BY <1>11
    <3> DEFINE At(since, t) == \E a \in was[t] : cache = Entry(a, since)
    <3>2a. PICK since \in 0 .. clock : \E t \in since .. clock : At(since, t)
      BY <3>1 DEF CacheHonest
    <3>2b. PICK t \in since .. clock : At(since, t)
      BY <3>2a
    <3>2. PICK a \in was[t] : cache = Entry(a, since)
      BY <3>2b
    <3>3. since \in 0 .. clock' /\ t \in since .. clock' /\ t \in 0 .. clock
      BY <1>11, <2>1, <3>2
    <3>4. a \in was'[t] /\ cache' = Entry(a, since)
      BY <1>11, <3>2, <3>3
    <3>5. QED
      BY <3>3, <3>4
  <2>3. ASSUME Priced'
        PROVE  /\ \E t \in 0 .. clock' : t > asked' - Lifetime(told') /\ told' \in was'[t]
               /\ \A a \in Account : balances'[a].home = HomeBalance(a, balances'[a].cents, told')
    <3>1. Priced
      BY <1>11, <2>3 DEF Priced, Unpriced
    <3>2. PICK t \in 0 .. clock : t > asked - Lifetime(told) /\ told \in was[t]
      BY <3>1 DEF CacheHonest
    <3>3. t \in 0 .. clock' /\ t > asked' - Lifetime(told') /\ told' \in was'[t]
      BY <1>11, <2>1, <3>2
    <3>4. \A a \in Account : balances'[a].home = HomeBalance(a, balances'[a].cents, told')
      BY <1>11, <3>1 DEF CacheHonest
    <3>5. QED
      BY <3>3, <3>4
  <2>4. QED
    BY <1>11, <2>1, <2>2, <2>3 DEF CacheHonest
<1>12. CASE LandRate
  <2>1. /\ UNCHANGED <<at, kind, balances, asked, told, cache, clock>>
        /\ was' = [was EXCEPT ![clock] = @ \cup {TodaysRate'}]
    BY <1>12 DEF LandRate, readVars
  <2>2. clock \in Nat /\ clock \in 0 .. clock /\ was \in [0 .. clock -> SUBSET Answers]
    BY DEF CacheHonest
  <2>3. /\ was' \in [0 .. clock' -> SUBSET Answers] /\ TodaysRate' \in was'[clock']
        /\ \A t \in 0 .. clock : was[t] \subseteq was'[t]
    BY <1>1, <2>1, <2>2
  <2>4. QED
    BY <1>11, <2>1, <2>2, <2>3
<1>13. CASE LookUpElsewhere
  <2>1. /\ UNCHANGED <<rates, clock, was, asked, told, balances>>
        /\ \E since \in 0 .. clock : \E t \in since .. clock : \E a \in was[t] : cache' = Entry(a, since)
    BY <1>13 DEF LookUpElsewhere, readVars, Tables, Around
  <2>2. Priced' = Priced /\ TodaysRate' = TodaysRate
    BY <1>2, <1>13, <2>1 DEF LookUpElsewhere, readVars, Priced, Unpriced
  <2>3. QED
    BY <2>1, <2>2 DEF CacheHonest
<1>14. CASE Tick
  <2>1. /\ UNCHANGED <<at, kind, balances, asked, told, cache, rates>> /\ clock' = clock + 1
        /\ was' = [t \in 0 .. clock + 1 |-> IF t <= clock THEN was[t] ELSE {TodaysRate}]
    BY <1>14 DEF Tick, readVars, Tables
  <2>2. clock \in Nat /\ was \in [0 .. clock -> SUBSET Answers] /\ TodaysRate' = TodaysRate
    BY <2>1 DEF CacheHonest, TodaysRate
  <2>3. \A t \in 0 .. clock + 1 : t <= clock => t \in 0 .. clock
    BY <2>2
  <2>4. TodaysRate \in Answers
    BY <1>1, <2>2
  <2>5. was' \in [0 .. clock' -> SUBSET Answers]
    <3>1. \A t \in 0 .. clock + 1 : (IF t <= clock THEN was[t] ELSE {TodaysRate}) \in SUBSET Answers
      BY <2>2, <2>3, <2>4
    <3>2. QED
      BY <2>1, <3>1
  <2>6. clock + 1 \in 0 .. clock + 1 /\ ~ (clock + 1 <= clock)
    BY <2>2
  <2>7. TodaysRate' \in was'[clock']
    BY <2>1, <2>2, <2>6
  <2>8. \A t \in 0 .. clock : t \in 0 .. clock + 1 /\ t <= clock
    BY <2>2
  <2>9. \A t \in 0 .. clock : was[t] \subseteq was'[t]
    BY <2>1, <2>8
  <2>10. QED
    BY <1>11, <2>1, <2>2, <2>5, <2>7, <2>9
<1>15. CASE UNCHANGED vars
  BY <1>3, <1>15 DEF vars, readVars, Priced, Unpriced
<1>16. QED
  BY <1>4, <1>5, <1>7, <1>8, <1>9, <1>10, <1>12, <1>13, <1>14, <1>15 DEF Next

LEMMA BalancesAreNumbersHold ==
  ASSUME HInv, [Next]_vars
  PROVE  BalancesAreNumbers'
<1> USE DEF HInv
<1>1. ASSUME NEW route \in {"dashboard", "range"}, Begin(route) PROVE BalancesAreNumbers'
  BY <1>1 DEF Begin, BalancesAreNumbers
<1>2. CASE ReadBalances
  <2>1. \A a \in Account : balances'[a].cents = Balance(a)
    BY <1>2 DEF ReadBalances
  <2>2. QED
    BY <2>1, BalanceIsSum DEF BalancesAreNumbers
<1>3. CASE ConvertBalances \/ RateArrives
  <2>1. at \notin {"balances"} /\ kind' = kind
    BY <1>3 DEF ConvertBalances, RateArrives
  <2>2. balances' = balances \/ \A a \in Account : balances'[a].cents = balances[a].cents
    BY <1>3 DEF ConvertBalances, RateArrives, Converted
  <2>3. QED
    BY <2>1, <2>2 DEF BalancesAreNumbers
<1>4. CASE UNCHANGED <<kind, balances>> /\ (at # "balances" \/ at' = at)
  BY <1>4 DEF BalancesAreNumbers
<1>5. QED
  BY <1>1, <1>2, <1>3, <1>4
  DEF Next, vars, readVars, ReadCategories, ReadBreakdown, ReadTotals, Write, LandRate,
      LookUpElsewhere, Tick

LEMMA HInvInvariance == Spec => []HInv
<1>1. HInv /\ [Next]_vars => HInv'
  BY TypesHold, ProgressHolds, QueriesAgreeHold, AsOfNowHolds, CacheHonestHolds,
     BalancesAreNumbersHold DEF HInv
<1>2. QED
  BY InitHolds, <1>1, PTL DEF Spec

(* A month's net figure is what its groups add up to, and is null when one of
   theirs is, whatever is written between other statements (the two queries of
   compute_month_flow and its rollup). *)
THEOREM NetsAddUp == Spec => []NetIsWhatGroupsAddUpTo
<1>1. HInv => NetIsWhatGroupsAddUpTo
  BY DEF HInv, QueriesAgree, NetIsWhatGroupsAddUpTo, SumsUp, Complete
<1>2. QED
  BY HInvInvariance, <1>1, PTL

------------------------------------------------------------------------------
(* The months of a range *)

\* The rows of the days a range report is about.
RowsOfRange == {t \in LiveTxns :
    /\ LocalDay(ledger[t].instant) >= FirstMonth * MonthLength
    /\ LocalDay(ledger[t].instant) < (LastMonth + 1) * MonthLength
    /\ ledger[t].category # Opening}

\* The month of each row.
MonthOfRow == [t \in LiveTxns |-> MonthOf(ledger[t].instant)]

(* The bounds of the months leave no gap and do not overlap. *)
LEMMA MonthsDivideTheRange ==
  ASSUME Types
  PROVE  /\ RowsOfRange \in SUBSET LiveTxns
         /\ \A t \in RowsOfRange : MonthOfRow[t] \in FirstMonth .. LastMonth
         /\ \A m \in FirstMonth .. LastMonth : \A t :
              t \in Flows(m) <=> t \in RowsOfRange /\ MonthOfRow[t] = m
<1>1. ASSUME NEW t \in LiveTxns
      PROVE  /\ MonthOfRow[t] \in Int
             /\ LocalDay(ledger[t].instant) >= FirstMonth * MonthLength
                  <=> MonthOfRow[t] >= FirstMonth
             /\ LocalDay(ledger[t].instant) < (LastMonth + 1) * MonthLength
                  <=> MonthOfRow[t] < LastMonth + 1
  <2>1. ledger[t].instant \in Int
    BY RowFacts
  <2>2. MonthOfRow[t] = MonthOf(ledger[t].instant)
    BY DEF MonthOfRow
  <2>3. MonthOf(ledger[t].instant) \in Int /\ LocalDay(ledger[t].instant) \in Int
    BY <2>1, MonthOfIsInteger
  <2>4. LocalDay(ledger[t].instant) >= FirstMonth * MonthLength
          <=> MonthOf(ledger[t].instant) >= FirstMonth
    BY <2>1, MonthHasStarted, MonthAssumption
  <2>5. LocalDay(ledger[t].instant) >= (LastMonth + 1) * MonthLength
          <=> MonthOf(ledger[t].instant) >= LastMonth + 1
    BY <2>1, MonthHasStarted, MonthAssumption
  <2>6. (LastMonth + 1) * MonthLength \in Int
    BY MonthAssumption, ScaleAssumption
  <2>7. QED
    BY <2>2, <2>3, <2>4, <2>5, <2>6, MonthAssumption
<1>2. \A t \in RowsOfRange : MonthOfRow[t] \in FirstMonth .. LastMonth
  BY <1>1, MonthAssumption DEF RowsOfRange
<1>3. ASSUME NEW m \in FirstMonth .. LastMonth, NEW t
      PROVE  t \in Flows(m) <=> t \in RowsOfRange /\ MonthOfRow[t] = m
  <2>1. SUFFICES ASSUME t \in LiveTxns
        PROVE  t \in Flows(m) <=> t \in RowsOfRange /\ MonthOfRow[t] = m
    BY DEF Flows, RowsOfRange
  <2>2. InMonth(ledger[t], m) <=> MonthOfRow[t] = m
    <3>1. ledger[t].instant \in Int /\ m \in Int
      BY <2>1, RowFacts, MonthAssumption
    <3>2. QED
      BY <2>1, <3>1, OneMonth DEF MonthOfRow
  <2>3. MonthOfRow[t] = m => MonthOfRow[t] >= FirstMonth /\ MonthOfRow[t] < LastMonth + 1
    BY MonthAssumption
  <2>4. QED
    BY <1>1, <2>1, <2>2, <2>3 DEF Flows, RowsOfRange
<1>4. QED
  BY <1>2, <1>3 DEF RowsOfRange

(* The nets of the months add up to the rows of the range. *)
LEMMA NetsOfRange ==
  ASSUME Types, NEW net, \A m \in FirstMonth .. LastMonth : net[m] = Totals(m).net
  PROVE  LET nets == {m \in FirstMonth .. LastMonth : net[m] # Null} IN
         IF Unconverted(RowsOfRange) = 0
           THEN /\ nets = FirstMonth .. LastMonth
                /\ SumFunctionOnSet(net, nets) = SumHome(RowsOfRange)
           ELSE nets # FirstMonth .. LastMonth
<1> DEFINE T == RowsOfRange
           M == FirstMonth .. LastMonth
           flows == [m \in M |-> Flows(m)]
           nets == {m \in M : net[m] # Null}
<1>1. /\ T \in SUBSET LiveTxns /\ IsFiniteSet(T) /\ IsFiniteSet(M)
      /\ \A t \in T : Cents[t] \in Int
      /\ \A t \in T : MonthOfRow[t] \in M
      /\ \A m \in M : \A t : t \in flows[m] <=> t \in T /\ MonthOfRow[t] = m
  BY MonthsDivideTheRange, LiveTxnsAreFinite, CentsFacts, FS_Interval, MonthAssumption
<1>2. /\ Unconverted(T) = 0 <=> \A t \in T : Convertible(rates, ledger[t])
      /\ SumHome(T) = SumFunctionOnSet(Cents, T)
  BY <1>1, FiguresAreSums
<1>3. \A m \in M : /\ Unconverted(flows[m]) \in Nat
                   /\ Unconverted(flows[m]) = 0 <=> \A t \in flows[m] : Convertible(rates, ledger[t])
                   /\ SumHome(flows[m]) = SumFunctionOnSet(Cents, flows[m])
                   /\ SumHome(flows[m]) \in Int
  BY FlowsAreLive, FiguresAreSums
<1>4. \A m \in M : /\ Unconverted(flows[m]) > 0 => net[m] = Null
                   /\ Unconverted(flows[m]) = 0 => net[m] = SumHome(flows[m])
  BY TotalsAreOfTheRows
<1> HIDE DEF T, M, flows
<1>5. CASE Unconverted(T) = 0
  <2>1. \A m \in M : Unconverted(flows[m]) = 0
    BY <1>1, <1>2, <1>3, <1>5
  <2>2. \A m \in M : net[m] = SumFunctionOnSet(Cents, flows[m]) /\ net[m] \in Int
    BY <1>3, <1>4, <2>1
  <2>3. nets = M
    BY <2>2, NullAssumption
  <2>4. SumFunctionOnSet(net, M) = SumFunctionOnSet(Cents, T)
    <3>1. \A m \in M : net[m] = SumFunctionOnSet(Cents, flows[m])
      BY <2>2
    <3> HIDE DEF nets
    <3>2. QED
      BY <1>1, <3>1, SumByKey
  <2>5. QED
    BY <1>2, <1>5, <2>3, <2>4 DEF T, M
<1>6. CASE Unconverted(T) # 0
  <2>1. PICK t \in T : ~Convertible(rates, ledger[t])
    BY <1>2, <1>6
  <2>2. MonthOfRow[t] \in M /\ t \in flows[MonthOfRow[t]]
    BY <1>1
  <2>3. net[MonthOfRow[t]] = Null
    BY <1>3, <1>4, <2>1, <2>2
  <2>4. QED
    BY <1>6, <2>2, <2>3 DEF T, M
<1>7. QED
  BY <1>5, <1>6

(* The rate of a row is that of the last stored day that has begun, in the
   reader's time zone, at its instant. *)
LEMMA PricedByItsDay ==
  ASSUME Types, NEW t \in LiveTxns, ledger[t].account \in InDollars
  PROVE  LET begun == {d \in Stored(rates) : StartOfDay(d) <= ledger[t].instant} IN
         /\ Convertible(rates, ledger[t]) <=> begun # {}
         /\ \A d \in LatestOf(begun) :
              HomeCents(rates, ledger[t]) = RoundSql(ledger[t].amount * rates[d])
<1> DEFINE row == ledger[t]
           k == LocalDay(row.instant)
           begun == {d \in Stored(rates) : StartOfDay(d) <= row.instant}
           upTo == {d \in Stored(rates) : d <= k}
           carried == CarriedForward(rates, k)
<1>1. row.instant \in Int /\ k \in Int /\ rates \in RateTables
  BY RowFacts, MonthOfIsInteger DEF Types
<1>2. begun = upTo
  <2>1. ASSUME NEW d \in Stored(rates) PROVE StartOfDay(d) <= row.instant <=> d <= k
    <3>1. d \in Int /\ DayLength \in Nat \ {0} /\ Offset \in Int
      BY DayAssumption, ScaleAssumption, TimeAssumption DEF Stored
    <3>2. d * DayLength \in Int /\ row.instant + Offset \in Int
      BY <1>1, <3>1
    <3>3. k >= d <=> row.instant + Offset >= d * DayLength
      BY <3>1, <3>2, QuotientReaches DEF LocalDay
    <3>4. StartOfDay(d) = d * DayLength - Offset
      BY DEF StartOfDay
    <3> HIDE DEF k, row
    <3>5. QED
      BY <1>1, <3>1, <3>2, <3>3, <3>4
  <2>2. QED
    BY <2>1
<1>3. /\ upTo = {} => carried = NoRate
      /\ upTo # {} => carried # NoRate
      /\ carried # NoRate => carried.rate \in Nat
      /\ \A d \in LatestOf(upTo) : carried.rate = rates[d]
  BY <1>1, CarriedIsRate
<1>4. JoinedRate(rates, row) = IF carried = NoRate THEN Null ELSE carried.rate
  BY DEF JoinedRate
<1>5. /\ Convertible(rates, row) <=> JoinedRate(rates, row) # Null
      /\ Convertible(rates, row) => HomeCents(rates, row) = RoundSql(row.amount * JoinedRate(rates, row))
  BY RowIsWorth
<1>6. LatestOf(upTo) # {} => upTo # {}
  BY DEF LatestOf
<1> HIDE DEF carried, upTo, begun, row
<1>7. Convertible(rates, row) <=> upTo # {}
  BY <1>3, <1>4, <1>5, NullAssumption
<1>8. \A d \in LatestOf(upTo) : HomeCents(rates, row) = RoundSql(row.amount * rates[d])
  <2>1. TAKE d \in LatestOf(upTo)
  <2>2. upTo # {}
    BY <1>6
  <2>3. JoinedRate(rates, row) = rates[d]
    BY <1>3, <1>4, <2>2
  <2>4. QED
    BY <1>5, <1>7, <2>2, <2>3
<1>9. QED
  BY <1>2, <1>7, <1>8 DEF begun, row

(* A quiet range report has each row in one month, at the rate of its day
   (compute_month_bounds, home_rate_join and the months get_monthly_report
   iterates). *)
THEOREM EveryRowInOneMonth == Spec => []EachRowIsInOneMonth
<1>1. ASSUME HInv, Quiet, kind = "range"
      PROVE  LET nets == {m \in DOMAIN report : report[m].totals.net # Null} IN
             IF Unconverted(RowsOfRange) = 0
               THEN /\ nets = FirstMonth .. LastMonth
                    /\ SumFunction([m \in nets |-> report[m].totals.net]) = SumHome(RowsOfRange)
               ELSE nets # FirstMonth .. LastMonth
  <2>1. DOMAIN report = FirstMonth .. LastMonth
    BY <1>1 DEF HInv, Progress, FirstOf, Quiet, Unpriced
  <2>2. \A m \in FirstMonth .. LastMonth : report[m].totals = Totals(m)
    BY <1>1, <2>1 DEF HInv, Progress, AsOfNow, Complete, Quiet
  <2> DEFINE M == FirstMonth .. LastMonth
             net == [m \in M |-> report[m].totals.net]
             nets == {m \in M : net[m] # Null}
             some == [m \in nets |-> report[m].totals.net]
  <2>3. \A m \in M : net[m] = Totals(m).net
    BY <2>2
  <2>4. IF Unconverted(RowsOfRange) = 0
          THEN nets = M /\ SumFunctionOnSet(net, nets) = SumHome(RowsOfRange)
          ELSE nets # M
    <3> HIDE DEF net
    <3>1. QED
      BY <1>1, <2>3, NetsOfRange DEF HInv
  <2>5. nets = M => some = net
    OBVIOUS
  <2>6. SumFunction(some) = SumFunctionOnSet(some, nets)
    BY DEF SumFunction
  <2>7. {m \in DOMAIN report : report[m].totals.net # Null} = nets
    BY <2>1
  <2>8. QED
    BY <2>1, <2>4, <2>5, <2>6, <2>7
<1>2. ASSUME HInv, NEW t \in RowsOfRange, ledger[t].account \in InDollars
      PROVE  LET begun == {d \in Stored(rates) : StartOfDay(d) <= ledger[t].instant} IN
             /\ Convertible(rates, ledger[t]) <=> begun # {}
             /\ \A d \in LatestOf(begun) :
                  HomeCents(rates, ledger[t]) = RoundSql(ledger[t].amount * rates[d])
  <2>1. t \in LiveTxns
    BY DEF RowsOfRange
  <2>2. QED
    BY <1>2, <2>1, PricedByItsDay DEF HInv
<1>3. HInv => EachRowIsInOneMonth
  BY <1>1, <1>2 DEF EachRowIsInOneMonth, RowsOfRange
<1>4. QED
  BY HInvInvariance, <1>3, PTL

------------------------------------------------------------------------------
(* Balances *)

LEMMA FactorCancels ==
  ASSUME NEW p \in Int, NEW q \in Int, NEW u \in Nat \ {0}, u * p <= u * q
  PROVE  p <= q
<1>1. SUFFICES ASSUME q + 1 <= p PROVE FALSE
  OBVIOUS
<1>2. (q + 1) * u <= p * u
  BY <1>1, ProductsAreOrdered
<1>3. (q + 1) * u = u * q + u /\ p * u = u * p /\ u * q \in Int /\ u * p \in Int
  OBVIOUS
<1>4. QED
  BY <1>2, <1>3

(* A row in dollars priced at r is worth what it moved, times r and rounded:
   the sign may be put on before or after rounding. *)
LEMMA RowAtRate ==
  ASSUME Types, NEW t \in LiveTxns, ledger[t].account \in InDollars,
         NEW r \in Nat, JoinedRate(rates, ledger[t]) = r
  PROVE  /\ Convertible(rates, ledger[t]) /\ Moved[t] * r \in Int
         /\ Cents[t] = RoundSql(Moved[t] * r)
<1> DEFINE row == ledger[t]
           n == row.amount * r
<1>1. row.amount \in Nat /\ row.inflow \in BOOLEAN /\ n \in Int
  BY RowFacts
<1>2. Convertible(rates, row) /\ HomeCents(rates, row) = RoundSql(n)
  BY RowIsWorth, NullAssumption
<1>3. Cents[t] = Signed(row, RoundSql(n)) /\ Moved[t] = Signed(row, row.amount)
  BY <1>2 DEF Cents, Moved, SignedHomeCents
<1>4. RoundSql(-n) = -RoundSql(n)
  BY <1>1, RoundingOfOpposites
<1>5. CASE row.inflow
  <2>1. Moved[t] * r = n
    BY <1>3, <1>5 DEF Signed
  <2>2. QED
    BY <1>1, <1>2, <1>3, <1>5, <2>1 DEF Signed
<1>6. CASE ~row.inflow
  <2>1. Moved[t] = -row.amount /\ (-row.amount) * r = -n
    BY <1>1, <1>3, <1>6 DEF Signed
  <2>2. Moved[t] * r = -n /\ -n \in Int
    BY <1>1, <2>1
  <2>3. QED
    BY <1>2, <1>3, <1>4, <1>6, <2>2 DEF Signed
<1>7. QED
  BY <1>1, <1>5, <1>6

(* Rounding a balance once or row by row. *)
LEMMA RoundedOnceOrByRow ==
  ASSUME Types, NEW a \in InDollars, NEW r \in Nat,
         \A t \in RowsOf(a) : JoinedRate(rates, ledger[t]) = r
  PROVE  LET once == RoundPython(Balance(a) * r)
             difference == once - SumHome(RowsOf(a))
         IN  IF Cardinality(RowsOf(a)) <= 1
               THEN difference = 0
               ELSE 2 * Magnitude(difference) <= Cardinality(RowsOf(a)) + 1
<1> DEFINE T == RowsOf(a)
           C == Balance(a)
           once == RoundPython(C * r)
           sum == SumHome(T)
           k == Cardinality(T)
<1>1. /\ T \in SUBSET LiveTxns /\ IsFiniteSet(T)
      /\ C = SumFunctionOnSet(Moved, T) /\ C \in Int
      /\ sum = SumFunctionOnSet(Cents, T) /\ sum \in Int
      /\ k \in Nat
  BY BalanceIsSum, FiguresAreSums, FS_CardinalityType
<1>2. ASSUME NEW t \in T
      PROVE  /\ Moved[t] \in Int /\ Cents[t] \in Int /\ Moved[t] * r \in Int
             /\ Cents[t] = RoundSql(Moved[t] * r)
  <2>1. ledger[t].account \in InDollars /\ t \in LiveTxns /\ JoinedRate(rates, ledger[t]) = r
    BY DEF RowsOf
  <2>2. Moved[t] \in Int /\ Cents[t] \in Int
    BY <2>1, BalanceIsSum, CentsFacts
  <2>3. QED
    BY <2>1, <2>2, RowAtRate
<1>3. C * r \in Int
  BY <1>1
<1>4. once = RoundSql(C * r) /\ once \in Int
  BY <1>3, RoundingsAgree, RoundsToNearest
<1>5. Unit \in Nat \ {0}
  BY ScaleAssumption
<1>6. CASE k <= 1
  <2>1. CASE T = {}
    <3>1. C = 0 /\ sum = 0
      BY <1>1, <2>1, SumOfNone
    <3>2. C * r \in Int /\ -(C * r) = C * r
      BY <3>1
    <3>3. RoundSql(-(C * r)) = -RoundSql(C * r)
      BY <3>2, RoundingOfOpposites
    <3>4. once = 0
      <4>1. once = -once
        BY <1>4, <3>2, <3>3
      <4>2. QED
        BY <1>4, <4>1
    <3>5. once - sum = 0
      BY <3>1, <3>4
    <3>6. QED
      BY <1>6, <3>5
  <2>2. CASE T # {}
    <3>1. PICK t : T = {t}
      <4>1. k = 1
        BY <1>1, <1>6, <2>2, FS_EmptySet
      <4>2. QED
        BY <1>1, <4>1, FS_Singleton
    <3>2. ASSUME NEW f, \A x \in T : f[x] \in Int PROVE SumFunctionOnSet(f, T) = f[t]
      <4>1. t \in T /\ T \ {t} = {}
        BY <3>1
      <4>2. SumFunctionOnSet(f, T) = f[t] + SumFunctionOnSet(f, T \ {t})
        BY <1>1, <3>2, <4>1, SumTakesOut
      <4>3. SumFunctionOnSet(f, T \ {t}) = 0
        BY <4>1, SumOfNone
      <4>4. QED
        BY <3>2, <4>1, <4>2, <4>3
    <3>3. C = Moved[t] /\ sum = Cents[t]
      <4>1. \A x \in T : Moved[x] \in Int
        BY <1>2
      <4>2. \A x \in T : Cents[x] \in Int
        BY <1>2
      <4>3. QED
        BY <1>1, <3>2, <4>1, <4>2
    <3>4. sum = RoundSql(C * r)
      BY <1>2, <3>1, <3>3
    <3>5. once - sum = 0
      BY <1>4, <3>4
    <3>6. QED
      BY <1>6, <3>5
  <2>3. QED
    BY <2>1, <2>2
<1>7. CASE ~ (k <= 1)
  <2> DEFINE d == 2 * Unit
             e == 2 * r
  <2>1. d \in Int /\ e \in Int /\ Unit \in Nat
    BY <1>5
  <2>2. ASSUME NEW t \in T
        PROVE  /\ Cents[t] \in Int /\ Moved[t] \in Int
               /\ d * Cents[t] - e * Moved[t] <= Unit
               /\ e * Moved[t] - d * Cents[t] <= Unit
    <3>1. /\ d * RoundSql(Moved[t] * r) - 2 * (Moved[t] * r) <= Unit
          /\ 2 * (Moved[t] * r) - d * RoundSql(Moved[t] * r) <= Unit
      BY <1>2, RoundsToNearest
    <3>2. e * Moved[t] = 2 * (Moved[t] * r)
      BY <1>2
    <3>3. QED
      BY <1>2, <3>1, <3>2
  <2>3. /\ d * once - 2 * (C * r) <= Unit
        /\ 2 * (C * r) - d * once <= Unit
    BY <1>3, <1>4, RoundsToNearest
  <2>4. e * C = 2 * (C * r) /\ e * C \in Int /\ d * sum \in Int /\ d * once \in Int /\ Unit * k \in Int
    BY <1>1, <1>4, <1>5
  <2> HIDE DEF d, e, T, C, once, sum, k
  <2>5. /\ d * sum - e * C <= Unit * k
        /\ e * C - d * sum <= Unit * k
    BY <1>1, <2>1, <2>2, SumStaysWithin DEF k
  <2>6. d * once - d * sum <= Unit * k + Unit /\ d * sum - d * once <= Unit * k + Unit
    BY <1>5, <2>3, <2>4, <2>5
  <2>7. /\ Unit * (2 * (once - sum)) = d * once - d * sum
        /\ Unit * (2 * (sum - once)) = d * sum - d * once
        /\ Unit * (k + 1) = Unit * k + Unit
    BY <1>1, <1>4, <1>5 DEF d
  <2>8. 2 * (once - sum) <= k + 1 /\ 2 * (sum - once) <= k + 1
    <3>1. Unit * (2 * (once - sum)) <= Unit * (k + 1)
      BY <2>6, <2>7
    <3>2. Unit * (2 * (sum - once)) <= Unit * (k + 1)
      BY <2>6, <2>7
    <3>3. 2 * (once - sum) \in Int /\ 2 * (sum - once) \in Int /\ k + 1 \in Int
      BY <1>1, <1>4
    <3>4. QED
      BY <1>5, <3>1, <3>2, <3>3, FactorCancels
  <2>9. 2 * Magnitude(once - sum) <= k + 1
    BY <1>1, <1>4, <2>8 DEF Magnitude
  <2>10. QED
    BY <1>7, <2>9 DEF k, T, once, sum, C
<1>8. QED
  BY <1>6, <1>7

(* The balances of a dashboard are at one answer no older than the cache may be,
   and on a quiet one a balance is off the sum of its rows by rounding only when
   SQL prices them at that answer (get_rate, _to_home_cents against
   HOME_CENTS_EXPR). *)
THEOREM BalancesWithinRounding == Spec => []BalanceIsWithinRounding
<1>1. ASSUME HInv, at = "done", kind = "dashboard" PROVE BalanceIsWithinRounding
  <2>1. Priced /\ Types
    BY <1>1 DEF HInv, Priced, Unpriced
  <2>2. PICK t0 \in 0 .. clock : t0 > asked - Lifetime(told) /\ told \in was[t0]
    BY <1>1, <2>1 DEF HInv, CacheHonest
  <2>3. was \in [0 .. clock -> SUBSET Answers]
    BY <1>1 DEF HInv, CacheHonest
  <2>4. DOMAIN was = 0 .. clock /\ told \in Answers
    BY <2>2, <2>3
  <2>5. \E t \in DOMAIN was :
          /\ t > asked - (IF told = NoRate THEN NegTtl ELSE Ttl)
          /\ told \in was[t]
    BY <2>2, <2>4 DEF Lifetime
  <2>6. told # NoRate => told.rate \in Nat
    BY <2>4 DEF Answers
  <2>7. ASSUME NEW a \in InDollars
        PROVE  /\ balances[a].home = Null <=> told = NoRate
               /\ writes = 0 /\ told # NoRate
                    /\ (\A t \in RowsOf(a) : JoinedRate(rates, ledger[t]) = told.rate)
                    => IF Cardinality(RowsOf(a)) <= 1
                         THEN balances[a].home - SumHome(RowsOf(a)) = 0
                         ELSE 2 * Magnitude(balances[a].home - SumHome(RowsOf(a)))
                                <= Cardinality(RowsOf(a)) + 1
    <3>1. a \in Account
      BY LedgerAssumption
    <3>2. balances[a].home = HomeBalance(a, balances[a].cents, told)
      BY <1>1, <2>1, <3>1 DEF HInv, CacheHonest
    <3>3. told = NoRate => balances[a].home = Null
      BY <3>2 DEF HomeBalance
    <3>4. ASSUME told # NoRate PROVE balances[a].home # Null
      <4>1. balances[a].home = RoundPython(balances[a].cents * told.rate)
        BY <3>2, <3>4 DEF HomeBalance, ToHomeCents
      <4>2. balances[a].cents \in Int
        BY <1>1, <3>1 DEF HInv, BalancesAreNumbers
      <4>3. balances[a].cents * told.rate \in Int
        BY <2>6, <3>4, <4>2
      <4>4. balances[a].home \in Int
        BY <4>1, <4>3, RoundingsAgree, RoundsToNearest
      <4>5. QED
        BY <4>4, NullAssumption
    <3>5. ASSUME writes = 0, told # NoRate,
                 \A t \in RowsOf(a) : JoinedRate(rates, ledger[t]) = told.rate
          PROVE  IF Cardinality(RowsOf(a)) <= 1
                   THEN balances[a].home - SumHome(RowsOf(a)) = 0
                   ELSE 2 * Magnitude(balances[a].home - SumHome(RowsOf(a)))
                          <= Cardinality(RowsOf(a)) + 1
      <4>1. balances[a].cents = Balance(a)
        BY <1>1, <3>1, <3>5 DEF HInv, AsOfNow
      <4>2. balances[a].home = RoundPython(Balance(a) * told.rate)
        BY <3>2, <3>5, <4>1 DEF HomeBalance, ToHomeCents
      <4>3. told.rate \in Nat
        BY <2>6, <3>5
      <4>4. QED
        BY <2>1, <3>5, <4>2, <4>3, RoundedOnceOrByRow
    <3>6. QED
      BY <3>3, <3>4, <3>5
  <2>8. QED
    BY <2>5, <2>7 DEF BalanceIsWithinRounding, RowsOf
<1>2. HInv => BalanceIsWithinRounding
  BY <1>1 DEF BalanceIsWithinRounding
<1>3. QED
  BY HInvInvariance, <1>2, PTL

=============================================================================
