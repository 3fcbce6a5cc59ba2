---------------------------- MODULE DataProofs ----------------------------
(***************************************************************************)
(* What the proofs of several components rest on: induction over numbers,  *)
(* finite sets and trees, recursion along a tree, sums over a finite set   *)
(* and the list operations, for lists over any set.  The induction         *)
(* theorems take the property to prove as a set, the way the provers can   *)
(* instantiate it.                                                         *)
(***************************************************************************)
EXTENDS Lists, FiniteSets, Functions, SequenceTheorems, FiniteSetTheorems,
        WellFoundedInduction, TLAPS

(* Every set of natural numbers has a least element.                       *)
LEMMA LeastNatural ==
  ASSUME NEW T \in SUBSET Nat, T # {}
  PROVE  \E x \in T : \A y \in T : x <= y
<1> DEFINE R == {ss \in Nat \X Nat : ss[1] < ss[2]}
<1>1. OpToRel(<, Nat) = R
  BY Zenon DEF OpToRel
<1>2. IsWellFoundedOn(R, Nat)
  BY <1>1, NatLessThanWellFounded, Zenon
<1>3. PICK x \in T : \A y \in T : ~(<<y, x>> \in R)
  BY <1>2, WFMin
<1>4. \A y \in T : y \in Nat /\ ~(y < x)
  BY <1>3
<1> QED BY <1>3, <1>4

(* Induction over the natural numbers, for a property given as a set.      *)
LEMMA SetInduction ==
  ASSUME NEW T \in SUBSET Nat, 0 \in T, \A n \in T : n + 1 \in T
  PROVE  T = Nat
<1> SUFFICES ASSUME Nat \ T # {} PROVE FALSE
  OBVIOUS
<1>1. PICK n \in Nat \ T : \A y \in Nat \ T : n <= y
  BY LeastNatural
<1>2. n # 0 /\ n - 1 \in Nat /\ ~(n <= n - 1)
  BY <1>1
<1>3. n - 1 \in T
  BY <1>1, <1>2
<1>4. (n - 1) + 1 \in T
  BY <1>3
<1> QED BY <1>4, <1>1

(* Induction over the subsets of a finite set.                             *)
LEMMA FiniteInduction ==
  ASSUME NEW S, IsFiniteSet(S), NEW P \in SUBSET SUBSET S, {} \in P,
         \A s \in P : \A x \in S \ s : s \cup {x} \in P
  PROVE  \A s \in SUBSET S : s \in P
<1> DEFINE T == {n \in Nat : \A s \in SUBSET S : Cardinality(s) = n => s \in P}
<1>0. \A s \in SUBSET S : IsFiniteSet(s) /\ Cardinality(s) \in Nat
  BY FS_Subset, FS_CardinalityType
<1>1. 0 \in T
  <2> SUFFICES ASSUME NEW s \in SUBSET S, Cardinality(s) = 0 PROVE s \in P
    OBVIOUS
  <2>1. s = {}
    BY <1>0, FS_EmptySet
  <2> QED BY <2>1
<1>2. ASSUME NEW n \in T PROVE n + 1 \in T
  <2> SUFFICES ASSUME NEW s \in SUBSET S, Cardinality(s) = n + 1 PROVE s \in P
    OBVIOUS
  <2>1. s # {}
    BY <1>0, FS_EmptySet
  <2>2. PICK x \in s : TRUE
    BY <2>1
  <2>3. Cardinality(s \ {x}) = n
    BY <1>0, FS_RemoveElement
  <2>4. s \ {x} \in P
    BY <2>3
  <2>5. (s \ {x}) \cup {x} = s /\ x \in S \ (s \ {x})
    BY <2>2
  <2> QED BY <2>4, <2>5
<1>3. T = Nat
  <2> HIDE DEF T
  <2>1. T \in SUBSET Nat
    BY DEF T
  <2> QED BY <1>1, <1>2, <2>1, SetInduction
<1> QED BY <1>0, <1>3

(* The recursion behind the community module's SumFunctionOnSet.           *)
Pick(s) == CHOOSE x \in s : TRUE

SumStep(f, g, s) == IF s = {} THEN 0 ELSE f[Pick(s)] + g[s \ {Pick(s)}]

Sums(f, g, D) == g = [s \in D |-> SumStep(f, g, s)]

Within(U, S) == U \subseteq S

SumsOn(f, g, S) == Sums(f, g, SUBSET S)

Agree(f, e, S) == \A x \in S : f[x] = e[x]

(* The recursion that adds up f has a solution on a finite set.            *)
LEMMA SumsExist ==
  ASSUME NEW S, IsFiniteSet(S), NEW f, \A x \in S : f[x] \in Int
  PROVE  \E g \in [SUBSET S -> Int] : Sums(f, g, SUBSET S)
<1> DEFINE D(n) == {s \in SUBSET S : Cardinality(s) <= n}
           T == {n \in Nat : \E g \in [D(n) -> Int] : Sums(f, g, D(n))}
<1>0. \A s \in SUBSET S : IsFiniteSet(s) /\ Cardinality(s) \in Nat
  BY FS_Subset, FS_CardinalityType
<1>a. \A s \in SUBSET S : s # {} => Pick(s) \in s /\ Pick(s) \in S
  BY DEF Pick
<1>1. 0 \in T
  <2>1. D(0) = {{}}
    BY <1>0, FS_EmptySet
  <2> DEFINE g == [s \in D(0) |-> 0]
  <2>2. g \in [D(0) -> Int]
    OBVIOUS
  <2>3. Sums(f, g, D(0))
    BY <2>1 DEF Sums, SumStep
  <2> QED BY <2>2, <2>3
<1>2. ASSUME NEW n \in T PROVE n + 1 \in T
  <2>1. PICK g \in [D(n) -> Int] : Sums(f, g, D(n))
    OBVIOUS
  <2> DEFINE h == [s \in D(n + 1) |-> SumStep(f, g, s)]
  <2>2. ASSUME NEW s \in D(n + 1), s # {}
        PROVE  Pick(s) \in S /\ s \ {Pick(s)} \in D(n) /\ s \ {Pick(s)} \in D(n + 1)
    <3>1. Cardinality(s \ {Pick(s)}) = Cardinality(s) - 1
      BY <1>0, <1>a, <2>2, FS_RemoveElement
    <3>2. s \ {Pick(s)} \in SUBSET S /\ Cardinality(s) \in Nat
      BY <1>0
    <3> QED BY <3>1, <3>2, <1>a, <2>2
  <2>3. ASSUME NEW s \in D(n + 1) PROVE SumStep(f, g, s) \in Int
    BY <2>2 DEF SumStep
  <2>4. ASSUME NEW s \in D(n), s \in D(n + 1) PROVE h[s] = g[s]
    BY <2>1, <2>4 DEF Sums
  <2>5. ASSUME NEW s \in D(n + 1) PROVE SumStep(f, h, s) = SumStep(f, g, s)
    <3> HIDE DEF h, D
    <3> QED BY <2>2, <2>4 DEF SumStep
  <2>6. h \in [D(n + 1) -> Int]
    <3> HIDE DEF D
    <3> QED BY <2>3
  <2>7. Sums(f, h, D(n + 1))
    <3>1. h = [s \in D(n + 1) |-> SumStep(f, h, s)]
      <4> HIDE DEF D
      <4> QED BY <2>5
    <3> QED BY <3>1 DEF Sums
  <2>8. \E k \in [D(n + 1) -> Int] : Sums(f, k, D(n + 1))
    <3> HIDE DEF D, h
    <3> QED BY <2>6, <2>7
  <2>9. n + 1 \in Nat
    OBVIOUS
  <2> QED BY <2>8, <2>9
<1>3. T = Nat
  <2> HIDE DEF T
  <2>1. T \in SUBSET Nat
    BY DEF T
  <2> QED BY <1>1, <1>2, <2>1, SetInduction
<1>4. D(Cardinality(S)) = SUBSET S
  BY <1>0, FS_Subset, FS_CardinalityType
<1>5. Cardinality(S) \in Nat
  BY <1>0
<1>6. Cardinality(S) \in T
  BY <1>3, <1>5
<1>7. \E g \in [D(Cardinality(S)) -> Int] : Sums(f, g, D(Cardinality(S)))
  <2> HIDE DEF D
  <2> QED BY <1>6
<1> HIDE DEF D
<1> QED BY <1>4, <1>7

(* SumFunctionOnSet is a solution of that recursion.                       *)
LEMMA SumIs ==
  ASSUME NEW S, IsFiniteSet(S), NEW f, \A x \in S : f[x] \in Int
  PROVE  \E g : Sums(f, g, SUBSET S) /\ SumFunctionOnSet(f, S) = g[S]
<1> DEFINE g == CHOOSE h : h = [s \in SUBSET S |-> IF s = {} THEN 0 ELSE f[CHOOSE x \in s : TRUE] + h[s \ {CHOOSE x \in s : TRUE}]]
<1>1. \E h : h = [s \in SUBSET S |-> IF s = {} THEN 0 ELSE f[CHOOSE x \in s : TRUE] + h[s \ {CHOOSE x \in s : TRUE}]]
  <2>1. PICK h : Sums(f, h, SUBSET S)
    BY SumsExist
  <2>2. h = [s \in SUBSET S |-> IF s = {} THEN 0 ELSE f[CHOOSE x \in s : TRUE] + h[s \ {CHOOSE x \in s : TRUE}]]
    BY <2>1 DEF Sums, SumStep, Pick
  <2> QED BY <2>2, Zenon
<1>2. g = [s \in SUBSET S |-> IF s = {} THEN 0 ELSE f[CHOOSE x \in s : TRUE] + g[s \ {CHOOSE x \in s : TRUE}]]
  BY <1>1
<1>3. Sums(f, g, SUBSET S)
  <2> HIDE DEF g
  <2> QED BY <1>2 DEF Sums, SumStep, Pick
<1>4. SumFunctionOnSet(f, S) = g[S]
  BY DEF SumFunctionOnSet, FoldFunctionOnSet, MapThenFoldSet
<1> QED BY <1>3, <1>4

(* A set of finite sets that is not empty has a smallest member.           *)
LEMMA SmallestSet ==
  ASSUME NEW S, IsFiniteSet(S), NEW C \in SUBSET SUBSET S, C # {}
  PROVE  \E s \in C : \A x \in s : s \ {x} \notin C
<1> DEFINE T == {Cardinality(s) : s \in C}
<1>0. \A s \in SUBSET S : IsFiniteSet(s) /\ Cardinality(s) \in Nat
  BY FS_Subset, FS_CardinalityType
<1>1. T \in SUBSET Nat /\ T # {}
  BY <1>0
<1>2. PICK n \in T : \A m \in T : n <= m
  <2> HIDE DEF T
  <2> QED BY <1>1, LeastNatural
<1>3. PICK s \in C : n = Cardinality(s)
  OBVIOUS
<1>4. ASSUME NEW x \in s, s \ {x} \in C PROVE FALSE
  <2>1. Cardinality(s \ {x}) = Cardinality(s) - 1
    BY <1>0, FS_RemoveElement
  <2>2. n <= n - 1
    BY <1>2, <1>3, <1>4, <2>1
  <2> QED BY <2>2, <1>0, <1>3
<1> QED BY <1>4

(* The recursion has one solution: it depends on nothing but the summands. *)
LEMMA SumsUnique ==
  ASSUME NEW S, NEW U, Within(U, S), IsFiniteSet(U),
         NEW f, NEW e, Agree(f, e, U),
         NEW g, SumsOn(f, g, S), NEW k, SumsOn(e, k, U)
  PROVE  g[U] = k[U]
<1> DEFINE C == {s \in SUBSET U : g[s] # k[s]}
<1> SUFFICES ASSUME C # {} PROVE FALSE
  OBVIOUS
<1>1. PICK s \in C : \A x \in s : s \ {x} \notin C
  <2>1. C \in SUBSET SUBSET U
    OBVIOUS
  <2> HIDE DEF C
  <2> QED BY <2>1, SmallestSet
<1>2. g[s] = SumStep(f, g, s) /\ k[s] = SumStep(e, k, s)
  BY DEF SumsOn, Sums, Within
<1>3. CASE s = {}
  BY <1>2, <1>3 DEF SumStep
<1>4. CASE s # {}
  <2>1. Pick(s) \in s
    BY <1>4 DEF Pick
  <2>2. g[s \ {Pick(s)}] = k[s \ {Pick(s)}]
    BY <1>1, <2>1
  <2>3. f[Pick(s)] = e[Pick(s)]
    BY <2>1 DEF Agree
  <2> QED BY <1>2, <1>4, <2>2, <2>3 DEF SumStep
<1> QED BY <1>3, <1>4

(* A sum of integers is an integer.                                        *)
LEMMA SumInt ==
  ASSUME NEW S, IsFiniteSet(S), NEW f, \A x \in S : f[x] \in Int
  PROVE  SumFunctionOnSet(f, S) \in Int
<1>1. PICK g : SumsOn(f, g, S) /\ SumFunctionOnSet(f, S) = g[S]
  BY SumIs DEF SumsOn
<1>2. PICK h \in [SUBSET S -> Int] : SumsOn(f, h, S)
  BY SumsExist DEF SumsOn
<1>3. g[S] = h[S]
  <2>1. Within(S, S) /\ Agree(f, f, S)
    BY DEF Agree, Within
  <2> QED BY <2>1, <1>1, <1>2, SumsUnique
<1> QED BY <1>1, <1>2, <1>3

(* The empty sum.                                                          *)
LEMMA SumEmpty ==
  ASSUME NEW f
  PROVE  SumFunctionOnSet(f, {}) = 0
<1>1. IsFiniteSet({}) /\ \A x \in {} : f[x] \in Int
  BY FS_EmptySet
<1>2. PICK g : SumsOn(f, g, {}) /\ SumFunctionOnSet(f, {}) = g[{}]
  BY <1>1, SumIs DEF SumsOn
<1> QED BY <1>2 DEF SumsOn, Sums, SumStep

(* A sum depends on nothing but its summands.                              *)
LEMMA SumSame ==
  ASSUME NEW S, IsFiniteSet(S), NEW f, NEW e,
         \A x \in S : f[x] \in Int /\ e[x] = f[x]
  PROVE  SumFunctionOnSet(e, S) = SumFunctionOnSet(f, S)
<1>1. PICK g : SumsOn(f, g, S) /\ SumFunctionOnSet(f, S) = g[S]
  BY SumIs DEF SumsOn
<1>2. PICK k : SumsOn(e, k, S) /\ SumFunctionOnSet(e, S) = k[S]
  BY SumIs DEF SumsOn
<1>3. Within(S, S) /\ Agree(f, e, S)
  BY DEF Agree, Within
<1> QED BY <1>1, <1>2, <1>3, SumsUnique

(* Any summand may be taken out.                                           *)
LEMMA SumTake ==
  ASSUME NEW S, IsFiniteSet(S), NEW f, \A x \in S : f[x] \in Int, NEW x \in S
  PROVE  SumFunctionOnSet(f, S) = f[x] + SumFunctionOnSet(f, S \ {x})
<1>1. PICK h \in [SUBSET S -> Int] : SumsOn(f, h, S)
  BY SumsExist DEF SumsOn
<1>2. ASSUME NEW s \in SUBSET S PROVE SumFunctionOnSet(f, s) = h[s]
  <2>1. IsFiniteSet(s)
    BY FS_Subset
  <2>2. PICK g : SumsOn(f, g, s) /\ SumFunctionOnSet(f, s) = g[s]
    BY <2>1, SumIs DEF SumsOn
  <2>3. Within(s, S) /\ Agree(f, f, s)
    BY DEF Agree, Within
  <2> QED BY <2>1, <2>2, <2>3, <1>1, SumsUnique
<1> DEFINE C == {s \in SUBSET S : \E y \in s : h[s] # f[y] + h[s \ {y}]}
<1>3. C = {}
  <2> SUFFICES ASSUME C # {} PROVE FALSE
    OBVIOUS
  <2>1. PICK s \in C : \A y \in s : s \ {y} \notin C
    <3>1. C \in SUBSET SUBSET S
      OBVIOUS
    <3> HIDE DEF C
    <3> QED BY <3>1, SmallestSet
  <2>2. PICK y \in s : h[s] # f[y] + h[s \ {y}]
    OBVIOUS
  <2> DEFINE z == Pick(s)
  <2>3. z \in s
    BY <2>2 DEF Pick
  <2>4. h[s] = f[z] + h[s \ {z}]
    BY <1>1, <2>3 DEF SumsOn, Sums, SumStep
  <2> HIDE DEF z
  <2>5. y # z
    BY <2>2, <2>4
  <2>6. s \ {z} \in SUBSET S /\ s \ {y} \in SUBSET S /\ y \in s \ {z} /\ z \in s \ {y}
    BY <2>3, <2>5
  <2>7. h[s \ {z}] = f[y] + h[(s \ {z}) \ {y}]
    BY <2>1, <2>3, <2>6
  <2>8. h[s \ {y}] = f[z] + h[(s \ {y}) \ {z}]
    BY <2>1, <2>6
  <2>9. (s \ {z}) \ {y} = (s \ {y}) \ {z} /\ (s \ {y}) \ {z} \in SUBSET S
    OBVIOUS
  <2>10. /\ f[y] \in Int /\ f[z] \in Int /\ h[(s \ {y}) \ {z}] \in Int
    BY <1>1, <2>3, <2>9
  <2> DEFINE a == h[(s \ {y}) \ {z}]
  <2>11. h[s] = f[z] + (f[y] + a) /\ h[s \ {y}] = f[z] + a
    BY <2>4, <2>7, <2>8, <2>9
  <2>12. a \in Int
    BY <2>10
  <2> HIDE DEF a
  <2> QED BY <2>2, <2>10, <2>11, <2>12
<1>4. h[S] = f[x] + h[S \ {x}]
  <2>1. S \notin C
    BY <1>3
  <2> QED BY <2>1
<1> QED BY <1>2, <1>4

(* Sums: an entry changes ...                                              *)
LEMMA SumAt ==
  ASSUME NEW S, IsFiniteSet(S), NEW f, NEW e, NEW c \in S,
         \A x \in S : f[x] \in Int /\ e[x] \in Int,
         \A x \in S \ {c} : e[x] = f[x]
  PROVE  SumFunctionOnSet(e, S) = SumFunctionOnSet(f, S) - f[c] + e[c]
<1> DEFINE D == S \ {c}
<1>1. SumFunctionOnSet(f, S) = f[c] + SumFunctionOnSet(f, D)
  BY SumTake
<1>2. SumFunctionOnSet(e, S) = e[c] + SumFunctionOnSet(e, D)
  BY SumTake
<1>3. IsFiniteSet(D) /\ \A x \in D : f[x] \in Int /\ e[x] = f[x]
  BY FS_RemoveElement
<1> HIDE DEF D
<1>4. SumFunctionOnSet(e, D) = SumFunctionOnSet(f, D) /\ SumFunctionOnSet(f, D) \in Int
  BY <1>3, SumSame, SumInt
<1>5. f[c] \in Int /\ e[c] \in Int
  OBVIOUS
<1> QED BY <1>1, <1>2, <1>4, <1>5

(* ... or two, by the same amount ...                                      *)
LEMMA SumMoves ==
  ASSUME NEW S, IsFiniteSet(S), NEW f, NEW g, NEW a \in S, NEW c \in S, a # c,
         \A x \in S : f[x] \in Int /\ g[x] \in Int, g[a] + g[c] = f[a] + f[c],
         \A x \in S \ {a, c} : g[x] = f[x]
  PROVE  SumFunctionOnSet(g, S) = SumFunctionOnSet(f, S)
<1> DEFINE D == S \ {a}
           E == D \ {c}
<1>1. SumFunctionOnSet(f, S) = f[a] + SumFunctionOnSet(f, D)
  BY SumTake
<1>2. SumFunctionOnSet(g, S) = g[a] + SumFunctionOnSet(g, D)
  BY SumTake
<1>3. IsFiniteSet(D) /\ c \in D /\ \A x \in D : f[x] \in Int /\ g[x] \in Int
  BY FS_RemoveElement
<1>4. \A x \in E : f[x] \in Int /\ g[x] = f[x]
  OBVIOUS
<1> HIDE DEF D
<1>5. SumFunctionOnSet(f, D) = f[c] + SumFunctionOnSet(f, E)
  BY <1>3, SumTake
<1>6. SumFunctionOnSet(g, D) = g[c] + SumFunctionOnSet(g, E)
  BY <1>3, SumTake
<1>7. IsFiniteSet(E)
  BY <1>3, FS_RemoveElement
<1> HIDE DEF E
<1>8. SumFunctionOnSet(g, E) = SumFunctionOnSet(f, E) /\ SumFunctionOnSet(f, E) \in Int
  BY <1>4, <1>7, SumSame, SumInt
<1>9. f[a] \in Int /\ f[c] \in Int /\ g[a] \in Int /\ g[c] \in Int
  OBVIOUS
<1> QED BY <1>1, <1>2, <1>5, <1>6, <1>8, <1>9

(* ... a sum of natural numbers is one ...                                 *)
LEMMA SumNat ==
  ASSUME NEW S, IsFiniteSet(S), NEW f, \A x \in S : f[x] \in Nat
  PROVE  SumFunctionOnSet(f, S) \in Nat
<1> DEFINE P == {s \in SUBSET S : SumFunctionOnSet(f, s) \in Nat}
<1>1. {} \in P
  BY SumEmpty
<1>2. ASSUME NEW s \in P, NEW x \in S \ s PROVE s \cup {x} \in P
  <2> DEFINE u == s \cup {x}
  <2>1. /\ IsFiniteSet(u) /\ u \ {x} = s /\ u \in SUBSET S /\ x \in u
        /\ \A y \in u : f[y] \in Int
    BY FS_Subset, FS_AddElement
  <2>2. SumFunctionOnSet(f, s) \in Nat /\ f[x] \in Nat
    OBVIOUS
  <2> HIDE DEF u
  <2>3. SumFunctionOnSet(f, u) = f[x] + SumFunctionOnSet(f, u \ {x})
    BY <2>1, SumTake
  <2>4. SumFunctionOnSet(f, u) \in Nat
    <3>1. SumFunctionOnSet(f, u \ {x}) = SumFunctionOnSet(f, s)
      BY <2>1, Zenon
    <3> QED BY <2>2, <2>3, <3>1
  <2>5. u \in P
    BY <2>1, <2>4
  <2> QED BY <2>5 DEF u
<1>3. \A s \in SUBSET S : s \in P
  <2> HIDE DEF P
  <2>1. P \in SUBSET SUBSET S
    BY DEF P
  <2> QED BY <1>1, <1>2, <2>1, FiniteInduction
<1> QED BY <1>3

(* ... and none of them is larger than the sum.                            *)
LEMMA SumMember ==
  ASSUME NEW S, IsFiniteSet(S), NEW f, \A x \in S : f[x] \in Nat, NEW c \in S
  PROVE  f[c] <= SumFunctionOnSet(f, S)
<1> DEFINE D == S \ {c}
<1>1. SumFunctionOnSet(f, S) = f[c] + SumFunctionOnSet(f, D)
  BY SumTake
<1>2. IsFiniteSet(D) /\ \A x \in D : f[x] \in Nat
  BY FS_RemoveElement
<1> HIDE DEF D
<1>3. SumFunctionOnSet(f, D) \in Nat
  BY <1>2, SumNat
<1>4. f[c] \in Nat
  OBVIOUS
<1> QED BY <1>1, <1>3, <1>4

(* The sum of nothing but zeros.                                           *)
LEMMA SumZero ==
  ASSUME NEW S, IsFiniteSet(S), NEW f, \A x \in S : f[x] = 0
  PROVE  SumFunctionOnSet(f, S) = 0
<1> DEFINE P == {s \in SUBSET S : SumFunctionOnSet(f, s) = 0}
<1>1. {} \in P
  BY SumEmpty
<1>2. ASSUME NEW s \in P, NEW x \in S \ s PROVE s \cup {x} \in P
  <2> DEFINE u == s \cup {x}
  <2>1. /\ IsFiniteSet(u) /\ u \ {x} = s /\ u \in SUBSET S /\ x \in u
        /\ \A y \in u : f[y] \in Int
    BY FS_Subset, FS_AddElement
  <2>2. SumFunctionOnSet(f, s) = 0 /\ f[x] = 0
    OBVIOUS
  <2> HIDE DEF u
  <2>3. SumFunctionOnSet(f, u) = f[x] + SumFunctionOnSet(f, u \ {x})
    BY <2>1, SumTake
  <2>4. SumFunctionOnSet(f, u) = 0
    <3>1. SumFunctionOnSet(f, u \ {x}) = SumFunctionOnSet(f, s)
      BY <2>1, Zenon
    <3> QED BY <2>2, <2>3, <3>1
  <2>5. u \in P
    BY <2>1, <2>4
  <2> QED BY <2>5 DEF u
<1>3. \A s \in SUBSET S : s \in P
  <2> HIDE DEF P
  <2>1. P \in SUBSET SUBSET S
    BY DEF P
  <2> QED BY <1>1, <1>2, <2>1, FiniteInduction
<1> QED BY <1>3

(* The sum of equal numbers.                                               *)
LEMMA SumSameValue ==
  ASSUME NEW S, IsFiniteSet(S), NEW b \in Int, NEW f, \A x \in S : f[x] = b
  PROVE  SumFunctionOnSet(f, S) = Cardinality(S) * b
<1> DEFINE P == {s \in SUBSET S : SumFunctionOnSet(f, s) = Cardinality(s) * b}
<1>1. {} \in P
  <2>1. Cardinality({}) = 0 /\ 0 * b = 0
    BY FS_EmptySet
  <2> QED BY <2>1, SumEmpty
<1>2. ASSUME NEW s \in P, NEW x \in S \ s PROVE s \cup {x} \in P
  <2> DEFINE u == s \cup {x}
  <2>0. IsFiniteSet(s) /\ Cardinality(s) \in Nat
    BY FS_Subset, FS_CardinalityType
  <2>1. /\ IsFiniteSet(u) /\ u \ {x} = s /\ u \in SUBSET S /\ x \in u
        /\ \A y \in u : f[y] \in Int
        /\ Cardinality(u) = Cardinality(s) + 1
    BY <2>0, FS_AddElement
  <2>2. SumFunctionOnSet(f, s) = Cardinality(s) * b /\ f[x] = b
    OBVIOUS
  <2> HIDE DEF u
  <2>3. SumFunctionOnSet(f, u) = f[x] + SumFunctionOnSet(f, u \ {x})
    BY <2>1, SumTake
  <2>4. SumFunctionOnSet(f, u) = Cardinality(u) * b
    <3>1. SumFunctionOnSet(f, u \ {x}) = SumFunctionOnSet(f, s)
      BY <2>1, Zenon
    <3>2. (Cardinality(s) + 1) * b = Cardinality(s) * b + b
      BY <2>0
    <3>3. Cardinality(s) * b \in Int
      BY <2>0
    <3> QED BY <2>1, <2>2, <2>3, <3>1, <3>2, <3>3
  <2>5. u \in P
    BY <2>1, <2>4
  <2> QED BY <2>5 DEF u
<1>3. \A s \in SUBSET S : s \in P
  <2> HIDE DEF P
  <2>1. P \in SUBSET SUBSET S
    BY DEF P
  <2> QED BY <1>1, <1>2, <2>1, FiniteInduction
<1> QED BY <1>3

-----------------------------------------------------------------------------
(* A tree: every node but the root has a parent, which is less deep.       *)
IsTree(G, root, parent, depth, m) ==
  /\ m \in Nat
  /\ root \in G
  /\ depth \in [G -> 0 .. m]
  /\ \A g \in G \ {root} : parent[g] \in G /\ depth[parent[g]] < depth[g]

(* w is defined on D from the parent's value by step.                      *)
Descends(w, D, root, parent, base, step) ==
  w = [g \in D |-> IF g = root THEN base ELSE step[<<w[parent[g]], g>>]]

(* Recursion along a tree defines a function.                              *)
LEMMA TreeRecursion ==
  ASSUME NEW G, NEW root, NEW parent, NEW depth, NEW m,
         IsTree(G, root, parent, depth, m),
         NEW V, NEW base \in V, NEW step \in [V \X G -> V]
  PROVE  \E w \in [G -> V] : Descends(w, G, root, parent, base, step)
<1> DEFINE D(n) == {g \in G : depth[g] <= n}
           T == {n \in Nat : \E w \in [D(n) -> V] :
                               Descends(w, D(n), root, parent, base, step)}
<1>0. /\ m \in Nat /\ root \in G
      /\ \A g \in G : depth[g] \in Nat /\ depth[g] <= m
      /\ \A g \in G \ {root} : parent[g] \in G /\ depth[parent[g]] < depth[g]
  BY DEF IsTree
<1>1. 0 \in T
  <2> DEFINE w == [g \in D(0) |-> base]
  <2>1. \A g \in D(0) : g = root
    BY <1>0
  <2>2. w \in [D(0) -> V]
    OBVIOUS
  <2>3. Descends(w, D(0), root, parent, base, step)
    <3> HIDE DEF D
    <3> QED BY <2>1 DEF Descends
  <2>4. \E k \in [D(0) -> V] : Descends(k, D(0), root, parent, base, step)
    <3> HIDE DEF D, w
    <3> QED BY <2>2, <2>3
  <2> QED BY <2>4
<1>2. ASSUME NEW n \in T PROVE n + 1 \in T
  <2>1. PICK w \in [D(n) -> V] : Descends(w, D(n), root, parent, base, step)
    OBVIOUS
  <2> DEFINE value(g) == IF g = root THEN base ELSE step[<<w[parent[g]], g>>]
             k == [g \in D(n + 1) |-> value(g)]
  <2>2. ASSUME NEW g \in D(n + 1), g # root PROVE parent[g] \in D(n) /\ parent[g] \in D(n + 1)
    BY <1>0, <2>2
  <2>3. ASSUME NEW g \in D(n + 1) PROVE value(g) \in V
    <3>1. g \in G
      OBVIOUS
    <3> HIDE DEF D
    <3> QED BY <2>2, <3>1
  <2>4. ASSUME NEW g \in D(n), g \in D(n + 1) PROVE k[g] = w[g]
    <3> HIDE DEF D
    <3> QED BY <2>1, <2>4 DEF Descends
  <2>5. ASSUME NEW g \in D(n + 1), g # root PROVE k[parent[g]] = w[parent[g]]
    <3> HIDE DEF D, k
    <3> QED BY <2>2, <2>4, <2>5
  <2>6. k \in [D(n + 1) -> V]
    <3> HIDE DEF D
    <3> QED BY <2>3
  <2>7. Descends(k, D(n + 1), root, parent, base, step)
    <3>1. k = [g \in D(n + 1) |-> IF g = root THEN base ELSE step[<<k[parent[g]], g>>]]
      <4> HIDE DEF D
      <4> QED BY <2>5
    <3> QED BY <3>1 DEF Descends
  <2>8. \E h \in [D(n + 1) -> V] : Descends(h, D(n + 1), root, parent, base, step)
    <3> HIDE DEF D, k
    <3> QED BY <2>6, <2>7
  <2>9. n + 1 \in Nat
    OBVIOUS
  <2> QED BY <2>8, <2>9
<1>3. m \in T
  <2>1. T \in SUBSET Nat
    OBVIOUS
  <2>2. T = Nat
    <3> HIDE DEF T
    <3> QED BY <1>1, <1>2, <2>1, SetInduction
  <2> QED BY <2>2, <1>0
<1>4. D(m) = G
  BY <1>0
<1>5. \E w \in [D(m) -> V] : Descends(w, D(m), root, parent, base, step)
  <2> HIDE DEF D
  <2> QED BY <1>3
<1> HIDE DEF D
<1> QED BY <1>4, <1>5

(* What holds at the root and passes from parent to child holds throughout. *)
LEMMA TreeInduction ==
  ASSUME NEW G, NEW root, NEW parent, NEW depth, NEW m,
         IsTree(G, root, parent, depth, m),
         NEW P \in SUBSET G, root \in P,
         \A g \in G \ {root} : parent[g] \in P => g \in P
  PROVE  P = G
<1> DEFINE T == {n \in Nat : \A g \in G : depth[g] <= n => g \in P}
<1>0. /\ m \in Nat /\ root \in G
      /\ \A g \in G : depth[g] \in Nat /\ depth[g] <= m
      /\ \A g \in G \ {root} : parent[g] \in G /\ depth[parent[g]] < depth[g]
  BY DEF IsTree
<1>1. 0 \in T
  BY <1>0
<1>2. ASSUME NEW n \in T PROVE n + 1 \in T
  BY <1>0
<1>3. T = Nat
  <2>1. T \in SUBSET Nat
    OBVIOUS
  <2> HIDE DEF T
  <2> QED BY <1>1, <1>2, <2>1, SetInduction
<1> QED BY <1>0, <1>3

-----------------------------------------------------------------------------
(* Removing a listed entry leaves the others, each once, in a list shorter *)
(* by one.                                                                 *)
LEMMA ListDel ==
  ASSUME NEW T, NEW q \in Seq(T), NEW W, NEW p \in W, QueueHolds(q, W)
  PROVE  /\ list_del(q, p) \in Seq(T)
         /\ Len(list_del(q, p)) = Len(q) - 1
         /\ QueueHolds(list_del(q, p), W \ {p})
<1> DEFINE i == CHOOSE j \in DOMAIN q : q[j] = p
           d == [k \in 1 .. Len(q) - 1 |-> IF k < i THEN q[k] ELSE q[k + 1]]
<1>1. i \in 1 .. Len(q) /\ q[i] = p
  BY DEF QueueHolds
<1>2. list_del(q, p) = d
  BY <1>1 DEF list_del
<1> HIDE DEF i
<1>3. /\ Len(q) \in Nat /\ DOMAIN q = 1 .. Len(q)
      /\ \A k \in 1 .. Len(q) : q[k] \in T
  OBVIOUS
<1>4. \A k \in 1 .. Len(q) - 1 : d[k] \in T
  BY <1>1, <1>3
<1>5. d \in Seq(T) /\ Len(d) = Len(q) - 1 /\ DOMAIN d = 1 .. Len(q) - 1
  <2>1. Len(q) - 1 \in Nat
    BY <1>1, <1>3
  <2> QED BY <2>1, <1>4, IsASeq
<1>6. \A j, k \in DOMAIN d : d[j] = d[k] => j = k
  <2> SUFFICES ASSUME NEW j \in 1 .. Len(q) - 1, NEW k \in 1 .. Len(q) - 1,
                      d[j] = d[k]
               PROVE  j = k
    BY <1>5
  <2>1. \A a, b \in 1 .. Len(q) : q[a] = q[b] => a = b
    BY <1>3 DEF QueueHolds
  <2> QED BY <2>1, <1>1, <1>3
<1>7. { d[k] : k \in DOMAIN d } = W \ {p}
  <2>1. \A a, b \in 1 .. Len(q) : q[a] = q[b] => a = b
    BY <1>3 DEF QueueHolds
  <2>2. \A k \in 1 .. Len(q) - 1 : d[k] \in W \ {p}
    BY <2>1, <1>1, <1>3 DEF QueueHolds
  <2>3. ASSUME NEW x \in W \ {p} PROVE \E k \in 1 .. Len(q) - 1 : d[k] = x
    <3>1. PICK j \in 1 .. Len(q) : q[j] = x
      BY <1>3 DEF QueueHolds
    <3>2. CASE j < i
      BY <3>1, <3>2, <1>1, <1>3
    <3>3. CASE j > i
      <4>1. j - 1 \in 1 .. Len(q) - 1 /\ ~(j - 1 < i) /\ (j - 1) + 1 = j
        BY <3>3, <1>1, <1>3
      <4>2. d[j - 1] = x
        BY <4>1, <3>1
      <4> QED BY <4>1, <4>2
    <3>4. j # i
      BY <3>1, <1>1
    <3> QED BY <3>2, <3>3, <3>4, <1>1, <1>3
  <2> QED BY <2>2, <2>3, <1>5
<1> QED BY <1>2, <1>5, <1>6, <1>7 DEF QueueHolds

(* Adding an entry that is not listed, at either end.                      *)
LEMMA ListAdd ==
  ASSUME NEW T, NEW q \in Seq(T), NEW W, NEW p \in T, p \notin W,
         QueueHolds(q, W)
  PROVE  /\ list_add(q, p) \in Seq(T)
         /\ Len(list_add(q, p)) = Len(q) + 1
         /\ QueueHolds(list_add(q, p), W \cup {p})
         /\ list_add_tail(q, p) \in Seq(T)
         /\ Len(list_add_tail(q, p)) = Len(q) + 1
         /\ QueueHolds(list_add_tail(q, p), W \cup {p})
<1> DEFINE f == list_add(q, p)
           t == list_add_tail(q, p)
<1>1. Len(q) \in Nat /\ DOMAIN q = 1 .. Len(q)
  OBVIOUS
<1>2. /\ f \in Seq(T) /\ Len(f) = Len(q) + 1 /\ DOMAIN f = 1 .. Len(q) + 1
      /\ \A k \in 1 .. Len(q) + 1 : f[k] = IF k = 1 THEN p ELSE q[k - 1]
  BY <1>1 DEF list_add
<1>3. /\ t \in Seq(T) /\ Len(t) = Len(q) + 1 /\ DOMAIN t = 1 .. Len(q) + 1
      /\ \A k \in 1 .. Len(q) + 1 : t[k] = IF k = Len(q) + 1 THEN p ELSE q[k]
  BY <1>1 DEF list_add_tail
<1> HIDE DEF f, t
<1>4. /\ \A k \in 1 .. Len(q) : q[k] \in W
      /\ \A a, b \in 1 .. Len(q) : q[a] = q[b] => a = b
      /\ \A x \in W : \E k \in 1 .. Len(q) : q[k] = x
  BY <1>1 DEF QueueHolds
<1>5. QueueHolds(f, W \cup {p})
  <2>1. \A a, b \in 1 .. Len(q) + 1 : f[a] = f[b] => a = b
    BY <1>1, <1>2, <1>4
  <2>2. \A k \in 1 .. Len(q) + 1 : f[k] \in W \cup {p}
    BY <1>1, <1>2, <1>4
  <2>3. ASSUME NEW x \in W \cup {p} PROVE \E k \in 1 .. Len(q) + 1 : f[k] = x
    <3>1. CASE x = p
      BY <3>1, <1>1, <1>2
    <3>2. CASE x \in W
      <4>1. PICK k \in 1 .. Len(q) : q[k] = x
        BY <3>2, <1>4
      <4>2. k + 1 \in 1 .. Len(q) + 1 /\ k + 1 # 1 /\ (k + 1) - 1 = k
        BY <1>1
      <4> QED BY <4>1, <4>2, <1>2
    <3> QED BY <3>1, <3>2
  <2> QED BY <2>1, <2>2, <2>3, <1>2 DEF QueueHolds
<1>6. QueueHolds(t, W \cup {p})
  <2>1. \A a, b \in 1 .. Len(q) + 1 : t[a] = t[b] => a = b
    BY <1>1, <1>3, <1>4
  <2>2. \A k \in 1 .. Len(q) + 1 : t[k] \in W \cup {p}
    BY <1>1, <1>3, <1>4
  <2>3. ASSUME NEW x \in W \cup {p} PROVE \E k \in 1 .. Len(q) + 1 : t[k] = x
    <3>1. CASE x = p
      BY <3>1, <1>1, <1>3
    <3>2. CASE x \in W
      <4>1. PICK k \in 1 .. Len(q) : q[k] = x
        BY <3>2, <1>4
      <4>2. k \in 1 .. Len(q) + 1 /\ k # Len(q) + 1
        BY <1>1
      <4> QED BY <4>1, <4>2, <1>3
    <3> QED BY <3>1, <3>2
  <2> QED BY <2>1, <2>2, <2>3, <1>3 DEF QueueHolds
<1> QED BY <1>2, <1>3, <1>5, <1>6 DEF f, t

(* list_move_tail keeps the list's entries.                                 *)
LEMMA ListMoveTail ==
  ASSUME NEW T, NEW q \in Seq(T), NEW W \in SUBSET T, NEW p \in W,
         QueueHolds(q, W)
  PROVE  /\ list_move_tail(q, p) \in Seq(T)
         /\ Len(list_move_tail(q, p)) = Len(q)
         /\ QueueHolds(list_move_tail(q, p), W)
<1> DEFINE d == list_del(q, p)
           V == W \ {p}
<1>1. d \in Seq(T) /\ Len(d) = Len(q) - 1 /\ QueueHolds(d, V)
  BY ListDel
<1>2. V \cup {p} = W /\ p \in T /\ p \notin V
  OBVIOUS
<1> HIDE DEF d, V
<1>3. /\ list_add_tail(d, p) \in Seq(T)
      /\ Len(list_add_tail(d, p)) = Len(d) + 1
      /\ QueueHolds(list_add_tail(d, p), V \cup {p})
  BY <1>1, <1>2, ListAdd
<1>4. Len(q) \in Nat
  OBVIOUS
<1>5. list_move_tail(q, p) = list_add_tail(d, p)
  BY DEF list_move_tail, d
<1>6. QueueHolds(list_add_tail(d, p), W)
  BY <1>2, <1>3
<1>7. Len(list_add_tail(d, p)) = Len(q)
  BY <1>1, <1>3, <1>4
<1> QED BY <1>3, <1>5, <1>6, <1>7
=============================================================================
