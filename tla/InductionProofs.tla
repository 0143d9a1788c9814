---------------------------- MODULE InductionProofs ----------------------------
(***************************************************************************)
(* Induction for the proofs about walks.  A statement is a set of numbers, *)
(* so that no lemma takes an operator; and that a recursive function has   *)
(* the value its equation gives it is proved, not assumed.                 *)
(***************************************************************************)
EXTENDS FiniteSetTheorems, TLAPS

(* A set of numbers has a least one. *)
LEMMA LeastOfNat ==
  ASSUME NEW S \in SUBSET Nat, S # {}
  PROVE  \E m \in S : \A n \in S : m <= n
<1>1. PICK m \in S : \A n \in S : <<n, m>> \notin OpToRel(<, Nat)
  BY NatLessThanWellFounded, WFMin
<1>2. \A n \in S : ~ (n < m)
  BY <1>1 DEF OpToRel
<1> QED
  BY <1>2

(* Induction up to K. *)
LEMMA UpTo ==
  ASSUME NEW K \in Nat, NEW S, 0 \in S,
         \A n \in 0 .. K : n \in S /\ n + 1 <= K => n + 1 \in S
  PROVE  0 .. K \subseteq S
<1> DEFINE R == (0 .. K) \ S
<1> SUFFICES ASSUME R # {} PROVE FALSE
  OBVIOUS
<1>0. R \in SUBSET Nat
  OBVIOUS
<1> HIDE DEF R
<1>1. PICK m \in R : \A n \in R : m <= n
  BY <1>0, LeastOfNat
<1> USE DEF R
<1>2. m - 1 \in 0 .. K /\ m - 1 \in S
  BY <1>1
<1> QED
  BY <1>1, <1>2

(* f is given by its first value and by a step; there is such an f.        *)
Iterated(f, K, x, G) ==
  f = [i \in 0 .. K |-> IF i = 0 THEN x ELSE G[f[i - 1]]]

LEMMA Iterates ==
  ASSUME NEW K \in Nat, NEW X, NEW G \in [X -> X], NEW x \in X
  PROVE  \E f \in [0 .. K -> X] : Iterated(f, K, x, G)
<1> DEFINE Upto(n, f) == \A i \in 0 .. n : f[i] = IF i = 0 THEN x ELSE G[f[i - 1]]
           S == {n \in 0 .. K : \E f \in [0 .. K -> X] : Upto(n, f)}
<1>1. 0 \in S
  <2> DEFINE g == [i \in 0 .. K |-> x]
  <2>1. g \in [0 .. K -> X]
    OBVIOUS
  <2>2. Upto(0, g)
    OBVIOUS
  <2> HIDE DEF g
  <2> QED
    BY <2>1, <2>2
<1>2. ASSUME NEW n \in 0 .. K, n \in S, n + 1 <= K PROVE n + 1 \in S
  <2>1. PICK f \in [0 .. K -> X] : Upto(n, f)
    BY <1>2
  <2> DEFINE g == [i \in 0 .. K |-> IF i = n + 1 THEN G[f[n]] ELSE f[i]]
  <2>2. g \in [0 .. K -> X]
    OBVIOUS
  <2>3. Upto(n + 1, g)
    <3> SUFFICES ASSUME NEW i \in 0 .. n + 1
                 PROVE  g[i] = IF i = 0 THEN x ELSE G[g[i - 1]]
      OBVIOUS
    <3>1. CASE i = n + 1
      BY <3>1, <1>2
    <3>2. CASE i # n + 1
      <4>1. f[i] = IF i = 0 THEN x ELSE G[f[i - 1]]
        BY <2>1, <3>2
      <4> QED
        BY <3>2, <4>1, <1>2
    <3> QED
      BY <3>1, <3>2
  <2> HIDE DEF g
  <2> QED
    BY <1>2, <2>2, <2>3
<1> HIDE DEF S
<1>3. 0 .. K \subseteq S
  BY <1>1, <1>2, UpTo
<1>4. PICK f \in [0 .. K -> X] : Upto(K, f)
  BY <1>3 DEF S
<1>5. Iterated(f, K, x, G)
  BY <1>4 DEF Iterated
<1> QED
  BY <1>5

(* f goes from m to next[m] until it comes to D. *)
Follows(f, S, D, v, next) ==
  f = [m \in S |-> IF m \in D THEN v[m] ELSE f[next[m]]]

(* There is such an f where each step leads to a lower rank.               *)
LEMMA FollowsToEnd ==
  ASSUME NEW S, NEW D, NEW v, NEW next, NEW K \in Nat, NEW r \in [S -> 0 .. K],
         \A m \in S \ D : next[m] \in S /\ r[next[m]] < r[m]
  PROVE  \E f : Follows(f, S, D, v, next)
<1> DEFINE Good(n, f) == \A m \in S : r[m] <= n => f[m] = IF m \in D THEN v[m] ELSE f[next[m]]
           T == {n \in 0 .. K : \E f : f = [m \in S |-> f[m]] /\ Good(n, f)}
<1>1. 0 \in T
  <2> DEFINE f == [m \in S |-> v[m]]
  <2>1. f = [m \in S |-> f[m]]
    OBVIOUS
  <2>2. Good(0, f)
    OBVIOUS
  <2> HIDE DEF f
  <2> QED
    BY <2>1, <2>2
<1>2. ASSUME NEW n \in 0 .. K, n \in T, n + 1 <= K PROVE n + 1 \in T
  <2>1. PICK f : f = [m \in S |-> f[m]] /\ Good(n, f)
    BY <1>2
  <2> DEFINE g == [m \in S |-> IF r[m] = n + 1
                               THEN IF m \in D THEN v[m] ELSE f[next[m]]
                               ELSE f[m]]
  <2>2. g = [m \in S |-> g[m]]
    OBVIOUS
  <2>3. Good(n + 1, g)
    <3> SUFFICES ASSUME NEW m \in S, r[m] <= n + 1
                 PROVE  g[m] = IF m \in D THEN v[m] ELSE g[next[m]]
      OBVIOUS
    <3>1. m \notin D => next[m] \in S /\ r[next[m]] < r[m] /\ g[next[m]] = f[next[m]]
      OBVIOUS
    <3>2. r[m] # n + 1 => r[m] <= n
      OBVIOUS
    <3> QED
      BY <2>1, <3>1, <3>2
  <2> HIDE DEF g
  <2> QED
    BY <1>2, <2>2, <2>3
<1> HIDE DEF T
<1>3. 0 .. K \subseteq T
  BY <1>1, <1>2, UpTo
<1>4. PICK f : f = [m \in S |-> f[m]] /\ Good(K, f)
  BY <1>3 DEF T
<1>5. Follows(f, S, D, v, next)
  BY <1>4 DEF Follows
<1> QED
  BY <1>5

(* A set of places from which one comes to no place of lower rank that is  *)
(* not in the set, too, is empty.                                          *)
LEMMA ByRank ==
  ASSUME NEW S, NEW r \in [S -> Nat], NEW Bad \in SUBSET S,
         \A m \in Bad : \E n \in Bad : r[n] < r[m]
  PROVE  Bad = {}
<1> SUFFICES ASSUME Bad # {} PROVE FALSE
  OBVIOUS
<1>1. {r[m] : m \in Bad} # {} /\ {r[m] : m \in Bad} \in SUBSET Nat
  OBVIOUS
<1>2. PICK k \in {r[m] : m \in Bad} : \A n \in {r[m] : m \in Bad} : k <= n
  BY <1>1, LeastOfNat
<1> QED
  BY <1>2

--------------------------------------------------------------------------------
(* Sums over finite sets, taken in whatever order: F gives every subset of *)
(* S its sum of w.                                                         *)
Sums(F, S, w) ==
  F = [s \in SUBSET S |->
         IF s = {} THEN 0
         ELSE w[CHOOSE x \in s : TRUE] + F[s \ {CHOOSE x \in s : TRUE}]]

(* F does so for the subsets of up to n elements. *)
SumStep(F, w, s) ==
  IF s = {} THEN 0 ELSE w[CHOOSE x \in s : TRUE] + F[s \ {CHOOSE x \in s : TRUE}]

SumsUpTo(n, F, S, w) ==
  /\ F = [s \in SUBSET S |-> F[s]]
  /\ \A s \in SUBSET S : Cardinality(s) <= n => F[s] = SumStep(F, w, s)

LEMMA SubsetSizes ==
  ASSUME NEW S, IsFiniteSet(S), NEW s \in SUBSET S
  PROVE  /\ IsFiniteSet(s) /\ Cardinality(s) \in 0 .. Cardinality(S)
         /\ Cardinality(s) = 0 => s = {}
         /\ \A x \in s : /\ Cardinality(s \ {x}) \in Nat
                         /\ Cardinality(s \ {x}) + 1 = Cardinality(s)
<1>1. IsFiniteSet(s) /\ Cardinality(s) <= Cardinality(S)
  BY FS_Subset
<1>2. Cardinality(s) \in Nat /\ Cardinality(S) \in Nat
  BY <1>1, FS_CardinalityType
<1>3. Cardinality(s) = 0 => s = {}
  BY <1>1, FS_EmptySet
<1>4. ASSUME NEW x \in s
      PROVE  Cardinality(s \ {x}) \in Nat /\ Cardinality(s \ {x}) + 1 = Cardinality(s)
  <2>1. IsFiniteSet(s \ {x}) /\ Cardinality(s \ {x}) = Cardinality(s) - 1
    BY <1>1, FS_RemoveElement
  <2>2. Cardinality(s \ {x}) \in Nat
    BY <2>1, FS_CardinalityType
  <2> QED
    BY <1>2, <2>1, <2>2
<1> QED
  BY <1>1, <1>2, <1>3, <1>4

(* There is such an F. *)
LEMMA SumExists ==
  ASSUME NEW S, IsFiniteSet(S), NEW w
  PROVE  \E F : Sums(F, S, w)
<1> DEFINE T == {n \in 0 .. Cardinality(S) : \E F : SumsUpTo(n, F, S, w)}
<1>1. \A s \in SUBSET S :
        /\ Cardinality(s) \in 0 .. Cardinality(S) /\ (Cardinality(s) = 0 => s = {})
        /\ \A x \in s : Cardinality(s \ {x}) \in Nat /\ Cardinality(s \ {x}) + 1 = Cardinality(s)
  BY SubsetSizes
<1>2. Cardinality(S) \in Nat
  BY FS_CardinalityType
<1>3. 0 \in T
  <2> DEFINE f == [s \in SUBSET S |-> 0]
  <2>1. f = [s \in SUBSET S |-> f[s]]
    OBVIOUS
  <2>2. \A s \in SUBSET S : Cardinality(s) <= 0 => f[s] = SumStep(f, w, s)
    <3>1. \A s \in SUBSET S : Cardinality(s) <= 0 => s = {}
      BY <1>1
    <3> QED
      BY <3>1 DEF SumStep
  <2> HIDE DEF f
  <2>3. SumsUpTo(0, f, S, w)
    BY <2>1, <2>2 DEF SumsUpTo
  <2> QED
    BY <1>2, <2>3
<1>4. ASSUME NEW n \in 0 .. Cardinality(S), n \in T, n + 1 <= Cardinality(S)
      PROVE  n + 1 \in T
  <2>1. PICK f : SumsUpTo(n, f, S, w)
    BY <1>4
  <2> DEFINE g == [s \in SUBSET S |->
                     IF Cardinality(s) = n + 1 THEN SumStep(f, w, s) ELSE f[s]]
  <2>2. g = [s \in SUBSET S |-> g[s]]
    OBVIOUS
  <2>3. ASSUME NEW s \in SUBSET S, Cardinality(s) <= n + 1 PROVE g[s] = SumStep(g, w, s)
    <3>1. CASE s = {}
      <4>1. f[s] = 0 \/ Cardinality(s) = n + 1
        <5>1. Cardinality(s) = n + 1 \/ Cardinality(s) <= n
          BY <1>1, <2>3
        <5> QED
          BY <2>1, <3>1, <5>1 DEF SumsUpTo, SumStep
      <4> QED
        BY <3>1, <4>1 DEF SumStep
    <3>2. CASE s # {}
      <4> DEFINE x == CHOOSE x \in s : TRUE
      <4>1. x \in s
        BY <3>2
      <4> HIDE DEF x
      <4>2. s \ {x} \in SUBSET S /\ Cardinality(s \ {x}) <= n
        BY <1>1, <2>3, <4>1
      <4>3. Cardinality(s \ {x}) # n + 1
        BY <1>1, <4>1, <4>2
      <4>4. g[s \ {x}] = f[s \ {x}]
        BY <4>2, <4>3
      <4>5. SumStep(g, w, s) = SumStep(f, w, s)
        BY <3>2, <4>4 DEF x, SumStep
      <4>6. Cardinality(s) = n + 1 \/ Cardinality(s) <= n
        BY <1>1, <2>3
      <4> QED
        BY <2>1, <4>5, <4>6 DEF SumsUpTo
    <3> QED
      BY <3>1, <3>2
  <2> HIDE DEF g
  <2>4. n + 1 \in 0 .. Cardinality(S)
    BY <1>4
  <2>5. SumsUpTo(n + 1, g, S, w)
    BY <2>2, <2>3 DEF SumsUpTo
  <2> QED
    BY <2>4, <2>5
<1> HIDE DEF T
<1>5. 0 .. Cardinality(S) \subseteq T
  BY <1>2, <1>3, <1>4, UpTo
<1>6. PICK f : SumsUpTo(Cardinality(S), f, S, w)
  <2>1. Cardinality(S) \in T
    BY <1>2, <1>5
  <2> QED
    BY <2>1 DEF T
<1>7. f = [s \in SUBSET S |-> SumStep(f, w, s)]
  <2>1. ASSUME NEW s \in SUBSET S PROVE f[s] = SumStep(f, w, s)
    <3>1. Cardinality(s) <= Cardinality(S)
      BY <1>1, <1>2
    <3> QED
      BY <1>6, <3>1 DEF SumsUpTo
  <2> QED
    BY <1>6, <2>1 DEF SumsUpTo
<1> QED
  BY <1>7 DEF Sums, SumStep

(* Any element may be taken out first. *)
LEMMA SumTakes ==
  ASSUME NEW S, IsFiniteSet(S), NEW w, \A x \in S : w[x] \in Nat,
         NEW F, Sums(F, S, w)
  PROVE  /\ F[{}] = 0
         /\ \A s \in SUBSET S : F[s] \in Nat
         /\ \A s \in SUBSET S : \A x \in s : F[s] = w[x] + F[s \ {x}]
<1> DEFINE Taken(s) == F[s] \in Nat /\ \A x \in s : F[s] = w[x] + F[s \ {x}]
           T == {n \in 0 .. Cardinality(S) :
                   \A s \in SUBSET S : Cardinality(s) <= n => Taken(s)}
<1>1. \A s \in SUBSET S :
        /\ Cardinality(s) \in 0 .. Cardinality(S) /\ (Cardinality(s) = 0 => s = {})
        /\ \A x \in s : Cardinality(s \ {x}) \in Nat /\ Cardinality(s \ {x}) + 1 = Cardinality(s)
  BY SubsetSizes
<1>2. Cardinality(S) \in Nat
  BY FS_CardinalityType
<1>3. F[{}] = 0
  BY DEF Sums
<1>4. 0 \in T
  <2>1. \A s \in SUBSET S : Cardinality(s) <= 0 => s = {}
    BY <1>1
  <2> QED
    BY <1>2, <1>3, <2>1
<1>5. ASSUME NEW n \in 0 .. Cardinality(S), n \in T, n + 1 <= Cardinality(S)
      PROVE  n + 1 \in T
  <2>1. ASSUME NEW s \in SUBSET S, Cardinality(s) <= n + 1, s # {} PROVE Taken(s)
    <3> DEFINE c == CHOOSE x \in s : TRUE
    <3>1. c \in s /\ F[s] = w[c] + F[s \ {c}]
      BY <2>1 DEF Sums
    <3> HIDE DEF c
    <3>2. ASSUME NEW x \in s PROVE s \ {x} \in SUBSET S /\ Cardinality(s \ {x}) <= n
      BY <1>1, <2>1
    <3>3. \A r \in SUBSET S : Cardinality(r) <= n =>
            F[r] \in Nat /\ \A x \in r : F[r] = w[x] + F[r \ {x}]
      BY <1>5
    <3>4. ASSUME NEW x \in s PROVE F[s] = w[x] + F[s \ {x}]
      <4>1. CASE x = c
        BY <3>1, <4>1
      <4>2. CASE x # c
        <5>1. F[s \ {c}] = w[x] + F[(s \ {c}) \ {x}]
          BY <3>1, <3>2, <3>3, <4>2
        <5>2. F[s \ {x}] = w[c] + F[(s \ {x}) \ {c}]
          BY <3>1, <3>2, <3>3, <4>2
        <5>3. (s \ {c}) \ {x} = (s \ {x}) \ {c}
          OBVIOUS
        <5>4. /\ (s \ {x}) \ {c} \in SUBSET S
              /\ Cardinality((s \ {x}) \ {c}) <= n
          <6>1. s \ {x} \in SUBSET S /\ c \in s \ {x} /\ Cardinality(s \ {x}) <= n
            BY <3>1, <3>2, <4>2
          <6>2. Cardinality((s \ {x}) \ {c}) + 1 = Cardinality(s \ {x})
                /\ Cardinality((s \ {x}) \ {c}) \in Nat
            BY <1>1, <6>1
          <6> QED
            BY <6>1, <6>2
        <5>5. PICK i \in Nat : i = F[(s \ {x}) \ {c}]
          BY <3>3, <5>4
        <5>6. PICK v \in Nat, d \in Nat : v = w[x] /\ d = w[c]
          BY <3>1
        <5>7. F[s \ {c}] = v + i /\ F[s \ {x}] = d + i
          BY <5>1, <5>2, <5>3, <5>5, <5>6
        <5>8. F[s] = d + (v + i)
          BY <3>1, <5>6, <5>7
        <5> QED
          BY <5>6, <5>7, <5>8
      <4> QED
        BY <4>1, <4>2
    <3>5. F[s] \in Nat
      <4>1. F[s \ {c}] \in Nat /\ w[c] \in Nat
        BY <3>1, <3>2, <3>3
      <4> QED
        BY <3>1, <4>1
    <3> QED
      BY <3>4, <3>5
  <2>2. Taken({})
    BY <1>3
  <2> HIDE DEF Taken
  <2>3. n + 1 \in 0 .. Cardinality(S)
    BY <1>5
  <2> QED
    BY <2>1, <2>2, <2>3
<1> HIDE DEF T
<1>6. 0 .. Cardinality(S) \subseteq T
  BY <1>2, <1>4, <1>5, UpTo
<1>7. \A s \in SUBSET S : Taken(s)
  <2> HIDE DEF Taken
  <2>1. Cardinality(S) \in T
    BY <1>2, <1>6
  <2> QED
    BY <1>1, <2>1 DEF T
<1> QED
  BY <1>3, <1>7
================================================================================
