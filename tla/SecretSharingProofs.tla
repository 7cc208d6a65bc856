------------------------ MODULE SecretSharingProofs ------------------------
(***************************************************************************)
(* Induction and recursion over finite sets and intervals, and what the    *)
(* folds of the community modules compute, all stated with sets and        *)
(* functions: a property is the set of what has it, and a step of a        *)
(* recursion is a function.                                                *)
(***************************************************************************)
EXTENDS SecretSharing, FiniteSetTheorems, TLAPS

(* Induction over the subsets of a finite set: T holds of a set when it     *)
(* holds of what is left after any one element is removed.                  *)
LEMMA SubsetInduction ==
  ASSUME NEW S, IsFiniteSet(S), NEW T,
         \A A \in SUBSET S : (\A x \in A : A \ {x} \in T) => A \in T
  PROVE  \A A \in SUBSET S : A \in T
<1> SUFFICES ASSUME NEW C \in SUBSET S, C \notin T PROVE FALSE
  OBVIOUS
<1> DEFINE Rest == (SUBSET S) \ T
           R == StrictSubsetOrdering(S)
<1>1. FiniteSubsetsOf(S) = SUBSET S
  BY FS_FiniteSubsetsOfFinite
<1>2. IsWellFoundedOn(R, SUBSET S)
  <2>1. IsWellFoundedOn(StrictSubsetOrdering(S), FiniteSubsetsOf(S))
    BY FS_StrictSubsetOrderingWellFounded
  <2> QED
    BY <1>1, <2>1
<1>3. Rest # {} /\ Rest \subseteq SUBSET S
  OBVIOUS
<1> HIDE DEF Rest, R
<1>4. PICK A \in Rest : \A B \in Rest : <<B, A>> \notin R
  BY <1>2, <1>3, WFMin
<1>5. A \in SUBSET S /\ A \notin T
  BY DEF Rest
<1>6. PICK x \in A : A \ {x} \notin T
  BY <1>5
<1>7. A \ {x} \in SUBSET S /\ A \ {x} \in Rest
  BY <1>5, <1>6 DEF Rest
<1>8. <<A \ {x}, A>> \in R
  BY <1>5, <1>6, <1>7 DEF R, StrictSubsetOrdering
<1> QED
  BY <1>4, <1>7, <1>8

(* The same for what is left after the one element that pick says.          *)
Picks(pick, S) == \A A \in (SUBSET S) \ {{}} : pick[A] \in A
Grows(T, S, pick) == \A A \in (SUBSET S) \ {{}} : A \ {pick[A]} \in T => A \in T

LEMMA RemovalInduction ==
  ASSUME NEW S, IsFiniteSet(S), NEW pick, Picks(pick, S),
         NEW T, {} \in T, Grows(T, S, pick)
  PROVE  \A A \in SUBSET S : A \in T
<1>1. ASSUME NEW A \in SUBSET S, \A x \in A : A \ {x} \in T PROVE A \in T
  <2>1. CASE A = {}
    BY <2>1
  <2>2. CASE A # {}
    BY <1>1, <2>2 DEF Picks, Grows
  <2> QED
    BY <2>1, <2>2
<1> QED
  BY <1>1, SubsetInduction

(* Induction over an interval.                                              *)
LEMMA IntervalInduction ==
  ASSUME NEW n \in Nat, NEW T, 0 \in T,
         \A k \in 0 .. n - 1 : k \in T => k + 1 \in T
  PROVE  \A k \in 0 .. n : k \in T
<1> SUFFICES ASSUME NEW j \in 0 .. n, j \notin T PROVE FALSE
  OBVIOUS
<1> DEFINE S == 1 .. n
           Rest == {A \in SUBSET S : \E k \in 0 .. n : k \notin T /\ A = 1 .. k}
           R == StrictSubsetOrdering(S)
<1>1. IsFiniteSet(S)
  BY FS_Interval
<1>2. IsWellFoundedOn(R, SUBSET S)
  <2>1. FiniteSubsetsOf(S) = SUBSET S
    BY <1>1, FS_FiniteSubsetsOfFinite
  <2> HIDE DEF S
  <2> QED
    BY <2>1, FS_StrictSubsetOrderingWellFounded
<1>3. Rest # {} /\ Rest \subseteq SUBSET S
  <2>1. 1 .. j \in Rest
    OBVIOUS
  <2> QED
    BY <2>1
<1> HIDE DEF Rest, R
<1>4. PICK A \in Rest : \A B \in Rest : <<B, A>> \notin R
  BY <1>2, <1>3, WFMin
<1>5. PICK k \in 0 .. n : k \notin T /\ A = 1 .. k
  BY DEF Rest
<1>6. k # 0
  BY <1>5
<1>7. k - 1 \in 0 .. n - 1 /\ k - 1 \notin T
  BY <1>5, <1>6
<1>8. 1 .. (k - 1) \in Rest
  BY <1>7 DEF Rest
<1>9. <<1 .. (k - 1), A>> \in R
  <2>1. 1 .. (k - 1) \subseteq A /\ k \in A /\ k \notin 1 .. (k - 1)
    BY <1>5, <1>6
  <2> QED
    BY <1>3, <1>8, <2>1 DEF R, StrictSubsetOrdering
<1> QED
  BY <1>4, <1>8, <1>9
-----------------------------------------------------------------------------
(* A recursion over an interval has a solution.                             *)
IteratesTo(f, n, base, step) ==
  \A k \in 0 .. n : f[k] = IF k = 0 THEN base ELSE step[f[k - 1]]

LEMMA IntervalRecursion ==
  ASSUME NEW n \in Nat, NEW V, NEW base \in V, NEW step \in [V -> V]
  PROVE  \E f \in [0 .. n -> V] : IteratesTo(f, n, base, step)
<1> DEFINE Solves(f, m) ==
             \A k \in 0 .. m : f[k] = IF k = 0 THEN base ELSE step[f[k - 1]]
           T == {m \in 0 .. n : \E f \in [0 .. m -> V] : Solves(f, m)}
<1>1. 0 \in T
  <2> DEFINE f == [k \in 0 .. 0 |-> base]
  <2>1. f \in [0 .. 0 -> V] /\ Solves(f, 0)
    OBVIOUS
  <2>2. \E h \in [0 .. 0 -> V] : Solves(h, 0)
    <3> HIDE DEF f, Solves
    <3> QED
      BY <2>1
  <2> QED
    BY <2>2
<1>2. ASSUME NEW m \in 0 .. n - 1, m \in T PROVE m + 1 \in T
  <2>1. PICK f \in [0 .. m -> V] : Solves(f, m)
    BY <1>2
  <2> DEFINE g == [k \in 0 .. m + 1 |-> IF k = 0 THEN base ELSE step[f[k - 1]]]
  <2>2. \A k \in 0 .. m + 1 : k # 0 => k - 1 \in 0 .. m
    OBVIOUS
  <2>3. g \in [0 .. m + 1 -> V]
    BY <2>2
  <2>4. \A k \in 0 .. m : g[k] = f[k]
    BY <2>1
  <2>5. Solves(g, m + 1)
    BY <2>2, <2>4
  <2>6. \E h \in [0 .. m + 1 -> V] : Solves(h, m + 1)
    <3> HIDE DEF g, Solves
    <3> QED
      BY <2>3, <2>5
  <2> QED
    BY <2>6
<1> HIDE DEF T
<1>3. n \in T
  BY <1>1, <1>2, IntervalInduction
<1>4. PICK f \in [0 .. n -> V] : Solves(f, n)
  BY <1>3 DEF T
<1>5. IteratesTo(f, n, base, step)
  BY <1>4 DEF IteratesTo
<1> QED
  BY <1>5

(* A recursion that removes one element of a finite set after the other has *)
(* a solution, whichever element is picked.                                 *)
FoldsTo(f, S, base, step, pick) ==
  \A A \in SUBSET S :
    f[A] = IF A = {} THEN base ELSE step[<<pick[A], f[A \ {pick[A]}]>>]

LEMMA SetRecursion ==
  ASSUME NEW S, IsFiniteSet(S), NEW V, NEW base \in V, NEW step \in [S \X V -> V],
         NEW pick, Picks(pick, S)
  PROVE  \E f \in [SUBSET S -> V] : FoldsTo(f, S, base, step, pick)
<1> DEFINE D(m) == {A \in SUBSET S : Cardinality(A) <= m}
           Solves(f, m) == \A A \in D(m) :
             f[A] = IF A = {} THEN base ELSE step[<<pick[A], f[A \ {pick[A]}]>>]
           T == {m \in 0 .. Cardinality(S) : \E f \in [D(m) -> V] : Solves(f, m)}
<1>1. /\ \A A \in SUBSET S : Cardinality(A) \in 0 .. Cardinality(S) /\ IsFiniteSet(A)
      /\ Cardinality(S) \in Nat
      /\ \A A \in SUBSET S : Cardinality(A) = 0 <=> A = {}
      /\ {} \in SUBSET S /\ Cardinality({}) = 0
  BY FS_Subset, FS_CardinalityType, FS_EmptySet
<1>2. ASSUME NEW m \in 0 .. Cardinality(S), NEW A \in D(m + 1), A # {}
      PROVE  pick[A] \in S /\ A \ {pick[A]} \in D(m)
  <2>1. A \in SUBSET S /\ pick[A] \in A /\ Cardinality(A) <= m + 1
    BY <1>2 DEF Picks
  <2>2. IsFiniteSet(A) /\ Cardinality(A) \in Nat
    BY <1>1, <2>1
  <2>3. PICK x \in A : x = pick[A]
    BY <2>1
  <2>4. Cardinality(A \ {x}) = Cardinality(A) - 1
    BY <2>2, FS_RemoveElement
  <2> QED
    BY <2>1, <2>2, <2>3, <2>4
<1>3. 0 \in T
  <2> DEFINE f == [A \in D(0) |-> base]
  <2>1. \A A \in D(0) : A = {}
    BY <1>1
  <2>2. f \in [D(0) -> V] /\ Solves(f, 0)
    BY <2>1
  <2>3. \E h \in [D(0) -> V] : Solves(h, 0)
    <3> HIDE DEF f, Solves, D
    <3> QED
      BY <2>2
  <2> QED
    BY <1>1, <2>3
<1>4. ASSUME NEW m \in 0 .. Cardinality(S) - 1, m \in T PROVE m + 1 \in T
  <2>1. PICK f \in [D(m) -> V] : Solves(f, m)
    BY <1>4
  <2> DEFINE g == [A \in D(m + 1) |->
                     IF A = {} THEN base ELSE step[<<pick[A], f[A \ {pick[A]}]>>]]
  <2>2. D(m) \subseteq D(m + 1) /\ m \in 0 .. Cardinality(S)
    BY <1>1
  <2>3. g \in [D(m + 1) -> V]
    <3> SUFFICES ASSUME NEW A \in D(m + 1), A # {}
                 PROVE  step[<<pick[A], f[A \ {pick[A]}]>>] \in V
      OBVIOUS
    <3>1. pick[A] \in S /\ A \ {pick[A]} \in D(m)
      BY <1>2, <2>2
    <3> HIDE DEF D
    <3> QED
      BY <2>1, <3>1
  <2>4. \A A \in D(m) : g[A] = f[A]
    <3> HIDE DEF D
    <3> QED
      BY <2>1, <2>2
  <2>5. Solves(g, m + 1)
    <3> SUFFICES ASSUME NEW A \in D(m + 1)
                 PROVE  g[A] = IF A = {} THEN base ELSE step[<<pick[A], g[A \ {pick[A]}]>>]
      OBVIOUS
    <3>1. A # {} => g[A \ {pick[A]}] = f[A \ {pick[A]}]
      BY <1>2, <2>2, <2>4
    <3> HIDE DEF D
    <3> QED
      BY <3>1
  <2>6. \E h \in [D(m + 1) -> V] : Solves(h, m + 1)
    <3> HIDE DEF g, Solves, D
    <3> QED
      BY <2>3, <2>5
  <2>7. m + 1 \in 0 .. Cardinality(S)
    BY <1>1
  <2> QED
    BY <2>6, <2>7
<1>5. D(Cardinality(S)) = SUBSET S
  BY <1>1
<1> HIDE DEF T
<1>6. Cardinality(S) \in T
  BY <1>1, <1>3, <1>4, IntervalInduction
<1>7. PICK f \in [D(Cardinality(S)) -> V] : Solves(f, Cardinality(S))
  BY <1>6 DEF T
<1>8. FoldsTo(f, S, base, step, pick)
  BY <1>5, <1>7 DEF FoldsTo
<1> QED
  BY <1>5, <1>8
-----------------------------------------------------------------------------
(* Remainders.                                                              *)
LEMMA ProductType ==
  ASSUME NEW a \in Int, NEW b \in Int
  PROVE  \E c \in Int : c = a * b
OBVIOUS

LEMMA ProductOrder ==
  ASSUME NEW a \in Int, NEW b \in Int, NEW c \in Int, NEW p, p = b * c, NEW q, q = a * b
  PROVE  a * p = c * q
OBVIOUS

LEMMA Division ==
  ASSUME NEW a \in Int, NEW m \in Nat, m > 0
  PROVE  a % m \in 0 .. m - 1 /\ a = m * (a \div m) + (a % m) /\ a \div m \in Int
OBVIOUS

LEMMA RemainderUnique ==
  ASSUME NEW m \in Nat, m > 0, NEW q \in Int, NEW r \in 0 .. m - 1
  PROVE  (m * q + r) % m = r
<1> PICK a \in Int : a = m * q + r
  OBVIOUS
<1> QED
  OBVIOUS

(* Adding a multiple of the modulus changes nothing.                        *)
LEMMA MultipleAdded ==
  ASSUME NEW m \in Nat, m > 0, NEW a \in Int, NEW q \in Int
  PROVE  (a + m * q) % m = a % m
<1> PICK p \in Int, r \in 0 .. m - 1 : a = m * p + r /\ r = a % m
  BY Division
<1>1. a + m * q = m * (p + q) + r
  OBVIOUS
<1>2. (m * (p + q) + r) % m = r
  BY RemainderUnique
<1> QED
  BY <1>1, <1>2

LEMMA SumRemainder ==
  ASSUME NEW m \in Nat, m > 0, NEW a \in Int, NEW b \in Int
  PROVE  (a + (b % m)) % m = (a + b) % m
<1> PICK q \in Int, r \in 0 .. m - 1 : b = m * q + r /\ r = b % m
  BY Division
<1> PICK c \in Int : c = a + r
  OBVIOUS
<1>1. a + b = c + m * q
  OBVIOUS
<1>2. (c + m * q) % m = c % m
  BY MultipleAdded
<1> QED
  BY <1>1, <1>2

LEMMA ProductRemainder ==
  ASSUME NEW m \in Nat, m > 0, NEW a \in Int, NEW b \in Int
  PROVE  (a * (b % m)) % m = (a * b) % m
<1> PICK q \in Int, r \in 0 .. m - 1 : b = m * q + r /\ r = b % m
  BY Division
<1>1. a * b = a * r + m * (a * q)
  OBVIOUS
<1>2. (a * r + m * (a * q)) % m = (a * r) % m
  BY MultipleAdded
<1> QED
  BY <1>1, <1>2

Congruent(a, b, m) == a % m = b % m

LEMMA AddedInEitherOrder ==
  ASSUME NEW a \in Int, NEW d \in Int, NEW b, NEW m, Congruent(b, d + a, m)
  PROVE  Congruent(a + d, b, m)
BY DEF Congruent

(* Sums and products of numbers that agree modulo m agree modulo m.         *)
LEMMA CongruentSum ==
  ASSUME NEW m \in Nat, m > 0, NEW a \in Int, NEW b \in Int, NEW c \in Int, NEW d \in Int,
         Congruent(a, b, m), Congruent(c, d, m)
  PROVE  Congruent(a + c, b + d, m)
<1> USE DEF Congruent
<1>1. PICK p \in Int, q \in Int : a = b + m * p /\ c = d + m * q
  <2> PICK r \in Int, s \in Int : a = m * r + (a % m) /\ b = m * s + (b % m)
    BY Division
  <2> PICK t \in Int, u \in Int : c = m * t + (c % m) /\ d = m * u + (d % m)
    BY Division
  <2>1. a = b + m * (r - s) /\ c = d + m * (t - u)
    OBVIOUS
  <2>2. r - s \in Int /\ t - u \in Int
    OBVIOUS
  <2> QED
    BY <2>1, <2>2
<1>2. PICK e \in Int : e = b + d
  OBVIOUS
<1>3. a + c = e + m * (p + q) /\ p + q \in Int
  BY <1>1, <1>2
<1>4. (e + m * (p + q)) % m = e % m
  BY <1>3, MultipleAdded, Zenon
<1> QED
  BY <1>2, <1>3, <1>4

LEMMA CongruentProduct ==
  ASSUME NEW m \in Nat, m > 0, NEW a \in Int, NEW b \in Int, NEW c \in Int, NEW d \in Int,
         Congruent(a, b, m), Congruent(c, d, m)
  PROVE  Congruent(a * c, b * d, m)
<1> USE DEF Congruent
<1>1. (a * (c % m)) % m = (a * c) % m /\ (a * (d % m)) % m = (a * d) % m
      /\ (d * (a % m)) % m = (d * a) % m /\ (d * (b % m)) % m = (d * b) % m
  BY ProductRemainder, Zenon
<1>2. d * a = a * d /\ d * b = b * d
  OBVIOUS
<1> QED
  BY <1>1, <1>2

(* A set of numbers has a least one.                                        *)
LEMMA LeastNumber ==
  ASSUME NEW T \in SUBSET Nat, NEW t \in T
  PROVE  \E x \in T : \A y \in T : x <= y
<1> SUFFICES ASSUME \A x \in T : \E y \in T : y < x PROVE FALSE
  OBVIOUS
<1> DEFINE Below == {k \in 0 .. t : \A y \in T : y > k}
<1>1. 0 \in Below
  OBVIOUS
<1>2. ASSUME NEW k \in 0 .. t - 1, k \in Below PROVE k + 1 \in Below
  <2>1. \A y \in T : y > k
    BY <1>2
  <2>2. k + 1 \notin T
    BY <2>1
  <2>3. \A y \in T : y > k + 1
    BY <2>1, <2>2
  <2> QED
    BY <2>3
<1> HIDE DEF Below
<1>3. \A k \in 0 .. t : k \in Below
  <2> t \in Nat
    OBVIOUS
  <2> QED
    BY <1>1, <1>2, IntervalInduction
<1>4. t \in Below
  BY <1>3
<1> QED
  BY <1>4 DEF Below

(* ModInverse finds what it looks for when the modulus is prime.            *)
LEMMA InverseExists ==
  ASSUME NEW m \in Nat, IsPrime(m), NEW a \in Int, a % m # 0
  PROVE  /\ ModInverse(a, m) \in 1 .. m - 1
         /\ (a * ModInverse(a, m)) % m = 1
<1> DEFINE T == {d \in 1 .. m - 1 : \E i \in Int : (a * i) % m = d}
<1>1. m > 1 /\ \A d \in 2 .. m - 1 : m % d # 0
  BY DEF IsPrime
<1>2. a % m \in T
  <2>1. a % m \in 1 .. m - 1
    BY <1>1, Division
  <2>2. (a * 1) % m = a % m
    OBVIOUS
  <2>3. \E i \in Int : (a * i) % m = a % m
    <3> WITNESS 1 \in Int
    <3> QED
      BY <2>2
  <2> QED
    BY <2>1, <2>3
<1>3. PICK d \in T : \A y \in T : d <= y
  <2>1. T \in SUBSET Nat
    OBVIOUS
  <2> HIDE DEF T
  <2> QED
    BY <1>2, <2>1, LeastNumber
<1>4. PICK i \in Int : (a * i) % m = d
  OBVIOUS
<1>5. d \in 1 .. m - 1
  OBVIOUS
<1> HIDE DEF T
<1>6. d = 1
  <2> SUFFICES ASSUME d \in 2 .. m - 1 PROVE FALSE
    BY <1>5
  <2>1. PICK q \in Int, r \in 0 .. d - 1 : m = d * q + r /\ r = m % d
    BY Division
  <2>2. r \in 1 .. m - 1 /\ r < d
    <3>1. r # 0
      BY <1>1, <2>1
    <3> QED
      BY <3>1
  <2>3. PICK e \in Int : a * i = m * e + d
    <3>1. (a * i) \in Int
      OBVIOUS
    <3>2. PICK b \in Int : b = a * i
      BY <3>1
    <3>3. b = m * (b \div m) + (b % m) /\ b \div m \in Int
      BY <1>1, Division
    <3> QED
      BY <1>4, <3>2, <3>3
  <2>4. PICK f \in Int : a * f = m * (0 - (q * e) - 1) + r
    <3>1. a * (0 - (q * i)) = 0 - (q * (a * i))
      OBVIOUS
    <3>2. q * (m * e + d) = m * (q * e) + d * q
      OBVIOUS
    <3>3. m * (0 - (q * e) - 1) = 0 - (m * (q * e)) - m
      OBVIOUS
    <3>4. a * (0 - (q * i)) = 0 - (m * (q * e)) - d * q
      BY <2>3, <3>1, <3>2
    <3>5. d * q = m - r
      BY <2>1
    <3>6. PICK f \in Int : f = 0 - (q * i)
      OBVIOUS
    <3>7. a * f = 0 - (m * (q * e)) - (m - r)
      BY <3>4, <3>5, <3>6
    <3>8. a * f = m * (0 - (q * e) - 1) + r
      BY <3>3, <3>7
    <3> QED
      BY <3>8
  <2>5. (a * f) % m = r
    <3>1. PICK g \in Int : g = 0 - (q * e) - 1
      OBVIOUS
    <3>2. a * f = m * g + r
      BY <2>4, <3>1
    <3>3. (m * g + r) % m = r
      BY <1>1, <2>2, RemainderUnique
    <3> QED
      BY <3>2, <3>3
  <2>6. r \in T
    BY <2>2, <2>5 DEF T
  <2> QED
    BY <1>3, <2>2, <2>6
<1>7. i % m \in 1 .. m - 1 /\ (a * (i % m)) % m = 1
  <2>1. PICK j \in 0 .. m - 1 : j = i % m
    BY <1>1, Division
  <2>2. (a * j) % m = (a * i) % m
    <3>1. m > 0
      BY <1>1
    <3>2. (a * (i % m)) % m = (a * i) % m
      BY <3>1, ProductRemainder, Zenon
    <3> QED
      BY <2>1, <3>2
  <2>3. (a * j) % m = 1
    BY <1>4, <1>6, <2>2
  <2>4. j # 0
    <3>1. (a * 0) % m = 0
      BY <1>1
    <3> QED
      BY <2>3, <3>1
  <2> QED
    BY <2>1, <2>3, <2>4
<1>8. \E j \in 1 .. m - 1 : (a * j) % m = 1
  BY <1>7
<1> QED
  BY <1>8 DEF ModInverse

(* A product is 0 modulo a prime only if a factor is, and a factor that is  *)
(* not can be cancelled.                                                    *)
LEMMA ZeroProduct ==
  ASSUME NEW m \in Nat, IsPrime(m), NEW a \in Int, NEW b \in Int, (a * b) % m = 0, a % m # 0
  PROVE  b % m = 0
<1>0. m > 0 /\ 1 % m = 1 /\ 0 % m = 0
  BY DEF IsPrime
<1>1. PICK i \in Int : i = ModInverse(a, m) /\ (a * i) % m = 1
  <2>1. ModInverse(a, m) \in Int
    BY InverseExists
  <2> QED
    BY <2>1, InverseExists
<1>2. PICK c \in Int, d \in Int : c = a * i /\ d = a * b
  OBVIOUS
<1>3. (b * (c % m)) % m = (b * c) % m /\ (i * (d % m)) % m = (i * d) % m
  BY <1>0, ProductRemainder, Zenon
<1>4. b * 1 = b /\ i * 0 = 0 /\ b * c = i * d
  BY <1>2
<1> QED
  BY <1>0, <1>1, <1>2, <1>3, <1>4

LEMMA CongruentCancel ==
  ASSUME NEW m \in Nat, IsPrime(m), NEW a \in Int, NEW b \in Int, NEW c \in Int,
         c % m # 0, Congruent(c * a, c * b, m)
  PROVE  Congruent(a, b, m)
<1>0. m > 0
  BY DEF IsPrime
<1>1. PICK p \in Int, q \in Int : p = c * a /\ q = c * b /\ p % m = q % m
  BY DEF Congruent
<1>2. PICK d \in Int : d = a - b
  OBVIOUS
<1>3. c * d = p - q
  BY <1>1, <1>2
<1>4. (p - q) % m = 0
  <2> PICK e \in Int : e = 0 - q
    OBVIOUS
  <2>1. (p + e) % m = (q + e) % m
    <3>1. Congruent(p, q, m) /\ Congruent(e, e, m)
      BY <1>1 DEF Congruent
    <3>2. Congruent(p + e, q + e, m)
      BY <1>0, <3>1, CongruentSum
    <3> QED
      BY <3>2 DEF Congruent
  <2>2. p + e = p - q /\ q + e = 0 /\ 0 % m = 0
    BY <1>0
  <2> QED
    BY <2>1, <2>2
<1>5. d % m = 0
  BY <1>3, <1>4, ZeroProduct
<1>6. PICK e \in Int : d = m * e
  <2>1. d = m * (d \div m) + (d % m) /\ d \div m \in Int
    BY <1>0, Division, Zenon
  <2> PICK e \in Int : e = d \div m
    BY <2>1
  <2>2. d = m * e + 0
    BY <1>5, <2>1
  <2> QED
    BY <1>0, <2>2
<1>7. a = b + m * e
  BY <1>2, <1>6
<1>8. (b + m * e) % m = b % m
  BY <1>0, MultipleAdded, Zenon
<1> QED
  BY <1>7, <1>8 DEF Congruent

LEMMA NotZeroProduct ==
  ASSUME NEW m \in Nat, IsPrime(m), NEW a \in Int, NEW b \in Int,
         a % m # 0, b % m # 0, NEW p, p = a * b
  PROVE  p % m # 0
BY ZeroProduct
-----------------------------------------------------------------------------
(* Sums over sets.  Which element a fold takes next is not known, but it is *)
(* the same in every fold.                                                  *)
AnyOf(A) == CHOOSE x \in A : TRUE

LEMMA AnyElement == ASSUME NEW A, A # {} PROVE AnyOf(A) \in A
<1> PICK x : x \in A
  OBVIOUS
<1> QED
  BY DEF AnyOf

(* What SumFunctionOnSet(f, S) is computed by.                              *)
SumsUp(it, f, S) ==
  /\ it \in [SUBSET S -> Int]
  /\ it[{}] = 0
  /\ \A A \in (SUBSET S) \ {{}} : it[A] = f[AnyOf(A)] + it[A \ {AnyOf(A)}]

PartialSums(f, S) ==
  CHOOSE g : g = [A \in SUBSET S |->
                    IF A = {} THEN 0 ELSE f[AnyOf(A)] + g[A \ {AnyOf(A)}]]

LEMMA SumRecursion ==
  ASSUME NEW S, IsFiniteSet(S), NEW f, \A i \in S : f[i] \in Int
  PROVE  SumsUp(PartialSums(f, S), f, S)
<1> DEFINE step == [p \in S \X Int |-> f[p[1]] + p[2]]
           pick == [A \in SUBSET S |-> AnyOf(A)]
           Body(g) == [A \in SUBSET S |->
                         IF A = {} THEN 0 ELSE f[AnyOf(A)] + g[A \ {AnyOf(A)}]]
           it == PartialSums(f, S)
<1>1. step \in [S \X Int -> Int]
  OBVIOUS
<1>2. \A A \in (SUBSET S) \ {{}} : pick[A] \in A /\ pick[A] = AnyOf(A) /\ pick[A] \in S
  BY AnyElement
<1>3. \A A \in (SUBSET S) \ {{}}, v \in Int : step[<<pick[A], v>>] = f[AnyOf(A)] + v
  BY <1>2
<1>4. Picks(pick, S)
  BY <1>2 DEF Picks
<1> HIDE DEF step, pick
<1>5. PICK g \in [SUBSET S -> Int] : FoldsTo(g, S, 0, step, pick)
  <2>1. 0 \in Int
    OBVIOUS
  <2> QED
    BY <1>1, <1>4, <2>1, SetRecursion
<1>6. g = Body(g)
  <2>1. \A A \in SUBSET S : A \ {pick[A]} \in SUBSET S
    OBVIOUS
  <2>2. \A A \in SUBSET S : g[A \ {pick[A]}] \in Int
    BY <2>1
  <2>3. \A A \in (SUBSET S) \ {{}} : g[A] = f[AnyOf(A)] + g[A \ {AnyOf(A)}]
    BY <1>2, <1>3, <1>5, <2>2 DEF FoldsTo
  <2>4. g[{}] = 0
    BY <1>5 DEF FoldsTo
  <2> QED
    BY <2>3, <2>4
<1>7. it = Body(it)
  <2>1. it = CHOOSE h : h = Body(h)
    BY DEF PartialSums
  <2> HIDE DEF Body, it
  <2> QED
    BY <1>6, <2>1
<1> HIDE DEF it
<1>8. /\ it[{}] = 0
      /\ \A A \in (SUBSET S) \ {{}} : it[A] = f[AnyOf(A)] + it[A \ {AnyOf(A)}]
      /\ DOMAIN it = SUBSET S
      /\ it = [A \in SUBSET S |-> it[A]]
  BY <1>7
<1>9. it \in [SUBSET S -> Int]
  <2> DEFINE T == {A \in SUBSET S : it[A] \in Int}
  <2>1. {} \in T
    BY <1>8
  <2>2. Grows(T, S, pick)
    <3> SUFFICES ASSUME NEW A \in (SUBSET S) \ {{}}, it[A \ {pick[A]}] \in Int
                 PROVE  it[A] \in Int
      BY DEF Grows
    <3>1. AnyOf(A) \in S /\ it[A \ {AnyOf(A)}] \in Int
      BY <1>2
    <3>2. it[A] = f[AnyOf(A)] + it[A \ {AnyOf(A)}]
      BY <1>8
    <3> QED
      BY <3>1, <3>2
  <2> HIDE DEF T
  <2>3. \A A \in SUBSET S : A \in T
    BY <1>4, <2>1, <2>2, RemovalInduction
  <2> QED
    BY <1>8, <2>3 DEF T
<1> QED
  BY <1>8, <1>9 DEF SumsUp, it

LEMMA AnyInduction ==
  ASSUME NEW S, IsFiniteSet(S), NEW T, {} \in T,
         \A A \in (SUBSET S) \ {{}} : A \ {AnyOf(A)} \in T => A \in T
  PROVE  \A A \in SUBSET S : A \in T
<1> DEFINE pick == [A \in SUBSET S |-> AnyOf(A)]
<1>1. Picks(pick, S)
  BY AnyElement DEF Picks
<1>2. Grows(T, S, pick)
  BY DEF Grows
<1> HIDE DEF pick
<1> QED
  BY <1>1, <1>2, RemovalInduction

LEMMA SumUnique ==
  ASSUME NEW S, IsFiniteSet(S), NEW f, NEW g, SumsUp(g, f, S),
         NEW h, SumsUp(h, f, S)
  PROVE  \A A \in SUBSET S : g[A] = h[A]
<1> DEFINE T == {A \in SUBSET S : g[A] = h[A]}
<1>1. {} \in T
  BY DEF SumsUp
<1>2. \A A \in (SUBSET S) \ {{}} : A \ {AnyOf(A)} \in T => A \in T
  BY DEF SumsUp
<1> HIDE DEF T
<1>3. \A A \in SUBSET S : A \in T
  BY <1>1, <1>2, AnyInduction
<1> QED
  BY <1>3 DEF T

(* A sum over a set is the element it takes first and the sum of the rest.  *)
LEMMA SumStep ==
  ASSUME NEW S, IsFiniteSet(S), NEW f, \A i \in S : f[i] \in Int
  PROVE  /\ SumFunctionOnSet(f, {}) = 0
         /\ \A A \in SUBSET S : SumFunctionOnSet(f, A) \in Int
         /\ \A A \in (SUBSET S) \ {{}} :
              SumFunctionOnSet(f, A)
                = f[AnyOf(A)] + SumFunctionOnSet(f, A \ {AnyOf(A)})
<1>1. PICK it : SumsUp(it, f, S)
  BY SumRecursion
<1>2. ASSUME NEW A \in SUBSET S PROVE SumFunctionOnSet(f, A) = it[A]
  <2>1. IsFiniteSet(A) /\ \A i \in A : f[i] \in Int
    BY FS_Subset
  <2> PICK g : g = PartialSums(f, A)
    OBVIOUS
  <2>2. SumsUp(g, f, A)
    BY <2>1, SumRecursion
  <2>3. SumFunctionOnSet(f, A) = g[A]
    BY DEF SumFunctionOnSet, FoldFunctionOnSet, MapThenFoldSet, AnyOf, PartialSums
  <2>4. SumsUp([B \in SUBSET A |-> it[B]], f, A)
    BY <1>1 DEF SumsUp
  <2>5. \A B \in SUBSET A : g[B] = [C \in SUBSET A |-> it[C]][B]
    <3> DEFINE r == [C \in SUBSET A |-> it[C]]
    <3> HIDE DEF r
    <3> QED
      BY <2>1, <2>2, <2>4, SumUnique DEF r
  <2> QED
    BY <2>3, <2>5
<1>3. {} \in SUBSET S /\ \A A \in SUBSET S : A \ {AnyOf(A)} \in SUBSET S
  OBVIOUS
<1> QED
  BY <1>1, <1>2, <1>3 DEF SumsUp

(* Sums whose elements agree modulo m agree modulo m.                       *)
LEMMA SumCongruent ==
  ASSUME NEW S, IsFiniteSet(S), NEW m \in Nat, m > 0,
         NEW f, \A i \in S : f[i] \in Int, NEW g, \A i \in S : g[i] \in Int,
         \A i \in S : f[i] % m = g[i] % m
  PROVE  SumFunctionOnSet(f, S) % m = SumFunctionOnSet(g, S) % m
<1> DEFINE T == {A \in SUBSET S :
                   SumFunctionOnSet(f, A) % m = SumFunctionOnSet(g, A) % m}
<1>1. {} \in T
  BY SumStep
<1>2. ASSUME NEW A \in (SUBSET S) \ {{}}, A \ {AnyOf(A)} \in T PROVE A \in T
  <2>1. PICK x \in S, B \in SUBSET S : x = AnyOf(A) /\ B = A \ {AnyOf(A)}
    BY AnyElement
  <2>2. PICK p \in Int, q \in Int :
          /\ p = SumFunctionOnSet(f, B) /\ q = SumFunctionOnSet(g, B)
          /\ SumFunctionOnSet(f, A) = f[x] + p
          /\ SumFunctionOnSet(g, A) = g[x] + q
    BY <2>1, SumStep
  <2>3. p % m = q % m
    BY <1>2, <2>1, <2>2
  <2>4. (f[x] + p) % m = (g[x] + q) % m
    <3> PICK u \in Int, v \in Int : u = f[x] /\ v = g[x] /\ u % m = v % m
      OBVIOUS
    <3>1. Congruent(u, v, m) /\ Congruent(p, q, m)
      BY <2>3 DEF Congruent
    <3>2. Congruent(u + p, v + q, m)
      BY <3>1, CongruentSum
    <3> QED
      BY <3>2 DEF Congruent
  <2> QED
    BY <2>2, <2>4
<1> HIDE DEF T
<1>3. \A A \in SUBSET S : A \in T
  BY <1>1, <1>2, AnyInduction
<1> QED
  BY <1>3 DEF T

LEMMA SumScaled ==
  ASSUME NEW S, IsFiniteSet(S), NEW c \in Int,
         NEW f, \A i \in S : f[i] \in Int, NEW g, \A i \in S : g[i] = c * f[i]
  PROVE  SumFunctionOnSet(g, S) = c * SumFunctionOnSet(f, S)
<1>0. \A i \in S : g[i] \in Int
  OBVIOUS
<1> DEFINE T == {A \in SUBSET S : SumFunctionOnSet(g, A) = c * SumFunctionOnSet(f, A)}
<1>1. {} \in T
  <2>1. c * 0 = 0
    OBVIOUS
  <2> QED
    BY <1>0, <2>1, SumStep
<1>2. ASSUME NEW A \in (SUBSET S) \ {{}}, A \ {AnyOf(A)} \in T PROVE A \in T
  <2>1. PICK x \in S, B \in SUBSET S : x = AnyOf(A) /\ B = A \ {AnyOf(A)}
    BY AnyElement
  <2>2. PICK p \in Int : p = SumFunctionOnSet(f, B) /\ SumFunctionOnSet(f, A) = f[x] + p
    <3>1. SumFunctionOnSet(f, B) \in Int
      BY SumStep, Zenon
    <3>2. \A C \in (SUBSET S) \ {{}} : SumFunctionOnSet(f, C)
            = f[AnyOf(C)] + SumFunctionOnSet(f, C \ {AnyOf(C)})
      BY SumStep, Zenon
    <3>3. SumFunctionOnSet(f, A) = f[x] + SumFunctionOnSet(f, B)
      BY <2>1, <3>2, Zenon
    <3> QED
      BY <3>1, <3>3
  <2>3. SumFunctionOnSet(g, A) = g[x] + c * p
    <3>1. SumFunctionOnSet(g, A) = g[x] + SumFunctionOnSet(g, B)
      BY <1>0, <2>1, SumStep
    <3> QED
      BY <1>2, <2>1, <2>2, <3>1
  <2>4. c * (f[x] + p) = c * f[x] + c * p
    OBVIOUS
  <2>5. g[x] = c * f[x]
    OBVIOUS
  <2> QED
    BY <2>2, <2>3, <2>4, <2>5
<1> HIDE DEF T
<1>3. \A A \in SUBSET S : A \in T
  BY <1>1, <1>2, AnyInduction
<1> QED
  BY <1>3 DEF T

LEMMA SumAdded ==
  ASSUME NEW S, IsFiniteSet(S),
         NEW f, \A i \in S : f[i] \in Int, NEW g, \A i \in S : g[i] \in Int,
         NEW h, \A i \in S : h[i] = f[i] + g[i]
  PROVE  SumFunctionOnSet(h, S) = SumFunctionOnSet(f, S) + SumFunctionOnSet(g, S)
<1>0. \A i \in S : h[i] \in Int
  OBVIOUS
<1> DEFINE T == {A \in SUBSET S : SumFunctionOnSet(h, A)
                                    = SumFunctionOnSet(f, A) + SumFunctionOnSet(g, A)}
<1>1. {} \in T
  BY <1>0, SumStep
<1>2. ASSUME NEW A \in (SUBSET S) \ {{}}, A \ {AnyOf(A)} \in T PROVE A \in T
  <2>1. PICK x \in S, B \in SUBSET S : x = AnyOf(A) /\ B = A \ {AnyOf(A)}
    BY AnyElement
  <2>2. PICK p \in Int, q \in Int :
          /\ p = SumFunctionOnSet(f, B) /\ q = SumFunctionOnSet(g, B)
          /\ SumFunctionOnSet(f, A) = f[x] + p
          /\ SumFunctionOnSet(g, A) = g[x] + q
    BY <2>1, SumStep
  <2>3. SumFunctionOnSet(h, B) = p + q
    BY <1>2, <2>1, <2>2
  <2>4. SumFunctionOnSet(h, A) = h[x] + SumFunctionOnSet(h, B)
    BY <1>0, <2>1, SumStep
  <2> QED
    BY <2>2, <2>3, <2>4
<1> HIDE DEF T
<1>3. \A A \in SUBSET S : A \in T
  BY <1>1, <1>2, AnyInduction
<1> QED
  BY <1>3 DEF T

(* The order of a sum does not matter: any element can be taken first.      *)
LEMMA SumRemove ==
  ASSUME NEW S, IsFiniteSet(S), NEW f, \A i \in S : f[i] \in Int, NEW x \in S
  PROVE  SumFunctionOnSet(f, S) = f[x] + SumFunctionOnSet(f, S \ {x})
<1> DEFINE T == {A \in SUBSET S : \A y \in A :
                   SumFunctionOnSet(f, A) = f[y] + SumFunctionOnSet(f, A \ {y})}
<1>1. ASSUME NEW A \in SUBSET S, \A z \in A : A \ {z} \in T PROVE A \in T
  <2> SUFFICES ASSUME NEW y \in A
               PROVE  SumFunctionOnSet(f, A) = f[y] + SumFunctionOnSet(f, A \ {y})
    OBVIOUS
  <2>1. PICK a \in A : a = AnyOf(A)
    BY AnyElement
  <2>2. SumFunctionOnSet(f, A) = f[a] + SumFunctionOnSet(f, A \ {a})
    BY <2>1, SumStep
  <2>3. CASE a = y
    BY <2>2, <2>3
  <2>4. CASE a # y
    <3>1. PICK B \in SUBSET S : B = (A \ {a}) \ {y} /\ B = (A \ {y}) \ {a}
      OBVIOUS
    <3>2. SumFunctionOnSet(f, A \ {a}) = f[y] + SumFunctionOnSet(f, B)
      BY <1>1, <2>4, <3>1
    <3>3. SumFunctionOnSet(f, A \ {y}) = f[a] + SumFunctionOnSet(f, B)
      BY <1>1, <2>4, <3>1
    <3>4. f[a] \in Int /\ f[y] \in Int /\ SumFunctionOnSet(f, B) \in Int
      BY SumStep
    <3> QED
      BY <2>2, <3>2, <3>3, <3>4
  <2> QED
    BY <2>3, <2>4
<1> HIDE DEF T
<1>2. \A A \in SUBSET S : A \in T
  BY <1>1, SubsetInduction
<1> QED
  BY <1>2 DEF T
-----------------------------------------------------------------------------
(* Polynomials.                                                             *)
LEMMA LeastOfSet ==
  ASSUME NEW A \in SUBSET Nat, A # {}
  PROVE  Min(A) \in A /\ \A y \in A : Min(A) <= y
<1> PICK t \in A : TRUE
  OBVIOUS
<1>1. \E x \in A : \A y \in A : x <= y
  BY LeastNumber
<1> QED
  BY <1>1 DEF Min

(* Horner's method goes through values[n], the last coefficient, down to    *)
(* values[1].                                                               *)
HornerValues(values, c, x, m) ==
  /\ values \in [1 .. Len(c) -> Int]
  /\ values[Len(c)] = c[Len(c)]
  /\ \A k \in 1 .. Len(c) - 1 : values[k] = (values[k + 1] * x + c[k]) % m

LEMMA Horner ==
  ASSUME NEW c \in Seq(Int), c # <<>>, NEW x \in Int, NEW m \in Nat, m > 0
  PROVE  \E values : /\ HornerValues(values, c, x, m)
                     /\ EvaluatePolynomial(c, x, m) = values[1]
<1> DEFINE n == Len(c)
           S == 1 .. n - 1
           step == [p \in S \X Int |-> (p[2] * x + c[p[1]]) % m]
           pick == [A \in SUBSET S |-> Min(A)]
           Body(g) == [A \in SUBSET S |->
             IF A = {} THEN Last(c)
                       ELSE (g[A \ {Min(A)}] * x + Front(c)[Min(A)]) % m]
           it == CHOOSE g : g = Body(g)
<1>1. n \in Nat /\ n > 0 /\ \A i \in 1 .. n : c[i] \in Int
  OBVIOUS
<1>2. IsFiniteSet(S) /\ S \in SUBSET Nat /\ \A i \in S : i \in 1 .. n
  <2>1. n - 1 \in Int
    BY <1>1
  <2>2. IsFiniteSet(S)
    BY <2>1, FS_Interval
  <2> QED
    BY <1>1, <2>2
<1>3. step \in [S \X Int -> Int]
  <2>1. \A i \in S, v \in Int : v * x + c[i] \in Int
    BY <1>1, <1>2
  <2>2. \A i \in S, v \in Int : (v * x + c[i]) % m \in Int
    <3> SUFFICES ASSUME NEW i \in S, NEW v \in Int PROVE (v * x + c[i]) % m \in Int
      OBVIOUS
    <3> PICK w \in Int : w = v * x + c[i]
      BY <2>1
    <3>1. w % m \in Int
      BY Division
    <3> QED
      BY <3>1
  <2> QED
    BY <2>2
<1>4. \A A \in (SUBSET S) \ {{}} : pick[A] \in A /\ pick[A] = Min(A) /\ Min(A) \in S
  BY <1>2, LeastOfSet
<1>5. Picks(pick, S)
  BY <1>4 DEF Picks
<1>6. \A A \in (SUBSET S) \ {{}}, v \in Int :
        step[<<pick[A], v>>] = (v * x + c[Min(A)]) % m
  BY <1>4
<1> HIDE DEF step, pick
<1>7. PICK g \in [SUBSET S -> Int] : FoldsTo(g, S, c[n], step, pick)
  <2>1. c[n] \in Int
    BY <1>1
  <2> HIDE DEF n, S
  <2> QED
    BY <1>2, <1>3, <1>5, <2>1, SetRecursion
<1>8. Last(c) = c[n] /\ DOMAIN Front(c) = S /\ \A i \in S : Front(c)[i] = c[i]
  BY <1>1 DEF Last, Front
<1>9. g = Body(g)
  <2> HIDE DEF S
  <2>1. \A A \in SUBSET S : A \ {pick[A]} \in SUBSET S
    OBVIOUS
  <2>2. \A A \in SUBSET S : g[A \ {pick[A]}] \in Int
    BY <2>1
  <2>3. \A A \in (SUBSET S) \ {{}} :
          g[A] = (g[A \ {Min(A)}] * x + Front(c)[Min(A)]) % m
    <3> SUFFICES ASSUME NEW A \in (SUBSET S) \ {{}}
                 PROVE  g[A] = (g[A \ {Min(A)}] * x + Front(c)[Min(A)]) % m
      OBVIOUS
    <3>1. g[A] = step[<<pick[A], g[A \ {pick[A]}]>>]
      BY <1>7 DEF FoldsTo
    <3> PICK v \in Int : v = g[A \ {pick[A]}]
      BY <2>2
    <3>2. step[<<pick[A], v>>] = (v * x + c[Min(A)]) % m
      BY <1>6
    <3>3. pick[A] = Min(A) /\ Front(c)[Min(A)] = c[Min(A)]
      BY <1>4, <1>8
    <3> QED
      BY <3>1, <3>2, <3>3
  <2>4. g[{}] = Last(c)
    BY <1>7, <1>8 DEF FoldsTo
  <2> QED
    BY <2>3, <2>4
<1>10. it = Body(it)
  <2> HIDE DEF Body
  <2> QED
    BY <1>9
<1>11. EvaluatePolynomial(c, x, m) = it[S]
  BY <1>8 DEF EvaluatePolynomial, FoldRight, MapThenFoldSet
<1> HIDE DEF it
<1>12. /\ it[{}] = c[n]
       /\ \A A \in (SUBSET S) \ {{}} : it[A] = (it[A \ {Min(A)}] * x + c[Min(A)]) % m
  <2> HIDE DEF S
  <2>1. it[{}] = c[n]
    BY <1>8, <1>10
  <2>2. ASSUME NEW A \in (SUBSET S) \ {{}}
        PROVE  it[A] = (it[A \ {Min(A)}] * x + c[Min(A)]) % m
    <3>1. it[A] = (it[A \ {Min(A)}] * x + Front(c)[Min(A)]) % m
      BY <1>10
    <3>2. Front(c)[Min(A)] = c[Min(A)]
      BY <1>4, <1>8
    <3> QED
      BY <3>1, <3>2
  <2> QED
    BY <2>1, <2>2
<1>13. \A A \in SUBSET S : it[A] \in Int
  <2> DEFINE T == {A \in SUBSET S : it[A] \in Int}
  <2>1. {} \in T
    BY <1>1, <1>12
  <2>2. Grows(T, S, pick)
    <3> SUFFICES ASSUME NEW A \in (SUBSET S) \ {{}}, it[A \ {Min(A)}] \in Int
                 PROVE  it[A] \in Int
      BY <1>4 DEF Grows
    <3>1. c[Min(A)] \in Int
      BY <1>1, <1>2, <1>4
    <3> PICK w \in Int : w = it[A \ {Min(A)}] * x + c[Min(A)]
      BY <3>1
    <3>2. it[A] = w % m
      BY <1>12
    <3>3. w % m \in Int
      BY Division
    <3> QED
      BY <3>2, <3>3
  <2> HIDE DEF T, S
  <2>3. \A A \in SUBSET S : A \in T
    BY <1>2, <1>5, <2>1, <2>2, RemovalInduction
  <2> QED
    BY <2>3 DEF T
<1> DEFINE values == [k \in 1 .. n |-> it[k .. n - 1]]
<1>14. \A k \in 1 .. n : k .. n - 1 \in SUBSET S
  BY <1>1
<1>15. values \in [1 .. n -> Int]
  BY <1>13, <1>14
<1>16. values[n] = c[n] /\ values[1] = it[S]
  <2>1. n .. n - 1 = {} /\ n \in 1 .. n /\ 1 \in 1 .. n
    BY <1>1
  <2> QED
    BY <1>12, <2>1
<1>17. ASSUME NEW k \in 1 .. n - 1
       PROVE  values[k] = (values[k + 1] * x + c[k]) % m
  <2>1. k \in k .. n - 1 /\ k + 1 \in 1 .. n /\ k \in 1 .. n
    BY <1>1
  <2>2. Min(k .. n - 1) = k
    <3> DEFINE K == k .. n - 1
    <3>1. k \in K /\ \A i \in K : i \in Nat /\ k <= i
      BY <1>1, <2>1
    <3>2. K \in SUBSET Nat /\ K # {}
      BY <3>1
    <3> HIDE DEF K
    <3>3. Min(K) \in K /\ Min(K) <= k
      BY <3>1, <3>2, LeastOfSet
    <3>4. Min(K) \in Nat /\ k \in Nat /\ k <= Min(K)
      BY <3>1, <3>3
    <3>5. Min(K) = k
      BY <3>3, <3>4
    <3> QED
      BY <3>5 DEF K
  <2>3. (k .. n - 1) \ {k} = (k + 1) .. n - 1
    BY <1>1
  <2>4. k .. n - 1 \in (SUBSET S) \ {{}}
    BY <1>14, <2>1
  <2>5. it[k .. n - 1] = (it[(k + 1) .. n - 1] * x + c[k]) % m
    BY <1>12, <2>2, <2>3, <2>4
  <2> QED
    BY <2>1, <2>5
<1> HIDE DEF values
<1>18. HornerValues(values, c, x, m)
  BY <1>15, <1>16, <1>17 DEF HornerValues
<1> QED
  BY <1>11, <1>16, <1>18
-----------------------------------------------------------------------------
(* Products over sets, reduced at every factor.                             *)
ProductOver(f, A, m) == FoldFunctionOnSet(LAMBDA a, b : (a * b) % m, 1, f, A)

MultipliesUp(it, f, S, m) ==
  /\ it \in [SUBSET S -> Int]
  /\ it[{}] = 1
  /\ \A A \in (SUBSET S) \ {{}} : it[A] = (f[AnyOf(A)] * it[A \ {AnyOf(A)}]) % m

ProductFold(f, S, m) ==
  CHOOSE g : g = [A \in SUBSET S |->
                    IF A = {} THEN 1 ELSE (f[AnyOf(A)] * g[A \ {AnyOf(A)}]) % m]

LEMMA ProductRecursion ==
  ASSUME NEW S, IsFiniteSet(S), NEW m \in Nat, m > 0, NEW f, \A i \in S : f[i] \in Int
  PROVE  MultipliesUp(ProductFold(f, S, m), f, S, m)
<1> DEFINE step == [p \in S \X Int |-> (f[p[1]] * p[2]) % m]
           pick == [A \in SUBSET S |-> AnyOf(A)]
           Body(g) == [A \in SUBSET S |->
                         IF A = {} THEN 1 ELSE (f[AnyOf(A)] * g[A \ {AnyOf(A)}]) % m]
           it == ProductFold(f, S, m)
<1>1. \A x \in S, v \in Int : (f[x] * v) % m \in Int
  <2> SUFFICES ASSUME NEW x \in S, NEW v \in Int PROVE (f[x] * v) % m \in Int
    OBVIOUS
  <2> PICK w \in Int : w = f[x] * v
    OBVIOUS
  <2>1. w % m \in Int
    BY Division
  <2> QED
    BY <2>1
<1>2. step \in [S \X Int -> Int]
  BY <1>1
<1>3. \A A \in (SUBSET S) \ {{}} : pick[A] \in A /\ pick[A] = AnyOf(A) /\ pick[A] \in S
  BY AnyElement
<1>4. \A A \in (SUBSET S) \ {{}}, v \in Int : step[<<pick[A], v>>] = (f[AnyOf(A)] * v) % m
  BY <1>3
<1>5. Picks(pick, S)
  BY <1>3 DEF Picks
<1> HIDE DEF step, pick
<1>6. PICK g \in [SUBSET S -> Int] : FoldsTo(g, S, 1, step, pick)
  <2>1. 1 \in Int
    OBVIOUS
  <2> QED
    BY <1>2, <1>5, <2>1, SetRecursion
<1>7. g = Body(g)
  <2>1. \A A \in SUBSET S : A \ {pick[A]} \in SUBSET S
    OBVIOUS
  <2>2. \A A \in SUBSET S : g[A \ {pick[A]}] \in Int
    BY <2>1
  <2>3. \A A \in (SUBSET S) \ {{}} : g[A] = (f[AnyOf(A)] * g[A \ {AnyOf(A)}]) % m
    <3> SUFFICES ASSUME NEW A \in (SUBSET S) \ {{}}
                 PROVE  g[A] = (f[AnyOf(A)] * g[A \ {AnyOf(A)}]) % m
      OBVIOUS
    <3>1. g[A] = step[<<pick[A], g[A \ {pick[A]}]>>]
      BY <1>6 DEF FoldsTo
    <3> PICK v \in Int : v = g[A \ {pick[A]}]
      BY <2>2
    <3>2. step[<<pick[A], v>>] = (f[AnyOf(A)] * v) % m /\ pick[A] = AnyOf(A)
      BY <1>3, <1>4
    <3> QED
      BY <3>1, <3>2
  <2>4. g[{}] = 1
    BY <1>6 DEF FoldsTo
  <2> QED
    BY <2>3, <2>4
<1>8. it = Body(it)
  <2>1. it = CHOOSE h : h = Body(h)
    BY DEF ProductFold
  <2> HIDE DEF Body, it
  <2> QED
    BY <1>7, <2>1
<1> HIDE DEF it
<1>9. /\ it[{}] = 1
      /\ \A A \in (SUBSET S) \ {{}} : it[A] = (f[AnyOf(A)] * it[A \ {AnyOf(A)}]) % m
      /\ DOMAIN it = SUBSET S
      /\ it = [A \in SUBSET S |-> it[A]]
  BY <1>8
<1>10. it \in [SUBSET S -> Int]
  <2> DEFINE T == {A \in SUBSET S : it[A] \in Int}
  <2>1. {} \in T
    BY <1>9
  <2>2. Grows(T, S, pick)
    <3> SUFFICES ASSUME NEW A \in (SUBSET S) \ {{}}, it[A \ {pick[A]}] \in Int
                 PROVE  it[A] \in Int
      BY DEF Grows
    <3>1. AnyOf(A) \in S /\ it[A \ {AnyOf(A)}] \in Int
      BY <1>3
    <3>2. it[A] = (f[AnyOf(A)] * it[A \ {AnyOf(A)}]) % m
      BY <1>9
    <3> QED
      BY <1>1, <3>1, <3>2
  <2> HIDE DEF T
  <2>3. \A A \in SUBSET S : A \in T
    BY <1>5, <2>1, <2>2, RemovalInduction
  <2> QED
    BY <1>9, <2>3 DEF T
<1>11. MultipliesUp(it, f, S, m)
  BY <1>9, <1>10 DEF MultipliesUp
<1> QED
  BY <1>11 DEF it

(* The same factors have the same product.                                  *)
LEMMA ProductUnique ==
  ASSUME NEW S, IsFiniteSet(S), NEW m \in Nat,
         NEW f, NEW e, \A i \in S : f[i] = e[i],
         NEW g, MultipliesUp(g, f, S, m), NEW h, MultipliesUp(h, e, S, m)
  PROVE  \A A \in SUBSET S : g[A] = h[A]
<1> DEFINE T == {A \in SUBSET S : g[A] = h[A]}
<1>1. {} \in T
  BY DEF MultipliesUp
<1>2. ASSUME NEW A \in (SUBSET S) \ {{}}, A \ {AnyOf(A)} \in T PROVE A \in T
  <2>1. AnyOf(A) \in S
    BY AnyElement
  <2> QED
    BY <1>2, <2>1 DEF MultipliesUp
<1> HIDE DEF T
<1>3. \A A \in SUBSET S : A \in T
  BY <1>1, <1>2, AnyInduction
<1> QED
  BY <1>3 DEF T

Times(a, b, m) == (a * b) % m

LEMMA ProductStep ==
  ASSUME NEW S, IsFiniteSet(S), NEW m \in Nat, m > 0, NEW f, \A i \in S : f[i] \in Int
  PROVE  /\ ProductOver(f, {}, m) = 1
         /\ \A A \in SUBSET S : ProductOver(f, A, m) \in Int
         /\ \A A \in (SUBSET S) \ {{}} :
              ProductOver(f, A, m)
                = Times(f[AnyOf(A)], ProductOver(f, A \ {AnyOf(A)}, m), m)
<1>1. PICK it : MultipliesUp(it, f, S, m)
  BY ProductRecursion
<1>2. ASSUME NEW A \in SUBSET S PROVE ProductOver(f, A, m) = it[A]
  <2>1. IsFiniteSet(A) /\ \A i \in A : f[i] \in Int
    BY FS_Subset
  <2>2. PICK g : MultipliesUp(g, f, A, m) /\ g = ProductFold(f, A, m)
    BY <2>1, ProductRecursion
  <2>3. ProductOver(f, A, m) = g[A]
    BY <2>2 DEF ProductOver, FoldFunctionOnSet, MapThenFoldSet, AnyOf, ProductFold
  <2> DEFINE r == [B \in SUBSET A |-> it[B]]
  <2>4. MultipliesUp(r, f, A, m)
    BY <1>1 DEF MultipliesUp
  <2>5. \A B \in SUBSET A : g[B] = r[B]
    <3> HIDE DEF r
    <3> QED
      BY <2>1, <2>2, <2>4, ProductUnique
  <2> QED
    BY <2>3, <2>5
<1>3. {} \in SUBSET S /\ \A A \in SUBSET S : A \ {AnyOf(A)} \in SUBSET S
  OBVIOUS
<1> QED
  BY <1>1, <1>2, <1>3 DEF MultipliesUp, Times

LEMMA ProductSame ==
  ASSUME NEW S, IsFiniteSet(S), NEW m \in Nat, m > 0,
         NEW f, \A i \in S : f[i] \in Int, NEW e, \A i \in S : f[i] = e[i]
  PROVE  ProductOver(f, S, m) = ProductOver(e, S, m)
<1> DEFINE T == {A \in SUBSET S : ProductOver(f, A, m) = ProductOver(e, A, m)}
<1>0. \A i \in S : e[i] \in Int
  OBVIOUS
<1>1. {} \in T
  BY <1>0, ProductStep
<1>2. ASSUME NEW A \in (SUBSET S) \ {{}}, A \ {AnyOf(A)} \in T PROVE A \in T
  <2>1. ProductOver(f, A, m) = Times(f[AnyOf(A)], ProductOver(f, A \ {AnyOf(A)}, m), m)
    BY ProductStep
  <2>2. ProductOver(e, A, m) = Times(e[AnyOf(A)], ProductOver(e, A \ {AnyOf(A)}, m), m)
    BY <1>0, ProductStep
  <2>3. f[AnyOf(A)] = e[AnyOf(A)]
    BY AnyElement
  <2> QED
    BY <1>2, <2>1, <2>2, <2>3
<1> HIDE DEF T
<1>3. \A A \in SUBSET S : A \in T
  BY <1>1, <1>2, AnyInduction
<1> QED
  BY <1>3 DEF T

LEMMA CongruentRemainder ==
  ASSUME NEW m \in Nat, m > 0, NEW a \in Int
  PROVE  a % m \in Int /\ Congruent(a % m, a, m)
<1> PICK q \in Int, r \in 0 .. m - 1 : a = m * q + r /\ r = a % m
  BY Division
<1>1. r = m * 0 + r /\ (m * 0 + r) % m = r
  BY RemainderUnique
<1> QED
  BY <1>1 DEF Congruent

LEMMA ProductRemove ==
  ASSUME NEW S, IsFiniteSet(S), NEW m \in Nat, m > 0, NEW f, \A i \in S : f[i] \in Int,
         NEW x \in S
  PROVE  Congruent(ProductOver(f, S, m), f[x] * ProductOver(f, S \ {x}, m), m)
<1> DEFINE T == {A \in SUBSET S : \A y \in A :
                   Congruent(ProductOver(f, A, m), f[y] * ProductOver(f, A \ {y}, m), m)}
<1>1. ASSUME NEW A \in SUBSET S, \A z \in A : A \ {z} \in T PROVE A \in T
  <2> SUFFICES ASSUME NEW y \in A
               PROVE  Congruent(ProductOver(f, A, m), f[y] * ProductOver(f, A \ {y}, m), m)
    OBVIOUS
  <2>1. PICK a \in A : a = AnyOf(A)
    BY AnyElement
  <2>2. PICK p \in Int, u \in Int, v \in Int :
          /\ u = f[a] /\ v = f[y] /\ p = ProductOver(f, A \ {a}, m)
    BY ProductStep
  <2>3. PICK w \in Int : w = u * p
    OBVIOUS
  <2>4. ProductOver(f, A, m) = w % m
    <3>1. ProductOver(f, A, m) = Times(u, p, m)
      BY <2>1, <2>2, ProductStep
    <3> QED
      BY <2>3, <3>1 DEF Times
  <2>5. ProductOver(f, A, m) \in Int /\ Congruent(ProductOver(f, A, m), w, m)
    BY <2>4, CongruentRemainder
  <2>6. CASE a = y
    BY <2>2, <2>3, <2>5, <2>6
  <2>7. CASE a # y
    <3>1. PICK B \in SUBSET S : B = (A \ {a}) \ {y} /\ B = (A \ {y}) \ {a}
      OBVIOUS
    <3>2. PICK q \in Int, b \in Int : q = ProductOver(f, A \ {y}, m) /\ b = ProductOver(f, B, m)
      BY ProductStep
    <3>3. Congruent(p, v * b, m)
      BY <1>1, <2>2, <2>7, <3>1, <3>2
    <3>4. Congruent(q, u * b, m)
      BY <1>1, <2>2, <2>7, <3>1, <3>2
    <3>5. PICK c \in Int, d \in Int : c = v * b /\ d = u * b
      OBVIOUS
    <3>6. Congruent(u * p, u * c, m) /\ Congruent(v * q, v * d, m)
      <4>1. Congruent(u, u, m) /\ Congruent(v, v, m)
        BY DEF Congruent
      <4> QED
        BY <3>3, <3>4, <3>5, <4>1, CongruentProduct
    <3>7. u * c = v * d
      BY <3>5
    <3>8. Congruent(ProductOver(f, A, m), v * q, m)
      BY <2>3, <2>5, <3>6, <3>7 DEF Congruent
    <3> QED
      BY <2>2, <3>2, <3>8
  <2> QED
    BY <2>6, <2>7
<1> HIDE DEF T
<1>2. \A A \in SUBSET S : A \in T
  BY <1>1, SubsetInduction
<1> QED
  BY <1>2 DEF T

(* A product modulo a prime is not 0 if no factor is.                       *)
LEMMA ProductNotZero ==
  ASSUME NEW S, IsFiniteSet(S), NEW m \in Nat, IsPrime(m),
         NEW f, \A i \in S : f[i] \in Int /\ f[i] % m # 0
  PROVE  ProductOver(f, S, m) % m # 0
<1> DEFINE T == {A \in SUBSET S : ProductOver(f, A, m) % m # 0}
<1>0. m > 1 /\ m > 0 /\ 1 % m # 0
  BY DEF IsPrime
<1>1. {} \in T
  BY <1>0, ProductStep
<1>2. ASSUME NEW A \in (SUBSET S) \ {{}}, A \ {AnyOf(A)} \in T PROVE A \in T
  <2>1. PICK x \in S, B \in SUBSET S : x = AnyOf(A) /\ B = A \ {AnyOf(A)}
    BY AnyElement
  <2>2. PICK u \in Int, p \in Int : u = f[x] /\ p = ProductOver(f, B, m)
    BY <1>0, ProductStep
  <2>3. PICK w \in Int : w = u * p
    OBVIOUS
  <2>4. ProductOver(f, A, m) = w % m
    <3>1. ProductOver(f, A, m) = Times(u, p, m)
      BY <1>0, <2>1, <2>2, ProductStep
    <3> QED
      BY <2>3, <3>1 DEF Times
  <2>5. w % m # 0
    <3>1. u % m # 0 /\ p % m # 0
      BY <1>2, <2>1, <2>2
    <3> QED
      BY <2>3, <3>1, ZeroProduct
  <2>6. (w % m) % m = w % m
    BY <1>0, CongruentRemainder DEF Congruent
  <2> QED
    BY <2>4, <2>5, <2>6
<1> HIDE DEF T
<1>3. \A A \in SUBSET S : A \in T
  BY <1>1, <1>2, AnyInduction
<1> QED
  BY <1>3 DEF T
-----------------------------------------------------------------------------
(* Interpolation at 0 of the points <<X[i], y[i]>>, i \in A.                *)
Weight(X, A, i, m) ==
  LET others == A \ {i}
  IN (ProductOver([j \in others |-> 0 - X[j]], others, m)
        * ModInverse(ProductOver([j \in others |-> X[i] - X[j]], others, m), m)) % m

Interpolation(X, A, y, m) == SumFunctionOnSet([i \in A |-> y[i] * Weight(X, A, i, m)], A)

(* Abscissas that differ modulo a prime.                                    *)
Abscissas(X, S, m) ==
  /\ IsFiniteSet(S)
  /\ m \in Nat /\ IsPrime(m)
  /\ \A i \in S : X[i] \in Int
  /\ \A i, j \in S : i # j => (X[i] - X[j]) % m # 0

LEMMA CongruentChain ==
  ASSUME NEW m, NEW a, NEW b, NEW c, Congruent(a, b, m), Congruent(b, c, m)
  PROVE  Congruent(a, c, m)
BY DEF Congruent

LEMMA CongruentScaled ==
  ASSUME NEW m \in Nat, m > 0, NEW a \in Int, NEW b \in Int, NEW c \in Int, Congruent(a, b, m)
  PROVE  Congruent(c * a, c * b, m) /\ Congruent(b, a, m)
<1>1. Congruent(c, c, m)
  BY DEF Congruent
<1>2. Congruent(c * a, c * b, m)
  BY <1>1, CongruentProduct
<1> QED
  BY <1>2 DEF Congruent

LEMMA PrimeModulus == ASSUME NEW m \in Nat, IsPrime(m) PROVE m > 1 /\ m > 0
BY DEF IsPrime

(* The numerator and the denominator a weight is made of.                   *)
LEMMA WeightParts ==
  ASSUME NEW S, NEW X, NEW m, Abscissas(X, S, m), NEW A \in SUBSET S, NEW i \in A
  PROVE  \E F, G :
           /\ \A j \in S : F[j] = 0 - X[j] /\ F[j] \in Int
           /\ \A j \in S : G[j] = X[i] - X[j] /\ G[j] \in Int
           /\ \A B \in SUBSET A : i \in B =>
                /\ Weight(X, B, i, m) \in Int
                /\ ProductOver(F, B \ {i}, m) \in Int
                /\ ProductOver(G, B \ {i}, m) \in Int
                /\ ProductOver(G, B \ {i}, m) % m # 0
                /\ Congruent(ProductOver(G, B \ {i}, m) * Weight(X, B, i, m),
                             ProductOver(F, B \ {i}, m), m)
<1> DEFINE F == [j \in S |-> 0 - X[j]]
           G == [j \in S |-> X[i] - X[j]]
<1>1. m \in Nat /\ m > 1 /\ m > 0 /\ IsPrime(m) /\ IsFiniteSet(S)
  BY PrimeModulus DEF Abscissas
<1>2. /\ \A j \in S : F[j] = 0 - X[j] /\ F[j] \in Int
      /\ \A j \in S : G[j] = X[i] - X[j] /\ G[j] \in Int
  BY DEF Abscissas
<1> HIDE DEF F, G
<1>3. ASSUME NEW B \in SUBSET A, i \in B
      PROVE  /\ Weight(X, B, i, m) \in Int
             /\ ProductOver(F, B \ {i}, m) \in Int
             /\ ProductOver(G, B \ {i}, m) \in Int
             /\ ProductOver(G, B \ {i}, m) % m # 0
             /\ Congruent(ProductOver(G, B \ {i}, m) * Weight(X, B, i, m),
                          ProductOver(F, B \ {i}, m), m)
  <2> DEFINE others == B \ {i}
             f == [j \in others |-> 0 - X[j]]
             g == [j \in others |-> X[i] - X[j]]
  <2>1. others \in SUBSET S /\ IsFiniteSet(others)
    BY <1>1, FS_Subset
  <2>2. \A j \in others : /\ F[j] = f[j] /\ F[j] \in Int /\ f[j] \in Int
                          /\ G[j] = g[j] /\ G[j] \in Int /\ g[j] \in Int
                          /\ G[j] % m # 0
    BY <1>2, <2>1 DEF Abscissas
  <2>3. Weight(X, B, i, m)
          = (ProductOver(f, others, m) * ModInverse(ProductOver(g, others, m), m)) % m
    BY DEF Weight
  <2> HIDE DEF f, g, others
  <2>4. ProductOver(F, others, m) = ProductOver(f, others, m)
        /\ ProductOver(G, others, m) = ProductOver(g, others, m)
    BY <1>1, <2>1, <2>2, ProductSame
  <2>5. PICK n \in Int, d \in Int :
          n = ProductOver(F, others, m) /\ d = ProductOver(G, others, m)
    BY <1>1, <2>1, <2>2, ProductStep
  <2>6. d % m # 0
    BY <1>1, <2>1, <2>2, <2>5, ProductNotZero
  <2>7. PICK v \in Int : v = ModInverse(d, m) /\ (d * v) % m = 1
    <3>1. ModInverse(d, m) \in 1 .. m - 1 /\ (d * ModInverse(d, m)) % m = 1
      BY <1>1, <2>6, InverseExists
    <3> QED
      BY <3>1
  <2>8. PICK w \in Int : w = n * v /\ Weight(X, B, i, m) = w % m
    BY <2>3, <2>4, <2>5, <2>7
  <2>9. PICK r \in Int : r = w % m /\ Congruent(r, w, m)
    BY <1>1, CongruentRemainder
  <2>10. Congruent(d * r, d * w, m)
    BY <1>1, <2>9, CongruentScaled
  <2>11. Congruent(d * w, n, m)
    <3>1. PICK e \in Int : e = d * v
      OBVIOUS
    <3> PICK one \in Int : one = 1
      OBVIOUS
    <3>2. Congruent(e, one, m)
      BY <1>1, <2>7, <3>1 DEF Congruent
    <3>3. Congruent(n * e, n * one, m)
      BY <1>1, <3>2, CongruentScaled
    <3>4. d * w = n * e /\ n * one = n
      BY <2>8, <3>1
    <3> QED
      BY <3>3, <3>4
  <2>12. Congruent(d * r, n, m)
    BY <2>10, <2>11, CongruentChain
  <2> QED
    BY <2>5, <2>6, <2>8, <2>9, <2>12 DEF others
<1> QED
  <2>1. \A B \in SUBSET A : i \in B =>
                /\ Weight(X, B, i, m) \in Int
                /\ ProductOver(F, B \ {i}, m) \in Int
                /\ ProductOver(G, B \ {i}, m) \in Int
                /\ ProductOver(G, B \ {i}, m) % m # 0
                /\ Congruent(ProductOver(G, B \ {i}, m) * Weight(X, B, i, m),
                             ProductOver(F, B \ {i}, m), m)
    BY <1>3
  <2> QED
    BY <1>2, <2>1

(* Leaving out one point multiplies a weight by a fraction.                 *)
LEMMA WeightRemove ==
  ASSUME NEW S, NEW X, NEW m, Abscissas(X, S, m), NEW A \in SUBSET S,
         NEW i \in A, NEW a \in A, i # a
  PROVE  /\ Weight(X, A, i, m) \in Int
         /\ Weight(X, A \ {a}, i, m) \in Int
         /\ Congruent((X[i] - X[a]) * Weight(X, A, i, m),
                      (0 - X[a]) * Weight(X, A \ {a}, i, m), m)
<1>1. m \in Nat /\ m > 0 /\ IsPrime(m) /\ IsFiniteSet(S)
  BY PrimeModulus DEF Abscissas
<1>2. PICK F, G :
           /\ \A j \in S : F[j] = 0 - X[j] /\ F[j] \in Int
           /\ \A j \in S : G[j] = X[i] - X[j] /\ G[j] \in Int
           /\ \A B \in SUBSET A : i \in B =>
                /\ Weight(X, B, i, m) \in Int
                /\ ProductOver(F, B \ {i}, m) \in Int
                /\ ProductOver(G, B \ {i}, m) \in Int
                /\ ProductOver(G, B \ {i}, m) % m # 0
                /\ Congruent(ProductOver(G, B \ {i}, m) * Weight(X, B, i, m),
                             ProductOver(F, B \ {i}, m), m)
  BY WeightParts
<1>3. PICK n \in Int, d \in Int, w \in Int :
        /\ n = ProductOver(F, A \ {i}, m) /\ d = ProductOver(G, A \ {i}, m)
        /\ w = Weight(X, A, i, m) /\ Congruent(d * w, n, m)
  BY <1>2
<1>4. PICK p \in Int, e \in Int, v \in Int :
        /\ p = ProductOver(F, (A \ {a}) \ {i}, m) /\ e = ProductOver(G, (A \ {a}) \ {i}, m)
        /\ v = Weight(X, A \ {a}, i, m) /\ Congruent(e * v, p, m) /\ e % m # 0
  <2>1. A \ {a} \in SUBSET A /\ i \in A \ {a}
    OBVIOUS
  <2> QED
    BY <1>2, <2>1
<1>5. PICK t \in Int, u \in Int : t = F[a] /\ t = 0 - X[a] /\ u = G[a] /\ u = X[i] - X[a]
  BY <1>2
<1>6. Congruent(n, t * p, m) /\ Congruent(d, u * e, m)
  <2>1. IsFiniteSet(A \ {i}) /\ a \in A \ {i} /\ (A \ {i}) \ {a} = (A \ {a}) \ {i}
    BY <1>1, FS_Subset
  <2>2. (\A j \in A \ {i} : F[j] \in Int) /\ (\A j \in A \ {i} : G[j] \in Int)
    BY <1>2
  <2> DEFINE B == A \ {i}
  <2>3. Congruent(ProductOver(F, B, m), F[a] * ProductOver(F, B \ {a}, m), m)
    BY <1>1, <2>1, <2>2, ProductRemove
  <2>4. Congruent(ProductOver(G, B, m), G[a] * ProductOver(G, B \ {a}, m), m)
    BY <1>1, <2>1, <2>2, ProductRemove
  <2> QED
    BY <1>3, <1>4, <1>5, <2>1, <2>3, <2>4
<1>7. PICK x \in Int, y \in Int, z \in Int, k \in Int, l \in Int :
        x = u * w /\ y = t * v /\ z = e * v /\ k = u * e /\ l = t * p
  OBVIOUS
<1>8. Congruent(w * k, w * d, m) /\ Congruent(t * z, t * p, m)
  BY <1>1, <1>4, <1>6, <1>7, CongruentScaled
<1>9. Congruent(e * x, e * y, m)
  <2>1. e * x = w * k /\ e * y = t * z /\ w * d = d * w
    BY <1>7
  <2> QED
    BY <1>3, <1>6, <1>7, <1>8, <2>1 DEF Congruent
<1>10. Congruent(x, y, m)
  BY <1>1, <1>4, <1>9, CongruentCancel
<1> QED
  BY <1>3, <1>4, <1>5, <1>7, <1>10

LEMMA InterpolationTerms ==
  ASSUME NEW S, NEW X, NEW m, Abscissas(X, S, m), NEW A \in SUBSET S,
         NEW y, \A i \in A : y[i] \in Int
  PROVE  /\ IsFiniteSet(A) /\ m \in Nat /\ m > 0
         /\ \A i \in A : Weight(X, A, i, m) \in Int
         /\ \A i \in A : y[i] * Weight(X, A, i, m) \in Int
         /\ Interpolation(X, A, y, m) \in Int
<1>1. IsFiniteSet(A) /\ m \in Nat /\ m > 0
  BY PrimeModulus, FS_Subset DEF Abscissas
<1>2. \A i \in A : Weight(X, A, i, m) \in Int
  BY WeightParts
<1> DEFINE f == [i \in A |-> y[i] * Weight(X, A, i, m)]
<1>3. \A i \in A : f[i] \in Int /\ y[i] * Weight(X, A, i, m) \in Int
  BY <1>2
<1> HIDE DEF f
<1>4. SumFunctionOnSet(f, A) \in Int
  BY <1>1, <1>3, SumStep
<1> QED
  BY <1>1, <1>2, <1>3, <1>4 DEF f, Interpolation

LEMMA SumLinear ==
  ASSUME NEW S, IsFiniteSet(S), NEW m \in Nat, m > 0, NEW c \in Int, NEW d \in Int,
         NEW f, \A i \in S : f[i] \in Int, NEW g, \A i \in S : g[i] \in Int,
         NEW h, \A i \in S : h[i] \in Int,
         \A i \in S : Congruent(h[i], c * f[i] + d * g[i], m)
  PROVE  Congruent(SumFunctionOnSet(h, S),
                   c * SumFunctionOnSet(f, S) + d * SumFunctionOnSet(g, S), m)
<1> DEFINE cf == [i \in S |-> c * f[i]]
           dg == [i \in S |-> d * g[i]]
           sum == [i \in S |-> c * f[i] + d * g[i]]
<1>1. /\ \A i \in S : cf[i] = c * f[i] /\ cf[i] \in Int
      /\ \A i \in S : dg[i] = d * g[i] /\ dg[i] \in Int
      /\ \A i \in S : sum[i] = cf[i] + dg[i] /\ sum[i] \in Int
      /\ \A i \in S : Congruent(h[i], sum[i], m)
  OBVIOUS
<1> HIDE DEF cf, dg, sum
<1>2. SumFunctionOnSet(cf, S) = c * SumFunctionOnSet(f, S)
  BY <1>1, SumScaled
<1>3. SumFunctionOnSet(dg, S) = d * SumFunctionOnSet(g, S)
  BY <1>1, SumScaled
<1>4. SumFunctionOnSet(sum, S) = SumFunctionOnSet(cf, S) + SumFunctionOnSet(dg, S)
  BY <1>1, SumAdded
<1>5. SumFunctionOnSet(h, S) % m = SumFunctionOnSet(sum, S) % m
  <2>1. \A i \in S : h[i] % m = sum[i] % m
    BY <1>1 DEF Congruent
  <2> QED
    BY <1>1, <2>1, SumCongruent
<1> QED
  BY <1>2, <1>3, <1>4, <1>5 DEF Congruent

(* Interpolation is linear in the values.                                   *)
LEMMA InterpolationLinear ==
  ASSUME NEW S, NEW X, NEW m, Abscissas(X, S, m), NEW A \in SUBSET S,
         NEW c \in Int, NEW d \in Int,
         NEW y, \A i \in A : y[i] \in Int, NEW z, \A i \in A : z[i] \in Int,
         NEW h, \A i \in A : h[i] \in Int,
         \A i \in A : Congruent(h[i], c * y[i] + d * z[i], m)
  PROVE  Congruent(Interpolation(X, A, h, m),
                   c * Interpolation(X, A, y, m) + d * Interpolation(X, A, z, m), m)
<1>1. /\ IsFiniteSet(A) /\ m \in Nat /\ m > 0
      /\ \A i \in A : Weight(X, A, i, m) \in Int
  BY InterpolationTerms
<1> DEFINE fy == [i \in A |-> y[i] * Weight(X, A, i, m)]
           fz == [i \in A |-> z[i] * Weight(X, A, i, m)]
           fh == [i \in A |-> h[i] * Weight(X, A, i, m)]
<1>2. \A i \in A : fy[i] \in Int /\ fz[i] \in Int /\ fh[i] \in Int
  BY <1>1
<1>3. ASSUME NEW i \in A PROVE Congruent(fh[i], c * fy[i] + d * fz[i], m)
  <2>1. PICK w \in Int, p \in Int, q \in Int, r \in Int, s \in Int :
          /\ w = Weight(X, A, i, m) /\ p = y[i] /\ q = z[i] /\ r = h[i]
          /\ s = c * p + d * q /\ Congruent(r, s, m)
    BY <1>1
  <2>2. Congruent(w * r, w * s, m)
    BY <1>1, <2>1, CongruentScaled
  <2>3. fh[i] = w * r /\ fy[i] = w * p /\ fz[i] = w * q
    BY <2>1
  <2>4. w * s = c * (w * p) + d * (w * q)
    <3> PICK j \in Int, k \in Int : j = c * p /\ k = d * q
      OBVIOUS
    <3>1. s = j + k
      BY <2>1
    <3>2. w * (j + k) = w * j + w * k
      OBVIOUS
    <3>3. w * j = c * (w * p) /\ w * k = d * (w * q)
      OBVIOUS
    <3> QED
      BY <3>1, <3>2, <3>3
  <2> QED
    BY <2>2, <2>3, <2>4
<1>4. /\ Interpolation(X, A, y, m) = SumFunctionOnSet(fy, A)
      /\ Interpolation(X, A, z, m) = SumFunctionOnSet(fz, A)
      /\ Interpolation(X, A, h, m) = SumFunctionOnSet(fh, A)
  BY DEF Interpolation
<1> HIDE DEF fy, fz, fh
<1>5. Congruent(SumFunctionOnSet(fh, A),
                c * SumFunctionOnSet(fy, A) + d * SumFunctionOnSet(fz, A), m)
  BY <1>1, <1>2, <1>3, SumLinear
<1> QED
  BY <1>4, <1>5

(* Values multiplied by their abscissas: one point less will do.            *)
LEMMA InterpolationShift ==
  ASSUME NEW S, NEW X, NEW m, Abscissas(X, S, m), NEW A \in SUBSET S, NEW a \in A,
         NEW y, \A i \in A : y[i] \in Int, NEW h, \A i \in A : h[i] \in Int,
         \A i \in A : Congruent(h[i], X[i] * y[i], m)
  PROVE  Congruent(Interpolation(X, A, h, m),
                   X[a] * (Interpolation(X, A, y, m) - Interpolation(X, A \ {a}, y, m)), m)
<1> DEFINE B == A \ {a}
           fh == [i \in A |-> h[i] * Weight(X, A, i, m)]
           fy == [i \in A |-> y[i] * Weight(X, A, i, m)]
           fb == [i \in B |-> y[i] * Weight(X, B, i, m)]
<1>1. /\ IsFiniteSet(A) /\ IsFiniteSet(B) /\ m \in Nat /\ m > 0
      /\ \A i \in A : Weight(X, A, i, m) \in Int /\ X[i] \in Int
      /\ \A i \in B : Weight(X, B, i, m) \in Int
  <2>1. B \in SUBSET S /\ \A i \in B : y[i] \in Int
    OBVIOUS
  <2>2. IsFiniteSet(B) /\ \A i \in B : Weight(X, B, i, m) \in Int
    BY <2>1, InterpolationTerms
  <2>3. /\ IsFiniteSet(A) /\ m \in Nat /\ m > 0
        /\ \A i \in A : Weight(X, A, i, m) \in Int
    BY InterpolationTerms
  <2> QED
    BY <2>2, <2>3 DEF Abscissas
<1>2. /\ \A i \in A : fh[i] \in Int /\ fy[i] \in Int
      /\ \A i \in B : fb[i] \in Int
  <2>1. ASSUME NEW i \in A PROVE fh[i] \in Int /\ fy[i] \in Int
    BY <1>1
  <2>2. ASSUME NEW i \in B PROVE fb[i] \in Int
    <3>1. y[i] \in Int /\ Weight(X, B, i, m) \in Int
      BY <1>1
    <3>2. fb[i] = y[i] * Weight(X, B, i, m)
      OBVIOUS
    <3> QED
      BY <3>1, <3>2
  <2> QED
    BY <2>1, <2>2
<1> PICK xa \in Int : xa = X[a]
  BY <1>1
<1>3. ASSUME NEW i \in B PROVE Congruent(fh[i], xa * fy[i] + (0 - xa) * fb[i], m)
  <2>1. PICK w \in Int, v \in Int, xi \in Int, p \in Int, r \in Int :
          /\ w = Weight(X, A, i, m) /\ v = Weight(X, B, i, m) /\ p = y[i] /\ r = h[i]
          /\ xi = X[i]
    BY <1>1
  <2>2. PICK s \in Int, t \in Int, u \in Int : s = xi * p /\ t = (xi - xa) * w /\ u = (0 - xa) * v
    OBVIOUS
  <2>3. Congruent(r, s, m) /\ Congruent(t, u, m)
    <3>1. i \in A /\ i # a
      OBVIOUS
    <3>2. Congruent((X[i] - X[a]) * Weight(X, A, i, m),
                      (0 - X[a]) * Weight(X, B, i, m), m)
      BY <3>1, WeightRemove
    <3> QED
      BY <2>1, <2>2, <3>2
  <2>4. Congruent(w * r, w * s, m) /\ Congruent(p * t, p * u, m)
    BY <1>1, <2>3, CongruentScaled
  <2>5. PICK j \in Int, k \in Int, l \in Int : j = p * t /\ k = p * u /\ l = xa * (w * p)
    OBVIOUS
  <2>6. Congruent(j + l, k + l, m)
    <3>1. Congruent(l, l, m)
      BY DEF Congruent
    <3> QED
      BY <1>1, <2>4, <2>5, <3>1, CongruentSum
  <2>7. w * s = j + l
    BY <2>2, <2>5
  <2>8. k + l = xa * (w * p) + (0 - xa) * (v * p)
    BY <2>2, <2>5
  <2>9. fh[i] = w * r /\ fy[i] = w * p /\ fb[i] = v * p
    BY <2>1
  <2>10. Congruent(w * r, k + l, m)
    BY <2>4, <2>6, <2>7, CongruentChain
  <2> QED
    BY <2>8, <2>9, <2>10
<1>4. Congruent(fh[a], xa * fy[a], m)
  <2>1. PICK w \in Int, p \in Int, r \in Int, s \in Int :
          w = Weight(X, A, a, m) /\ p = y[a] /\ r = h[a] /\ s = xa * p /\ Congruent(r, s, m)
    BY <1>1
  <2>2. Congruent(w * r, w * s, m)
    BY <1>1, <2>1, CongruentScaled
  <2>3. fh[a] = w * r /\ xa * fy[a] = w * s
    BY <2>1
  <2> QED
    BY <2>2, <2>3
<1>5. /\ Interpolation(X, A, y, m) = SumFunctionOnSet(fy, A)
      /\ Interpolation(X, B, y, m) = SumFunctionOnSet(fb, B)
      /\ Interpolation(X, A, h, m) = SumFunctionOnSet(fh, A)
  BY DEF Interpolation
<1> HIDE DEF fy, fb, fh
<1>6. Congruent(SumFunctionOnSet(fh, B),
                xa * SumFunctionOnSet(fy, B) + (0 - xa) * SumFunctionOnSet(fb, B), m)
  <2>1. 0 - xa \in Int /\ (\A i \in B : fh[i] \in Int) /\ (\A i \in B : fy[i] \in Int)
    BY <1>2
  <2> PICK nxa \in Int : nxa = 0 - xa
    BY <2>1
  <2>2. \A i \in B : Congruent(fh[i], xa * fy[i] + nxa * fb[i], m)
    BY <1>3
  <2> HIDE DEF B
  <2>3. Congruent(SumFunctionOnSet(fh, B),
                xa * SumFunctionOnSet(fy, B) + nxa * SumFunctionOnSet(fb, B), m)
    BY <1>1, <1>2, <2>1, <2>2, SumLinear
  <2> QED
    BY <2>3
<1>7. PICK ha \in Int, hb \in Int, ya \in Int, yb \in Int, zb \in Int :
        /\ ha = fh[a] /\ ya = fy[a]
        /\ hb = SumFunctionOnSet(fh, B)
        /\ yb = SumFunctionOnSet(fy, B) /\ zb = SumFunctionOnSet(fb, B)
  <2>1. SumFunctionOnSet(fh, B) \in Int /\ SumFunctionOnSet(fy, B) \in Int
        /\ SumFunctionOnSet(fb, B) \in Int
    BY <1>1, <1>2, SumStep
  <2> QED
    BY <1>2, <2>1
<1>8. SumFunctionOnSet(fh, A) = ha + hb /\ SumFunctionOnSet(fy, A) = ya + yb
  BY <1>1, <1>2, <1>7, SumRemove
<1>9. PICK p \in Int, q \in Int : p = xa * ya /\ q = xa * yb + (0 - xa) * zb
  OBVIOUS
<1>10. Congruent(ha + hb, p + q, m)
  <2>1. Congruent(ha, p, m) /\ Congruent(hb, q, m)
    BY <1>4, <1>6, <1>7, <1>9
  <2> QED
    BY <1>1, <2>1, CongruentSum
<1>11. p + q = xa * ((ya + yb) - zb)
  BY <1>9
<1> QED
  BY <1>5, <1>7, <1>8, <1>10, <1>11

(* The weights add up to 1.                                                 *)
LEMMA SumOfWeights ==
  ASSUME NEW S, NEW X, NEW m, Abscissas(X, S, m),
         NEW one, \A i \in S : one[i] = 1
  PROVE  \A A \in SUBSET S : A # {} => Congruent(Interpolation(X, A, one, m), 1, m)
<1> DEFINE T == {A \in SUBSET S : A # {} => Congruent(Interpolation(X, A, one, m), 1, m)}
<1>1. m \in Nat /\ m > 0 /\ IsPrime(m) /\ IsFiniteSet(S) /\ \A i \in S : X[i] \in Int
  BY PrimeModulus DEF Abscissas
<1>2. ASSUME NEW A \in SUBSET S, \A x \in A : A \ {x} \in T PROVE A \in T
  <2> SUFFICES ASSUME A # {} PROVE Congruent(Interpolation(X, A, one, m), 1, m)
    OBVIOUS
  <2>1. PICK a \in A : TRUE
    OBVIOUS
  <2>2. CASE A = {a}
    <3>1. PICK F, G :
           /\ \A j \in S : F[j] = 0 - X[j] /\ F[j] \in Int
           /\ \A j \in S : G[j] = X[a] - X[j] /\ G[j] \in Int
           /\ \A B \in SUBSET A : a \in B =>
                /\ Weight(X, B, a, m) \in Int
                /\ ProductOver(F, B \ {a}, m) \in Int
                /\ ProductOver(G, B \ {a}, m) \in Int
                /\ ProductOver(G, B \ {a}, m) % m # 0
                /\ Congruent(ProductOver(G, B \ {a}, m) * Weight(X, B, a, m),
                             ProductOver(F, B \ {a}, m), m)
      BY WeightParts
    <3>2. A \ {a} = {} /\ A \in SUBSET A
      BY <2>2
    <3>3. ProductOver(F, {}, m) = 1 /\ ProductOver(G, {}, m) = 1
      BY <1>1, <3>1, ProductStep
    <3>4. PICK w \in Int : w = Weight(X, A, a, m) /\ Congruent(w, 1, m)
      <4>1. PICK w \in Int : w = Weight(X, A, a, m) /\ Congruent(1 * w, 1, m)
        BY <3>1, <3>2, <3>3
      <4> QED
        BY <4>1
    <3> DEFINE f == [i \in A |-> one[i] * Weight(X, A, i, m)]
    <3>5. f[a] = w /\ \A i \in A : f[i] \in Int
      BY <2>2, <3>4
    <3>6. Interpolation(X, A, one, m) = SumFunctionOnSet(f, A)
      BY DEF Interpolation
    <3> HIDE DEF f
    <3>7. IsFiniteSet(A)
      BY <1>1, FS_Subset
    <3>8. SumFunctionOnSet(f, A) = f[a] + SumFunctionOnSet(f, A \ {a})
          /\ SumFunctionOnSet(f, {}) = 0
      BY <3>5, <3>7, SumRemove, SumStep
    <3> QED
      BY <3>2, <3>4, <3>5, <3>6, <3>8
  <2>3. CASE A # {a}
    <3>1. PICK b \in A : b # a
      BY <2>3
    <3>2. \A i \in A : one[i] \in Int /\ X[i] \in Int
          /\ one[i] = 1
      BY <1>1
    <3>3. PICK e \in Int, ea \in Int, eb \in Int, h \in Int, xa \in Int, xb \in Int :
            /\ e = Interpolation(X, A, one, m) /\ h = Interpolation(X, A, X, m)
            /\ ea = Interpolation(X, A \ {a}, one, m)
            /\ eb = Interpolation(X, A \ {b}, one, m)
            /\ xa = X[a] /\ xb = X[b]
      <4>1. /\ A \ {a} \in SUBSET S /\ \A i \in A \ {a} : one[i] \in Int
            /\ A \ {b} \in SUBSET S /\ \A i \in A \ {b} : one[i] \in Int
        BY <3>2
      <4>2. Interpolation(X, A, one, m) \in Int /\ Interpolation(X, A, X, m) \in Int
        BY <3>2, InterpolationTerms
      <4>3. Interpolation(X, A \ {a}, one, m) \in Int /\ Interpolation(X, A \ {b}, one, m) \in Int
        BY <4>1, InterpolationTerms
      <4> QED
        BY <3>2, <4>2, <4>3
    <3>4. Congruent(ea, 1, m) /\ Congruent(eb, 1, m)
      <4>1. A \ {a} \in T /\ A \ {b} \in T /\ A \ {a} # {} /\ A \ {b} # {}
        BY <1>2, <3>1
      <4> QED
        BY <3>3, <4>1
    <3>5. \A i \in A : Congruent(X[i], X[i] * one[i], m)
      BY <3>2 DEF Congruent
    <3>6. Congruent(h, xa * (e - ea), m) /\ Congruent(h, xb * (e - eb), m)
      <4>1. Congruent(Interpolation(X, A, X, m),
               X[a] * (Interpolation(X, A, one, m) - Interpolation(X, A \ {a}, one, m)), m)
        BY <3>2, <3>5, InterpolationShift
      <4>2. Congruent(Interpolation(X, A, X, m),
               X[b] * (Interpolation(X, A, one, m) - Interpolation(X, A \ {b}, one, m)), m)
        BY <3>2, <3>5, InterpolationShift
      <4> QED
        BY <3>3, <4>1, <4>2
    <3>7. PICK d \in Int, da \in Int, db \in Int : d = e - 1 /\ da = e - ea /\ db = e - eb
      OBVIOUS
    <3>8. Congruent(da, d, m) /\ Congruent(db, d, m)
      <4>1. PICK n1 \in Int, na \in Int, nb \in Int : n1 = 0 - 1 /\ na = 0 - ea /\ nb = 0 - eb
        OBVIOUS
      <4>2. Congruent(na, n1, m) /\ Congruent(nb, n1, m)
        <5> PICK u \in Int, v \in Int : u = 1 /\ v = 0 - 1
          OBVIOUS
        <5>1. Congruent(v * ea, v * u, m) /\ Congruent(v * eb, v * u, m)
          BY <1>1, <3>4, CongruentScaled
        <5> QED
          BY <4>1, <5>1
      <4>3. Congruent(e, e, m)
        BY DEF Congruent
      <4>4. Congruent(e + na, e + n1, m) /\ Congruent(e + nb, e + n1, m)
        BY <1>1, <4>2, <4>3, CongruentSum
      <4> QED
        BY <3>7, <4>1, <4>4
    <3>9. Congruent(xa * d, xb * d, m)
      <4>1. Congruent(xa * da, xa * d, m) /\ Congruent(xb * db, xb * d, m)
        BY <1>1, <3>8, CongruentScaled
      <4> QED
        BY <3>6, <3>7, <4>1 DEF Congruent
    <3>10. d % m = 0
      <4> PICK u \in Int, v \in Int, w \in Int, z \in Int :
            u = xa * d /\ v = xb * d /\ w = xa - xb /\ z = 0 - v
        OBVIOUS
      <4>1. Congruent(u + z, v + z, m)
        <5>1. Congruent(z, z, m) /\ Congruent(u, v, m)
          BY <3>9 DEF Congruent
        <5> QED
          BY <1>1, <5>1, CongruentSum
      <4>2. u + z = w * d /\ v + z = 0
        OBVIOUS
      <4>3. (w * d) % m = 0
        BY <1>1, <4>1, <4>2 DEF Congruent
      <4>4. w % m # 0
        BY <3>1, <3>3 DEF Abscissas
      <4> QED
        BY <1>1, <4>3, <4>4, ZeroProduct
    <3>11. Congruent(e, 1, m)
      <4>1. Congruent(d, 0, m) /\ Congruent(1, 1, m)
        BY <1>1, <3>10 DEF Congruent
      <4> PICK u \in Int, v \in Int : u = 1 /\ v = 0
        OBVIOUS
      <4>2. Congruent(d + u, v + u, m)
        BY <1>1, <4>1, CongruentSum
      <4>3. d + u = e /\ v + u = 1
        BY <3>7
      <4> QED
        BY <4>2, <4>3
    <3> QED
      BY <3>3, <3>11
  <2> QED
    BY <2>2, <2>3
<1> HIDE DEF T
<1>3. \A A \in SUBSET S : A \in T
  BY <1>1, <1>2, SubsetInduction
<1> QED
  BY <1>3 DEF T

(* Points on a polynomial with no more coefficients than there are points   *)
(* interpolate to its constant coefficient.                                 *)
LEMMA InterpolationAtZero ==
  ASSUME NEW S, NEW X, NEW m, Abscissas(X, S, m),
         NEW c \in Seq(Int), c # <<>>, Len(c) <= Cardinality(S),
         NEW v, \A i \in S : HornerValues(v[i], c, X[i], m)
  PROVE  Congruent(Interpolation(X, S, [i \in S |-> v[i][1]], m), c[1], m)
<1> DEFINE n == Len(c)
           y(k) == [i \in S |-> v[i][k]]
           one == [i \in S |-> 1]
           T == {j \in 0 .. n - 1 : \A A \in SUBSET S : Cardinality(A) >= j + 1 =>
                   Congruent(Interpolation(X, A, y(n - j), m), c[n - j], m)}
<1>1. /\ m \in Nat /\ m > 0 /\ IsPrime(m) /\ IsFiniteSet(S)
      /\ \A i \in S : X[i] \in Int
      /\ n \in Nat /\ n > 0 /\ \A k \in 1 .. n : c[k] \in Int
  BY PrimeModulus DEF Abscissas
<1>2. \A k \in 1 .. n, i \in S : y(k)[i] = v[i][k] /\ y(k)[i] \in Int
  BY DEF HornerValues
<1>3. \A i \in S : one[i] = 1 /\ one[i] \in Int
  OBVIOUS
<1>4. \A A \in SUBSET S : IsFiniteSet(A) /\ Cardinality(A) \in Nat /\ (Cardinality(A) = 0 => A = {})
  BY <1>1, FS_Subset, FS_CardinalityType, FS_EmptySet
<1> HIDE DEF y, one
<1>5. ASSUME NEW A \in SUBSET S, Cardinality(A) >= 1
      PROVE  /\ Interpolation(X, A, one, m) \in Int
             /\ Congruent(Interpolation(X, A, one, m), 1, m)
             /\ \A k \in 1 .. n : Interpolation(X, A, y(k), m) \in Int
  <2>1. A # {} /\ \A i \in A : one[i] \in Int
    BY <1>3, <1>5, FS_EmptySet
  <2>2. Interpolation(X, A, one, m) \in Int
    BY <2>1, InterpolationTerms
  <2>3. Congruent(Interpolation(X, A, one, m), 1, m)
    BY <1>3, <2>1, SumOfWeights
  <2>4. ASSUME NEW k \in 1 .. n PROVE Interpolation(X, A, y(k), m) \in Int
    <3>1. \A i \in A : y(k)[i] \in Int
      BY <1>2
    <3> QED
      BY <3>1, InterpolationTerms
  <2> QED
    BY <2>2, <2>3, <2>4
<1>6. 0 \in T
  <2> SUFFICES ASSUME NEW A \in SUBSET S, Cardinality(A) >= 1
               PROVE  Congruent(Interpolation(X, A, y(n), m), c[n], m)
    BY <1>1
  <2>1. PICK e \in Int, b \in Int, h \in Int, zero \in Int, p \in Int :
          /\ e = Interpolation(X, A, one, m) /\ b = c[n] /\ h = Interpolation(X, A, y(n), m)
          /\ zero = 0 /\ p = b * e
    BY <1>1, <1>5
  <2>2. \A i \in A : Congruent(y(n)[i], b * one[i] + zero * one[i], m)
    <3> SUFFICES ASSUME NEW i \in A PROVE y(n)[i] = b * one[i] + zero * one[i]
      BY DEF Congruent
    <3>1. y(n)[i] = c[n]
      BY <1>1, <1>2 DEF HornerValues
    <3> QED
      BY <1>3, <2>1, <3>1
  <2>3. Congruent(h, b * e + zero * e, m)
    <3>1. (\A i \in A : y(n)[i] \in Int) /\ (\A i \in A : one[i] \in Int)
      BY <1>1, <1>2, <1>3
    <3>2. Congruent(Interpolation(X, A, y(n), m),
                   b * Interpolation(X, A, one, m) + zero * Interpolation(X, A, one, m), m)
      BY <2>2, <3>1, InterpolationLinear
    <3> QED
      BY <2>1, <3>2
  <2>4. Congruent(p, b, m)
    <3> PICK u \in Int : u = 1
      OBVIOUS
    <3>1. Congruent(b * e, b * u, m)
      <4>1. Congruent(e, u, m)
        BY <1>5, <2>1
      <4> QED
        BY <1>1, <4>1, CongruentScaled
    <3>2. b * u = b
      OBVIOUS
    <3> QED
      BY <2>1, <3>1, <3>2
  <2>5. b * e + zero * e = p
    BY <2>1
  <2> QED
    BY <2>1, <2>3, <2>4, <2>5, CongruentChain
<1>7. ASSUME NEW j \in 0 .. (n - 1) - 1, j \in T PROVE j + 1 \in T
  <2> PICK k \in 1 .. n - 1 : k = n - (j + 1) /\ k + 1 = n - j /\ k + 1 \in 1 .. n /\ k \in 1 .. n
    <3>1. n - (j + 1) \in 1 .. n - 1 /\ (n - (j + 1)) + 1 = n - j
      BY <1>1
    <3>2. n - j \in 1 .. n /\ n - (j + 1) \in 1 .. n
      BY <1>1
    <3> HIDE DEF n
    <3> QED
      BY <3>1, <3>2
  <2> SUFFICES ASSUME NEW A \in SUBSET S, Cardinality(A) >= j + 2
               PROVE  Congruent(Interpolation(X, A, y(k), m), c[k], m)
    BY <1>1
  <2>1. A # {} /\ Cardinality(A) >= 1 /\ Cardinality(A) >= j + 1
    BY <1>4, FS_EmptySet
  <2>2. PICK a \in A : TRUE
    BY <2>1
  <2> DEFINE B == A \ {a}
             z == [i \in S |-> X[i] * y(k + 1)[i]]
  <2>3. B \in SUBSET S /\ Cardinality(B) >= j + 1 /\ Cardinality(B) >= 1
    <3>1. IsFiniteSet(A) /\ Cardinality(A) \in Nat
      BY <1>4
    <3>2. Cardinality(B) = Cardinality(A) - 1
      BY <2>2, <3>1, FS_RemoveElement
    <3> QED
      BY <3>1, <3>2
  <2>4. \A i \in S : z[i] = X[i] * y(k + 1)[i] /\ z[i] \in Int
    <3>1. \A i \in S : z[i] = X[i] * y(k + 1)[i]
      OBVIOUS
    <3> HIDE DEF z
    <3>2. \A i \in S : X[i] \in Int /\ y(k + 1)[i] \in Int
      BY <1>1, <1>2
    <3> QED
      BY <3>1, <3>2, SMTT(20)
  <2> HIDE DEF z, B
  <2>5. \A i \in A : /\ z[i] \in Int /\ Congruent(z[i], X[i] * y(k + 1)[i], m)
                     /\ y(k + 1)[i] \in Int /\ y(k)[i] \in Int /\ one[i] \in Int
    BY <1>2, <1>3, <2>4 DEF Congruent
  <2>6. PICK b \in Int, d \in Int, e \in Int, g \in Int, ga \in Int, h \in Int, f \in Int, xa \in Int :
          /\ b = c[k] /\ d = c[k + 1] /\ e = Interpolation(X, A, one, m)
          /\ g = Interpolation(X, A, y(k + 1), m)
          /\ ga = Interpolation(X, B, y(k + 1), m)
          /\ h = Interpolation(X, A, y(k), m)
          /\ f = Interpolation(X, A, z, m)
          /\ xa = X[a]
    <3>1. Interpolation(X, A, z, m) \in Int
      BY <2>5, InterpolationTerms
    <3> QED
      BY <1>1, <1>5, <2>1, <2>3, <3>1
  <2>7. Congruent(g, d, m) /\ Congruent(ga, d, m) /\ Congruent(e, 1, m)
    <3>1. \A C \in SUBSET S : Cardinality(C) >= j + 1 =>
            Congruent(Interpolation(X, C, y(k + 1), m), c[k + 1], m)
      BY <1>7
    <3> QED
      BY <1>5, <2>1, <2>3, <2>6, <3>1
  <2>8. Congruent(f, xa * (g - ga), m)
    <3>1. Congruent(Interpolation(X, A, z, m),
             X[a] * (Interpolation(X, A, y(k + 1), m) - Interpolation(X, A \ {a}, y(k + 1), m)), m)
      BY <2>5, InterpolationShift
    <3> QED
      BY <2>6, <3>1 DEF B
  <2>9. Congruent(f, 0, m)
    <3> PICK w \in Int, u \in Int, ng \in Int, nd \in Int, minus \in Int :
          w = g - ga /\ u = 0 /\ minus = 0 - 1 /\ ng = 0 - ga /\ nd = 0 - d
      OBVIOUS
    <3>1. Congruent(ng, nd, m)
      <4>1. Congruent(minus * ga, minus * d, m)
        BY <1>1, <2>7, CongruentScaled
      <4>2. minus * ga = ng /\ minus * d = nd
        OBVIOUS
      <4> QED
        BY <4>1, <4>2
    <3>2. Congruent(g + ng, d + nd, m)
      BY <1>1, <2>7, <3>1, CongruentSum
    <3>3. g + ng = w /\ d + nd = u
      OBVIOUS
    <3>4. Congruent(w, u, m)
      BY <3>2, <3>3
    <3>5. Congruent(xa * w, xa * u, m)
      BY <1>1, <3>4, CongruentScaled
    <3>6. xa * u = 0
      OBVIOUS
    <3> QED
      BY <2>8, <3>5, <3>6, CongruentChain
  <2>10. \A i \in A : Congruent(y(k)[i], 1 * z[i] + b * one[i], m)
    <3> SUFFICES ASSUME NEW i \in A PROVE Congruent(y(k)[i], 1 * z[i] + b * one[i], m)
      OBVIOUS
    <3>1. v[i][k] = (v[i][k + 1] * X[i] + c[k]) % m
      BY DEF HornerValues
    <3>2. PICK w \in Int : w = v[i][k + 1] * X[i] + c[k] /\ w = 1 * z[i] + b * one[i]
      <4>1. y(k + 1)[i] = v[i][k + 1] /\ y(k + 1)[i] \in Int
        BY <1>2
      <4>2. PICK p \in Int, q \in Int : p = v[i][k + 1] /\ q = X[i]
        BY <1>1, <4>1
      <4>3. z[i] = q * p /\ one[i] = 1
        BY <1>3, <2>4, <4>1, <4>2
      <4>4. p * q + b = 1 * (q * p) + b * 1
        OBVIOUS
      <4>5. p * q + b \in Int
        OBVIOUS
      <4> QED
        BY <2>6, <4>2, <4>3, <4>4, <4>5
    <3>3. v[i][k] = w % m
      BY <3>1, <3>2
    <3>4. Congruent(w % m, w, m)
      BY <1>1, CongruentRemainder
    <3> QED
      BY <1>2, <3>2, <3>3, <3>4
  <2>11. Congruent(h, f + b * e, m)
    <3>1. /\ \A i \in A : z[i] \in Int
          /\ \A i \in A : one[i] \in Int
          /\ \A i \in A : y(k)[i] \in Int
      BY <2>5
    <3> PICK u \in Int : u = 1
      OBVIOUS
    <3>2. \A i \in A : Congruent(y(k)[i], u * z[i] + b * one[i], m)
      BY <2>10
    <3>3. Congruent(Interpolation(X, A, y(k), m),
                   u * Interpolation(X, A, z, m) + b * Interpolation(X, A, one, m), m)
      BY <3>1, <3>2, InterpolationLinear
    <3>4. u * f = f
      OBVIOUS
    <3> QED
      BY <2>6, <3>3, <3>4
  <2>12. Congruent(f + b * e, b, m)
    <3> PICK u \in Int, p \in Int, zero \in Int : u = 1 /\ p = b * e /\ zero = 0
      OBVIOUS
    <3>1. Congruent(b * e, b * u, m)
      BY <1>1, <2>7, CongruentScaled
    <3>2. b * u = b
      OBVIOUS
    <3>3. Congruent(p, b, m)
      BY <3>1, <3>2
    <3>4. Congruent(f + p, zero + b, m)
      BY <1>1, <2>9, <3>3, CongruentSum
    <3> QED
      BY <3>4
  <2> QED
    BY <2>6, <2>11, <2>12, CongruentChain
<1> HIDE DEF T
<1>8. \A j \in 0 .. n - 1 : j \in T
  <2>1. n - 1 \in Nat
    BY <1>1
  <2> HIDE DEF n
  <2> QED
    BY <1>6, <1>7, <2>1, IntervalInduction
<1>9. n - 1 \in T
  BY <1>1, <1>8
<1>10. n - (n - 1) = 1 /\ Cardinality(S) >= (n - 1) + 1 /\ S \in SUBSET S
  BY <1>1, <1>4
<1> QED
  BY <1>9, <1>10 DEF T, y

(* The coefficients of the code are the weights, and its sum is the         *)
(* interpolation, reduced.                                                  *)
LEMMA LagrangeCoefficients ==
  ASSUME NEW points, NEW X, NEW m, NEW i \in DOMAIN points,
         \A j \in DOMAIN points : points[j].X = X[j]
  PROVE  LagrangeCoefficient(points, i, m) = Weight(X, DOMAIN points, i, m)
<1> DEFINE others == DOMAIN points \ {i}
<1>1. [j \in others |-> 0 - points[j].X] = [j \in others |-> 0 - X[j]]
  OBVIOUS
<1>2. [j \in others |-> points[i].X - points[j].X] = [j \in others |-> X[i] - X[j]]
  OBVIOUS
<1> DEFINE n == [j \in others |-> 0 - X[j]]
           d == [j \in others |-> X[i] - X[j]]
<1>3. LagrangeCoefficient(points, i, m)
        = (ProductOver(n, others, m) * ModInverse(ProductOver(d, others, m), m)) % m
  BY <1>1, <1>2 DEF LagrangeCoefficient, ProductOver
<1> QED
  BY <1>3 DEF Weight

SumFold(points, m) ==
  CHOOSE g : g = [A \in SUBSET DOMAIN points |->
    IF A = {} THEN 0
              ELSE points[AnyOf(A)].Y * LagrangeCoefficient(points, AnyOf(A), m)
                     + g[A \ {AnyOf(A)}]]

LEMMA ReconstructInterpolates ==
  ASSUME NEW points, NEW X, NEW y, NEW m, Abscissas(X, DOMAIN points, m),
         \A i \in DOMAIN points : points[i].X = X[i] /\ points[i].Y = y[i] /\ y[i] \in Int
  PROVE  /\ Reconstruct(points, m) \in 0 .. m - 1
         /\ Congruent(Reconstruct(points, m), Interpolation(X, DOMAIN points, y, m), m)
<1> DEFINE S == DOMAIN points
           f == [i \in S |-> y[i] * Weight(X, S, i, m)]
           Body(g) == [A \in SUBSET S |->
             IF A = {} THEN 0
                       ELSE points[AnyOf(A)].Y * LagrangeCoefficient(points, AnyOf(A), m)
                              + g[A \ {AnyOf(A)}]]
           it == SumFold(points, m)
<1>1. /\ IsFiniteSet(S) /\ m \in Nat /\ m > 0
      /\ \A i \in S : f[i] \in Int
      /\ Interpolation(X, S, y, m) \in Int
  <2>1. S \in SUBSET S /\ \A i \in S : y[i] \in Int
    OBVIOUS
  <2> QED
    BY <2>1, InterpolationTerms
<1>2. \A A \in (SUBSET S) \ {{}} :
        points[AnyOf(A)].Y * LagrangeCoefficient(points, AnyOf(A), m) = f[AnyOf(A)]
  <2> SUFFICES ASSUME NEW A \in (SUBSET S) \ {{}}
               PROVE  points[AnyOf(A)].Y * LagrangeCoefficient(points, AnyOf(A), m) = f[AnyOf(A)]
    OBVIOUS
  <2>1. PICK i \in S : i = AnyOf(A)
    BY AnyElement
  <2>2. LagrangeCoefficient(points, i, m) = Weight(X, S, i, m)
    BY LagrangeCoefficients
  <2> QED
    BY <2>1, <2>2
<1> HIDE DEF f
<1>3. PICK g : SumsUp(g, f, S)
  BY <1>1, SumRecursion
<1>4. g = Body(g)
  BY <1>2, <1>3 DEF SumsUp
<1>5. it = Body(it)
  <2>1. it = CHOOSE h : h = Body(h)
    BY DEF SumFold
  <2> HIDE DEF Body, it
  <2> QED
    BY <1>4, <2>1
<1>6. Reconstruct(points, m) = it[S] % m
  BY DEF Reconstruct, MapThenSumSet, MapThenFoldSet, SumFold, AnyOf
<1> HIDE DEF it
<1>7. it[{}] = 0 /\ \A A \in (SUBSET S) \ {{}} : it[A] = f[AnyOf(A)] + it[A \ {AnyOf(A)}]
  BY <1>2, <1>5
<1>8. \A A \in SUBSET S : it[A] = SumFunctionOnSet(f, A)
  <2> DEFINE T == {A \in SUBSET S : it[A] = SumFunctionOnSet(f, A)}
  <2>1. {} \in T
    BY <1>1, <1>7, SumStep
  <2>2. ASSUME NEW A \in (SUBSET S) \ {{}}, A \ {AnyOf(A)} \in T PROVE A \in T
    <3>1. SumFunctionOnSet(f, A) = f[AnyOf(A)] + SumFunctionOnSet(f, A \ {AnyOf(A)})
      BY <1>1, SumStep
    <3> QED
      BY <1>7, <2>2, <3>1
  <2> HIDE DEF T
  <2>3. \A A \in SUBSET S : A \in T
    BY <1>1, <2>1, <2>2, AnyInduction
  <2> QED
    BY <2>3 DEF T
<1>9. it[S] = Interpolation(X, S, y, m)
  BY <1>8 DEF Interpolation, f
<1> HIDE DEF S
<1> PICK e \in Int : e = Interpolation(X, S, y, m)
  BY <1>1
<1>10. e % m \in 0 .. m - 1 /\ Congruent(e % m, e, m)
  BY <1>1, Division, CongruentRemainder
<1> QED
  BY <1>6, <1>9, <1>10 DEF S

LEMMA SmallRemainder ==
  ASSUME NEW m \in Nat, m > 0, NEW r \in 0 .. m - 1
  PROVE  r % m = r
<1>1. m * 0 + r = r
  OBVIOUS
<1>2. (m * 0 + r) % m = r
  BY RemainderUnique
<1> QED
  BY <1>1, <1>2

(* Different numbers below a prime are such abscissas.                      *)
LEMMA SmallAbscissas ==
  ASSUME NEW m \in Nat, IsPrime(m), NEW S, IsFiniteSet(S),
         NEW X, \A i \in S : X[i] \in 0 .. m - 1,
         \A i, j \in S : X[i] = X[j] => i = j
  PROVE  Abscissas(X, S, m)
<1> SUFFICES ASSUME NEW i \in S, NEW j \in S, i # j PROVE (X[i] - X[j]) % m # 0
  BY DEF Abscissas
<1>1. m > 0
  BY PrimeModulus
<1>2. PICK a \in 0 .. m - 1, b \in 0 .. m - 1 : a = X[i] /\ b = X[j] /\ a # b
  OBVIOUS
<1>3. PICK d \in Int : d = a - b
  BY <1>1
<1> SUFFICES ASSUME d % m = 0 PROVE FALSE
  BY <1>2, <1>3
<1>4. PICK q \in Int : d = m * q
  <2> PICK q \in Int, r \in 0 .. m - 1 : d = m * q + r /\ r = d % m
    BY <1>1, Division
  <2>1. r = 0 /\ m * q + 0 = m * q
    OBVIOUS
  <2>2. d = m * q
    BY <2>1
  <2> WITNESS q \in Int
  <2> QED
    BY <2>2
<1>5. q <= 0
  <2> SUFFICES ASSUME q >= 1 PROVE FALSE
    OBVIOUS
  <2>1. m * q >= m
    BY <1>1
  <2> QED
    BY <1>1, <1>2, <1>3, <1>4, <2>1
<1>6. q >= 0
  <2> SUFFICES ASSUME q <= 0 - 1 PROVE FALSE
    OBVIOUS
  <2>1. m * q <= 0 - m
    BY <1>1
  <2> QED
    BY <1>1, <1>2, <1>3, <1>4, <2>1
<1> QED
  BY <1>1, <1>2, <1>3, <1>4, <1>5, <1>6

(* What Reconstruct makes of points on a polynomial.                        *)
LEMMA ReconstructPolynomial ==
  ASSUME NEW points, NEW X, NEW m, Abscissas(X, DOMAIN points, m),
         NEW c \in Seq(Int), c # <<>>, Len(c) <= Cardinality(DOMAIN points),
         \A i \in DOMAIN points :
           points[i].X = X[i] /\ points[i].Y = EvaluatePolynomial(c, X[i], m)
  PROVE  Reconstruct(points, m) = c[1] % m
<1> DEFINE S == DOMAIN points
           v == [i \in S |-> CHOOSE values : /\ HornerValues(values, c, X[i], m)
                                             /\ EvaluatePolynomial(c, X[i], m) = values[1]]
           y == [i \in S |-> v[i][1]]
<1>1. m \in Nat /\ m > 0 /\ \A i \in S : X[i] \in Int
  BY PrimeModulus DEF Abscissas
<1>2. \A i \in S : HornerValues(v[i], c, X[i], m) /\ EvaluatePolynomial(c, X[i], m) = v[i][1]
  <2> SUFFICES ASSUME NEW i \in S
               PROVE  HornerValues(v[i], c, X[i], m) /\ EvaluatePolynomial(c, X[i], m) = v[i][1]
    OBVIOUS
  <2>1. \E values : /\ HornerValues(values, c, X[i], m)
                    /\ EvaluatePolynomial(c, X[i], m) = values[1]
    BY <1>1, Horner
  <2> QED
    BY <2>1
<1> HIDE DEF v
<1>3. \A i \in S : points[i].X = X[i] /\ points[i].Y = y[i] /\ y[i] \in Int
  <2> SUFFICES ASSUME NEW i \in S PROVE points[i].Y = y[i] /\ y[i] \in Int
    OBVIOUS
  <2>1. 1 \in 1 .. Len(c)
    OBVIOUS
  <2> QED
    BY <1>2, <2>1 DEF HornerValues
<1>4. Congruent(Interpolation(X, S, y, m), c[1], m)
  BY <1>2, InterpolationAtZero
<1> HIDE DEF y
<1>5. /\ Reconstruct(points, m) \in 0 .. m - 1
      /\ Congruent(Reconstruct(points, m), Interpolation(X, S, y, m), m)
  BY <1>3, ReconstructInterpolates
<1>6. Congruent(Reconstruct(points, m), c[1], m)
  BY <1>4, <1>5, CongruentChain
<1> PICK r \in 0 .. m - 1 : r = Reconstruct(points, m)
  BY <1>5
<1>7. r % m = r
  BY <1>1, SmallRemainder
<1> QED
  BY <1>6, <1>7 DEF Congruent

(* Shares that are added up, or scaled, reconstruct to what their secrets   *)
(* add up to.                                                               *)
LEMMA ReconstructAdded ==
  ASSUME NEW S, NEW X, NEW m, Abscissas(X, S, m),
         NEW p, DOMAIN p = S, NEW q, DOMAIN q = S, NEW t, DOMAIN t = S,
         \A i \in S : /\ p[i].X = X[i] /\ q[i].X = X[i] /\ t[i].X = X[i]
                      /\ p[i].Y \in Int /\ q[i].Y \in Int /\ t[i].Y \in Int
                      /\ Congruent(t[i].Y, p[i].Y + q[i].Y, m)
  PROVE  Reconstruct(t, m) = (Reconstruct(p, m) + Reconstruct(q, m)) % m
<1> DEFINE yp == [i \in S |-> p[i].Y]
           yq == [i \in S |-> q[i].Y]
           yt == [i \in S |-> t[i].Y]
<1>1. m \in Nat /\ m > 0 /\ IsFiniteSet(S) /\ S \in SUBSET S
  BY PrimeModulus DEF Abscissas
<1>2. /\ \A i \in S : p[i].X = X[i] /\ p[i].Y = yp[i] /\ yp[i] \in Int
      /\ \A i \in S : q[i].X = X[i] /\ q[i].Y = yq[i] /\ yq[i] \in Int
      /\ \A i \in S : t[i].X = X[i] /\ t[i].Y = yt[i] /\ yt[i] \in Int
  OBVIOUS
<1> HIDE DEF yp, yq, yt
<1>3. /\ Reconstruct(p, m) \in 0 .. m - 1
      /\ Congruent(Reconstruct(p, m), Interpolation(X, S, yp, m), m)
  BY <1>2, ReconstructInterpolates
<1>4. /\ Reconstruct(q, m) \in 0 .. m - 1
      /\ Congruent(Reconstruct(q, m), Interpolation(X, S, yq, m), m)
  BY <1>2, ReconstructInterpolates
<1>5. /\ Reconstruct(t, m) \in 0 .. m - 1
      /\ Congruent(Reconstruct(t, m), Interpolation(X, S, yt, m), m)
  BY <1>2, ReconstructInterpolates
<1>6. PICK ep \in Int, eq \in Int, et \in Int :
        /\ ep = Interpolation(X, S, yp, m) /\ eq = Interpolation(X, S, yq, m)
        /\ et = Interpolation(X, S, yt, m)
  <2>1. /\ \A i \in S : yp[i] \in Int
        /\ \A i \in S : yq[i] \in Int
        /\ \A i \in S : yt[i] \in Int
    BY <1>2
  <2> QED
    BY <1>1, <2>1, InterpolationTerms
<1>7. Congruent(et, ep + eq, m)
  <2> PICK one \in Int : one = 1
    OBVIOUS
  <2>1. \A i \in S : Congruent(yt[i], one * yp[i] + one * yq[i], m)
    <3> SUFFICES ASSUME NEW i \in S PROVE Congruent(yt[i], one * yp[i] + one * yq[i], m)
      OBVIOUS
    <3>1. Congruent(yt[i], yp[i] + yq[i], m)
      BY <1>2
    <3>2. one * yp[i] = yp[i] /\ one * yq[i] = yq[i]
      BY <1>2
    <3> QED
      BY <3>1, <3>2
  <2>2. /\ \A i \in S : yp[i] \in Int
        /\ \A i \in S : yq[i] \in Int
        /\ \A i \in S : yt[i] \in Int
    BY <1>2
  <2>3. Congruent(Interpolation(X, S, yt, m),
                  one * Interpolation(X, S, yp, m) + one * Interpolation(X, S, yq, m), m)
    BY <1>1, <2>1, <2>2, InterpolationLinear
  <2>4. one * ep = ep /\ one * eq = eq
    OBVIOUS
  <2> QED
    BY <1>6, <2>3, <2>4
<1>8. PICK rp \in 0 .. m - 1, rq \in 0 .. m - 1, rt \in 0 .. m - 1 :
        rp = Reconstruct(p, m) /\ rq = Reconstruct(q, m) /\ rt = Reconstruct(t, m)
  BY <1>3, <1>4, <1>5
<1>9. rp \in Int /\ rq \in Int /\ rt \in Int /\ rt % m = rt
  BY <1>1, SmallRemainder
<1>10. Congruent(rp + rq, ep + eq, m)
  BY <1>1, <1>3, <1>4, <1>6, <1>8, <1>9, CongruentSum
<1>11. Congruent(rt, et, m)
  BY <1>5, <1>6, <1>8
<1> QED
  BY <1>7, <1>8, <1>9, <1>10, <1>11 DEF Congruent
-----------------------------------------------------------------------------
(* What Share draws.                                                        *)
LEMMA CoefficientsType ==
  ASSUME NEW m \in Nat, m > 0, NEW k \in Nat, k > 0, NEW secret \in Int,
         NEW c \in Coefficients(secret, k, m)
  PROVE  /\ c \in Seq(Int) /\ c # <<>>
         /\ Len(c) = k
         /\ \A i \in 1 .. k : c[i] \in 0 .. m - 1
         /\ c[1] = secret % m
<1>1. PICK d \in [1 .. k - 1 -> 0 .. m - 1] : c = <<secret % m>> \o d
  BY DEF Coefficients
<1>2. d \in Seq(0 .. m - 1) /\ Len(d) = k - 1
  <2>1. k - 1 \in Nat
    OBVIOUS
  <2> QED
    BY <2>1
<1>3. PICK s \in 0 .. m - 1 : s = secret % m
  BY Division
<1>4. <<s>> \in Seq(0 .. m - 1) /\ Len(<<s>>) = 1
  OBVIOUS
<1>5. c = <<s>> \o d
  BY <1>1, <1>3
<1>6. c \in Seq(0 .. m - 1) /\ Len(c) = k /\ c[1] = s
  BY <1>2, <1>4, <1>5
<1>7. c \in Seq(Int) /\ \A i \in 1 .. k : c[i] \in 0 .. m - 1
  BY <1>6
<1> QED
  BY <1>3, <1>6, <1>7

LEMMA EvaluatePolynomialType ==
  ASSUME NEW c \in Seq(Int), c # <<>>, NEW x \in Int, NEW m \in Nat, m > 0
  PROVE  /\ EvaluatePolynomial(c, x, m) \in Int
         /\ c[1] \in 0 .. m - 1 => EvaluatePolynomial(c, x, m) \in 0 .. m - 1
<1>1. PICK v : HornerValues(v, c, x, m) /\ EvaluatePolynomial(c, x, m) = v[1]
  BY Horner
<1>2. Len(c) \in Nat /\ Len(c) > 0 /\ v[1] \in Int
  BY <1>1 DEF HornerValues
<1>3. CASE Len(c) = 1
  BY <1>1, <1>2, <1>3 DEF HornerValues
<1>4. CASE Len(c) > 1
  <2>1. 1 \in 1 .. Len(c) - 1 /\ 1 + 1 = 2 /\ 2 \in 1 .. Len(c) /\ 1 \in 1 .. Len(c)
    BY <1>2, <1>4
  <2>2. v[1] = (v[2] * x + c[1]) % m
    BY <1>1, <2>1 DEF HornerValues
  <2>3. v[2] \in Int /\ c[1] \in Int
    BY <1>1, <2>1 DEF HornerValues
  <2> PICK w \in Int : w = v[2] * x + c[1]
    BY <2>3
  <2>4. w % m \in 0 .. m - 1
    BY Division
  <2> QED
    BY <1>1, <1>2, <2>2, <2>4
<1>5. Len(c) = 1 \/ Len(c) > 1
  <2> PICK n \in Nat : n = Len(c) /\ n # 0
    BY <1>2
  <2>1. n = 1 \/ n > 1
    OBVIOUS
  <2> QED
    BY <2>1
<1> QED
  BY <1>3, <1>4, <1>5

LEMMA SumOfOnes ==
  ASSUME NEW S, IsFiniteSet(S), NEW one, \A i \in S : one[i] = 1
  PROVE  SumFunctionOnSet(one, S) = Cardinality(S)
<1> DEFINE T == {A \in SUBSET S : SumFunctionOnSet(one, A) = Cardinality(A)}
<1>1. {} \in T
  BY SumStep, FS_EmptySet
<1>2. ASSUME NEW A \in (SUBSET S) \ {{}}, A \ {AnyOf(A)} \in T PROVE A \in T
  <2>1. PICK x \in S, B \in SUBSET S : x = AnyOf(A) /\ B = A \ {AnyOf(A)} /\ x \in A
    <3>1. A # {} /\ A \in SUBSET S
      OBVIOUS
    <3>2. AnyOf(A) \in A
      BY <3>1, AnyElement, Zenon
    <3> QED
      BY <3>2
  <2>2. SumFunctionOnSet(one, A) = 1 + SumFunctionOnSet(one, B)
    BY <2>1, SumStep
  <2>3. IsFiniteSet(A)
    BY FS_Subset
  <2>4. Cardinality(B) = Cardinality(A) - 1 /\ Cardinality(A) \in Nat
    BY <2>1, <2>3, FS_RemoveElement, FS_CardinalityType
  <2>5. SumFunctionOnSet(one, B) = Cardinality(B)
    BY <1>2, <2>1
  <2> QED
    BY <2>2, <2>4, <2>5
<1> HIDE DEF T
<1>3. \A A \in SUBSET S : A \in T
  BY <1>1, <1>2, AnyInduction
<1> QED
  BY <1>3 DEF T
-----------------------------------------------------------------------------
(* Polynomials through given points.                                        *)
LEMMA LinearType ==
  ASSUME NEW x \in Int, NEW b \in Int, NEW c \in Int
  PROVE  \E s \in Int : s = b * x + c
OBVIOUS

(* Numbers f, and Horner's values u of the coefficients e, with a 0 to      *)
(* start from.                                                              *)
Values(f, S) == \A j \in S : f[j] \in Int
HornerSums(u, e, x, n, m) ==
  u[n + 1] = 0 /\ \A j \in 1 .. n : Congruent(u[j], u[j + 1] * x + e[j], m)

LEMMA HornerFromZero ==
  ASSUME NEW c \in Seq(Int), c # <<>>, NEW n \in Nat, n > 0, n = Len(c),
         NEW x \in Int, NEW m \in Nat, m > 0
  PROVE  \E u : /\ Values(u, 1 .. n + 1) /\ HornerSums(u, c, x, n, m)
                /\ u[1] = EvaluatePolynomial(c, x, m)
<1>1. PICK v : HornerValues(v, c, x, m) /\ EvaluatePolynomial(c, x, m) = v[1]
  BY Horner
<1> DEFINE u == [k \in 1 .. n + 1 |-> IF k = n + 1 THEN 0 ELSE v[k]]
<1>2. \A k \in 1 .. n : k \in 1 .. n + 1 /\ k # n + 1 /\ k + 1 \in 1 .. n + 1
  OBVIOUS
<1>3. /\ v \in [1 .. n -> Int]
      /\ \A k \in 1 .. n : c[k] \in Int
      /\ \A k \in 1 .. n : u[k] = v[k]
      /\ u[n + 1] = 0
  <2>1. v \in [1 .. n -> Int]
    BY <1>1 DEF HornerValues
  <2>2. n + 1 \in 1 .. n + 1
    OBVIOUS
  <2>3. \A k \in 1 .. n : c[k] \in Int
    OBVIOUS
  <2>4. u[n + 1] = 0 /\ \A k \in 1 .. n : u[k] = v[k]
    BY <1>2, <2>2
  <2> QED
    BY <2>1, <2>3, <2>4
<1> HIDE DEF u
<1>4. ASSUME NEW k \in 1 .. n + 1 PROVE u[k] \in Int
  <2>1. CASE k = n + 1
    BY <1>3, <2>1
  <2>2. CASE k # n + 1
    <3>1. k \in 1 .. n
      BY <2>2
    <3> QED
      BY <1>3, <3>1
  <2> QED
    BY <2>1, <2>2
<1>5. ASSUME NEW k \in 1 .. n PROVE Congruent(u[k], u[k + 1] * x + c[k], m)
  <2>1. k + 1 \in 1 .. n + 1 /\ u[k + 1] \in Int /\ c[k] \in Int
    BY <1>2, <1>3, <1>4
  <2> PICK b \in Int, d \in Int : b = u[k + 1] /\ d = c[k]
    BY <2>1
  <2>2. CASE k = n
    <3>1. u[k] = d /\ b = 0
      BY <1>1, <1>3, <2>2 DEF HornerValues
    <3>2. b * x + d = d
      BY <3>1
    <3> QED
      BY <3>1, <3>2 DEF Congruent
  <2>3. CASE k # n
    <3> PICK s \in Int : s = b * x + d
      BY LinearType, Zenon
    <3>1. k \in 1 .. n - 1 /\ k + 1 \in 1 .. n
      BY <2>3
    <3>2. u[k] = s % m
      <4>1. v[k] = (v[k + 1] * x + c[k]) % m
        BY <1>1, <3>1 DEF HornerValues
      <4> QED
        BY <1>3, <3>1, <4>1
    <3> QED
      BY <3>2, CongruentRemainder
  <2> QED
    BY <2>2, <2>3
<1>6. u[1] = EvaluatePolynomial(c, x, m)
  <2>1. 1 \in 1 .. n
    OBVIOUS
  <2> QED
    BY <1>1, <1>3, <2>1
<1> QED
  BY <1>3, <1>4, <1>5, <1>6 DEF Values, HornerSums

(* One step of Horner's method for a product with x - a.                    *)
LEMMA FactorStep ==
  ASSUME NEW m \in Nat, m > 0, NEW a \in Int, NEW x \in Int,
         NEW w \in Int, NEW q \in Int, NEW p0 \in Int, NEW p1 \in Int,
         NEW v \in Int, NEW u0 \in Int, NEW u1 \in Int,
         Congruent(w, u0 - a * u1, m), Congruent(q, p0 - a * p1, m),
         Congruent(v, u0 * x + p0, m), Congruent(u0, u1 * x + p1, m)
  PROVE  Congruent(w * x + q, v - a * u0, m)
<1> PICK d \in Int, e \in Int, f \in Int, g \in Int, b \in Int :
      /\ d = u0 - a * u1 /\ e = p0 - a * p1 /\ f = u0 * x + p0 /\ g = u1 * x + p1
      /\ b = 0 - a
  OBVIOUS
<1>1. Congruent(w * x, d * x, m)
  <2>1. Congruent(x * w, x * d, m)
    BY CongruentScaled
  <2> QED
    BY <2>1
<1> PICK wx \in Int, dx \in Int : wx = w * x /\ dx = d * x
  OBVIOUS
<1>2. Congruent(wx + q, dx + e, m)
  BY <1>1, CongruentSum
<1> PICK bg \in Int, bu \in Int : bg = b * g /\ bu = b * u0
  OBVIOUS
<1>3. dx + e = f + bg
  <2>1. d * x = u0 * x - (a * u1) * x
    OBVIOUS
  <2>2. b * g = 0 - (a * (u1 * x) + a * p1)
    <3>1. a * g = a * (u1 * x) + a * p1
      OBVIOUS
    <3>2. b * g = 0 - a * g
      OBVIOUS
    <3> QED
      BY <3>1, <3>2
  <2>3. (a * u1) * x = a * (u1 * x)
    OBVIOUS
  <2> PICK y \in Int, z \in Int, h \in Int : y = u0 * x /\ z = a * (u1 * x) /\ h = a * p1
    OBVIOUS
  <2> QED
    BY <2>1, <2>2, <2>3
<1>4. Congruent(bg, bu, m)
  BY CongruentScaled
<1>5. Congruent(f + bg, v + bu, m)
  <2>1. Congruent(f, v, m)
    BY DEF Congruent
  <2> QED
    BY <1>4, <2>1, CongruentSum
<1>6. v + bu = v - a * u0
  <2>1. bu = 0 - a * u0
    OBVIOUS
  <2> QED
    BY <2>1
<1> QED
  BY <1>2, <1>3, <1>5, <1>6, CongruentChain

(* The coefficients of z + (x - a) * p(x).                                  *)
TimesFactor(q, p, n, a, z, m) ==
  /\ Congruent(q[1], z - a * p[1], m)
  /\ \A k \in 2 .. n : Congruent(q[k], p[k - 1] - a * p[k], m)
  /\ Congruent(q[n + 1], p[n], m)

LEMMA FactorEvaluates ==
  ASSUME NEW m \in Nat, m > 0, NEW n \in Nat, n > 0,
         NEW p \in [1 .. n -> Int], NEW q \in [1 .. n + 1 -> Int],
         NEW a \in Int, NEW z \in Int, NEW x \in Int, TimesFactor(q, p, n, a, z, m)
  PROVE  /\ EvaluatePolynomial(p, x, m) \in Int
         /\ EvaluatePolynomial(q, x, m) \in Int
         /\ Congruent(EvaluatePolynomial(q, x, m),
                      (z + x * EvaluatePolynomial(p, x, m)) - a * EvaluatePolynomial(p, x, m), m)
<1> PICK l \in Nat : l = n + 1 /\ l > 0
  OBVIOUS
<1>1. p \in Seq(Int) /\ p # <<>> /\ Len(p) = n /\ q \in Seq(Int) /\ q # <<>> /\ Len(q) = l
  OBVIOUS
<1>2. PICK u : /\ Values(u, 1 .. n + 1) /\ HornerSums(u, p, x, n, m)
               /\ u[1] = EvaluatePolynomial(p, x, m)
  <2>1. n = Len(p)
    BY <1>1
  <2>2. p \in Seq(Int) /\ p # <<>> /\ n \in Nat /\ n > 0
    BY <1>1
  <2> QED
    BY <2>1, <2>2, HornerFromZero, SMTT(20)
<1>3. PICK w : /\ Values(w, 1 .. l + 1) /\ HornerSums(w, q, x, l, m)
               /\ w[1] = EvaluatePolynomial(q, x, m)
  <2>1. l = Len(q)
    BY <1>1
  <2>2. q \in Seq(Int) /\ q # <<>> /\ l \in Nat /\ l > 0
    BY <1>1
  <2> QED
    BY <2>1, <2>2, HornerFromZero, Zenon
<1>4. /\ \A k \in 1 .. n + 1 : u[k] \in Int /\ w[k] \in Int /\ q[k] \in Int
      /\ \A k \in 1 .. n : p[k] \in Int
      /\ u[n + 1] = 0 /\ w[(n + 1) + 1] = 0
      /\ \A k \in 1 .. n : Congruent(u[k], u[k + 1] * x + p[k], m)
      /\ \A k \in 1 .. n + 1 : Congruent(w[k], w[k + 1] * x + q[k], m)
  <2>1. \A k \in 1 .. n + 1 : k \in 1 .. l + 1 /\ k \in 1 .. l
    OBVIOUS
  <2>2. \A k \in 1 .. l : w[k] \in Int
    BY <1>3 DEF Values
  <2> QED
    BY <1>2, <1>3, <2>1, <2>2 DEF Values, HornerSums
<1> DEFINE T == {j \in 0 .. n - 1 : Congruent(w[(n + 1) - j], u[n - j] - a * u[(n + 1) - j], m)}
<1>5. 0 \in T
  <2>1. n + 1 - 0 = n + 1 /\ n - 0 = n /\ n \in 1 .. n /\ n + 1 \in 1 .. n + 1
        /\ n \in 1 .. n + 1 /\ 0 \in 0 .. n - 1
    OBVIOUS
  <2> PICK f \in Int, g \in Int : f = q[n + 1] /\ g = u[n]
    BY <1>4, <2>1
  <2>2. Congruent(w[n + 1], 0 * x + f, m) /\ Congruent(g, 0 * x + p[n], m)
    BY <1>4, <2>1
  <2>3. 0 * x + f = f /\ 0 * x + p[n] = p[n]
    BY <1>4, <2>1
  <2>4. Congruent(f, p[n], m)
    BY DEF TimesFactor
  <2>5. Congruent(w[n + 1], g, m)
    BY <2>2, <2>3, <2>4 DEF Congruent
  <2> PICK h \in Int : h = u[n + 1] /\ h = 0
    BY <1>4
  <2>6. g - a * h = g
    OBVIOUS
  <2> PICK i, k : i = (n + 1) - 0 /\ k = n - 0
    OBVIOUS
  <2>7. Congruent(w[i], u[k] - a * u[i], m)
    <3>1. i = n + 1 /\ k = n
      BY <2>1
    <3> QED
      BY <2>5, <2>6, <3>1
  <2> QED
    BY <2>1, <2>7
<1>6. ASSUME NEW j \in 0 .. (n - 1) - 1, j \in T PROVE j + 1 \in T
  <2> PICK k \in 2 .. n : k = n - j
    OBVIOUS
  <2>1. /\ (n + 1) - j = k + 1 /\ (n + 1) - (j + 1) = k /\ n - (j + 1) = k - 1
        /\ k \in 1 .. n /\ k - 1 \in 1 .. n /\ (k - 1) + 1 = k /\ k + 1 \in 1 .. n + 1
        /\ j + 1 \in 0 .. n - 1
    OBVIOUS
  <2>2. Congruent(w[k + 1], u[k] - a * u[k + 1], m)
    BY <1>6, <2>1
  <2>3. Congruent(q[k], p[k - 1] - a * p[k], m)
    BY DEF TimesFactor
  <2>4. Congruent(u[k - 1], u[k] * x + p[k - 1], m) /\ Congruent(u[k], u[k + 1] * x + p[k], m)
    BY <1>4, <2>1
  <2>5. /\ w[k + 1] \in Int /\ q[k] \in Int /\ p[k - 1] \in Int /\ p[k] \in Int
        /\ u[k - 1] \in Int /\ u[k] \in Int /\ u[k + 1] \in Int
    <3>1. \A i \in 1 .. n : p[i] \in Int
      OBVIOUS
    <3>2. \A i \in 1 .. n : i \in 1 .. n + 1 
      OBVIOUS
    <3> QED
      BY <1>4, <1>6, <2>1, <3>1, <3>2, Zenon
  <2>6. Congruent(w[k + 1] * x + q[k], u[k - 1] - a * u[k], m)
    BY <2>2, <2>3, <2>4, <2>5, FactorStep, Zenon
  <2>7. Congruent(w[k], u[k - 1] - a * u[k], m)
    <3>1. k \in 1 .. n + 1
      OBVIOUS
    <3>2. Congruent(w[k], w[k + 1] * x + q[k], m)
      BY <1>4, <3>1
    <3> QED
      BY <2>6, <3>2, CongruentChain
  <2> QED
    BY <2>1, <2>7
<1> HIDE DEF T
<1>7. n - 1 \in T
  <2>1. n - 1 \in Nat /\ n - 1 \in 0 .. n - 1
    OBVIOUS
  <2>2. \A j \in 0 .. n - 1 : j \in T
    BY <1>5, <1>6, <2>1, IntervalInduction
  <2> QED
    BY <2>1, <2>2
<1>8. Congruent(w[2], u[1] - a * u[2], m)
  <2>1. (n + 1) - (n - 1) = 2 /\ n - (n - 1) = 1
    OBVIOUS
  <2> QED
    BY <1>7, <2>1 DEF T
<1>9. /\ u[1] \in Int /\ u[2] \in Int /\ w[1] \in Int /\ w[2] \in Int
       /\ q[1] \in Int /\ p[1] \in Int
       /\ Congruent(u[1], u[2] * x + p[1], m) /\ Congruent(w[1], w[2] * x + q[1], m)
  <2>1. 1 \in 1 .. n /\ 1 \in 1 .. n + 1 /\ 1 + 1 = 2 /\ 2 \in 1 .. n + 1
    OBVIOUS
  <2> QED
    BY <1>4, <2>1
<1> PICK b \in Int, c \in Int : b = u[1] /\ c = b * x
  <2> PICK b \in Int : b = u[1]
    BY <1>9
  <2> PICK c \in Int : c = b * x
    BY ProductType
  <2> QED
    OBVIOUS
<1> PICK y \in Int : y = z + x * b
  <2>1. x * b = c
    OBVIOUS
  <2> QED
    BY <2>1
<1>10. Congruent(y, u[1] * x + z, m)
  <2>1. y = c + z
    <3>1. x * b = c
      OBVIOUS
    <3> QED
      BY <3>1
  <2> QED
    BY <2>1 DEF Congruent
<1>11. Congruent(q[1], z - a * p[1], m)
  BY DEF TimesFactor
<1>12. Congruent(w[2] * x + q[1], y - a * u[1], m)
  BY <1>8, <1>9, <1>10, <1>11, FactorStep, Zenon
<1>13. Congruent(w[1], y - a * u[1], m)
  BY <1>9, <1>12, CongruentChain
<1> QED
  BY <1>2, <1>3, <1>9, <1>13

(* A polynomial with one coefficient is constant; at 0, a polynomial has    *)
(* its first coefficient.                                                   *)
LEMMA EvaluateConstant ==
  ASSUME NEW m \in Nat, m > 0, NEW p \in Seq(Int), p # <<>>, Len(p) = 1, NEW x \in Int
  PROVE  EvaluatePolynomial(p, x, m) = p[1]
BY Horner DEF HornerValues

LEMMA EvaluateAtZero ==
  ASSUME NEW m \in Nat, m > 0, NEW p \in Seq(Int), p # <<>>
  PROVE  Congruent(EvaluatePolynomial(p, 0, m), p[1], m)
<1> PICK x \in Int : x = 0
  OBVIOUS
<1>1. PICK v : HornerValues(v, p, x, m) /\ EvaluatePolynomial(p, x, m) = v[1]
  BY Horner
<1>2. Len(p) \in Nat /\ Len(p) > 0 /\ 1 \in 1 .. Len(p) /\ p[1] \in Int
  OBVIOUS
<1>3. CASE Len(p) = 1
  BY <1>1, <1>3 DEF HornerValues, Congruent
<1>4. CASE Len(p) # 1
  <2> PICK n \in Int : n = Len(p) /\ n > 0 /\ n # 1
    BY <1>2, <1>4
  <2>1. 1 \in 1 .. n - 1 /\ 1 + 1 = 2 /\ 2 \in 1 .. n
    OBVIOUS
  <2>2. v[1] = (v[2] * x + p[1]) % m /\ v[2] \in Int
    BY <1>1, <2>1 DEF HornerValues
  <2>3. v[2] * x + p[1] = p[1]
    BY <1>2, <2>2
  <2> QED
    BY <1>1, <1>2, <2>2, <2>3, CongruentRemainder
<1> QED
  BY <1>3, <1>4

(* The step of the induction: from a polynomial through the other points,   *)
(* one that goes through <<a, z>> as well.                                  *)
LEMMA OneMorePoint ==
  ASSUME NEW m \in Nat, m > 0, NEW n \in Nat, n > 0,
         NEW p \in [1 .. n -> 0 .. m - 1], NEW a \in Int, NEW z \in Int
  PROVE  \E q \in [1 .. n + 1 -> 0 .. m - 1] : TimesFactor(q, p, n, a, z, m)
<1> DEFINE f == [k \in 1 .. n + 1 |-> IF k = 1 THEN z - a * p[1] ELSE p[k - 1] - a * p[k]]
           q == [k \in 1 .. n + 1 |-> IF k = n + 1 THEN p[n] ELSE f[k] % m]
<1>1. \A k \in 1 .. n : p[k] \in Int /\ p[k] \in 0 .. m - 1
  OBVIOUS
<1>2. f[1] = z - a * p[1] /\ \A k \in 2 .. n : f[k] = p[k - 1] - a * p[k]
  OBVIOUS
<1>3. ASSUME NEW k \in 1 .. n PROVE f[k] \in Int
  <2>1. CASE k = 1
    BY <1>1, <1>2, <2>1
  <2>2. CASE k # 1
    <3>1. k \in 2 .. n /\ k - 1 \in 1 .. n
      BY <2>2
    <3> PICK b \in Int, c \in Int : b = p[k - 1] /\ c = p[k]
      BY <1>1, <3>1
    <3>2. f[k] = b - a * c
      BY <1>2, <3>1
    <3> HIDE DEF f
    <3> QED
      BY <3>2
  <2> QED
    BY <2>1, <2>2
<1>4. q[n + 1] = p[n] /\ \A k \in 1 .. n : q[k] = f[k] % m
  <2>1. n + 1 \in 1 .. n + 1 /\ \A k \in 1 .. n : k \in 1 .. n + 1 /\ k # n + 1
    OBVIOUS
  <2> HIDE DEF f
  <2> QED
    BY <2>1
<1>5. DOMAIN q = 1 .. n + 1 /\ q = [k \in 1 .. n + 1 |-> q[k]]
  OBVIOUS
<1> HIDE DEF f, q
<1>6. ASSUME NEW k \in 1 .. n PROVE q[k] \in 0 .. m - 1 /\ Congruent(q[k], f[k], m)
  <2> PICK b \in Int : b = f[k]
    BY <1>3
  <2>1. q[k] = b % m
    BY <1>4
  <2>2. b % m \in 0 .. m - 1
    BY Division
  <2> QED
    BY <2>1, <2>2, CongruentRemainder
<1>7. n \in 1 .. n /\ \A k \in 1 .. n + 1 : k = n + 1 \/ k \in 1 .. n
  OBVIOUS
<1>8. \A k \in 1 .. n + 1 : q[k] \in 0 .. m - 1
  BY <1>1, <1>4, <1>6, <1>7
<1>9. q \in [1 .. n + 1 -> 0 .. m - 1]
  BY <1>5, <1>8
<1>10. TimesFactor(q, p, n, a, z, m)
  <2>1. 1 \in 1 .. n /\ \A k \in 2 .. n : k \in 1 .. n
    OBVIOUS
  <2>2. Congruent(q[1], z - a * p[1], m)
    BY <1>2, <1>6, <2>1
  <2>3. \A k \in 2 .. n : Congruent(q[k], p[k - 1] - a * p[k], m)
    BY <1>2, <1>6, <2>1
  <2>4. Congruent(q[n + 1], p[n], m)
    BY <1>4 DEF Congruent
  <2> QED
    BY <2>2, <2>3, <2>4 DEF TimesFactor
<1> QED
  BY <1>9, <1>10

(* What the polynomial through the other points has to be at x.             *)
LEMMA FactorValue ==
  ASSUME NEW m \in Nat, IsPrime(m), NEW a \in Int, NEW x \in Int, NEW z \in Int,
         NEW y \in Int, NEW v \in Int, NEW w \in Int, (x - a) % m # 0,
         Congruent(v, (y - z) * ModInverse(x - a, m), m),
         Congruent(w, (z + x * v) - a * v, m)
  PROVE  Congruent(w, y, m)
<1>1. m > 0
  BY PrimeModulus
<1> PICK d \in Int, e \in Int : d = x - a /\ e = y - z
  OBVIOUS
<1> PICK i \in Int : i = ModInverse(d, m)
  BY InverseExists
<1>2. (d * i) % m = 1
  BY InverseExists
<1>3. m > 1
  BY PrimeModulus
<1>4. Congruent(d * i, 1, m)
  <2>1. 1 \in 0 .. m - 1
    BY <1>3
  <2>2. 1 % m = 1
    BY <1>1, <2>1, SmallRemainder
  <2> QED
    BY <1>2, <2>2 DEF Congruent
<1> PICK g \in Int, h \in Int, t \in Int : g = d * i /\ h = e * i /\ t = d * v
  BY ProductType
<1>5. Congruent(t, d * h, m)
  BY <1>1, CongruentScaled
<1>6. d * h = e * g
  <2>1. d * (e * i) = e * (d * i)
    OBVIOUS
  <2> QED
    BY <2>1
<1> PICK one \in Int : one = 1
  OBVIOUS
<1>7. Congruent(e * g, e * one, m)
  BY <1>1, <1>4, CongruentScaled
<1>8. e * one = e
  OBVIOUS
<1>9. Congruent(t, e, m)
  BY <1>5, <1>6, <1>7, <1>8, CongruentChain
<1>10. (z + x * v) - a * v = t + z
  <2>1. d * v = x * v - a * v
    OBVIOUS
  <2> PICK b \in Int, c \in Int : b = x * v /\ c = a * v
    BY ProductType
  <2> QED
    BY <2>1
<1>11. Congruent(z, z, m)
  BY DEF Congruent
<1>12. Congruent(t + z, e + z, m)
  BY <1>1, <1>9, <1>11, CongruentSum
<1>13. e + z = y
  OBVIOUS
<1> QED
  BY <1>10, <1>12, <1>13, CongruentChain

(* Through finitely many points with different abscissas there is a         *)
(* polynomial with as many coefficients as there are points.                *)
LEMMA InterpolatingPolynomial ==
  ASSUME NEW S, NEW X, NEW m, Abscissas(X, S, m), S # {},
         NEW y \in [S -> Int]
  PROVE  \E p \in [1 .. Cardinality(S) -> 0 .. m - 1] :
           \A i \in S : Congruent(EvaluatePolynomial(p, X[i], m), y[i], m)
<1> DEFINE Through(p, A, f) == \A i \in A : Congruent(EvaluatePolynomial(p, X[i], m), f[i], m)
           T == {A \in SUBSET S : A # {} => \A f \in [S -> Int] :
                   \E p \in [1 .. Cardinality(A) -> 0 .. m - 1] : Through(p, A, f)}
<1>1. /\ m \in Nat /\ m > 0 /\ IsPrime(m) /\ IsFiniteSet(S)
      /\ \A i \in S : X[i] \in Int
      /\ \A i, j \in S : i # j => (X[i] - X[j]) % m # 0
  BY PrimeModulus DEF Abscissas
<1>2. {} \in T
  OBVIOUS
<1>3. ASSUME NEW A \in (SUBSET S) \ {{}}, A \ {AnyOf(A)} \in T PROVE A \in T
  <2> SUFFICES ASSUME NEW f \in [S -> Int]
               PROVE  \E p \in [1 .. Cardinality(A) -> 0 .. m - 1] : Through(p, A, f)
    OBVIOUS
  <2>1. PICK x \in S, B \in SUBSET S : x = AnyOf(A) /\ B = A \ {AnyOf(A)} /\ x \in A
    <3>1. A # {} /\ A \in SUBSET S
      OBVIOUS
    <3>2. AnyOf(A) \in A
      BY <3>1, AnyElement, Zenon
    <3> QED
      BY <3>1, <3>2
  <2>2. B \in T /\ B = A \ {x} /\ A = B \cup {x} /\ x \notin B
    BY <1>3, <2>1
  <2>3. PICK n \in Nat : n = Cardinality(B) /\ Cardinality(A) = n + 1 /\ (n = 0 <=> B = {})
    <3>1. IsFiniteSet(B)
      BY <1>1, <2>1, FS_Subset
    <3>2. Cardinality(B) \in Nat /\ (Cardinality(B) = 0 <=> B = {})
      BY <3>1, FS_CardinalityType, FS_EmptySet
    <3>3. Cardinality(B \cup {x}) = Cardinality(B) + 1
      BY <3>1, <2>2, FS_AddElement
    <3> QED
      BY <2>2, <3>2, <3>3
  <2> PICK a \in Int, z \in Int : a = X[x] /\ z = f[x]
    BY <1>1
  <2>4. CASE B = {}
    <3>1. z % m \in 0 .. m - 1 /\ Congruent(z % m, z, m)
      BY <1>1, Division, CongruentRemainder
    <3> PICK r \in 0 .. m - 1 : r = z % m
      BY <3>1
    <3> DEFINE p == [k \in 1 .. 1 |-> r]
    <3>2. p \in [1 .. 1 -> 0 .. m - 1] /\ p \in Seq(Int) /\ p # <<>> /\ Len(p) = 1 /\ p[1] = r
      OBVIOUS
    <3> HIDE DEF p
    <3>3. EvaluatePolynomial(p, a, m) = r
      BY <1>1, <3>2, EvaluateConstant
    <3>4. Through(p, A, f)
      BY <2>2, <2>4, <3>1, <3>3
    <3>5. Cardinality(A) = 1
      BY <2>3, <2>4
    <3> QED
      BY <3>2, <3>4, <3>5
  <2>5. CASE B # {}
    <3> DEFINE g == [i \in S |-> (f[i] - z) * ModInverse(X[i] - a, m)]
               h == [i \in S |-> IF i \in B THEN g[i] ELSE 0]
    <3>1. ASSUME NEW i \in B
          PROVE  /\ i \in S /\ X[i] \in Int /\ f[i] \in Int /\ (X[i] - a) % m # 0
                 /\ g[i] \in Int /\ h[i] = g[i]
      <4>1. i \in S /\ i # x
        BY <2>1, <2>2
      <4>2. (X[i] - a) % m # 0
        BY <1>1, <4>1
      <4> PICK d \in Int, e \in Int : d = X[i] - a /\ e = f[i] - z
        BY <1>1, <4>1
      <4> PICK j \in Int : j = ModInverse(d, m)
        BY <1>1, <4>2, InverseExists
      <4>3. e * j \in Int
        OBVIOUS
      <4>4. g[i] = e * j
        BY <4>1
      <4> HIDE DEF g
      <4> QED
        BY <1>1, <4>1, <4>2, <4>3, <4>4
    <3>2. h \in [S -> Int]
      <4>1. \A i \in S : h[i] \in Int
        <5> SUFFICES ASSUME NEW i \in S PROVE h[i] \in Int
          OBVIOUS
        <5>1. CASE i \in B
          BY <3>1, <5>1
        <5>2. CASE i \notin B
          BY <5>2
        <5> QED
          BY <5>1, <5>2
      <4>2. h = [i \in S |-> h[i]]
        OBVIOUS
      <4> HIDE DEF h
      <4> QED
        BY <4>1, <4>2
    <3> HIDE DEF h
    <3>3. PICK p \in [1 .. n -> 0 .. m - 1] : Through(p, B, h)
      BY <2>2, <2>3, <2>5, <3>2
    <3>4. n > 0
      BY <2>3, <2>5
    <3>5. PICK q \in [1 .. n + 1 -> 0 .. m - 1] : TimesFactor(q, p, n, a, z, m)
      BY <1>1, <3>4, OneMorePoint
    <3>6. p \in [1 .. n -> Int] /\ q \in [1 .. n + 1 -> Int]
      OBVIOUS
    <3>7. ASSUME NEW i \in A PROVE Congruent(EvaluatePolynomial(q, X[i], m), f[i], m)
      <4>1. i \in S /\ X[i] \in Int
        BY <1>1, <2>1
      <4> PICK b \in Int : b = X[i]
        BY <4>1
      <4>2. /\ EvaluatePolynomial(p, b, m) \in Int
            /\ EvaluatePolynomial(q, b, m) \in Int
            /\ Congruent(EvaluatePolynomial(q, b, m),
                         (z + b * EvaluatePolynomial(p, b, m)) - a * EvaluatePolynomial(p, b, m), m)
        BY <1>1, <3>4, <3>5, <3>6, FactorEvaluates
      <4> PICK v \in Int, w \in Int : v = EvaluatePolynomial(p, b, m) /\ w = EvaluatePolynomial(q, b, m)
        BY <4>2
      <4>3. Congruent(w, (z + b * v) - a * v, m)
        BY <4>2
      <4>4. CASE i = x
        <5>1. (z + a * v) - a * v = z
          <6> PICK c \in Int : c = a * v
            BY ProductType
          <6> QED
            OBVIOUS
        <5> QED
          BY <4>3, <4>4, <5>1
      <4>5. CASE i # x
        <5>1. i \in B
          BY <2>2, <4>5
        <5>2. g[i] = (f[i] - z) * ModInverse(b - a, m)
          BY <4>1
        <5>3. f[i] \in Int /\ (b - a) % m # 0 /\ h[i] = g[i]
          BY <3>1, <5>1
        <5>4. Congruent(v, h[i], m)
          BY <3>3, <5>1
        <5> HIDE DEF g
        <5>5. Congruent(v, (f[i] - z) * ModInverse(b - a, m), m)
          BY <5>2, <5>3, <5>4
        <5> PICK c \in Int : c = f[i]
          BY <5>3
        <5>6. Congruent(w, c, m)
          BY <1>1, <4>3, <5>3, <5>5, FactorValue
        <5> QED
          BY <5>6
      <4> QED
        BY <4>4, <4>5
    <3>8. Through(q, A, f)
      BY <3>7
    <3> QED
      BY <2>3, <3>8
  <2> QED
    BY <2>4, <2>5
<1> HIDE DEF T
<1>4. \A A \in SUBSET S : A \in T
  BY <1>1, <1>2, <1>3, AnyInduction
<1> QED
  BY <1>4 DEF T

LEMMA SuffixLength ==
  ASSUME NEW n \in Int, NEW j \in 0 .. n - 1
  PROVE  \E k \in Nat : k = n - j /\ k > 0
OBVIOUS

LEMMA SequenceOf ==
  ASSUME NEW k \in Nat, k > 0, NEW f \in [1 .. k -> Int]
  PROVE  f \in Seq(Int) /\ f # <<>> /\ Len(f) = k
OBVIOUS

(* What follows the first j of n values.                                    *)
Suffix(f, j, n) == [i \in 1 .. n - j |-> f[i + j]]

LEMMA SuffixType ==
  ASSUME NEW n \in Nat, NEW j \in 0 .. n - 1, NEW f \in [1 .. n -> Int]
  PROVE  Suffix(f, j, n) \in Seq(Int) /\ Suffix(f, j, n) # <<>> /\ Len(Suffix(f, j, n)) = n - j
<1> PICK k \in Nat : k = n - j /\ k > 0
  BY SuffixLength
<1>1. \A i \in 1 .. k : i + j \in 1 .. n
  OBVIOUS
<1>2. Suffix(f, j, n) \in [1 .. k -> Int]
  BY <1>1 DEF Suffix
<1> QED
  BY <1>2, SequenceOf

LEMMA HornerSuffix ==
  ASSUME NEW n \in Nat, NEW j \in 0 .. n - 1, NEW c \in [1 .. n -> Int],
         NEW x, NEW m, NEW v, HornerValues(v, c, x, m)
  PROVE  HornerValues(Suffix(v, j, n), Suffix(c, j, n), x, m)
<1> PICK k \in Nat : k = n - j /\ k > 0
  BY SuffixLength
<1>0. Len(c) = n
  OBVIOUS
<1> DEFINE d == [i \in 1 .. k |-> c[i + j]]
           u == [i \in 1 .. k |-> v[i + j]]
<1>1. \A i \in 1 .. n : c[i] \in Int /\ v[i] \in Int
  <2>1. v \in [1 .. n -> Int]
    BY <1>0 DEF HornerValues
  <2> QED
    BY <2>1
<1>2. \A i \in 1 .. k : i + j \in 1 .. n
  OBVIOUS
<1>3. d \in [1 .. k -> Int] /\ u \in [1 .. k -> Int]
  BY <1>1, <1>2
<1>4. d \in Seq(Int) /\ d # <<>> /\ Len(d) = k
  <2> HIDE DEF d
  <2> QED
    BY <1>3, SequenceOf
<1>5. d[k] = c[n] /\ u[k] = v[n]
  <2>1. k \in 1 .. k /\ k + j = n
    OBVIOUS
  <2> QED
    BY <2>1
<1>6. ASSUME NEW i \in 1 .. k - 1 PROVE u[i] = (u[i + 1] * x + d[i]) % m
  <2>1. i \in 1 .. k /\ i + 1 \in 1 .. k /\ i + j \in 1 .. n - 1 /\ (i + 1) + j = (i + j) + 1
    OBVIOUS
  <2>2. u[i] = v[i + j] /\ u[i + 1] = v[(i + j) + 1] /\ d[i] = c[i + j]
    BY <2>1
  <2>3. v[i + j] = (v[(i + j) + 1] * x + c[i + j]) % m
    BY <1>0, <2>1 DEF HornerValues
  <2> HIDE DEF u, d
  <2> QED
    BY <2>2, <2>3
<1>7. v[n] = c[n]
  BY <1>0 DEF HornerValues
<1> HIDE DEF u, d
<1>8. HornerValues(u, d, x, m)
  BY <1>3, <1>4, <1>5, <1>6, <1>7 DEF HornerValues
<1>9. d = Suffix(c, j, n) /\ u = Suffix(v, j, n)
  BY DEF u, d, Suffix
<1> QED
  BY <1>8, <1>9

LEMMA HornerType ==
  ASSUME NEW c \in Seq(Int), NEW x \in Int, NEW m \in Nat, m > 0,
         NEW v, HornerValues(v, c, x, m), \A i \in 1 .. Len(c) : c[i] \in 0 .. m - 1
  PROVE  \A i \in 1 .. Len(c) : v[i] \in 0 .. m - 1
<1> SUFFICES ASSUME NEW i \in 1 .. Len(c) PROVE v[i] \in 0 .. m - 1
  OBVIOUS
<1> PICK n \in Nat : n = Len(c) /\ n > 0
  OBVIOUS
<1>1. n \in 1 .. n
  OBVIOUS
<1>2. CASE i = n
  BY <1>1, <1>2 DEF HornerValues
<1>3. CASE i # n
  <2>1. i \in 1 .. n - 1 /\ i + 1 \in 1 .. n
    BY <1>3
  <2>2. v[i] = (v[i + 1] * x + c[i]) % m /\ v[i + 1] \in Int /\ c[i] \in Int
    BY <2>1 DEF HornerValues
  <2> PICK b \in Int, d \in Int : b = v[i + 1] /\ d = c[i]
    BY <2>2
  <2> PICK w \in Int : w = b * x + d
    BY LinearType, Zenon
  <2>3. w % m \in 0 .. m - 1
    BY Division
  <2> QED
    BY <2>2, <2>3
<1> QED
  BY <1>2, <1>3

(* Two steps of Horner's method that agree, with coefficients that do, had  *)
(* the same value before.                                                   *)
LEMMA StepBack ==
  ASSUME NEW m \in Nat, IsPrime(m), NEW x \in Int, x % m # 0, NEW a \in Int,
         NEW b \in 0 .. m - 1, NEW c \in 0 .. m - 1,
         (b * x + a) % m = (c * x + a) % m
  PROVE  b = c
<1>1. m > 0
  BY PrimeModulus
<1> PICK s \in Int, t \in Int : s = x * b /\ t = x * c
  BY ProductType
<1> PICK e \in Int, n \in Int : e = s + a /\ n = 0 - a
  OBVIOUS
<1> PICK f \in Int : f = t + a
  OBVIOUS
<1>2. Congruent(e, f, m)
  <2>1. b * x + a = e /\ c * x + a = f
    <3>1. b * x = x * b /\ c * x = x * c
      OBVIOUS
    <3> QED
      BY <3>1
  <2> QED
    BY <2>1 DEF Congruent
<1>3. Congruent(n, n, m)
  BY DEF Congruent
<1>4. Congruent(e + n, f + n, m)
  BY <1>1, <1>2, <1>3, CongruentSum
<1>5. e + n = s /\ f + n = t
  OBVIOUS
<1>6. Congruent(b, c, m)
  <2>1. Congruent(x * b, x * c, m)
    BY <1>4, <1>5
  <2>2. b \in Int /\ c \in Int
    OBVIOUS
  <2> QED
    BY <2>1, <2>2, CongruentCancel
<1>7. b % m = b /\ c % m = c
  BY <1>1, SmallRemainder
<1> QED
  BY <1>6, <1>7 DEF Congruent

NonZero(X, S, m) == \A i \in S : X[i] % m # 0
SameValues(c, d, X, S, m) ==
  \A i \in S : EvaluatePolynomial(c, X[i], m) = EvaluatePolynomial(d, X[i], m)

(* A polynomial with k coefficients is determined by the first of them and  *)
(* its values at k - 1 points.                                              *)
LEMMA OnePolynomial ==
  ASSUME NEW S, NEW X, NEW m, Abscissas(X, S, m), NonZero(X, S, m),
         NEW k \in Nat, k > 0, Cardinality(S) = k - 1,
         NEW c \in [1 .. k -> 0 .. m - 1], NEW d \in [1 .. k -> 0 .. m - 1], c[1] = d[1],
         SameValues(c, d, X, S, m)
  PROVE  c = d
<1>1. /\ m \in Nat /\ m > 0 /\ IsPrime(m) /\ IsFiniteSet(S)
      /\ \A i \in S : X[i] \in Int
  BY PrimeModulus DEF Abscissas
<1>2. c \in Seq(Int) /\ c # <<>> /\ Len(c) = k /\ d \in Seq(Int) /\ d # <<>> /\ Len(d) = k
  OBVIOUS
<1> DEFINE Found(f, i, e) ==
             HornerValues(f, e, X[i], m) /\ EvaluatePolynomial(e, X[i], m) = f[1]
           v == [i \in S |-> CHOOSE f : Found(f, i, c)]
           w == [i \in S |-> CHOOSE f : Found(f, i, d)]
<1>3. \A i \in S : Found(v[i], i, c) /\ Found(w[i], i, d)
  <2> SUFFICES ASSUME NEW i \in S PROVE Found(v[i], i, c) /\ Found(w[i], i, d)
    OBVIOUS
  <2>1. (\E f : Found(f, i, c)) /\ (\E f : Found(f, i, d))
    BY <1>1, <1>2, Horner
  <2> HIDE DEF Found
  <2> QED
    BY <2>1
<1> HIDE DEF v, w
<1>4. ASSUME NEW i \in S
      PROVE  /\ HornerValues(v[i], c, X[i], m) /\ HornerValues(w[i], d, X[i], m)
             /\ v[i][1] = w[i][1]
             /\ \A l \in 1 .. k : v[i][l] \in 0 .. m - 1 /\ w[i][l] \in 0 .. m - 1
  <2>1. HornerValues(v[i], c, X[i], m) /\ HornerValues(w[i], d, X[i], m) /\ v[i][1] = w[i][1]
    BY <1>3 DEF SameValues
  <2>2. (\A l \in 1 .. Len(c) : v[i][l] \in 0 .. m - 1)
        /\ (\A l \in 1 .. Len(d) : w[i][l] \in 0 .. m - 1)
    BY <1>1, <1>2, <2>1, HornerType
  <2> QED
    BY <1>2, <2>1, <2>2
<1> DEFINE T == {j \in 0 .. k - 1 :
                   c[j + 1] = d[j + 1] /\ \A i \in S : v[i][j + 1] = w[i][j + 1]}
<1>5. 0 \in T
  BY <1>4
<1>6. ASSUME NEW j \in 0 .. (k - 1) - 1, j \in T PROVE j + 1 \in T
  <2> PICK l \in 1 .. k - 1 : l = j + 1
    OBVIOUS
  <2>1. /\ j + 1 = l /\ (j + 1) + 1 = l + 1 /\ j + 1 \in 0 .. k - 1
        /\ l \in 1 .. k /\ l + 1 \in 1 .. k
    OBVIOUS
  <2>2. ASSUME NEW i \in S PROVE v[i][l + 1] = w[i][l + 1]
    <3>1. c[l] = d[l] /\ v[i][l] = w[i][l] /\ c[l] \in Int
      BY <1>6, <2>1
    <3>2. v[i][l] = (v[i][l + 1] * X[i] + c[l]) % m /\ w[i][l] = (w[i][l + 1] * X[i] + d[l]) % m
      BY <1>2, <1>4 DEF HornerValues
    <3> PICK a \in Int, b \in 0 .. m - 1, e \in 0 .. m - 1, x \in Int :
          a = c[l] /\ b = v[i][l + 1] /\ e = w[i][l + 1] /\ x = X[i]
      BY <1>1, <1>4, <2>1, <3>1
    <3>3. (b * x + a) % m = (e * x + a) % m /\ x % m # 0
      BY <3>1, <3>2 DEF NonZero
    <3> QED
      BY <1>1, <3>3, StepBack
  <2>3. c[l + 1] = d[l + 1]
    <3> DEFINE cl == Suffix(c, l, k)
               dl == Suffix(d, l, k)
               vl == [i \in S |-> Suffix(v[i], l, k)]
               wl == [i \in S |-> Suffix(w[i], l, k)]
    <3>0. l \in 0 .. k - 1 /\ c \in [1 .. k -> Int] /\ d \in [1 .. k -> Int]
      OBVIOUS
    <3>1. /\ cl \in Seq(Int) /\ cl # <<>> /\ Len(cl) = k - l
          /\ dl \in Seq(Int) /\ dl # <<>> /\ Len(dl) = k - l
      BY <3>0, SuffixType
    <3>2. ASSUME NEW i \in S
          PROVE  HornerValues(vl[i], cl, X[i], m) /\ HornerValues(wl[i], dl, X[i], m)
      BY <1>4, <3>0, HornerSuffix
    <3>3. [i \in S |-> vl[i][1]] = [i \in S |-> wl[i][1]]
      <4>1. 1 \in 1 .. k - l /\ 1 + l = l + 1
        OBVIOUS
      <4>2. \A i \in S : vl[i][1] = v[i][l + 1] /\ wl[i][1] = w[i][l + 1]
        BY <4>1 DEF Suffix
      <4> HIDE DEF vl, wl
      <4> QED
        BY <2>2, <4>2
    <3>4. cl[1] = c[l + 1] /\ dl[1] = d[l + 1]
      <4>1. 1 \in 1 .. k - l /\ 1 + l = l + 1
        OBVIOUS
      <4> QED
        BY <4>1 DEF Suffix
    <3> HIDE DEF cl, dl, vl, wl
    <3>5. Len(cl) <= Cardinality(S) /\ Len(dl) <= Cardinality(S)
      <4>1. k - l <= k - 1
        OBVIOUS
      <4> QED
        BY <3>1, <4>1
    <3>6. Congruent(Interpolation(X, S, [i \in S |-> vl[i][1]], m), cl[1], m)
      BY <3>1, <3>2, <3>5, InterpolationAtZero
    <3>7. Congruent(Interpolation(X, S, [i \in S |-> wl[i][1]], m), dl[1], m)
      BY <3>1, <3>2, <3>5, InterpolationAtZero
    <3>8. Congruent(cl[1], dl[1], m)
      BY <3>3, <3>6, <3>7 DEF Congruent
    <3> PICK a \in 0 .. m - 1, b \in 0 .. m - 1 : a = c[l + 1] /\ b = d[l + 1]
      BY <2>1
    <3>9. a % m = a /\ b % m = b
      BY <1>1, SmallRemainder
    <3> QED
      BY <3>4, <3>8, <3>9 DEF Congruent
  <2> QED
    BY <2>1, <2>2, <2>3
<1> HIDE DEF T
<1>7. \A j \in 0 .. k - 1 : j \in T
  <2>1. k - 1 \in Nat
    OBVIOUS
  <2> QED
    BY <1>5, <1>6, <2>1, IntervalInduction
<1>8. ASSUME NEW i \in 1 .. k PROVE c[i] = d[i]
  <2> PICK j \in 0 .. k - 1 : j + 1 = i
    <3>1. i - 1 \in 0 .. k - 1 /\ (i - 1) + 1 = i
      OBVIOUS
    <3> QED
      BY <3>1
  <2> QED
    BY <1>7 DEF T
<1> QED
  BY <1>8

(* Any secret can be the first of k coefficients.                           *)
LEMMA CoefficientsOf ==
  ASSUME NEW m \in Nat, m > 0, NEW k \in Nat, k > 0, NEW guess \in 0 .. m - 1,
         NEW c \in [1 .. k -> 0 .. m - 1], c[1] = guess
  PROVE  c \in Coefficients(guess, k, m)
<1> DEFINE d == [i \in 1 .. k - 1 |-> c[i + 1]]
<1>1. d \in [1 .. k - 1 -> 0 .. m - 1]
  <2>1. \A i \in 1 .. k - 1 : i + 1 \in 1 .. k
    OBVIOUS
  <2> QED
    BY <2>1
<1>2. guess % m = guess
  BY SmallRemainder
<1>3. c = <<guess>> \o d
  <2>1. d \in Seq(0 .. m - 1) /\ Len(d) = k - 1
    <3>1. k - 1 \in Nat
      OBVIOUS
    <3> HIDE DEF d
    <3> QED
      BY <1>1, <3>1
  <2>2. Len(<<guess>> \o d) = k /\ <<guess>> \o d \in Seq(0 .. m - 1)
    <3> HIDE DEF d
    <3> QED
      BY <2>1
  <2>3. ASSUME NEW i \in 1 .. k PROVE c[i] = (<<guess>> \o d)[i]
    <3>1. CASE i = 1
      <4> HIDE DEF d
      <4> QED
        BY <2>1, <3>1
    <3>2. CASE i # 1
      <4>1. i - 1 \in 1 .. k - 1 /\ (i - 1) + 1 = i
        BY <3>2
      <4>2. d[i - 1] = c[i]
        BY <4>1
      <4> HIDE DEF d
      <4>3. (<<guess>> \o d)[i] = d[i - 1]
        BY <2>1, <3>2
      <4> QED
        BY <4>2, <4>3
    <3> QED
      BY <3>1, <3>2
  <2> HIDE DEF d
  <2> PICK e \in Seq(0 .. m - 1) : e = <<guess>> \o d /\ Len(e) = k
    BY <2>2
  <2>4. e = [i \in 1 .. k |-> e[i]]
    OBVIOUS
  <2>5. c = [i \in 1 .. k |-> c[i]]
    OBVIOUS
  <2>6. \A i \in 1 .. k : c[i] = e[i]
    BY <2>3
  <2> QED
    BY <2>4, <2>5, <2>6, Zenon
<1> HIDE DEF d
<1> QED
  BY <1>1, <1>2, <1>3 DEF Coefficients
-----------------------------------------------------------------------------
(* A polynomial as a sum of terms.                                         *)
(* The first j of n terms, added up.                                        *)
LEMMA TermsUpTo ==
  ASSUME NEW n \in Nat, NEW g, \A j \in 1 .. n : g[j] \in Int
  PROVE  \E p \in [0 .. n -> Int] :
           p[0] = 0 /\ \A j \in 1 .. n : p[j] = p[j - 1] + g[j]
<1> DEFINE p == [j \in 0 .. n |-> SumFunctionOnSet(g, 1 .. j)]
<1>1. IsFiniteSet(1 .. n)
  BY FS_Interval
<1>2. ASSUME NEW j \in 0 .. n PROVE 1 .. j \in SUBSET (1 .. n) /\ SumFunctionOnSet(g, 1 .. j) \in Int
  <2>1. 1 .. j \in SUBSET (1 .. n)
    OBVIOUS
  <2> QED
    BY <1>1, <2>1, SumStep
<1>3. p \in [0 .. n -> Int]
  BY <1>2
<1>4. p[0] = 0
  <2>1. 1 .. 0 = {} /\ 0 \in 0 .. n
    OBVIOUS
  <2>2. SumFunctionOnSet(g, {}) = 0
    BY <1>1, SumStep
  <2> QED
    BY <2>1, <2>2
<1>5. ASSUME NEW j \in 1 .. n PROVE p[j] = p[j - 1] + g[j]
  <2>1. j \in 0 .. n /\ j - 1 \in 0 .. n /\ j \in 1 .. j /\ (1 .. j) \ {j} = 1 .. j - 1
    OBVIOUS
  <2>2. IsFiniteSet(1 .. j)
    BY <2>1, FS_Interval
  <2>3. \A i \in 1 .. j : g[i] \in Int
    OBVIOUS
  <2>4. SumFunctionOnSet(g, 1 .. j) = g[j] + SumFunctionOnSet(g, (1 .. j) \ {j})
    BY <2>1, <2>2, <2>3, SumRemove
  <2>5. p[j] = SumFunctionOnSet(g, 1 .. j) /\ p[j - 1] = SumFunctionOnSet(g, 1 .. j - 1)
    BY <2>1
  <2>6. p[j - 1] \in Int /\ g[j] \in Int
    BY <1>3, <2>1
  <2> HIDE DEF p
  <2> PICK a \in Int, b \in Int : a = g[j] /\ b = p[j - 1]
    BY <2>6
  <2>7. p[j] = a + b
    BY <2>1, <2>4, <2>5
  <2>8. a + b = b + a
    OBVIOUS
  <2> QED
    BY <2>7, <2>8
<1> HIDE DEF p
<1> QED
  BY <1>3, <1>4, <1>5

(* The powers of x, and the sums p of the terms of the polynomial with the  *)
(* coefficients e.                                                          *)
PowersOf(x, power, n, m) ==
  power[0] = 1 /\ \A j \in 1 .. n : Congruent(power[j], power[j - 1] * x, m)
Terms(p, e, power, n) ==
  p[0] = 0 /\ \A j \in 1 .. n : p[j] = p[j - 1] + e[j] * power[j - 1]

(* One more term of a polynomial: what is left is the Horner value u, and   *)
(* the power w stands for b * x.                                            *)
LEMMA TermStep ==
  ASSUME NEW m \in Nat, m > 0, NEW x \in Int, NEW b \in Int, NEW w \in Int,
         NEW e \in Int, NEW u \in Int, NEW next \in Int, NEW p \in Int, NEW all \in Int,
         Congruent(w, b * x, m), Congruent(u, next * x + e, m),
         Congruent(p + (b * x) * u, all, m)
  PROVE  Congruent((p + e * w) + (w * x) * next, all, m)
<1> PICK v \in Int, y \in Int, t \in Int : v = b * x /\ y = next * x /\ t = y + e
  <2> PICK v \in Int, y \in Int : v = b * x /\ y = next * x
    BY ProductType
  <2> QED
    OBVIOUS
<1> PICK wt \in Int, wu \in Int, uw \in Int, uv \in Int :
      wt = w * t /\ wu = w * u /\ uw = u * w /\ uv = u * v
  BY ProductType
<1>1. (p + e * w) + (w * x) * next = wt + p
  <2>1. w * (y + e) = w * y + w * e
    OBVIOUS
  <2>2. (w * x) * next = w * (next * x)
    OBVIOUS
  <2> PICK wy \in Int, we \in Int : wy = w * y /\ we = w * e
    BY ProductType
  <2>3. e * w = we
    OBVIOUS
  <2>4. wt = wy + we
    BY <2>1
  <2>5. (w * x) * next = wy
    BY <2>2
  <2> QED
    BY <2>3, <2>4, <2>5
<1>2. Congruent(wt, wu, m)
  <2>1. Congruent(t, u, m)
    BY DEF Congruent
  <2> QED
    BY <2>1, CongruentScaled
<1>3. Congruent(uw, uv, m)
  BY CongruentScaled
<1>4. wu = uw
  OBVIOUS
<1>5. Congruent(wt, uv, m)
  BY <1>2, <1>3, <1>4, CongruentChain
<1>6. Congruent(p, p, m)
  BY DEF Congruent
<1>7. Congruent(wt + p, uv + p, m)
  BY <1>5, <1>6, CongruentSum
<1>8. uv + p = p + (b * x) * u
  <2>1. u * v = v * u
    OBVIOUS
  <2> PICK vu \in Int : vu = v * u
    BY ProductType
  <2> QED
    BY <2>1
<1> QED
  BY <1>1, <1>7, <1>8, CongruentChain

(* Adding up terms yields what Horner's method does.                        *)
LEMMA TermsAreHorner ==
  ASSUME NEW m \in Nat, m > 0, NEW n \in Nat, n > 0, NEW x \in Int,
         NEW e, Values(e, 1 .. n), NEW u, Values(u, 1 .. n + 1),
         NEW power, Values(power, 0 .. n), NEW p \in [0 .. n -> Int],
         HornerSums(u, e, x, n, m), PowersOf(x, power, n, m), Terms(p, e, power, n)
  PROVE  Congruent(p[n], u[1], m)
<1> USE DEF Values, HornerSums, PowersOf, Terms
<1> DEFINE T == {j \in 0 .. n - 1 :
                   Congruent(p[j + 1] + (power[j] * x) * u[j + 2], u[1], m)}
<1>1. 0 \in T
  <2>1. 1 \in 1 .. n /\ 1 - 1 = 0 /\ 1 + 1 = 2 /\ 1 \in 1 .. n + 1 /\ 2 \in 1 .. n + 1
        /\ 0 + 1 = 1 /\ 0 + 2 = 2 /\ 0 \in 0 .. n - 1
    OBVIOUS
  <2> PICK a \in Int, b \in Int, c \in Int : a = e[1] /\ b = u[1] /\ c = u[2]
    BY <2>1
  <2> PICK d \in Int : d = c * x
    BY ProductType
  <2>2. Congruent(b, d + a, m)
    BY <2>1
  <2>3. p[1] = 0 + a * 1
    BY <2>1
  <2>4. p[1] = a
    BY <2>3
  <2>5. (power[0] * x) * c = d
    OBVIOUS
  <2>6. Congruent(a + d, b, m)
    BY <2>2, AddedInEitherOrder
  <2> QED
    BY <2>1, <2>4, <2>5, <2>6
<1>2. ASSUME NEW j \in 0 .. (n - 1) - 1, j \in T PROVE j + 1 \in T
  <2> PICK i \in 2 .. n : i = j + 2 /\ i - 1 = j + 1
    OBVIOUS
  <2>1. /\ i \in 1 .. n /\ i \in 1 .. n + 1 /\ i + 1 \in 1 .. n + 1 /\ 1 \in 1 .. n + 1
        /\ j \in 0 .. n /\ i - 1 \in 0 .. n /\ i - 1 \in 1 .. n /\ (i - 1) - 1 = j
        /\ (j + 1) + 1 = i /\ (j + 1) + 2 = i + 1 /\ j + 1 \in 0 .. n - 1
    OBVIOUS
  <2> PICK b \in Int, w \in Int, f \in Int, v \in Int, next \in Int, q \in Int, all \in Int :
        /\ b = power[j] /\ w = power[i - 1] /\ f = e[i] /\ v = u[i] /\ next = u[i + 1]
        /\ q = p[i - 1] /\ all = u[1]
    BY <2>1
  <2>2. Congruent(q + (b * x) * v, all, m)
    BY <1>2
  <2>3. Congruent(v, next * x + f, m) /\ Congruent(w, b * x, m)
    BY <2>1
  <2>4. p[i] = q + f * w
    BY <2>1
  <2> HIDE DEF T
  <2>5. Congruent((q + f * w) + (w * x) * next, all, m)
    BY <2>2, <2>3, TermStep
  <2> QED
    BY <2>1, <2>4, <2>5 DEF T
<1> HIDE DEF T
<1>3. n - 1 \in T
  <2>1. n - 1 \in Nat /\ n - 1 \in 0 .. n - 1
    OBVIOUS
  <2> QED
    BY <1>1, <1>2, <2>1, IntervalInduction
<1>4. Congruent(p[n] + (power[n - 1] * x) * u[n + 1], u[1], m)
  <2>1. (n - 1) + 1 = n /\ (n - 1) + 2 = n + 1
    OBVIOUS
  <2> QED
    BY <1>3, <2>1 DEF T
<1>5. p[n] + (power[n - 1] * x) * u[n + 1] = p[n]
  <2>1. n - 1 \in 0 .. n /\ n \in 0 .. n
    OBVIOUS
  <2> PICK b \in Int, q \in Int : b = power[n - 1] /\ q = p[n]
    BY <2>1
  <2> PICK c \in Int : c = b * x
    BY ProductType
  <2>2. q + c * 0 = q
    OBVIOUS
  <2> QED
    BY <2>2
<1> QED
  BY <1>4, <1>5

(* Horner's method is linear.                                               *)
LEMMA BlindedStep ==
  ASSUME NEW m \in Nat, m > 0, NEW x \in Int, NEW a \in Int, NEW b \in Int,
         NEW v \in Int, NEW w \in Int, NEW v1 \in Int, NEW w1 \in Int,
         Congruent(v, v1 * x + a, m), Congruent(w, w1 * x + b, m)
  PROVE  Congruent(v + 2 * w, (v1 + 2 * w1) * x + (a + 2 * b), m)
<1> PICK vx \in Int, wx \in Int, two \in Int : vx = v1 * x /\ wx = w1 * x /\ two = 2
  <2> PICK vx \in Int, wx \in Int : vx = v1 * x /\ wx = w1 * x
    BY ProductType
  <2> QED
    OBVIOUS
<1> PICK f \in Int, g \in Int : f = vx + a /\ g = wx + b
  OBVIOUS
<1>1. Congruent(two * w, two * g, m)
  <2>1. Congruent(w, g, m)
    OBVIOUS
  <2> QED
    BY <2>1, CongruentScaled
<1> PICK y \in Int, z \in Int : y = two * w /\ z = two * g
  BY ProductType
<1>2. Congruent(v + y, f + z, m)
  <2>1. Congruent(v, f, m)
    OBVIOUS
  <2> QED
    BY <1>1, <2>1, CongruentSum
<1>3. f + z = (v1 + 2 * w1) * x + (a + 2 * b)
  <2>1. (v1 + 2 * w1) * x = vx + 2 * wx
    OBVIOUS
  <2>2. z = 2 * wx + 2 * b
    OBVIOUS
  <2> QED
    BY <2>1, <2>2
<1> QED
  BY <1>2, <1>3
=============================================================================
