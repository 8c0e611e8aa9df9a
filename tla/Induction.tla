------------------------------ MODULE Induction ------------------------------
(***************************************************************************)
(* Facts that need induction, for the proofs of the other modules: sums    *)
(* over finite sets and selections from sequences.  Induction is over      *)
(* sets: what is to be shown for all numbers is a set of numbers that      *)
(* contains 0 and, with each number, the next.                             *)
(***************************************************************************)
EXTENDS Integers, Sequences, FiniteSets, FiniteSetTheorems, SequenceTheorems,
        WellFoundedInduction, TLAPS

(* Any set of natural numbers that is not empty has a least member.        *)
LEMMA LeastMember ==
    ASSUME NEW T, T \subseteq Nat, T # {}
    PROVE  \E n \in T : \A m \in T : n <= m
<1> DEFINE R == {p \in Nat \X Nat : p[1] < p[2]}
<1>1. IsWellFoundedOn(R, Nat)
  BY NatLessThanWellFounded, Zenon DEF OpToRel
<1>2. PICK n \in T : \A m \in T : <<m, n>> \notin R
  <2> HIDE DEF R
  <2> QED  BY <1>1, WFMin
<1>3. ASSUME NEW m \in T PROVE n <= m
  <2>1. m \in Nat /\ n \in Nat /\ <<m, n>> \in Nat \X Nat
    OBVIOUS
  <2>2. ~(m < n)
    BY <1>2, <2>1
  <2>3. QED  BY <2>1, <2>2
<1>4. QED  BY <1>3

(* And one that is bounded has a greatest.                                 *)
LEMMA GreatestMember ==
    ASSUME NEW N \in Nat, NEW T, T \subseteq 0..N, T # {}
    PROVE  \E n \in T : \A m \in T : m <= n
<1> DEFINE D == {N - n : n \in T}
<1>1. PICK d \in D : \A m \in D : d <= m
  <2>1. \A n \in T : N - n \in Nat
    OBVIOUS
  <2>2. D \subseteq Nat
    BY <2>1
  <2>3. D # {}
    OBVIOUS
  <2> HIDE DEF D
  <2>4. QED  BY <2>2, <2>3, LeastMember
<1>2. PICK n \in T : d = N - n
  OBVIOUS
<1>3. ASSUME NEW m \in T PROVE m <= n
  <2>1. N - m \in D /\ m \in 0..N /\ n \in 0..N
    OBVIOUS
  <2>2. N - n <= N - m
    BY <1>1, <1>2, <2>1
  <2>3. QED  BY <2>1, <2>2
<1>4. QED  BY <1>3

(* Induction over the natural numbers.                                     *)
LEMMA AllNumbers ==
    ASSUME NEW T, T \subseteq Nat, 0 \in T, \A n \in T : n + 1 \in T
    PROVE  T = Nat
<1>1. SUFFICES ASSUME Nat \ T # {} PROVE FALSE
  OBVIOUS
<1>2. PICK n \in Nat \ T : \A m \in Nat \ T : n <= m
  BY <1>1, LeastMember
<1>3. n # 0 /\ n - 1 \in Nat /\ n - 1 \in T
  BY <1>2
<1>4. QED  BY <1>2, <1>3

(* The subsets of a finite set are finite and no larger.                   *)
LEMMA SizeOfSubset ==
    ASSUME NEW U, IsFiniteSet(U), NEW s \in SUBSET U
    PROVE  /\ IsFiniteSet(s)
           /\ Cardinality(s) \in Nat
           /\ Cardinality(s) <= Cardinality(U)
           /\ Cardinality(s) = 0 <=> s = {}
           /\ \A x \in s : Cardinality(s \ {x}) = Cardinality(s) - 1
BY FS_Subset, FS_CardinalityType, FS_EmptySet, FS_RemoveElement

(* Induction over the subsets of a finite set.                             *)
LEMMA AllSubsets ==
    ASSUME NEW U, IsFiniteSet(U), NEW T, {} \in T,
           \A s \in SUBSET U : s # {} /\ (\A x \in s : s \ {x} \in T) => s \in T
    PROVE  U \in T
<1> DEFINE N == {n \in Nat : \A s \in SUBSET U : Cardinality(s) = n => s \in T}
<1>1. 0 \in N
  BY SizeOfSubset
<1>2. ASSUME NEW n \in N PROVE n + 1 \in N
  <2> SUFFICES ASSUME NEW s \in SUBSET U, Cardinality(s) = n + 1 PROVE s \in T
    OBVIOUS
  <2>1. s # {} /\ \A x \in s : Cardinality(s \ {x}) = n /\ s \ {x} \in SUBSET U
    BY SizeOfSubset
  <2>2. QED  BY <2>1
<1>3. N = Nat
  <2>1. N \subseteq Nat
    OBVIOUS
  <2> HIDE DEF N
  <2>2. QED  BY <1>1, <1>2, <2>1, AllNumbers
<1>4. QED  BY <1>3, SizeOfSubset

-----------------------------------------------------------------------------
(* Sums over a finite set: f is the function that MapThenSumSet chooses,   *)
(* for the weights w of the members of U.                                  *)

AnyOf(s) == CHOOSE x \in s : TRUE

IsSum(f, w, U) ==
    f = [s \in SUBSET U |-> IF s = {} THEN 0 ELSE w[AnyOf(s)] + f[s \ {AnyOf(s)}]]

LEMMA AnyOfIsMember == \A s : s # {} => AnyOf(s) \in s
BY DEF AnyOf

(* There is such a function.                                               *)
LEMMA SumExists ==
    ASSUME NEW U, IsFiniteSet(U), NEW w
    PROVE  \E f : IsSum(f, w, U)
<1> DEFINE UpTo(n) == {s \in SUBSET U : Cardinality(s) <= n}
           Value(f, s) == IF s = {} THEN 0 ELSE w[AnyOf(s)] + f[s \ {AnyOf(s)}]
           N == {n \in Nat : \E f : f = [s \in UpTo(n) |-> Value(f, s)]}
<1>1. 0 \in N
  <2>1. \A s \in UpTo(0) : s = {}
    BY SizeOfSubset
  <2>2. [s \in UpTo(0) |-> 0] = [s \in UpTo(0) |-> Value([t \in UpTo(0) |-> 0], s)]
    BY <2>1
  <2>3. QED  BY <2>2
<1>2. ASSUME NEW n \in N PROVE n + 1 \in N
  <2>1. PICK f : f = [s \in UpTo(n) |-> Value(f, s)]
    OBVIOUS
  <2> DEFINE g == [s \in UpTo(n + 1) |-> Value(f, s)]
  <2>2. UpTo(n) \subseteq UpTo(n + 1)
    BY SizeOfSubset
  <2>3. \A s \in UpTo(n) : f[s] = Value(f, s)
    BY <2>1
  <2>4. \A s \in UpTo(n) : g[s] = f[s]
    BY <2>2, <2>3
  <2>5. \A s \in UpTo(n + 1) : s # {} => s \ {AnyOf(s)} \in UpTo(n)
    BY SizeOfSubset, AnyOfIsMember
  <2>6. \A s \in UpTo(n + 1) : Value(f, s) = Value(g, s)
    BY <2>4, <2>5
  <2>7. g = [s \in UpTo(n + 1) |-> Value(g, s)]
    BY <2>6
  <2>8. n + 1 \in Nat
    OBVIOUS
  <2> HIDE DEF g, UpTo, Value
  <2>9. QED  BY <2>7, <2>8
<1>3. Cardinality(U) \in N
  <2>1. N \subseteq Nat
    OBVIOUS
  <2> HIDE DEF N
  <2>2. QED  BY <1>1, <1>2, <2>1, AllNumbers, SizeOfSubset
<1>4. UpTo(Cardinality(U)) = SUBSET U
  BY SizeOfSubset
<1>5. QED  BY <1>3, <1>4 DEF IsSum

(* A sum of zeros is zero.                                                 *)
LEMMA SumOfZeros ==
    ASSUME NEW U, IsFiniteSet(U), NEW w, NEW f, IsSum(f, w, U),
           \A x \in U : w[x] = 0
    PROVE  f[U] = 0
<1> DEFINE T == {s \in SUBSET U : f[s] = 0}
<1>1. {} \in T
  BY DEF IsSum
<1>2. ASSUME NEW s \in SUBSET U, s # {}, \A x \in s : s \ {x} \in T PROVE s \in T
  <2>1. AnyOf(s) \in s
    BY <1>2, AnyOfIsMember
  <2>2. f[s] = w[AnyOf(s)] + f[s \ {AnyOf(s)}]
    BY <1>2 DEF IsSum
  <2>3. QED  BY <1>2, <2>1, <2>2
<1>3. U \in T
  <2> HIDE DEF T
  <2> QED  BY <1>1, <1>2, AllSubsets
<1>4. QED  BY <1>3

(* One more in one place is one more in the sum.                           *)
LEMMA SumOfOneMore ==
    ASSUME NEW U, IsFiniteSet(U), NEW w \in [U -> Int], NEW f, IsSum(f, w, U),
           NEW x \in U, NEW v, \A y \in U : v[y] = w[y] + (IF y = x THEN 1 ELSE 0),
           NEW g, IsSum(g, v, U)
    PROVE  g[U] = f[U] + 1
<1> DEFINE T == {s \in SUBSET U : f[s] \in Int /\ g[s] = f[s] + (IF x \in s THEN 1 ELSE 0)}
<1>1. {} \in T
  BY DEF IsSum
<1>2. ASSUME NEW s \in SUBSET U, s # {}, \A y \in s : s \ {y} \in T PROVE s \in T
  <2> DEFINE c == AnyOf(s)
  <2>1. c \in s /\ s \ {c} \in T
    BY <1>2, AnyOfIsMember
  <2>2. f[s] = w[c] + f[s \ {c}] /\ g[s] = v[c] + g[s \ {c}]
    BY <1>2 DEF IsSum
  <2>3. v[c] = w[c] + (IF c = x THEN 1 ELSE 0) /\ w[c] \in Int
    BY <2>1
  <2>4. QED  BY <2>1, <2>2, <2>3
<1>3. U \in T
  <2> HIDE DEF T
  <2> QED  BY <1>1, <1>2, AllSubsets
<1>4. QED  BY <1>3

-----------------------------------------------------------------------------
(* Selections from a sequence: f[i] is what is left of the first i members *)
(* of t when only those in W are kept.                                     *)

IsSelection(f, t, W) ==
    f = [i \in 0..Len(t) |->
           IF i = 0 THEN <<>> ELSE IF t[i] \in W THEN Append(f[i - 1], t[i]) ELSE f[i - 1]]

(* What is selected from no more than the first i members.                 *)
LEMMA SelectionStep ==
    ASSUME NEW S, NEW t \in Seq(S), NEW W, NEW f, IsSelection(f, t, W)
    PROVE  /\ f[0] = <<>>
           /\ \A i \in 1..Len(t) : f[i] = IF t[i] \in W THEN Append(f[i - 1], t[i]) ELSE f[i - 1]
<1>1. Len(t) \in Nat
  OBVIOUS
<1> DEFINE n == Len(t)
<1> HIDE DEF n
<1>2. f = [i \in 0..n |->
             IF i = 0 THEN <<>> ELSE IF t[i] \in W THEN Append(f[i - 1], t[i]) ELSE f[i - 1]]
  BY DEF IsSelection, n
<1>3. n \in Nat
  BY <1>1 DEF n
<1>4. f[0] = <<>>
  BY <1>2, <1>3
<1>5. ASSUME NEW i \in 1..n
      PROVE  f[i] = IF t[i] \in W THEN Append(f[i - 1], t[i]) ELSE f[i - 1]
  <2>1. i \in 0..n /\ i # 0
    BY <1>3
  <2>2. QED  BY <1>2, <2>1, Zenon
<1>6. QED  BY <1>4, <1>5 DEF n

(* There is such a function.                                               *)
LEMMA SelectionExists ==
    ASSUME NEW S, NEW t \in Seq(S), NEW W
    PROVE  \E f : IsSelection(f, t, W)
<1> DEFINE Value(f, i) ==
             IF i = 0 THEN <<>> ELSE IF t[i] \in W THEN Append(f[i - 1], t[i]) ELSE f[i - 1]
           N == {n \in Nat : \E f : f = [i \in 0..n |-> Value(f, i)]}
<1>1. 0 \in N
  <2>1. [i \in 0..0 |-> <<>>] = [i \in 0..0 |-> Value([j \in 0..0 |-> <<>>], i)]
    OBVIOUS
  <2>2. QED  BY <2>1
<1>2. ASSUME NEW n \in N PROVE n + 1 \in N
  <2>1. PICK f : f = [i \in 0..n |-> Value(f, i)]
    OBVIOUS
  <2> DEFINE g == [i \in 0..(n + 1) |-> Value(f, i)]
  <2>2. \A i \in 0..n : f[i] = Value(f, i)
    BY <2>1
  <2>3. \A i \in 0..n : g[i] = f[i]
    BY <2>2
  <2>4. \A i \in 0..(n + 1) : i # 0 => i - 1 \in 0..n
    OBVIOUS
  <2>5. \A i \in 0..(n + 1) : Value(f, i) = Value(g, i)
    BY <2>3, <2>4
  <2>6. g = [i \in 0..(n + 1) |-> Value(g, i)]
    BY <2>5
  <2>7. n + 1 \in Nat
    OBVIOUS
  <2> HIDE DEF g, Value
  <2>8. QED  BY <2>6, <2>7
<1>3. Len(t) \in N
  <2>1. N \subseteq Nat
    OBVIOUS
  <2> HIDE DEF N
  <2>2. Len(t) \in Nat
    OBVIOUS
  <2>3. QED  BY <1>1, <1>2, <2>1, <2>2, AllNumbers
<1>4. QED  BY <1>3 DEF IsSelection

(* What is selected are members of the sequence, in a sequence.            *)
LEMMA SelectionType ==
    ASSUME NEW S, NEW t \in Seq(S), NEW W, NEW f, IsSelection(f, t, W)
    PROVE  f[Len(t)] \in Seq(S)
<1> DEFINE N == {n \in Nat : n <= Len(t) => f[n] \in Seq(S)}
<1>1. 0 \in N
  <2>1. f[0] = <<>>
    BY SelectionStep
  <2>2. <<>> \in Seq(S)
    OBVIOUS
  <2>3. QED  BY <2>1, <2>2
<1>2. ASSUME NEW n \in N PROVE n + 1 \in N
  <2> SUFFICES ASSUME n + 1 <= Len(t) PROVE f[n + 1] \in Seq(S)
    OBVIOUS
  <2>0. n + 1 \in 1..Len(t) /\ (n + 1) - 1 = n
    OBVIOUS
  <2>1. f[n + 1] = IF t[n + 1] \in W THEN Append(f[n], t[n + 1]) ELSE f[n]
    BY <2>0, SelectionStep
  <2>2. f[n] \in Seq(S) /\ t[n + 1] \in S
    OBVIOUS
  <2>3. QED  BY <2>1, <2>2
<1>3. Len(t) \in N
  <2>1. N \subseteq Nat
    OBVIOUS
  <2> HIDE DEF N
  <2>2. Len(t) \in Nat
    OBVIOUS
  <2>3. QED  BY <1>1, <1>2, <2>1, <2>2, AllNumbers
<1>4. QED  BY <1>3

(* One more in the sequence is one more in the selection, or none.         *)
LEMMA SelectionOfAppend ==
    ASSUME NEW S, NEW t \in Seq(S), NEW e \in S, NEW W,
           NEW f, IsSelection(f, t, W), NEW g, IsSelection(g, Append(t, e), W)
    PROVE  g[Len(t) + 1] = IF e \in W THEN Append(f[Len(t)], e) ELSE f[Len(t)]
<1> DEFINE N == {n \in Nat : n <= Len(t) => g[n] = f[n]}
           u == Append(t, e)
<1>1. /\ Len(u) = Len(t) + 1
      /\ \A i \in 1..Len(t) : u[i] = t[i]
      /\ u[Len(t) + 1] = e
  OBVIOUS
<1>2. /\ g[0] = <<>>
      /\ \A i \in 1..(Len(t) + 1) : g[i] = IF u[i] \in W THEN Append(g[i - 1], u[i]) ELSE g[i - 1]
  <2>1. u \in Seq(S)
    OBVIOUS
  <2> HIDE DEF u
  <2>2. IsSelection(g, u, W)
    BY DEF u
  <2>3. QED  BY <1>1, <2>1, <2>2, SelectionStep
<1>3. /\ f[0] = <<>>
      /\ \A i \in 1..Len(t) : f[i] = IF t[i] \in W THEN Append(f[i - 1], t[i]) ELSE f[i - 1]
  BY SelectionStep
<1>4. 0 \in N
  BY <1>2, <1>3
<1>5. ASSUME NEW n \in N PROVE n + 1 \in N
  <2> HIDE DEF u
  <2> SUFFICES ASSUME n + 1 <= Len(t) PROVE g[n + 1] = f[n + 1]
    OBVIOUS
  <2>1. n + 1 \in 1..Len(t) /\ (n + 1) - 1 = n
    OBVIOUS
  <2>2. QED  BY <1>1, <1>2, <1>3, <2>1
<1>6. Len(t) \in N
  <2>1. N \subseteq Nat
    OBVIOUS
  <2> HIDE DEF N
  <2>2. Len(t) \in Nat
    OBVIOUS
  <2>3. QED  BY <1>4, <1>5, <2>1, <2>2, AllNumbers
<1>7. QED
  <2> HIDE DEF u
  <2>1. Len(t) + 1 \in 1..(Len(t) + 1) /\ (Len(t) + 1) - 1 = Len(t)
    OBVIOUS
  <2>2. QED  BY <1>1, <1>2, <1>6, <2>1
=============================================================================
