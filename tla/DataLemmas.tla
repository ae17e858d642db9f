----------------------------- MODULE DataLemmas -----------------------------
(***************************************************************************)
(* Facts about numbers and sequences that the proofs about the components   *)
(* share: least and greatest elements, remainders, the elements of a        *)
(* sequence, and sequences whose elements increase.                         *)
(***************************************************************************)
EXTENDS Integers, Sequences, SequencesExt, Selections, SequenceTheorems,
        WellFoundedInduction, TLAPS

(***************************************************************************)
(* Numbers.                                                                 *)
(***************************************************************************)
\* A set of naturals has a least element.  A property of every natural that
\* holds of n when it holds below n is proved from this: the set of those that
\* lack it has no least element.
LEMMA LeastNat ==
    ASSUME NEW T \in SUBSET Nat, T # {}
    PROVE  \E m \in T : \A k \in T : m <= k
<1>1. PICK m \in T : \A y \in T : <<y, m>> \notin OpToRel(<, Nat)
  BY NatLessThanWellFounded, WFMin
<1>2. ASSUME NEW k \in T PROVE m <= k
  <2>1. m \in Nat /\ k \in Nat /\ <<k, m>> \notin OpToRel(<, Nat)
    BY <1>1, <1>2
  <2> QED
    BY <2>1 DEF OpToRel
<1> QED
  BY <1>2

LEMMA MaxOfIndices ==
    ASSUME NEW n \in Nat, NEW T \in SUBSET (1..n), T # {}
    PROVE  Max(T) \in T /\ \A i \in T : i <= Max(T)
<1> DEFINE U == {n - i : i \in T}
<1>1. U \in SUBSET Nat /\ U # {}
  <2>1. ASSUME NEW i \in T PROVE n - i \in Nat
    <3>1. i \in 1..n
      OBVIOUS
    <3> QED
      BY <3>1
  <2> QED
    BY <2>1
<1>2. PICK m \in U : \A k \in U : m <= k
  BY <1>1, LeastNat
<1>3. PICK i \in T : m = n - i
  BY <1>2
<1>4. ASSUME NEW j \in T PROVE i >= j
  <2>1. i \in 1..n /\ j \in 1..n /\ n - i <= n - j
    BY <1>2, <1>3
  <2> QED
    BY <2>1
<1>5. Max(T) \in T /\ \A j \in T : Max(T) >= j
  BY <1>3, <1>4 DEF Max
<1>6. ASSUME NEW j \in T PROVE j <= Max(T)
  <2>1. Max(T) \in 1..n /\ j \in 1..n /\ Max(T) >= j
    BY <1>5
  <2> QED
    BY <2>1
<1> QED
  BY <1>5, <1>6

\* The element with which the search for the greatest one ends.
LEMMA MaxIs ==
    ASSUME NEW T \in SUBSET Nat, NEW i \in T, \A j \in T : j <= i
    PROVE  Max(T) = i
<1>1. ASSUME NEW j \in T PROVE i >= j
  <2>1. i \in Nat /\ j \in Nat /\ j <= i
    OBVIOUS
  <2> QED
    BY <2>1
<1>2. Max(T) \in T /\ \A j \in T : Max(T) >= j
  BY <1>1 DEF Max
<1>3. Max(T) \in Nat /\ i \in Nat /\ Max(T) >= i /\ Max(T) <= i
  BY <1>2
<1> QED
  BY <1>3

LEMMA DivisionProperties ==
    ASSUME NEW P \in Nat \ {0}, NEW n \in Nat
    PROVE  n \div P \in Nat /\ n % P \in 0..(P - 1) /\ n = P * (n \div P) + (n % P)
  OBVIOUS

LEMMA ProductBounds ==
    ASSUME NEW P \in Nat \ {0}, NEW d \in Int
    PROVE  (d >= 1 => P * d >= P) /\ (d <= -1 => P * d <= -P)
  OBVIOUS

LEMMA RemainderIsUnique ==
    ASSUME NEW P \in Nat \ {0}, NEW q \in Nat, NEW r \in 0..(P - 1)
    PROVE  (P * q + r) % P = r
<1>a. PICK a : a = P * q + r
  OBVIOUS
<1>b. PICK b : b = a \div P
  OBVIOUS
<1>c. PICK c : c = a % P
  OBVIOUS
<1>1. P * q \in Nat /\ a \in Nat
  BY <1>a
<1>2. b \in Nat /\ c \in 0..(P - 1) /\ a = P * b + c
  BY <1>1, <1>b, <1>c, DivisionProperties
<1>3. PICK d \in Int : d = q - b
  BY <1>2
<1>4. P * b \in Nat /\ P * d \in Int /\ P * d = P * q - P * b
  BY <1>2, <1>3
<1>5. P * d = c - r
  BY <1>1, <1>2, <1>4, <1>a
<1>6. d = 0
  BY <1>2, <1>5, <1>4, ProductBounds
<1>7. P * d = 0
  BY <1>6
<1> QED
  BY <1>2, <1>5, <1>7, <1>a, <1>c

\* Counting around a ring of P places.
LEMMA RemainderOfSuccessor ==
    ASSUME NEW P \in Nat \ {0}, NEW n \in Nat
    PROVE  (n + 1) % P = IF (n % P) + 1 = P THEN 0 ELSE (n % P) + 1
<1>b. PICK b : b = n \div P
  OBVIOUS
<1>c. PICK c : c = n % P
  OBVIOUS
<1>1. b \in Nat /\ c \in 0..(P - 1) /\ n = P * b + c /\ P * b \in Nat
  <2>1. b \in Nat /\ c \in 0..(P - 1) /\ n = P * b + c
    BY <1>b, <1>c, DivisionProperties
  <2> QED
    BY <2>1
<1>2. CASE c + 1 = P
  <2>1. n + 1 = P * (b + 1) + 0
    BY <1>1, <1>2
  <2>2. (P * (b + 1) + 0) % P = 0
    BY <1>1, RemainderIsUnique
  <2> QED
    BY <1>2, <1>c, <2>1, <2>2
<1>3. CASE c + 1 # P
  <2>1. n + 1 = P * b + (c + 1)
    BY <1>1, <1>3
  <2>2. (P * b + (c + 1)) % P = c + 1
    BY <1>1, <1>3, RemainderIsUnique
  <2> QED
    BY <1>3, <1>c, <2>1, <2>2
<1> QED
  BY <1>2, <1>3

-----------------------------------------------------------------------------
(***************************************************************************)
(* Sequences.                                                               *)
(***************************************************************************)
LEMMA ToSetType ==
    ASSUME NEW S, NEW s \in Seq(S)
    PROVE  ToSet(s) \subseteq S
  BY LenProperties, ElementOfSeq DEF ToSet

LEMMA ToSetOfConcat ==
    ASSUME NEW S, NEW s \in Seq(S), NEW t \in Seq(S)
    PROVE  ToSet(s \o t) = ToSet(s) \cup ToSet(t)
<1> DEFINE u == s \o t
<1>1. /\ DOMAIN s = 1..Len(s) /\ DOMAIN t = 1..Len(t) /\ DOMAIN u = 1..(Len(s) + Len(t))
      /\ Len(s) \in Nat /\ Len(t) \in Nat
      /\ \A i \in 1..(Len(s) + Len(t)) :
             u[i] = IF i <= Len(s) THEN s[i] ELSE t[i - Len(s)]
  BY ConcatProperties, LenProperties
<1> HIDE DEF u
<1>2. ASSUME NEW i \in DOMAIN u PROVE u[i] \in ToSet(s) \cup ToSet(t)
  <2>1. CASE i <= Len(s)
    BY <1>1, <1>2, <2>1 DEF ToSet
  <2>2. CASE i > Len(s)
    <3>1. u[i] = t[i - Len(s)] /\ i - Len(s) \in DOMAIN t
      BY <1>1, <1>2, <2>2
    <3> QED
      BY <3>1 DEF ToSet
  <2> QED
    BY <1>1, <1>2, <2>1, <2>2
<1>3. ASSUME NEW i \in DOMAIN s PROVE s[i] \in ToSet(u)
  <2>1. i \in DOMAIN u /\ u[i] = s[i]
    BY <1>1, <1>3
  <2> QED
    BY <2>1 DEF ToSet
<1>4. ASSUME NEW i \in DOMAIN t PROVE t[i] \in ToSet(u)
  <2>1. i + Len(s) \in DOMAIN u /\ u[i + Len(s)] = t[i]
    BY <1>1, <1>4
  <2> QED
    BY <2>1 DEF ToSet
<1> QED
  BY <1>2, <1>3, <1>4 DEF ToSet, u

LEMMA ToSetOfAppend ==
    ASSUME NEW S, NEW s \in Seq(S), NEW x \in S
    PROVE  ToSet(Append(s, x)) = ToSet(s) \cup {x}
<1>1. Append(s, x) = s \o <<x>> /\ <<x>> \in Seq(S)
  BY AppendIsConcat
<1>2. ToSet(<<x>>) = {x}
  BY DEF ToSet
<1>3. ToSet(s \o <<x>>) = ToSet(s) \cup ToSet(<<x>>)
  BY <1>1, ToSetOfConcat
<1> QED
  BY <1>1, <1>2, <1>3

\* The overlay's read moves the first payload on the wire within the path.
LEMMA ReadKeepsConcat ==
    ASSUME NEW S, NEW s \in Seq(S), NEW t \in Seq(S), t # <<>>
    PROVE  Append(s, Head(t)) \o Tail(t) = s \o t
<1>1. Head(t) \in S /\ Tail(t) \in Seq(S)
  BY HeadTailProperties
<1>2. <<Head(t)>> \in Seq(S) /\ <<Head(t)>> \o Tail(t) = t
  <2>1. <<Head(t)>> \in Seq(S) /\ Len(<<Head(t)>>) = 1 /\ <<Head(t)>>[1] = t[1]
    BY <1>1
  <2>2. /\ <<Head(t)>> \o Tail(t) \in Seq(S)
        /\ Len(<<Head(t)>> \o Tail(t)) = 1 + Len(Tail(t))
        /\ \A i \in 1..(1 + Len(Tail(t))) : (<<Head(t)>> \o Tail(t))[i] =
               IF i <= 1 THEN <<Head(t)>>[i] ELSE Tail(t)[i - 1]
    BY <1>1, <2>1, ConcatProperties
  <2>3. /\ Len(t) \in Nat /\ Len(Tail(t)) = Len(t) - 1
        /\ \A i \in 1..Len(Tail(t)) : Tail(t)[i] = t[i + 1]
    BY HeadTailProperties, LenProperties
  <2>4. ASSUME NEW i \in 1..Len(t) PROVE (<<Head(t)>> \o Tail(t))[i] = t[i]
    <3>1. CASE i = 1
      BY <2>1, <2>2, <2>3, <2>4, <3>1
    <3>2. CASE i # 1
      <4>1. i - 1 \in 1..Len(Tail(t)) /\ (i - 1) + 1 = i
        BY <2>3, <2>4, <3>2
      <4>2. Tail(t)[i - 1] = t[i]
        BY <2>3, <4>1
      <4> QED
        BY <2>2, <2>3, <4>1, <4>2
    <3> QED
      BY <3>1, <3>2
  <2> QED
    BY <2>1, <2>2, <2>3, <2>4, SeqEqual
<1>3. Append(s, Head(t)) = s \o <<Head(t)>>
  BY <1>1, AppendIsConcat
<1> QED
  BY <1>1, <1>2, <1>3, ConcatAssociative

LEMMA AppendToConcat ==
    ASSUME NEW S, NEW s \in Seq(S), NEW t \in Seq(S), NEW x \in S
    PROVE  s \o Append(t, x) = Append(s \o t, x)
<1>1. <<x>> \in Seq(S) /\ s \o t \in Seq(S)
  BY ConcatProperties
<1>2. Append(t, x) = t \o <<x>> /\ Append(s \o t, x) = (s \o t) \o <<x>>
  BY <1>1, AppendIsConcat
<1> QED
  BY <1>1, <1>2, ConcatAssociative

Increasing(s) == \A i, j \in DOMAIN s : i < j => s[i] < s[j]

\* A payload newer than all of the path may be added to it.
LEMMA IncreasingAppend ==
    ASSUME NEW s \in Seq(Nat), Increasing(s), NEW x \in Nat, \A y \in ToSet(s) : y < x
    PROVE  Increasing(Append(s, x))
<1> DEFINE u == Append(s, x)
<1>1. /\ DOMAIN s = 1..Len(s) /\ DOMAIN u = 1..(Len(s) + 1) /\ Len(s) \in Nat
      /\ u[Len(s) + 1] = x /\ \A i \in 1..Len(s) : u[i] = s[i] /\ s[i] \in Nat
  BY AppendProperties, LenProperties, ElementOfSeq
<1> HIDE DEF u
<1>2. ASSUME NEW i \in DOMAIN u, NEW j \in DOMAIN u, i < j PROVE u[i] < u[j]
  <2>1. i \in DOMAIN s /\ u[i] = s[i]
    BY <1>1, <1>2
  <2>2. CASE j = Len(s) + 1
    BY <1>1, <2>1, <2>2 DEF ToSet
  <2>3. CASE j # Len(s) + 1
    <3>1. j \in DOMAIN s /\ u[j] = s[j]
      BY <1>1, <1>2, <2>3
    <3> QED
      BY <1>2, <2>1, <3>1 DEF Increasing
  <2> QED
    BY <2>2, <2>3
<1> QED
  BY <1>2 DEF Increasing, u

\* The first part of an increasing sequence is increasing, and shares nothing
\* with the second.
LEMMA IncreasingConcat ==
    ASSUME NEW s \in Seq(Nat), NEW t \in Seq(Nat), Increasing(s \o t)
    PROVE  Increasing(s) /\ ToSet(s) \cap ToSet(t) = {}
<1> DEFINE u == s \o t
<1>1. /\ DOMAIN s = 1..Len(s) /\ DOMAIN t = 1..Len(t) /\ DOMAIN u = 1..(Len(s) + Len(t))
      /\ Len(s) \in Nat /\ Len(t) \in Nat
      /\ \A i \in 1..(Len(s) + Len(t)) :
             u[i] = IF i <= Len(s) THEN s[i] ELSE t[i - Len(s)]
  BY ConcatProperties, LenProperties
<1>u. Increasing(u)
  OBVIOUS
<1> HIDE DEF u
<1>2. Increasing(s)
  <2> SUFFICES ASSUME NEW i \in DOMAIN s, NEW j \in DOMAIN s, i < j PROVE s[i] < s[j]
    BY DEF Increasing
  <2>1. i \in DOMAIN u /\ j \in DOMAIN u /\ u[i] = s[i] /\ u[j] = s[j]
    BY <1>1
  <2> QED
    BY <2>1, <1>u DEF Increasing
<1>3. ASSUME NEW i \in DOMAIN s, NEW j \in DOMAIN t PROVE s[i] # t[j]
  <2>1. /\ i \in DOMAIN u /\ j + Len(s) \in DOMAIN u /\ i < j + Len(s)
        /\ i <= Len(s) /\ ~(j + Len(s) <= Len(s)) /\ (j + Len(s)) - Len(s) = j
    BY <1>1, <1>3
  <2>2. u[i] = s[i] /\ u[j + Len(s)] = t[j]
    BY <1>1, <2>1
  <2>3. u[i] < u[j + Len(s)] /\ s[i] \in Nat /\ t[j] \in Nat
    BY <1>1, <1>3, <2>1, <2>2, <1>u, ElementOfSeq DEF Increasing
  <2> QED
    BY <2>2, <2>3
<1> QED
  BY <1>2, <1>3 DEF ToSet

(***************************************************************************)
(* Keeping the elements that are in a set.                                  *)
(***************************************************************************)
\* The function that KeptOfFirst looks for exists: it is built up to every n.
LEMMA KeptExists ==
    ASSUME NEW s, NEW S, Len(s) \in Nat
    PROVE  \E f : f = [n \in 0..Len(s) |->
                         IF n = 0 THEN <<>>
                         ELSE IF s[n] \in S THEN Append(f[n - 1], s[n]) ELSE f[n - 1]]
<1> DEFINE Next(f, n) == IF n = 0 THEN <<>>
                         ELSE IF s[n] \in S THEN Append(f[n - 1], s[n]) ELSE f[n - 1]
           Lacks == {m \in Nat : ~\E f : f = [n \in 0..m |-> Next(f, n)]}
<1>1. Lacks = {}
  <2> SUFFICES ASSUME Lacks # {} PROVE FALSE
    OBVIOUS
  <2>1. PICK m \in Lacks : \A k \in Lacks : m <= k
    BY LeastNat
  <2>2. m # 0
    <3>1. \E f : f = [n \in 0..0 |-> Next(f, n)]
      <4> DEFINE g == [n \in 0..0 |-> <<>>]
      <4>1. g = [n \in 0..0 |-> Next(g, n)]
        OBVIOUS
      <4> QED
        BY <4>1
    <3> QED
      BY <2>1, <3>1
  <2>3. m - 1 \in Nat /\ m \in Nat
    BY <2>1, <2>2
  <2>4. m - 1 \notin Lacks
    <3> HIDE DEF Lacks
    <3> QED
      BY <2>1, <2>3
  <2>5. PICK f : f = [n \in 0..(m - 1) |-> Next(f, n)]
    BY <2>3, <2>4
  <2> DEFINE g == [n \in 0..m |-> IF n = m THEN Next(f, m) ELSE f[n]]
  <2>6. \A n \in 0..m : g[n] = Next(g, n)
    <3>1. ASSUME NEW n \in 0..m PROVE g[n] = Next(g, n)
      <4>1. n = 0 \/ (n - 1 \in 0..(m - 1) /\ n - 1 # m /\ n - 1 \in 0..m)
        BY <2>3
      <4>2. n # 0 => g[n - 1] = f[n - 1]
        BY <4>1
      <4>3. Next(g, n) = Next(f, n)
        BY <4>2
      <4>4. n # m => g[n] = f[n] /\ f[n] = Next(f, n)
        <5>1. n # m => n \in 0..(m - 1)
          BY <2>3
        <5> QED
          BY <2>5, <5>1
      <4> QED
        BY <4>3, <4>4
    <3> QED
      BY <3>1
  <2>7. g = [n \in 0..m |-> Next(g, n)]
    <3> HIDE DEF Next
    <3> QED
      BY <2>6
  <2> HIDE DEF g, Next
  <2> QED
    BY <2>1, <2>7
<1>2. Len(s) \notin Lacks
  BY <1>1
<1> QED
  BY <1>2

LEMMA KeptUnfolds ==
    ASSUME NEW s, NEW S, Len(s) \in Nat, NEW n \in 0..Len(s)
    PROVE  KeptOfFirst(s, S)[n] =
             IF n = 0 THEN <<>>
             ELSE IF s[n] \in S THEN Append(KeptOfFirst(s, S)[n - 1], s[n])
                                ELSE KeptOfFirst(s, S)[n - 1]
<1> DEFINE k == KeptOfFirst(s, S)
           Body(f) == [m \in 0..Len(s) |->
                         IF m = 0 THEN <<>>
                         ELSE IF s[m] \in S THEN Append(f[m - 1], s[m]) ELSE f[m - 1]]
<1>0. k = CHOOSE f : f = Body(f)
  BY Zenon DEF KeptOfFirst
<1>a. \E f : f = Body(f)
  BY KeptExists, Zenon
<1>b. k = Body(k)
  <2> HIDE DEF k, Body
  <2> QED
    BY <1>0, <1>a, Zenon
<1>1. k = [m \in 0..Len(s) |-> IF m = 0 THEN <<>>
                               ELSE IF s[m] \in S THEN Append(k[m - 1], s[m]) ELSE k[m - 1]]
  <2> HIDE DEF k
  <2> QED
    BY <1>b, Zenon
<1> HIDE DEF k
<1>2. k[n] = IF n = 0 THEN <<>>
             ELSE IF s[n] \in S THEN Append(k[n - 1], s[n]) ELSE k[n - 1]
  BY <1>1
<1> QED
  BY <1>2 DEF k

\* Counting up to n: what holds of 0 and of the number after each below n for
\* which it holds, holds of all up to n.
LEMMA Reaches ==
    ASSUME NEW n \in Nat, NEW Good, 0 \in Good,
           \A m \in Nat : m < n /\ m \in Good => m + 1 \in Good
    PROVE  \A m \in 0..n : m \in Good
<1> DEFINE Lacks == {m \in Nat : m <= n /\ m \notin Good}
<1>1. Lacks = {}
  <2> SUFFICES ASSUME Lacks # {} PROVE FALSE
    OBVIOUS
  <2>1. PICK m \in Lacks : \A k \in Lacks : m <= k
    BY LeastNat
  <2>2. m \in Nat /\ m <= n /\ m \notin Good /\ m # 0
    BY <2>1
  <2>3. m - 1 \in Nat /\ m - 1 < n /\ (m - 1) + 1 = m /\ ~(m <= m - 1)
    BY <2>2
  <2>4. m - 1 \notin Lacks
    <3> HIDE DEF Lacks
    <3> QED
      BY <2>1, <2>3
  <2>5. m - 1 \in Good
    BY <2>3, <2>4
  <2> QED
    BY <2>2, <2>3, <2>5
<1>2. \A m \in 0..n : m \in Nat /\ m <= n
  OBVIOUS
<1> QED
  BY <1>1, <1>2

\* What is kept depends on the elements kept, and on nothing else.
LEMMA KeptAgree ==
    ASSUME NEW s, NEW S, NEW t, NEW T, Len(s) \in Nat, Len(t) \in Nat,
           NEW n \in Nat, n <= Len(s), n <= Len(t),
           \A i \in 1..n : (s[i] \in S <=> t[i] \in T) /\ (s[i] \in S => s[i] = t[i])
    PROVE  KeptOfFirst(s, S)[n] = KeptOfFirst(t, T)[n]
<1> DEFINE Good == {m \in Nat : KeptOfFirst(s, S)[m] = KeptOfFirst(t, T)[m]}
<1>1. 0 \in Good
  BY KeptUnfolds
<1>2. ASSUME NEW m \in Nat, m < n, m \in Good PROVE m + 1 \in Good
  <2>1. /\ m + 1 \in 0..Len(s) /\ m + 1 \in 0..Len(t) /\ m + 1 # 0 /\ (m + 1) - 1 = m
        /\ m + 1 \in 1..n /\ m + 1 \in Nat
    BY <1>2
  <2>2. KeptOfFirst(s, S)[m + 1] =
            IF s[m + 1] \in S THEN Append(KeptOfFirst(s, S)[m], s[m + 1])
                              ELSE KeptOfFirst(s, S)[m]
    BY <2>1, KeptUnfolds
  <2>3. KeptOfFirst(t, T)[m + 1] =
            IF t[m + 1] \in T THEN Append(KeptOfFirst(t, T)[m], t[m + 1])
                              ELSE KeptOfFirst(t, T)[m]
    BY <2>1, KeptUnfolds
  <2> QED
    BY <1>2, <2>1, <2>2, <2>3
<1>3. n \in 0..n
  OBVIOUS
<1> HIDE DEF Good
<1>4. n \in Good
  BY <1>1, <1>2, <1>3, Reaches
<1> QED
  BY <1>4 DEF Good

LEMMA KeptType ==
    ASSUME NEW A, NEW s \in Seq(A), NEW S, NEW n \in 0..Len(s)
    PROVE  KeptOfFirst(s, S)[n] \in Seq(A \cap S)
<1> DEFINE Good == {m \in Nat : KeptOfFirst(s, S)[m] \in Seq(A \cap S)}
<1>0. Len(s) \in Nat /\ n \in Nat /\ n <= Len(s)
  BY LenProperties
<1>1. 0 \in Good
  <2>1. KeptOfFirst(s, S)[0] = <<>> /\ 0 \in Nat
    BY <1>0, KeptUnfolds
  <2>2. <<>> \in Seq(A \cap S)
    OBVIOUS
  <2> QED
    BY <2>1, <2>2
<1>2. ASSUME NEW m \in Nat, m < n, m \in Good PROVE m + 1 \in Good
  <2>1. /\ m + 1 \in 0..Len(s) /\ m + 1 # 0 /\ (m + 1) - 1 = m
        /\ m + 1 \in 1..Len(s) /\ m + 1 \in Nat
    BY <1>0, <1>2
  <2>2. KeptOfFirst(s, S)[m + 1] =
            IF s[m + 1] \in S THEN Append(KeptOfFirst(s, S)[m], s[m + 1])
                              ELSE KeptOfFirst(s, S)[m]
    BY <1>0, <2>1, KeptUnfolds
  <2>3. s[m + 1] \in A
    BY <2>1, ElementOfSeq
  <2>4. KeptOfFirst(s, S)[m] \in Seq(A \cap S)
    BY <1>2
  <2>5. CASE s[m + 1] \in S
    <3>1. Append(KeptOfFirst(s, S)[m], s[m + 1]) \in Seq(A \cap S)
      BY <2>3, <2>4, <2>5, AppendProperties
    <3> QED
      BY <2>1, <2>2, <2>5, <3>1
  <2>6. CASE s[m + 1] \notin S
    BY <2>1, <2>2, <2>4, <2>6
  <2> QED
    BY <2>5, <2>6
<1>3. n \in 0..n
  BY <1>0
<1> HIDE DEF Good
<1>4. n \in Good
  BY <1>0, <1>1, <1>2, <1>3, Reaches
<1> QED
  BY <1>4 DEF Good

LEMMA KeepType ==
    ASSUME NEW A, NEW s \in Seq(A), NEW S
    PROVE  Keep(s, S) \in Seq(A \cap S) /\ Keep(s, S) \in Seq(A)
<1>1. Len(s) \in 0..Len(s)
  BY LenProperties
<1>2. Keep(s, S) \in Seq(A \cap S)
  BY <1>1, KeptType DEF Keep
<1>3. Seq(A \cap S) \subseteq Seq(A)
  OBVIOUS
<1> QED
  BY <1>2, <1>3

LEMMA KeepAgree ==
    ASSUME NEW s, NEW S, NEW t, NEW T, Len(s) \in Nat, Len(t) = Len(s),
           \A i \in 1..Len(s) : (s[i] \in S <=> t[i] \in T) /\ (s[i] \in S => s[i] = t[i])
    PROVE  Keep(s, S) = Keep(t, T)
  BY KeptAgree DEF Keep

LEMMA KeepEmpty == ASSUME NEW S PROVE Keep(<<>>, S) = <<>>
<1>1. Len(<<>>) = 0 /\ 0 \in 0..0
  OBVIOUS
<1> QED
  BY <1>1, KeptUnfolds DEF Keep

\* Nothing in the set, nothing kept.
LEMMA KeepNothing ==
    ASSUME NEW s, NEW S, Len(s) \in Nat, \A i \in 1..Len(s) : s[i] \notin S
    PROVE  Keep(s, S) = <<>>
<1> DEFINE Good == {m \in Nat : KeptOfFirst(s, S)[m] = <<>>}
           n == Len(s)
<1>1. 0 \in Good
  BY KeptUnfolds
<1>2. ASSUME NEW m \in Nat, m < n, m \in Good PROVE m + 1 \in Good
  <2>1. /\ m + 1 \in 0..n /\ m + 1 # 0 /\ (m + 1) - 1 = m
        /\ m + 1 \in 1..n /\ m + 1 \in Nat
    BY <1>2
  <2>2. KeptOfFirst(s, S)[m + 1] = KeptOfFirst(s, S)[m]
    BY <2>1, KeptUnfolds
  <2> QED
    BY <1>2, <2>1, <2>2
<1>3. n \in 0..n /\ n \in Nat
  OBVIOUS
<1> HIDE DEF Good
<1>4. n \in Good
  BY <1>1, <1>2, <1>3, Reaches
<1> QED
  BY <1>4 DEF Good, Keep

\* The parts of a sequence are kept apart.
LEMMA KeepConcat ==
    ASSUME NEW A, NEW s \in Seq(A), NEW t \in Seq(A), NEW S
    PROVE  Keep(s \o t, S) = Keep(s, S) \o Keep(t, S)
<1>l. PICK l : l = Len(s)
  OBVIOUS
<1> DEFINE u == s \o t
           Good == {m \in Nat : KeptOfFirst(u, S)[l + m] = Keep(s, S) \o KeptOfFirst(t, S)[m]}
<1>0. /\ l \in Nat /\ Len(t) \in Nat /\ Len(u) = l + Len(t) /\ u \in Seq(A)
      /\ \A i \in 1..l : u[i] = s[i]
      /\ \A i \in 1..Len(t) : u[l + i] = t[i]
  <2>1. /\ l \in Nat /\ Len(t) \in Nat /\ Len(u) = l + Len(t) /\ u \in Seq(A)
        /\ \A i \in 1..(l + Len(t)) : u[i] = IF i <= l THEN s[i] ELSE t[i - l]
    BY <1>l, LenProperties, ConcatProperties
  <2> HIDE DEF u
  <2>2. ASSUME NEW i \in 1..Len(t) PROVE u[l + i] = t[i]
    <3>1. l + i \in 1..(l + Len(t)) /\ ~(l + i <= l) /\ (l + i) - l = i
      BY <2>1
    <3> QED
      BY <2>1, <3>1
  <2> QED
    BY <2>1, <2>2
<1> HIDE DEF u
<1>1. 0 \in Good
  <2>1. KeptOfFirst(u, S)[l] = KeptOfFirst(s, S)[l]
    <3>1. l \in Nat /\ l <= Len(u) /\ l <= Len(s) /\ Len(s) \in Nat /\ Len(u) \in Nat
      BY <1>0, <1>l
    <3>2. \A i \in 1..l : (u[i] \in S <=> s[i] \in S) /\ (u[i] \in S => u[i] = s[i])
      BY <1>0
    <3> HIDE DEF Good
    <3> QED
      BY <3>1, <3>2, KeptAgree, SMTT(30)
  <2>2. KeptOfFirst(t, S)[0] = <<>>
    BY <1>0, KeptUnfolds
  <2>3. Keep(s, S) \o <<>> = Keep(s, S)
    BY KeepType, ConcatEmptySeq
  <2>4. l + 0 = l
    BY <1>0
  <2> QED
    BY <1>l, <2>1, <2>2, <2>3, <2>4 DEF Keep
<1>2. ASSUME NEW m \in Nat, m < Len(t), m \in Good PROVE m + 1 \in Good
  <2>1. /\ m + 1 \in 0..Len(t) /\ l + (m + 1) \in 0..Len(u) /\ m + 1 # 0 /\ l + (m + 1) # 0
        /\ (m + 1) - 1 = m /\ (l + (m + 1)) - 1 = l + m
        /\ m + 1 \in 1..Len(t) /\ m + 1 \in Nat /\ m \in 0..Len(t)
    BY <1>0, <1>2
  <2>2. KeptOfFirst(t, S)[m + 1] =
            IF t[m + 1] \in S THEN Append(KeptOfFirst(t, S)[m], t[m + 1])
                              ELSE KeptOfFirst(t, S)[m]
    BY <1>0, <2>1, KeptUnfolds
  <2>3. KeptOfFirst(u, S)[l + (m + 1)] =
            IF u[l + (m + 1)] \in S THEN Append(KeptOfFirst(u, S)[l + m], u[l + (m + 1)])
                                    ELSE KeptOfFirst(u, S)[l + m]
    <3>1. PICK n : n = l + (m + 1)
      OBVIOUS
    <3>2. n \in 0..Len(u) /\ n # 0 /\ n - 1 = l + m /\ Len(u) \in Nat
      BY <1>0, <2>1, <3>1
    <3>3. KeptOfFirst(u, S)[n] = IF u[n] \in S THEN Append(KeptOfFirst(u, S)[n - 1], u[n])
                                               ELSE KeptOfFirst(u, S)[n - 1]
      BY <3>2, KeptUnfolds
    <3> QED
      BY <3>1, <3>2, <3>3
  <2>4. u[l + (m + 1)] = t[m + 1]
    BY <1>0, <2>1
  <2>5. KeptOfFirst(u, S)[l + m] = Keep(s, S) \o KeptOfFirst(t, S)[m]
    BY <1>2
  <2>6. t[m + 1] \in S =>
            Keep(s, S) \o Append(KeptOfFirst(t, S)[m], t[m + 1])
              = Append(Keep(s, S) \o KeptOfFirst(t, S)[m], t[m + 1])
    <3> SUFFICES ASSUME t[m + 1] \in S
                 PROVE  Keep(s, S) \o Append(KeptOfFirst(t, S)[m], t[m + 1])
                          = Append(Keep(s, S) \o KeptOfFirst(t, S)[m], t[m + 1])
      OBVIOUS
    <3>1. t[m + 1] \in A \cap S
      BY <2>1, ElementOfSeq
    <3>2. KeptOfFirst(t, S)[m] \in Seq(A \cap S) /\ Keep(s, S) \in Seq(A \cap S)
      BY <2>1, KeptType, KeepType
    <3> QED
      BY <3>1, <3>2, AppendToConcat
  <2>7. KeptOfFirst(u, S)[l + (m + 1)] = Keep(s, S) \o KeptOfFirst(t, S)[m + 1]
    BY <2>2, <2>3, <2>4, <2>5, <2>6
  <2> QED
    BY <2>1, <2>7
<1>3. Len(t) \in 0..Len(t)
  BY <1>0
<1> HIDE DEF Good
<1>4. Len(t) \in Good
  BY <1>0, <1>1, <1>2, <1>3, Reaches
<1>5. KeptOfFirst(u, S)[l + Len(t)] = Keep(s, S) \o KeptOfFirst(t, S)[Len(t)]
  BY <1>4 DEF Good
<1> QED
  BY <1>0, <1>l, <1>5 DEF Keep, u

LEMMA KeepOne ==
    ASSUME NEW x, NEW S
    PROVE  Keep(<<x>>, S) = IF x \in S THEN <<x>> ELSE <<>>
<1>s. PICK s : s = <<x>>
  OBVIOUS
<1>1. Len(s) = 1 /\ Len(s) \in Nat /\ 1 \in 0..1 /\ 0 \in 0..1 /\ s[1] = x /\ 1 - 1 = 0
  BY <1>s
<1>2. KeptOfFirst(s, S)[0] = <<>>
  BY <1>1, KeptUnfolds
<1>3. KeptOfFirst(s, S)[1] = IF x \in S THEN Append(<<>>, x) ELSE <<>>
  <2>1. PICK n : n = 1
    OBVIOUS
  <2>2. n \in 0..Len(s) /\ n # 0 /\ n - 1 = 0 /\ s[n] = x
    BY <1>1, <2>1
  <2>3. KeptOfFirst(s, S)[n] = IF s[n] \in S THEN Append(KeptOfFirst(s, S)[n - 1], s[n])
                                             ELSE KeptOfFirst(s, S)[n - 1]
    BY <1>1, <2>2, KeptUnfolds
  <2> QED
    BY <1>2, <2>1, <2>2, <2>3
<1>4. Append(<<>>, x) = <<x>>
  OBVIOUS
<1> QED
  BY <1>1, <1>3, <1>4, <1>s DEF Keep

LEMMA KeepAppend ==
    ASSUME NEW A, NEW s \in Seq(A), NEW x \in A, NEW S
    PROVE  Keep(Append(s, x), S) = IF x \in S THEN Append(Keep(s, S), x) ELSE Keep(s, S)
<1>1. <<x>> \in Seq(A)
  OBVIOUS
<1>a. Append(s, x) = s \o <<x>>
  BY AppendIsConcat
<1>2. Keep(s \o <<x>>, S) = Keep(s, S) \o Keep(<<x>>, S)
  <2>1. PICK t : t = <<x>>
    OBVIOUS
  <2>2. t \in Seq(A)
    BY <1>1, <2>1
  <2>3. Keep(s \o t, S) = Keep(s, S) \o Keep(t, S)
    BY <2>2, KeepConcat
  <2> QED
    BY <2>1, <2>3
<1>3. Keep(s, S) \in Seq(A)
  BY KeepType
<1>4. Keep(s, S) \o <<>> = Keep(s, S) /\ Append(Keep(s, S), x) = Keep(s, S) \o <<x>>
  BY <1>3, ConcatEmptySeq, AppendIsConcat
<1> QED
  BY <1>2, <1>4, <1>a, KeepOne

(***************************************************************************)
(* Parts of a concatenation.                                                *)
(***************************************************************************)
LEMMA FirstPart ==
    ASSUME NEW A, NEW s \in Seq(A), NEW t \in Seq(A)
    PROVE  SubSeq(s \o t, 1, Len(s)) = s /\ Len(s) \in 0..Len(s \o t)
<1>1. /\ Len(s) \in Nat /\ Len(t) \in Nat /\ Len(s \o t) = Len(s) + Len(t)
  BY LenProperties, ConcatProperties
<1>2. CASE Len(s) = 0
  <2>1. SubSeq(s \o t, 1, 0) = <<>>
    BY SubSeqEmpty
  <2>2. s = <<>>
    BY <1>2, EmptySeq
  <2> QED
    BY <1>1, <1>2, <2>1, <2>2
<1>3. CASE Len(s) # 0
  <2>1. 1 \in 1..Len(s) /\ Len(s) \in 1..Len(s)
    BY <1>1, <1>3
  <2>2. SubSeq(s \o t, 1, Len(s)) = SubSeq(s, 1, Len(s))
    BY <2>1, SubSeqOfConcat1
  <2>3. SubSeq(s, 1, Len(s)) = s
    BY SubSeqFull
  <2> QED
    BY <1>1, <2>2, <2>3
<1> QED
  BY <1>2, <1>3

LEMMA HeadAndRest ==
    ASSUME NEW A, NEW x \in A, NEW t \in Seq(A)
    PROVE  /\ <<x>> \o t # <<>> /\ Head(<<x>> \o t) = x /\ Tail(<<x>> \o t) = t
<1>s. PICK s : s = <<x>> \o t
  OBVIOUS
<1>1. <<x>> \in Seq(A) /\ Len(<<x>>) = 1 /\ <<x>>[1] = x
  OBVIOUS
<1>2. /\ s \in Seq(A) /\ Len(s) = 1 + Len(t) /\ Len(t) \in Nat
      /\ \A i \in 1..(1 + Len(t)) : s[i] = IF i <= 1 THEN <<x>>[i] ELSE t[i - 1]
  BY <1>1, <1>s, ConcatProperties, LenProperties
<1>3. s # <<>> /\ s[1] = x
  BY <1>1, <1>2, EmptySeq
<1>4. /\ Head(s) = s[1] /\ Tail(s) \in Seq(A) /\ Len(Tail(s)) = Len(s) - 1
      /\ \A i \in 1..Len(Tail(s)) : Tail(s)[i] = s[i + 1]
  BY <1>2, <1>3, HeadTailProperties
<1>5. Tail(s) = t
  <2>1. ASSUME NEW i \in 1..Len(t) PROVE Tail(s)[i] = t[i]
    <3>1. i + 1 \in 1..(1 + Len(t)) /\ ~(i + 1 <= 1) /\ (i + 1) - 1 = i /\ i \in 1..Len(Tail(s))
      BY <1>2, <1>4
    <3> QED
      BY <1>2, <1>4, <3>1
  <2>2. Len(Tail(s)) = Len(t)
    BY <1>2, <1>4
  <2> QED
    BY <1>4, <2>1, <2>2, SeqEqual
<1> QED
  BY <1>3, <1>4, <1>5, <1>s

=============================================================================
