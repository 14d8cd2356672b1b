------------------------------ MODULE BasicFacts -------------------------------
(****************************************************************************)
(* Facts about numbers and sequences that proofs of several components use. *)
(****************************************************************************)
EXTENDS SequencesExt, FiniteSetTheorems, WellFoundedInduction, TLAPS

\* What makes a value a sequence, whatever its elements are.
IsSequence(s) == s \in Seq(Range(s))

\* The domain of a sequence.
LEMMA SequenceShape ==
    ASSUME NEW s, IsSequence(s)
    PROVE  /\ Len(s) \in Nat
           /\ DOMAIN s = 1 .. Len(s)
           /\ s = [i \in 1 .. Len(s) |-> s[i]]
BY DEF IsSequence

\* A function on 1 .. n is a sequence.
LEMMA FunctionIsSequence ==
    ASSUME NEW n \in Nat, NEW f, f = [i \in 1 .. n |-> f[i]]
    PROVE  IsSequence(f) /\ Len(f) = n
<1>1. f \in [1 .. n -> Range(f)]
  BY DEF Range
<1>2. f \in Seq(Range(f))
  BY <1>1
<1>. QED BY <1>1, <1>2 DEF IsSequence

\* So is a function on the domain of a sequence.
LEMMA SameDomain ==
    ASSUME NEW s, IsSequence(s), NEW f, f = [i \in DOMAIN s |-> f[i]]
    PROVE  IsSequence(f) /\ Len(f) = Len(s) /\ DOMAIN f = DOMAIN s
BY SequenceShape, FunctionIsSequence

\* Append adds one element behind the others.
LEMMA AppendShape ==
    ASSUME NEW s, IsSequence(s), NEW x
    PROVE  /\ IsSequence(Append(s, x))
           /\ DOMAIN Append(s, x) = (DOMAIN s) \cup {Len(s) + 1}
           /\ Len(s) + 1 \notin DOMAIN s
           /\ \A i \in DOMAIN s : Append(s, x)[i] = s[i]
           /\ Append(s, x)[Len(s) + 1] = x
           /\ Range(Append(s, x)) = Range(s) \cup {x}
<1>. DEFINE t == Append(s, x)
            n == Len(s)
<1>1. n \in Nat /\ DOMAIN s = 1 .. n /\ s \in Seq(Range(s) \cup {x})
  <2>1. s \in [1 .. n -> Range(s) \cup {x}]
    BY SequenceShape DEF Range
  <2>. QED BY <2>1, SequenceShape
<1>2. /\ t \in Seq(Range(s) \cup {x})
      /\ Len(t) = n + 1
      /\ \A i \in 1 .. n : t[i] = s[i]
      /\ t[n + 1] = x
  BY <1>1
<1>3. t = [i \in 1 .. n + 1 |-> t[i]] /\ DOMAIN t = 1 .. n + 1
  <2>. HIDE DEF t
  <2>. QED BY <1>1, <1>2
<1>4. IsSequence(t)
  <2>. HIDE DEF t
  <2>. QED BY <1>1, <1>3, FunctionIsSequence
<1>5. 1 .. n + 1 = (1 .. n) \cup {n + 1} /\ n + 1 \notin 1 .. n
  BY <1>1
<1>6. Range(t) = Range(s) \cup {x}
  <2>. HIDE DEF t, n
  <2>1. Range(t) \subseteq Range(s) \cup {x}
    BY <1>2, <1>1, <1>3, <1>5 DEF Range
  <2>2. Range(s) \subseteq Range(t) /\ x \in Range(t)
    BY <1>2, <1>1, <1>3, <1>5 DEF Range
  <2>. QED BY <2>1, <2>2
<1>. QED BY <1>1, <1>2, <1>3, <1>4, <1>5, <1>6

\* The elements of two sequences joined.
LEMMA JoinShape ==
    ASSUME NEW s, IsSequence(s), NEW t, IsSequence(t)
    PROVE  /\ Len(s \o t) \in Nat
           /\ DOMAIN (s \o t) = 1 .. Len(s \o t)
           /\ Range(s \o t) = Range(s) \cup Range(t)
<1>. DEFINE u == s \o t
<1>0. /\ Len(s) \in Nat /\ Len(t) \in Nat
      /\ DOMAIN s = 1 .. Len(s) /\ DOMAIN t = 1 .. Len(t)
  BY SequenceShape
<1>1. s \in Seq(Range(s) \cup Range(t)) /\ t \in Seq(Range(s) \cup Range(t))
  <2>1. /\ s \in [1 .. Len(s) -> Range(s) \cup Range(t)]
        /\ t \in [1 .. Len(t) -> Range(s) \cup Range(t)]
    BY SequenceShape DEF Range
  <2>. QED BY <1>0, <2>1
<1>2. /\ u \in Seq(Range(s) \cup Range(t))
      /\ Len(u) = Len(s) + Len(t)
      /\ \A i \in 1 .. Len(s) : u[i] = s[i]
      /\ \A i \in 1 .. Len(t) : u[Len(s) + i] = t[i]
  BY <1>0, <1>1
<1>3. DOMAIN u = 1 .. Len(u) /\ Range(u) \subseteq Range(s) \cup Range(t)
  <2>. HIDE DEF u
  <2>. QED BY <1>2 DEF Range
<1>4. Range(s) \subseteq Range(u) /\ Range(t) \subseteq Range(u)
  <2>1. \A i \in 1 .. Len(s) : i \in 1 .. Len(u)
    BY <1>0, <1>2
  <2>2. \A i \in 1 .. Len(t) : Len(s) + i \in 1 .. Len(u)
    BY <1>0, <1>2
  <2>. HIDE DEF u
  <2>. QED BY <1>0, <1>2, <1>3, <2>1, <2>2 DEF Range
<1>. QED BY <1>0, <1>2, <1>3, <1>4

\* The least and the greatest element of a set that has one element.
LEMMA SingletonMinMax ==
    ASSUME NEW i \in Nat
    PROVE  Min({i}) = i /\ Max({i}) = i
BY DEF Min, Max

\* Every set of natural numbers that is not empty has a least element.  The
\* prefixes 0 .. x of its elements are finite sets, and strict inclusion is well
\* founded on those.
LEMMA LeastElement ==
    ASSUME NEW T, T \subseteq Nat, T # {}
    PROVE  \E x \in T : \A y \in T : x <= y
<1>. DEFINE Below(x) == 0 .. x
            Belows == {Below(x) : x \in T}
<1>1. Belows \subseteq FiniteSubsetsOf(Nat)
  <2>. SUFFICES ASSUME NEW x \in T
                PROVE  Below(x) \in FiniteSubsetsOf(Nat)
    OBVIOUS
  <2>1. IsFiniteSet(Below(x))
    BY FS_Interval, 0 \in Int, x \in Int
  <2>2. Below(x) \subseteq Nat
    OBVIOUS
  <2>. QED BY <2>1, <2>2 DEF FiniteSubsetsOf
<1>2. Belows # {}
  OBVIOUS
<1>3. PICK B \in Belows : \A C \in Belows : <<C, B>> \notin StrictSubsetOrdering(Nat)
  <2>. HIDE DEF Belows
  <2>. QED BY <1>1, <1>2, FS_StrictSubsetOrderingWellFounded, WFMin
<1>4. PICK x \in T : B = Below(x)
  OBVIOUS
<1>5. ASSUME NEW y \in T, y < x
      PROVE  FALSE
  <2>1. Below(y) \subseteq Below(x) /\ x \in Below(x) /\ x \notin Below(y)
    BY <1>5
  <2>2. Below(x) \subseteq Nat /\ Below(y) \subseteq Nat
    OBVIOUS
  <2>3. <<Below(y), Below(x)>> \in StrictSubsetOrdering(Nat)
    <3>. HIDE DEF Below
    <3>. QED BY <2>1, <2>2 DEF StrictSubsetOrdering
  <2>. QED BY <1>3, <1>4, <2>3
<1>. QED BY <1>5

\* Min gives that element.
LEMMA MinElement ==
    ASSUME NEW T, T \subseteq Nat, T # {}
    PROVE  Min(T) \in T
BY LeastElement DEF Min

\* The quotient and the bounds it gives the remainder.
LEMMA DivType ==
    ASSUME NEW n \in Nat, NEW d \in Nat \ {0}
    PROVE  /\ n \div d \in Nat
           /\ (n \div d) * d <= n
           /\ n < (n \div d) * d + d
OBVIOUS

\* A set of numbers from 1 to n has at most n elements.
LEMMA SubsetOfInterval ==
    ASSUME NEW n \in Nat, NEW S \in SUBSET (1 .. n)
    PROVE  /\ IsFiniteSet(S)
           /\ Cardinality(S) \in Nat
           /\ Cardinality(S) <= n
           /\ Cardinality(1 .. n) = n
<1>1. /\ IsFiniteSet(1 .. n)
      /\ Cardinality(1 .. n) = IF 1 > n THEN 0 ELSE n - 1 + 1
  BY FS_Interval, 1 \in Int, n \in Int
<1>2. Cardinality(1 .. n) = n
  BY <1>1
<1>. QED BY <1>1, <1>2, FS_Subset, FS_CardinalityType

\* A set of numbers from 1 that holds with each number all smaller ones consists of as many
\* first numbers as it has elements.
LEMMA LeadingRows ==
    ASSUME NEW n \in Nat, NEW S \in SUBSET (1 .. n),
           \A i \in S : \A j \in 1 .. i : j \in S
    PROVE  /\ Cardinality(S) \in Nat
           /\ \A i \in 1 .. n : i \in S <=> i <= Cardinality(S)
<1>0. \A m \in Nat : Cardinality(1 .. m) = m
  BY SubsetOfInterval
<1>1. IsFiniteSet(S)
  BY SubsetOfInterval
<1>2. Cardinality(S) \in Nat
  BY SubsetOfInterval
<1>3. ASSUME NEW i \in S
      PROVE  i <= Cardinality(S)
  <2>1. i \in Nat /\ 1 .. i \in SUBSET S
    OBVIOUS
  <2>2. Cardinality(1 .. i) <= Cardinality(S)
    BY <1>1, <2>1, FS_Subset
  <2>. QED BY <1>0, <2>1, <2>2
<1>4. ASSUME NEW i \in 1 .. n, i \notin S
      PROVE  Cardinality(S) < i
  <2>1. \A j \in S : j < i
    BY <1>4
  <2>2. i - 1 \in Nat /\ S \in SUBSET (1 .. i - 1)
    BY <2>1
  <2>3. Cardinality(S) <= i - 1
    BY <2>2, SubsetOfInterval
  <2>. QED BY <1>2, <2>2, <2>3
<1>. QED BY <1>2, <1>3, <1>4

\* Induction over the natural numbers, for a set.
LEMMA SetInduction ==
    ASSUME NEW S, 0 \in S, \A n \in Nat : n \in S => n + 1 \in S
    PROVE  Nat \subseteq S
<1>. DEFINE T == {n \in Nat : n \notin S}
<1>. SUFFICES ASSUME T # {} PROVE FALSE
  OBVIOUS
<1>1. PICK least \in T : \A y \in T : least <= y
  <2>. T \subseteq Nat
    OBVIOUS
  <2>. HIDE DEF T
  <2>. QED BY LeastElement
<1>2. least \in Nat /\ least # 0 /\ least \notin S
  OBVIOUS
<1>3. least - 1 \in Nat /\ least - 1 \notin T
  BY <1>1, <1>2
<1>4. least - 1 \in S
  BY <1>3
<1>5. (least - 1) + 1 \in S
  BY <1>3, <1>4
<1>. QED BY <1>2, <1>5

\* The function that a recursion over the natural numbers defines, and that there is one.
IsRecursion(f, a, g) == f[0] = a /\ \A n \in Nat \ {0} : f[n] = g[<<n, f[n - 1]>>]

\* Every recursion has such a function.
LEMMA Recursion ==
    ASSUME NEW S, NEW a \in S, NEW g \in [Nat \X S -> S]
    PROVE  \E f \in [Nat -> S] : IsRecursion(f, a, g)
<1>. DEFINE Is(f, n) == f \in [0 .. n -> S] /\ f[0] = a /\ \A m \in 1 .. n : f[m] = g[<<m, f[m - 1]>>]
            Reached == {n \in Nat : \E f \in [0 .. n -> S] : Is(f, n)}
<1>1. Nat \subseteq Reached
  <2>1. 0 \in Reached
    <3>1. Is([m \in 0 .. 0 |-> a], 0)
      OBVIOUS
    <3>. QED BY <3>1
  <2>2. ASSUME NEW n \in Nat, n \in Reached PROVE n + 1 \in Reached
    <3>1. PICK f \in [0 .. n -> S] : Is(f, n)
      BY <2>2
    <3>. DEFINE h == [m \in 0 .. n + 1 |-> IF m <= n THEN f[m] ELSE g[<<n + 1, f[n]>>]]
    <3>2. h \in [0 .. n + 1 -> S]
      <4>1. f[n] \in S /\ g[<<n + 1, f[n]>>] \in S
        OBVIOUS
      <4>2. \A m \in 0 .. n + 1 : m <= n => m \in 0 .. n
        OBVIOUS
      <4>. QED BY <4>1, <4>2
    <3>3. h[0] = a
      BY <3>1
    <3>4. ASSUME NEW m \in 1 .. n + 1 PROVE h[m] = g[<<m, h[m - 1]>>]
      <4>1. CASE m <= n
        <5>1. m \in 1 .. n /\ m \in 0 .. n + 1 /\ m - 1 \in 0 .. n + 1 /\ m - 1 <= n
          BY <4>1
        <5>2. h[m] = f[m] /\ h[m - 1] = f[m - 1]
          BY <4>1, <5>1
        <5>. QED BY <3>1, <5>1, <5>2
      <4>2. CASE ~(m <= n)
        <5>1. m = n + 1 /\ m - 1 = n /\ n \in 0 .. n + 1 /\ m \in 0 .. n + 1
          BY <4>2
        <5>. QED BY <5>1
      <4>. QED BY <4>1, <4>2
    <3>. HIDE DEF h
    <3>5. Is(h, n + 1)
      BY <3>2, <3>3, <3>4
    <3>. QED BY <3>2, <3>5
  <2>. HIDE DEF Reached
  <2>. QED BY <2>1, <2>2, SetInduction
<1>2. \A n \in Nat : \A f, h : Is(f, n) /\ Is(h, n) => \A m \in 0 .. n : f[m] = h[m]
  <2>. HIDE DEF Is
  <2>. SUFFICES ASSUME NEW n \in Nat, NEW f, NEW h, Is(f, n), Is(h, n)
                PROVE  \A m \in 0 .. n : f[m] = h[m]
    OBVIOUS
  <2>. USE DEF Is
  <2>. DEFINE Same == {m \in Nat : m <= n => f[m] = h[m]}
  <2>1. 0 \in Same
    OBVIOUS
  <2>2. ASSUME NEW m \in Nat, m \in Same PROVE m + 1 \in Same
    <3>. SUFFICES ASSUME m + 1 <= n PROVE f[m + 1] = h[m + 1]
      OBVIOUS
    <3>1. m + 1 \in 1 .. n /\ (m + 1) - 1 = m /\ f[m] = h[m]
      BY <2>2
    <3>2. f[m + 1] = g[<<m + 1, f[(m + 1) - 1]>>] /\ h[m + 1] = g[<<m + 1, h[(m + 1) - 1]>>]
      BY <3>1
    <3>. QED BY <3>1, <3>2
  <2>3. Nat \subseteq Same
    <3>. HIDE DEF Same
    <3>. QED BY <2>1, <2>2, SetInduction
  <2>. QED BY <2>3
<1>. DEFINE part(n) == CHOOSE f \in [0 .. n -> S] : Is(f, n)
            f == [n \in Nat |-> part(n)[n]]
<1>3. \A n \in Nat : Is(part(n), n)
  BY <1>1
<1>. HIDE DEF part
<1>4. f \in [Nat -> S]
  <2>. SUFFICES ASSUME NEW n \in Nat PROVE part(n)[n] \in S
    OBVIOUS
  <2>1. part(n) \in [0 .. n -> S] /\ n \in 0 .. n
    BY <1>3
  <2>. QED BY <2>1
<1>5. f[0] = a
  BY <1>3
<1>6. ASSUME NEW n \in Nat, n # 0 PROVE f[n] = g[<<n, f[n - 1]>>]
  <2>1. n - 1 \in Nat /\ n \in 1 .. n /\ n - 1 \in 0 .. n - 1
    BY <1>6
  <2>2. part(n)[n] = g[<<n, part(n)[n - 1]>>]
    BY <1>3, <2>1
  <2>3. \A m \in 0 .. n - 1 : part(n)[m] = part(n - 1)[m]
    <3>. DEFINE q == [m \in 0 .. n - 1 |-> part(n)[m]]
    <3>1. part(n) \in [0 .. n -> S] /\ part(n)[0] = a
          /\ \A m \in 1 .. n : part(n)[m] = g[<<m, part(n)[m - 1]>>]
      BY <1>3
    <3>2. \A m \in 0 .. n - 1 : m \in 0 .. n /\ part(n)[m] \in S
      BY <2>1, <3>1
    <3>3. q \in [0 .. n - 1 -> S]
      BY <3>2
    <3>4. q[0] = a
      BY <2>1, <3>1
    <3>5. \A m \in 1 .. n - 1 : q[m] = g[<<m, q[m - 1]>>]
      BY <2>1, <3>1
    <3>9. \A m \in 0 .. n - 1 : q[m] = part(n)[m]
      OBVIOUS
    <3>. HIDE DEF q
    <3>6. Is(q, n - 1)
      BY <3>3, <3>4, <3>5
    <3>7. Is(part(n - 1), n - 1)
      BY <1>3, <2>1
    <3>8. \A m \in 0 .. n - 1 : q[m] = part(n - 1)[m]
      <4>. HIDE DEF Is
      <4>. QED BY <1>2, <2>1, <3>6, <3>7
    <3>10. ASSUME NEW m \in 0 .. n - 1 PROVE part(n)[m] = part(n - 1)[m]
      <4>1. q[m] = part(n)[m]
        BY <3>9
      <4>2. q[m] = part(n - 1)[m]
        BY <3>8
      <4>. QED BY <4>1, <4>2
    <3>. QED BY <3>10
  <2>4. part(n)[n - 1] = part(n - 1)[n - 1]
    BY <2>1, <2>3
  <2>5. f[n] = part(n)[n] /\ f[n - 1] = part(n - 1)[n - 1]
    BY <2>1
  <2>. HIDE DEF f
  <2>. QED BY <2>2, <2>4, <2>5
<1>. HIDE DEF f
<1>. QED BY <1>4, <1>5, <1>6 DEF IsRecursion

------------------------------------------------------------------------------
(* Piles: the set of the pairs <<c, i>> with i from 1 to m[c], for the c of *)
(* a set; its cardinality is the sum of the m[c].                           *)

Pile(C, m) == UNION {{c} \X (1 .. m[c]) : c \in C}

\* One more column adds its height.
LEMMA PileAdd ==
    ASSUME NEW C, NEW d, d \notin C, NEW m, m[d] \in Nat, IsFiniteSet(Pile(C, m))
    PROVE  /\ IsFiniteSet(Pile(C \cup {d}, m))
           /\ Cardinality(Pile(C \cup {d}, m)) = Cardinality(Pile(C, m)) + m[d]
<1>. DEFINE column == {d} \X (1 .. m[d])
<1>1. Pile(C \cup {d}, m) = Pile(C, m) \cup column
  BY DEF Pile
<1>2. Pile(C, m) \cap column = {}
  BY DEF Pile
<1>3. IsFiniteSet(column) /\ Cardinality(column) = m[d]
  <2>1. IsFiniteSet({d}) /\ Cardinality({d}) = 1
    BY FS_Singleton
  <2>2. IsFiniteSet(1 .. m[d]) /\ Cardinality(1 .. m[d]) = m[d]
    BY SubsetOfInterval
  <2>3. IsFiniteSet(column) /\ Cardinality(column) = 1 * m[d]
    <3>. DEFINE A == {d}
                B == 1 .. m[d]
    <3>1. IsFiniteSet(A) /\ IsFiniteSet(B) /\ Cardinality(A) = 1 /\ Cardinality(B) = m[d]
      BY <2>1, <2>2
    <3>. HIDE DEF A, B
    <3>2. IsFiniteSet(A \X B) /\ Cardinality(A \X B) = Cardinality(A) * Cardinality(B)
      BY <3>1, FS_Product
    <3>3. IsFiniteSet(A \X B) /\ Cardinality(A \X B) = 1 * m[d]
      BY <3>1, <3>2
    <3>. QED BY <3>3 DEF A, B
  <2>. QED BY <2>3
<1>4. Cardinality({}) = 0
  BY FS_EmptySet
<1>5. Cardinality(Pile(C, m)) \in Nat
  BY FS_CardinalityType
<1>. HIDE DEF column
<1>6. /\ IsFiniteSet(Pile(C, m) \cup column)
      /\ Cardinality(Pile(C, m) \cup column)
           = Cardinality(Pile(C, m)) + Cardinality(column) - Cardinality(Pile(C, m) \cap column)
  BY <1>3, FS_Union
<1>7. Cardinality(Pile(C, m) \cap column) = 0
  BY <1>2, <1>4
<1>8. Cardinality(Pile(C, m) \cup column) = Cardinality(Pile(C, m)) + m[d]
  BY <1>3, <1>5, <1>6, <1>7
<1>. QED BY <1>1, <1>6, <1>8

\* The columns from lo on, up to one of them.
PileUpTo(lo, n, m) == Cardinality(Pile(lo .. n - 1, m))

\* From nothing, each column adds its height.
Growth(lo, hi, m) ==
    /\ PileUpTo(lo, lo, m) = 0
    /\ \A n \in lo .. hi : PileUpTo(lo, n, m) \in Nat /\ IsFiniteSet(Pile(lo .. n - 1, m))
    /\ \A n \in lo .. hi - 1 : PileUpTo(lo, n + 1, m) = PileUpTo(lo, n, m) + m[n]

\* The pile grows column by column.
LEMMA PileGrows ==
    ASSUME NEW lo \in Nat, NEW hi \in Nat, NEW m, \A c \in lo .. hi - 1 : m[c] \in Nat
    PROVE  Growth(lo, hi, m)
<1>1. Pile(lo .. lo - 1, m) = {}
  BY DEF Pile
<1>2. PileUpTo(lo, lo, m) = 0 /\ IsFiniteSet(Pile(lo .. lo - 1, m))
  BY <1>1, FS_EmptySet DEF PileUpTo
<1>3. ASSUME NEW n \in lo .. hi - 1, IsFiniteSet(Pile(lo .. n - 1, m))
      PROVE  /\ IsFiniteSet(Pile(lo .. (n + 1) - 1, m))
             /\ PileUpTo(lo, n + 1, m) = PileUpTo(lo, n, m) + m[n]
  <2>1. n \notin lo .. n - 1 /\ m[n] \in Nat /\ lo .. (n + 1) - 1 = (lo .. n - 1) \cup {n}
    OBVIOUS
  <2>2. /\ IsFiniteSet(Pile((lo .. n - 1) \cup {n}, m))
        /\ Cardinality(Pile((lo .. n - 1) \cup {n}, m)) = Cardinality(Pile(lo .. n - 1, m)) + m[n]
    <3>. DEFINE C == lo .. n - 1
    <3>1. n \notin C /\ IsFiniteSet(Pile(C, m))
      BY <1>3, <2>1
    <3>. HIDE DEF C
    <3>2. /\ IsFiniteSet(Pile(C \cup {n}, m))
          /\ Cardinality(Pile(C \cup {n}, m)) = Cardinality(Pile(C, m)) + m[n]
      BY <2>1, <3>1, PileAdd
    <3>. QED BY <3>2 DEF C
  <2>. QED BY <2>1, <2>2 DEF PileUpTo
<1>. DEFINE Grown == {k \in Nat : lo + k <= hi => IsFiniteSet(Pile(lo .. lo + k - 1, m))}
<1>4. 0 \in Grown
  BY <1>2
<1>5. ASSUME NEW k \in Nat, k \in Grown PROVE k + 1 \in Grown
  <2>. SUFFICES ASSUME lo + (k + 1) <= hi
                PROVE  IsFiniteSet(Pile(lo .. lo + (k + 1) - 1, m))
    OBVIOUS
  <2>1. lo + k \in lo .. hi - 1 /\ lo + k <= hi /\ lo + (k + 1) = (lo + k) + 1
    OBVIOUS
  <2>2. IsFiniteSet(Pile(lo .. (lo + k) - 1, m))
    BY <1>5, <2>1
  <2>3. IsFiniteSet(Pile(lo .. ((lo + k) + 1) - 1, m))
    BY <1>3, <2>1, <2>2
  <2>. QED BY <2>1, <2>3
<1>6. Nat \subseteq Grown
  <2>. HIDE DEF Grown
  <2>. QED BY <1>4, <1>5, SetInduction
<1>7. ASSUME NEW n \in lo .. hi
      PROVE  PileUpTo(lo, n, m) \in Nat /\ IsFiniteSet(Pile(lo .. n - 1, m))
  <2>1. n - lo \in Nat /\ lo + (n - lo) = n
    OBVIOUS
  <2>2. n - lo \in Grown
    BY <1>6, <2>1
  <2>3. lo + (n - lo) <= hi => IsFiniteSet(Pile(lo .. lo + (n - lo) - 1, m))
    BY <2>2
  <2>4. IsFiniteSet(Pile(lo .. n - 1, m))
    BY <2>1, <2>3
  <2>. QED BY <2>4, FS_CardinalityType DEF PileUpTo
<1>8. ASSUME NEW n \in lo .. hi - 1
      PROVE  PileUpTo(lo, n + 1, m) = PileUpTo(lo, n, m) + m[n]
  <2>1. n \in lo .. hi
    OBVIOUS
  <2>. QED BY <1>3, <1>7, <2>1
<1>. QED BY <1>2, <1>7, <1>8 DEF Growth

\* Behind a column there is at least that column more.
LEMMA PileMonotone ==
    ASSUME NEW lo \in Nat, NEW hi \in Nat, NEW m, \A c \in lo .. hi - 1 : m[c] \in Nat
    PROVE  /\ \A k, n \in lo .. hi : k <= n => PileUpTo(lo, k, m) <= PileUpTo(lo, n, m)
           /\ \A k, n \in lo .. hi : k < n => PileUpTo(lo, k, m) + m[k] <= PileUpTo(lo, n, m)
<1>0. Growth(lo, hi, m)
  BY PileGrows
<1>1. ASSUME NEW k \in lo .. hi, NEW n \in lo .. hi, k <= n
      PROVE  PileUpTo(lo, k, m) <= PileUpTo(lo, n, m)
  <2>1. lo .. k - 1 \subseteq lo .. n - 1
    BY <1>1
  <2>2. Pile(lo .. k - 1, m) \subseteq Pile(lo .. n - 1, m)
    BY <2>1 DEF Pile
  <2>3. IsFiniteSet(Pile(lo .. n - 1, m))
    BY <1>0 DEF Growth
  <2>. QED BY <2>2, <2>3, FS_Subset DEF PileUpTo
<1>2. ASSUME NEW k \in lo .. hi, NEW n \in lo .. hi, k < n
      PROVE  PileUpTo(lo, k, m) + m[k] <= PileUpTo(lo, n, m)
  <2>1. k \in lo .. hi - 1 /\ k + 1 \in lo .. hi /\ k + 1 <= n
    BY <1>2
  <2>2. PileUpTo(lo, k + 1, m) = PileUpTo(lo, k, m) + m[k]
    BY <1>0, <2>1 DEF Growth
  <2>. QED BY <1>1, <2>1, <2>2
<1>. QED BY <1>1, <1>2

\* Every number below the sum is in one column.
LEMMA PileColumn ==
    ASSUME NEW lo \in Nat, NEW hi \in Nat, NEW m, \A c \in lo .. hi - 1 : m[c] \in Nat,
           lo <= hi, NEW p \in Nat, p < PileUpTo(lo, hi, m)
    PROVE  \E c \in lo .. hi - 1 : PileUpTo(lo, c, m) <= p /\ p < PileUpTo(lo, c, m) + m[c]
<1>0. /\ PileUpTo(lo, lo, m) = 0
      /\ \A k \in lo .. hi : PileUpTo(lo, k, m) \in Nat
      /\ \A k \in lo .. hi - 1 : PileUpTo(lo, k + 1, m) = PileUpTo(lo, k, m) + m[k]
  <2>1. Growth(lo, hi, m)
    BY PileGrows
  <2>. QED BY <2>1 DEF Growth
<1>. DEFINE T == {n \in Nat : n \in lo .. hi /\ p < PileUpTo(lo, n, m)}
<1>1. hi \in T
  OBVIOUS
<1>2. PICK n \in T : \A y \in T : n <= y
  <2>. T \subseteq Nat /\ T # {}
    BY <1>1
  <2>. HIDE DEF T
  <2>. QED BY LeastElement
<1>3. n \in lo .. hi /\ p < PileUpTo(lo, n, m)
  OBVIOUS
<1>4. n # lo
  BY <1>0, <1>3
<1>5. n - 1 \in lo .. hi - 1 /\ n - 1 \in lo .. hi /\ (n - 1) + 1 = n /\ n - 1 \in Nat
  BY <1>3, <1>4
<1>6. ~(p < PileUpTo(lo, n - 1, m))
  BY <1>2, <1>5
<1>7. /\ PileUpTo(lo, n - 1, m) \in Nat
      /\ PileUpTo(lo, (n - 1) + 1, m) = PileUpTo(lo, n - 1, m) + m[n - 1]
  <2>. QED BY <1>0, <1>5
<1>. QED BY <1>3, <1>5, <1>6, <1>7

------------------------------------------------------------------------------
(* Joining sequences.                                                       *)

\* F[k] is the first k of the sequences joined, and FlattenSeq joins them all.
Joins(F, n, seqs) ==
    /\ F[0] = <<>>
    /\ \A k \in 1 .. n : F[k] = F[k - 1] \o seqs[k]
    /\ FlattenSeq(seqs) = F[n]

\* Sequences are joined one after the other.
LEMMA FlattenShape ==
    ASSUME NEW S, NEW n \in Nat \ {0}, NEW seqs \in [1 .. n -> Seq(S)]
    PROVE  \E F \in [0 .. n -> Seq(S)] : Joins(F, n, seqs)
<1>. DEFINE g == [x \in Nat \X Seq(S) |-> IF x[1] \in 1 .. n THEN x[2] \o seqs[x[1]] ELSE x[2]]
<1>1. g \in [Nat \X Seq(S) -> Seq(S)]
  <2>. SUFFICES ASSUME NEW x \in Nat \X Seq(S)
                PROVE  (IF x[1] \in 1 .. n THEN x[2] \o seqs[x[1]] ELSE x[2]) \in Seq(S)
    OBVIOUS
  <2>1. x[2] \in Seq(S)
    OBVIOUS
  <2>2. CASE x[1] \in 1 .. n
    <3>1. seqs[x[1]] \in Seq(S)
      BY <2>2
    <3>. QED BY <2>1, <2>2, <3>1
  <2>. QED BY <2>1, <2>2
<1>2. <<>> \in Seq(S)
  OBVIOUS
<1>3. PICK f \in [Nat -> Seq(S)] :
          f[0] = <<>> /\ \A k \in Nat \ {0} : f[k] = g[<<k, f[k - 1]>>]
  <2>. DEFINE Q == Seq(S)
              e == <<>>
  <2>1. g \in [Nat \X Q -> Q] /\ e \in Q
    BY <1>1, <1>2
  <2>. HIDE DEF g, Q, e
  <2>2. \E f \in [Nat -> Q] : IsRecursion(f, e, g)
    BY <2>1, Recursion
  <2>. QED BY <2>2 DEF Q, e, IsRecursion
<1>4. f[0] = <<>>
  BY <1>3
<1>5. ASSUME NEW k \in 1 .. n PROVE f[k] = f[k - 1] \o seqs[k]
  <2>1. k \in Nat /\ k # 0 /\ k - 1 \in Nat /\ f[k - 1] \in Seq(S)
    <3>. HIDE DEF g
    <3>. QED BY SMTT(30)
  <2>2. f[k] = g[<<k, f[k - 1]>>]
    <3>. HIDE DEF g
    <3>. QED BY <1>3, <2>1
  <2>. QED BY <2>1, <2>2
<1>. HIDE DEF g
<1>. DEFINE F == [k \in 0 .. n |-> f[k]]
<1>6. F \in [0 .. n -> Seq(S)] /\ F[0] = <<>>
  BY <1>4
<1>7. ASSUME NEW k \in 1 .. n PROVE F[k] = F[k - 1] \o seqs[k]
  <2>1. k \in 0 .. n /\ k - 1 \in 0 .. n
    OBVIOUS
  <2>. QED BY <1>5, <2>1
<1>8. FlattenSeq(seqs) = F[n]
  <2>1. Len(seqs) = n
    OBVIOUS
  <2>. DEFINE Is(h) == h = [i \in 1 .. n |-> IF i = 1 THEN seqs[i] ELSE h[i - 1] \o seqs[i]]
              G == [k \in 1 .. n |-> F[k]]
              H == CHOOSE h : Is(h)
  <2>2. Is(G)
    <3>. DEFINE R == [i \in 1 .. n |-> IF i = 1 THEN seqs[i] ELSE G[i - 1] \o seqs[i]]
    <3>1. ASSUME NEW i \in 1 .. n PROVE F[i] = R[i]
      <4>. HIDE DEF F
      <4>1. CASE i = 1
        <5>1. F[i] = F[i - 1] \o seqs[i]
          BY <1>7
        <5>2. i - 1 = 0 /\ seqs[i] \in Seq(S)
          BY <4>1
        <5>3. F[i] = <<>> \o seqs[i]
          BY <1>6, <5>1, <5>2
        <5>4. <<>> \o seqs[i] = seqs[i]
          BY <5>2
        <5>. QED BY <4>1, <5>3, <5>4
      <4>2. CASE i # 1
        <5>1. i - 1 \in 1 .. n
          BY <4>2
        <5>2. G[i - 1] = F[i - 1]
          BY <5>1
        <5>. QED BY <1>7, <4>2, <5>2
      <4>. QED BY <4>1, <4>2
    <3>. HIDE DEF F
    <3>. QED BY <3>1
  <2>3. Is(H)
    <3>. HIDE DEF G, Is
    <3>. QED BY <2>2 DEF H
  <2>. HIDE DEF F, G
  <2>. DEFINE Agreed == {k \in Nat : k \in 1 .. n => H[k] = F[k]}
  <2>4. 0 \in Agreed
    OBVIOUS
  <2>5. ASSUME NEW k \in Nat, k \in Agreed PROVE k + 1 \in Agreed
    <3>. HIDE DEF H
    <3>0. k + 1 \in Nat
      OBVIOUS
    <3>. SUFFICES ASSUME k + 1 \in 1 .. n PROVE H[k + 1] = F[k + 1]
      BY <3>0, Zenon
    <3>1. H[k + 1] = IF k + 1 = 1 THEN seqs[k + 1] ELSE H[(k + 1) - 1] \o seqs[k + 1]
      BY <2>3
    <3>2. F[k + 1] = F[(k + 1) - 1] \o seqs[k + 1]
      BY <1>7
    <3>3. CASE k = 0
      <4>1. (k + 1) - 1 = 0 /\ k + 1 = 1
        BY <3>3
      <4>2. seqs[k + 1] \in Seq(S)
        OBVIOUS
      <4>3. F[k + 1] = <<>> \o seqs[k + 1]
        BY <1>6, <3>2, <4>1
      <4>4. <<>> \o seqs[k + 1] = seqs[k + 1]
        BY <4>2
      <4>. QED BY <3>1, <4>1, <4>3, <4>4
    <3>4. CASE k # 0
      <4>1. k \in 1 .. n /\ (k + 1) - 1 = k /\ k + 1 # 1
        BY <3>4
      <4>2. H[k] = F[k]
        BY <2>5, <4>1
      <4>. QED BY <3>1, <3>2, <4>1, <4>2
    <3>. QED BY <3>3, <3>4
  <2>6. Nat \subseteq Agreed
    <3>. HIDE DEF Agreed
    <3>. QED BY <2>4, <2>5, SetInduction
  <2>7. H[n] = F[n]
    <3>1. n \in Nat /\ n \in 1 .. n
      OBVIOUS
    <3>2. n \in Agreed
      BY <2>6, <3>1
    <3>. QED BY <3>1, <3>2
  <2>8. FlattenSeq(seqs) = H[n]
    BY <2>1 DEF FlattenSeq, H, Is
  <2>. QED BY <2>7, <2>8
<1>. HIDE DEF F
<1>. QED BY <1>6, <1>7, <1>8 DEF Joins
==============================================================================
