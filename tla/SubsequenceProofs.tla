------------------------- MODULE SubsequenceProofs --------------------------
(***************************************************************************)
(* How a subsequence grows with its sequence and loses its head with it;   *)
(* induction, and recursion over numbers, stated of sets; machines that    *)
(* read a text; texts that are joined, and what they begin and end with.   *)
(***************************************************************************)
EXTENDS Subsequences, FiniteSetTheorems, SequenceTheorems, WellFoundedInduction, TLAPS

LEMMA RankType ==
    ASSUME NEW at, IsFiniteSet(at), NEW i
    PROVE  /\ IsFiniteSet({j \in at : j <= i}) /\ Cardinality(at) \in Nat
           /\ Rank(at, i) \in 0 .. Cardinality(at)
<1>1. {j \in at : j <= i} \in SUBSET at
  OBVIOUS
<1>2. QED
  BY <1>1, FS_Subset, FS_CardinalityType DEF Rank

\* A later position of the set has a higher rank.
LEMMA RankGrows ==
    ASSUME NEW at \in SUBSET Int, IsFiniteSet(at), NEW i \in Int, NEW j \in at, i < j
    PROVE  Rank(at, i) < Rank(at, j)
<1> DEFINE I == {k \in at : k <= i}
           J == {k \in at : k <= j}
<1>1. I \in SUBSET J /\ I # J /\ IsFiniteSet(J)
  <2>1. j \in J /\ j \notin I
    OBVIOUS
  <2>2. \A k \in I : k \in J
    OBVIOUS
  <2>3. QED
    BY <2>1, <2>2, RankType
<1>2. Cardinality(I) <= Cardinality(J) /\ Cardinality(I) # Cardinality(J)
  BY <1>1, FS_Subset
<1>3. Cardinality(I) \in Nat /\ Cardinality(J) \in Nat
  BY <1>1, FS_Subset, FS_CardinalityType
<1>4. QED
  BY <1>2, <1>3 DEF Rank

LEMMA RankIsPlace ==
    ASSUME NEW at \in SUBSET Int, IsFiniteSet(at)
    PROVE  /\ \A i \in at : Rank(at, i) \in 1 .. Cardinality(at)
           /\ \A i, j \in at : Rank(at, i) = Rank(at, j) => i = j
<1>1. ASSUME NEW i \in at PROVE Rank(at, i) \in 1 .. Cardinality(at)
  <2>1. i \in {j \in at : j <= i} /\ IsFiniteSet({j \in at : j <= i})
    BY RankType
  <2>2. Rank(at, i) # 0
    BY <2>1, FS_EmptySet DEF Rank
  <2>3. Rank(at, i) \in 0 .. Cardinality(at) /\ Cardinality(at) \in Nat
    BY RankType
  <2>4. QED
    BY <2>2, <2>3
<1>2. ASSUME NEW i \in at, NEW j \in at, Rank(at, i) = Rank(at, j) PROVE i = j
  <2>1. ~(i < j) /\ ~(j < i)
    BY <1>1, <1>2, RankGrows
  <2>2. QED
    BY <2>1
<1>3. QED
  BY <1>1, <1>2

\* Every place has its position.
LEMMA PlaceIsTaken ==
    ASSUME NEW at \in SUBSET Int, IsFiniteSet(at), NEW k \in 1 .. Cardinality(at)
    PROVE  \E i \in at : Rank(at, i) = k
<1> DEFINE f == [i \in at |-> Rank(at, i)]
           T == 1 .. Cardinality(at)
<1>1. f \in Injection(at, T)
  BY RankIsPlace DEF Injection, IsInjective
<1>2. Cardinality(at) \in Nat
  BY FS_CardinalityType
<1>3. IsFiniteSet(T) /\ Cardinality(T) = Cardinality(at)
  BY <1>2, FS_Interval
<1>4. f \in Surjection(at, T)
  BY <1>1, <1>3, FS_Injection
<1>5. QED
  BY <1>4 DEF Surjection

LEMMA NthIsThere ==
    ASSUME NEW at \in SUBSET Int, IsFiniteSet(at)
    PROVE  /\ \A k \in 1 .. Cardinality(at) : Nth(at, k) \in at /\ Rank(at, Nth(at, k)) = k
           /\ \A i \in at : Nth(at, Rank(at, i)) = i
<1>1. \A k \in 1 .. Cardinality(at) : Nth(at, k) \in at /\ Rank(at, Nth(at, k)) = k
  BY PlaceIsTaken DEF Nth
<1>2. \A i \in at : Rank(at, i) \in 1 .. Cardinality(at)
  BY RankIsPlace
<1>3. ASSUME NEW i \in at PROVE Nth(at, Rank(at, i)) = i
  <2>1. PICK k \in 1 .. Cardinality(at) : k = Rank(at, i)
    BY <1>2
  <2>2. Nth(at, k) \in at /\ Rank(at, Nth(at, k)) = Rank(at, i)
    BY <1>1, <2>1
  <2>3. \A x, y \in at : Rank(at, x) = Rank(at, y) => x = y
    BY RankIsPlace
  <2>4. Nth(at, k) = i
    BY <2>2, <2>3
  <2>5. QED
    BY <2>1, <2>4
<1>4. QED
  BY <1>1, <1>3

LEMMA Positions ==
    ASSUME NEW S, NEW s \in Seq(S), NEW at \in SUBSET (1 .. Len(s))
    PROVE  /\ at \in SUBSET Int /\ IsFiniteSet(at) /\ Cardinality(at) \in Nat
           /\ \A i \in at : s[i] \in S
<1>1. IsFiniteSet(1 .. Len(s))
  BY FS_Interval
<1>2. IsFiniteSet(at)
  BY <1>1, FS_Subset
<1>3. QED
  BY <1>2, FS_CardinalityType

LEMMA SubsequenceType ==
    ASSUME NEW S, NEW s \in Seq(S), NEW at \in SUBSET (1 .. Len(s)),
           NEW T, \A i \in at : s[i] \in T
    PROVE  /\ Subsequence(s, at) \in Seq(T)
           /\ Len(Subsequence(s, at)) = Cardinality(at)
           /\ DOMAIN Subsequence(s, at) = 1 .. Cardinality(at)
<1>1. Cardinality(at) \in Nat /\ at \in SUBSET Int /\ IsFiniteSet(at)
  BY Positions
<1>2. Subsequence(s, at) \in [1 .. Cardinality(at) -> T]
  BY <1>1, NthIsThere DEF Subsequence
<1>3. QED
  BY <1>1, <1>2

\* The subsequence has exactly the elements of its positions.
LEMMA SubsequenceRange ==
    ASSUME NEW S, NEW s \in Seq(S), NEW at \in SUBSET (1 .. Len(s)), NEW x \in S
    PROVE  (\E k \in 1 .. Cardinality(at) : Subsequence(s, at)[k] = x) <=> \E i \in at : s[i] = x
<1>0. at \in SUBSET Int /\ IsFiniteSet(at)
  BY Positions
<1>1. \A k \in 1 .. Cardinality(at) : Subsequence(s, at)[k] = s[Nth(at, k)] /\ Nth(at, k) \in at
  BY <1>0, NthIsThere DEF Subsequence
<1>2. \A i \in at : /\ Rank(at, i) \in 1 .. Cardinality(at)
                    /\ Subsequence(s, at)[Rank(at, i)] = s[i]
  BY <1>0, RankIsPlace, NthIsThere DEF Subsequence
<1>3. QED
  BY <1>1, <1>2

\* A position after all the others puts its element at the end.
LEMMA SubsequenceAppend ==
    ASSUME NEW S, NEW s \in Seq(S), NEW at \in SUBSET (1 .. Len(s)),
           NEW t \in Seq(S), NEW m \in 1 .. Len(t), \A i \in at : i < m /\ t[i] = s[i]
    PROVE  Subsequence(t, at \cup {m}) = Append(Subsequence(s, at), t[m])
<1> DEFINE all == at \cup {m}
           n == Cardinality(at)
<1>0. at \in SUBSET Int /\ IsFiniteSet(at) /\ all \in SUBSET (1 .. Len(t)) /\ t[m] \in S
  BY Positions
<1>1. m \notin at
  OBVIOUS
<1>2. IsFiniteSet(all) /\ Cardinality(all) = n + 1 /\ n \in Nat /\ all \in SUBSET Int
  BY <1>0, <1>1, FS_AddElement, FS_CardinalityType
<1>3. ASSUME NEW i \in at PROVE Rank(all, i) = Rank(at, i)
  <2>1. {j \in all : j <= i} = {j \in at : j <= i}
    OBVIOUS
  <2>2. QED
    BY <2>1 DEF Rank
<1>4. Rank(all, m) = n + 1
  <2>1. \A j \in all : j <= m
    <3>1. \A j \in at : j \in Int /\ j < m
      OBVIOUS
    <3>2. QED
      BY <3>1
  <2>2. {j \in all : j <= m} = all
    BY <2>1
  <2>3. QED
    BY <1>2, <2>2 DEF Rank
<1>5. ASSUME NEW k \in 1 .. n PROVE Nth(all, k) = Nth(at, k)
  <2>1. Nth(at, k) \in at /\ Rank(at, Nth(at, k)) = k
    BY <1>0, NthIsThere
  <2>2. Nth(at, k) \in all /\ Rank(all, Nth(at, k)) = k
    BY <1>3, <2>1
  <2>3. QED
    BY <1>2, <2>2, NthIsThere
<1>6. Nth(all, n + 1) = m
  <2>1. m \in all
    OBVIOUS
  <2>2. QED
    BY <1>2, <1>4, <2>1, NthIsThere
<1>7. /\ Subsequence(s, at) \in Seq(S) /\ Len(Subsequence(s, at)) = n
      /\ Subsequence(t, all) \in Seq(S) /\ Len(Subsequence(t, all)) = n + 1
  <2>1. (\A i \in at : s[i] \in S) /\ (\A i \in all : t[i] \in S)
    BY <1>0, Positions
  <2>2. QED
    BY <1>0, <1>2, <2>1, SubsequenceType
<1>8. /\ Append(Subsequence(s, at), t[m]) \in Seq(S)
      /\ Len(Append(Subsequence(s, at), t[m])) = n + 1
      /\ \A k \in 1 .. n : Append(Subsequence(s, at), t[m])[k] = Subsequence(s, at)[k]
      /\ Append(Subsequence(s, at), t[m])[n + 1] = t[m]
  BY <1>0, <1>7, AppendProperties
<1>9. ASSUME NEW k \in 1 .. (n + 1)
      PROVE  Subsequence(t, all)[k] = Append(Subsequence(s, at), t[m])[k]
  <2>1. Subsequence(t, all)[k] = t[Nth(all, k)]
    BY <1>2 DEF Subsequence
  <2>2. CASE k \in 1 .. n
    <3>1. Subsequence(s, at)[k] = s[Nth(at, k)] /\ Nth(at, k) \in at
      BY <1>0, <2>2, NthIsThere DEF Subsequence
    <3>2. QED
      BY <1>5, <1>8, <2>1, <2>2, <3>1
  <2>3. CASE k = n + 1
    BY <1>6, <1>8, <2>1, <2>3
  <2>4. k \in 1 .. n \/ k = n + 1
    BY <1>2
  <2>5. QED
    BY <2>2, <2>3, <2>4
<1>10. QED
  BY <1>7, <1>8, <1>9, SeqEqual

\* Moving every position with its element changes nothing.
LEMMA SubsequenceShift ==
    ASSUME NEW S, NEW s \in Seq(S), NEW at \in SUBSET (1 .. Len(s)), 1 \notin at,
           NEW t \in Seq(S), Len(s) = Len(t) + 1, \A i \in 1 .. Len(t) : t[i] = s[i + 1]
    PROVE  Subsequence(t, {i \in 1 .. Len(t) : i + 1 \in at}) = Subsequence(s, at)
<1> DEFINE b == {i \in 1 .. Len(t) : i + 1 \in at}
<1>a. b \in SUBSET (1 .. Len(t)) /\ \A i \in b : t[i] = s[i + 1]
  OBVIOUS
<1>b. \A i \in Int : i \in b <=> i + 1 \in at
  <2>1. \A i \in at : i \in 1 .. Len(s)
    OBVIOUS
  <2>2. QED
    BY <2>1
<1> HIDE DEF b
<1>0. at \in SUBSET Int /\ IsFiniteSet(at) /\ b \in SUBSET Int /\ IsFiniteSet(b)
  BY <1>a, Positions
<1>1. ASSUME NEW i \in Int
      PROVE  Cardinality({j \in b : j <= i}) = Cardinality({j \in at : j <= i + 1})
  <2> DEFINE B == {j \in b : j <= i}
             A == {j \in at : j <= i + 1}
             f == [j \in B |-> j + 1]
  <2>1. f \in Bijection(B, A)
    <3>1. f \in [B -> A]
      <4>1. \A j \in B : j \in Int /\ j + 1 \in at /\ j + 1 <= i + 1
        BY <1>0, <1>b
      <4>2. QED
        BY <4>1
    <3>2. f \in Injection(B, A)
      <4>1. ASSUME NEW x \in B, NEW y \in B, f[x] = f[y] PROVE x = y
        <5>1. x \in Int /\ y \in Int /\ f[x] = x + 1 /\ f[y] = y + 1
          BY <1>0
        <5>2. QED
          BY <4>1, <5>1
      <4>2. QED
        BY <3>1, <4>1 DEF Injection, IsInjective
    <3>3. ASSUME NEW x \in A PROVE \E y \in B : f[y] = x
      <4>1. x - 1 \in B /\ (x - 1) + 1 = x
        BY <1>0, <1>b
      <4>2. QED
        BY <4>1
    <3>4. QED
      BY <3>1, <3>2, <3>3 DEF Bijection, Surjection
  <2>2. IsFiniteSet(B)
    BY <1>0, RankType
  <2>3. QED
    BY <2>1, <2>2, FS_Bijection DEF ExistsBijection
<1>2. \A i \in Int : Rank(b, i) = Rank(at, i + 1)
  BY <1>1 DEF Rank
<1>3. Cardinality(b) = Cardinality(at)
  <2> DEFINE f == [j \in b |-> j + 1]
  <2>1. f \in Bijection(b, at)
    <3>1. f \in [b -> at]
      BY <1>0, <1>b
    <3>2. f \in Injection(b, at)
      <4>1. ASSUME NEW x \in b, NEW y \in b, f[x] = f[y] PROVE x = y
        <5>1. x \in Int /\ y \in Int /\ f[x] = x + 1 /\ f[y] = y + 1
          BY <1>0
        <5>2. QED
          BY <4>1, <5>1
      <4>2. QED
        BY <3>1, <4>1 DEF Injection, IsInjective
    <3>3. ASSUME NEW x \in at PROVE \E y \in b : f[y] = x
      <4>1. x - 1 \in b /\ (x - 1) + 1 = x
        BY <1>0, <1>b
      <4>2. QED
        BY <4>1
    <3>4. QED
      BY <3>1, <3>2, <3>3 DEF Bijection, Surjection
  <2>2. QED
    BY <1>0, <2>1, FS_Bijection DEF ExistsBijection
<1>4. ASSUME NEW k \in 1 .. Cardinality(at)
      PROVE  t[Nth(b, k)] = s[Nth(at, k)]
  <2>1. Nth(b, k) \in b /\ Rank(b, Nth(b, k)) = k
    BY <1>0, <1>3, NthIsThere
  <2>2. Nth(b, k) + 1 \in at /\ Rank(at, Nth(b, k) + 1) = k
    BY <1>0, <1>2, <1>b, <2>1
  <2>3. Nth(at, k) = Nth(b, k) + 1
    <3>1. \A i \in at : Nth(at, Rank(at, i)) = i
      BY <1>0, NthIsThere
    <3>2. QED
      BY <2>2, <3>1
  <2>4. QED
    BY <1>a, <2>1, <2>3
<1>5. QED
  BY <1>3, <1>4 DEF Subsequence, b

\* A position before all the others is the head; without it the tail is left.
LEMMA SubsequenceTail ==
    ASSUME NEW S, NEW s \in Seq(S), NEW at \in SUBSET (1 .. Len(s)),
           NEW m \in at, \A i \in at : m <= i
    PROVE  /\ Subsequence(s, at) # <<>>
           /\ Head(Subsequence(s, at)) = s[m]
           /\ Tail(Subsequence(s, at)) = Subsequence(s, at \ {m})
<1> DEFINE rest == at \ {m}
           n == Cardinality(at)
<1>0. at \in SUBSET Int /\ IsFiniteSet(at) /\ rest \in SUBSET (1 .. Len(s))
  BY Positions
<1>1. IsFiniteSet(rest) /\ Cardinality(rest) = n - 1 /\ n \in Nat /\ n # 0 /\ rest \in SUBSET Int
  BY <1>0, FS_RemoveElement, FS_CardinalityType, FS_EmptySet
<1>2. Rank(at, m) = 1
  <2>1. \A j \in at : j <= m <=> j = m
    BY <1>0
  <2>2. {j \in at : j <= m} = {m}
    BY <2>1
  <2>3. QED
    BY <2>2, FS_Singleton DEF Rank
<1>3. ASSUME NEW i \in rest PROVE Rank(at, i) = Rank(rest, i) + 1
  <2> DEFINE A == {j \in at : j <= i}
  <2>1. m \in A /\ IsFiniteSet(A) /\ {j \in rest : j <= i} = A \ {m}
    BY <1>0, RankType
  <2>2. Cardinality(A \ {m}) = Cardinality(A) - 1 /\ Cardinality(A) \in Nat
    BY <2>1, FS_RemoveElement, FS_CardinalityType
  <2>3. Rank(at, i) = Cardinality(A) /\ Rank(rest, i) = Cardinality(A \ {m})
    BY <2>1 DEF Rank
  <2>4. QED
    BY <2>2, <2>3
<1>4. ASSUME NEW k \in 1 .. (n - 1) PROVE Nth(rest, k) = Nth(at, k + 1) /\ Nth(rest, k) \in at
  <2>1. Nth(rest, k) \in rest /\ Rank(rest, Nth(rest, k)) = k
    BY <1>1, NthIsThere
  <2>2. Nth(rest, k) \in at /\ Rank(at, Nth(rest, k)) = k + 1
    BY <1>3, <2>1
  <2>3. QED
    BY <1>0, <2>2, NthIsThere
<1>5. /\ Subsequence(s, at) \in Seq(S) /\ Len(Subsequence(s, at)) = n
      /\ Subsequence(s, rest) \in Seq(S) /\ Len(Subsequence(s, rest)) = n - 1
  <2>1. \A i \in at : s[i] \in S
    BY Positions
  <2>2. QED
    BY <1>0, <1>1, <2>1, SubsequenceType
<1>6. /\ Subsequence(s, at) # <<>> /\ Head(Subsequence(s, at)) = Subsequence(s, at)[1]
      /\ Tail(Subsequence(s, at)) \in Seq(S) /\ Len(Tail(Subsequence(s, at))) = n - 1
      /\ \A k \in 1 .. (n - 1) : Tail(Subsequence(s, at))[k] = Subsequence(s, at)[k + 1]
  <2>1. Subsequence(s, at) # <<>>
    BY <1>1, <1>5, EmptySeq
  <2>2. QED
    BY <1>5, <2>1, HeadTailProperties
<1>7. Subsequence(s, at)[1] = s[m]
  <2>1. 1 \in 1 .. n /\ Nth(at, 1) = m
    BY <1>0, <1>1, <1>2, NthIsThere
  <2>2. QED
    BY <2>1 DEF Subsequence
<1>8. ASSUME NEW k \in 1 .. (n - 1)
      PROVE  Tail(Subsequence(s, at))[k] = Subsequence(s, rest)[k]
  <2>1. Subsequence(s, rest)[k] = s[Nth(rest, k)]
    BY <1>1 DEF Subsequence
  <2>2. k + 1 \in 1 .. n
    BY <1>1
  <2>3. Subsequence(s, at)[k + 1] = s[Nth(at, k + 1)]
    BY <2>2 DEF Subsequence
  <2>4. QED
    BY <1>4, <1>6, <2>1, <2>3
<1>9. Tail(Subsequence(s, at)) = Subsequence(s, rest)
  BY <1>5, <1>6, <1>8, SeqEqual
<1>10. QED
  BY <1>6, <1>7, <1>9

\* The case that a sequence's own head is in the part.
LEMMA SubsequenceHead ==
    ASSUME NEW S, NEW s \in Seq(S), NEW at \in SUBSET (1 .. Len(s)), 1 \in at
    PROVE  /\ Subsequence(s, at) # <<>>
           /\ Head(Subsequence(s, at)) = s[1]
           /\ Tail(Subsequence(s, at)) = Subsequence(s, at \ {1})
<1>1. \A i \in at : 1 <= i
  OBVIOUS
<1>2. QED
  BY <1>1, SubsequenceTail

-----------------------------------------------------------------------------
(* The elements of a sequence that are in a set.                           *)

LEMMA OnlyAt ==
    ASSUME NEW S, NEW s \in Seq(S), NEW T
    PROVE  LET at == {i \in DOMAIN s : s[i] \in T} IN
           /\ at \in SUBSET (1 .. Len(s)) /\ at \in SUBSET Int /\ IsFiniteSet(at)
           /\ Only(s, T) = Subsequence(s, at)
           /\ Only(s, T) \in Seq(T) /\ Len(Only(s, T)) = Cardinality(at)
<1> DEFINE at == {i \in DOMAIN s : s[i] \in T}
<1>1. at \in SUBSET (1 .. Len(s)) /\ \A i \in at : s[i] \in T
  OBVIOUS
<1>2. Only(s, T) = Subsequence(s, at)
  BY DEF Only
<1> HIDE DEF at
<1>3. at \in SUBSET Int /\ IsFiniteSet(at)
  BY <1>1, Positions
<1>4. Subsequence(s, at) \in Seq(T) /\ Len(Subsequence(s, at)) = Cardinality(at)
  BY <1>1, SubsequenceType
<1>5. QED
  BY <1>1, <1>2, <1>3, <1>4 DEF at

LEMMA OnlyEmpty == ASSUME NEW T PROVE Only(<<>>, T) = <<>>
<1> DEFINE at == {i \in DOMAIN <<>> : <<>>[i] \in T}
<1>1. at = {} /\ <<>> \in Seq({})
  OBVIOUS
<1>2. Only(<<>>, T) \in Seq(T) /\ Len(Only(<<>>, T)) = Cardinality(at)
  BY <1>1, OnlyAt
<1>3. Len(Only(<<>>, T)) = 0
  BY <1>1, <1>2, FS_EmptySet
<1>4. QED
  BY <1>2, <1>3, EmptySeq

\* None of the elements is in the set.
LEMMA OnlyNone ==
    ASSUME NEW S, NEW s \in Seq(S), NEW T, \A i \in 1 .. Len(s) : s[i] \notin T
    PROVE  Len(Only(s, T)) = 0
<1> DEFINE at == {i \in DOMAIN s : s[i] \in T}
<1>1. at = {}
  OBVIOUS
<1>2. Len(Only(s, T)) = Cardinality(at)
  BY OnlyAt
<1>3. QED
  BY <1>1, <1>2, FS_EmptySet

LEMMA OnlyAppend ==
    ASSUME NEW S, NEW s \in Seq(S), NEW e \in S, NEW T
    PROVE  Only(Append(s, e), T) = IF e \in T THEN Append(Only(s, T), e) ELSE Only(s, T)
<1> DEFINE t == Append(s, e)
           n == Len(s) + 1
           at == {i \in DOMAIN s : s[i] \in T}
           bt == {i \in DOMAIN t : t[i] \in T}
<1>1. /\ t \in Seq(S) /\ Len(t) = n /\ DOMAIN t = 1 .. n /\ DOMAIN s = 1 .. Len(s)
      /\ Len(s) \in Nat /\ t[n] = e /\ \A i \in 1 .. Len(s) : t[i] = s[i]
  OBVIOUS
<1>2. at \in SUBSET (1 .. Len(s)) /\ at \in SUBSET Int /\ IsFiniteSet(at)
      /\ Only(s, T) = Subsequence(s, at)
  BY OnlyAt
<1>3. Only(t, T) = Subsequence(t, bt)
  BY DEF Only
<1>4. n \in 1 .. Len(t) /\ \A i \in at : i < n /\ t[i] = s[i]
  BY <1>1, <1>2
<1>5. CASE e \in T
  <2>1. bt = at \cup {n}
    BY <1>1, <1>5
  <2>2. Subsequence(t, at \cup {n}) = Append(Subsequence(s, at), t[n])
    <3> HIDE DEF t, n, at
    <3>1. QED
      BY <1>1, <1>2, <1>4, SubsequenceAppend
  <2>3. QED
    BY <1>1, <1>2, <1>3, <1>5, <2>1, <2>2
<1>6. CASE e \notin T
  <2>1. bt = at
    BY <1>1, <1>6
  <2>2. \A k \in 1 .. Cardinality(at) : Nth(at, k) \in at
    <3> HIDE DEF at
    <3>1. QED
      BY <1>2, NthIsThere
  <2>3. Subsequence(t, at) = Subsequence(s, at)
    BY <1>4, <2>2 DEF Subsequence
  <2>4. QED
    BY <1>2, <1>3, <1>6, <2>1, <2>3
<1>7. QED
  BY <1>5, <1>6

LEMMA OnlyTail ==
    ASSUME NEW S, NEW s \in Seq(S), s # <<>>, NEW T
    PROVE  IF Head(s) \in T
           THEN /\ Only(s, T) # <<>> /\ Head(Only(s, T)) = Head(s)
                /\ Only(Tail(s), T) = Tail(Only(s, T))
           ELSE Only(Tail(s), T) = Only(s, T)
<1> DEFINE t == Tail(s)
           at == {i \in DOMAIN s : s[i] \in T}
           bt == {i \in DOMAIN t : t[i] \in T}
           rest == at \ {1}
<1>1. /\ t \in Seq(S) /\ Len(s) = Len(t) + 1 /\ Len(t) \in Nat
      /\ DOMAIN t = 1 .. Len(t) /\ DOMAIN s = 1 .. Len(s)
      /\ \A i \in 1 .. Len(t) : t[i] = s[i + 1]
      /\ Head(s) = s[1]
  OBVIOUS
<1>2. at \in SUBSET (1 .. Len(s)) /\ Only(s, T) = Subsequence(s, at)
  BY OnlyAt
<1>3. Only(t, T) = Subsequence(s, rest)
  <2>1. rest \in SUBSET (1 .. Len(s)) /\ 1 \notin rest
    BY <1>2
  <2>2. bt = {i \in 1 .. Len(t) : i + 1 \in rest}
    BY <1>1
  <2>3. Subsequence(t, {i \in 1 .. Len(t) : i + 1 \in rest}) = Subsequence(s, rest)
    <3> HIDE DEF t, rest
    <3>1. QED
      BY <1>1, <2>1, SubsequenceShift
  <2>4. QED
    BY <2>2, <2>3 DEF Only
<1>4. CASE Head(s) \in T
  <2>1. 1 \in at
    BY <1>1, <1>4
  <2>2. /\ Subsequence(s, at) # <<>> /\ Head(Subsequence(s, at)) = s[1]
        /\ Tail(Subsequence(s, at)) = Subsequence(s, at \ {1})
    <3> HIDE DEF at
    <3>1. QED
      BY <1>2, <2>1, SubsequenceHead
  <2>3. QED
    BY <1>1, <1>2, <1>3, <1>4, <2>2
<1>5. CASE Head(s) \notin T
  <2>1. rest = at
    BY <1>1, <1>5
  <2>2. QED
    BY <1>2, <1>3, <1>5, <2>1
<1>6. QED
  BY <1>4, <1>5

-----------------------------------------------------------------------------
(* A sequence in two parts.                                                *)

LEMMA SeqParts ==
    ASSUME NEW S, NEW q \in Seq(S), NEW w \in Seq(S)
    PROVE  /\ q \o w \in Seq(S) /\ Len(q \o w) = Len(q) + Len(w)
           /\ Len(q) \in Nat /\ Len(w) \in Nat
           /\ SubSeq(q \o w, Len(q) + 1, Len(q \o w)) = w
           /\ SubSeq(q \o w, 1, Len(q)) = q
           /\ <<>> \o w = w
<1>1. /\ q \o w \in Seq(S) /\ Len(q \o w) = Len(q) + Len(w)
      /\ Len(q) \in Nat /\ Len(w) \in Nat
      /\ \A i \in 1 .. Len(q) : (q \o w)[i] = q[i]
      /\ \A i \in 1 .. Len(w) : (q \o w)[Len(q) + i] = w[i]
  OBVIOUS
<1>2. SubSeq(q \o w, Len(q) + 1, Len(q \o w)) = w
  <2> DEFINE v == SubSeq(q \o w, Len(q) + 1, Len(q \o w))
  <2>1. v \in Seq(S) /\ Len(v) = Len(w) /\ \A i \in 1 .. Len(w) : v[i] = (q \o w)[Len(q) + i]
    BY <1>1
  <2>2. \A i \in 1 .. Len(v) : v[i] = w[i]
    BY <1>1, <2>1
  <2> HIDE DEF v
  <2>3. QED
    BY <2>1, <2>2, SeqEqual
<1>3. SubSeq(q \o w, 1, Len(q)) = q
  <2> DEFINE v == SubSeq(q \o w, 1, Len(q))
  <2>1. v \in Seq(S) /\ Len(v) = Len(q) /\ \A i \in 1 .. Len(q) : v[i] = (q \o w)[i]
    BY <1>1
  <2>2. \A i \in 1 .. Len(v) : v[i] = q[i]
    BY <1>1, <2>1
  <2> HIDE DEF v
  <2>3. QED
    BY <2>1, <2>2, SeqEqual
<1>4. <<>> \o w = w
  OBVIOUS
<1>5. QED
  BY <1>1, <1>2, <1>3, <1>4

LEMMA SeqHead ==
    ASSUME NEW S, NEW q \in Seq(S), NEW w \in Seq(S), q # <<>>
    PROVE  q \o w # <<>> /\ Head(q \o w) = Head(q) /\ Tail(q \o w) = Tail(q) \o w
<1>1. /\ q \o w \in Seq(S) /\ Len(q \o w) = Len(q) + Len(w) /\ Len(q) \in Nat /\ Len(w) \in Nat
      /\ Len(q) # 0
      /\ \A i \in 1 .. (Len(q) + Len(w)) : (q \o w)[i] = IF i <= Len(q) THEN q[i] ELSE w[i - Len(q)]
  OBVIOUS
<1>2. q \o w # <<>> /\ Head(q \o w) = Head(q)
  BY <1>1
<1>3. Tail(q \o w) = Tail(q) \o w
  <2> DEFINE u == Tail(q \o w)
             v == Tail(q) \o w
  <2>1. /\ u \in Seq(S) /\ Len(u) = Len(q) + Len(w) - 1
        /\ \A i \in 1 .. Len(u) : u[i] = (q \o w)[i + 1]
    BY <1>1, <1>2
  <2>2. /\ v \in Seq(S) /\ Len(v) = Len(q) + Len(w) - 1
        /\ \A i \in 1 .. Len(v) : v[i] = IF i <= Len(q) - 1 THEN q[i + 1] ELSE w[i - (Len(q) - 1)]
    BY <1>1
  <2>3. ASSUME NEW i \in 1 .. Len(u) PROVE u[i] = v[i]
    <3>1. i + 1 \in 1 .. (Len(q) + Len(w)) /\ (i + 1) - Len(q) = i - (Len(q) - 1)
      BY <1>1, <2>1
    <3>2. QED
      BY <1>1, <2>1, <2>2, <3>1
  <2> HIDE DEF u, v
  <2>4. QED
    BY <2>1, <2>2, <2>3, SeqEqual
<1>4. QED
  BY <1>2, <1>3

\* Whether the head of w is at the end of q or in front of the rest makes no difference.
LEMMA SeqMoved ==
    ASSUME NEW S, NEW q \in Seq(S), NEW w \in Seq(S), w # <<>>
    PROVE  Append(q, Head(w)) \o Tail(w) = q \o w
<1> DEFINE u == Append(q, Head(w)) \o Tail(w)
           v == q \o w
           n == Len(q) + Len(w)
<1>1. Len(q) \in Nat /\ Len(w) \in Nat /\ Len(w) # 0 /\ Head(w) = w[1] /\ Head(w) \in S
  OBVIOUS
<1>2. /\ v \in Seq(S) /\ Len(v) = n
      /\ \A i \in 1 .. n : v[i] = IF i <= Len(q) THEN q[i] ELSE w[i - Len(q)]
  OBVIOUS
<1>3. u \in Seq(S) /\ Len(u) = n
  BY <1>1
<1>4. \A i \in 1 .. n : u[i] = IF i <= Len(q) THEN q[i]
                               ELSE IF i = Len(q) + 1 THEN Head(w) ELSE w[(i - (Len(q) + 1)) + 1]
  BY <1>1
<1>5. ASSUME NEW i \in 1 .. n PROVE u[i] = v[i]
  <2>1. (i - (Len(q) + 1)) + 1 = i - Len(q) /\ (i = Len(q) + 1 => i - Len(q) = 1)
    BY <1>1
  <2>2. QED
    BY <1>1, <1>2, <1>4, <2>1
<1> HIDE DEF u, v
<1>6. QED
  BY <1>2, <1>3, <1>5, SeqEqual

-----------------------------------------------------------------------------
Less == {p \in Nat \X Nat : p[1] < p[2]}
LEMMA LessIsWellFounded == IsWellFoundedOn(Less, Nat)
<1>1. Less = OpToRel(<, Nat)
  BY DEF Less, OpToRel
<1>2. QED
  BY <1>1, NatLessThanWellFounded

LEMMA LeastNumber ==
    ASSUME NEW S \in SUBSET Nat, S # {}
    PROVE  \E n \in S : \A m \in S : n <= m
<1>1. PICK n \in S : \A m \in S : <<m, n>> \notin Less
  BY LessIsWellFounded, WFMin
<1>2. ASSUME NEW m \in S PROVE n <= m
  <2>1. <<m, n>> \in Nat \X Nat /\ m \in Nat /\ n \in Nat
    OBVIOUS
  <2>2. ~(m < n)
    BY <1>1, <2>1 DEF Less
  <2>3. QED
    BY <2>1, <2>2
<1>3. QED
  BY <1>2

LEMMA Induction ==
    ASSUME NEW S, 0 \in S, \A n \in Nat : n \in S => n + 1 \in S
    PROVE  Nat \subseteq S
<1> DEFINE T == Nat \ S
<1>1. SUFFICES ASSUME T # {} PROVE FALSE
  OBVIOUS
<1>2. PICK n \in T : \A m \in T : n <= m
  BY <1>1, LeastNumber
<1>3. n - 1 \in Nat /\ n - 1 \notin T /\ n - 1 + 1 = n
  BY <1>2
<1>4. QED
  BY <1>2, <1>3

LEMMA StrongInduction ==
    ASSUME NEW S, \A n \in Nat : (\A m \in Nat : m < n => m \in S) => n \in S
    PROVE  Nat \subseteq S
<1> DEFINE T == Nat \ S
<1>1. SUFFICES ASSUME T # {} PROVE FALSE
  OBVIOUS
<1>2. PICK n \in T : \A m \in T : n <= m
  BY <1>1, LeastNumber
<1>3. \A m \in Nat : m < n => m \in S
  BY <1>2
<1>4. QED
  BY <1>2, <1>3

\* A function can be defined from its value before.
Unfolds(f, N, z, step) == f[0] = z /\ \A n \in 1 .. N : f[n] = step[<<n, f[n - 1]>>]

LEMMA RecursionAt ==
    ASSUME NEW N \in Nat, NEW S, NEW z \in S, NEW step \in [(1 .. N) \X S -> S]
    PROVE  \E f \in [0 .. N -> S] : Unfolds(f, N, z, step)
<1> DEFINE Good(n) == {g \in [0 .. n -> S] : /\ g[0] = z
                                             /\ \A i \in 1 .. n : g[i] = step[<<i, g[i - 1]>>]}
           T == {n \in Nat : n <= N => Good(n) # {}}
<1>1. 0 \in T
  <2>1. [i \in 0 .. 0 |-> z] \in Good(0)
    OBVIOUS
  <2>2. QED
    BY <2>1
<1>2. ASSUME NEW n \in Nat, n \in T PROVE n + 1 \in T
  <2>1. CASE n + 1 <= N
    <3>1. PICK g \in Good(n) : TRUE
      BY <1>2, <2>1
    <3>2. <<n + 1, g[n]>> \in (1 .. N) \X S
      BY <2>1
    <3> DEFINE h == [i \in 0 .. n + 1 |-> IF i = n + 1 THEN step[<<n + 1, g[n]>>] ELSE g[i]]
    <3>3. h \in [0 .. n + 1 -> S] /\ h[0] = z
      BY <3>2
    <3>4. ASSUME NEW i \in 1 .. n + 1 PROVE h[i] = step[<<i, h[i - 1]>>]
      <4>1. i - 1 \in 0 .. n /\ h[i - 1] = g[i - 1]
        OBVIOUS
      <4>2. CASE i = n + 1
        <5>1. i - 1 = n /\ h[i] = step[<<n + 1, g[n]>>]
          BY <4>2
        <5>2. h[i - 1] = g[n]
          BY <4>1, <5>1
        <5> HIDE DEF h
        <5>3. QED
          BY <4>2, <5>1, <5>2
      <4>3. CASE i \in 1 .. n
        BY <4>1, <4>3
      <4>4. QED
        BY <4>2, <4>3
    <3>5. h \in Good(n + 1)
      BY <3>3, <3>4
    <3>6. Good(n + 1) # {}
      BY <3>5
    <3>7. QED
      BY <3>6
  <2>2. QED
    BY <2>1
<1>3. Good(N) # {}
  <2> HIDE DEF Good
  <2>1. \A n \in Nat : n \in T => n + 1 \in T
    BY <1>2
  <2>2. Nat \subseteq T
    <3> HIDE DEF T
    <3> QED BY <1>1, <2>1, Induction
  <2>3. QED
    BY <2>2
<1>4. PICK g \in Good(N) : TRUE
  BY <1>3
<1>5. QED
  BY <1>4 DEF Unfolds

LEMMA Recursion ==
    ASSUME NEW N \in Nat, NEW S, NEW z \in S, NEW step \in [(1 .. N) \X S -> S]
    PROVE  \E f \in [0 .. N -> S] : f = [n \in 0 .. N |-> IF n = 0 THEN z ELSE step[<<n, f[n - 1]>>]]
<1>1. PICK g \in [0 .. N -> S] : Unfolds(g, N, z, step)
  BY RecursionAt
<1>2. ASSUME NEW n \in 0 .. N
      PROVE  g[n] = IF n = 0 THEN z ELSE step[<<n, g[n - 1]>>]
  BY <1>1 DEF Unfolds
<1>3. QED
  BY <1>1, <1>2

-----------------------------------------------------------------------------
\* A machine that reads a sequence, an element at a time, and the state it is in after that.
IsMachine(C, S, z, step) == z \in S /\ step \in [S \X C -> S]
Stepped(step, s, c) == step[<<s, c>>]
ReadsBy(f, text, z, step, S) ==
    /\ f \in [0 .. Len(text) -> S]
    /\ f[0] = z
    /\ \A n \in 1 .. Len(text) : f[n] = Stepped(step, f[n - 1], text[n])
After(text, z, step, S) == CHOOSE s \in S : \E f : ReadsBy(f, text, z, step, S) /\ s = f[Len(text)]

LEMMA MachineRuns ==
    ASSUME NEW C, NEW S, NEW text \in Seq(C), NEW z, NEW step, IsMachine(C, S, z, step)
    PROVE  \E f : ReadsBy(f, text, z, step, S)
<1> DEFINE N == Len(text)
           next == [p \in (1 .. N) \X S |-> step[<<p[2], text[p[1]]>>]]
<1>1. N \in Nat /\ z \in S /\ step \in [S \X C -> S] /\ \A n \in 1 .. N : text[n] \in C
  BY DEF IsMachine
<1>2. next \in [(1 .. N) \X S -> S]
  <2>1. ASSUME NEW n \in 1 .. N, NEW s \in S PROVE step[<<s, text[n]>>] \in S
    BY <1>1
  <2> HIDE DEF N
  <2> QED BY <2>1
<1>3. PICK f \in [0 .. N -> S] : Unfolds(f, N, z, next)
  <2>1. \E f \in [0 .. N -> S] : Unfolds(f, N, z, next)
    <3> HIDE DEF next, N
    <3> QED BY <1>1, <1>2, RecursionAt
  <2> HIDE DEF next, N
  <2> QED BY <2>1
<1>4. \A n \in 1 .. N : f[n] = Stepped(step, f[n - 1], text[n])
  <2> SUFFICES ASSUME NEW n \in 1 .. N PROVE f[n] = step[<<f[n - 1], text[n]>>]
    BY DEF Stepped
  <2>1. n - 1 \in 0 .. N /\ f[n - 1] \in S
    BY <1>1
  <2>2. next[<<n, f[n - 1]>>] = step[<<f[n - 1], text[n]>>]
    BY <2>1
  <2> HIDE DEF next
  <2> QED BY <1>3, <2>2 DEF Unfolds
<1>5. f[0] = z
  BY <1>3 DEF Unfolds
<1>6. ReadsBy(f, text, z, step, S)
  BY <1>3, <1>4, <1>5 DEF ReadsBy
<1> QED BY <1>6

\* What is read first does not depend on what follows.
LEMMA MachineRunsOn ==
    ASSUME NEW text, NEW all, Len(text) \in Nat, Len(all) \in Nat, Len(text) <= Len(all),
           \A n \in 1 .. Len(text) : all[n] = text[n],
           NEW z, NEW step, NEW S, NEW f, NEW g, ReadsBy(f, text, z, step, S), ReadsBy(g, all, z, step, S)
    PROVE  g[Len(text)] = f[Len(text)]
<1> DEFINE T == {n \in Nat : n <= Len(text) => g[n] = f[n]}
<1>1. 0 \in T
  BY DEF ReadsBy
<1>2. ASSUME NEW n \in Nat, n \in T PROVE n + 1 \in T
  <2> SUFFICES ASSUME n + 1 <= Len(text) PROVE g[n + 1] = f[n + 1]
    OBVIOUS
  <2>1. n + 1 \in 1 .. Len(text) /\ n + 1 \in 1 .. Len(all) /\ n + 1 - 1 = n /\ n <= Len(text)
        /\ all[n + 1] = text[n + 1]
    OBVIOUS
  <2>2. g[n] = f[n]
    BY <1>2, <2>1
  <2>3. f[n + 1] = Stepped(step, f[n], text[n + 1])
    BY <2>1 DEF ReadsBy
  <2>4. g[n + 1] = Stepped(step, g[n], all[n + 1])
    BY <2>1 DEF ReadsBy
  <2> QED BY <2>1, <2>2, <2>3, <2>4
<1>3. Nat \subseteq T
  <2> HIDE DEF T
  <2> QED BY <1>1, <1>2, Induction
<1> QED BY <1>3

LEMMA AfterIs ==
    ASSUME NEW text, Len(text) \in Nat, NEW z, NEW step, NEW S, NEW f, ReadsBy(f, text, z, step, S)
    PROVE  After(text, z, step, S) = f[Len(text)] /\ f[Len(text)] \in S
<1>1. f[Len(text)] \in S
  BY DEF ReadsBy
<1>2. ASSUME NEW g, ReadsBy(g, text, z, step, S) PROVE g[Len(text)] = f[Len(text)]
  <2>1. Len(text) \in Nat /\ Len(text) <= Len(text) /\ \A n \in 1 .. Len(text) : text[n] = text[n]
    OBVIOUS
  <2> QED BY <1>2, <2>1, MachineRunsOn
<1> QED BY <1>1, <1>2 DEF After

LEMMA AfterType ==
    ASSUME NEW C, NEW S, NEW text \in Seq(C), NEW z, NEW step, IsMachine(C, S, z, step)
    PROVE  After(text, z, step, S) \in S
<1>1. PICK f : ReadsBy(f, text, z, step, S)
  BY MachineRuns
<1>2. Len(text) \in Nat
  OBVIOUS
<1> QED BY <1>1, <1>2, AfterIs

LEMMA AfterNone ==
    ASSUME NEW C, NEW S, NEW z, NEW step, IsMachine(C, S, z, step)
    PROVE  After(<<>>, z, step, S) = z
<1> DEFINE text == <<>>
<1>1. text \in Seq(C) /\ Len(text) = 0
  OBVIOUS
<1> HIDE DEF text
<1>2. PICK f : ReadsBy(f, text, z, step, S)
  BY <1>1, MachineRuns
<1>3. After(text, z, step, S) = f[Len(text)]
  BY <1>1, <1>2, AfterIs
<1> QED BY <1>1, <1>2, <1>3 DEF ReadsBy, text

LEMMA AfterNext ==
    ASSUME NEW C, NEW S, NEW text \in Seq(C), NEW c \in C, NEW z, NEW step, IsMachine(C, S, z, step)
    PROVE  After(Append(text, c), z, step, S) = Stepped(step, After(text, z, step, S), c)
<1> DEFINE N == Len(text)
           more == Append(text, c)
<1>1. N \in Nat /\ more \in Seq(C) /\ Len(more) = N + 1 /\ more[N + 1] = c /\ \A n \in 1 .. N : more[n] = text[n]
  OBVIOUS
<1> HIDE DEF more
<1>2. PICK f : ReadsBy(f, text, z, step, S)
  BY MachineRuns
<1>3. PICK g : ReadsBy(g, more, z, step, S)
  BY <1>1, MachineRuns
<1>4. After(text, z, step, S) = f[N]
  <2>1. Len(text) \in Nat
    OBVIOUS
  <2> QED BY <1>2, <2>1, AfterIs
<1>5. After(more, z, step, S) = g[N + 1]
  <2>1. Len(more) \in Nat
    BY <1>1
  <2>2. After(more, z, step, S) = g[Len(more)]
    BY <1>3, <2>1, AfterIs
  <2> QED BY <1>1, <2>2
<1>6. g[N] = f[N]
  <2>1. Len(text) \in Nat /\ Len(more) \in Nat /\ Len(text) <= Len(more) /\ \A n \in 1 .. Len(text) : more[n] = text[n]
    BY <1>1
  <2>2. g[Len(text)] = f[Len(text)]
    BY <1>2, <1>3, <2>1, MachineRunsOn
  <2> QED BY <2>2
<1>7. g[N + 1] = Stepped(step, g[N], c)
  <2>1. N + 1 \in 1 .. Len(more) /\ N + 1 - 1 = N
    BY <1>1
  <2> HIDE DEF N
  <2> QED BY <1>1, <1>3, <2>1 DEF ReadsBy
<1> QED BY <1>4, <1>5, <1>6, <1>7 DEF more

\* Two loops that begin alike and go on alike end alike.
LEMMA LoopsAgree ==
    ASSUME NEW N \in Nat, NEW f, NEW g, f[0] = g[0], \A n \in 1 .. N : f[n - 1] = g[n - 1] => f[n] = g[n]
    PROVE  f[N] = g[N]
<1> DEFINE T == {n \in Nat : n <= N => f[n] = g[n]}
<1>1. ASSUME NEW n \in Nat, n \in T PROVE n + 1 \in T
  <2> SUFFICES ASSUME n + 1 <= N PROVE f[n + 1] = g[n + 1]
    OBVIOUS
  <2> DEFINE m == n + 1
  <2>1. m \in 1 .. N /\ m - 1 = n /\ f[n] = g[n]
    BY <1>1
  <2> HIDE DEF m
  <2>2. f[m] = g[m]
    BY <2>1
  <2> QED BY <2>2 DEF m
<1>2. 0 \in T
  OBVIOUS
<1>3. Nat \subseteq T
  <2> HIDE DEF T
  <2> QED BY <1>1, <1>2, Induction
<1> QED BY <1>3

LEMMA MachineIs ==
    ASSUME NEW C, NEW S, NEW z \in S, NEW step, step = [p \in S \X C |-> step[p]],
           \A s \in S, c \in C : Stepped(step, s, c) \in S
    PROVE  IsMachine(C, S, z, step)
<1>1. ASSUME NEW p \in S \X C PROVE step[p] \in S
  <2>1. p[1] \in S /\ p[2] \in C /\ p = <<p[1], p[2]>>
    OBVIOUS
  <2>2. Stepped(step, p[1], p[2]) \in S
    BY <2>1
  <2> QED BY <2>1, <2>2 DEF Stepped
<1>2. [p \in S \X C |-> step[p]] \in [S \X C -> S]
  BY <1>1
<1> QED BY <1>2 DEF IsMachine

\* What is read in a loop that does what the machine does, as long as it is in one of its states.
LEMMA LoopEnds ==
    ASSUME NEW C, NEW S, NEW text \in Seq(C), NEW z, NEW step, IsMachine(C, S, z, step), NEW loop, loop[0] = z,
           \A n \in 1 .. Len(text) : loop[n - 1] \in S => loop[n] = Stepped(step, loop[n - 1], text[n])
    PROVE  loop[Len(text)] = After(text, z, step, S)
<1>1. PICK f : ReadsBy(f, text, z, step, S)
  BY MachineRuns
<1> DEFINE N == Len(text)
<1>2. N \in Nat /\ f[0] = z
  BY <1>1 DEF ReadsBy
<1>3. ASSUME NEW n \in 1 .. N, loop[n - 1] = f[n - 1] PROVE loop[n] = f[n]
  <2>1. n - 1 \in 0 .. N
    BY <1>2
  <2>2. f[n - 1] \in S /\ f[n] = Stepped(step, f[n - 1], text[n])
    BY <1>1, <2>1 DEF ReadsBy
  <2> QED BY <1>3, <2>2
<1>4. After(text, z, step, S) = f[N]
  BY <1>1, <1>2, AfterIs
<1> HIDE DEF N
<1>5. loop[N] = f[N]
  BY <1>2, <1>3, LoopsAgree
<1> QED BY <1>4, <1>5 DEF N

-----------------------------------------------------------------------------
\* Texts that are written one after the other: a machine that reads texts.
Seqs == INSTANCE SequencesExt
Joining(C) == [p \in Seq(C) \X Seq(C) |-> p[1] \o p[2]]

LEMMA JoiningType ==
    ASSUME NEW C
    PROVE  /\ IsMachine(Seq(C), Seq(C), <<>>, Joining(C))
           /\ \A s, t \in Seq(C) : Stepped(Joining(C), s, t) = s \o t
<1>1. ASSUME NEW p \in Seq(C) \X Seq(C) PROVE p[1] \o p[2] \in Seq(C)
  <2>1. p[1] \in Seq(C) /\ p[2] \in Seq(C)
    OBVIOUS
  <2> QED BY <2>1
<1>2. ASSUME NEW s \in Seq(C), NEW t \in Seq(C) PROVE Stepped(Joining(C), s, t) = s \o t
  BY DEF Joining, Stepped
<1>3. Joining(C) \in [Seq(C) \X Seq(C) -> Seq(C)]
  <2> DEFINE Y == Seq(C) \X Seq(C)
             Z == Seq(C)
  <2>1. \A p \in Y : p[1] \o p[2] \in Z
    BY <1>1
  <2> HIDE DEF Y, Z
  <2>2. [p \in Y |-> p[1] \o p[2]] \in [Y -> Z]
    BY <2>1
  <2> QED BY <2>2 DEF Joining, Y, Z
<1>4. <<>> \in Seq(C)
  OBVIOUS
<1> QED BY <1>2, <1>3, <1>4 DEF IsMachine

\* Sequences of texts are joined one after the other.
LEMMA FlatIs ==
    ASSUME NEW C, NEW seqs \in Seq(Seq(C))
    PROVE  Seqs!FlattenSeq(seqs) = After(seqs, <<>>, Joining(C), Seq(C))
<1> DEFINE N == Len(seqs)
           S == Seq(C)
           z == <<>>
           step == Joining(C)
           Computes(g) == g = [i \in 1 .. N |-> IF i = 1 THEN seqs[i] ELSE g[i - 1] \o seqs[i]]
           flat == CHOOSE g : Computes(g)
<1>1. N \in Nat /\ IsMachine(S, S, z, step) /\ \A s, t \in S : Stepped(step, s, t) = s \o t
  <2>1. IsMachine(S, S, z, step)
    BY JoiningType
  <2>2. \A s, t \in S : Stepped(step, s, t) = s \o t
    BY JoiningType
  <2>3. N \in Nat
    OBVIOUS
  <2> HIDE DEF step, S, z, N
  <2> QED BY <2>1, <2>2, <2>3
<1>2. seqs \in Seq(S) /\ \A n \in 1 .. N : seqs[n] \in S
  OBVIOUS
<1>3. PICK f : ReadsBy(f, seqs, z, step, S)
  <2>1. \E f : ReadsBy(f, seqs, z, step, S)
    <3> HIDE DEF S, z, step, N
    <3> QED BY <1>1, <1>2, MachineRuns
  <2> QED BY <2>1
<1>4. f[0] = z /\ \A n \in 1 .. N : f[n] = f[n - 1] \o seqs[n] /\ f[n - 1] \in S
  <2> SUFFICES ASSUME NEW n \in 1 .. N PROVE f[n] = f[n - 1] \o seqs[n] /\ f[n - 1] \in S
    BY <1>3 DEF ReadsBy
  <2>1. n - 1 \in 0 .. Len(seqs)
    BY <1>1
  <2>3. f[n - 1] \in S
    <3> HIDE DEF S
    <3> QED BY <1>3, <2>1 DEF ReadsBy
  <2>2. f[n] = Stepped(step, f[n - 1], seqs[n])
    BY <1>3 DEF ReadsBy
  <2> HIDE DEF step, S
  <2> QED BY <1>1, <1>2, <2>2, <2>3
<1> DEFINE Again(g, i) == g[i - 1] \o seqs[i]
<1>12. \A i \in 1 .. N : f[i] = Again(f, i)
  BY <1>4
<1> DEFINE h == [i \in 1 .. N |-> f[i]]
<1>5. Computes(h)
  <2> SUFFICES ASSUME NEW i \in 1 .. N PROVE f[i] = IF i = 1 THEN seqs[i] ELSE h[i - 1] \o seqs[i]
    OBVIOUS
  <2>1. CASE i = 1
    <3>0. i - 1 = 0 /\ f[i] = f[i - 1] \o seqs[i]
      <4>1. f[i] = Again(f, i)
        <5> HIDE DEF Again
        <5> QED BY <1>12
      <4>2. i - 1 = 0
        BY <2>1
      <4> QED BY <4>1, <4>2
    <3>1. i - 1 = 0 /\ seqs[i] \in Seq(C) /\ f[i] = f[i - 1] \o seqs[i]
      BY <1>2, <3>0
    <3>2. f[i] = <<>> \o seqs[i]
      <4> HIDE DEF S
      <4> QED BY <1>4, <3>1
    <3> QED BY <2>1, <3>1, <3>2
  <2>2. CASE i # 1
    <3>1. i - 1 \in 1 .. N /\ h[i - 1] = f[i - 1]
      BY <1>1, <2>2
    <3> HIDE DEF h
    <3> QED BY <1>4, <2>2, <3>1
  <2> QED BY <2>1, <2>2
<1>6. Computes(flat)
  <2> HIDE DEF Computes
  <2> QED BY <1>5
<1>11. \A i \in 1 .. N : i # 1 => flat[i] = Again(flat, i)
  <2> HIDE DEF flat
  <2> QED BY <1>6
<1>7. N > 0 => flat[N] = f[N]
  <2> DEFINE T == {n \in Nat : n + 1 <= N => flat[n + 1] = f[n + 1]}
  <2>1. 0 \in T
    <3> SUFFICES ASSUME 1 <= N PROVE flat[1] = f[1]
      OBVIOUS
    <3>1. 1 \in 1 .. N
      BY <1>1
    <3>2. flat[1] = seqs[1]
      <4> HIDE DEF flat
      <4> QED BY <1>6, <3>1
    <3>3. h[1] = seqs[1] /\ h[1] = f[1]
      <4>1. h[1] = f[1]
        BY <3>1
      <4> HIDE DEF h
      <4> QED BY <1>5, <3>1, <4>1
    <3> QED BY <3>2, <3>3
  <2>2. ASSUME NEW n \in Nat, n \in T PROVE n + 1 \in T
    <3> SUFFICES ASSUME n + 2 <= N PROVE flat[n + 2] = f[n + 2]
      OBVIOUS
    <3>1. n + 2 \in 1 .. N /\ n + 2 # 1 /\ n + 2 - 1 = n + 1
      BY <1>1
    <3>2. flat[n + 2] = flat[n + 1] \o seqs[n + 2]
      <4> DEFINE m == n + 2
      <4>2. m \in 1 .. N /\ m # 1 /\ m - 1 = n + 1
        BY <3>1
      <4> HIDE DEF m
      <4>1. flat[m] = Again(flat, m)
        <5> HIDE DEF flat, Again
        <5> QED BY <1>11, <4>2
      <4>3. flat[m] = flat[n + 1] \o seqs[m]
        <5> HIDE DEF flat
        <5> QED BY <4>1, <4>2
      <4> HIDE DEF flat
      <4> QED BY <4>3 DEF m
    <3>3. flat[n + 1] = f[n + 1]
      <4> HIDE DEF flat
      <4> QED BY <2>2, <1>1
    <3>4. f[n + 2] = f[n + 1] \o seqs[n + 2]
      <4> DEFINE m == n + 2
      <4>2. m \in 1 .. N /\ m # 1 /\ m - 1 = n + 1
        BY <3>1
      <4> HIDE DEF m
      <4>1. f[m] = Again(f, m)
        <5> HIDE DEF Again
        <5> QED BY <1>12, <4>2
      <4>3. f[m] = f[n + 1] \o seqs[m]
        BY <4>1, <4>2
      <4> QED BY <4>3 DEF m
    <3> QED BY <3>2, <3>3, <3>4
  <2>3. Nat \subseteq T
    <3> HIDE DEF T
    <3> QED BY <2>1, <2>2, Induction
  <2> SUFFICES ASSUME N > 0 PROVE flat[N] = f[N]
    OBVIOUS
  <2>4. N - 1 \in Nat /\ N - 1 + 1 = N
    BY <1>1
  <2>5. N - 1 \in T
    <3> HIDE DEF T
    <3> QED BY <2>3, <2>4
  <2> HIDE DEF flat
  <2> QED BY <2>4, <2>5, <1>1
<1>8. After(seqs, z, step, S) = f[N]
  <2>1. Len(seqs) \in Nat
    BY <1>1
  <2>2. After(seqs, z, step, S) = f[Len(seqs)]
    <3> HIDE DEF S, z, step
    <3> QED BY <1>3, <2>1, AfterIs
  <2> QED BY <2>2
<1>9. CASE N = 0
  <2>1. seqs = <<>> /\ f[N] = <<>>
    BY <1>4, <1>9
  <2>2. Seqs!FlattenSeq(seqs) = seqs
    BY <1>9 DEF Seqs!FlattenSeq
  <2> QED BY <1>8, <2>1, <2>2
<1>10. CASE N # 0
  <2>1. Seqs!FlattenSeq(seqs) = flat[N]
    BY <1>10 DEF Seqs!FlattenSeq
  <2>2. flat[N] = f[N]
    BY <1>1, <1>7, <1>10
  <2> QED BY <1>8, <2>1, <2>2
<1> QED BY <1>9, <1>10

LEMMA FlatGrows ==
    ASSUME NEW C, NEW seqs \in Seq(Seq(C)), NEW s \in Seq(C)
    PROVE  /\ Seqs!FlattenSeq(seqs) \in Seq(C)
           /\ Seqs!FlattenSeq(Append(seqs, s)) = Seqs!FlattenSeq(seqs) \o s
<1> DEFINE S == Seq(C)
           z == <<>>
           step == Joining(C)
           more == Append(seqs, s)
<1>1. IsMachine(S, S, z, step)
  BY JoiningType
<1>2. seqs \in Seq(S) /\ s \in S /\ more \in Seq(S) /\ more = Append(seqs, s)
  OBVIOUS
<1>3. Seqs!FlattenSeq(seqs) = After(seqs, z, step, S)
  BY FlatIs
<1>4. Seqs!FlattenSeq(more) = After(more, z, step, S)
  <2>1. more \in Seq(Seq(C))
    BY <1>2
  <2>2. Seqs!FlattenSeq(more) = After(more, <<>>, Joining(C), Seq(C))
    <3> HIDE DEF more
    <3> QED BY <2>1, FlatIs
  <2> QED BY <2>2
<1>5. \A a, b \in S : Stepped(step, a, b) = a \o b
  BY JoiningType
<1> HIDE DEF z, step, S, more
<1>6. After(seqs, z, step, S) \in S
  BY <1>1, <1>2, AfterType
<1>7. After(more, z, step, S) = Stepped(step, After(seqs, z, step, S), s)
  BY <1>1, <1>2, AfterNext
<1>8. Seqs!FlattenSeq(seqs) \in S /\ Seqs!FlattenSeq(Append(seqs, s)) = Seqs!FlattenSeq(seqs) \o s
  BY <1>2, <1>3, <1>4, <1>5, <1>6, <1>7
<1> QED BY <1>8 DEF S

LEMMA FlatNone == Seqs!FlattenSeq(<<>>) = <<>>
  BY DEF Seqs!FlattenSeq

\* What each element of a sequence stands for.
Each(w, s) == [i \in DOMAIN s |-> w[s[i]]]
Gives(w, D, S) == \A e \in D : w[e] \in S

LEMMA EachGrows ==
    ASSUME NEW D, NEW S, NEW w, Gives(w, D, S), NEW s \in Seq(D), NEW d \in D
    PROVE  Each(w, s) \in Seq(S) /\ Each(w, Append(s, d)) = Append(Each(w, s), w[d])
<1> DEFINE n == Len(s)
           all == Append(s, d)
           u == [i \in 1 .. n |-> w[s[i]]]
           v == [i \in 1 .. n + 1 |-> w[all[i]]]
<1>1. /\ n \in Nat /\ DOMAIN s = 1 .. n /\ DOMAIN all = 1 .. n + 1 /\ all[n + 1] = d
      /\ \A i \in 1 .. n : all[i] = s[i] /\ s[i] \in D
  OBVIOUS
<1> HIDE DEF all, n
<1>2. u \in Seq(S) /\ Len(u) = n /\ \A i \in 1 .. n : u[i] = w[s[i]]
  BY <1>1 DEF Gives
<1>3. v \in Seq(S) /\ Len(v) = n + 1 /\ v[n + 1] = w[d] /\ \A i \in 1 .. n : v[i] = w[s[i]]
  <2>1. \A i \in 1 .. n + 1 : w[all[i]] \in S
    BY <1>1 DEF Gives
  <2> QED BY <1>1, <2>1
<1>4. Each(w, s) = u /\ Each(w, all) = v
  BY <1>1 DEF Each
<1> HIDE DEF u, v
<1>5. v = Append(u, w[d])
  BY <1>1, <1>2, <1>3
<1> QED BY <1>2, <1>4, <1>5 DEF all

LEMMA JoinedGrows ==
    ASSUME NEW D, NEW C, NEW w, Gives(w, D, Seq(C)), NEW s \in Seq(D), NEW d \in D
    PROVE  /\ Seqs!FlattenSeq(Each(w, s)) \in Seq(C)
           /\ Seqs!FlattenSeq(Each(w, Append(s, d))) = Seqs!FlattenSeq(Each(w, s)) \o w[d]
<1>1. Each(w, s) \in Seq(Seq(C)) /\ Each(w, Append(s, d)) = Append(Each(w, s), w[d])
  <2> DEFINE S == Seq(C)
  <2>1. Gives(w, D, S)
    OBVIOUS
  <2> HIDE DEF S
  <2>2. Each(w, s) \in Seq(S)
    BY <2>1, EachGrows
  <2>3. Each(w, Append(s, d)) = Append(Each(w, s), w[d])
    BY <2>1, EachGrows
  <2> QED BY <2>2, <2>3 DEF S
<1>2. w[d] \in Seq(C)
  BY DEF Gives
<1> QED BY <1>1, <1>2, FlatGrows

\* Two texts, one after the other.
LEMMA ConcatAt ==
    ASSUME NEW C, NEW s \in Seq(C), NEW t \in Seq(C)
    PROVE  /\ s \o t \in Seq(C) /\ Len(s \o t) = Len(s) + Len(t)
           /\ \A i \in 1 .. Len(s) : (s \o t)[i] = s[i]
           /\ \A i \in 1 .. Len(t) : (s \o t)[Len(s) + i] = t[i]
<1> DEFINE u == s \o t
<1>1. u \in Seq(C) /\ Len(u) = Len(s) + Len(t)
  OBVIOUS
<1>2. \A i \in 1 .. Len(s) : u[i] = s[i]
  OBVIOUS
<1>3. \A i \in 1 .. Len(t) : u[Len(s) + i] = t[i]
  OBVIOUS
<1> QED BY <1>1, <1>2, <1>3

\* A sequence is of what its elements are.
LEMMA SeqIs ==
    ASSUME NEW C, NEW s \in Seq(C), NEW D, \A i \in DOMAIN s : s[i] \in D
    PROVE  s \in Seq(D)
<1>1. Len(s) \in Nat /\ s \in [1 .. Len(s) -> D]
  OBVIOUS
<1> QED BY <1>1

LEMMA OneMore ==
    ASSUME NEW C, NEW s \in Seq(C), NEW c \in C
    PROVE  /\ s \o <<c>> \in Seq(C) /\ Len(s \o <<c>>) = Len(s) + 1
           /\ \A i \in 1 .. Len(s) : (s \o <<c>>)[i] = s[i]
           /\ (s \o <<c>>)[Len(s) + 1] = c
  OBVIOUS

LEMMA EndGrows ==
    ASSUME NEW C, NEW before \in Seq(C), NEW held \in Seq(C), NEW delta \in Seq(C)
    PROVE  (before \o held) \o delta = before \o (held \o delta)
<1> DEFINE s == (before \o held) \o delta
           t == before \o (held \o delta)
<1>1. s \in Seq(C) /\ t \in Seq(C) /\ Len(s) = Len(t)
  OBVIOUS
<1>2. ASSUME NEW i \in 1 .. Len(s) PROVE s[i] = t[i]
  OBVIOUS
<1> HIDE DEF s, t
<1>3. s = t
  BY <1>1, <1>2
<1> QED BY <1>3 DEF s, t

\* Where one begins or ends as the other.
LEMMA PrefixIs ==
    ASSUME NEW C, NEW s \in Seq(C), NEW t \in Seq(C)
    PROVE  Seqs!IsPrefix(s, t) <=> Len(s) <= Len(t) /\ \A i \in 1 .. Len(s) : s[i] = t[i]
<1>1. CASE Len(s) <= Len(t)
  <2> DEFINE head == SubSeq(t, 1, Len(s))
  <2>1. head \in Seq(C) /\ Len(head) = Len(s) /\ \A i \in 1 .. Len(s) : head[i] = t[i]
    BY <1>1
  <2>2. SubSeq(s, 1, Len(s)) = s
    OBVIOUS
  <2> HIDE DEF head
  <2>3. s = head <=> \A i \in 1 .. Len(s) : s[i] = head[i]
    BY <2>1
  <2>4. Seqs!IsPrefix(s, t) <=> s = head
    BY <1>1, <2>2 DEF Seqs!IsPrefix, head
  <2> QED BY <1>1, <2>1, <2>3, <2>4
<1>2. CASE ~(Len(s) <= Len(t))
  BY <1>2 DEF Seqs!IsPrefix
<1> QED BY <1>1, <1>2

LEMMA SuffixIs ==
    ASSUME NEW C, NEW p \in Seq(C), NEW s \in Seq(C)
    PROVE  Seqs!IsSuffix(s, p \o s)
<1> DEFINE t == p \o s
           rs == Seqs!Reverse(s)
           rt == Seqs!Reverse(t)
<1>1. /\ t \in Seq(C) /\ Len(t) = Len(p) + Len(s)
      /\ \A i \in 1 .. Len(s) : t[Len(p) + i] = s[i]
  OBVIOUS
<1> HIDE DEF t
<1>2. rs \in Seq(C) /\ Len(rs) = Len(s) /\ \A i \in 1 .. Len(s) : rs[i] = s[Len(s) - i + 1]
  BY DEF Seqs!Reverse
<1>3. rt \in Seq(C) /\ Len(rt) = Len(t) /\ \A i \in 1 .. Len(t) : rt[i] = t[Len(t) - i + 1]
  BY <1>1 DEF Seqs!Reverse
<1> HIDE DEF rs, rt
<1>4. ASSUME NEW i \in 1 .. Len(s) PROVE rs[i] = rt[i]
  <2>1. Len(s) - i + 1 \in 1 .. Len(s) /\ i \in 1 .. Len(t)
    BY <1>1
  <2>2. t[Len(p) + (Len(s) - i + 1)] = s[Len(s) - i + 1]
    BY <1>1, <2>1
  <2>3. Len(p) + (Len(s) - i + 1) = Len(t) - i + 1
    BY <1>1
  <2> QED BY <1>2, <1>3, <2>1, <2>2, <2>3
<1>5. Len(rs) <= Len(rt) /\ \A i \in 1 .. Len(rs) : rs[i] = rt[i]
  BY <1>1, <1>2, <1>3, <1>4
<1>6. Seqs!IsPrefix(rs, rt)
  BY <1>2, <1>3, <1>5, PrefixIs
<1> QED BY <1>6 DEF Seqs!IsSuffix, rs, rt, t

\* The first place from i on where a sign stands.
FirstAt(p, i, sign, e) == e \in i .. Len(p) /\ p[e] = sign /\ \A m \in i .. e - 1 : p[m] # sign

LEMMA FirstIs ==
    ASSUME NEW p, Len(p) \in Nat, NEW i \in Nat, NEW sign,
           NEW places, places = {j \in i .. Len(p) : p[j] = sign}, places # {},
           NEW e, e = CHOOSE j \in places : \A k \in places : j <= k
    PROVE  FirstAt(p, i, sign, e)
<1>1. places \in SUBSET Nat
  OBVIOUS
<1>2. e \in places /\ \A k \in places : e <= k
  BY <1>1, LeastNumber
<1>3. e \in i .. Len(p) /\ p[e] = sign
  BY <1>2
<1>4. ASSUME NEW m \in i .. e - 1 PROVE p[m] # sign
  <2>1. m \in i .. Len(p) /\ ~(e <= m)
    BY <1>3
  <2> QED BY <1>2, <2>1
<1> QED BY <1>3, <1>4 DEF FirstAt

LEMMA FirstIsOne ==
    ASSUME NEW p, Len(p) \in Nat, NEW i \in Nat, NEW sign, NEW d, NEW e, FirstAt(p, i, sign, d), FirstAt(p, i, sign, e)
    PROVE  d = e
<1>1. d \in Nat /\ e \in Nat /\ i <= d /\ i <= e
  BY DEF FirstAt
<1>2. ~(d < e)
  <2>1. d < e => d \in i .. e - 1
    BY <1>1
  <2> QED BY <2>1 DEF FirstAt
<1>3. ~(e < d)
  <2>1. e < d => e \in i .. d - 1
    BY <1>1
  <2> QED BY <2>1 DEF FirstAt
<1> QED BY <1>1, <1>2, <1>3

\* How many times it stands in a row.
Streak(p, i, sign, n) ==
    /\ n \in 1 .. Len(p) - i + 1
    /\ \A k \in 0 .. n - 1 : p[i + k] = sign
    /\ i + n > Len(p) \/ p[i + n] # sign

LEMMA RowIs ==
    ASSUME NEW C, NEW p \in Seq(C), NEW i \in 1 .. Len(p), NEW sign, p[i] = sign
    PROVE  \E n : Streak(p, i, sign, n)
<1> DEFINE S == {n \in Nat : n >= 1 /\ (i + n > Len(p) \/ p[i + n] # sign)}
<1>1. Len(p) \in Nat /\ i \in Nat /\ i <= Len(p) /\ i >= 1
  OBVIOUS
<1>2. Len(p) - i + 1 \in S
  BY <1>1
<1>3. PICK n \in S : \A m \in S : n <= m
  <2>1. S \in SUBSET Nat /\ S # {}
    BY <1>2
  <2> HIDE DEF S
  <2> QED BY <2>1, LeastNumber
<1>4. n \in 1 .. Len(p) - i + 1 /\ (i + n > Len(p) \/ p[i + n] # sign)
  <2>1. n \in Nat /\ n >= 1 /\ (i + n > Len(p) \/ p[i + n] # sign)
    BY <1>3
  <2>2. n <= Len(p) - i + 1
    <3> HIDE DEF S
    <3> QED BY <1>2, <1>3
  <2> QED BY <1>1, <2>1, <2>2
<1>5. ASSUME NEW k \in 0 .. n - 1 PROVE p[i + k] = sign
  <2>1. CASE k = 0
    BY <1>1, <2>1
  <2>2. CASE k # 0
    <3>1. k \in Nat /\ k >= 1 /\ k < n
      BY <1>4, <2>2
    <3>2. k \notin S
      BY <1>3, <1>4, <3>1
    <3> QED BY <3>1, <3>2
  <2> QED BY <2>1, <2>2
<1> QED BY <1>4, <1>5 DEF Streak

LEMMA RowIsOne ==
    ASSUME NEW C, NEW p \in Seq(C), NEW i \in 1 .. Len(p), NEW sign, NEW m, NEW n,
           Streak(p, i, sign, m), Streak(p, i, sign, n)
    PROVE  m = n
<1>1. m \in Nat /\ n \in Nat /\ Len(p) \in Nat /\ i \in Nat /\ m >= 1 /\ n >= 1 /\ i + m <= Len(p) + 1 /\ i + n <= Len(p) + 1
  BY DEF Streak
<1>2. ~(m < n)
  <2>1. m < n => m \in 0 .. n - 1 /\ ~(i + m > Len(p))
    BY <1>1
  <2> QED BY <2>1 DEF Streak
<1>3. ~(n < m)
  <2>1. n < m => n \in 0 .. m - 1 /\ ~(i + n > Len(p))
    BY <1>1
  <2> QED BY <2>1 DEF Streak
<1> QED BY <1>1, <1>2, <1>3
=============================================================================
