--------------------------- MODULE Sublists_proofs ---------------------------
(***************************************************************************)
(* What Keep returns: the entries at the positions that are kept, each      *)
(* once, and in their order.                                                *)
(***************************************************************************)
EXTENDS Sublists, FiniteSetTheorems, SequenceTheorems, WellFoundedInduction, TLAPS

\* A nonempty set of natural numbers has a least element.
LEMMA LeastOf ==
  ASSUME NEW S \in SUBSET Nat, S # {}
  PROVE  \E i \in S : \A j \in S : i <= j
<1> DEFINE R == {ss \in Nat \X Nat : ss[1] < ss[2]}
<1>1. IsWellFoundedOn(R, Nat)
  BY NatLessThanWellFounded DEF OpToRel
<1>2. \E i \in S : \A j \in S : ~(<<j, i>> \in R)
  <2> HIDE DEF R
  <2> QED BY <1>1, WFMin
<1>3. PICK i \in S : \A j \in S : ~(<<j, i>> \in R)
  BY <1>2
<1>4. \A j \in S : i <= j
  <2> TAKE j \in S
  <2>1. ~(<<j, i>> \in R)
    BY <1>3
  <2> QED BY <2>1
<1> QED BY <1>4

\* A set of positions is finite, and Rank numbers its members from 1, in order.
LEMMA RankFacts ==
  ASSUME NEW m \in Nat, NEW K \in SUBSET (1..m)
  PROVE  /\ IsFiniteSet(K) /\ Cardinality(K) \in 0..m
         /\ \A k \in K : Rank(K, k) \in 1..Cardinality(K)
         /\ \A j, k \in K : j < k => Rank(K, j) < Rank(K, k)
<1>1. IsFiniteSet(1..m) /\ Cardinality(1..m) = m
  BY FS_Interval
<1>2. IsFiniteSet(K) /\ Cardinality(K) <= m
  BY <1>1, FS_Subset
<1>3. Cardinality(K) \in 0..m
  BY <1>2, FS_CardinalityType
<1>4. ASSUME NEW k \in K
      PROVE  Rank(K, k) \in 1..Cardinality(K)
  <2> DEFINE U == {j \in K : j <= k}
  <2>1. U \in SUBSET K /\ k \in U
    OBVIOUS
  <2>2. IsFiniteSet(U) /\ Cardinality(U) <= Cardinality(K)
    BY <1>2, <2>1, FS_Subset
  <2>3. Cardinality(U) \in Nat /\ Cardinality(U) # 0
    BY <2>1, <2>2, FS_CardinalityType, FS_EmptySet
  <2> HIDE DEF U
  <2>4. Cardinality(U) \in 1..Cardinality(K)
    BY <1>3, <2>2, <2>3
  <2> QED BY <2>4 DEF Rank, U
<1>5. ASSUME NEW j \in K, NEW k \in K, j < k
      PROVE  Rank(K, j) < Rank(K, k)
  <2> DEFINE U == {i \in K : i <= j}
             V == {i \in K : i <= k}
  <2>0. \A i \in K : i \in Nat
    OBVIOUS
  <2>a. j \in Nat /\ k \in Nat /\ k \in V /\ k \notin U
    BY <1>5, <2>0
  <2>b. \A i \in U : i \in V
    BY <1>5, <2>0, <2>a
  <2>1. U \in SUBSET V /\ V \in SUBSET K /\ k \in V /\ k \notin U
    BY <2>a, <2>b
  <2>2. IsFiniteSet(V)
    BY <1>2, <2>1, FS_Subset
  <2>3. IsFiniteSet(U) /\ Cardinality(U) <= Cardinality(V) /\ Cardinality(U) # Cardinality(V)
    BY <2>1, <2>2, FS_Subset
  <2>4. Cardinality(U) \in Nat /\ Cardinality(V) \in Nat
    BY <2>2, <2>3, FS_CardinalityType
  <2> HIDE DEF U, V
  <2>5. Cardinality(U) < Cardinality(V)
    BY <2>3, <2>4
  <2> QED BY <2>5 DEF Rank, U, V
<1> QED BY <1>2, <1>3, <1>4, <1>5

\* Nth is the inverse of Rank.
LEMMA NthFacts ==
  ASSUME NEW m \in Nat, NEW K \in SUBSET (1..m)
  PROVE  /\ \A n \in 1..Cardinality(K) : Nth(K, n) \in K /\ Rank(K, Nth(K, n)) = n
         /\ \A k \in K : Rank(K, k) \in 1..Cardinality(K) /\ Nth(K, Rank(K, k)) = k
         /\ \A a, b \in 1..Cardinality(K) : a < b => Nth(K, a) < Nth(K, b)
<1> DEFINE c == Cardinality(K)
           f == [k \in K |-> Rank(K, k)]
<1>1. IsFiniteSet(K) /\ c \in Nat
  BY RankFacts
<1>2. \A k \in K : Rank(K, k) \in 1..c
  BY RankFacts
<1>3. \A j, k \in K : j < k => Rank(K, j) < Rank(K, k)
  BY RankFacts
<1>4. \A j, k \in K : Rank(K, j) = Rank(K, k) => j = k
  BY <1>2, <1>3
<1>5. f \in Injection(K, 1..c)
  BY <1>2, <1>4 DEF Injection, IsInjective
<1>6. IsFiniteSet(1..c) /\ Cardinality(1..c) = c
  BY <1>1, FS_Interval
<1>7. f \in Surjection(K, 1..c)
  BY <1>1, <1>5, <1>6, FS_Injection
<1>8. \A n \in 1..c : \E k \in K : Rank(K, k) = n
  BY <1>7 DEF Surjection
<1>9. \A n \in 1..c : Nth(K, n) \in K /\ Rank(K, Nth(K, n)) = n
  BY <1>8 DEF Nth
<1>10. \A k \in K : Nth(K, Rank(K, k)) = k
  BY <1>2, <1>4, <1>9
<1>11. \A a, b \in 1..c : a < b => Nth(K, a) < Nth(K, b)
  <2> TAKE a, b \in 1..c
  <2> HAVE a < b
  <2>1. /\ Nth(K, a) \in K /\ Nth(K, b) \in K
        /\ Rank(K, Nth(K, a)) = a /\ Rank(K, Nth(K, b)) = b
    BY <1>9
  <2>0. \A i \in K : i \in Nat
    OBVIOUS
  <2>a. a \in Nat /\ b \in Nat
    BY <1>1
  <2>2. Nth(K, a) \in Nat /\ Nth(K, b) \in Nat /\ a \in Nat /\ b \in Nat
    BY <2>0, <2>1, <2>a
  <2>3. ~(Nth(K, b) < Nth(K, a)) /\ Nth(K, a) # Nth(K, b)
    BY <1>3, <2>1, <2>2
  <2> QED BY <2>2, <2>3
<1> QED BY <1>2, <1>9, <1>10, <1>11

\* Keep(q, K) is a list of the entries of q at K, and of all of them.
LEMMA KeepFacts ==
  ASSUME NEW S, NEW q \in Seq(S), NEW K \in SUBSET (DOMAIN q)
  PROVE  /\ Keep(q, K) \in Seq(S)
         /\ Len(Keep(q, K)) = Cardinality(K) /\ Len(Keep(q, K)) \in 0..Len(q)
         /\ DOMAIN Keep(q, K) = 1..Cardinality(K)
         /\ \A n \in DOMAIN Keep(q, K) : Nth(K, n) \in K /\ Keep(q, K)[n] = q[Nth(K, n)]
         /\ \A k \in K : Rank(K, k) \in DOMAIN Keep(q, K) /\ Keep(q, K)[Rank(K, k)] = q[k]
         /\ \A a, b \in DOMAIN Keep(q, K) : a < b => Nth(K, a) < Nth(K, b)
<1>0. Len(q) \in Nat /\ DOMAIN q = 1..Len(q) /\ \A k \in 1..Len(q) : q[k] \in S
  OBVIOUS
<1>1. K \in SUBSET (1..Len(q))
  BY <1>0
<1>2. Cardinality(K) \in 0..Len(q)
  BY <1>0, <1>1, RankFacts
<1>3. /\ \A n \in 1..Cardinality(K) : Nth(K, n) \in K /\ Rank(K, Nth(K, n)) = n
      /\ \A k \in K : Rank(K, k) \in 1..Cardinality(K) /\ Nth(K, Rank(K, k)) = k
      /\ \A a, b \in 1..Cardinality(K) : a < b => Nth(K, a) < Nth(K, b)
  BY <1>0, <1>1, NthFacts
<1>4. /\ DOMAIN Keep(q, K) = 1..Cardinality(K)
      /\ \A n \in 1..Cardinality(K) : Keep(q, K)[n] = q[Nth(K, n)]
  BY DEF Keep
<1>5. Keep(q, K) \in [1..Cardinality(K) -> S]
  BY <1>0, <1>1, <1>3 DEF Keep
<1>6. Keep(q, K) \in Seq(S) /\ Len(Keep(q, K)) = Cardinality(K)
  BY <1>2, <1>5
<1> QED BY <1>2, <1>3, <1>4, <1>6

\* Keep never repeats what q did not, and leaves the head where it is.
LEMMA KeepOrder ==
  ASSUME NEW S, NEW q \in Seq(S), NEW K \in SUBSET (DOMAIN q)
  PROVE  /\ (\A j, k \in DOMAIN q : q[j] = q[k] => j = k) =>
              \A j, k \in DOMAIN Keep(q, K) : Keep(q, K)[j] = Keep(q, K)[k] => j = k
         /\ 1 \in K => Keep(q, K) # <<>> /\ Keep(q, K)[1] = q[1]
         /\ Keep(q, K) = <<>> <=> K = {}
<1>0. /\ Len(q) \in Nat /\ DOMAIN q = 1..Len(q) /\ K \in SUBSET (1..Len(q))
      /\ Cardinality(K) \in Nat /\ Keep(q, K) \in Seq(S)
      /\ Len(Keep(q, K)) = Cardinality(K) /\ DOMAIN Keep(q, K) = 1..Cardinality(K)
  BY KeepFacts
<1>1. /\ \A n \in 1..Cardinality(K) : Nth(K, n) \in K /\ Keep(q, K)[n] = q[Nth(K, n)]
      /\ \A k \in K : Rank(K, k) \in 1..Cardinality(K) /\ Keep(q, K)[Rank(K, k)] = q[k]
      /\ \A a, b \in 1..Cardinality(K) : a < b => Nth(K, a) < Nth(K, b)
  BY <1>0, KeepFacts
<1>2. ASSUME \A j, k \in DOMAIN q : q[j] = q[k] => j = k,
             NEW a \in 1..Cardinality(K), NEW b \in 1..Cardinality(K),
             Keep(q, K)[a] = Keep(q, K)[b]
      PROVE  a = b
  <2>1. Nth(K, a) = Nth(K, b) /\ Nth(K, a) \in 1..Len(q)
    BY <1>0, <1>1, <1>2
  <2> QED BY <1>0, <1>1, <2>1
<1>3. ASSUME 1 \in K
      PROVE  Keep(q, K) # <<>> /\ Keep(q, K)[1] = q[1]
  <2>1. Rank(K, 1) \in 1..Cardinality(K) /\ 1 \in 1..Cardinality(K)
    BY <1>0, <1>1, <1>3
  <2>2. Nth(K, Rank(K, 1)) = 1
    BY <1>0, <1>3, NthFacts
  <2>3. Rank(K, 1) = 1
    <3>1. Nth(K, 1) \in K
      BY <1>1, <2>1
    <3> QED BY <1>0, <1>1, <2>1, <2>2, <3>1
  <2> QED BY <1>0, <1>1, <1>3, <2>1, <2>3
<1>4. Keep(q, K) = <<>> => K = {}
  BY <1>0, <1>1
<1>5. K = {} => Keep(q, K) = <<>>
  BY <1>0, FS_EmptySet
<1> QED BY <1>0, <1>2, <1>3, <1>4, <1>5

\* A list without its first k entries.
LEMMA SuffixFacts ==
  ASSUME NEW S, NEW p \in Seq(S), NEW k \in 0..Len(p)
  PROVE  /\ SubSeq(p, k + 1, Len(p)) \in Seq(S)
         /\ Len(SubSeq(p, k + 1, Len(p))) = Len(p) - k
         /\ DOMAIN SubSeq(p, k + 1, Len(p)) = 1..(Len(p) - k)
         /\ \A j \in 1..(Len(p) - k) :
               k + j \in DOMAIN p /\ SubSeq(p, k + 1, Len(p))[j] = p[k + j]
<1>0. Len(p) \in Nat /\ DOMAIN p = 1..Len(p) /\ k \in Nat /\ k <= Len(p)
  OBVIOUS
<1>1. PICK m \in Int, n \in Int : m = k + 1 /\ n = Len(p)
  <2>1. k + 1 \in Int /\ Len(p) \in Int
    BY <1>0
  <2> QED BY <2>1, Zenon
<1> DEFINE t == SubSeq(p, m, n)
<1>2. /\ t \in Seq(S)
      /\ Len(t) = IF m <= n THEN n - m + 1 ELSE 0
      /\ \A i \in 1..(n - m + 1) : t[i] = p[m + i - 1]
  <2>1. \A i \in m..n : p[i] \in S
    BY <1>0, <1>1
  <2> QED BY <2>1, SubSeqProperties
<1> HIDE DEF t
<1>3. Len(t) = Len(p) - k /\ n - m + 1 = Len(p) - k
  <2>1. Len(p) - (k + 1) + 1 = Len(p) - k
    BY <1>0
  <2>2. k + 1 <= Len(p) \/ Len(p) - k = 0
    <3>1. \A a, b \in Nat : a <= b => a + 1 <= b \/ b - a = 0
      OBVIOUS
    <3> QED BY <1>0, <3>1
  <2>3. n - m + 1 = Len(p) - k /\ (m <= n \/ Len(p) - k = 0)
    BY <1>1, <2>1, <2>2, Zenon
  <2> QED BY <1>2, <2>3
<1>4. DOMAIN t = 1..(Len(p) - k)
  BY <1>2, <1>3
<1>5. \A j \in 1..(Len(p) - k) : k + j \in DOMAIN p /\ t[j] = p[k + j]
  <2> TAKE j \in 1..(Len(p) - k)
  <2>1. t[j] = p[m + j - 1]
    BY <1>2, <1>3
  <2>2. m + j - 1 = k + j /\ k + j \in 1..Len(p)
    BY <1>0, <1>1
  <2> QED BY <1>0, <2>1, <2>2
<1> QED BY <1>1, <1>2, <1>3, <1>4, <1>5 DEF t

-----------------------------------------------------------------------------
(* Lists without repetitions                                                *)

Distinct(q) == \A j, k \in DOMAIN q : q[j] = q[k] => j = k

\* An entry is added at the end.
LEMMA AppendList ==
  ASSUME NEW S, NEW q \in Seq(S), NEW x \in S
  PROVE  /\ Append(q, x) \in Seq(S) /\ Append(q, x) # <<>>
         /\ Len(Append(q, x)) = Len(q) + 1
         /\ DOMAIN Append(q, x) = DOMAIN q \cup {Len(q) + 1} /\ Len(q) + 1 \notin DOMAIN q
         /\ \A k \in DOMAIN q : Append(q, x)[k] = q[k]
         /\ Append(q, x)[Len(q) + 1] = x
         /\ Range(Append(q, x)) = Range(q) \cup {x}
         /\ (Distinct(q) /\ x \notin Range(q)) => Distinct(Append(q, x))
<1> DEFINE t == Append(q, x)
<1>1. /\ t \in Seq(S) /\ Len(t) = Len(q) + 1 /\ Len(q) \in Nat /\ DOMAIN q = 1..Len(q)
      /\ \A k \in 1..Len(q) : t[k] = q[k] /\ t[Len(q) + 1] = x
  BY AppendProperties
<1>2. t[Len(q) + 1] = x
  BY AppendProperties
<1> HIDE DEF t
<1>3. DOMAIN t = DOMAIN q \cup {Len(q) + 1} /\ Len(q) + 1 \notin DOMAIN q /\ t # <<>>
  BY <1>1
<1>4. Range(t) = Range(q) \cup {x}
  BY <1>1, <1>2, <1>3 DEF Range
<1>5. (Distinct(q) /\ x \notin Range(q)) => Distinct(t)
  BY <1>1, <1>2, <1>3 DEF Range, Distinct
<1> QED BY <1>1, <1>2, <1>3, <1>4, <1>5 DEF t

\* The positions in K stay.
LEMMA KeepList ==
  ASSUME NEW S, NEW q \in Seq(S), NEW K \in SUBSET (DOMAIN q)
  PROVE  /\ Keep(q, K) \in Seq(S)
         /\ Range(Keep(q, K)) = {q[k] : k \in K}
         /\ Distinct(q) => Distinct(Keep(q, K))
<1>1. /\ Keep(q, K) \in Seq(S)
      /\ \A n \in DOMAIN Keep(q, K) : Nth(K, n) \in K /\ Keep(q, K)[n] = q[Nth(K, n)]
      /\ \A k \in K : Rank(K, k) \in DOMAIN Keep(q, K) /\ Keep(q, K)[Rank(K, k)] = q[k]
  BY KeepFacts
<1>2. Range(Keep(q, K)) = {q[k] : k \in K}
  BY <1>1 DEF Range
<1>3. Distinct(q) => Distinct(Keep(q, K))
  BY KeepOrder DEF Distinct
<1> QED BY <1>1, <1>2, <1>3

\* One entry is removed.
LEMMA RemoveList ==
  ASSUME NEW S, NEW q \in Seq(S), Distinct(q), NEW n \in DOMAIN q
  PROVE  /\ Keep(q, DOMAIN q \ {n}) \in Seq(S) /\ Distinct(Keep(q, DOMAIN q \ {n}))
         /\ Range(Keep(q, DOMAIN q \ {n})) = Range(q) \ {q[n]}
<1>1. DOMAIN q \ {n} \in SUBSET (DOMAIN q)
  OBVIOUS
<1>2. {q[k] : k \in DOMAIN q \ {n}} = Range(q) \ {q[n]}
  BY DEF Range, Distinct
<1> QED BY <1>1, <1>2, KeepList

\* Keep leaves two entries in the order they had.
LEMMA KeepSorted ==
  ASSUME NEW S, NEW q \in Seq(S), NEW K \in SUBSET (DOMAIN q),
         NEW j \in DOMAIN Keep(q, K), NEW k \in DOMAIN Keep(q, K)
  PROVE  \E a, b \in K : /\ Keep(q, K)[j] = q[a] /\ Keep(q, K)[k] = q[b]
                         /\ (j < k <=> a < b) /\ j <= a /\ k <= b
<1> DEFINE a == Nth(K, j)
           b == Nth(K, k)
<1>0. /\ Len(q) \in Nat /\ DOMAIN q = 1..Len(q) /\ K \in SUBSET (1..Len(q))
      /\ DOMAIN Keep(q, K) = 1..Cardinality(K) /\ Cardinality(K) \in Nat
  BY KeepFacts
<1>1. a \in K /\ b \in K /\ Keep(q, K)[j] = q[a] /\ Keep(q, K)[k] = q[b]
  BY KeepFacts
<1>2. \A c, d \in DOMAIN Keep(q, K) : c < d => Nth(K, c) < Nth(K, d)
  BY KeepFacts
<1>3. j \in Nat /\ k \in Nat /\ a \in Nat /\ b \in Nat
  BY <1>0, <1>1
<1>4. j < k <=> a < b
  BY <1>2, <1>3
<1>5. ASSUME NEW n \in DOMAIN Keep(q, K) PROVE n <= Nth(K, n)
  <2> DEFINE m == Nth(K, n)
             U == {i \in K : i <= m}
  <2>1. m \in K /\ Rank(K, m) = n /\ m \in 1..Len(q)
    BY <1>0, NthFacts
  <2>2. U \in SUBSET (1..m)
    BY <1>0, <2>1
  <2>3. IsFiniteSet(1..m) /\ Cardinality(1..m) = m
    BY <1>0, <2>1, FS_Interval
  <2>4. Cardinality(U) <= m
    BY <2>2, <2>3, FS_Subset
  <2> QED BY <2>1, <2>4 DEF Rank
<1> QED BY <1>1, <1>4, <1>5

\* The first entry is taken.
LEMMA TailList ==
  ASSUME NEW S, NEW q \in Seq(S), Distinct(q), q # <<>>
  PROVE  /\ Head(q) \in Range(q) /\ Tail(q) \in Seq(S) /\ Distinct(Tail(q))
         /\ Range(Tail(q)) = Range(q) \ {Head(q)}
<1>1. /\ Len(q) \in Nat /\ Len(q) >= 1 /\ DOMAIN q = 1..Len(q) /\ Head(q) = q[1] /\ Tail(q) \in Seq(S)
      /\ Len(Tail(q)) = Len(q) - 1 /\ \A i \in 1..(Len(q) - 1) : Tail(q)[i] = q[i + 1]
  BY HeadTailProperties, EmptySeq
<1> DEFINE t == Tail(q)
<1> HIDE DEF t
<1>2. DOMAIN t = 1..(Len(q) - 1) /\ \A i \in DOMAIN t : i + 1 \in DOMAIN q /\ i + 1 # 1 /\ t[i] = q[i + 1]
  BY <1>1 DEF t
<1>3. \A k \in DOMAIN q : k # 1 => k - 1 \in DOMAIN t /\ t[k - 1] = q[k]
  <2> SUFFICES ASSUME NEW k \in DOMAIN q, k # 1 PROVE k - 1 \in DOMAIN t /\ t[k - 1] = q[k]
    OBVIOUS
  <2>1. k - 1 \in 1..(Len(q) - 1) /\ (k - 1) + 1 = k
    BY <1>1
  <2> QED BY <1>2, <2>1
<1>4. 1 \in DOMAIN q
  BY <1>1
<1>5. Range(t) = Range(q) \ {q[1]}
  <2>1. \A i \in DOMAIN t : t[i] \in Range(q) /\ t[i] # q[1]
    BY <1>2, <1>4 DEF Range, Distinct
  <2>2. \A k \in DOMAIN q : q[k] # q[1] => q[k] \in Range(t)
    BY <1>3 DEF Range
  <2> QED BY <2>1, <2>2 DEF Range
<1>6. Distinct(t)
  <2> SUFFICES ASSUME NEW i \in DOMAIN t, NEW j \in DOMAIN t, t[i] = t[j] PROVE i = j
    BY DEF Distinct
  <2>1. i + 1 = j + 1
    BY <1>2 DEF Distinct
  <2> QED BY <1>1, <1>2, <2>1
<1> QED BY <1>1, <1>4, <1>5, <1>6 DEF t, Range

\* A list without its last entry.
LEMMA FrontList ==
  ASSUME NEW S, NEW q \in Seq(S), q # <<>>
  PROVE  /\ Len(q) \in DOMAIN q /\ SubSeq(q, 1, Len(q) - 1) \in Seq(S)
         /\ DOMAIN SubSeq(q, 1, Len(q) - 1) = DOMAIN q \ {Len(q)}
         /\ \A k \in DOMAIN SubSeq(q, 1, Len(q) - 1) : SubSeq(q, 1, Len(q) - 1)[k] = q[k]
<1>1. Len(q) \in Nat /\ Len(q) >= 1 /\ DOMAIN q = 1..Len(q) /\ \A k \in 1..Len(q) : q[k] \in S
  BY EmptySeq
<1>2. PICK m \in Int, n \in Int : m = 1 /\ n = Len(q) - 1
  <2>1. 1 \in Int /\ Len(q) - 1 \in Int
    BY <1>1
  <2> QED BY <2>1, Zenon
<1> DEFINE t == SubSeq(q, m, n)
<1>3. /\ t \in Seq(S)
      /\ Len(t) = IF m <= n THEN n - m + 1 ELSE 0
      /\ \A i \in 1..(n - m + 1) : t[i] = q[m + i - 1]
  <2>1. \A i \in m..n : q[i] \in S
    BY <1>1, <1>2
  <2> QED BY <2>1, SubSeqProperties
<1> HIDE DEF t
<1>4. Len(t) = n /\ n - m + 1 = n /\ \A i \in 1..n : m + i - 1 = i
  <2>1. n \in Nat /\ m = 1
    BY <1>1, <1>2
  <2>2. n - m + 1 = n /\ (m <= n \/ n = 0) /\ \A i \in 1..n : m + i - 1 = i
    BY <2>1
  <2> QED BY <1>3, <2>2
<1>5. DOMAIN t = 1..n /\ \A i \in 1..n : t[i] = q[i]
  BY <1>3, <1>4
<1>6. 1..n = DOMAIN q \ {Len(q)}
  BY <1>1, <1>2
<1> QED BY <1>1, <1>2, <1>3, <1>5, <1>6 DEF t
=============================================================================
