--------------------------- MODULE FileTreeProofs ---------------------------
(***************************************************************************)
(* What holds for any document, any looks of its nodes, any edits and any  *)
(* number of pulls.                                                        *)
(***************************************************************************)
EXTENDS DesignSystem, FoldLemmas, FiniteSetTheorems

N == Cardinality(Ids)

LEMMA FiniteIds ==
    /\ IsFiniteSet(Ids) /\ N \in Nat
    /\ \A S \in SUBSET Ids : IsFiniteSet(S) /\ Cardinality(S) \in Nat /\ Cardinality(S) <= N
<1>1. IsFiniteSet(Pages \cup Layers)
  BY TreeAssumption
<1>2. IsFiniteSet((Pages \cup Layers) \cup {Root})
  BY <1>1, FS_AddElement
<1>3. Ids = (Pages \cup Layers) \cup {Root}
  BY DEF Ids
<1>4. IsFiniteSet(Ids) /\ N \in Nat
  BY <1>2, <1>3, FS_CardinalityType DEF N
<1>5. ASSUME NEW S \in SUBSET Ids
      PROVE  IsFiniteSet(S) /\ Cardinality(S) \in Nat /\ Cardinality(S) <= N
  <2>1. IsFiniteSet(S) /\ Cardinality(S) <= N
    BY <1>4, FS_Subset DEF N
  <2>2. QED
    BY <2>1, FS_CardinalityType
<1>6. QED
  BY <1>4, <1>5

-----------------------------------------------------------------------------
(* Reach: the least set that has n and whatever next leads to *)

Closed(next, S) == \A m \in S : next[m] \subseteq S

\* One round.
Wider(next, known) == known \cup UNION {next[m] : m \in known}

LEMMA ReachRounds ==
    ASSUME NEW next \in [Ids -> SUBSET Ids], NEW n \in Ids
    PROVE  \E h \in [0..N -> SUBSET Ids] :
              /\ h[0] = {n}
              /\ \A k \in 1..N : h[k] = Wider(next, h[k - 1])
              /\ Reach(next, n) = h[N]
<1> DEFINE T == SUBSET Ids
           step == [known \in T |-> Wider(next, known)]
           Eq(f) == f = [k \in 0..N |->
                           IF k = 0 THEN {n}
                           ELSE f[k - 1] \cup UNION {next[m] : m \in f[k - 1]}]
<1>1. N \in Nat
  BY FiniteIds
<1>2. {n} \in T /\ step \in [T -> T]
  BY DEF Wider
<1>3. PICK h \in [0..N -> T] : Rounds(h, N, {n}, step)
  <2> HIDE DEF T, step
  <2>1. QED
    BY <1>1, <1>2, RoundsExist
<1>4. ASSUME NEW k \in 1..N
      PROVE  h[k] = Wider(next, h[k - 1])
  <2>1. k - 1 \in 0..N
    BY <1>1
  <2>2. h[k - 1] \in T
    BY <2>1, <1>3
  <2>3. step[h[k - 1]] = Wider(next, h[k - 1])
    BY <2>2
  <2>4. QED
    BY <2>3, <1>3 DEF Rounds
<1>5. Eq([k \in 0..N |-> h[k]])
  <2> HIDE DEF step
  <2>1. \A k \in 0..N : k # 0 => k \in 1..N /\ k - 1 \in 0..N
    BY <1>1
  <2>2. h[0] = {n}
    BY <1>3 DEF Rounds
  <2>3. ASSUME NEW k \in 0..N
        PROVE  h[k] = IF k = 0 THEN {n} ELSE h[k - 1] \cup UNION {next[m] : m \in h[k - 1]}
    BY <1>4, <2>1, <2>2 DEF Wider
  <2>4. QED
    BY <2>1, <2>3
<1>6. PICK f : Eq(f) /\ Reach(next, n) = f[N]
  BY <1>5, Zenon DEF Reach, N
<1>7. f[0] = {n} /\ \A k \in 1..N : f[k] = Wider(next, f[k - 1])
  <2>1. 0 \in 0..N /\ \A k \in 1..N : k \in 0..N /\ k # 0
    BY <1>1
  <2>2. QED
    BY <1>6, <2>1 DEF Wider
<1>8. f \in [0..N -> T]
  <2> DEFINE U == {k \in 0..N : f[k] \in T}
  <2>1. 0 \in U
    BY <1>1, <1>7
  <2>2. ASSUME NEW k \in 0..N, k \in U, k < N PROVE k + 1 \in U
    <3>1. k + 1 \in 1..N /\ k + 1 \in 0..N /\ (k + 1) - 1 = k
      BY <1>1, <2>2
    <3>2. f[k + 1] = Wider(next, f[k]) /\ f[k] \in T
      BY <3>1, <1>7, <2>2
    <3>3. f[k + 1] \in T
      BY <3>2 DEF Wider
    <3>4. QED
      BY <3>1, <3>3
  <2>3. 0..N \subseteq U
    <3> HIDE DEF U
    <3>1. QED
      BY <1>1, <2>1, <2>2, AllUpTo
  <2>4. QED
    BY <1>6, <2>3
<1>9. QED
  BY <1>6, <1>7, <1>8

LEMMA ReachLeast ==
    ASSUME NEW next \in [Ids -> SUBSET Ids], NEW n \in Ids
    PROVE  /\ n \in Reach(next, n) /\ Reach(next, n) \subseteq Ids
           /\ Closed(next, Reach(next, n))
           /\ \A S \in SUBSET Ids : n \in S /\ Closed(next, S) => Reach(next, n) \subseteq S
<1>1. PICK h \in [0..N -> SUBSET Ids] :
              /\ h[0] = {n}
              /\ \A k \in 1..N : h[k] = Wider(next, h[k - 1])
              /\ Reach(next, n) = h[N]
  BY ReachRounds
<1>2. N \in Nat
  BY FiniteIds
<1>3. ASSUME NEW k \in 0..N, k < N
      PROVE  k + 1 \in 0..N /\ h[k + 1] = Wider(next, h[k]) /\ h[k] \subseteq Ids /\ h[k + 1] \subseteq Ids
  <2>1. k + 1 \in 0..N /\ k + 1 \in 1..N /\ (k + 1) - 1 = k
    BY <1>2, <1>3
  <2>2. h[k] \in SUBSET Ids /\ h[k + 1] \in SUBSET Ids
    BY <1>1, <2>1
  <2>3. QED
    BY <1>1, <2>1, <2>2
\* A round that finds nothing is the last that could; every other one finds
\* an id more.
<1>4. h[N] = Wider(next, h[N]) \/ Cardinality(h[N]) >= N + 1
  <2> DEFINE U == {k \in 0..N : h[k] = Wider(next, h[k]) \/ Cardinality(h[k]) >= k + 1}
  <2>1. 0 \in U
    <3>1. Cardinality({n}) = 1
      BY FS_Singleton
    <3>2. h[0] = {n} /\ 0 \in 0..N /\ Cardinality(h[0]) >= 0 + 1
      BY <3>1, <1>1, <1>2
    <3>3. QED
      BY <3>2
  <2>2. ASSUME NEW k \in 0..N, k \in U, k < N PROVE k + 1 \in U
    <3>1. k + 1 \in 0..N /\ h[k + 1] = Wider(next, h[k]) /\ h[k] \subseteq Ids /\ h[k + 1] \subseteq Ids
      BY <1>3, <2>2
    <3>2. h[k] \subseteq h[k + 1]
      BY <3>1 DEF Wider
    <3>3. CASE h[k] = Wider(next, h[k])
      BY <3>1, <3>3
    <3>4. CASE h[k] # Wider(next, h[k])
      <4>1. Cardinality(h[k]) >= k + 1
        BY <2>2, <3>4
      <4>2. /\ IsFiniteSet(h[k + 1]) /\ Cardinality(h[k + 1]) \in Nat
            /\ Cardinality(h[k]) \in Nat
        BY <3>1, FiniteIds
      <4>3. Cardinality(h[k]) <= Cardinality(h[k + 1]) /\ Cardinality(h[k]) # Cardinality(h[k + 1])
        <5>1. h[k] \in SUBSET h[k + 1]
          BY <3>2
        <5>2. QED
          BY <5>1, <3>1, <3>4, <4>2, FS_Subset
      <4>4. Cardinality(h[k + 1]) >= (k + 1) + 1
        BY <4>1, <4>2, <4>3
      <4>5. QED
        BY <3>1, <4>4
    <3>5. QED
      BY <3>3, <3>4
  <2>3. 0..N \subseteq U /\ N \in 0..N
    <3> HIDE DEF U
    <3>1. QED
      BY <1>2, <2>1, <2>2, AllUpTo
  <2>4. QED
    BY <2>3
<1>5. h[N] \in SUBSET Ids
  BY <1>1, <1>2
<1>6. h[N] = Wider(next, h[N])
  BY <1>2, <1>4, <1>5, FiniteIds
<1>7. Closed(next, h[N])
  BY <1>6 DEF Wider, Closed
<1>8. n \in h[N]
  <2> DEFINE U == {k \in 0..N : n \in h[k]}
  <2>1. 0 \in U
    BY <1>1, <1>2
  <2>2. ASSUME NEW k \in 0..N, k \in U, k < N PROVE k + 1 \in U
    BY <1>3, <2>2 DEF Wider
  <2>3. 0..N \subseteq U /\ N \in 0..N
    <3> HIDE DEF U
    <3>1. QED
      BY <1>2, <2>1, <2>2, AllUpTo
  <2>4. QED
    BY <2>3
<1>9. ASSUME NEW S \in SUBSET Ids, n \in S, Closed(next, S)
      PROVE  h[N] \subseteq S
  <2> DEFINE U == {k \in 0..N : h[k] \subseteq S}
  <2>1. 0 \in U
    BY <1>1, <1>2, <1>9
  <2>2. ASSUME NEW k \in 0..N, k \in U, k < N PROVE k + 1 \in U
    <3>1. k + 1 \in 0..N /\ h[k + 1] = Wider(next, h[k]) /\ h[k] \subseteq S
      BY <1>3, <2>2
    <3>2. h[k + 1] \subseteq S
      BY <3>1, <1>9 DEF Wider, Closed
    <3>3. QED
      BY <3>1, <3>2
  <2>3. 0..N \subseteq U /\ N \in 0..N
    <3> HIDE DEF U
    <3>1. QED
      BY <1>2, <2>1, <2>2, AllUpTo
  <2>4. QED
    BY <2>3
<1>10. QED
  BY <1>1, <1>5, <1>7, <1>8, <1>9

\* The descendants of a node: the least set with the node and the kids of
\* each of its members.
LEMMA LeastDescendants ==
    ASSUME NEW f \in Files, NEW n \in Ids
    PROVE  /\ n \in Descendants(f, n) /\ Descendants(f, n) \subseteq Ids
           /\ \A m \in Descendants(f, n) : ToSet(f.kids[m]) \subseteq Descendants(f, n)
           /\ \A S \in SUBSET Ids :
                 n \in S /\ (\A m \in S : ToSet(f.kids[m]) \subseteq S) => Descendants(f, n) \subseteq S
<1> DEFINE next == [m \in Ids |-> ToSet(f.kids[m])]
<1>1. f.kids \in [Ids -> Seq(Ids)]
  BY DEF Files
<1>2. next \in [Ids -> SUBSET Ids]
  <2>1. ASSUME NEW m \in Ids PROVE ToSet(f.kids[m]) \subseteq Ids
    <3>1. f.kids[m] \in Seq(Ids)
      BY <1>1
    <3>2. QED
      BY <3>1 DEF ToSet
  <2>2. QED
    BY <2>1
<1>3. Descendants(f, n) = Reach(next, n)
  BY DEF Descendants
<1>4. \A S \in SUBSET Ids : Closed(next, S) <=> \A m \in S : ToSet(f.kids[m]) \subseteq S
  BY DEF Closed
<1> HIDE DEF next
<1>5. QED
  BY <1>2, <1>3, <1>4, ReachLeast

-----------------------------------------------------------------------------
(* Lists of kids *)

LEMMA Inserted ==
    ASSUME NEW X, NEW s \in Seq(X), NEW x \in X, NEW k \in 1..(Len(s) + 1)
    PROVE  /\ InsertAt(s, k, x) \in Seq(X)
           /\ ToSet(InsertAt(s, k, x)) = ToSet(s) \cup {x}
           /\ IsInjective(s) /\ x \notin ToSet(s) => IsInjective(InsertAt(s, k, x))
<1> DEFINE n == Len(s)
           t == InsertAt(s, k, x)
           before == SubSeq(s, 1, k - 1)
           after == SubSeq(s, k, n)
<1>1. n \in Nat /\ DOMAIN s = 1..n /\ k \in Nat /\ k >= 1 /\ k <= n + 1
  OBVIOUS
<1>2. before \in Seq(X) /\ Len(before) = k - 1 /\ \A i \in 1..(k - 1) : before[i] = s[i]
  BY <1>1, SubSeqProperties
<1>3. after \in Seq(X) /\ Len(after) = n - k + 1 /\ \A i \in 1..(n - k + 1) : after[i] = s[k + i - 1]
  BY <1>1, SubSeqProperties
<1>4. t = (before \o <<x>>) \o after
  BY DEF InsertAt
<1>5. <<x>> \in Seq(X) /\ Len(<<x>>) = 1 /\ <<x>>[1] = x
  OBVIOUS
<1> HIDE DEF n, t, before, after
<1>6. t \in Seq(X) /\ Len(t) = n + 1
  BY <1>1, <1>2, <1>3, <1>4, <1>5
<1>7. ASSUME NEW i \in 1..(n + 1)
      PROVE  t[i] = IF i < k THEN s[i] ELSE IF i = k THEN x ELSE s[i - 1]
  <2>1. CASE i < k
    BY <1>1, <1>2, <1>3, <1>4, <1>5, <2>1
  <2>2. CASE i = k
    BY <1>1, <1>2, <1>3, <1>4, <1>5, <2>2
  <2>3. CASE i > k
    <3>1. i - k \in 1..(n - k + 1) /\ i > Len(before \o <<x>>) /\ i - Len(before \o <<x>>) = i - k
      BY <1>1, <1>2, <1>5, <2>3
    <3>2. t[i] = after[i - k]
      BY <1>1, <1>2, <1>3, <1>4, <1>5, <3>1
    <3>3. k + (i - k) - 1 = i - 1
      BY <1>1
    <3>4. QED
      BY <1>1, <1>3, <2>3, <3>1, <3>2, <3>3
  <2>4. QED
    BY <1>1, <2>1, <2>2, <2>3
<1>8. DOMAIN t = 1..(n + 1)
  BY <1>1, <1>6
<1>9. ToSet(t) \subseteq ToSet(s) \cup {x}
  <2>1. ASSUME NEW i \in 1..(n + 1) PROVE t[i] \in {s[j] : j \in 1..n} \cup {x}
    <3>1. i < k => i \in 1..n
      BY <1>1
    <3>2. i > k => i - 1 \in 1..n
      BY <1>1
    <3>3. i < k \/ i = k \/ i > k
      BY <1>1
    <3>4. QED
      BY <1>1, <1>7, <3>1, <3>2, <3>3
  <2>2. QED
    BY <2>1, <1>1, <1>8 DEF ToSet
<1>10. ToSet(s) \cup {x} \subseteq ToSet(t)
  <2>1. x = t[k] /\ k \in 1..(n + 1)
    BY <1>1, <1>7
  <2>2. ASSUME NEW j \in 1..n PROVE \E i \in 1..(n + 1) : s[j] = t[i]
    <3>1. CASE j < k
      BY <1>1, <1>7, <3>1
    <3>2. CASE j >= k
      <4>1. j + 1 \in 1..(n + 1) /\ ~ (j + 1 < k) /\ j + 1 # k /\ (j + 1) - 1 = j
        BY <1>1, <3>2
      <4>2. QED
        BY <4>1, <1>7
    <3>3. QED
      BY <1>1, <3>1, <3>2
  <2>3. QED
    BY <2>1, <2>2, <1>1, <1>8 DEF ToSet
<1>11. ASSUME IsInjective(s), x \notin ToSet(s)
       PROVE  IsInjective(t)
  <2> DEFINE from(i) == IF i < k THEN i ELSE i - 1
  <2>1. ASSUME NEW i \in 1..(n + 1), i # k
        PROVE  from(i) \in 1..n /\ t[i] = s[from(i)] /\ t[i] # x
    <3>1. from(i) \in 1..n
      BY <1>1, <2>1
    <3>2. t[i] = s[from(i)]
      BY <1>7, <2>1
    <3>3. s[from(i)] \in ToSet(s)
      BY <3>1, <1>1 DEF ToSet
    <3>4. QED
      BY <3>1, <3>2, <3>3, <1>11
  <2>2. ASSUME NEW i \in 1..(n + 1), NEW j \in 1..(n + 1), i # k, j # k, from(i) = from(j)
        PROVE  i = j
    BY <1>1, <2>2
  <2>3. t[k] = x
    BY <1>1, <1>7
  <2> HIDE DEF from
  <2>4. ASSUME NEW i \in 1..(n + 1), NEW j \in 1..(n + 1), t[i] = t[j]
        PROVE  i = j
    <3>1. CASE i = k \/ j = k
      BY <2>1, <2>3, <2>4, <3>1
    <3>2. CASE i # k /\ j # k
      <4>1. s[from(i)] = s[from(j)] /\ from(i) \in 1..n /\ from(j) \in 1..n
        BY <2>1, <2>4, <3>2
      <4>2. from(i) = from(j)
        BY <4>1, <1>1, <1>11 DEF IsInjective
      <4>3. QED
        BY <4>2, <2>2, <3>2
    <3>3. QED
      BY <3>1, <3>2
  <2>5. QED
    BY <2>4, <1>8 DEF IsInjective
<1>12. QED
  BY <1>6, <1>9, <1>10, <1>11 DEF t

\* There are as many numbers below n as n: places that grow are all taken.
LEMMA AllPlaces ==
    ASSUME NEW n \in Nat, NEW a \in [1..n -> Nat],
           \A i \in 1..n : a[i] < n,
           \A i, j \in 1..n : i < j => a[i] < a[j]
    PROVE  \A i \in 1..n : a[i] = i - 1
<1>1. ASSUME NEW i \in 1..n PROVE a[i] >= i - 1
  <2> DEFINE U == {k \in 0..n : k # 0 => a[k] >= k - 1}
  <2>1. 0 \in U
    OBVIOUS
  <2>2. ASSUME NEW k \in 0..n, k \in U, k < n PROVE k + 1 \in U
    <3>1. k + 1 \in 1..n /\ k + 1 \in 0..n /\ a[k + 1] \in Nat
      BY <2>2
    <3>2. CASE k = 0
      BY <3>1, <3>2
    <3>3. CASE k # 0
      <4>1. k \in 1..n /\ a[k] \in Nat /\ a[k] >= k - 1 /\ a[k] < a[k + 1]
        BY <3>1, <3>3, <2>2
      <4>2. a[k + 1] >= (k + 1) - 1
        BY <3>1, <4>1
      <4>3. QED
        BY <3>1, <4>2
    <3>4. QED
      BY <3>2, <3>3
  <2>3. 0..n \subseteq U
    <3> HIDE DEF U
    <3>1. QED
      BY <2>1, <2>2, AllUpTo
  <2>4. i \in 0..n /\ i # 0
    OBVIOUS
  <2>5. QED
    BY <2>3, <2>4
<1>2. ASSUME NEW i \in 1..n PROVE a[i] <= i - 1
  <2> DEFINE U == {k \in 0..n : k < n => a[n - k] <= (n - k) - 1}
  <2>1. 0 \in U
    <3>1. n > 0 => n \in 1..n /\ a[n] \in Nat /\ a[n] < n
      OBVIOUS
    <3>2. n - 0 = n /\ 0 \in 0..n
      OBVIOUS
    <3>3. QED
      BY <3>1, <3>2
  <2>2. ASSUME NEW k \in 0..n, k \in U, k < n PROVE k + 1 \in U
    <3>1. k + 1 \in 0..n
      BY <2>2
    <3>2. CASE k + 1 < n
      <4>1. n - k \in 1..n /\ n - (k + 1) \in 1..n /\ n - (k + 1) < n - k
        BY <2>2, <3>2
      <4>2. a[n - (k + 1)] < a[n - k] /\ a[n - k] <= (n - k) - 1
        BY <4>1, <2>2
      <4>3. a[n - (k + 1)] \in Nat /\ a[n - k] \in Nat
        BY <4>1
      <4>4. a[n - (k + 1)] <= (n - (k + 1)) - 1
        BY <4>2, <4>3
      <4>5. QED
        BY <3>1, <4>4
    <3>3. QED
      BY <3>1, <3>2
  <2>3. 0..n \subseteq U
    <3> HIDE DEF U
    <3>1. QED
      BY <2>1, <2>2, AllUpTo
  <2>4. n - i \in 0..n /\ n - i < n /\ n - (n - i) = i
    OBVIOUS
  <2>5. QED
    BY <2>3, <2>4
<1>3. ASSUME NEW i \in 1..n PROVE a[i] = i - 1
  <2>1. a[i] \in Nat /\ a[i] >= i - 1 /\ a[i] <= i - 1
    BY <1>1, <1>2
  <2>2. QED
    BY <2>1
<1>4. QED
  BY <1>3

\* Edges with the places 0, 1, ... come back in that order.
LEMMA InOrderOf ==
    ASSUME NEW n \in Nat, NEW E, NEW e \in [1..n -> E],
           \A i \in 1..n : e[i].at = i - 1
    PROVE  InOrder({e[i] : i \in 1..n}) = e
<1> DEFINE edges == {e[i] : i \in 1..n}
           Sorted(s) == IsInjective(s) /\ \A i, j \in DOMAIN s : i < j => s[i].at <= s[j].at
<1>1. Cardinality(edges) = n
  <2>1. e \in [1..n -> edges] /\ (\A d \in edges : \E i \in 1..n : e[i] = d)
    OBVIOUS
  <2>2. \A i, j \in 1..n : e[i] = e[j] => i = j
    <3>1. ASSUME NEW i \in 1..n, NEW j \in 1..n, e[i] = e[j] PROVE i = j
      <4>1. i - 1 = j - 1
        BY <3>1
      <4>2. QED
        BY <4>1
    <3>2. QED
      BY <3>1
  <2>3. ExistsBijection(1..n, edges)
    <3> HIDE DEF edges
    <3>1. e \in Bijection(1..n, edges)
      BY <2>1, <2>2 DEF Bijection, Injection, Surjection, IsInjective
    <3>2. QED
      BY <3>1 DEF ExistsBijection
  <2>4. QED
    BY <2>3, FS_CountingElements
<1>2. e \in [1..n -> edges] /\ Sorted(e)
  <2>1. ASSUME NEW i \in 1..n, NEW j \in 1..n, e[i] = e[j] PROVE i = j
    <3>1. i - 1 = j - 1
      BY <2>1
    <3>2. QED
      BY <3>1
  <2>2. \A i, j \in 1..n : i < j => e[i].at <= e[j].at
    OBVIOUS
  <2>3. DOMAIN e = 1..n
    OBVIOUS
  <2>4. QED
    BY <2>1, <2>2, <2>3 DEF IsInjective
<1>3. ASSUME NEW s \in [1..n -> edges], Sorted(s)
      PROVE  s = e
  <2> DEFINE a == [i \in 1..n |-> s[i].at]
  <2>1. ASSUME NEW i \in 1..n
        PROVE  a[i] = s[i].at /\ a[i] \in Nat /\ a[i] < n /\ a[i] + 1 \in 1..n /\ s[i] = e[a[i] + 1]
    <3>1. PICK k \in 1..n : s[i] = e[k]
      OBVIOUS
    <3>2. s[i].at = k - 1
      BY <3>1
    <3>3. a[i] = s[i].at
      OBVIOUS
    <3>4. k - 1 \in Nat /\ k - 1 < n /\ (k - 1) + 1 = k
      OBVIOUS
    <3>5. a[i] = k - 1
      BY <3>2, <3>3
    <3> HIDE DEF a
    <3>6. QED
      BY <3>1, <3>3, <3>4, <3>5
  <2>2. a \in [1..n -> Nat]
    BY <2>1
  <2> HIDE DEF a
  <2>3. ASSUME NEW i \in 1..n, NEW j \in 1..n, i < j PROVE a[i] < a[j]
    <3>1. s[i].at <= s[j].at
      BY <1>3, <2>3
    <3>2. a[i] # a[j]
      <4>1. ASSUME a[i] = a[j] PROVE FALSE
        <5>1. s[i] = s[j]
          BY <2>1, <4>1
        <5>2. i = j
          BY <5>1, <1>3 DEF IsInjective
        <5>3. QED
          BY <5>2, <2>3
      <4>2. QED
        BY <4>1
    <3>3. a[i] <= a[j] /\ a[i] \in Nat /\ a[j] \in Nat
      BY <2>1, <3>1
    <3>4. \A x, y \in Nat : x <= y /\ x # y => x < y
      OBVIOUS
    <3>5. QED
      BY <3>2, <3>3, <3>4
  <2>4. \A i \in 1..n : a[i] = i - 1
    BY <2>1, <2>2, <2>3, AllPlaces
  <2>5. ASSUME NEW i \in 1..n PROVE s[i] = e[i]
    <3>1. (i - 1) + 1 = i
      OBVIOUS
    <3>2. QED
      BY <2>1, <2>4, <3>1
  <2>6. DOMAIN s = 1..n /\ DOMAIN e = 1..n /\ s = [i \in 1..n |-> s[i]] /\ e = [i \in 1..n |-> e[i]]
    OBVIOUS
  <2>7. QED
    BY <2>5, <2>6
<1>4. InOrder(edges) = CHOOSE s \in [1..n -> edges] : Sorted(s)
  BY <1>1 DEF InOrder
<1> HIDE DEF edges, Sorted
<1>5. QED
  BY <1>2, <1>3, <1>4 DEF edges

-----------------------------------------------------------------------------
(* What every edit leaves: a tree *)

KidSet(f, p) == ToSet(f.kids[p])

\* No node is in two places, and every node is where its kind may be.
Forest(f) ==
    /\ \A p \in Ids : IsInjective(f.kids[p])
    /\ \A p, q \in Ids : p # q => KidSet(f, p) \cap KidSet(f, q) = {}
    /\ KidSet(f, Root) \subseteq Pages
    /\ \A p \in Pages \cup Layers : KidSet(f, p) \subseteq Layers

\* A node that is deleted, or not yet created, has no kids.
Rooted(f) == \A p \in Ids \ Live(f) : f.kids[p] = <<>>

TreeShaped(f) == Forest(f) /\ Rooted(f)

LEMMA FileParts ==
    ASSUME NEW f \in Files
    PROVE  /\ f.kids \in [Ids -> Seq(Ids)] /\ f.look \in [Layers -> Looks]
           /\ \A p \in Ids : KidSet(f, p) \subseteq Ids
<1>1. f.kids \in [Ids -> Seq(Ids)] /\ f.look \in [Layers -> Looks]
  BY DEF Files
<1>2. ASSUME NEW p \in Ids PROVE KidSet(f, p) \subseteq Ids
  <2>1. f.kids[p] \in Seq(Ids)
    BY <1>1
  <2>2. QED
    BY <2>1 DEF KidSet, ToSet
<1>3. QED
  BY <1>1, <1>2

LEMMA LiveNodes ==
    ASSUME NEW f \in Files
    PROVE  /\ Root \in Live(f) /\ Live(f) \subseteq Ids
           /\ \A m \in Live(f) : KidSet(f, m) \subseteq Live(f)
           /\ \A S \in SUBSET Ids :
                 Root \in S /\ (\A m \in S : KidSet(f, m) \subseteq S) => Live(f) \subseteq S
<1>1. Root \in Ids
  BY DEF Ids
<1>2. QED
  BY <1>1, LeastDescendants DEF Live, KidSet

LEMMA KidsLive ==
    ASSUME NEW f \in Files, TreeShaped(f), NEW p \in Ids, NEW c \in KidSet(f, p)
    PROVE  p \in Live(f) /\ c \in Live(f) /\ c \in Pages \cup Layers /\ c # Root
<1>1. p \in Live(f)
  <2>1. ASSUME f.kids[p] = <<>> PROVE FALSE
    BY <2>1 DEF KidSet, ToSet
  <2>2. QED
    BY <2>1 DEF TreeShaped, Rooted
<1>2. c \in Live(f)
  BY <1>1, LiveNodes
<1>3. c \in Pages \cup Layers
  BY DEF TreeShaped, Forest, Ids
<1>4. QED
  BY <1>1, <1>2, <1>3, TreeAssumption

LEMMA Attached ==
    ASSUME NEW f \in Files, Forest(f), NEW n \in Pages \cup Layers, NEW p \in Parents(n),
           NEW k \in 1..(Len(f.kids[p]) + 1),
           \A q \in Ids : n \notin KidSet(f, q)
    PROVE  /\ Insert(f, n, p, k) \in Files /\ Forest(Insert(f, n, p, k))
           /\ KidSet(Insert(f, n, p, k), p) = KidSet(f, p) \cup {n}
           /\ \A q \in Ids \ {p} : Insert(f, n, p, k).kids[q] = f.kids[q]
<1> DEFINE g == Insert(f, n, p, k)
<1>1. p \in Ids /\ n \in Ids /\ (p = Root <=> n \in Pages) /\ (p = Root \/ p \in Pages \cup Layers)
  BY TreeAssumption DEF Parents, Ids
<1>2. f.kids[p] \in Seq(Ids)
  BY <1>1, FileParts
<1>3. /\ InsertAt(f.kids[p], k, n) \in Seq(Ids)
      /\ ToSet(InsertAt(f.kids[p], k, n)) = KidSet(f, p) \cup {n}
      /\ IsInjective(InsertAt(f.kids[p], k, n))
  BY <1>1, <1>2, Inserted DEF KidSet, Forest
<1>4. g = [f EXCEPT !.kids = [f.kids EXCEPT ![p] = InsertAt(f.kids[p], k, n)]]
  BY DEF Insert
<1> HIDE DEF g
<1>5. /\ g \in Files
      /\ g.kids[p] = InsertAt(f.kids[p], k, n)
      /\ \A q \in Ids \ {p} : g.kids[q] = f.kids[q]
  <2>1. [f.kids EXCEPT ![p] = InsertAt(f.kids[p], k, n)] \in [Ids -> Seq(Ids)]
    BY <1>1, <1>3, FileParts
  <2>2. g \in Files
    BY <1>4, <2>1 DEF Files
  <2>3. g.kids = [f.kids EXCEPT ![p] = InsertAt(f.kids[p], k, n)]
    BY <1>4 DEF Files
  <2>4. QED
    BY <1>1, <2>2, <2>3, FileParts
<1>6. KidSet(g, p) = KidSet(f, p) \cup {n} /\ \A q \in Ids \ {p} : KidSet(g, q) = KidSet(f, q)
  BY <1>3, <1>5 DEF KidSet
<1>7. \A q \in Ids : IsInjective(g.kids[q])
  BY <1>3, <1>5 DEF Forest
<1>8. ASSUME NEW q \in Ids, NEW r \in Ids, q # r
      PROVE  KidSet(g, q) \cap KidSet(g, r) = {}
  BY <1>6, <1>8 DEF Forest
<1>9. KidSet(g, Root) \subseteq Pages /\ \A q \in Pages \cup Layers : KidSet(g, q) \subseteq Layers
  <2>1. Root \in Ids /\ Root \notin Pages \cup Layers /\ Pages \cup Layers \subseteq Ids
    BY TreeAssumption DEF Ids
  <2>2. QED
    BY <1>1, <1>6, <2>1, TreeAssumption DEF Forest
<1>10. QED
  BY <1>5, <1>6, <1>7, <1>8, <1>9 DEF Forest, g

LEMMA Detached ==
    ASSUME NEW f \in Files, Forest(f), NEW n \in Ids
    PROVE  /\ Detach(f, n) \in Files /\ Forest(Detach(f, n))
           /\ \A q \in Ids : /\ KidSet(Detach(f, n), q) = KidSet(f, q) \ {n}
                             /\ f.kids[q] = <<>> => Detach(f, n).kids[q] = <<>>
<1> DEFINE g == Detach(f, n)
           kids == [m \in Ids |-> Chosen(f.kids[m], Ids \ {n})]
<1>1. ASSUME NEW q \in Ids
      PROVE  /\ Chosen(f.kids[q], Ids \ {n}) \in Seq(Ids)
             /\ ToSet(Chosen(f.kids[q], Ids \ {n})) = KidSet(f, q) \ {n}
             /\ IsInjective(Chosen(f.kids[q], Ids \ {n}))
  <2>1. f.kids[q] \in Seq(Ids) /\ IsInjective(f.kids[q]) /\ KidSet(f, q) \subseteq Ids
    BY FileParts DEF Forest
  <2>2. QED
    BY <2>1, ChosenElements, ChosenInjective DEF KidSet
<1>2. g = [f EXCEPT !.kids = kids]
  BY DEF Detach
<1>3. kids \in [Ids -> Seq(Ids)]
  BY <1>1
<1> HIDE DEF g
<1>4. g \in Files /\ g.kids = kids
  <2> HIDE DEF kids
  <2>1. QED
    BY <1>2, <1>3 DEF Files
<1>5. \A q \in Ids : KidSet(g, q) = KidSet(f, q) \ {n} /\ IsInjective(g.kids[q])
  BY <1>1, <1>4 DEF KidSet
<1>6. Forest(g)
  <2>1. ASSUME NEW q \in Ids, NEW r \in Ids, q # r
        PROVE  KidSet(g, q) \cap KidSet(g, r) = {}
    BY <1>5, <2>1 DEF Forest
  <2>2. KidSet(g, Root) \subseteq Pages /\ \A q \in Pages \cup Layers : KidSet(g, q) \subseteq Layers
    <3>1. Root \in Ids /\ Pages \cup Layers \subseteq Ids
      BY DEF Ids
    <3>2. QED
      BY <1>5, <3>1 DEF Forest
  <2>3. QED
    BY <1>5, <2>1, <2>2 DEF Forest
<1>7. ASSUME NEW q \in Ids, f.kids[q] = <<>> PROVE g.kids[q] = <<>>
  <2>1. g.kids[q] = Chosen(f.kids[q], Ids \ {n})
    BY <1>4
  <2>2. f.kids[q] \in Seq(Ids) /\ ToSet(f.kids[q]) \subseteq Ids \ {n}
    BY <1>7 DEF ToSet
  <2>3. QED
    BY <2>1, <2>2, <1>7, ChosenAll
<1>8. QED
  BY <1>4, <1>5, <1>6, <1>7 DEF g

LEMMA CreateShaped ==
    ASSUME NEW f \in Files, TreeShaped(f), NEW n \in Pages \cup Layers, n \notin Live(f),
           NEW p \in Parents(n), NEW k \in 1..(Len(f.kids[p]) + 1), p \in Live(f)
    PROVE  Insert(f, n, p, k) \in Files /\ TreeShaped(Insert(f, n, p, k))
<1> DEFINE g == Insert(f, n, p, k)
<1>1. \A q \in Ids : n \notin KidSet(f, q)
  BY KidsLive
<1>2. /\ g \in Files /\ Forest(g)
      /\ KidSet(g, p) = KidSet(f, p) \cup {n}
      /\ \A q \in Ids \ {p} : g.kids[q] = f.kids[q]
  BY <1>1, Attached DEF TreeShaped
<1> HIDE DEF g
<1>3. Live(f) \subseteq Live(g)
  <2>1. ASSUME NEW m \in Live(g) PROVE KidSet(f, m) \subseteq Live(g)
    BY <1>2, <2>1, LiveNodes DEF KidSet
  <2>2. QED
    BY <1>2, <2>1, LiveNodes
<1>4. Rooted(g)
  BY <1>2, <1>3 DEF TreeShaped, Rooted
<1>5. QED
  BY <1>2, <1>4 DEF TreeShaped, g

\* What the removal of n, for good or to put it elsewhere, leaves live: all
\* that is not below n.
LEMMA StaysLive ==
    ASSUME NEW f \in Files, TreeShaped(f), NEW n \in Ids, NEW g \in Files,
           \A m \in Ids \ Descendants(f, n) : KidSet(f, m) \ {n} \subseteq KidSet(g, m)
    PROVE  Live(f) \ Descendants(f, n) \subseteq Live(g)
<1> DEFINE X == Live(g) \cup Descendants(f, n)
<1>1. X \subseteq Ids /\ Root \in X
  BY LiveNodes, LeastDescendants
<1>2. ASSUME NEW m \in X PROVE KidSet(f, m) \subseteq X
  <2>1. CASE m \in Descendants(f, n)
    BY <2>1, LeastDescendants DEF KidSet
  <2>2. CASE m \notin Descendants(f, n)
    <3>1. m \in Live(g) /\ m \in Ids
      BY <1>1, <2>2
    <3>2. KidSet(f, m) \ {n} \subseteq Live(g)
      BY <2>2, <3>1, LiveNodes
    <3>3. n \in Descendants(f, n)
      BY LeastDescendants
    <3>4. QED
      BY <3>2, <3>3
  <2>3. QED
    BY <2>1, <2>2
<1>3. Live(f) \subseteq X
  <2> HIDE DEF X
  <2>1. QED
    BY <1>1, <1>2, LiveNodes
<1>4. QED
  BY <1>3

LEMMA DeleteShaped ==
    ASSUME NEW f \in Files, TreeShaped(f), NEW n \in Ids, NEW g,
           g = [Detach(f, n) EXCEPT !.kids =
                  [m \in Ids |-> IF m \in Descendants(f, n) THEN <<>> ELSE @[m]]]
    PROVE  g \in Files /\ TreeShaped(g)
<1> DEFINE rest == Detach(f, n)
           kids == [m \in Ids |-> IF m \in Descendants(f, n) THEN <<>> ELSE rest.kids[m]]
<1>1. /\ rest \in Files /\ Forest(rest)
      /\ \A q \in Ids : KidSet(rest, q) = KidSet(f, q) \ {n} /\ (f.kids[q] = <<>> => rest.kids[q] = <<>>)
  <2>1. Forest(f)
    BY DEF TreeShaped
  <2>2. QED
    BY <2>1, Detached
<1>2. g = [rest EXCEPT !.kids = kids]
  OBVIOUS
<1> HIDE DEF rest
<1>3. kids \in [Ids -> Seq(Ids)]
  BY <1>1, FileParts
<1>4. g \in Files /\ g.kids = kids
  <2> HIDE DEF kids
  <2>1. QED
    BY <1>1, <1>2, <1>3 DEF Files
<1>5. \A q \in Ids : IF q \in Descendants(f, n) THEN g.kids[q] = <<>> ELSE g.kids[q] = rest.kids[q]
  BY <1>4
<1>6. /\ IsInjective(<<>>) /\ ToSet(<<>>) = {}
  BY DEF IsInjective, ToSet
<1>7. ASSUME NEW q \in Ids
      PROVE  KidSet(g, q) = IF q \in Descendants(f, n) THEN {} ELSE KidSet(rest, q)
  <2>1. CASE q \in Descendants(f, n)
    BY <1>5, <1>6, <2>1 DEF KidSet
  <2>2. CASE q \notin Descendants(f, n)
    BY <1>5, <2>2 DEF KidSet
  <2>3. QED
    BY <2>1, <2>2
<1>8. Forest(g)
  <2>1. Root \in Ids /\ Pages \cup Layers \subseteq Ids
    BY DEF Ids
  <2>2. \A q \in Ids : IsInjective(g.kids[q])
    BY <1>1, <1>5, <1>6 DEF Forest
  <2>3. ASSUME NEW q \in Ids, NEW r \in Ids, q # r
        PROVE  KidSet(g, q) \cap KidSet(g, r) = {}
    BY <1>1, <1>7, <2>3 DEF Forest
  <2>4. KidSet(g, Root) \subseteq Pages
    BY <1>1, <1>7, <2>1 DEF Forest
  <2>5. \A q \in Pages \cup Layers : KidSet(g, q) \subseteq Layers
    BY <1>1, <1>7, <2>1 DEF Forest
  <2>6. QED
    BY <2>2, <2>3, <2>4, <2>5 DEF Forest
<1>9. Live(f) \ Descendants(f, n) \subseteq Live(g)
  <2>1. \A m \in Ids \ Descendants(f, n) : KidSet(f, m) \ {n} \subseteq KidSet(g, m)
    BY <1>1, <1>7
  <2>2. QED
    BY <1>4, <2>1, StaysLive
<1>10. Rooted(g)
  <2>1. ASSUME NEW q \in Ids \ Live(g) PROVE g.kids[q] = <<>>
    <3>1. q \in Descendants(f, n) \/ q \notin Live(f)
      BY <1>9
    <3>2. q \notin Live(f) => rest.kids[q] = <<>>
      BY <1>1 DEF TreeShaped, Rooted
    <3>3. QED
      BY <1>5, <3>1, <3>2
  <2>2. QED
    BY <2>1 DEF Rooted
<1>11. QED
  BY <1>4, <1>8, <1>10 DEF TreeShaped

LEMMA MoveShaped ==
    ASSUME NEW f \in Files, TreeShaped(f), NEW n \in Pages \cup Layers,
           NEW p \in Parents(n), p \in Live(f) \ Descendants(f, n),
           NEW k \in 1..(Len(Detach(f, n).kids[p]) + 1)
    PROVE  Insert(Detach(f, n), n, p, k) \in Files /\ TreeShaped(Insert(Detach(f, n), n, p, k))
<1> DEFINE rest == Detach(f, n)
           g == Insert(rest, n, p, k)
<1>1. n \in Ids /\ p \in Ids
  BY LiveNodes DEF Ids
<1>2. /\ rest \in Files /\ Forest(rest)
      /\ \A q \in Ids : KidSet(rest, q) = KidSet(f, q) \ {n} /\ (f.kids[q] = <<>> => rest.kids[q] = <<>>)
  <2>1. Forest(f)
    BY DEF TreeShaped
  <2>2. QED
    BY <1>1, <2>1, Detached
<1>3. k \in 1..(Len(rest.kids[p]) + 1)
  OBVIOUS
<1> HIDE DEF rest
<1>4. /\ g \in Files /\ Forest(g)
      /\ KidSet(g, p) = KidSet(rest, p) \cup {n}
      /\ \A q \in Ids \ {p} : g.kids[q] = rest.kids[q]
  BY <1>2, <1>3, Attached
<1> HIDE DEF g
<1>5. \A q \in Ids : KidSet(f, q) \ {n} \subseteq KidSet(g, q)
  BY <1>2, <1>4 DEF KidSet
<1>6. n \in Live(g)
  <2>1. Live(f) \ Descendants(f, n) \subseteq Live(g)
    BY <1>1, <1>4, <1>5, StaysLive
  <2>2. QED
    BY <1>4, <2>1, LiveNodes
<1>7. Live(f) \subseteq Live(g)
  <2>1. ASSUME NEW m \in Live(g) PROVE KidSet(f, m) \subseteq Live(g)
    <3>1. m \in Ids /\ KidSet(g, m) \subseteq Live(g)
      BY <1>4, LiveNodes
    <3>2. QED
      BY <1>5, <1>6, <3>1
  <2>2. QED
    BY <1>4, <2>1, LiveNodes
<1>8. Rooted(g)
  <2>1. ASSUME NEW q \in Ids \ Live(g) PROVE g.kids[q] = <<>>
    <3>1. q \notin Live(f) /\ q # p
      BY <1>7
    <3>2. f.kids[q] = <<>>
      BY <3>1 DEF TreeShaped, Rooted
    <3>3. QED
      BY <1>2, <1>4, <3>1, <3>2
  <2>2. QED
    BY <2>1 DEF Rooted
<1>9. QED
  BY <1>4, <1>8 DEF TreeShaped, g, rest

LEMMA RestyleShaped ==
    ASSUME NEW f \in Files, TreeShaped(f), NEW n \in Layers, NEW look \in LooksOf[n]
    PROVE  [f EXCEPT !.look[n] = look] \in Files /\ TreeShaped([f EXCEPT !.look[n] = look])
<1> DEFINE g == [f EXCEPT !.look[n] = look]
<1>1. look \in Looks
  BY DEF Looks
<1>2. g = [f EXCEPT !.look = [f.look EXCEPT ![n] = look]]
  OBVIOUS
<1> HIDE DEF g
<1>3. g \in Files /\ g.kids = f.kids
  BY <1>1, <1>2 DEF Files
<1>4. Live(g) = Live(f)
  BY <1>3 DEF Live, Descendants
<1>5. TreeShaped(g)
  BY <1>3, <1>4 DEF TreeShaped, Forest, Rooted, KidSet
<1>6. QED
  BY <1>3, <1>5 DEF g

-----------------------------------------------------------------------------
(* Lists of records, each of another node *)

IdsOf(recs) == {r.id : r \in ToSet(recs)}

Distinct(recs) == \A i, j \in DOMAIN recs : recs[i].id = recs[j].id => i = j

LEMMA DistinctAppend ==
    ASSUME NEW s \in Seq(NodeRecs), NEW r \in NodeRecs, Distinct(s), r.id \notin IdsOf(s)
    PROVE  Distinct(Append(s, r)) /\ ToSet(Append(s, r)) = ToSet(s) \cup {r}
<1>1. /\ Len(s) \in Nat /\ DOMAIN s = 1..Len(s)
      /\ DOMAIN Append(s, r) = 1..(Len(s) + 1)
      /\ \A i \in 1..Len(s) : Append(s, r)[i] = s[i]
      /\ Append(s, r)[Len(s) + 1] = r
  BY AppendProperties
<1>2. \A i \in 1..Len(s) : s[i].id # r.id
  BY <1>1 DEF IdsOf, ToSet
<1>3. Distinct(Append(s, r))
  BY <1>1, <1>2 DEF Distinct
<1>4. QED
  BY <1>3, AppendedOne

LEMMA DistinctConcat ==
    ASSUME NEW s \in Seq(NodeRecs), NEW t \in Seq(NodeRecs), Distinct(s), Distinct(t),
           IdsOf(s) \cap IdsOf(t) = {}
    PROVE  Distinct(s \o t) /\ ToSet(s \o t) = ToSet(s) \cup ToSet(t)
<1> DEFINE m == Len(s)
           n == Len(t)
<1>1. /\ m \in Nat /\ n \in Nat /\ DOMAIN s = 1..m /\ DOMAIN t = 1..n
      /\ DOMAIN (s \o t) = 1..(m + n)
      /\ \A i \in 1..(m + n) : (s \o t)[i] = IF i <= m THEN s[i] ELSE t[i - m]
  OBVIOUS
<1> DEFINE u == s \o t
<1> HIDE DEF m, n, u
<1>2. ASSUME NEW i \in 1..(m + n)
      PROVE  /\ i <= m => i \in DOMAIN s /\ u[i] = s[i] /\ u[i].id \in IdsOf(s)
             /\ ~ (i <= m) => i - m \in DOMAIN t /\ u[i] = t[i - m] /\ u[i].id \in IdsOf(t)
  <2>1. CASE i <= m
    <3>1. i \in DOMAIN s /\ u[i] = s[i]
      BY <1>1, <2>1 DEF u
    <3>2. QED
      BY <2>1, <3>1 DEF IdsOf, ToSet
  <2>2. CASE ~ (i <= m)
    <3>1. i - m \in DOMAIN t /\ u[i] = t[i - m]
      BY <1>1, <2>2 DEF u
    <3>2. QED
      BY <2>2, <3>1 DEF IdsOf, ToSet
  <2>3. QED
    BY <2>1, <2>2
<1>3. ASSUME NEW i \in 1..(m + n), NEW j \in 1..(m + n), u[i].id = u[j].id
      PROVE  i = j
  <2>1. CASE i <= m /\ j <= m
    BY <1>2, <1>3, <2>1 DEF Distinct
  <2>2. CASE ~ (i <= m) /\ ~ (j <= m)
    <3>1. t[i - m].id = t[j - m].id /\ i - m \in DOMAIN t /\ j - m \in DOMAIN t
      BY <1>2, <1>3, <2>2
    <3>2. i - m = j - m
      BY <3>1 DEF Distinct
    <3>3. QED
      BY <1>1, <3>2
  <2>3. CASE (i <= m) # (j <= m)
    BY <1>2, <1>3, <2>3
  <2>4. QED
    BY <2>1, <2>2, <2>3
<1>4. DOMAIN u = 1..(m + n)
  BY <1>1 DEF u
<1>5. ToSet(u) \subseteq ToSet(s) \cup ToSet(t)
  <2>1. ASSUME NEW i \in 1..(m + n) PROVE u[i] \in ToSet(s) \cup ToSet(t)
    BY <1>2 DEF ToSet
  <2>2. QED
    BY <2>1, <1>4 DEF ToSet
<1>6. ToSet(s) \subseteq ToSet(u)
  <2>1. ASSUME NEW i \in 1..m PROVE i \in 1..(m + n) /\ u[i] = s[i]
    BY <1>1 DEF u
  <2>2. QED
    BY <1>1, <1>4, <2>1 DEF ToSet
<1>7. ToSet(t) \subseteq ToSet(u)
  <2>1. ASSUME NEW i \in 1..n PROVE i + m \in 1..(m + n) /\ u[i + m] = t[i]
    <3>1. i + m \in 1..(m + n) /\ ~ (i + m <= m) /\ (i + m) - m = i
      BY <1>1
    <3>2. QED
      BY <1>1, <3>1 DEF u
  <2>2. \A i \in 1..n : t[i] \in ToSet(u)
    BY <1>4, <2>1 DEF ToSet
  <2>3. QED
    BY <1>1, <2>2 DEF ToSet
<1>8. QED
  BY <1>3, <1>4, <1>5, <1>6, <1>7 DEF Distinct, u

LEMMA DistinctTail ==
    ASSUME NEW s \in Seq(NodeRecs), Distinct(s), s # <<>>
    PROVE  /\ Head(s) \in NodeRecs /\ Tail(s) \in Seq(NodeRecs)
           /\ Distinct(Tail(s)) /\ ToSet(s) = {Head(s)} \cup ToSet(Tail(s))
           /\ Head(s).id \notin IdsOf(Tail(s))
<1> DEFINE n == Len(s)
           t == Tail(s)
<1>1. /\ n \in Nat /\ n >= 1 /\ DOMAIN s = 1..n /\ Head(s) = s[1] /\ s[1] \in NodeRecs
      /\ t \in Seq(NodeRecs) /\ DOMAIN t = 1..(n - 1)
      /\ \A i \in 1..(n - 1) : t[i] = s[i + 1]
  OBVIOUS
<1> HIDE DEF n, t
<1>2. \A i \in 1..(n - 1) : i + 1 \in DOMAIN s /\ i + 1 # 1 /\ 1 \in DOMAIN s
  BY <1>1
<1>3. Distinct(t)
  <2>1. ASSUME NEW i \in 1..(n - 1), NEW j \in 1..(n - 1), t[i].id = t[j].id
        PROVE  i = j
    <3>1. i + 1 = j + 1
      BY <1>1, <1>2, <2>1 DEF Distinct
    <3>2. QED
      BY <3>1
  <2>2. QED
    BY <1>1, <2>1 DEF Distinct
<1>4. Head(s).id \notin IdsOf(t)
  <2>1. ASSUME NEW i \in 1..(n - 1) PROVE t[i].id # s[1].id
    BY <1>1, <1>2 DEF Distinct
  <2>2. QED
    BY <1>1, <2>1 DEF IdsOf, ToSet
<1>5. ToSet(s) = {Head(s)} \cup ToSet(t)
  <2>1. ASSUME NEW i \in 1..n PROVE s[i] = s[1] \/ \E j \in 1..(n - 1) : s[i] = t[j]
    <3>1. i = 1 \/ (i - 1 \in 1..(n - 1) /\ (i - 1) + 1 = i)
      BY <1>1
    <3>2. QED
      BY <1>1, <3>1
  <2>2. \A j \in 1..(n - 1) : \E i \in 1..n : t[j] = s[i]
    BY <1>1, <1>2
  <2>3. 1 \in 1..n
    BY <1>1
  <2>4. ToSet(s) = {s[i] : i \in 1..n} /\ ToSet(t) = {t[j] : j \in 1..(n - 1)}
    BY <1>1 DEF ToSet
  <2>5. {s[i] : i \in 1..n} \subseteq {s[1]} \cup {t[j] : j \in 1..(n - 1)}
    BY <2>1
  <2>6. {s[1]} \cup {t[j] : j \in 1..(n - 1)} \subseteq {s[i] : i \in 1..n}
    BY <2>2, <2>3
  <2>7. QED
    BY <1>1, <2>4, <2>5, <2>6
<1>6. QED
  BY <1>1, <1>3, <1>4, <1>5 DEF t

LEMMA DistinctCount ==
    ASSUME NEW s \in Seq(NodeRecs), Distinct(s)
    PROVE  Cardinality(IdsOf(s)) = Len(s)
<1> DEFINE n == Len(s)
           id == [i \in 1..n |-> s[i].id]
<1>1. n \in Nat /\ DOMAIN s = 1..n
  OBVIOUS
<1>2. id \in Bijection(1..n, IdsOf(s))
  <2>1. id \in [1..n -> IdsOf(s)]
    BY <1>1 DEF IdsOf, ToSet
  <2>2. \A i, j \in 1..n : id[i] = id[j] => i = j
    BY <1>1 DEF Distinct
  <2>3. \A x \in IdsOf(s) : \E i \in 1..n : id[i] = x
    BY <1>1 DEF IdsOf, ToSet
  <2> HIDE DEF id
  <2>4. QED
    BY <2>1, <2>2, <2>3 DEF Bijection, Injection, Surjection, IsInjective
<1>3. QED
  BY <1>1, <1>2, FS_CountingElements DEF ExistsBijection

-----------------------------------------------------------------------------
(* Walk: a record for every node that is live, and what it says of its node *)

WalkStates == [out: Seq(NodeRecs), calls: Seq(NodeRecs)]

WalkStart(f) == [out |-> <<>>, calls |-> <<NodeRec(f, Root, None, 0, None)>>]

LEMMA LookTyped ==
    ASSUME NEW f \in Files, NEW n \in Ids
    PROVE  Look(f, n) \in Looks \cup {Bare("DOCUMENT"), Bare("CANVAS")}
BY FileParts DEF Look, Ids

LEMMA NodeRecTyped ==
    ASSUME NEW f \in Files, NEW n \in Ids, NEW parent \in Ids \cup {None}, NEW index \in Nat,
           NEW page \in Ids \cup {None}
    PROVE  NodeRec(f, n, parent, index, page) \in NodeRecs
<1>1. PageOf(f, n, page) \in Ids
  BY DEF PageOf
<1>2. QED
  BY <1>1, LookTyped DEF NodeRec, NodeRecs

LEMMA KidRecsTyped ==
    ASSUME NEW f \in Files, NEW r \in NodeRecs
    PROVE  /\ KidRecs(f, r) \in Seq(NodeRecs)
           /\ DOMAIN KidRecs(f, r) = DOMAIN f.kids[r.id]
           /\ \A k \in DOMAIN f.kids[r.id] :
                 /\ k \in Nat \ {0} /\ f.kids[r.id][k] \in KidSet(f, r.id)
                 /\ f.kids[r.id][k] \in Ids
                 /\ KidRecs(f, r)[k] = NodeRec(f, f.kids[r.id][k], r.id, k - 1, r.page)
<1> DEFINE kids == f.kids[r.id]
<1>1. r.id \in Ids /\ r.page \in Ids
  BY DEF NodeRecs
<1>2. kids \in Seq(Ids) /\ DOMAIN kids = 1..Len(kids) /\ Len(kids) \in Nat
  BY <1>1, FileParts
<1>3. \A k \in DOMAIN kids : k \in Nat \ {0} /\ kids[k] \in KidSet(f, r.id) /\ kids[k] \in Ids
  BY <1>2 DEF KidSet, ToSet
<1>4. KidRecs(f, r) = [k \in DOMAIN kids |-> NodeRec(f, kids[k], r.id, k - 1, r.page)]
  BY DEF KidRecs
<1> HIDE DEF kids
<1>5. \A k \in DOMAIN kids : NodeRec(f, kids[k], r.id, k - 1, r.page) \in NodeRecs
  <2>1. ASSUME NEW k \in DOMAIN kids PROVE k - 1 \in Nat /\ kids[k] \in Ids
    BY <1>3
  <2>2. QED
    BY <1>1, <2>1, NodeRecTyped
<1>6. KidRecs(f, r) \in Seq(NodeRecs)
  BY <1>2, <1>4, <1>5
<1>7. QED
  BY <1>3, <1>4, <1>6 DEF kids

LEMMA VisitTyped ==
    ASSUME NEW f \in Files, NEW w \in WalkStates
    PROVE  Visit(f, w) \in WalkStates
<1>1. w.out \in Seq(NodeRecs) /\ w.calls \in Seq(NodeRecs)
  BY DEF WalkStates
<1>2. CASE w.calls = <<>>
  BY <1>2 DEF Visit
<1>3. CASE w.calls # <<>>
  <2>1. Head(w.calls) \in NodeRecs /\ Tail(w.calls) \in Seq(NodeRecs)
    BY <1>1, <1>3
  <2>2. KidRecs(f, Head(w.calls)) \in Seq(NodeRecs)
    BY <2>1, KidRecsTyped
  <2>3. /\ Append(w.out, Head(w.calls)) \in Seq(NodeRecs)
        /\ KidRecs(f, Head(w.calls)) \o Tail(w.calls) \in Seq(NodeRecs)
    BY <1>1, <2>1, <2>2
  <2>4. QED
    BY <1>3, <2>3 DEF Visit, WalkStates
<1>4. QED
  BY <1>2, <1>3

LEMMA StartTyped ==
    ASSUME NEW f \in Files
    PROVE  WalkStart(f) \in WalkStates
<1>1. NodeRec(f, Root, None, 0, None) \in NodeRecs
  BY NodeRecTyped DEF Ids
<1>2. QED
  BY <1>1 DEF WalkStart, WalkStates

LEMMA WalkRounds ==
    ASSUME NEW f \in Files
    PROVE  \E w \in [0..N -> WalkStates] :
              /\ w[0] = WalkStart(f)
              /\ \A k \in 1..N : w[k] = Visit(f, w[k - 1])
              /\ Walk(f) = w[N].out
<1> DEFINE T == WalkStates
           start == WalkStart(f)
           step == [w \in T |-> Visit(f, w)]
           Eq(w) == w = [k \in 0..N |->
                           IF k = 0 THEN [out |-> <<>>, calls |-> <<NodeRec(f, Root, None, 0, None)>>]
                           ELSE Visit(f, w[k - 1])]
<1>1. N \in Nat /\ start \in T
  BY FiniteIds, StartTyped
<1>2. step \in [T -> T]
  BY VisitTyped
<1>3. PICK h \in [0..N -> T] : Rounds(h, N, start, step)
  <2> HIDE DEF T, step, start
  <2>1. QED
    BY <1>1, <1>2, RoundsExist
<1>4. ASSUME NEW k \in 1..N PROVE h[k] = Visit(f, h[k - 1])
  <2>1. k - 1 \in 0..N
    BY <1>1
  <2>2. h[k - 1] \in T
    BY <2>1, <1>3
  <2>3. step[h[k - 1]] = Visit(f, h[k - 1])
    BY <2>2
  <2>4. QED
    BY <2>3, <1>3 DEF Rounds
<1>5. Eq([k \in 0..N |-> h[k]])
  <2> HIDE DEF step, T
  <2>1. \A k \in 0..N : k # 0 => k \in 1..N /\ k - 1 \in 0..N
    BY <1>1
  <2>2. h[0] = start
    BY <1>3 DEF Rounds
  <2>3. ASSUME NEW k \in 0..N
        PROVE  h[k] = IF k = 0 THEN start ELSE Visit(f, h[k - 1])
    BY <1>4, <2>1, <2>2
  <2>4. QED
    BY <2>1, <2>3 DEF WalkStart
<1>6. PICK w : Eq(w) /\ Walk(f) = w[N].out
  BY <1>5, Zenon DEF Walk, N
<1>7. w[0] = WalkStart(f) /\ \A k \in 1..N : w[k] = Visit(f, w[k - 1])
  <2>1. 0 \in 0..N /\ \A k \in 1..N : k \in 0..N /\ k # 0
    BY <1>1
  <2>2. QED
    BY <1>6, <2>1 DEF WalkStart
<1>8. w \in [0..N -> T]
  <2> DEFINE U == {k \in 0..N : w[k] \in T}
  <2>1. 0 \in U
    BY <1>1, <1>7
  <2>2. ASSUME NEW k \in 0..N, k \in U, k < N PROVE k + 1 \in U
    <3>1. k + 1 \in 1..N /\ k + 1 \in 0..N /\ (k + 1) - 1 = k
      BY <1>1, <2>2
    <3>2. w[k + 1] = Visit(f, w[k]) /\ w[k] \in T
      BY <3>1, <1>7, <2>2
    <3>3. w[k + 1] \in T
      BY <3>2, VisitTyped
    <3>4. QED
      BY <3>1, <3>3
  <2>3. 0..N \subseteq U
    <3> HIDE DEF U
    <3>1. QED
      BY <1>1, <2>1, <2>2, AllUpTo
  <2>4. QED
    BY <1>6, <2>3
<1>9. QED
  BY <1>6, <1>7, <1>8

\* A record r says where its node lies, given the record p of the parent.
UnderParent(f, r, p) ==
    /\ r.parent = p.id
    /\ r.index + 1 \in DOMAIN f.kids[p.id] /\ f.kids[p.id][r.index + 1] = r.id
    /\ r.page = PageOf(f, r.id, p.page)

OfRoot(r) == r.id = Root /\ r.parent = None /\ r.page = Root

Records(w) == ToSet(w.out) \cup ToSet(w.calls)

WalkInv(f, w) ==
    /\ Distinct(w.out) /\ Distinct(w.calls) /\ IdsOf(w.out) \cap IdsOf(w.calls) = {}
    /\ \A r \in Records(w) :
          /\ r.id \in Live(f) /\ r.look = Look(f, r.id)
          /\ OfRoot(r) \/ \E p \in ToSet(w.out) : UnderParent(f, r, p)
    /\ \E r \in Records(w) : r.id = Root
    /\ \A p \in ToSet(w.out) : \A c \in KidSet(f, p.id) : \E r \in Records(w) : r.id = c

LEMMA RootNode ==
    ASSUME NEW f
    PROVE  PageOf(f, Root, None) = Root /\ Look(f, Root) = Bare("DOCUMENT")
BY DEF PageOf, Look

LEMMA StartInv ==
    ASSUME NEW f \in Files
    PROVE  WalkInv(f, WalkStart(f))
<1> DEFINE root == NodeRec(f, Root, None, 0, None)
           w == WalkStart(f)
<1>1. root.id = Root /\ root.look = Look(f, Root) /\ OfRoot(root)
  BY RootNode DEF NodeRec, OfRoot
<1>2. w.out = <<>> /\ w.calls = <<root>>
  BY DEF WalkStart
<1> HIDE DEF root, w
<1>3. ToSet(w.out) = {} /\ ToSet(w.calls) = {root} /\ Distinct(w.out) /\ Distinct(w.calls)
  BY <1>2 DEF ToSet, Distinct
<1>4. Root \in Live(f)
  BY LiveNodes
<1>5. QED
  BY <1>1, <1>3, <1>4 DEF WalkInv, Records, IdsOf, w

LEMMA VisitInv ==
    ASSUME NEW f \in Files, TreeShaped(f), NEW w \in WalkStates, WalkInv(f, w), w.calls # <<>>
    PROVE  WalkInv(f, Visit(f, w)) /\ Len(Visit(f, w).out) = Len(w.out) + 1
<1> DEFINE head == Head(w.calls)
           rest == Tail(w.calls)
           kids == KidRecs(f, head)
           v == Visit(f, w)
<1>1. w.out \in Seq(NodeRecs) /\ w.calls \in Seq(NodeRecs) /\ Distinct(w.out) /\ Distinct(w.calls)
  BY DEF WalkStates, WalkInv
<1>2. /\ head \in NodeRecs /\ rest \in Seq(NodeRecs)
      /\ Distinct(rest) /\ ToSet(w.calls) = {head} \cup ToSet(rest)
      /\ head.id \notin IdsOf(rest)
  BY <1>1, DistinctTail
<1>3. v.out = Append(w.out, head) /\ v.calls = kids \o rest
  BY DEF Visit
<1>4. /\ kids \in Seq(NodeRecs)
      /\ DOMAIN kids = DOMAIN f.kids[head.id]
      /\ \A k \in DOMAIN f.kids[head.id] :
            /\ k \in Nat \ {0} /\ f.kids[head.id][k] \in KidSet(f, head.id)
            /\ f.kids[head.id][k] \in Ids
            /\ kids[k] = NodeRec(f, f.kids[head.id][k], head.id, k - 1, head.page)
  BY <1>2, KidRecsTyped
<1> HIDE DEF head, rest, kids, v
<1>5. head \in Records(w) /\ head.id \notin IdsOf(w.out) /\ head.id \in Live(f) /\ head.id \in Ids
  <2>1. head \in ToSet(w.calls)
    BY <1>2
  <2>2. head \in Records(w) /\ head.id \in IdsOf(w.calls)
    BY <2>1 DEF Records, IdsOf
  <2>3. head.id \notin IdsOf(w.out)
    BY <2>2 DEF WalkInv
  <2>4. head.id \in Live(f)
    BY <2>2 DEF WalkInv
  <2>5. QED
    BY <2>2, <2>3, <2>4, LiveNodes
\* What the kids' records say.
<1>6. ASSUME NEW k \in DOMAIN kids
      PROVE  /\ kids[k].id = f.kids[head.id][k] /\ kids[k].id \in KidSet(f, head.id)
             /\ kids[k].look = Look(f, kids[k].id) /\ UnderParent(f, kids[k], head)
  <2>1. kids[k] = NodeRec(f, f.kids[head.id][k], head.id, k - 1, head.page)
    BY <1>4
  <2>2. k \in Nat \ {0} /\ k \in DOMAIN f.kids[head.id] /\ (k - 1) + 1 = k
    BY <1>4
  <2>3. QED
    BY <1>4, <2>1, <2>2 DEF NodeRec, UnderParent
<1>7. IdsOf(kids) = KidSet(f, head.id)
  <2>1. ASSUME NEW r \in ToSet(kids) PROVE r.id \in KidSet(f, head.id)
    BY <1>6 DEF ToSet
  <2>2. ASSUME NEW c \in KidSet(f, head.id) PROVE \E r \in ToSet(kids) : r.id = c
    <3>1. PICK k \in DOMAIN f.kids[head.id] : c = f.kids[head.id][k]
      BY DEF KidSet, ToSet
    <3>2. k \in DOMAIN kids /\ kids[k].id = c
      BY <1>4, <1>6, <3>1
    <3>3. QED
      BY <3>2 DEF ToSet
  <2>3. QED
    BY <2>1, <2>2 DEF IdsOf
<1>8. Distinct(kids)
  <2>1. IsInjective(f.kids[head.id])
    BY <1>5 DEF TreeShaped, Forest
  <2>2. QED
    BY <1>4, <1>6, <2>1 DEF Distinct, IsInjective
\* No kid has been met: it has one parent, which is only now visited.
<1>9. ASSUME NEW r \in Records(w), r.id \in KidSet(f, head.id) PROVE FALSE
  <2>1. r.id # Root
    BY <1>5, <1>9, KidsLive
  <2>2. PICK p \in ToSet(w.out) : UnderParent(f, r, p)
    BY <2>1 DEF WalkInv, OfRoot
  <2>3. p.id \in IdsOf(w.out) /\ p.id \in Ids
    <3>1. p \in NodeRecs
      BY <1>1, <2>2 DEF ToSet
    <3>2. QED
      BY <2>2, <3>1 DEF IdsOf, NodeRecs
  <2>4. r.id \in KidSet(f, p.id)
    BY <2>2 DEF UnderParent, KidSet, ToSet
  <2>5. p.id = head.id
    BY <1>5, <1>9, <2>3, <2>4 DEF TreeShaped, Forest
  <2>6. QED
    BY <1>5, <2>3, <2>5
<1>10. IdsOf(kids) \cap IdsOf(rest) = {}
  BY <1>2, <1>7, <1>9 DEF IdsOf, Records
<1>11. Distinct(v.calls) /\ ToSet(v.calls) = ToSet(kids) \cup ToSet(rest)
  BY <1>2, <1>3, <1>4, <1>8, <1>10, DistinctConcat
<1>12. Distinct(v.out) /\ ToSet(v.out) = ToSet(w.out) \cup {head} /\ Len(v.out) = Len(w.out) + 1
  <2>1. Distinct(v.out) /\ ToSet(v.out) = ToSet(w.out) \cup {head}
    BY <1>1, <1>2, <1>3, <1>5, DistinctAppend
  <2>2. Len(v.out) = Len(w.out) + 1
    BY <1>1, <1>3
  <2>3. QED
    BY <2>1, <2>2
<1>13. Records(v) = Records(w) \cup ToSet(kids)
  BY <1>2, <1>11, <1>12 DEF Records
<1>14. IdsOf(v.out) \cap IdsOf(v.calls) = {}
  <2>1. IdsOf(w.out) \cap IdsOf(rest) = {}
    <3>1. IdsOf(rest) \subseteq IdsOf(w.calls)
      BY <1>2 DEF IdsOf
    <3>2. QED
      BY <3>1 DEF WalkInv
  <2>2. IdsOf(w.out) \cap IdsOf(kids) = {}
    BY <1>7, <1>9 DEF IdsOf, Records
  <2>3. head.id \notin IdsOf(kids)
    BY <1>5, <1>7, <1>9
  <2>4. QED
    BY <1>2, <1>11, <1>12, <2>1, <2>2, <2>3 DEF IdsOf
<1>15. ASSUME NEW r \in Records(v)
       PROVE  /\ r.id \in Live(f) /\ r.look = Look(f, r.id)
              /\ OfRoot(r) \/ \E p \in ToSet(v.out) : UnderParent(f, r, p)
  <2>1. CASE r \in Records(w)
    BY <2>1, <1>12 DEF WalkInv
  <2>2. CASE r \in ToSet(kids)
    <3>1. PICK k \in DOMAIN kids : r = kids[k]
      BY <2>2 DEF ToSet
    <3>2. r.id \in KidSet(f, head.id) /\ r.look = Look(f, r.id) /\ UnderParent(f, r, head)
      BY <1>6, <3>1
    <3>3. r.id \in Live(f)
      BY <1>5, <3>2, KidsLive
    <3>4. QED
      BY <1>12, <3>2, <3>3
  <2>3. QED
    BY <1>13, <2>1, <2>2
<1>16. \E r \in Records(v) : r.id = Root
  BY <1>13 DEF WalkInv
<1>17. ASSUME NEW p \in ToSet(v.out), NEW c \in KidSet(f, p.id)
       PROVE  \E r \in Records(v) : r.id = c
  <2>1. CASE p \in ToSet(w.out)
    BY <2>1, <1>13 DEF WalkInv
  <2>2. CASE p = head
    <3>1. c \in IdsOf(kids)
      BY <2>2, <1>7
    <3>2. QED
      BY <3>1, <1>13 DEF IdsOf
  <2>3. QED
    BY <1>12, <2>1, <2>2
<1>18. QED
  BY <1>11, <1>12, <1>14, <1>15, <1>16, <1>17 DEF WalkInv, v

\* What a pull upserts: a record for every live node and for no other, which
\* says where the node is.
LEMMA Walked ==
    ASSUME NEW f \in Files, TreeShaped(f)
    PROVE  /\ Walk(f) \in Seq(NodeRecs) /\ Distinct(Walk(f)) /\ IdsOf(Walk(f)) = Live(f)
           /\ \A r \in ToSet(Walk(f)) :
                 /\ r.look = Look(f, r.id)
                 /\ OfRoot(r) \/ \E p \in ToSet(Walk(f)) : UnderParent(f, r, p)
<1>1. PICK w \in [0..N -> WalkStates] :
              /\ w[0] = WalkStart(f)
              /\ \A k \in 1..N : w[k] = Visit(f, w[k - 1])
              /\ Walk(f) = w[N].out
  BY WalkRounds
<1>2. N \in Nat
  BY FiniteIds
<1> DEFINE U == {k \in 0..N : WalkInv(f, w[k]) /\ (w[k].calls = <<>> \/ Len(w[k].out) = k)}
<1>3. 0 \in U
  <2>1. 0 \in 0..N /\ WalkInv(f, w[0])
    BY <1>1, <1>2, StartInv
  <2>2. Len(w[0].out) = 0
    BY <1>1 DEF WalkStart
  <2>3. QED
    BY <2>1, <2>2
<1>4. ASSUME NEW k \in 0..N, k \in U, k < N PROVE k + 1 \in U
  <2>1. k + 1 \in 1..N /\ k + 1 \in 0..N /\ (k + 1) - 1 = k
    BY <1>2, <1>4
  <2>2. w[k + 1] = Visit(f, w[k]) /\ w[k] \in WalkStates /\ WalkInv(f, w[k])
    BY <1>1, <1>4, <2>1
  <2>3. CASE w[k].calls = <<>>
    <3>1. w[k + 1] = w[k]
      BY <2>2, <2>3 DEF Visit
    <3>2. QED
      BY <2>1, <2>2, <2>3, <3>1
  <2>4. CASE w[k].calls # <<>>
    <3>1. WalkInv(f, w[k + 1]) /\ Len(w[k + 1].out) = Len(w[k].out) + 1
      BY <2>2, <2>4, VisitInv
    <3>2. Len(w[k].out) = k
      BY <1>4, <2>4
    <3>3. QED
      BY <2>1, <3>1, <3>2
  <2>5. QED
    BY <2>3, <2>4
<1>5. N \in U
  <2> HIDE DEF U
  <2>1. 0..N \subseteq U /\ N \in 0..N
    BY <1>2, <1>3, <1>4, AllUpTo
  <2>2. QED
    BY <2>1
<1> DEFINE last == w[N]
<1>6. /\ last \in WalkStates /\ WalkInv(f, last)
      /\ last.calls = <<>> \/ Len(last.out) = N
  BY <1>1, <1>2, <1>5
<1> HIDE DEF U, last
<1>7. last.out \in Seq(NodeRecs) /\ last.calls \in Seq(NodeRecs)
  BY <1>6 DEF WalkStates
<1>8. IdsOf(last.out) \subseteq Live(f) /\ IdsOf(last.calls) \subseteq Live(f) /\ Live(f) \subseteq Ids
  BY <1>6, LiveNodes DEF WalkInv, Records, IdsOf
\* Were there calls to make after a record for every id, there would be one
\* more id.
<1>9. ASSUME last.calls # <<>> PROVE FALSE
  <2>1. Head(last.calls).id \in IdsOf(last.calls)
    BY <1>7, <1>9 DEF IdsOf, ToSet
  <2>2. Cardinality(IdsOf(last.out)) = N
    BY <1>6, <1>7, <1>9, DistinctCount DEF WalkInv
  <2>3. IdsOf(last.out) \in SUBSET Ids
    BY <1>8
  <2>4. IdsOf(last.out) = Ids
    BY <2>2, <2>3, FiniteIds, FS_Subset DEF N
  <2>5. QED
    BY <1>6, <1>8, <2>1, <2>4 DEF WalkInv
<1>10. Records(last) = ToSet(last.out)
  BY <1>9 DEF Records, ToSet
<1>11. Live(f) \subseteq IdsOf(last.out)
  <2>1. IdsOf(last.out) \subseteq Ids /\ Root \in IdsOf(last.out)
    BY <1>6, <1>8, <1>10 DEF WalkInv, IdsOf
  <2>2. ASSUME NEW m \in IdsOf(last.out) PROVE KidSet(f, m) \subseteq IdsOf(last.out)
    BY <1>6, <1>10 DEF WalkInv, IdsOf
  <2>3. QED
    BY <2>1, <2>2, LiveNodes
<1>12. Walk(f) = last.out
  BY <1>1 DEF last
<1>13. QED
  BY <1>6, <1>7, <1>8, <1>10, <1>11, <1>12 DEF WalkInv

-----------------------------------------------------------------------------
(* The store: every index holds what its records contribute, no less and no *)
(* more                                                                     *)

Entries == UNION {Contributes(r)[x] : r \in NodeRecs, x \in Indexes}

Keyed(s) == \A n \in Ids : s.nodes[n] # None => s.nodes[n].id = n

IndexExact(s) == \A x \in Indexes : s.index[x] = UNION {Old(s, n)[x] : n \in Ids}

Stores == {s \in [nodes: [Ids -> NodeRecs \cup {None}], index: [Indexes -> SUBSET Entries]] :
              Keyed(s) /\ IndexExact(s)}

LEMMA Contributed ==
    ASSUME NEW r
    PROVE  /\ Contributes(r)["children"] = ChildEdge(r)
           /\ Contributes(r)["by_type"] = Edges(r, {r.look.type})
           /\ Contributes(r)["instances_of"] = Edges(r, {r.look.component} \ {None})
           /\ Contributes(r)["styled_by"] = Edges(r, {u[2] : u \in r.look.styles})
           /\ Contributes(r)["bound_to"] = Edges(r, {b[2] : b \in r.look.bound})
           /\ \A x \in Indexes : \A e \in Contributes(r)[x] : e.id = r.id
<1>1. /\ Contributes(r)["children"] = ChildEdge(r)
      /\ Contributes(r)["by_type"] = Edges(r, {r.look.type})
      /\ Contributes(r)["instances_of"] = Edges(r, {r.look.component} \ {None})
      /\ Contributes(r)["styled_by"] = Edges(r, {u[2] : u \in r.look.styles})
      /\ Contributes(r)["bound_to"] = Edges(r, {b[2] : b \in r.look.bound})
  BY DEF Contributes
<1>2. \A e \in ChildEdge(r) : e.id = r.id
  BY DEF ChildEdge
<1>3. ASSUME NEW S, NEW e \in Edges(r, S) PROVE e.id = r.id
  BY DEF Edges
<1>4. ASSUME NEW x \in Indexes, NEW e \in Contributes(r)[x] PROVE e.id = r.id
  <2>1. CASE x = "children"
    BY <1>1, <1>2, <2>1
  <2>2. CASE x = "by_type"
    BY <1>1, <1>3, <2>2
  <2>3. CASE x = "instances_of"
    BY <1>1, <1>3, <2>3
  <2>4. CASE x = "styled_by"
    BY <1>1, <1>3, <2>4
  <2>5. CASE x = "bound_to"
    BY <1>1, <1>3, <2>5
  <2>6. QED
    BY <2>1, <2>2, <2>3, <2>4, <2>5 DEF Indexes
<1>5. QED
  BY <1>1, <1>4

\* What the record of a node contributes is told by its id from what others do.
LEMMA OldEntries ==
    ASSUME NEW s \in Stores, NEW n \in Ids, NEW x \in Indexes
    PROVE  /\ Old(s, n)[x] \subseteq Entries /\ \A e \in Old(s, n)[x] : e.id = n
           /\ s.nodes[n] = None => Old(s, n)[x] = {}
           /\ s.nodes[n] # None => s.nodes[n] \in NodeRecs /\ Old(s, n)[x] = Contributes(s.nodes[n])[x]
<1>1. s.nodes[n] \in NodeRecs \cup {None} /\ (s.nodes[n] # None => s.nodes[n].id = n)
  BY DEF Stores, Keyed
<1>2. CASE s.nodes[n] = None
  BY <1>2 DEF Old, NoEdges
<1>3. CASE s.nodes[n] # None
  <2>1. Old(s, n) = Contributes(s.nodes[n]) /\ s.nodes[n] \in NodeRecs
    BY <1>1, <1>3 DEF Old
  <2>2. Contributes(s.nodes[n])[x] \subseteq Entries
    BY <2>1 DEF Entries
  <2>3. \A e \in Contributes(s.nodes[n])[x] : e.id = n
    BY <1>1, <1>3, Contributed
  <2>4. QED
    BY <1>3, <2>1, <2>2, <2>3
<1>4. QED
  BY <1>2, <1>3

LEMMA Retracted ==
    ASSUME NEW s \in Stores, NEW ids \in SUBSET Ids
    PROVE  /\ Retract(s, ids) \in Stores
           /\ \A n \in Ids : Retract(s, ids).nodes[n] = IF n \in ids THEN None ELSE s.nodes[n]
<1> DEFINE t == Retract(s, ids)
<1>1. /\ s.nodes \in [Ids -> NodeRecs \cup {None}] /\ s.index \in [Indexes -> SUBSET Entries]
      /\ Keyed(s) /\ IndexExact(s)
  BY DEF Stores
<1>2. /\ t.nodes = [n \in Ids |-> IF n \in ids THEN None ELSE s.nodes[n]]
      /\ t.index = [x \in Indexes |-> s.index[x] \ UNION {Old(s, n)[x] : n \in ids}]
      /\ t = [nodes |-> t.nodes, index |-> t.index]
  BY DEF Retract
<1> HIDE DEF t
<1>3. \A n \in Ids : t.nodes[n] = IF n \in ids THEN None ELSE s.nodes[n]
  BY <1>2
<1>4. t.nodes \in [Ids -> NodeRecs \cup {None}]
  BY <1>1, <1>2
<1>5. t.index \in [Indexes -> SUBSET Entries]
  <2>1. \A x \in Indexes : s.index[x] \subseteq Entries
    BY <1>1
  <2>2. QED
    BY <1>2, <2>1
<1>6. Keyed(t)
  BY <1>1, <1>3 DEF Keyed
<1>7. ASSUME NEW n \in Ids, NEW x \in Indexes
      PROVE  Old(t, n)[x] = IF n \in ids THEN {} ELSE Old(s, n)[x]
  <2>1. CASE n \in ids
    BY <1>3, <2>1 DEF Old, NoEdges
  <2>2. CASE n \notin ids
    BY <1>3, <2>2 DEF Old
  <2>3. QED
    BY <2>1, <2>2
<1>8. ASSUME NEW x \in Indexes
      PROVE  t.index[x] = UNION {Old(t, n)[x] : n \in Ids}
  <2>1. s.index[x] = UNION {Old(s, n)[x] : n \in Ids}
    BY <1>1 DEF IndexExact
  <2>2. t.index[x] = s.index[x] \ UNION {Old(s, n)[x] : n \in ids}
    BY <1>2
  <2>3. ASSUME NEW e \in t.index[x] PROVE \E n \in Ids : e \in Old(t, n)[x]
    <3>1. PICK n \in Ids : e \in Old(s, n)[x]
      BY <2>1, <2>2, <2>3
    <3>2. n \notin ids
      BY <2>2, <2>3, <3>1
    <3>3. QED
      BY <1>7, <3>1, <3>2
  <2>4. ASSUME NEW n \in Ids, NEW e \in Old(t, n)[x] PROVE e \in t.index[x]
    <3>1. n \notin ids /\ e \in Old(s, n)[x] /\ e.id = n
      BY <1>7, <2>4, OldEntries
    <3>2. \A m \in ids : e \notin Old(s, m)[x]
      BY <3>1, OldEntries
    <3>3. QED
      BY <2>1, <2>2, <3>1, <3>2
  <2>5. QED
    BY <2>3, <2>4
<1>9. t \in Stores
  BY <1>2, <1>4, <1>5, <1>6, <1>8 DEF Stores, IndexExact
<1>10. QED
  BY <1>3, <1>9 DEF t

LEMMA Upserted ==
    ASSUME NEW s \in Stores, NEW r \in NodeRecs
    PROVE  /\ Upsert(s, r) \in Stores
           /\ \A n \in Ids : Upsert(s, r).nodes[n] = IF n = r.id THEN r ELSE s.nodes[n]
<1> DEFINE u == Retract(s, {r.id})
           t == Upsert(s, r)
<1>1. r.id \in Ids /\ r # None
  BY TreeAssumption DEF NodeRecs
<1>2. u \in Stores /\ \A n \in Ids : u.nodes[n] = IF n = r.id THEN None ELSE s.nodes[n]
  BY <1>1, Retracted
<1>3. t = Add(u, r)
  BY DEF Upsert
<1> HIDE DEF t, u
<1>4. /\ t.nodes = [u.nodes EXCEPT ![r.id] = r]
      /\ t.index = [x \in Indexes |-> u.index[x] \cup Contributes(r)[x]]
      /\ t = [nodes |-> t.nodes, index |-> t.index]
  BY <1>3 DEF Add
<1>5. /\ u.nodes \in [Ids -> NodeRecs \cup {None}] /\ u.index \in [Indexes -> SUBSET Entries]
      /\ Keyed(u) /\ IndexExact(u)
  BY <1>2 DEF Stores
<1>6. \A n \in Ids : t.nodes[n] = IF n = r.id THEN r ELSE u.nodes[n]
  BY <1>4, <1>5
<1>7. t.nodes \in [Ids -> NodeRecs \cup {None}]
  BY <1>4, <1>5
<1>8. t.index \in [Indexes -> SUBSET Entries]
  <2>1. ASSUME NEW x \in Indexes PROVE u.index[x] \cup Contributes(r)[x] \subseteq Entries
    <3>1. u.index[x] \subseteq Entries
      BY <1>5
    <3>2. Contributes(r)[x] \subseteq Entries
      BY DEF Entries
    <3>3. QED
      BY <3>1, <3>2
  <2>2. QED
    BY <1>4, <2>1
<1>9. Keyed(t)
  BY <1>5, <1>6 DEF Keyed
<1>10. ASSUME NEW n \in Ids, NEW x \in Indexes
       PROVE  Old(t, n)[x] = IF n = r.id THEN Contributes(r)[x] ELSE Old(u, n)[x]
  <2>1. CASE n = r.id
    <3>1. t.nodes[n] = r
      BY <1>6, <2>1
    <3>2. QED
      BY <1>1, <2>1, <3>1 DEF Old
  <2>2. CASE n # r.id
    BY <1>6, <2>2 DEF Old
  <2>3. QED
    BY <2>1, <2>2
<1>11. ASSUME NEW x \in Indexes
       PROVE  t.index[x] = UNION {Old(t, n)[x] : n \in Ids}
  <2>1. u.index[x] = UNION {Old(u, n)[x] : n \in Ids}
    BY <1>5 DEF IndexExact
  <2>2. t.index[x] = u.index[x] \cup Contributes(r)[x]
    BY <1>4
  <2>3. Old(u, r.id)[x] = {}
    BY <1>1, <1>2, OldEntries
  <2>4. ASSUME NEW e \in t.index[x] PROVE \E n \in Ids : e \in Old(t, n)[x]
    BY <1>1, <1>10, <2>1, <2>2, <2>3, <2>4
  <2>5. ASSUME NEW n \in Ids, NEW e \in Old(t, n)[x] PROVE e \in t.index[x]
    BY <1>10, <2>1, <2>2, <2>5
  <2>6. QED
    BY <2>4, <2>5
<1>12. t \in Stores
  BY <1>4, <1>7, <1>8, <1>9, <1>11 DEF Stores, IndexExact
<1>13. QED
  BY <1>2, <1>6, <1>12 DEF t

\* The loop of sync over the records, prefix by prefix.
LEMMA UpsertRounds ==
    ASSUME NEW s \in Stores, NEW recs \in Seq(NodeRecs)
    PROVE  \E p : /\ p[0] = s
                  /\ \A k \in 1..Len(recs) : p[k] = Upsert(p[k - 1], recs[k])
                  /\ \A k \in 0..Len(recs) : p[k] \in Stores
                  /\ FoldLeft(Upsert, s, recs) = p[Len(recs)]
<1> DEFINE n == Len(recs)
           T == Stores
           step == [k \in 1..n |-> [t \in T |-> Upsert(t, recs[k])]]
           Eq(h) == h = [d \in SUBSET DOMAIN recs |->
                           IF d = {} THEN s
                           ELSE Upsert(h[d \ {Max(d)}], recs[Max(d)])]
<1>1. n \in Nat /\ DOMAIN recs = 1..n /\ \A k \in 1..n : recs[k] \in NodeRecs
  OBVIOUS
<1>2. step \in [1..n -> [T -> T]]
  <2>1. ASSUME NEW k \in 1..n, NEW t \in T PROVE Upsert(t, recs[k]) \in T
    BY <1>1, Upserted
  <2>2. QED
    BY <2>1
<1>3. PICK h \in [SUBSET (1..n) -> T] : Folds(h, n, s, step)
  <2> HIDE DEF n, T, step
  <2>1. s \in T
    BY DEF T
  <2>2. QED
    BY <1>1, <1>2, <2>1, FoldExists
<1>4. ASSUME NEW d \in SUBSET (1..n), d # {}
      PROVE  /\ Max(d) \in 1..n /\ d \ {Max(d)} \in SUBSET (1..n)
             /\ \A t \in T : step[Max(d)][t] = Upsert(t, recs[Max(d)])
  BY <1>1, <1>4, Greatest
<1>5. Eq(h)
  <2>1. ASSUME NEW d \in SUBSET (1..n), d # {}
        PROVE  h[d] = Upsert(h[d \ {Max(d)}], recs[Max(d)])
    <3>1. h[d] = step[Max(d)][h[d \ {Max(d)}]]
      BY <1>3, <2>1 DEF Folds
    <3>2. h[d \ {Max(d)}] \in T
      BY <1>3, <1>4, <2>1
    <3>3. QED
      BY <3>1, <3>2, <1>4, <2>1
  <2>2. h[{}] = s
    BY <1>3 DEF Folds
  <2>3. QED
    BY <2>1, <2>2, <1>1, <1>3
<1>6. PICK f : Eq(f) /\ FoldLeft(Upsert, s, recs) = f[DOMAIN recs]
  BY <1>5, Zenon DEF FoldLeft, MapThenFoldSet
<1> DEFINE p == [k \in 0..n |-> f[1..k]]
<1>7. p[0] = s
  BY <1>1, <1>6
<1>8. ASSUME NEW k \in 1..n
      PROVE  p[k] = Upsert(p[k - 1], recs[k])
  <2>1. 1..k \in SUBSET DOMAIN recs /\ 1..k # {} /\ k \in 0..n /\ k - 1 \in 0..n
    <3> HIDE DEF n
    <3>1. 1..k \subseteq 1..n /\ k \in 1..k /\ k \in 0..n /\ k - 1 \in 0..n
      BY <1>1
    <3>2. QED
      BY <1>1, <3>1
  <2>2. Max(1..k) = k /\ (1..k) \ {Max(1..k)} = 1..(k - 1)
    BY <1>1, GreatestOfPrefix
  <2>3. f[1..k] = Upsert(f[(1..k) \ {Max(1..k)}], recs[Max(1..k)])
    BY <1>6, <2>1
  <2>4. QED
    BY <2>1, <2>2, <2>3
<1>9. \A k \in 0..n : p[k] \in T
  <2> DEFINE U == {k \in 0..n : p[k] \in T}
  <2> HIDE DEF p, n
  <2>1. 0 \in U
    BY <1>1, <1>7
  <2>2. ASSUME NEW k \in 0..n, k \in U, k < n
        PROVE  k + 1 \in U
    <3>1. k + 1 \in 1..n /\ k + 1 \in 0..n /\ (k + 1) - 1 = k
      BY <1>1, <2>2
    <3>2. p[k + 1] = Upsert(p[k], recs[k + 1])
      BY <3>1, <1>8
    <3>3. p[k] \in Stores /\ recs[k + 1] \in NodeRecs
      BY <3>1, <1>1, <2>2
    <3>4. p[k + 1] \in Stores
      BY <3>2, <3>3, Upserted
    <3>5. QED
      BY <3>1, <3>4
  <2>3. 0..n \subseteq U
    <3> HIDE DEF U
    <3>1. QED
      BY <1>1, <2>1, <2>2, AllUpTo
  <2>4. QED
    BY <2>3
<1>10. FoldLeft(Upsert, s, recs) = p[n]
  BY <1>1, <1>6
<1>11. QED
  BY <1>7, <1>8, <1>9, <1>10

\* After sync the table has the records it was given, whatever it had before.
LEMMA SyncedTables ==
    ASSUME NEW s \in Stores, NEW recs \in Seq(NodeRecs), Distinct(recs)
    PROVE  /\ SyncTree(s, recs) \in Stores
           /\ \A r \in ToSet(recs) : SyncTree(s, recs).nodes[r.id] = r
           /\ \A n \in Ids \ IdsOf(recs) : SyncTree(s, recs).nodes[n] = None
<1>1. PICK p : /\ p[0] = s
               /\ \A k \in 1..Len(recs) : p[k] = Upsert(p[k - 1], recs[k])
               /\ \A k \in 0..Len(recs) : p[k] \in Stores
               /\ FoldLeft(Upsert, s, recs) = p[Len(recs)]
  BY UpsertRounds
<1> DEFINE n == Len(recs)
<1>2. n \in Nat /\ DOMAIN recs = 1..n /\ \A k \in 1..n : recs[k] \in NodeRecs /\ recs[k].id \in Ids
  <2>1. \A k \in 1..n : recs[k] \in NodeRecs
    OBVIOUS
  <2>2. \A r \in NodeRecs : r.id \in Ids
    BY DEF NodeRecs
  <2>3. QED
    BY <2>1, <2>2
<1> DEFINE U == {k \in 0..n :
                   /\ \A i \in 1..k : p[k].nodes[recs[i].id] = recs[i]
                   /\ \A m \in Ids : (\A i \in 1..k : recs[i].id # m) => p[k].nodes[m] = s.nodes[m]}
<1> HIDE DEF n
<1>3. 0 \in U
  BY <1>1, <1>2
<1>4. ASSUME NEW k \in 0..n, k \in U, k < n PROVE k + 1 \in U
  <2>1. k + 1 \in 1..n /\ k + 1 \in 0..n /\ (k + 1) - 1 = k /\ \A i \in 1..(k + 1) : i \in 1..k \/ i = k + 1
    BY <1>2, <1>4
  <2>2. p[k + 1] = Upsert(p[k], recs[k + 1]) /\ p[k] \in Stores /\ recs[k + 1] \in NodeRecs
    BY <1>1, <1>2, <1>4, <2>1 DEF n
  <2>3. \A m \in Ids : p[k + 1].nodes[m] = IF m = recs[k + 1].id THEN recs[k + 1] ELSE p[k].nodes[m]
    <3>1. \A m \in Ids : Upsert(p[k], recs[k + 1]).nodes[m] =
                          IF m = recs[k + 1].id THEN recs[k + 1] ELSE p[k].nodes[m]
      BY <2>2, Upserted
    <3>2. QED
      BY <2>2, <3>1
  <2>4. ASSUME NEW i \in 1..(k + 1) PROVE p[k + 1].nodes[recs[i].id] = recs[i]
    <3>1. CASE i = k + 1
      BY <1>2, <2>1, <2>3, <3>1
    <3>2. CASE i \in 1..k
      <4>1. i \in 1..n /\ i # k + 1 /\ i \in DOMAIN recs /\ k + 1 \in DOMAIN recs
        BY <1>2, <2>1, <3>2
      <4>2. recs[i].id # recs[k + 1].id
        BY <4>1 DEF Distinct
      <4>3. p[k].nodes[recs[i].id] = recs[i]
        BY <1>4, <3>2
      <4>4. QED
        BY <1>2, <2>3, <4>1, <4>2, <4>3
    <3>3. QED
      BY <2>1, <3>1, <3>2
  <2>5. ASSUME NEW m \in Ids, \A i \in 1..(k + 1) : recs[i].id # m
        PROVE  p[k + 1].nodes[m] = s.nodes[m]
    <3>1. (\A i \in 1..k : i \in 1..(k + 1)) /\ k + 1 \in 1..(k + 1)
      BY <1>2, <1>4
    <3>2. p[k].nodes[m] = s.nodes[m] /\ recs[k + 1].id # m
      BY <1>4, <2>5, <3>1
    <3>3. QED
      BY <2>3, <3>2
  <2>6. QED
    BY <2>1, <2>4, <2>5
<1>5. n \in U
  <2> HIDE DEF U
  <2>1. 0..n \subseteq U
    BY <1>2, <1>3, <1>4, AllUpTo
  <2>2. n \in 0..n
    BY <1>2
  <2>3. QED
    BY <2>1, <2>2
<1> DEFINE t == p[n]
           prior == {m \in Ids : s.nodes[m] # None}
           live == {recs[k].id : k \in DOMAIN recs}
<1>6. /\ t \in Stores
      /\ \A i \in 1..n : t.nodes[recs[i].id] = recs[i]
      /\ \A m \in Ids : (\A i \in 1..n : recs[i].id # m) => t.nodes[m] = s.nodes[m]
  <2>1. n \in 0..n
    BY <1>2
  <2>2. QED
    BY <1>1, <1>5, <2>1 DEF n
<1>7. SyncTree(s, recs) = Retract(t, prior \ live)
  BY <1>1 DEF SyncTree, n
<1> HIDE DEF t, U
<1>8. /\ Retract(t, prior \ live) \in Stores
      /\ \A m \in Ids : Retract(t, prior \ live).nodes[m] = IF m \in prior \ live THEN None ELSE t.nodes[m]
  <2>1. prior \ live \in SUBSET Ids
    OBVIOUS
  <2>2. QED
    BY <1>6, <2>1, Retracted
<1>9. live = IdsOf(recs)
  BY DEF IdsOf, ToSet
<1>10. ASSUME NEW r \in ToSet(recs) PROVE SyncTree(s, recs).nodes[r.id] = r
  <2>1. PICK i \in 1..n : r = recs[i]
    BY <1>2 DEF ToSet
  <2>2. r.id \in Ids /\ r.id \in live /\ t.nodes[r.id] = r
    BY <1>2, <1>6, <2>1
  <2> HIDE DEF prior, live
  <2>3. QED
    BY <1>7, <1>8, <2>2
<1>11. ASSUME NEW m \in Ids \ IdsOf(recs) PROVE SyncTree(s, recs).nodes[m] = None
  <2>1. m \notin live /\ \A i \in 1..n : recs[i].id # m
    BY <1>2, <1>9
  <2>2. t.nodes[m] = s.nodes[m]
    BY <1>6, <2>1
  <2>3. QED
    BY <1>7, <1>8, <2>1, <2>2
<1>12. QED
  BY <1>7, <1>8, <1>10, <1>11

-----------------------------------------------------------------------------
(* The invariant: the tables are those of the file as last pulled, and the *)
(* edits since then have left a tree                                       *)

\* The table has a record for every live node and for no other, which says
\* what the node is and where it lies.
Mirrors(f, s) ==
    /\ {n \in Ids : s.nodes[n] # None} = Live(f)
    /\ \A n \in Live(f) :
          /\ s.nodes[n].look = Look(f, n)
          /\ OfRoot(s.nodes[n]) \/ \E p \in Live(f) : UnderParent(f, s.nodes[n], s.nodes[p])

IInv ==
    /\ file \in Files /\ TreeShaped(file)
    /\ synced \in Files \cup {None} /\ store \in Stores
    /\ synced = None => \A n \in Ids : store.nodes[n] = None
    /\ synced # None => TreeShaped(synced) /\ Mirrors(synced, store)

LEMMA PullMirrors ==
    ASSUME NEW f \in Files, TreeShaped(f), NEW s \in Stores
    PROVE  SyncTree(s, Walk(f)) \in Stores /\ Mirrors(f, SyncTree(s, Walk(f)))
<1> DEFINE recs == Walk(f)
           t == SyncTree(s, recs)
<1>1. /\ recs \in Seq(NodeRecs) /\ Distinct(recs) /\ IdsOf(recs) = Live(f)
      /\ \A r \in ToSet(recs) :
            /\ r.look = Look(f, r.id)
            /\ OfRoot(r) \/ \E p \in ToSet(recs) : UnderParent(f, r, p)
  BY Walked
<1> HIDE DEF recs
<1>2. /\ t \in Stores
      /\ \A r \in ToSet(recs) : t.nodes[r.id] = r
      /\ \A n \in Ids \ Live(f) : t.nodes[n] = None
  BY <1>1, SyncedTables
<1> HIDE DEF t
<1>3. \A r \in ToSet(recs) : r \in NodeRecs /\ r # None
  BY <1>1, TreeAssumption DEF ToSet
<1>4. ASSUME NEW n \in Live(f)
      PROVE  /\ n \in Ids /\ t.nodes[n] # None /\ t.nodes[n].look = Look(f, n)
             /\ OfRoot(t.nodes[n]) \/ \E p \in Live(f) : UnderParent(f, t.nodes[n], t.nodes[p])
  <2>1. PICK r \in ToSet(recs) : r.id = n
    BY <1>1 DEF IdsOf
  <2>2. t.nodes[n] = r /\ r # None /\ r.look = Look(f, n) /\ n \in Ids
    BY <1>1, <1>2, <1>3, <2>1, LiveNodes
  <2>3. CASE OfRoot(r)
    BY <2>2, <2>3
  <2>4. CASE ~ OfRoot(r)
    <3>1. PICK p \in ToSet(recs) : UnderParent(f, r, p)
      BY <1>1, <2>4
    <3>2. p.id \in Live(f) /\ t.nodes[p.id] = p
      BY <1>1, <1>2 DEF IdsOf
    <3>3. UnderParent(f, t.nodes[n], t.nodes[p.id])
      BY <2>2, <3>1, <3>2
    <3>4. QED
      BY <2>2, <3>2, <3>3
  <2>5. QED
    BY <2>3, <2>4
<1>5. {n \in Ids : t.nodes[n] # None} = Live(f)
  BY <1>2, <1>4
<1>6. QED
  BY <1>2, <1>4, <1>5 DEF Mirrors, t, recs

LEMMA InitHolds ==
    ASSUME Init
    PROVE  IInv
<1>1. \A n \in Layers : (CHOOSE look \in LooksOf[n] : TRUE) \in LooksOf[n]
  BY TreeAssumption
<1>2. \A n \in Layers : (CHOOSE look \in LooksOf[n] : TRUE) \in Looks
  BY <1>1 DEF Looks
<1>3. file \in Files
  <2> DEFINE look == [n \in Layers |-> CHOOSE l \in LooksOf[n] : TRUE]
             kids == [n \in Ids |-> <<>>]
  <2>1. look \in [Layers -> Looks] /\ (\A n \in Layers : look[n] \in LooksOf[n])
    BY <1>1, <1>2
  <2>2. kids \in [Ids -> Seq(Ids)]
    OBVIOUS
  <2>3. file = [kids |-> kids, look |-> look]
    BY DEF Init
  <2> HIDE DEF look, kids
  <2>4. QED
    BY <2>1, <2>2, <2>3 DEF Files
<1>4. \A n \in Ids : file.kids[n] = <<>> /\ KidSet(file, n) = {} /\ IsInjective(file.kids[n])
  BY DEF Init, KidSet, ToSet, IsInjective
<1>5. TreeShaped(file)
  <2>1. Root \in Ids /\ Pages \cup Layers \subseteq Ids
    BY DEF Ids
  <2>2. QED
    BY <1>4, <2>1 DEF TreeShaped, Forest, Rooted
<1>6. store \in Stores
  <2>1. /\ store.nodes = [n \in Ids |-> None] /\ store.index = NoEdges
        /\ store = [nodes |-> store.nodes, index |-> store.index]
    BY DEF Init
  <2>2. \A n \in Ids : store.nodes[n] = None /\ Old(store, n) = NoEdges
    BY <2>1 DEF Old
  <2>3. \A x \in Indexes : NoEdges[x] = {}
    BY DEF NoEdges
  <2>4. store.nodes \in [Ids -> NodeRecs \cup {None}]
    BY <2>1
  <2>5. store.index \in [Indexes -> SUBSET Entries]
    <3>1. {} \in SUBSET Entries
      OBVIOUS
    <3>2. QED
      BY <2>1, <3>1 DEF NoEdges
  <2>6. Keyed(store)
    BY <2>2 DEF Keyed
  <2>7. ASSUME NEW x \in Indexes PROVE store.index[x] = UNION {Old(store, n)[x] : n \in Ids}
    <3>1. \A n \in Ids : Old(store, n)[x] = {}
      BY <2>2, <2>3
    <3>2. store.index[x] = {}
      BY <2>1, <2>3
    <3>3. QED
      BY <3>1, <3>2
  <2>8. QED
    BY <2>1, <2>4, <2>5, <2>6, <2>7 DEF Stores, IndexExact
<1>7. synced = None /\ \A n \in Ids : store.nodes[n] = None
  BY DEF Init
<1>8. QED
  BY <1>3, <1>5, <1>6, <1>7 DEF IInv

\* An edit leaves a tree, and the mirror alone.
LEMMA EditHolds ==
    ASSUME IInv, file' \in Files, TreeShaped(file'), UNCHANGED <<synced, store>>
    PROVE  IInv'
<1>1. /\ synced' = synced /\ store' = store
  OBVIOUS
<1>2. /\ synced \in Files \cup {None} /\ store \in Stores
      /\ synced = None => \A n \in Ids : store.nodes[n] = None
      /\ synced # None => TreeShaped(synced) /\ Mirrors(synced, store)
  BY DEF IInv
<1>3. /\ synced' \in Files \cup {None} /\ store' \in Stores
      /\ synced' = None => \A n \in Ids : store'.nodes[n] = None
      /\ synced' # None => TreeShaped(synced') /\ Mirrors(synced', store')
  BY <1>1, <1>2
<1>4. QED
  BY <1>3 DEF IInv

LEMMA PullHolds ==
    ASSUME IInv, Pull
    PROVE  IInv'
<1>1. file' = file /\ synced' = file /\ store' = SyncTree(store, Walk(file))
  BY DEF Pull
<1>2. file \in Files /\ TreeShaped(file) /\ store \in Stores /\ file # None
  BY TreeAssumption DEF IInv
<1>3. SyncTree(store, Walk(file)) \in Stores /\ Mirrors(file, SyncTree(store, Walk(file)))
  BY <1>2, PullMirrors
<1>4. /\ file' \in Files /\ TreeShaped(file') /\ store' \in Stores
      /\ synced' \in Files /\ synced' # None
      /\ TreeShaped(synced') /\ Mirrors(synced', store')
  BY <1>1, <1>2, <1>3
<1>5. QED
  BY <1>4 DEF IInv

LEMMA StepHolds ==
    ASSUME IInv, [Next]_vars
    PROVE  IInv'
<1>1. file \in Files /\ TreeShaped(file)
  BY DEF IInv
<1>2. ASSUME NEW n \in Pages \cup Layers, NEW p \in Ids, NEW k \in 1..Cardinality(Ids), Create(n, p, k)
      PROVE  IInv'
  <2>1. /\ n \notin Live(file) /\ p \in Live(file) /\ p \in Parents(n)
        /\ k \in 1..(Len(file.kids[p]) + 1)
        /\ file' = Insert(file, n, p, k) /\ UNCHANGED <<synced, store>>
    BY <1>2 DEF Create
  <2>2. Insert(file, n, p, k) \in Files /\ TreeShaped(Insert(file, n, p, k))
    BY <1>1, <2>1, CreateShaped
  <2>3. file' \in Files /\ TreeShaped(file')
    BY <2>1, <2>2
  <2>4. QED
    BY <2>1, <2>3, EditHolds
<1>3. ASSUME NEW n \in Pages \cup Layers, NEW p \in Ids, NEW k \in 1..Cardinality(Ids), Move(n, p, k)
      PROVE  IInv'
  <2>1. /\ p \in Parents(n) /\ p \in Live(file) \ Descendants(file, n)
        /\ k \in 1..(Len(Detach(file, n).kids[p]) + 1)
        /\ file' = Insert(Detach(file, n), n, p, k) /\ UNCHANGED <<synced, store>>
    BY <1>3 DEF Move
  <2>2. /\ Insert(Detach(file, n), n, p, k) \in Files
        /\ TreeShaped(Insert(Detach(file, n), n, p, k))
    BY <1>1, <2>1, MoveShaped
  <2>3. file' \in Files /\ TreeShaped(file')
    BY <2>1, <2>2
  <2>4. QED
    BY <2>1, <2>3, EditHolds
<1>4. ASSUME NEW n \in Pages \cup Layers, Delete(n)
      PROVE  IInv'
  <2>1. /\ file' = [Detach(file, n) EXCEPT !.kids =
                      [m \in Ids |-> IF m \in Descendants(file, n) THEN <<>> ELSE @[m]]]
        /\ UNCHANGED <<synced, store>> /\ n \in Ids
    BY <1>4 DEF Delete, Ids
  <2>2. file' \in Files /\ TreeShaped(file')
    BY <1>1, <2>1, DeleteShaped
  <2>3. QED
    BY <2>1, <2>2, EditHolds
<1>5. ASSUME NEW n \in Layers, NEW look \in LooksOf[n], Restyle(n, look)
      PROVE  IInv'
  <2>1. file' = [file EXCEPT !.look[n] = look] /\ UNCHANGED <<synced, store>>
    BY <1>5 DEF Restyle
  <2>2. [file EXCEPT !.look[n] = look] \in Files /\ TreeShaped([file EXCEPT !.look[n] = look])
    BY <1>1, RestyleShaped
  <2>3. file' \in Files /\ TreeShaped(file')
    BY <2>1, <2>2
  <2>4. QED
    BY <2>1, <2>3, EditHolds
<1>6. CASE Pull
  BY <1>6, PullHolds
<1>7. CASE UNCHANGED vars
  <2>1. file' = file /\ UNCHANGED <<synced, store>>
    BY <1>7 DEF vars
  <2>2. file' \in Files /\ TreeShaped(file')
    BY <1>1, <2>1
  <2>3. QED
    BY <2>1, <2>2, EditHolds
<1>8. QED
  BY <1>2, <1>3, <1>4, <1>5, <1>6, <1>7 DEF Next

\* Whatever is edited and whenever it is pulled, the tables are those of the
\* file as last pulled (flatten.rs walk, store.rs sync).
THEOREM Invariance == Spec => []IInv
<1>1. Init => IInv
  BY InitHolds
<1>2. IInv /\ [Next]_vars => IInv'
  BY StepHolds
<1>3. QED
  BY <1>1, <1>2, PTL DEF Spec

\* Files, records and edges of the children index have their types.
THEOREM TypeCorrect == Spec => []TypeOK
<1>1. ASSUME IInv PROVE TypeOK
  <2>1. /\ file \in Files /\ synced \in Files \cup {None} /\ store \in Stores
        /\ store.nodes \in [Ids -> NodeRecs \cup {None}]
        /\ store.index \in [Indexes -> SUBSET Entries]
        /\ Keyed(store) /\ IndexExact(store)
    BY <1>1 DEF IInv, Stores
  <2>2. "children" \in Indexes
    BY DEF Indexes
  <2>3. ASSUME NEW e \in store.index["children"] PROVE e \in [of: Ids, at: Nat, id: Ids]
    <3>1. PICK n \in Ids : e \in Old(store, n)["children"]
      BY <2>1, <2>2 DEF IndexExact
    <3>2. store.nodes[n] \in NodeRecs /\ e \in Contributes(store.nodes[n])["children"]
      BY <2>1, <2>2, <3>1, OldEntries
    <3>3. e \in ChildEdge(store.nodes[n])
      BY <3>2, Contributed
    <3>4. QED
      BY <3>2, <3>3 DEF ChildEdge, NodeRecs
  <2>4. QED
    BY <2>1, <2>3 DEF TypeOK, Keyed
<1>2. QED
  BY <1>1, Invariance, PTL

-----------------------------------------------------------------------------
(* What the queries read after a pull *)

Pulled == IInv /\ synced # None

LEMMA Recorded ==
    ASSUME Pulled
    PROVE  /\ synced \in Files /\ TreeShaped(synced) /\ Forest(synced)
           /\ Present = Live(synced) /\ Present \subseteq Ids /\ Root \in Present
           /\ \A n \in Present :
                 /\ store.nodes[n] \in NodeRecs /\ store.nodes[n].id = n
                 /\ store.nodes[n].look = Look(synced, n)
                 /\ n = Root => store.nodes[n].parent = None /\ store.nodes[n].page = Root
                 /\ n # Root =>
                       /\ store.nodes[n].parent \in Present
                       /\ n \in KidSet(synced, store.nodes[n].parent)
                       /\ store.nodes[n].index \in Nat
                       /\ store.nodes[n].index + 1 \in DOMAIN synced.kids[store.nodes[n].parent]
                       /\ synced.kids[store.nodes[n].parent][store.nodes[n].index + 1] = n
                       /\ store.nodes[n].page =
                             PageOf(synced, n, store.nodes[store.nodes[n].parent].page)
<1>1. /\ synced \in Files /\ TreeShaped(synced) /\ Mirrors(synced, store)
      /\ store.nodes \in [Ids -> NodeRecs \cup {None}] /\ Keyed(store)
  BY DEF Pulled, IInv, Stores
<1>2. Present = Live(synced) /\ Present \subseteq Ids /\ Root \in Present
  BY <1>1, LiveNodes DEF Mirrors, Present
<1>3. ASSUME NEW n \in Present
      PROVE  /\ store.nodes[n] \in NodeRecs /\ store.nodes[n].id = n
             /\ store.nodes[n].look = Look(synced, n)
             /\ OfRoot(store.nodes[n]) \/ \E p \in Present : UnderParent(synced, store.nodes[n], store.nodes[p])
  <2>1. n \in Ids /\ store.nodes[n] # None
    BY DEF Present
  <2>2. store.nodes[n] \in NodeRecs /\ store.nodes[n].id = n
    BY <1>1, <2>1 DEF Keyed
  <2>3. /\ store.nodes[n].look = Look(synced, n)
        /\ OfRoot(store.nodes[n]) \/ \E p \in Live(synced) : UnderParent(synced, store.nodes[n], store.nodes[p])
    BY <1>1, <1>2 DEF Mirrors
  <2>4. QED
    BY <1>2, <2>2, <2>3
<1>4. ASSUME NEW n \in Present, NEW p \in Present, UnderParent(synced, store.nodes[n], store.nodes[p])
      PROVE  /\ n # Root /\ store.nodes[n].parent = p /\ n \in KidSet(synced, p)
             /\ store.nodes[n].index \in Nat
             /\ store.nodes[n].index + 1 \in DOMAIN synced.kids[p]
             /\ synced.kids[p][store.nodes[n].index + 1] = n
             /\ store.nodes[n].page = PageOf(synced, n, store.nodes[p].page)
  <2>1. /\ store.nodes[n].parent = p
        /\ store.nodes[n].index + 1 \in DOMAIN synced.kids[p]
        /\ synced.kids[p][store.nodes[n].index + 1] = n
        /\ store.nodes[n].page = PageOf(synced, n, store.nodes[p].page)
    <3>1. store.nodes[n].id = n /\ store.nodes[p].id = p
      BY <1>3
    <3>2. QED
      BY <3>1, <1>4 DEF UnderParent
  <2>2. n \in KidSet(synced, p)
    BY <2>1 DEF KidSet, ToSet
  <2>3. n # Root
    BY <1>1, <1>2, <2>2, KidsLive
  <2>4. store.nodes[n].index \in Nat
    BY <1>3 DEF NodeRecs
  <2>5. QED
    BY <2>1, <2>2, <2>3, <2>4
<1>5. ASSUME NEW n \in Present, OfRoot(store.nodes[n])
      PROVE  n = Root /\ store.nodes[n].parent = None /\ store.nodes[n].page = Root
  BY <1>3, <1>5 DEF OfRoot
<1>6. Forest(synced)
  BY <1>1 DEF TreeShaped
<1>7. ASSUME NEW n \in Present
      PROVE  /\ n = Root => store.nodes[n].parent = None /\ store.nodes[n].page = Root
             /\ n # Root =>
                       /\ store.nodes[n].parent \in Present
                       /\ n \in KidSet(synced, store.nodes[n].parent)
                       /\ store.nodes[n].index \in Nat
                       /\ store.nodes[n].index + 1 \in DOMAIN synced.kids[store.nodes[n].parent]
                       /\ synced.kids[store.nodes[n].parent][store.nodes[n].index + 1] = n
                       /\ store.nodes[n].page =
                             PageOf(synced, n, store.nodes[store.nodes[n].parent].page)
  <2>1. CASE OfRoot(store.nodes[n])
    BY <1>5, <2>1
  <2>2. CASE ~ OfRoot(store.nodes[n])
    <3>1. PICK p \in Present : UnderParent(synced, store.nodes[n], store.nodes[p])
      BY <1>3, <2>2
    <3>2. QED
      BY <1>4, <3>1
  <2>3. QED
    BY <2>1, <2>2
<1>8. QED
  BY <1>1, <1>2, <1>3, <1>6, <1>7

LEMMA RecordOf ==
    ASSUME Pulled, NEW n \in Present
    PROVE  /\ n \in Ids /\ store.nodes[n] \in NodeRecs
           /\ store.nodes[n].id = n /\ store.nodes[n].look = Look(synced, n)
BY Recorded

LEMMA KidRecorded ==
    ASSUME Pulled, NEW q \in Ids, NEW k \in DOMAIN synced.kids[q]
    PROVE  /\ q \in Present /\ synced.kids[q][k] \in Present /\ synced.kids[q][k] # Root
           /\ synced.kids[q][k] \in KidSet(synced, q)
           /\ store.nodes[synced.kids[q][k]].parent = q
           /\ store.nodes[synced.kids[q][k]].index = k - 1
<1> DEFINE c == synced.kids[q][k]
           r == store.nodes[c]
<1>1. c \in KidSet(synced, q)
  BY DEF KidSet, ToSet
<1>2. q \in Present /\ c \in Present /\ c # Root
  BY <1>1, Recorded, KidsLive
<1> HIDE DEF c
<1>3. /\ r.parent \in Ids /\ c \in KidSet(synced, r.parent)
      /\ r.index \in Nat /\ r.index + 1 \in DOMAIN synced.kids[r.parent]
      /\ synced.kids[r.parent][r.index + 1] = c
  BY <1>2, Recorded
<1>4. r.parent = q
  BY <1>1, <1>3, Recorded DEF Forest
<1>5. IsInjective(synced.kids[q]) /\ DOMAIN synced.kids[q] \subseteq Nat
  <2>1. synced.kids[q] \in Seq(Ids)
    BY Recorded, FileParts
  <2>2. QED
    BY <2>1, Recorded DEF Forest
<1>6. r.index + 1 = k
  BY <1>3, <1>4, <1>5 DEF IsInjective, c
<1>7. QED
  BY <1>1, <1>2, <1>3, <1>4, <1>5, <1>6 DEF c

\* The edge that stands for the k-th kid of q.
KidEdge(q, k) == [of |-> q, at |-> k - 1, id |-> synced.kids[q][k]]

LEMMA IndexEntries ==
    ASSUME Pulled, NEW x \in Indexes
    PROVE  \A e : e \in store.index[x] <=> \E n \in Present : e \in Contributes(store.nodes[n])[x]
<1>1. store \in Stores /\ store.index[x] = UNION {Old(store, n)[x] : n \in Ids}
  BY DEF Pulled, IInv, Stores, IndexExact
<1>2. \A n \in Ids : Old(store, n)[x] = IF n \in Present THEN Contributes(store.nodes[n])[x] ELSE {}
  BY <1>1, OldEntries DEF Present
<1>3. Present \subseteq Ids
  BY DEF Present
<1>4. QED
  BY <1>1, <1>2, <1>3

LEMMA ChildEdges ==
    ASSUME Pulled, NEW q \in Ids
    PROVE  {e \in store.index["children"] : e.of = q} = {KidEdge(q, k) : k \in DOMAIN synced.kids[q]}
<1>1. \A e : e \in store.index["children"] <=> \E n \in Present : e \in Contributes(store.nodes[n])["children"]
  BY IndexEntries DEF Indexes
<1>2. \A n : Contributes(store.nodes[n])["children"] = ChildEdge(store.nodes[n])
  BY Contributed
<1>3. ASSUME NEW e \in store.index["children"], e.of = q
      PROVE  \E k \in DOMAIN synced.kids[q] : e = KidEdge(q, k)
  <2>1. PICK n \in Present : e \in ChildEdge(store.nodes[n])
    BY <1>1, <1>2, <1>3
  <2>2. /\ store.nodes[n].parent # None
        /\ e = [of |-> store.nodes[n].parent, at |-> store.nodes[n].index, id |-> store.nodes[n].id]
    BY <2>1 DEF ChildEdge
  <2>3. n # Root /\ store.nodes[n].id = n
    BY <2>2, Recorded
  <2>4. store.nodes[n].parent = q
    BY <1>3, <2>2
  <2>5. /\ store.nodes[n].index \in Nat
        /\ store.nodes[n].index + 1 \in DOMAIN synced.kids[q]
        /\ synced.kids[q][store.nodes[n].index + 1] = n
    BY <2>3, <2>4, Recorded
  <2>6. e = KidEdge(q, store.nodes[n].index + 1)
    <3>1. (store.nodes[n].index + 1) - 1 = store.nodes[n].index
      BY <2>5
    <3>2. QED
      BY <2>2, <2>3, <2>4, <2>5, <3>1 DEF KidEdge
  <2>7. QED
    BY <2>5, <2>6
<1>4. ASSUME NEW k \in DOMAIN synced.kids[q]
      PROVE  KidEdge(q, k) \in store.index["children"] /\ KidEdge(q, k).of = q
  <2> DEFINE c == synced.kids[q][k]
  <2>1. c \in Present /\ store.nodes[c].parent = q /\ store.nodes[c].index = k - 1
    BY KidRecorded
  <2>2. store.nodes[c].id = c
    BY <2>1, RecordOf
  <2>6. q # None
    BY TreeAssumption
  <2>3. KidEdge(q, k) \in ChildEdge(store.nodes[c])
    BY <2>1, <2>2, <2>6 DEF ChildEdge, KidEdge
  <2>4. KidEdge(q, k).of = q
    BY DEF KidEdge
  <2>5. QED
    BY <1>1, <1>2, <2>1, <2>3, <2>4
<1>5. QED
  BY <1>3, <1>4

LEMMA KidsFaithful ==
    ASSUME Pulled, NEW q \in Ids
    PROVE  Kids(q) = synced.kids[q]
<1> DEFINE kids == synced.kids[q]
           n == Len(kids)
           e == [k \in 1..n |-> KidEdge(q, k)]
           E == {KidEdge(q, k) : k \in 1..n}
<1>1. kids \in Seq(Ids) /\ n \in Nat /\ DOMAIN kids = 1..n /\ ToSet(kids) \subseteq Present
  <2>1. kids \in Seq(Ids)
    BY Recorded, FileParts
  <2>2. ToSet(kids) \subseteq Present
    BY KidRecorded DEF ToSet
  <2>3. QED
    BY <2>1, <2>2
<1>2. {x \in store.index["children"] : x.of = q} = {e[k] : k \in 1..n}
  <2>1. {x \in store.index["children"] : x.of = q} = {KidEdge(q, k) : k \in 1..n}
    BY <1>1, ChildEdges
  <2>2. {KidEdge(q, k) : k \in 1..n} = {e[k] : k \in 1..n}
    <3> HIDE DEF n
    <3>1. \A k \in 1..n : e[k] = KidEdge(q, k)
      OBVIOUS
    <3> HIDE DEF e
    <3>2. QED
      BY <3>1
  <2>3. QED
    BY <2>1, <2>2
<1>3. e \in [1..n -> E] /\ \A k \in 1..n : e[k].at = k - 1 /\ e[k].id = kids[k]
  BY DEF KidEdge
<1> HIDE DEF e, E, n
<1>4. InOrder({e[k] : k \in 1..n}) = e
  BY <1>1, <1>3, InOrderOf
<1>5. DOMAIN e = 1..n
  BY <1>3
<1>6. [k \in DOMAIN e |-> e[k].id] = kids
  <2>1. kids = [k \in 1..n |-> kids[k]]
    BY <1>1
  <2>2. QED
    BY <1>3, <1>5, <2>1
<1>7. Kids(q) = Chosen(kids, Present)
  <2> HIDE DEF kids
  <2>1. QED
    BY <1>2, <1>4, <1>6 DEF Kids
<1>8. QED
  BY <1>1, <1>7, ChosenAll

\* Types tell the document, the pages and the layers apart.
LEMMA TypesOfNodes ==
    ASSUME NEW f \in Files, NEW n \in Ids
    PROVE  /\ Type(f, n) = "DOCUMENT" <=> n = Root
           /\ Type(f, n) = "CANVAS" <=> n \in Pages
           /\ n \in Layers => Type(f, n) \in LayerTypes
<1>1. n \in Layers => f.look[n] \in Looks /\ f.look[n].type \notin {"DOCUMENT", "CANVAS"}
                     /\ f.look[n].type \in LayerTypes
  BY FileParts, TreeAssumption DEF LayerTypes
<1>2. n = Root \/ n \in Pages \/ n \in Layers
  BY DEF Ids
<1>3. Bare("DOCUMENT").type = "DOCUMENT" /\ Bare("CANVAS").type = "CANVAS"
  BY DEF Bare
<1>4. CASE n = Root
  BY <1>3, <1>4, TreeAssumption DEF Type, Look
<1>5. CASE n \in Pages
  BY <1>3, <1>5, TreeAssumption DEF Type, Look
<1>6. CASE n \in Layers
  BY <1>1, <1>6, TreeAssumption DEF Type, Look
<1>7. QED
  BY <1>2, <1>4, <1>5, <1>6

LEMMA FoundBy ==
    ASSUME Pulled, NEW x \in Indexes, NEW t
    PROVE  Found(x, t) = {n \in Present : \E e \in Contributes(store.nodes[n])[x] : e.of = t}
<1>1. ASSUME NEW n \in Present, NEW e \in Contributes(store.nodes[n])[x]
      PROVE  e.id = n
  <2>1. e.id = store.nodes[n].id
    BY Contributed
  <2>2. QED
    BY <2>1, RecordOf
<1>2. QED
  BY <1>1, IndexEntries DEF Found

LEMMA EdgesOf ==
    ASSUME NEW r, NEW terms, NEW t
    PROVE  (\E e \in Edges(r, terms) : e.of = t) <=> t \in terms
<1>1. ASSUME NEW e \in Edges(r, terms) PROVE e.of \in terms
  BY DEF Edges
<1>2. ASSUME t \in terms PROVE [of |-> t, id |-> r.id] \in Edges(r, terms)
  BY <1>2 DEF Edges
<1>3. QED
  BY <1>1, <1>2

LEMMA FoundByType ==
    ASSUME Pulled, NEW t
    PROVE  Found("by_type", t) = {n \in Present : Type(synced, n) = t}
<1>1. ASSUME NEW n \in Present
      PROVE  (\E e \in Contributes(store.nodes[n])["by_type"] : e.of = t) <=> Type(synced, n) = t
  <2>1. Contributes(store.nodes[n])["by_type"] = Edges(store.nodes[n], {Type(synced, n)})
    <3>1. Type(synced, n) = store.nodes[n].look.type
      BY RecordOf DEF Type
    <3>2. QED
      BY <3>1, Contributed
  <2>2. (\E e \in Edges(store.nodes[n], {Type(synced, n)}) : e.of = t) <=> t \in {Type(synced, n)}
    BY EdgesOf
  <2>3. QED
    BY <2>1, <2>2
<1>2. "by_type" \in Indexes
  BY DEF Indexes
<1>3. QED
  BY <1>1, <1>2, FoundBy

LEMMA PagesListed ==
    ASSUME Pulled
    PROVE  PageList = synced.kids[Root]
<1> DEFINE kids == synced.kids[Root]
           n == Len(kids)
           edge(k) == [at |-> k - 1, id |-> kids[k]]
           e == [k \in 1..n |-> edge(k)]
           E == {edge(k) : k \in 1..n}
           pages == {[at |-> store.nodes[m].index, id |-> m] :
                        m \in Present \cap Found("by_type", "CANVAS")}
<1>1. kids \in Seq(Ids) /\ n \in Nat /\ DOMAIN kids = 1..n /\ Root \in Ids
  BY Recorded, FileParts
<1>2. ASSUME NEW m \in Present \cap Found("by_type", "CANVAS")
      PROVE  \E k \in 1..n : [at |-> store.nodes[m].index, id |-> m] = edge(k)
  <2>1. m \in Present /\ m \in Pages
    BY FoundByType, TypesOfNodes, Recorded
  <2>2. m # Root
    BY <2>1, TreeAssumption
  <2> DEFINE q == store.nodes[m].parent
             i == store.nodes[m].index
  <2>3. /\ q \in Ids /\ m \in KidSet(synced, q)
        /\ i \in Nat /\ i + 1 \in DOMAIN synced.kids[q] /\ synced.kids[q][i + 1] = m
    BY <2>1, <2>2, Recorded
  <2>4. q = Root
    <3>1. Forest(synced)
      BY Recorded
    <3>2. q \in Pages \cup Layers => m \in Layers
      BY <2>3, <3>1 DEF Forest
    <3>3. QED
      BY <2>1, <2>3, <3>2, TreeAssumption DEF Ids
  <2>5. i + 1 \in 1..n /\ (i + 1) - 1 = i /\ kids[i + 1] = m
    BY <1>1, <2>3, <2>4
  <2>6. [at |-> i, id |-> m] = edge(i + 1)
    BY <2>5
  <2> HIDE DEF i, n, kids, edge
  <2>7. QED
    BY <2>5, <2>6 DEF i
<1>3. ASSUME NEW k \in 1..n PROVE edge(k) \in pages
  <2>1. k \in DOMAIN kids
    BY <1>1
  <2>2. kids[k] \in Present /\ kids[k] \in KidSet(synced, Root) /\ store.nodes[kids[k]].index = k - 1
    BY <1>1, <2>1, KidRecorded
  <2>3. kids[k] \in Pages
    <3>1. KidSet(synced, Root) \subseteq Pages
      BY Recorded DEF Forest
    <3>2. QED
      BY <2>2, <3>1
  <2>4. kids[k] \in Found("by_type", "CANVAS")
    <3>1. synced \in Files /\ kids[k] \in Ids
      <4>1. synced \in Files /\ Present \subseteq Ids
        BY Recorded
      <4>2. QED
        BY <2>2, <4>1
    <3>2. Type(synced, kids[k]) = "CANVAS"
      BY <2>3, <3>1, TypesOfNodes
    <3>3. QED
      BY <2>2, <3>2, FoundByType
  <2>5. QED
    BY <2>2, <2>4
<1>4. pages = {e[k] : k \in 1..n}
  <2>1. \A k \in 1..n : e[k] = edge(k)
    OBVIOUS
  <2>2. pages \subseteq {edge(k) : k \in 1..n}
    BY <1>2
  <2>3. {edge(k) : k \in 1..n} \subseteq pages
    BY <1>3
  <2> HIDE DEF pages, e, edge
  <2>4. {edge(k) : k \in 1..n} = {e[k] : k \in 1..n}
    BY <2>1
  <2>5. QED
    BY <2>2, <2>3, <2>4
<1>5. e \in [1..n -> E] /\ \A k \in 1..n : e[k].at = k - 1 /\ e[k].id = kids[k]
  OBVIOUS
<1>6. PageList = [k \in DOMAIN InOrder(pages) |-> InOrder(pages)[k].id]
  BY DEF PageList
<1> HIDE DEF e, E, n, pages
<1>7. InOrder({e[k] : k \in 1..n}) = e
  BY <1>1, <1>5, InOrderOf
<1>8. DOMAIN e = 1..n
  BY <1>5
<1>9. [k \in DOMAIN e |-> e[k].id] = kids
  <2>1. kids = [k \in 1..n |-> kids[k]]
    BY <1>1
  <2>2. QED
    BY <1>5, <1>8, <2>1
<1>10. InOrder(pages) = e
  BY <1>4, <1>7
<1>11. QED
  BY <1>6, <1>9, <1>10

\* The outline and the dump of a node are the file's (query.rs build_tree,
\* pages).
THEOREM OutlinesAreTheFiles == Spec => []TreeFaithful
<1>1. ASSUME IInv PROVE TreeFaithful
  <2>1. SUFFICES ASSUME synced # None
                 PROVE  /\ \A n \in Live(synced), depth \in {None, 0, 1} :
                              BuildTree(n, depth) = Outline(synced.kids, n, depth)
                        /\ PageList = synced.kids[Root]
    BY DEF TreeFaithful
  <2>2. Pulled
    BY <1>1, <2>1 DEF Pulled
  <2>3. [m \in Ids |-> Kids(m)] = synced.kids
    <3>1. synced.kids = [m \in Ids |-> synced.kids[m]]
      BY <2>2, Recorded, FileParts
    <3>2. \A m \in Ids : Kids(m) = synced.kids[m]
      BY <2>2, KidsFaithful
    <3>3. QED
      BY <3>1, <3>2
  <2>4. ASSUME NEW n, NEW depth PROVE BuildTree(n, depth) = Outline(synced.kids, n, depth)
    BY <2>3 DEF BuildTree
  <2>5. PageList = synced.kids[Root]
    BY <2>2, PagesListed
  <2>6. QED
    BY <2>4, <2>5
<1>2. QED
  BY <1>1, Invariance, PTL

-----------------------------------------------------------------------------
(* What lies below a node, and the way up from it *)

\* A list without duplicates is as long as its set is large, and what it begins
\* with has none either.
LEMMA InjectiveCount ==
    ASSUME NEW X, NEW s \in Seq(X), IsInjective(s)
    PROVE  /\ Cardinality(ToSet(s)) = Len(s)
           /\ \A k \in 0..Len(s) :
                 /\ SubSeq(s, 1, k) \in Seq(X) /\ Len(SubSeq(s, 1, k)) = k
                 /\ IsInjective(SubSeq(s, 1, k)) /\ ToSet(SubSeq(s, 1, k)) \subseteq ToSet(s)
<1> DEFINE n == Len(s)
<1>1. n \in Nat /\ DOMAIN s = 1..n
  OBVIOUS
<1>2. s \in Bijection(1..n, ToSet(s))
  <2>1. s \in [1..n -> ToSet(s)]
    BY <1>1 DEF ToSet
  <2>2. \A x \in ToSet(s) : \E i \in 1..n : s[i] = x
    BY <1>1 DEF ToSet
  <2>3. QED
    BY <2>1, <2>2 DEF Bijection, Injection, Surjection
<1>3. Cardinality(ToSet(s)) = n
  BY <1>1, <1>2, FS_CountingElements DEF ExistsBijection
<1>4. ASSUME NEW k \in 0..n
      PROVE  /\ SubSeq(s, 1, k) \in Seq(X) /\ Len(SubSeq(s, 1, k)) = k
             /\ IsInjective(SubSeq(s, 1, k)) /\ ToSet(SubSeq(s, 1, k)) \subseteq ToSet(s)
  <2> DEFINE t == SubSeq(s, 1, k)
  <2>1. /\ t \in Seq(X) /\ Len(t) = k /\ DOMAIN t = 1..k
        /\ \A i \in 1..k : t[i] = s[i] /\ i \in 1..n
    BY <1>1
  <2> HIDE DEF t, n
  <2>2. IsInjective(t) /\ ToSet(t) \subseteq ToSet(s)
    BY <1>1, <2>1 DEF IsInjective, ToSet
  <2>3. QED
    BY <2>1, <2>2 DEF t
<1>5. QED
  BY <1>3, <1>4

LEMMA ScopedBelow ==
    ASSUME Pulled, NEW n
    PROVE  ScopeIds(n) = Descendants(synced, n)
<1>1. ASSUME NEW m \in Ids
      PROVE  {e.id : e \in {x \in store.index["children"] : x.of = m}} = ToSet(synced.kids[m])
  <2>1. {x \in store.index["children"] : x.of = m} = {KidEdge(m, k) : k \in DOMAIN synced.kids[m]}
    BY ChildEdges
  <2>2. {e.id : e \in {KidEdge(m, k) : k \in DOMAIN synced.kids[m]}} = ToSet(synced.kids[m])
    <3>1. \A k : KidEdge(m, k).id = synced.kids[m][k]
      BY DEF KidEdge
    <3>2. QED
      BY <3>1 DEF ToSet
  <2>3. QED
    BY <2>1, <2>2
<1>2. [m \in Ids |-> {e.id : e \in {x \in store.index["children"] : x.of = m}}]
        = [m \in Ids |-> ToSet(synced.kids[m])]
  BY <1>1
<1>3. QED
  BY <1>2, Zenon DEF ScopeIds, Descendants

LEMMA BelowLive ==
    ASSUME Pulled, NEW n \in Present
    PROVE  Descendants(synced, n) \subseteq Present /\ n \in Descendants(synced, n)
<1>1. synced \in Files /\ Present = Live(synced) /\ Present \subseteq Ids
  BY Recorded
<1>2. \A m \in Present : ToSet(synced.kids[m]) \subseteq Present
  BY <1>1, LiveNodes DEF KidSet
<1>3. QED
  BY <1>1, <1>2, LeastDescendants

LEMMA KidsParent ==
    ASSUME Pulled, NEW m \in Ids, NEW x \in KidSet(synced, m)
    PROVE  /\ m \in Present /\ x \in Present /\ x # Root
           /\ store.nodes[x].parent = m
           /\ store.nodes[x].page = PageOf(synced, x, store.nodes[m].page)
<1>1. PICK k \in DOMAIN synced.kids[m] : x = synced.kids[m][k]
  BY DEF KidSet, ToSet
<1>2. m \in Present /\ x \in Present /\ x # Root /\ store.nodes[x].parent = m
  BY <1>1, KidRecorded
<1>3. store.nodes[x].page = PageOf(synced, x, store.nodes[store.nodes[x].parent].page)
  BY <1>2, Recorded
<1>4. QED
  BY <1>2, <1>3

LEMMA ParentsKid ==
    ASSUME Pulled, NEW x \in Present, x # Root
    PROVE  /\ store.nodes[x].parent \in Present /\ store.nodes[x].parent \in Ids
           /\ x \in KidSet(synced, store.nodes[x].parent)
           /\ store.nodes[x].parent # None
<1>1. store.nodes[x].parent \in Present /\ x \in KidSet(synced, store.nodes[x].parent)
  BY Recorded
<1>2. Present \subseteq Ids
  BY DEF Present
<1>3. QED
  BY <1>1, <1>2, TreeAssumption

\* Going up never stays among the same nodes for ever.
LEMMA NoLoop ==
    ASSUME Pulled, NEW C \in SUBSET Present, C # {}, Root \notin C
    PROVE  \E x \in C : store.nodes[x].parent \notin C
<1> SUFFICES ASSUME \A x \in C : store.nodes[x].parent \in C PROVE FALSE
  OBVIOUS
<1>1. synced \in Files /\ Present = Live(synced) /\ Present \subseteq Ids /\ Root \in Present
  BY Recorded
<1>2. ASSUME NEW m \in Ids \ C, NEW x \in KidSet(synced, m)
      PROVE  x \in Ids \ C
  BY <1>1, <1>2, KidsParent
<1>3. Live(synced) \subseteq Ids \ C
  BY <1>1, <1>2, LiveNodes
<1>4. QED
  BY <1>1, <1>3

\* c leads from below Root, or a node on the way there, down to n.
Up(n, c) ==
    /\ c \in Seq(Present) /\ Len(c) >= 1 /\ c[Len(c)] = n /\ IsInjective(c)
    /\ \A i \in 1..(Len(c) - 1) : c[i + 1] # Root /\ store.nodes[c[i + 1]].parent = c[i]

\* One round of Climb.
ClimbStep(c) == IF Stops(c) THEN c ELSE <<store.nodes[Head(c)].parent>> \o c

LEMMA UpStart ==
    ASSUME NEW n \in Present
    PROVE  Up(n, <<n>>)
<1> DEFINE c == <<n>>
<1>1. c \in Seq(Present) /\ Len(c) = 1 /\ c[1] = n /\ DOMAIN c = {1}
  OBVIOUS
<1>2. IsInjective(c) /\ 1..(Len(c) - 1) = {}
  BY <1>1 DEF IsInjective
<1> HIDE DEF c
<1>3. Up(n, c)
  BY <1>1, <1>2 DEF Up
<1>4. QED
  BY <1>3 DEF c

LEMMA UpStep ==
    ASSUME Pulled, NEW n \in Present, NEW c, Up(n, c)
    PROVE  /\ c[1] = Root => ClimbStep(c) = c
           /\ c[1] # Root => Up(n, ClimbStep(c)) /\ Len(ClimbStep(c)) = Len(c) + 1
<1> DEFINE L == Len(c)
           q == store.nodes[c[1]].parent
           d == <<q>> \o c
<1>1. /\ c \in Seq(Present) /\ L \in Nat /\ L >= 1 /\ DOMAIN c = 1..L
      /\ 1 \in 1..L /\ L \in 1..L /\ c[1] \in Present /\ Head(c) = c[1] /\ c[L] = n
      /\ Len(Tail(c)) = L - 1 /\ \A i \in 1..(L - 1) : Tail(c)[i] = c[i + 1]
      /\ \A i \in 1..L : c[i] \in Present
  BY DEF Up
<1> HIDE DEF L
<1>2. ASSUME c[1] = Root PROVE ClimbStep(c) = c
  <2>1. store.nodes[Root].parent = None
    BY Recorded
  <2>2. QED
    BY <1>1, <1>2, <2>1 DEF ClimbStep, Stops
<1>3. ASSUME c[1] # Root
      PROVE  Up(n, ClimbStep(c)) /\ Len(ClimbStep(c)) = L + 1
  <2>1. q \in Present /\ q # None
    BY <1>1, <1>3, ParentsKid
  <2>2. ~ Contains(Tail(c), c[1])
    <3>1. \A i \in 1..(L - 1) : i + 1 \in 1..L /\ i + 1 # 1
      BY <1>1
    <3>2. \A i \in 1..(L - 1) : c[i + 1] # c[1]
      BY <1>1, <3>1 DEF Up, IsInjective
    <3>3. QED
      BY <1>1, <3>2 DEF Contains
  <2>3. ClimbStep(c) = d
    BY <1>1, <2>1, <2>2 DEF ClimbStep, Stops
  <2>4. /\ d \in Seq(Present) /\ Len(d) = L + 1 /\ DOMAIN d = 1..(L + 1)
        /\ d[1] = q /\ \A i \in 1..L : d[i + 1] = c[i]
    BY <1>1, <2>1 DEF L
  <2> HIDE DEF d, q
  <2>5. q \notin ToSet(c)
    <3>1. SUFFICES ASSUME NEW j \in 1..L, c[j] = q PROVE FALSE
      BY <1>1 DEF ToSet
    <3> DEFINE C == {c[i] : i \in 1..j}
    <3>2. C \subseteq Present /\ C # {}
      BY <1>1
    <3>3. ASSUME NEW i \in 1..j
          PROVE  c[i] # Root /\ store.nodes[c[i]].parent \in C
      <4>1. CASE i = 1
        BY <1>3, <3>1, <4>1, <1>1 DEF q
      <4>2. CASE i # 1
        <5>1. i - 1 \in 1..(Len(c) - 1) /\ i - 1 \in 1..j /\ (i - 1) + 1 = i
          BY <1>1, <4>2 DEF L
        <5>2. c[(i - 1) + 1] # Root /\ store.nodes[c[(i - 1) + 1]].parent = c[i - 1]
          BY <5>1 DEF Up
        <5>3. QED
          BY <5>1, <5>2
      <4>3. QED
        BY <4>1, <4>2
    <3>4. QED
      <4> HIDE DEF C
      <4>1. \A x \in C : x # Root /\ store.nodes[x].parent \in C
        BY <3>3 DEF C
      <4>2. QED
        BY <3>2, <4>1, NoLoop
  <2>6. IsInjective(d)
    <3>1. SUFFICES ASSUME NEW i \in 1..(L + 1), NEW j \in 1..(L + 1), d[i] = d[j]
                   PROVE  i = j
      BY <2>4 DEF IsInjective
    <3>2. ASSUME NEW k \in 1..(L + 1)
          PROVE  k = 1 \/ (k - 1 \in 1..L /\ d[k] = c[k - 1] /\ d[k] \in ToSet(c))
      <4>1. CASE k # 1
        <5>1. k - 1 \in 1..L /\ (k - 1) + 1 = k
          BY <1>1, <4>1
        <5>2. d[k] = c[k - 1]
          BY <2>4, <5>1
        <5>3. QED
          BY <1>1, <5>1, <5>2 DEF ToSet
      <4>2. QED
        BY <4>1
    <3>3. CASE i = 1 \/ j = 1
      BY <2>4, <2>5, <3>1, <3>2, <3>3
    <3>4. CASE i # 1 /\ j # 1
      <4>1. i - 1 \in DOMAIN c /\ j - 1 \in DOMAIN c /\ c[i - 1] = c[j - 1]
        BY <1>1, <3>1, <3>2, <3>4
      <4>2. i - 1 = j - 1
        BY <4>1 DEF Up, IsInjective
      <4>3. QED
        BY <4>2
    <3>5. QED
      BY <3>3, <3>4
  <2>7. d[L + 1] = n
    BY <1>1, <2>4
  <2>8. ASSUME NEW i \in 1..L PROVE d[i + 1] # Root /\ store.nodes[d[i + 1]].parent = d[i]
    <3>1. CASE i = 1
      BY <1>3, <2>4, <3>1, <1>1 DEF q
    <3>2. CASE i # 1
      <4>1. i - 1 \in 1..(Len(c) - 1) /\ (i - 1) + 1 = i /\ i - 1 \in 1..L
        BY <1>1, <3>2 DEF L
      <4>2. c[(i - 1) + 1] # Root /\ store.nodes[c[(i - 1) + 1]].parent = c[i - 1]
        BY <4>1 DEF Up
      <4>3. d[i + 1] = c[i] /\ d[i] = c[i - 1]
        BY <2>4, <4>1
      <4>4. QED
        BY <4>1, <4>2, <4>3
    <3>3. QED
      BY <3>1, <3>2
  <2>9. Len(d) >= 1 /\ Len(d) - 1 = L
    BY <1>1, <2>4
  <2>10. Up(n, d)
    BY <2>4, <2>6, <2>7, <2>8, <2>9 DEF Up
  <2>11. QED
    BY <2>3, <2>4, <2>10
<1>4. QED
  BY <1>2, <1>3 DEF L

LEMMA ClimbRounds ==
    ASSUME Pulled, NEW n \in Present
    PROVE  \E h : /\ h[0] = <<n>>
                  /\ \A k \in 1..N : h[k] = ClimbStep(h[k - 1])
                  /\ Climb(n) = h[N]
<1> DEFINE T == Seq(Ids)
           step == [c \in T |-> ClimbStep(c)]
           Eq(f) == f = [k \in 0..N |->
                           IF k = 0 THEN <<n>>
                           ELSE IF Stops(f[k - 1]) THEN f[k - 1]
                                ELSE <<store.nodes[Head(f[k - 1])].parent>> \o f[k - 1]]
<1>1. N \in Nat /\ n \in Ids
  BY FiniteIds DEF Present
<1>2. <<n>> \in T /\ step \in [T -> T]
  <2>1. ASSUME NEW c \in T PROVE ClimbStep(c) \in T
    <3>1. CASE Stops(c)
      BY <3>1 DEF ClimbStep
    <3>2. CASE ~ Stops(c)
      <4>1. Head(c) \in Present /\ store.nodes[Head(c)].parent # None
        BY <3>2 DEF Stops
      <4>2. store.nodes[Head(c)] \in NodeRecs
        BY <4>1, RecordOf
      <4>3. store.nodes[Head(c)].parent \in Ids
        BY <4>1, <4>2 DEF NodeRecs
      <4>4. QED
        BY <3>2, <4>3 DEF ClimbStep
    <3>3. QED
      BY <3>1, <3>2
  <2>2. <<n>> \in T
    BY <1>1
  <2>3. QED
    BY <2>1, <2>2
<1>3. PICK h \in [0..N -> T] : Rounds(h, N, <<n>>, step)
  <2> HIDE DEF T, step
  <2>1. QED
    BY <1>1, <1>2, RoundsExist
<1>4. ASSUME NEW k \in 1..N
      PROVE  h[k] = ClimbStep(h[k - 1])
  <2>1. k - 1 \in 0..N
    BY <1>1
  <2>2. h[k - 1] \in T
    BY <2>1, <1>3
  <2>3. step[h[k - 1]] = ClimbStep(h[k - 1])
    BY <2>2
  <2>4. QED
    BY <2>3, <1>3 DEF Rounds
<1>5. Eq([k \in 0..N |-> h[k]])
  <2> HIDE DEF step
  <2>1. \A k \in 0..N : k # 0 => k \in 1..N /\ k - 1 \in 0..N
    BY <1>1
  <2>2. h[0] = <<n>>
    BY <1>3 DEF Rounds
  <2>3. ASSUME NEW k \in 0..N
        PROVE  h[k] = IF k = 0 THEN <<n>>
                      ELSE IF Stops(h[k - 1]) THEN h[k - 1]
                           ELSE <<store.nodes[Head(h[k - 1])].parent>> \o h[k - 1]
    BY <1>4, <2>1, <2>2 DEF ClimbStep
  <2>4. QED
    BY <2>1, <2>3
<1>6. PICK f : Eq(f) /\ Climb(n) = f[N]
  BY <1>5, Zenon DEF Climb, N
<1>7. f[0] = <<n>> /\ \A k \in 1..N : f[k] = ClimbStep(f[k - 1])
  <2>1. 0 \in 0..N /\ \A k \in 1..N : k \in 0..N /\ k # 0
    BY <1>1
  <2>2. f[0] = <<n>>
    BY <1>6, <2>1
  <2>3. ASSUME NEW k \in 1..N PROVE f[k] = ClimbStep(f[k - 1])
    <3>1. f[k] = IF k = 0 THEN <<n>>
                 ELSE IF Stops(f[k - 1]) THEN f[k - 1]
                      ELSE <<store.nodes[Head(f[k - 1])].parent>> \o f[k - 1]
      <4>1. k \in 0..N
        BY <2>1
      <4>2. QED
        BY <1>6, <4>1, Zenon
    <3>2. QED
      BY <2>1, <3>1 DEF ClimbStep
  <2>4. QED
    BY <2>2, <2>3
<1>8. QED
  BY <1>6, <1>7, Zenon

\* The way up from a node of the table ends at the document, and is no longer
\* than the table is large.
LEMMA Climbed ==
    ASSUME Pulled, NEW n \in Present
    PROVE  /\ Up(n, Climb(n)) /\ Climb(n)[1] = Root
           /\ Len(Climb(n)) <= Cardinality(Present)
<1>1. PICK h : /\ h[0] = <<n>>
               /\ \A k \in 1..N : h[k] = ClimbStep(h[k - 1])
               /\ Climb(n) = h[N]
  BY ClimbRounds, Zenon
<1>2. N \in Nat
  BY FiniteIds
<1> DEFINE U == {k \in 0..N : Up(n, h[k]) /\ (h[k][1] = Root \/ Len(h[k]) = k + 1)}
<1>3. 0 \in U
  <2>1. Up(n, <<n>>) /\ Len(<<n>>) = 0 + 1
    BY UpStart
  <2>2. QED
    BY <1>1, <1>2, <2>1
<1>4. ASSUME NEW k \in 0..N, k \in U, k < N
      PROVE  k + 1 \in U
  <2>1. k + 1 \in 1..N /\ k + 1 \in 0..N /\ (k + 1) - 1 = k
    BY <1>2, <1>4
  <2>2. h[k + 1] = ClimbStep(h[k]) /\ Up(n, h[k]) /\ (h[k][1] = Root \/ Len(h[k]) = k + 1)
    BY <1>1, <1>4, <2>1
  <2>3. Up(n, h[k + 1]) /\ (h[k + 1][1] = Root \/ Len(h[k + 1]) = (k + 1) + 1)
    BY <2>2, UpStep
  <2>4. QED
    BY <2>1, <2>3
<1>5. Up(n, h[N]) /\ (h[N][1] = Root \/ Len(h[N]) = N + 1)
  <2> HIDE DEF U
  <2>1. N \in U
    <3>1. N \in 0..N /\ 0..N \subseteq U
      BY <1>2, <1>3, <1>4, AllUpTo
    <3>2. QED
      BY <3>1
  <2>2. QED
    BY <2>1 DEF U
<1>6. Len(h[N]) <= Cardinality(Present) /\ Cardinality(Present) <= N
  <2>1. h[N] \in Seq(Present) /\ IsInjective(h[N])
    BY <1>5 DEF Up
  <2>2. ToSet(h[N]) \subseteq Present
    BY <2>1 DEF ToSet
  <2>3. Present \subseteq Ids
    BY DEF Present
  <2>4. IsFiniteSet(Present) /\ Cardinality(Present) <= N
    BY <2>3, FiniteIds
  <2>5. Cardinality(ToSet(h[N])) <= Cardinality(Present)
    BY <2>2, <2>4, FS_Subset
  <2>6. QED
    BY <2>1, <2>4, <2>5, InjectiveCount
<1>7. h[N][1] = Root
  <2>1. Len(h[N]) \in Nat /\ Cardinality(Present) \in Nat
    <3>1. h[N] \in Seq(Present) /\ Present \subseteq Ids
      BY <1>5 DEF Up, Present
    <3>2. QED
      BY <3>1, FiniteIds
  <2>2. QED
    BY <1>2, <1>5, <1>6, <2>1
<1>8. QED
  BY <1>1, <1>5, <1>6, <1>7

\* A node is below those on its way up, and below no other.
LEMMA UpIsBelow ==
    ASSUME Pulled, NEW m \in Present, NEW n \in Present
    PROVE  Contains(Climb(m), n) <=> m \in Descendants(synced, n)
<1> DEFINE c == Climb(m)
           L == Len(c)
           D == Descendants(synced, n)
<1>1. /\ c \in Seq(Present) /\ L \in Nat /\ L >= 1 /\ c[L] = m /\ c[1] = Root
      /\ \A i \in 1..L : c[i] \in Present
      /\ \A i \in 1..(L - 1) : c[i + 1] # Root /\ store.nodes[c[i + 1]].parent = c[i]
  <2>1. Up(m, c) /\ c[1] = Root
    BY Climbed
  <2>2. c \in Seq(Present) /\ L >= 1 /\ c[L] = m
    BY <2>1 DEF Up
  <2>3. L \in Nat /\ \A i \in 1..L : c[i] \in Present
    BY <2>2
  <2>4. \A i \in 1..(L - 1) : c[i + 1] # Root /\ store.nodes[c[i + 1]].parent = c[i]
    BY <2>1 DEF Up
  <2>5. QED
    BY <2>1, <2>2, <2>3, <2>4
<1>2. /\ n \in D /\ D \subseteq Ids
      /\ \A x \in D : KidSet(synced, x) \subseteq D
      /\ \A S \in SUBSET Ids : n \in S /\ (\A x \in S : KidSet(synced, x) \subseteq S) => D \subseteq S
  <2>1. synced \in Files /\ Present \subseteq Ids
    BY Recorded
  <2>2. QED
    BY <2>1, LeastDescendants DEF KidSet
<1>3. ASSUME NEW x \in D
      PROVE  x = n \/ (x # Root /\ store.nodes[x].parent \in D)
  <2> DEFINE S == {y \in D : y = n \/ (y # Root /\ store.nodes[y].parent \in D)}
  <2>1. ASSUME NEW y \in S, NEW z \in KidSet(synced, y) PROVE z \in S
    <3>1. y \in D /\ y \in Ids /\ z \in D
      BY <1>2
    <3>2. z # Root /\ store.nodes[z].parent = y
      BY <3>1, KidsParent
    <3>3. QED
      BY <3>1, <3>2
  <2>2. n \in S /\ S \subseteq Ids
    BY <1>2
  <2>3. D \subseteq S
    <3> HIDE DEF S, D
    <3>1. QED
      BY <1>2, <2>1, <2>2
  <2>4. QED
    BY <2>3
<1> HIDE DEF c, L, D
<1>4. ASSUME NEW j \in 1..L, c[j] = n PROVE m \in D
  <2> DEFINE U == {k \in 0..(L - j) : c[j + k] \in D}
  <2>1. 0 \in U /\ L - j \in Nat
    <3>1. j + 0 = j /\ 0 \in 0..(L - j) /\ L - j \in Nat
      BY <1>1
    <3>2. QED
      BY <1>2, <1>4, <3>1
  <2>2. ASSUME NEW k \in 0..(L - j), k \in U, k < L - j PROVE k + 1 \in U
    <3>1. j + k \in 1..(L - 1) /\ (j + k) + 1 = j + (k + 1) /\ k + 1 \in 0..(L - j) /\ (j + k) + 1 \in 1..L
      BY <1>1, <2>2
    <3>2. c[(j + k) + 1] # Root /\ store.nodes[c[(j + k) + 1]].parent = c[j + k]
      BY <1>1, <3>1
    <3>3. c[(j + k) + 1] \in KidSet(synced, c[j + k])
      BY <1>1, <3>1, <3>2, ParentsKid
    <3>4. c[j + k] \in D
      BY <2>2
    <3>5. c[j + (k + 1)] \in D
      BY <1>2, <3>1, <3>3, <3>4
    <3>6. QED
      BY <3>1, <3>5
  <2>3. L - j \in U
    <3> HIDE DEF U
    <3>1. 0..(L - j) \subseteq U /\ L - j \in 0..(L - j)
      BY <2>1, <2>2, AllUpTo
    <3>2. QED
      BY <3>1
  <2>4. j + (L - j) = L
    BY <1>1
  <2>5. QED
    BY <1>1, <2>3, <2>4
<1>5. ASSUME m \in D, \A j \in 1..L : c[j] # n PROVE FALSE
  <2> DEFINE U == {k \in 0..(L - 1) : c[L - k] \in D}
  <2>1. 0 \in U /\ L - 1 \in Nat
    <3>1. L - 0 = L /\ 0 \in 0..(L - 1) /\ L - 1 \in Nat
      BY <1>1
    <3>2. QED
      BY <1>1, <1>5, <3>1
  <2>2. ASSUME NEW k \in 0..(L - 1), k \in U, k < L - 1 PROVE k + 1 \in U
    <3>1. /\ L - (k + 1) \in 1..(L - 1) /\ (L - (k + 1)) + 1 = L - k
          /\ k + 1 \in 0..(L - 1) /\ L - k \in 1..L
      BY <1>1, <2>2
    <3>2. store.nodes[c[(L - (k + 1)) + 1]].parent = c[L - (k + 1)]
      BY <1>1, <3>1
    <3>3. store.nodes[c[L - k]].parent = c[L - (k + 1)]
      BY <3>1, <3>2
    <3>4. c[L - k] \in D /\ c[L - k] # n
      BY <1>5, <2>2, <3>1
    <3>5. c[L - (k + 1)] \in D
      BY <1>3, <3>3, <3>4
    <3>6. QED
      BY <3>1, <3>5
  <2>3. L - 1 \in U
    <3> HIDE DEF U
    <3>1. 0..(L - 1) \subseteq U /\ L - 1 \in 0..(L - 1)
      BY <2>1, <2>2, AllUpTo
    <3>2. QED
      BY <3>1
  <2>4. L - (L - 1) = 1 /\ 1 \in 1..L
    BY <1>1
  <2>5. c[1] \in D /\ c[1] # n
    BY <1>5, <2>3, <2>4
  <2>6. QED
    BY <1>1, <1>3, <2>5
<1>6. QED
  BY <1>4, <1>5 DEF Contains, c, L, D

\* The page a record carries is the page its node lies below.
LEMMA PagesOf ==
    ASSUME Pulled, NEW n \in Present
    PROVE  /\ n = Root => store.nodes[n].page = Root
           /\ n \in Pages => store.nodes[n].page = n
           /\ n # Root => /\ store.nodes[n].page \in Pages \cap Present
                          /\ n \in Descendants(synced, store.nodes[n].page)
<1> DEFINE pg(x) == store.nodes[x].page
           Good(x) == pg(x) \in Pages \cap Present /\ x \in Descendants(synced, pg(x))
           S == {x \in Ids : x \in Present /\ x # Root => Good(x)}
<1>1. synced \in Files /\ Forest(synced) /\ Present = Live(synced) /\ Present \subseteq Ids
  BY Recorded
<1>2. ASSUME NEW x \in Present, x \in Pages PROVE pg(x) = x
  <2>1. x # Root /\ pg(x) = PageOf(synced, x, store.nodes[store.nodes[x].parent].page)
    BY <1>2, Recorded, TreeAssumption
  <2>2. Type(synced, x) = "CANVAS"
    BY <1>1, <1>2, TypesOfNodes
  <2>3. QED
    BY <2>1, <2>2 DEF PageOf
<1>3. ASSUME NEW m \in S, NEW x \in KidSet(synced, m)
      PROVE  x \in S
  <2>1. /\ m \in Ids /\ m \in Present /\ x \in Present /\ x # Root /\ x \in Ids
        /\ pg(x) = PageOf(synced, x, pg(m))
    BY <1>1, KidsParent
  <2>2. CASE x \in Pages
    <3>1. pg(x) = x
      BY <1>2, <2>1, <2>2
    <3>2. x \in Descendants(synced, x)
      BY <2>1, BelowLive
    <3>3. QED
      BY <2>1, <2>2, <3>1, <3>2
  <2>3. CASE x \notin Pages
    <3>1. m # Root /\ x \in Layers
      BY <1>1, <2>1, <2>3 DEF Forest, Ids
    <3>2. Good(m)
      BY <2>1, <3>1
    <3>3. Type(synced, x) \notin {"DOCUMENT", "CANVAS"}
      BY <1>1, <2>1, <2>3, TypesOfNodes
    <3>4. pg(m) \in Ids /\ pg(m) # None
      BY <1>1, <3>2, TreeAssumption
    <3>5. pg(x) = pg(m)
      BY <2>1, <3>3, <3>4 DEF PageOf
    <3>6. x \in Descendants(synced, pg(m))
      BY <1>1, <3>2, <3>4, LeastDescendants DEF KidSet
    <3>7. Good(x)
      BY <3>2, <3>5, <3>6
    <3>8. QED
      BY <2>1, <3>7
  <2>4. QED
    BY <2>2, <2>3
<1>4. Present \subseteq S
  <2>1. Root \in S
    BY <1>1, LiveNodes
  <2> HIDE DEF S
  <2>2. S \subseteq Ids
    BY DEF S
  <2>3. QED
    BY <1>1, <1>3, <2>1, <2>2, LiveNodes
<1>5. n # Root => Good(n)
  BY <1>4
<1>6. n = Root => pg(n) = Root
  BY Recorded
<1>7. QED
  BY <1>2, <1>5, <1>6

LEMMA PageIsScope ==
    ASSUME Pulled, NEW p \in Pages, NEW n \in Present
    PROVE  store.nodes[n].page = p <=> n \in Descendants(synced, p)
<1>1. /\ synced \in Files /\ Forest(synced) /\ Present = Live(synced) /\ Present \subseteq Ids
      /\ p \in Ids /\ p # Root /\ p # None
  BY Recorded, TreeAssumption DEF Ids
<1>2. ASSUME store.nodes[n].page = p PROVE n \in Descendants(synced, p)
  BY <1>1, <1>2, PagesOf
<1>3. ASSUME n \in Descendants(synced, p) PROVE store.nodes[n].page = p
  <2> DEFINE S == {x \in Ids : x \in Present => x # Root /\ store.nodes[x].page = p}
  <2>1. p \in S
    BY <1>1, PagesOf
  <2>2. ASSUME NEW m \in S, NEW x \in ToSet(synced.kids[m]) PROVE x \in S
    <3>1. x \in KidSet(synced, m) /\ m \in Ids
      BY <2>2 DEF KidSet
    <3>2. /\ m \in Present /\ x \in Present /\ x # Root /\ x \in Ids
          /\ store.nodes[x].page = PageOf(synced, x, store.nodes[m].page)
      BY <1>1, <3>1, KidsParent
    <3>3. m # Root /\ store.nodes[m].page = p
      BY <3>2
    <3>4. x \in Layers
      BY <1>1, <3>1, <3>3 DEF Forest, Ids
    <3>5. Type(synced, x) \notin {"DOCUMENT", "CANVAS"}
      BY <1>1, <3>2, <3>4, TypesOfNodes, TreeAssumption
    <3>6. store.nodes[x].page = p
      BY <1>1, <3>2, <3>3, <3>5 DEF PageOf
    <3>7. QED
      BY <3>2, <3>6
  <2>3. Descendants(synced, p) \subseteq S
    <3>1. S \subseteq Ids
      OBVIOUS
    <3> HIDE DEF S
    <3>2. \A m \in S : ToSet(synced.kids[m]) \subseteq S
      BY <2>2
    <3>3. QED
      BY <1>1, <2>1, <3>1, <3>2, LeastDescendants
  <2>4. QED
    BY <1>3, <2>3
<1>4. QED
  BY <1>2, <1>3

LEMMA FindIsFile ==
    ASSUME Pulled, NEW type, NEW page \in Pages \cup {None}, NEW under \in Live(synced) \cup {None}
    PROVE  Find(type, page, under) =
               {n \in Within(synced, page) \cap Within(synced, under) : Type(synced, n) = type}
<1>1. Present = Live(synced) /\ Present \subseteq Ids
  BY Recorded
<1>2. ASSUME NEW n \in Present
      PROVE  n \in Scope(under) <=> n \in Within(synced, under)
  <2>1. CASE under = None
    BY <1>1, <2>1 DEF Scope, Within
  <2>2. CASE under # None
    BY <1>1, <2>2, ScopedBelow DEF Scope, Within
  <2>3. QED
    BY <2>1, <2>2
<1>3. ASSUME NEW n \in Present
      PROVE  InPage(n, page) <=> n \in Within(synced, page)
  <2>1. CASE page = None
    BY <1>1, <2>1 DEF InPage, Within
  <2>2. CASE page # None
    <3>1. page \in Pages
      BY <2>2
    <3>2. QED
      BY <1>1, <2>2, <3>1, PageIsScope DEF InPage, Within
  <2>3. QED
    BY <2>1, <2>2
<1>4. \A n \in Present : n \in Found("by_type", type) <=> Type(synced, n) = type
  BY FoundByType
<1>5. Within(synced, page) \subseteq Present
  BY <1>1 DEF Within
<1> HIDE DEF Scope, Within, InPage
<1>6. QED
  BY <1>2, <1>3, <1>4, <1>5 DEF Find

\* What lies where is the same by the children index, by the parents and by the
\* page of a record, and is what the file says (query.rs scope_ids, path, stats,
\* find, text).
THEOREM ScopesAreTheFiles == Spec => []ScopesAgree
<1>1. ASSUME IInv PROVE ScopesAgree
  <2>1. CASE synced = None
    <3>1. Present = {}
      BY <1>1, <2>1 DEF IInv, Present
    <3>2. QED
      BY <2>1, <3>1 DEF ScopesAgree
  <2>2. CASE synced # None
    <3>1. Pulled
      BY <1>1, <2>2 DEF Pulled
    <3>2. ASSUME NEW n \in Present
          PROVE  Path(n) = Climb(n) /\ DepthOf(n) = Len(Path(n)) - 1
      <4>1. Climb(n) \in Seq(Present) /\ Len(Climb(n)) >= 1 /\ Climb(n)[1] = Root
        BY <3>1, Climbed DEF Up
      <4>2. Head(Climb(n)) = Root
        BY <4>1
      <4>3. Root \in Present /\ store.nodes[Root].parent = None
        BY <3>1, Recorded
      <4>4. QED
        BY <4>2, <4>3 DEF Path, DepthOf
    <3>3. ASSUME NEW n \in Present
          PROVE  Present \cap ScopeIds(n) = {m \in Present : Contains(Path(m), n)}
      <4>1. ASSUME NEW m \in Present
            PROVE  m \in ScopeIds(n) <=> Contains(Path(m), n)
        <5>1. m \in ScopeIds(n) <=> m \in Descendants(synced, n)
          BY <3>1, ScopedBelow
        <5>2. Contains(Climb(m), n) <=> m \in Descendants(synced, n)
          BY <3>1, UpIsBelow
        <5>3. QED
          BY <3>2, <5>1, <5>2
      <4>2. QED
        BY <4>1
    <3>4. \A type \in LayerTypes \cup {"CANVAS"},
             page \in Pages \cup {None}, under \in Live(synced) \cup {None} :
              Find(type, page, under) =
                  {n \in Within(synced, page) \cap Within(synced, under) :
                      Type(synced, n) = type}
      BY <3>1, FindIsFile
    <3>5. QED
      BY <3>2, <3>3, <3>4 DEF ScopesAgree
  <2>3. QED
    BY <2>1, <2>2
<1>2. QED
  BY <1>1, Invariance, PTL

\* A search answers with as many hits of the scope as there are, up to the limit
\* (query.rs search).
THEOREM SearchesFillLimit == Spec => []SearchFillsLimit
<1>1. ASSUME IInv PROVE SearchFillsLimit
  <2>1. SUFFICES ASSUME synced # None, NEW under \in Live(synced), NEW limit \in 1..2
                 PROVE  LET all  == ToSet(Rank) \cap Descendants(synced, under)
                            hits == ToSet(Search(limit, under))
                        IN  hits \subseteq all /\ (hits = all \/ Cardinality(hits) = limit)
    BY DEF SearchFillsLimit
  <2> DEFINE seq == Chosen(Rank, Present \cap Scope(under))
  <2>2. Pulled
    BY <1>1, <2>1 DEF Pulled
  <2>3. Present \cap Scope(under) = Descendants(synced, under)
    <3>1. under \in Present /\ under \in Ids /\ under # None
      BY <2>2, Recorded, TreeAssumption
    <3>2. Scope(under) = Descendants(synced, under)
      BY <2>2, <3>1, ScopedBelow DEF Scope
    <3>3. QED
      BY <2>2, <3>1, <3>2, BelowLive
  <2>4. Rank \in Seq(Ids) /\ IsInjective(Rank)
    BY TreeAssumption
  <2>5. /\ seq \in Seq(Ids) /\ IsInjective(seq) /\ Len(seq) \in Nat
        /\ ToSet(seq) = ToSet(Rank) \cap Descendants(synced, under)
    <3>1. seq \in Seq(Ids) /\ ToSet(seq) = ToSet(Rank) \cap (Present \cap Scope(under))
      BY <2>4, ChosenElements
    <3>2. IsInjective(seq)
      BY <2>4, ChosenInjective
    <3>3. Len(seq) \in Nat
      BY <3>1
    <3>4. QED
      BY <2>3, <3>1, <3>2, <3>3
  <2>6. Search(limit, under) = IF Len(seq) <= limit THEN seq ELSE SubSeq(seq, 1, limit)
    BY DEF Search
  <2> HIDE DEF seq
  <2>7. CASE Len(seq) <= limit
    BY <2>5, <2>6, <2>7
  <2>8. CASE ~ (Len(seq) <= limit)
    <3>1. limit \in 0..Len(seq)
      BY <2>5, <2>8
    <3>2. /\ SubSeq(seq, 1, limit) \in Seq(Ids) /\ Len(SubSeq(seq, 1, limit)) = limit
          /\ IsInjective(SubSeq(seq, 1, limit))
          /\ ToSet(SubSeq(seq, 1, limit)) \subseteq ToSet(seq)
      BY <2>5, <3>1, InjectiveCount
    <3>3. Cardinality(ToSet(SubSeq(seq, 1, limit))) = limit
      BY <3>2, InjectiveCount
    <3>4. QED
      BY <2>5, <2>6, <2>8, <3>2, <3>3
  <2>9. QED
    BY <2>7, <2>8
<1>2. QED
  BY <1>1, Invariance, PTL

-----------------------------------------------------------------------------
(* References: components, styles, variables *)

LEMMA LooksOfNodes ==
    ASSUME NEW f \in Files, NEW n \in Ids
    PROVE  /\ Look(f, n).component \in DOMAIN Component \cup {None}
           /\ \A u \in Look(f, n).styles : u[2] \in DOMAIN Style
           /\ \A b \in Look(f, n).bound : b[2] \in Variables
<1>1. n \in Layers => f.look[n] \in Looks
  BY FileParts
<1>2. n = Root \/ n \in Pages \/ n \in Layers
  BY DEF Ids
<1>3. \A t : Bare(t).component = None /\ Bare(t).styles = {} /\ Bare(t).bound = {}
  BY DEF Bare
<1>4. CASE n = Root \/ n \in Pages
  <2>1. Look(f, n) = Bare("DOCUMENT") \/ Look(f, n) = Bare("CANVAS")
    BY <1>4 DEF Look
  <2>2. QED
    BY <1>3, <2>1
<1>5. CASE n # Root /\ n \in Layers
  <2>1. Look(f, n) \in Looks
    BY <1>1, <1>5, TreeAssumption DEF Look
  <2>2. QED
    BY <2>1, DesignAssumption
<1>6. QED
  BY <1>2, <1>4, <1>5

LEMMA FoundInstances ==
    ASSUME Pulled, NEW c, c # None
    PROVE  Found("instances_of", c) = {n \in Present : Look(synced, n).component = c}
<1>1. ASSUME NEW n \in Present
      PROVE  (\E e \in Contributes(store.nodes[n])["instances_of"] : e.of = c)
                <=> Look(synced, n).component = c
  <2> DEFINE terms == {Look(synced, n).component} \ {None}
  <2>1. Contributes(store.nodes[n])["instances_of"] = Edges(store.nodes[n], terms)
    <3>1. store.nodes[n].look = Look(synced, n)
      BY RecordOf
    <3>2. QED
      BY <3>1, Contributed
  <2>2. (\E e \in Edges(store.nodes[n], terms) : e.of = c) <=> c \in terms
    BY EdgesOf
  <2>3. QED
    BY <2>1, <2>2
<1>2. "instances_of" \in Indexes
  BY DEF Indexes
<1>3. QED
  BY <1>1, <1>2, FoundBy

LEMMA FoundStyled ==
    ASSUME Pulled, NEW s
    PROVE  Found("styled_by", s) = {n \in Present : \E u \in Look(synced, n).styles : u[2] = s}
<1>1. ASSUME NEW n \in Present
      PROVE  (\E e \in Contributes(store.nodes[n])["styled_by"] : e.of = s)
                <=> \E u \in Look(synced, n).styles : u[2] = s
  <2> DEFINE terms == {u[2] : u \in Look(synced, n).styles}
  <2>1. Contributes(store.nodes[n])["styled_by"] = Edges(store.nodes[n], terms)
    <3>1. store.nodes[n].look = Look(synced, n)
      BY RecordOf
    <3>2. QED
      BY <3>1, Contributed
  <2>2. (\E e \in Edges(store.nodes[n], terms) : e.of = s) <=> s \in terms
    BY EdgesOf
  <2>3. QED
    BY <2>1, <2>2
<1>2. "styled_by" \in Indexes
  BY DEF Indexes
<1>3. QED
  BY <1>1, <1>2, FoundBy

LEMMA FoundBound ==
    ASSUME Pulled, NEW v
    PROVE  Found("bound_to", v) = {n \in Present : \E b \in Look(synced, n).bound : b[2] = v}
<1>1. ASSUME NEW n \in Present
      PROVE  (\E e \in Contributes(store.nodes[n])["bound_to"] : e.of = v)
                <=> \E b \in Look(synced, n).bound : b[2] = v
  <2> DEFINE terms == {b[2] : b \in Look(synced, n).bound}
  <2>1. Contributes(store.nodes[n])["bound_to"] = Edges(store.nodes[n], terms)
    <3>1. store.nodes[n].look = Look(synced, n)
      BY RecordOf
    <3>2. QED
      BY <3>1, Contributed
  <2>2. (\E e \in Edges(store.nodes[n], terms) : e.of = v) <=> v \in terms
    BY EdgesOf
  <2>3. QED
    BY <2>1, <2>2
<1>2. "bound_to" \in Indexes
  BY DEF Indexes
<1>3. QED
  BY <1>1, <1>2, FoundBy

\* What the tables hold, and what it is known by.
LEMMA ComponentFacts ==
    ASSUME Pulled, NEW c \in Components
    PROVE  /\ c # None /\ c \in DOMAIN Component
           /\ Component[c].set \in DOMAIN SetName \cup {None}
           /\ Component[c].key \notin Components
           /\ \A d \in Components : Component[d].key = Component[c].key => d = c
           /\ Component[c].set # None => Component[c].set \in ComponentSets
<1>1. synced \in Files /\ Live(synced) \subseteq Ids /\ synced # None
  BY Recorded DEF Pulled
<1>2. ASSUME NEW d \in Components PROVE d \in DOMAIN Component /\ d # None
  <2>1. CASE d \in Live(synced) /\ d \in DOMAIN Component
    BY <1>1, <2>1, TreeAssumption
  <2>2. CASE d \in {Look(synced, n).component : n \in Live(synced)} \ {None}
    BY <1>1, <2>2, LooksOfNodes
  <2>3. QED
    BY <1>1, <2>1, <2>2 DEF Components
<1>3. /\ Component[c].set \in DOMAIN SetName \cup {None}
      /\ Component[c].key \notin DOMAIN Component
      /\ \A d \in Components : Component[d].key = Component[c].key => d = c
  BY <1>2, DesignAssumption
<1>4. Component[c].set # None => Component[c].set \in ComponentSets
  BY DEF ComponentSets
<1>5. QED
  BY <1>2, <1>3, <1>4

\* The nodes of the file that instance one of the components.
UsersOf(ids) == {n \in Live(synced) : Look(synced, n).component \in ids}

LEMMA InstancesOfResolved ==
    ASSUME Pulled, NEW target, ResolveComponentIds(target) \subseteq Components
    PROVE  Instances(target) = UsersOf(ResolveComponentIds(target))
<1> DEFINE ids == ResolveComponentIds(target)
<1>1. \A c \in ids : Found("instances_of", c) = {n \in Present : Look(synced, n).component = c}
  BY ComponentFacts, FoundInstances
<1>2. Present = Live(synced)
  BY Recorded
<1>3. Instances(target) = Present \cap UNION {Found("instances_of", c) : c \in ids}
  BY DEF Instances
<1> HIDE DEF ids
<1>4. ASSUME NEW n \in Present
      PROVE  n \in UNION {Found("instances_of", c) : c \in ids} <=> Look(synced, n).component \in ids
  <2>1. ASSUME NEW c \in ids, n \in Found("instances_of", c) PROVE Look(synced, n).component = c
    BY <1>1, <2>1
  <2>2. ASSUME Look(synced, n).component \in ids
        PROVE  n \in Found("instances_of", Look(synced, n).component)
    BY <1>1, <2>2
  <2>3. QED
    BY <2>1, <2>2
<1>5. QED
  BY <1>2, <1>3, <1>4 DEF UsersOf, ids

LEMMA ResolvedById ==
    ASSUME Pulled, NEW c \in Components
    PROVE  Instances(c) = UsersOf({c})
<1>1. ResolveComponentIds(c) = {c}
  BY DEF ResolveComponentIds
<1>2. QED
  BY <1>1, InstancesOfResolved

LEMMA ResolvedByKey ==
    ASSUME Pulled, NEW c \in Components
    PROVE  Instances(Component[c].key) = UsersOf({c})
<1> DEFINE keyed == {d \in Components : Component[d].key = Component[c].key}
<1>1. Component[c].key \notin Components /\ keyed = {c}
  BY ComponentFacts
<1>2. ResolveComponentIds(Component[c].key) = {c}
  BY <1>1 DEF ResolveComponentIds
<1>3. QED
  BY <1>2, InstancesOfResolved

LEMMA ResolvedByName ==
    ASSUME Pulled, NEW c \in Components,
           Component[c].name \notin Components \cup {Component[d].key : d \in Components},
           Component[c].name \notin Range(SetName)
    PROVE  Instances(Component[c].name) = UsersOf({d \in Components : Component[d].name = Component[c].name})
<1> DEFINE target == Component[c].name
           keyed == {d \in Components : Component[d].key = target}
           sets == {s \in ComponentSets : SetName[s] = target}
<1>1. keyed = {}
  OBVIOUS
<1>2. sets = {}
  <2>1. ComponentSets \subseteq DOMAIN SetName
    BY ComponentFacts DEF ComponentSets
  <2>2. QED
    BY <2>1 DEF Range
<1>3. ResolveComponentIds(target) = Named(target)
  BY <1>1, <1>2 DEF ResolveComponentIds
<1>4. Named(target) = {d \in Components : Component[d].name = Component[c].name}
  BY DEF Named
<1>5. QED
  BY <1>3, <1>4, InstancesOfResolved

LEMMA ResolvedBySet ==
    ASSUME Pulled, NEW c \in Components, Component[c].set # None,
           SetName[Component[c].set] \notin Components \cup {Component[d].key : d \in Components}
    PROVE  UsersOf({c}) \subseteq Instances(SetName[Component[c].set])
<1> DEFINE target == SetName[Component[c].set]
           keyed == {d \in Components : Component[d].key = target}
           sets == {s \in ComponentSets : SetName[s] = target}
<1>1. keyed = {}
  OBVIOUS
<1>2. Component[c].set \in sets
  BY ComponentFacts
<1>3. ResolveComponentIds(target) = InSets(sets)
  BY <1>1, <1>2 DEF ResolveComponentIds
<1>4. c \in InSets(sets) /\ InSets(sets) \subseteq Components
  BY <1>2 DEF InSets
<1>5. QED
  BY <1>3, <1>4, InstancesOfResolved DEF UsersOf

LEMMA EveryComponentListed ==
    ASSUME Pulled
    PROVE  Components = UNION (Range(Inventory.sets) \cup {Inventory.components})
<1>1. /\ Inventory.sets = [s \in ComponentSets |-> InSets({s})]
      /\ Inventory.components = InSets({None})
  BY DEF Inventory
<1>2. Range(Inventory.sets) = {InSets({s}) : s \in ComponentSets}
  BY <1>1 DEF Range
<1>3. \A sets : InSets(sets) \subseteq Components
  BY DEF InSets
<1>4. ASSUME NEW c \in Components
      PROVE  c \in InSets({None}) \/ \E s \in ComponentSets : c \in InSets({s})
  BY ComponentFacts DEF InSets
<1>5. QED
  BY <1>1, <1>2, <1>3, <1>4

LEMMA StyleUses ==
    ASSUME Pulled, NEW s \in DOMAIN Style
    PROVE  LET users == {n \in Live(synced) : \E u \in Look(synced, n).styles : u[2] = s}
           IN  Uses(s) = users /\ StyleRow(s).uses = Cardinality(users)
<1> DEFINE users == {n \in Live(synced) : \E u \in Look(synced, n).styles : u[2] = s}
<1>1. Present = Live(synced) /\ synced \in Files /\ Present \subseteq Ids
  BY Recorded
<1>2. Found("styled_by", s) = users
  BY <1>1, FoundStyled
<1>3. Found("bound_to", s) = {}
  <2>1. s \notin Variables
    BY DesignAssumption
  <2>2. \A n \in Present : \A b \in Look(synced, n).bound : b[2] \in Variables
    BY <1>1, LooksOfNodes
  <2>3. QED
    BY <2>1, <2>2, FoundBound
<1>4. users \subseteq Present
  BY <1>1
<1> HIDE DEF users
<1>5. Uses(s) = users
  BY <1>2, <1>3, <1>4 DEF Uses
<1>6. Consumers(s) \in Seq(Ids) /\ IsInjective(Consumers(s)) /\ ToSet(Consumers(s)) = users
  <2>1. IdOrder \in Seq(Ids) /\ IsInjective(IdOrder) /\ ToSet(IdOrder) = Ids
    BY DesignAssumption
  <2>2. /\ Chosen(IdOrder, users) \in Seq(Ids)
        /\ ToSet(Chosen(IdOrder, users)) = ToSet(IdOrder) \cap users
    BY <2>1, ChosenElements
  <2>3. IsInjective(Chosen(IdOrder, users))
    BY <2>1, ChosenInjective
  <2>4. QED
    BY <1>1, <1>2, <1>4, <2>1, <2>2, <2>3 DEF Consumers
<1>7. Len(Consumers(s)) = Cardinality(users)
  BY <1>6, InjectiveCount
<1>8. QED
  BY <1>5, <1>7 DEF StyleRow, users

\* Which nodes use a component, a style: the indexes answer as the file does, by
\* whatever name a component is asked for, and no component is left out of the
\* inventory (query.rs instances, uses, components).
THEOREM ReferencesAreFound == Spec => []ReferencesFound
<1>1. ASSUME IInv PROVE ReferencesFound
  <2>1. CASE synced = None
    BY <2>1 DEF ReferencesFound
  <2>2. CASE synced # None
    <3>1. Pulled
      BY <1>1, <2>2 DEF Pulled
    <3>2. ASSUME NEW c \in Components
          PROVE  LET named == {d \in Components : Component[d].name = Component[c].name}
                     handles == Components \cup {Component[d].key : d \in Components}
                     users(ids) == {n \in Live(synced) : Look(synced, n).component \in ids}
                 IN  /\ Instances(c) = users({c})
                     /\ Instances(Component[c].key) = users({c})
                     /\ Component[c].name \notin handles \cup Range(SetName)
                           => Instances(Component[c].name) = users(named)
                     /\ Component[c].set # None /\ SetName[Component[c].set] \notin handles
                           => users({c}) \subseteq Instances(SetName[Component[c].set])
      <4>1. Instances(c) = UsersOf({c}) /\ Instances(Component[c].key) = UsersOf({c})
        BY <3>1, ResolvedById, ResolvedByKey
      <4>2. ASSUME Component[c].name \notin (Components \cup {Component[d].key : d \in Components})
                                            \cup Range(SetName)
            PROVE  Instances(Component[c].name)
                     = UsersOf({d \in Components : Component[d].name = Component[c].name})
        BY <3>1, <4>2, ResolvedByName
      <4>3. ASSUME Component[c].set # None,
                   SetName[Component[c].set] \notin Components \cup {Component[d].key : d \in Components}
            PROVE  UsersOf({c}) \subseteq Instances(SetName[Component[c].set])
        BY <3>1, <4>3, ResolvedBySet
      <4>4. QED
        BY <4>1, <4>2, <4>3 DEF UsersOf
    <3>3. Components = UNION (Range(Inventory.sets) \cup {Inventory.components})
      BY <3>1, EveryComponentListed
    <3>4. ASSUME NEW s \in DOMAIN Style
          PROVE  LET users == {n \in Live(synced) : \E u \in Look(synced, n).styles : u[2] = s}
                 IN  Uses(s) = users /\ StyleRow(s).uses = Cardinality(users)
      BY <3>1, StyleUses
    <3>5. QED
      BY <3>2, <3>3, <3>4, Zenon DEF ReferencesFound
  <2>3. QED
    BY <2>1, <2>2
<1>2. QED
  BY <1>1, Invariance, PTL

-----------------------------------------------------------------------------
(* Scans: variables and statistics *)

LEMMA BoundSites ==
    ASSUME Pulled, NEW v \in Variables
    PROVE  /\ \A b \in Sites(v) : b.id \in Present /\ b.id \in Ids
           /\ Uses(v) = {b.id : b \in Sites(v)}
           /\ Uses(v) # {} => Sites(v) # {}
<1> DEFINE at(n) == {[id |-> n, pointer |-> b[1]] : b \in {x \in store.nodes[n].look.bound : x[2] = v}}
           users == {n \in Present : \E b \in Look(synced, n).bound : b[2] = v}
<1>1. Present = Live(synced) /\ synced \in Files /\ Present \subseteq Ids
  BY Recorded
<1>2. Sites(v) = UNION {at(n) : n \in Present}
  BY DEF Sites
<1>3. \A n : \A b \in at(n) : b.id = n
  OBVIOUS
<1>4. ASSUME NEW n \in Present PROVE at(n) # {} <=> n \in users
  <2>1. store.nodes[n].look = Look(synced, n)
    BY RecordOf
  <2>2. QED
    BY <2>1
<1> HIDE DEF at
<1>5. {b.id : b \in Sites(v)} = users
  <2>1. ASSUME NEW b \in Sites(v) PROVE b.id \in users /\ b.id \in Present
    BY <1>2, <1>3, <1>4
  <2>2. ASSUME NEW n \in users PROVE \E b \in Sites(v) : b.id = n
    BY <1>2, <1>3, <1>4
  <2> HIDE DEF users
  <2>3. QED
    BY <2>1, <2>2
<1>6. Found("styled_by", v) = {}
  <2>1. v \notin DOMAIN Style
    BY DesignAssumption
  <2>2. \A n \in Present : \A u \in Look(synced, n).styles : u[2] \in DOMAIN Style
    BY <1>1, LooksOfNodes
  <2>3. QED
    BY <2>1, <2>2, FoundStyled
<1>7. Found("bound_to", v) = users /\ users \subseteq Present
  BY FoundBound
<1> HIDE DEF users
<1>8. Uses(v) = users
  BY <1>6, <1>7 DEF Uses
<1>9. QED
  BY <1>1, <1>5, <1>7, <1>8

LEMMA SiteValues ==
    ASSUME Pulled, NEW v \in Variables, NEW b \in Sites(v),
           NEW value \in At(Look(synced, b.id).raw, b.pointer)
    PROVE  /\ v \in DOMAIN VarRows /\ value \in VarRows[v].observed
           /\ b.id \in Where(b.pointer, value, None, b.id)
<1>1. b.id \in Present /\ b.id \in Ids /\ b.id # None
  BY BoundSites, TreeAssumption
<1>2. store.nodes[b.id].look = Look(synced, b.id)
  BY <1>1, RecordOf
<1>3. value \in Observed(v)
  BY <1>2 DEF Observed
<1>4. v \in DOMAIN VarRows /\ VarRows[v].observed = Observed(v)
  BY DEF VarRows
<1>5. b.id \in Scope(b.id)
  BY <1>1, ScopedBelow, BelowLive DEF Scope
<1>6. b.id \in Where(b.pointer, value, None, b.id)
  BY <1>1, <1>2, <1>5 DEF Where, InPage
<1>7. QED
  BY <1>3, <1>4, <1>6

LEMMA TypesCounted ==
    ASSUME Pulled, NEW t \in DOMAIN ByType
    PROVE  ByType[t] = Cardinality(Find(t, None, None))
<1>1. ByType[t] = Cardinality({n \in Present : store.nodes[n].look.type = t})
  BY DEF ByType
<1>2. Find(t, None, None) = {n \in Present : store.nodes[n].look.type = t}
  <2>1. Found("by_type", t) = {n \in Present : Type(synced, n) = t}
    BY FoundByType
  <2>2. \A n \in Present : Type(synced, n) = store.nodes[n].look.type /\ n \in Ids
    BY RecordOf DEF Type
  <2>3. QED
    BY <2>1, <2>2 DEF Find, Scope, InPage
<1>3. QED
  BY <1>1, <1>2

LEMMA PagesCounted ==
    ASSUME Pulled, NEW p \in DOMAIN ByPage
    PROVE  ByPage[p] = Cardinality(ScopeIds(p)) - 1
<1> DEFINE D == Descendants(synced, p)
           on == {n \in Contents : store.nodes[n].page = p}
<1>1. synced \in Files /\ Present = Live(synced) /\ Present \subseteq Ids
  BY Recorded
<1>2. ASSUME NEW n \in Present
      PROVE  n \in Contents <=> n # Root /\ n \notin Pages
  <2>1. Type(synced, n) = store.nodes[n].look.type
    BY RecordOf DEF Type
  <2>2. QED
    BY <1>1, <2>1, TypesOfNodes DEF Contents
<1>3. Contents \subseteq Present
  BY DEF Contents
<1>4. p \in Pages /\ p \in Present
  <2>1. PICK n \in Contents : p = store.nodes[n].page
    BY DEF ByPage
  <2>2. n \in Present /\ n # Root
    BY <1>2, <1>3, <2>1
  <2>3. QED
    BY <2>1, <2>2, PagesOf
<1>5. D \subseteq Present /\ p \in D
  BY <1>4, BelowLive
<1>6. on = D \ {p}
  <2>1. ASSUME NEW n \in on PROVE n \in D \ {p}
    <3>1. n \in Present /\ n \notin Pages /\ store.nodes[n].page = p
      BY <1>2, <1>3
    <3>2. QED
      BY <1>4, <3>1, PageIsScope
  <2>2. ASSUME NEW n \in D \ {p} PROVE n \in on
    <3>1. n \in Present /\ n # p
      BY <1>5
    <3>2. store.nodes[n].page = p
      BY <1>4, <3>1, PageIsScope
    <3>3. n \notin Pages
      BY <3>1, <3>2, PagesOf
    <3>4. n # Root
      BY <1>4, <3>1, <3>2, PagesOf, TreeAssumption
    <3>5. QED
      BY <1>2, <3>1, <3>2, <3>3, <3>4
  <2>3. QED
    BY <2>1, <2>2
<1>7. Cardinality(D \ {p}) = Cardinality(D) - 1
  <2>1. IsFiniteSet(D)
    BY <1>1, <1>5, FiniteIds
  <2>2. QED
    BY <1>5, <2>1, FS_RemoveElement
<1>8. ByPage[p] = Cardinality(on)
  BY DEF ByPage
<1>9. ScopeIds(p) = D
  BY ScopedBelow
<1>10. QED
  BY <1>6, <1>7, <1>8, <1>9

LEMMA DepthBounded ==
    ASSUME Pulled
    PROVE  MaxDepth < Cardinality(Present)
<1> DEFINE S == {0} \cup {DepthOf(n) : n \in Present}
           b == Cardinality(Present) - 1
<1>1. Present \subseteq Ids /\ Root \in Present
  BY Recorded
<1>2. IsFiniteSet(Present) /\ Cardinality(Present) \in Nat
  BY <1>1, FiniteIds
<1>3. Cardinality(Present) # 0
  BY <1>1, <1>2, FS_EmptySet
<1>4. b \in Nat
  BY <1>2, <1>3
<1>5. ASSUME NEW n \in Present PROVE DepthOf(n) \in 0..b
  <2>1. Up(n, Climb(n)) /\ Len(Climb(n)) <= Cardinality(Present)
    BY Climbed
  <2>2. Climb(n) \in Seq(Present) /\ Len(Climb(n)) >= 1
    BY <2>1 DEF Up
  <2>3. Len(Climb(n)) \in Nat
    BY <2>2
  <2>4. QED
    BY <1>2, <2>1, <2>2, <2>3 DEF DepthOf
<1>6. S \subseteq 0..b /\ S # {}
  BY <1>4, <1>5
<1>7. Max(S) \in S
  <2> HIDE DEF S, b
  <2>1. QED
    BY <1>4, <1>6, GreatestOfSome
<1>8. MaxDepth = Max(S)
  BY DEF MaxDepth
<1>9. \A x \in 0..b : x < Cardinality(Present)
  BY <1>2
<1> HIDE DEF S, b
<1>10. QED
  BY <1>6, <1>7, <1>8, <1>9

\* What scans of the records find is what the indexes, the scopes and the file
\* say: where a variable is bound and to what values, how much there is of each
\* type and on each page, how deep the tree is (vars.rs infer_from_nodes,
\* query.rs vars, uses, where_, stats).
THEOREM ScansAgreeAlways == Spec => []ScansAgree
<1>1. ASSUME IInv PROVE ScansAgree
  <2>1. CASE synced = None
    BY <2>1 DEF ScansAgree
  <2>2. CASE synced # None
    <3>1. Pulled
      BY <1>1, <2>2 DEF Pulled
    <3>2. ASSUME NEW v \in Variables
          PROVE  /\ Uses(v) = {b.id : b \in Sites(v)}
                 /\ Uses(v) # {} => v \in DOMAIN VarRows
                 /\ \A b \in Sites(v) : \A value \in At(Look(synced, b.id).raw, b.pointer) :
                       value \in VarRows[v].observed /\ b.id \in Where(b.pointer, value, None, b.id)
      <4>1. Uses(v) = {b.id : b \in Sites(v)} /\ (Uses(v) # {} => Sites(v) # {})
        BY <3>1, BoundSites
      <4>2. Sites(v) # {} => v \in DOMAIN VarRows
        BY DEF VarRows
      <4>3. ASSUME NEW b \in Sites(v), NEW value \in At(Look(synced, b.id).raw, b.pointer)
            PROVE  value \in VarRows[v].observed /\ b.id \in Where(b.pointer, value, None, b.id)
        BY <3>1, SiteValues
      <4>4. QED
        BY <4>1, <4>2, <4>3
    <3>3. \A t \in DOMAIN ByType : ByType[t] = Cardinality(Find(t, None, None))
      BY <3>1, TypesCounted
    <3>4. \A p \in DOMAIN ByPage : ByPage[p] = Cardinality(ScopeIds(p)) - 1
      BY <3>1, PagesCounted
    <3>5. MaxDepth < Cardinality(Present)
      BY <3>1, DepthBounded
    <3>6. QED
      BY <3>2, <3>3, <3>4, <3>5, Zenon DEF ScansAgree
  <2>3. QED
    BY <2>1, <2>2
<1>2. QED
  BY <1>1, Invariance, PTL

=============================================================================
