----------------------------- MODULE FoldLemmas -----------------------------
(***************************************************************************)
(* Induction for what the modules fold over a sequence.  The provers take  *)
(* no operator as an argument, so the induction theorems of the library    *)
(* are out of their reach; that `<` is well founded on Nat, a fact with    *)
(* no parameter, gives the same: a set of numbers has a least element, a   *)
(* set closed under successor is Nat, and a step function has a fold.      *)
(***************************************************************************)
EXTENDS Lists, SequenceTheorems, WellFoundedInduction, TLAPS

Below == {p \in Nat \X Nat : p[1] < p[2]}

LEMMA LeastOfSome ==
    ASSUME NEW S, S \subseteq Nat, S # {}
    PROVE  Min(S) \in S /\ \A n \in S : Min(S) <= n
<1>1. IsWellFoundedOn(Below, Nat)
  BY NatLessThanWellFounded, Zenon DEF OpToRel, Below
<1>2. PICK m \in S : \A n \in S : ~ (<<n, m>> \in Below)
  BY <1>1, WFMin
<1>3. ASSUME NEW n \in S PROVE m <= n
  <2>1. <<n, m>> \in Nat \X Nat /\ <<n, m>>[1] = n /\ <<n, m>>[2] = m
    OBVIOUS
  <2>2. ~ (n < m)
    BY <1>2, <2>1 DEF Below
  <2>3. QED
    BY <2>2
<1>4. QED
  BY <1>3 DEF Min

\* A bounded set of numbers has a greatest element.
LEMMA GreatestOfSome ==
    ASSUME NEW S, NEW b \in Nat, S \subseteq 0..b, S # {}
    PROVE  Max(S) \in S /\ \A n \in S : n <= Max(S)
<1> DEFINE D == {b - n : n \in S}
           m == Min(D)
<1>1. D \subseteq Nat /\ D # {}
  OBVIOUS
<1>2. m \in D /\ \A d \in D : m <= d
  BY <1>1, LeastOfSome
<1> HIDE DEF m
<1>3. PICK x \in S : m = b - x
  BY <1>2
<1>4. ASSUME NEW n \in S PROVE n <= x
  <2>1. b - n \in D /\ n \in 0..b /\ x \in 0..b
    OBVIOUS
  <2>2. b - x <= b - n
    BY <1>2, <1>3, <2>1
  <2>3. QED
    BY <2>1, <2>2
<1>5. QED
  BY <1>4 DEF Max

\* Induction over the numbers.
LEMMA AllNumbers ==
    ASSUME NEW T, T \subseteq Nat, 0 \in T, \A n \in T : n + 1 \in T
    PROVE  T = Nat
<1>1. SUFFICES ASSUME Nat \ T # {} PROVE FALSE
  OBVIOUS
<1> DEFINE m == Min(Nat \ T)
<1>2. m \in Nat \ T /\ \A n \in Nat \ T : m <= n
  BY <1>1, LeastOfSome
<1> HIDE DEF m
<1>3. m # 0 /\ m - 1 \in Nat /\ ~ (m <= m - 1)
  BY <1>2
<1>4. QED
  BY <1>2, <1>3

\* Induction up to a bound.
LEMMA AllUpTo ==
    ASSUME NEW b \in Nat, NEW T, 0 \in T, \A n \in 0..b : n \in T /\ n < b => n + 1 \in T
    PROVE  0..b \subseteq T
<1> DEFINE U == {n \in Nat : n <= b => n \in T}
<1>1. 0 \in U
  OBVIOUS
<1>2. ASSUME NEW n \in U PROVE n + 1 \in U
  OBVIOUS
<1>3. U = Nat
  BY <1>1, <1>2, AllNumbers
<1>4. QED
  BY <1>3

-----------------------------------------------------------------------------
(* Folds *)

\* What FoldLeft iterates over a sequence of length n, by a step function on
\* what there is so far and the next position.
Folds(h, n, base, step) ==
    \A s \in SUBSET (1..n) :
        h[s] = IF s = {} THEN base ELSE step[Max(s)][h[s \ {Max(s)}]]

LEMMA Greatest ==
    ASSUME NEW k \in Nat, NEW s \in SUBSET (1..k), s # {}
    PROVE  /\ Max(s) \in s /\ Max(s) \in 1..k
           /\ s \ {Max(s)} \in SUBSET (1..k)
           /\ \A n \in s : n <= Max(s)
<1>1. s \subseteq 0..k
  OBVIOUS
<1>2. QED
  BY <1>1, GreatestOfSome

LEMMA GreatestOfPrefix ==
    ASSUME NEW k \in Nat \ {0}
    PROVE  Max(1..k) = k /\ (1..k) \ {Max(1..k)} = 1..(k - 1)
<1>1. Max(1..k) \in 1..k /\ k \in 1..k /\ \A n \in 1..k : n <= Max(1..k)
  BY Greatest
<1>2. QED
  BY <1>1

LEMMA FoldExists ==
    ASSUME NEW n \in Nat, NEW T, NEW base \in T, NEW step \in [1..n -> [T -> T]]
    PROVE  \E h \in [SUBSET (1..n) -> T] : Folds(h, n, base, step)
<1> DEFINE U == {k \in 0..n : \E h \in [SUBSET (1..k) -> T] : Folds(h, k, base, step)}
<1>1. 0 \in U
  <2> DEFINE h == [s \in SUBSET (1..0) |-> base]
  <2>1. h \in [SUBSET (1..0) -> T] /\ \A s \in SUBSET (1..0) : s = {} /\ h[s] = base
    OBVIOUS
  <2>2. Folds(h, 0, base, step)
    BY <2>1 DEF Folds
  <2>3. QED
    BY <2>1, <2>2
<1>2. ASSUME NEW k \in 0..n, k \in U, k < n
      PROVE  k + 1 \in U
  <2>1. PICK h \in [SUBSET (1..k) -> T] : Folds(h, k, base, step)
    BY <1>2
  <2> DEFINE f == [s \in SUBSET (1..(k + 1)) |->
                     IF k + 1 \in s THEN step[k + 1][h[s \ {k + 1}]] ELSE h[s]]
  <2>2. ASSUME NEW s \in SUBSET (1..(k + 1)), k + 1 \notin s
        PROVE  s \in SUBSET (1..k) /\ h[s] \in T /\ f[s] = h[s]
    <3>1. s \in SUBSET (1..k)
      BY <2>2
    <3>2. QED
      BY <3>1, <2>1, <2>2
  <2>3. ASSUME NEW s \in SUBSET (1..(k + 1)), k + 1 \in s
        PROVE  /\ Max(s) = k + 1
               /\ s \ {k + 1} \in SUBSET (1..k)
               /\ f[s] = step[k + 1][h[s \ {k + 1}]]
               /\ f[s] \in T
    <3>1. k + 1 \in Nat /\ s # {}
      BY <2>3
    <3>2. Max(s) \in 1..(k + 1) /\ k + 1 <= Max(s)
      BY <2>3, <3>1, Greatest
    <3>3. s \ {k + 1} \in SUBSET (1..k) /\ f[s] = step[k + 1][h[s \ {k + 1}]]
      BY <2>3
    <3>4. h[s \ {k + 1}] \in T /\ k + 1 \in 1..n
      BY <3>3, <2>1, <1>2
    <3>5. step[k + 1] \in [T -> T]
      BY <3>4
    <3>6. QED
      BY <3>2, <3>3, <3>4, <3>5
  <2>4. f \in [SUBSET (1..(k + 1)) -> T]
    <3>1. \A s \in SUBSET (1..(k + 1)) : f[s] \in T
      BY <2>2, <2>3
    <3>2. QED
      BY <3>1
  <2> HIDE DEF f
  <2>5. ASSUME NEW s \in SUBSET (1..(k + 1)), s # {}, k + 1 \notin s
        PROVE  f[s] = step[Max(s)][f[s \ {Max(s)}]]
    <3>1. s \in SUBSET (1..k) /\ f[s] = h[s]
      BY <2>2, <2>5
    <3>2. s \ {Max(s)} \in SUBSET (1..k) /\ k + 1 \notin s \ {Max(s)}
      BY <3>1, <2>5, Greatest
    <3>3. f[s \ {Max(s)}] = h[s \ {Max(s)}]
      BY <3>2, <2>2
    <3>4. h[s] = step[Max(s)][h[s \ {Max(s)}]]
      BY <2>1, <2>5, <3>1 DEF Folds
    <3>5. QED
      BY <3>1, <3>3, <3>4
  <2>6. ASSUME NEW s \in SUBSET (1..(k + 1)), k + 1 \in s
        PROVE  f[s] = step[Max(s)][f[s \ {Max(s)}]]
    <3>1. /\ Max(s) = k + 1
          /\ s \ {k + 1} \in SUBSET (1..k)
          /\ f[s] = step[k + 1][h[s \ {k + 1}]]
      BY <2>3, <2>6
    <3>2. f[s \ {k + 1}] = h[s \ {k + 1}]
      BY <3>1, <2>2
    <3>3. QED
      BY <3>1, <3>2
  <2>7. f[{}] = base
    <3>1. {} \in SUBSET (1..k) /\ {} \in SUBSET (1..(k + 1)) /\ k + 1 \notin {}
      OBVIOUS
    <3>2. h[{}] = base
      BY <3>1, <2>1 DEF Folds
    <3>3. QED
      BY <3>1, <3>2, <2>2
  <2>8. Folds(f, k + 1, base, step)
    BY <2>5, <2>6, <2>7 DEF Folds
  <2>9. k + 1 \in 0..n
    BY <1>2
  <2>10. QED
    BY <2>4, <2>8, <2>9
<1>3. n \in U
  <2> HIDE DEF U
  <2>1. 0..n \subseteq U
    BY <1>1, <1>2, AllUpTo
  <2>2. QED
    BY <2>1
<1>4. QED
  BY <1>3

-----------------------------------------------------------------------------
(* Chosen *)

\* One round of a loop that keeps the elements in S.
Keep(out, x, S) == IF x \in S THEN Append(out, x) ELSE out

\* p[k] is what the loop over seq has kept after k rounds.
KeptBy(p, X, seq, S) ==
    /\ p[0] = <<>>
    /\ \A k \in 1..Len(seq) : p[k] = Keep(p[k - 1], seq[k], S)
    /\ \A k \in 0..Len(seq) : p[k] \in Seq(X)
    /\ Chosen(seq, S) = p[Len(seq)]

\* Chosen, prefix by prefix.
LEMMA ChosenRounds ==
    ASSUME NEW X, NEW seq \in Seq(X), NEW S
    PROVE  \E p : KeptBy(p, X, seq, S)
<1> DEFINE n == Len(seq)
           T == Seq(X)
           step == [k \in 1..n |-> [out \in T |-> Keep(out, seq[k], S)]]
           Eq(h) == h = [s \in SUBSET DOMAIN seq |->
                           IF s = {} THEN <<>>
                           ELSE IF seq[Max(s)] \in S
                                THEN Append(h[s \ {Max(s)}], seq[Max(s)])
                                ELSE h[s \ {Max(s)}]]
<1>1. n \in Nat /\ DOMAIN seq = 1..n /\ <<>> \in T /\ \A k \in 1..n : seq[k] \in X
  OBVIOUS
<1>2. step \in [1..n -> [T -> T]]
  <2>1. ASSUME NEW k \in 1..n, NEW out \in T PROVE Keep(out, seq[k], S) \in T
    BY <1>1 DEF Keep
  <2>2. QED
    BY <2>1
<1>3. PICK h \in [SUBSET (1..n) -> T] : Folds(h, n, <<>>, step)
  <2> HIDE DEF n, T, step
  <2>1. QED
    BY <1>1, <1>2, FoldExists
<1>4. ASSUME NEW s \in SUBSET (1..n), s # {}
      PROVE  /\ Max(s) \in 1..n /\ s \ {Max(s)} \in SUBSET (1..n)
             /\ \A out \in T : step[Max(s)][out] = Keep(out, seq[Max(s)], S)
  BY <1>1, <1>4, Greatest
<1>5. Eq(h)
  <2>1. ASSUME NEW s \in SUBSET (1..n), s # {}
        PROVE  h[s] = Keep(h[s \ {Max(s)}], seq[Max(s)], S)
    <3>1. h[s] = step[Max(s)][h[s \ {Max(s)}]]
      BY <1>3, <2>1 DEF Folds
    <3>2. h[s \ {Max(s)}] \in T
      BY <1>3, <1>4, <2>1
    <3>3. QED
      BY <3>1, <3>2, <1>4, <2>1
  <2>2. h[{}] = <<>>
    BY <1>3 DEF Folds
  <2>3. QED
    BY <2>1, <2>2, <1>1, <1>3 DEF Keep
<1>6. PICK f : Eq(f) /\ Chosen(seq, S) = f[DOMAIN seq]
  BY <1>5, Zenon DEF Chosen, FoldLeft, MapThenFoldSet
<1> DEFINE p == [k \in 0..n |-> f[1..k]]
<1>7. p[0] = <<>>
  BY <1>1, <1>6
<1>8. ASSUME NEW k \in 1..n
      PROVE  p[k] = Keep(p[k - 1], seq[k], S)
  <2>1. 1..k \in SUBSET DOMAIN seq /\ 1..k # {} /\ k \in 0..n /\ k - 1 \in 0..n
    <3> HIDE DEF n
    <3>1. 1..k \subseteq 1..n /\ k \in 1..k /\ k \in 0..n /\ k - 1 \in 0..n
      BY <1>1
    <3>2. QED
      BY <1>1, <3>1
  <2>2. Max(1..k) = k /\ (1..k) \ {Max(1..k)} = 1..(k - 1)
    BY <1>1, GreatestOfPrefix
  <2>3. f[1..k] = Keep(f[(1..k) \ {Max(1..k)}], seq[Max(1..k)], S)
    BY <1>6, <2>1 DEF Keep
  <2>4. QED
    BY <2>1, <2>2, <2>3
<1>9. \A k \in 0..n : p[k] \in T
  <2> DEFINE U == {k \in 0..n : p[k] \in T}
  <2> HIDE DEF p, n
  <2>1. 0 \in U
    <3>1. 0 \in 0..n
      BY <1>1
    <3>2. p[0] \in T
      BY <1>7
    <3>3. QED
      BY <3>1, <3>2
  <2>2. ASSUME NEW k \in 0..n, k \in U, k < n
        PROVE  k + 1 \in U
    <3>1. k + 1 \in 1..n /\ k + 1 \in 0..n /\ (k + 1) - 1 = k
      BY <1>1, <2>2
    <3>2. p[k + 1] = Keep(p[k], seq[k + 1], S)
      BY <3>1, <1>8
    <3>3. p[k] \in Seq(X) /\ seq[k + 1] \in X
      BY <3>1, <1>1, <2>2
    <3>4. p[k + 1] \in Seq(X)
      BY <3>2, <3>3 DEF Keep
    <3>5. QED
      BY <3>1, <3>4
  <2>3. 0..n \subseteq U
    <3> HIDE DEF U
    <3>1. QED
      BY <1>1, <2>1, <2>2, AllUpTo
  <2>4. QED
    BY <2>3
<1>10. Chosen(seq, S) = p[n]
  BY <1>1, <1>6
<1>11. KeptBy(p, X, seq, S)
  <2> HIDE DEF p
  <2>1. QED
    BY <1>7, <1>8, <1>9, <1>10 DEF KeptBy
<1>12. QED
  BY <1>11

LEMMA AppendedOne ==
    ASSUME NEW X, NEW s \in Seq(X), NEW x \in X
    PROVE  /\ ToSet(Append(s, x)) = ToSet(s) \cup {x}
           /\ IsInjective(s) /\ x \notin ToSet(s) => IsInjective(Append(s, x))
           /\ Contains(s, x) <=> x \in ToSet(s)
<1>1. /\ Len(s) \in Nat /\ DOMAIN s = 1..Len(s)
      /\ DOMAIN Append(s, x) = 1..(Len(s) + 1)
      /\ \A i \in 1..Len(s) : Append(s, x)[i] = s[i]
      /\ Append(s, x)[Len(s) + 1] = x
  BY AppendProperties
<1>2. ToSet(Append(s, x)) = ToSet(s) \cup {x}
  BY <1>1 DEF ToSet
<1>3. ASSUME IsInjective(s), x \notin ToSet(s)
      PROVE  IsInjective(Append(s, x))
  BY <1>1, <1>3 DEF IsInjective, ToSet
<1>4. Contains(s, x) <=> x \in ToSet(s)
  BY <1>1 DEF Contains, ToSet
<1>5. QED
  BY <1>2, <1>3, <1>4

\* A loop that keeps the elements in S keeps all of them and no others.
LEMMA ChosenElements ==
    ASSUME NEW X, NEW seq \in Seq(X), NEW S
    PROVE  /\ Chosen(seq, S) \in Seq(X)
           /\ ToSet(Chosen(seq, S)) = ToSet(seq) \cap S
<1> DEFINE n == Len(seq)
<1>0. PICK p : KeptBy(p, X, seq, S)
  BY ChosenRounds
<1>1. /\ p[0] = <<>>
      /\ \A k \in 1..n : p[k] = Keep(p[k - 1], seq[k], S)
      /\ \A k \in 0..n : p[k] \in Seq(X)
      /\ Chosen(seq, S) = p[n]
  BY <1>0 DEF KeptBy
<1>2. n \in Nat /\ DOMAIN seq = 1..n /\ \A k \in 1..n : seq[k] \in X
  OBVIOUS
<1> DEFINE Sofar(k) == {seq[i] : i \in 1..k}
           U == {k \in 0..n : ToSet(p[k]) = Sofar(k) \cap S}
<1> HIDE DEF n
<1>3. 0 \in U
  <2>1. 0 \in 0..n /\ ToSet(<<>>) = {} /\ Sofar(0) = {}
    BY <1>2 DEF ToSet
  <2>2. QED
    BY <1>1, <2>1
<1>4. ASSUME NEW k \in 0..n, k \in U, k < n
      PROVE  k + 1 \in U
  <2>1. k + 1 \in 1..n /\ k + 1 \in 0..n /\ (k + 1) - 1 = k
    BY <1>2, <1>4
  <2>2. p[k + 1] = Keep(p[k], seq[k + 1], S) /\ p[k] \in Seq(X) /\ seq[k + 1] \in X
    BY <1>1, <1>2, <2>1
  <2>3. 1..(k + 1) = (1..k) \cup {k + 1}
    BY <1>4
  <2>4. Sofar(k + 1) = Sofar(k) \cup {seq[k + 1]}
    BY <2>3
  <2>5. ToSet(p[k]) = Sofar(k) \cap S
    BY <1>4
  <2>6. ToSet(Append(p[k], seq[k + 1])) = ToSet(p[k]) \cup {seq[k + 1]}
    BY <2>2, AppendedOne
  <2>7. ToSet(p[k + 1]) = Sofar(k + 1) \cap S
    <3> HIDE DEF Sofar
    <3>1. CASE seq[k + 1] \in S
      BY <3>1, <2>2, <2>4, <2>5, <2>6 DEF Keep
    <3>2. CASE seq[k + 1] \notin S
      BY <3>2, <2>2, <2>4, <2>5 DEF Keep
    <3>3. QED
      BY <3>1, <3>2
  <2>8. QED
    BY <2>1, <2>7
<1>5. n \in U
  <2> HIDE DEF U
  <2>1. 0..n \subseteq U /\ n \in 0..n
    BY <1>2, <1>3, <1>4, AllUpTo
  <2>2. QED
    BY <2>1
<1>6. Sofar(n) = ToSet(seq) /\ n \in 0..n
  BY <1>2 DEF ToSet
<1>7. QED
  BY <1>1, <1>5, <1>6

\* What is kept of elements that differ differs.
LEMMA ChosenInjective ==
    ASSUME NEW X, NEW seq \in Seq(X), NEW S, IsInjective(seq)
    PROVE  IsInjective(Chosen(seq, S))
<1> DEFINE n == Len(seq)
<1>0. PICK p : KeptBy(p, X, seq, S)
  BY ChosenRounds
<1>1. /\ p[0] = <<>>
      /\ \A k \in 1..n : p[k] = Keep(p[k - 1], seq[k], S)
      /\ \A k \in 0..n : p[k] \in Seq(X)
      /\ Chosen(seq, S) = p[n]
  BY <1>0 DEF KeptBy
<1>2. n \in Nat /\ DOMAIN seq = 1..n /\ \A k \in 1..n : seq[k] \in X
  OBVIOUS
<1> DEFINE Sofar(k) == {seq[i] : i \in 1..k}
           U == {k \in 0..n : IsInjective(p[k]) /\ ToSet(p[k]) \subseteq Sofar(k)}
<1> HIDE DEF n
<1>3. 0 \in U
  <2>1. 0 \in 0..n /\ ToSet(<<>>) = {} /\ IsInjective(<<>>)
    BY <1>2 DEF ToSet, IsInjective
  <2>2. QED
    BY <1>1, <2>1
<1>4. ASSUME NEW k \in 0..n, k \in U, k < n
      PROVE  k + 1 \in U
  <2>1. k + 1 \in 1..n /\ k + 1 \in 0..n /\ (k + 1) - 1 = k
    BY <1>2, <1>4
  <2>2. p[k + 1] = Keep(p[k], seq[k + 1], S) /\ p[k] \in Seq(X) /\ seq[k + 1] \in X
    BY <1>1, <1>2, <2>1
  <2>3. Sofar(k + 1) = Sofar(k) \cup {seq[k + 1]}
    <3>1. 1..(k + 1) = (1..k) \cup {k + 1}
      BY <1>4
    <3>2. QED
      BY <3>1
  <2>4. seq[k + 1] \notin Sofar(k)
    <3>1. ASSUME NEW i \in 1..k PROVE seq[i] # seq[k + 1]
      <4>1. i \in 1..n /\ i # k + 1
        BY <1>2, <1>4
      <4>2. QED
        BY <4>1, <2>1, <1>2 DEF IsInjective
    <3>2. QED
      BY <3>1
  <2>5. IsInjective(p[k]) /\ ToSet(p[k]) \subseteq Sofar(k)
    BY <1>4
  <2>6. /\ ToSet(Append(p[k], seq[k + 1])) = ToSet(p[k]) \cup {seq[k + 1]}
        /\ seq[k + 1] \notin ToSet(p[k]) => IsInjective(Append(p[k], seq[k + 1]))
    BY <2>2, <2>5, AppendedOne
  <2>7. IsInjective(p[k + 1]) /\ ToSet(p[k + 1]) \subseteq Sofar(k + 1)
    <3> HIDE DEF Sofar
    <3>1. CASE seq[k + 1] \in S
      BY <3>1, <2>2, <2>3, <2>4, <2>5, <2>6 DEF Keep
    <3>2. CASE seq[k + 1] \notin S
      BY <3>2, <2>2, <2>3, <2>5 DEF Keep
    <3>3. QED
      BY <3>1, <3>2
  <2>8. QED
    BY <2>1, <2>7
<1>5. n \in U
  <2> HIDE DEF U
  <2>1. 0..n \subseteq U /\ n \in 0..n
    BY <1>2, <1>3, <1>4, AllUpTo
  <2>2. QED
    BY <2>1
<1>6. QED
  BY <1>1, <1>5

\* A loop that keeps everything.
LEMMA ChosenAll ==
    ASSUME NEW X, NEW seq \in Seq(X), NEW S, ToSet(seq) \subseteq S
    PROVE  Chosen(seq, S) = seq
<1> DEFINE n == Len(seq)
<1>0. PICK p : KeptBy(p, X, seq, S)
  BY ChosenRounds
<1>1. /\ p[0] = <<>>
      /\ \A k \in 1..n : p[k] = Keep(p[k - 1], seq[k], S)
      /\ \A k \in 0..n : p[k] \in Seq(X)
      /\ Chosen(seq, S) = p[n]
  BY <1>0 DEF KeptBy
<1>2. n \in Nat /\ DOMAIN seq = 1..n /\ \A k \in 1..n : seq[k] \in X /\ seq[k] \in S
  BY DEF ToSet
<1> DEFINE U == {k \in 0..n : Len(p[k]) = k /\ \A i \in 1..k : p[k][i] = seq[i]}
<1> HIDE DEF n
<1>3. 0 \in U
  <2>1. 0 \in 0..n /\ Len(<<>>) = 0 /\ 1..0 = {}
    BY <1>2
  <2>2. QED
    BY <1>1, <2>1
<1>4. ASSUME NEW k \in 0..n, k \in U, k < n
      PROVE  k + 1 \in U
  <2>1. k + 1 \in 1..n /\ k + 1 \in 0..n /\ (k + 1) - 1 = k
    BY <1>2, <1>4
  <2>2. p[k + 1] = Append(p[k], seq[k + 1]) /\ p[k] \in Seq(X) /\ seq[k + 1] \in X
    BY <1>1, <1>2, <2>1 DEF Keep
  <2>3. Len(p[k]) = k /\ \A i \in 1..k : p[k][i] = seq[i]
    BY <1>4
  <2>4. /\ Len(p[k + 1]) = k + 1
        /\ \A i \in 1..k : p[k + 1][i] = p[k][i]
        /\ p[k + 1][k + 1] = seq[k + 1]
    BY <2>2, <2>3, AppendProperties
  <2>5. ASSUME NEW i \in 1..(k + 1) PROVE p[k + 1][i] = seq[i]
    <3>1. i \in 1..k \/ i = k + 1
      BY <1>4
    <3>2. QED
      BY <3>1, <2>3, <2>4
  <2>6. QED
    BY <2>1, <2>4, <2>5
<1>5. n \in U /\ n \in 0..n
  <2> HIDE DEF U
  <2>1. 0..n \subseteq U /\ n \in 0..n
    BY <1>2, <1>3, <1>4, AllUpTo
  <2>2. QED
    BY <2>1
<1>6. p[n] \in Seq(X) /\ Len(p[n]) = n /\ \A i \in 1..n : p[n][i] = seq[i]
  BY <1>1, <1>5
<1>7. p[n] = seq
  BY <1>2, <1>6
<1>8. QED
  BY <1>1, <1>7

-----------------------------------------------------------------------------
(* A function of the number of rounds, each of which takes a step *)

Rounds(h, n, base, step) ==
    h[0] = base /\ \A k \in 1..n : h[k] = step[h[k - 1]]

LEMMA RoundsExist ==
    ASSUME NEW n \in Nat, NEW T, NEW base \in T, NEW step \in [T -> T]
    PROVE  \E h \in [0..n -> T] : Rounds(h, n, base, step)
<1> DEFINE Is(h, k) == \A i \in 0..k : h[i] = IF i = 0 THEN base ELSE step[h[i - 1]]
           U == {k \in 0..n : \E h \in [0..k -> T] : Is(h, k)}
<1>1. 0 \in U
  <2> DEFINE h == [i \in 0..0 |-> base]
  <2>1. h \in [0..0 -> T] /\ Is(h, 0) /\ 0 \in 0..n
    OBVIOUS
  <2>2. QED
    BY <2>1
<1>2. ASSUME NEW k \in 0..n, k \in U, k < n
      PROVE  k + 1 \in U
  <2>1. PICK h \in [0..k -> T] : Is(h, k)
    BY <1>2
  <2> DEFINE f == [i \in 0..(k + 1) |-> IF i = k + 1 THEN step[h[k]] ELSE h[i]]
  <2>2. step[h[k]] \in T
    BY <2>1
  <2>3. f \in [0..(k + 1) -> T]
    <3>1. ASSUME NEW i \in 0..(k + 1), i # k + 1 PROVE h[i] \in T
      <4>1. i \in 0..k
        BY <1>2, <3>1
      <4>2. QED
        BY <4>1, <2>1
    <3>2. QED
      BY <2>2, <3>1
  <2>4. ASSUME NEW i \in 0..(k + 1)
        PROVE  f[i] = IF i = 0 THEN base ELSE step[f[i - 1]]
    <3>1. CASE i = k + 1
      <4>1. f[i] = step[h[k]] /\ i # 0 /\ i - 1 = k /\ k \in 0..(k + 1) /\ k # k + 1
        BY <1>2, <3>1
      <4>2. QED
        BY <4>1
    <3>2. CASE i # k + 1
      <4>1. i \in 0..k /\ f[i] = h[i]
        BY <1>2, <3>2
      <4>2. i # 0 => i - 1 \in 0..(k + 1) /\ i - 1 # k + 1 /\ f[i - 1] = h[i - 1]
        BY <1>2, <4>1
      <4>3. QED
        BY <2>1, <4>1, <4>2
    <3>3. QED
      BY <3>1, <3>2
  <2>5. Is(f, k + 1)
    <3> HIDE DEF f
    <3>1. QED
      BY <2>4
  <2>6. k + 1 \in 0..n
    BY <1>2
  <2>7. QED
    BY <2>3, <2>5, <2>6
<1>3. n \in U
  <2> HIDE DEF U
  <2>1. 0..n \subseteq U
    BY <1>1, <1>2, AllUpTo
  <2>2. QED
    BY <2>1
<1>4. PICK h \in [0..n -> T] : Is(h, n)
  BY <1>3
<1>5. Rounds(h, n, base, step)
  <2>1. 0 \in 0..n /\ \A k \in 1..n : k \in 0..n /\ k # 0
    OBVIOUS
  <2>2. QED
    BY <1>4, <2>1 DEF Rounds
<1>6. QED
  BY <1>5
=============================================================================
