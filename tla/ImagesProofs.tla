---------------------------- MODULE ImagesProofs ----------------------------
(***************************************************************************)
(* What holds for any nodes, fills, versions, hash collisions, failures,   *)
(* pulls and restarts.                                                     *)
(***************************************************************************)
EXTENDS Images, FoldLemmas

-----------------------------------------------------------------------------
(* What the loops build *)

\* One round of the loop that keeps the first occurrence of each.
First(out, x) == IF Contains(out, x) THEN out ELSE Append(out, x)

\* NormalizeIds, prefix by prefix.
LEMMA NormalizeRounds ==
    ASSUME NEW raw \in Seq(Ids)
    PROVE  \E p : /\ p[0] = <<>>
                  /\ \A k \in 1..Len(raw) : p[k] = First(p[k - 1], raw[k])
                  /\ \A k \in 0..Len(raw) : p[k] \in Seq(Ids)
                  /\ NormalizeIds(raw) = p[Len(raw)]
<1> DEFINE n == Len(raw)
           T == Seq(Ids)
           step == [k \in 1..n |-> [out \in T |-> First(out, raw[k])]]
           Eq(h) == h = [s \in SUBSET DOMAIN raw |->
                           IF s = {} THEN <<>>
                           ELSE IF Contains(h[s \ {Max(s)}], raw[Max(s)])
                                THEN h[s \ {Max(s)}]
                                ELSE Append(h[s \ {Max(s)}], raw[Max(s)])]
<1>1. n \in Nat /\ DOMAIN raw = 1..n /\ <<>> \in T /\ \A k \in 1..n : raw[k] \in Ids
  OBVIOUS
<1>2. step \in [1..n -> [T -> T]]
  <2>1. ASSUME NEW k \in 1..n, NEW out \in T PROVE First(out, raw[k]) \in T
    BY <1>1 DEF First
  <2>2. QED
    BY <2>1
<1>3. PICK h \in [SUBSET (1..n) -> T] : Folds(h, n, <<>>, step)
  <2> HIDE DEF n, T, step
  <2>1. QED
    BY <1>1, <1>2, FoldExists
<1>4. ASSUME NEW s \in SUBSET (1..n), s # {}
      PROVE  /\ Max(s) \in 1..n /\ s \ {Max(s)} \in SUBSET (1..n)
             /\ \A out \in T : step[Max(s)][out] = First(out, raw[Max(s)])
  BY <1>1, <1>4, Greatest
<1>5. Eq(h)
  <2>1. ASSUME NEW s \in SUBSET (1..n), s # {}
        PROVE  h[s] = First(h[s \ {Max(s)}], raw[Max(s)])
    <3>1. h[s] = step[Max(s)][h[s \ {Max(s)}]]
      BY <1>3, <2>1 DEF Folds
    <3>2. h[s \ {Max(s)}] \in T
      BY <1>3, <1>4, <2>1
    <3>3. QED
      BY <3>1, <3>2, <1>4, <2>1
  <2>2. h[{}] = <<>>
    BY <1>3 DEF Folds
  <2>3. QED
    BY <2>1, <2>2, <1>1, <1>3 DEF First
<1>6. PICK f : Eq(f) /\ NormalizeIds(raw) = f[DOMAIN raw]
  BY <1>5, Zenon DEF NormalizeIds, FoldLeft, MapThenFoldSet
<1> DEFINE p == [k \in 0..n |-> f[1..k]]
<1>7. p[0] = <<>>
  BY <1>1, <1>6
<1>8. ASSUME NEW k \in 1..n
      PROVE  p[k] = First(p[k - 1], raw[k])
  <2>1. 1..k \in SUBSET DOMAIN raw /\ 1..k # {} /\ k \in 0..n /\ k - 1 \in 0..n
    <3> HIDE DEF n
    <3>1. 1..k \subseteq 1..n /\ k \in 1..k /\ k \in 0..n /\ k - 1 \in 0..n
      BY <1>1
    <3>2. QED
      BY <1>1, <3>1
  <2>2. Max(1..k) = k /\ (1..k) \ {Max(1..k)} = 1..(k - 1)
    BY <1>1, GreatestOfPrefix
  <2>3. f[1..k] = First(f[(1..k) \ {Max(1..k)}], raw[Max(1..k)])
    BY <1>6, <2>1 DEF First
  <2>4. QED
    BY <2>1, <2>2, <2>3
<1>9. \A k \in 0..n : p[k] \in T
  <2> DEFINE U == {k \in 0..n : p[k] \in T}
  <2> HIDE DEF p, n
  <2>1. 0 \in U
    <3>1. 0 \in 0..n
      BY <1>1
    <3>2. p[0] \in T
      BY <1>7
    <3>3. QED
      BY <3>1, <3>2
  <2>2. ASSUME NEW k \in 0..n, k \in U, k < n
        PROVE  k + 1 \in U
    <3>1. k + 1 \in 1..n /\ k + 1 \in 0..n /\ (k + 1) - 1 = k
      BY <1>1, <2>2
    <3>2. p[k + 1] = First(p[k], raw[k + 1])
      BY <3>1, <1>8
    <3>3. p[k] \in Seq(Ids) /\ raw[k + 1] \in Ids
      BY <3>1, <1>1, <2>2
    <3>4. p[k + 1] \in Seq(Ids)
      BY <3>2, <3>3 DEF First
    <3>5. QED
      BY <3>1, <3>4
  <2>3. 0..n \subseteq U
    <3> HIDE DEF U
    <3>1. QED
      BY <1>1, <2>1, <2>2, AllUpTo
  <2>4. QED
    BY <2>3
<1>10. NormalizeIds(raw) = p[n]
  BY <1>1, <1>6
<1>11. QED
  BY <1>7, <1>8, <1>9, <1>10

\* normalize_ids: each id once, and no others.
LEMMA NormalizedIds ==
    ASSUME NEW raw \in Seq(Ids)
    PROVE  /\ NormalizeIds(raw) \in Seq(Ids)
           /\ IsInjective(NormalizeIds(raw))
           /\ ToSet(NormalizeIds(raw)) = ToSet(raw)
<1> DEFINE n == Len(raw)
<1>1. PICK p : /\ p[0] = <<>>
               /\ \A k \in 1..n : p[k] = First(p[k - 1], raw[k])
               /\ \A k \in 0..n : p[k] \in Seq(Ids)
               /\ NormalizeIds(raw) = p[n]
  BY NormalizeRounds
<1>2. n \in Nat /\ DOMAIN raw = 1..n /\ \A k \in 1..n : raw[k] \in Ids
  OBVIOUS
<1> DEFINE Sofar(k) == {raw[i] : i \in 1..k}
           U == {k \in 0..n : ToSet(p[k]) = Sofar(k) /\ IsInjective(p[k])}
<1> HIDE DEF n
<1>3. 0 \in U
  <2>1. 0 \in 0..n /\ ToSet(<<>>) = {} /\ Sofar(0) = {} /\ IsInjective(<<>>)
    BY <1>2 DEF ToSet, IsInjective
  <2>2. QED
    BY <1>1, <2>1
<1>4. ASSUME NEW k \in 0..n, k \in U, k < n
      PROVE  k + 1 \in U
  <2>1. k + 1 \in 1..n /\ k + 1 \in 0..n /\ (k + 1) - 1 = k
    BY <1>2, <1>4
  <2>2. p[k + 1] = First(p[k], raw[k + 1]) /\ p[k] \in Seq(Ids) /\ raw[k + 1] \in Ids
    BY <1>1, <1>2, <2>1
  <2>3. 1..(k + 1) = (1..k) \cup {k + 1}
    BY <1>4
  <2>4. Sofar(k + 1) = Sofar(k) \cup {raw[k + 1]}
    BY <2>3
  <2>5. ToSet(p[k]) = Sofar(k) /\ IsInjective(p[k])
    BY <1>4
  <2>6. /\ ToSet(Append(p[k], raw[k + 1])) = ToSet(p[k]) \cup {raw[k + 1]}
        /\ raw[k + 1] \notin ToSet(p[k]) => IsInjective(Append(p[k], raw[k + 1]))
        /\ Contains(p[k], raw[k + 1]) <=> raw[k + 1] \in ToSet(p[k])
    BY <2>2, <2>5, AppendedOne
  <2>7. ToSet(p[k + 1]) = Sofar(k + 1) /\ IsInjective(p[k + 1])
    <3> HIDE DEF Sofar
    <3>1. CASE Contains(p[k], raw[k + 1])
      BY <3>1, <2>2, <2>4, <2>5, <2>6 DEF First
    <3>2. CASE ~Contains(p[k], raw[k + 1])
      BY <3>2, <2>2, <2>4, <2>5, <2>6 DEF First
    <3>3. QED
      BY <3>1, <3>2
  <2>8. QED
    BY <2>1, <2>7
<1>5. n \in U
  <2> HIDE DEF U
  <2>1. 0..n \subseteq U /\ n \in 0..n
    BY <1>2, <1>3, <1>4, AllUpTo
  <2>2. QED
    BY <2>1
<1>6. Sofar(n) = ToSet(raw) /\ n \in 0..n
  BY <1>2 DEF ToSet
<1>7. QED
  BY <1>1, <1>5, <1>6

-----------------------------------------------------------------------------
(* The request and its items *)

\* Order, of a given request.
Listed(ids, f, refs) ==
    [k \in DOMAIN ids |-> Render(ids[k], f)] \o
    LET chosen == Chosen(RefSeq, refs)
    IN  [k \in DOMAIN chosen |-> Fill(chosen[k])]

Wanted(ids, f, refs) == {Render(id, f) : id \in ToSet(ids)} \cup {Fill(r) : r \in refs}

LEMMA ListedItems ==
    ASSUME NEW ids \in Seq(Ids), NEW f \in Formats, NEW refs \in SUBSET Refs
    PROVE  /\ Listed(ids, f, refs) \in Seq(Items)
           /\ ToSet(Listed(ids, f, refs)) = Wanted(ids, f, refs)
<1> DEFINE chosen == Chosen(RefSeq, refs)
           rs == [k \in DOMAIN ids |-> Render(ids[k], f)]
           fs == [k \in DOMAIN chosen |-> Fill(chosen[k])]
<1>1. chosen \in Seq(Refs) /\ ToSet(chosen) = refs
  <2>1. RefSeq \in Seq(Refs) /\ ToSet(RefSeq) = Refs
    BY ImagesAssumption DEF Refs
  <2>2. /\ Chosen(RefSeq, refs) \in Seq(Refs)
        /\ ToSet(Chosen(RefSeq, refs)) = ToSet(RefSeq) \cap refs
    BY <2>1, ChosenElements
  <2>3. QED
    BY <2>1, <2>2
<1> HIDE DEF chosen
<1>2. /\ Len(ids) \in Nat /\ DOMAIN ids = 1..Len(ids) /\ \A k \in 1..Len(ids) : ids[k] \in Ids
      /\ Len(chosen) \in Nat /\ DOMAIN chosen = 1..Len(chosen)
      /\ \A k \in 1..Len(chosen) : chosen[k] \in Refs
  BY <1>1
<1>3. /\ \A id \in Ids : Render(id, f) \in Items
      /\ \A r \in Refs : Fill(r) \in Items
  BY DEF Items
<1>4. rs \in Seq(Items) /\ Len(rs) = Len(ids)
  BY <1>2, <1>3
<1>5. fs \in Seq(Items) /\ Len(fs) = Len(chosen)
  BY <1>2, <1>3
<1>6. ToSet(rs) = {Render(id, f) : id \in ToSet(ids)}
  BY <1>2 DEF ToSet
<1>7. ToSet(fs) = {Fill(r) : r \in refs}
  BY <1>1, <1>2 DEF ToSet
<1>8. Listed(ids, f, refs) = rs \o fs
  BY DEF Listed, chosen
<1> HIDE DEF rs, fs
<1>9. rs \o fs \in Seq(Items) /\ ToSet(rs \o fs) = ToSet(rs) \cup ToSet(fs)
  <2>1. /\ rs \o fs \in Seq(Items) /\ Len(rs \o fs) = Len(rs) + Len(fs)
        /\ \A k \in 1..(Len(rs) + Len(fs)) :
              (rs \o fs)[k] = IF k <= Len(rs) THEN rs[k] ELSE fs[k - Len(rs)]
    BY <1>4, <1>5, ConcatProperties
  <2>2. Range(rs \o fs) = Range(rs) \cup Range(fs)
    BY <1>4, <1>5, RangeConcatenation
  <2>3. QED
    BY <2>1, <2>2 DEF ToSet, Range
<1>10. QED
  BY <1>6, <1>7, <1>8, <1>9 DEF Wanted

Done(i) == answer[i].status \in {"cached", "fetched"}

\* A request is answered, under the version it was scanned at, for the items
\* it asks for.
Asked ==
    stage # "idle" => /\ req.format \in Formats /\ req.tag = version
                      /\ DOMAIN answer = ToSet(Order)

Quiet == stage = "idle" => DOMAIN answer = {}

\* The bytes are of an item the table files as i.
OfItem(bytes, i) == bytes \in Items /\ Filing(bytes) = Filing(i)

\* Bytes are the item's own, and only what was found has any.
Own ==
    \A i \in DOMAIN answer :
        IF Done(i) THEN OfItem(answer[i].bytes, i) ELSE answer[i].bytes = None

\* So they are in the table, whatever its version.
RowsOwn == \A k \in Keys : rows[k] # None => Filing(rows[k].bytes) = rows[k].item

\* What is still to do belongs to the batch at hand or a later one.
Staged ==
    \A i \in DOMAIN answer : answer[i].status \in {"miss", "linked"} =>
        stage = "render" \/ (stage = "fill" /\ i.kind = "fill")

\* What was found is in the table, and what is in the table was found.
InTable ==
    \A i \in DOMAIN answer : Alone(i) =>
        /\ Done(i) <=> Held(i)
        /\ Done(i) => rows[KeyOf(i)].bytes = answer[i].bytes

\* What was paid for is in the table.
Paid == \A i \in Items : Alone(i) /\ Filing(i) \in fetched => Held(i)

AnswerInv ==
    TypeOK /\ Asked /\ Quiet /\ Own /\ RowsOwn /\ Staged /\ InTable /\ Paid

LEMMA AnswerInit == Init => AnswerInv
<1> SUFFICES ASSUME Init PROVE AnswerInv
  OBVIOUS
<1> USE DEF Init
<1>1. req.ids = <<>> /\ req.format = "" /\ req.tag = NoVersion /\ req.refs = {}
  BY DEF NoRequest
<1>2. TypeOK
  <2>1. DOMAIN answer = {} /\ IsInjective(<<>>) /\ <<>> \in Seq(Ids)
    BY DEF IsInjective
  <2>2. QED
    BY <1>1, <2>1 DEF TypeOK, Kinds
<1>3. DOMAIN answer = {}
  OBVIOUS
<1>4. QED
  BY <1>2, <1>3 DEF AnswerInv, Asked, Quiet, Own, RowsOwn, Staged, InTable, Paid

LEMMA OrderListed ==
    /\ Order = Listed(req.ids, req.format, req.refs)
    /\ Order' = Listed(req'.ids, req'.format, req'.refs)
  BY DEF Order, Listed

LEMMA ItemKinds ==
    /\ \A id, f : Render(id, f).kind = "render"
    /\ \A r : Fill(r).kind = "fill"
    /\ \A i \in Items : i.kind \in {"render", "fill"}
<1>1. \A id, f : Render(id, f).kind = "render"
  BY DEF Render
<1>2. \A r : Fill(r).kind = "fill"
  BY DEF Fill
<1>3. QED
  BY <1>1, <1>2 DEF Items

\* What is filed of an item is an item, and has a row to itself or shares it.
LEMMA FiledItem ==
    ASSUME NEW i \in Items
    PROVE  Filing(i) \in Items /\ KeyOf(i) \in Keys
<1>1. CASE \E id \in Ids, f \in Formats : i = Render(id, f)
  <2>1. PICK id \in Ids, f \in Formats : i = Render(id, f)
    BY <1>1
  <2>2. Filing(i) = Render(id, Filed[f]) /\ Filed[f] \in Formats
    BY <2>1, ImagesAssumption DEF Filing, Render
  <2>3. Filing(i) \in Items
    <3>1. \A g \in Formats : Render(id, g) \in Items
      BY DEF Items
    <3>2. QED
      BY <2>2, <3>1
  <2>4. QED
    BY <2>3 DEF Keys
<1>2. CASE \E r \in Refs : i = Fill(r)
  <2>1. i.kind = "fill"
    BY <1>2, ItemKinds
  <2>2. Filing(i) = i
    BY <2>1 DEF Filing
  <2>3. QED
    BY <2>2 DEF Keys
<1>3. QED
  BY <1>1, <1>2 DEF Items

\* Within a request, whose renders have one scale, no two items are filed as one.
LEMMA FiledApart ==
    ASSUME NEW ids, NEW f, NEW refs,
           NEW i \in Wanted(ids, f, refs), NEW j \in Wanted(ids, f, refs),
           Filing(i) = Filing(j)
    PROVE  i = j
<1>1. ASSUME NEW e \in Wanted(ids, f, refs)
      PROVE  \/ \E id : e = Render(id, f) /\ Filing(e) = Render(id, Filed[f])
             \/ \E r : e = Fill(r) /\ Filing(e) = Fill(r)
  <2>1. \A id : Filing(Render(id, f)) = Render(id, Filed[f])
    BY DEF Filing, Render
  <2>2. \A r : Filing(Fill(r)) = Fill(r)
    BY DEF Filing, Fill
  <2>3. QED
    BY <2>1, <2>2 DEF Wanted
<1>2. \A id, q : Render(id, Filed[f]) = Render(q, Filed[f]) => id = q
  BY DEF Render
<1>3. QED
  BY <1>1, <1>2, ItemKinds

LEMMA ScanNext ==
    ASSUME AnswerInv, NEW raw \in BoundedSeq(Ids, MaxRequest), NEW f \in Formats, Scan(raw, f)
    PROVE  AnswerInv'
<1> DEFINE ids == NormalizeIds(raw)
           refs == UNION {Fills[version][id] : id \in ToSet(ids)}
           wanted == {Render(id, f) : id \in ToSet(ids)} \cup {Fill(r) : r \in refs}
<1>1. raw \in Seq(Ids)
  BY DEF BoundedSeq, SeqOf
<1>2. ids \in Seq(Ids) /\ IsInjective(ids)
  BY <1>1, NormalizedIds
<1>3. /\ stage' = "render"
      /\ req' = [ids |-> ids, format |-> f, tag |-> version, refs |-> refs]
      /\ answer' = [i \in wanted |->
            IF Hit(i) THEN [status |-> "cached", bytes |-> rows[KeyOf(i)].bytes] ELSE Miss]
      /\ UNCHANGED <<version, rows, token, fetched>>
  BY DEF Scan
<1> HIDE DEF ids
<1>4. \A id \in ToSet(ids) : id \in Ids
  BY <1>2 DEF ToSet
<1>5. refs \in SUBSET Refs
  <2>1. Fills[version] \in [Ids -> SUBSET Refs]
    BY ImagesAssumption DEF AnswerInv, TypeOK
  <2>2. \A id \in ToSet(ids) : Fills[version][id] \in SUBSET Refs
    BY <1>4, <2>1
  <2>3. QED
    BY <2>2
<1> HIDE DEF refs
<1>6. wanted = Wanted(ids, f, refs) /\ wanted \subseteq Items
  BY <1>4, <1>5 DEF Wanted, Items
<1>7. req'.ids = ids /\ req'.format = f /\ req'.tag = version /\ req'.refs = refs
  BY <1>3
<1>8. ToSet(Order') = wanted
  BY <1>2, <1>5, <1>6, <1>7, OrderListed, ListedItems
<1> HIDE DEF wanted
<1>9. DOMAIN answer' = wanted
  BY <1>3
<1>10. ASSUME NEW i \in wanted
       PROVE  /\ Hit(i) <=> Held(i)
              /\ Held(i) => OfItem(rows[KeyOf(i)].bytes, i)
  <2>1. i \in Items /\ KeyOf(i) \in Keys
    BY <1>6, FiledItem
  <2>2. rows[KeyOf(i)] \in Row \cup {None}
    BY <2>1 DEF AnswerInv, TypeOK
  <2>3. Hit(i) <=> Held(i)
    BY DEF Hit, MatchesIdentity, Held
  <2>4. ASSUME Held(i) PROVE OfItem(rows[KeyOf(i)].bytes, i)
    BY <2>1, <2>2, <2>4 DEF Held, Row, AnswerInv, RowsOwn, OfItem
  <2>5. QED
    BY <2>3, <2>4
<1>11. ASSUME NEW i \in wanted
       PROVE  answer'[i] = IF Held(i) THEN [status |-> "cached", bytes |-> rows[KeyOf(i)].bytes]
                                      ELSE Miss
  BY <1>3, <1>10
<1>12. ASSUME NEW i \in wanted
       PROVE  /\ answer'[i].status = IF Held(i) THEN "cached" ELSE "miss"
              /\ answer'[i].bytes = IF Held(i) THEN rows[KeyOf(i)].bytes ELSE None
              /\ answer'[i] \in [status: Statuses, bytes: Items \cup {None}]
  <2>1. CASE Held(i)
    <3>1. answer'[i] = [status |-> "cached", bytes |-> rows[KeyOf(i)].bytes]
      BY <1>11, <2>1
    <3>2. rows[KeyOf(i)].bytes \in Items
      BY <1>10, <2>1 DEF OfItem
    <3>3. QED
      BY <2>1, <3>1, <3>2 DEF Statuses
  <2>2. CASE ~Held(i)
    <3>1. answer'[i] = [status |-> "miss", bytes |-> None]
      BY <1>11, <2>2 DEF Miss
    <3>2. QED
      BY <2>2, <3>1 DEF Statuses
  <2>3. QED
    BY <2>1, <2>2
<1>13. TypeOK'
  BY <1>2, <1>3, <1>5, <1>6, <1>7, <1>9, <1>12 DEF AnswerInv, TypeOK, Kinds
<1>14. Asked' /\ Quiet' /\ Staged'
  BY <1>3, <1>7, <1>8, <1>9 DEF Asked, Quiet, Staged
<1>15. Own' /\ InTable'
  <2>1. \A i \in wanted : Held(i)' <=> Held(i)
    BY <1>3 DEF Held
  <2>2. \A i \in wanted : Done(i)' <=> Held(i)
    BY <1>12 DEF Done
  <2>3. QED
    BY <1>3, <1>9, <1>10, <1>12, <2>1, <2>2 DEF Own, InTable
<1>16. Paid' /\ RowsOwn'
  BY <1>3 DEF AnswerInv, Paid, RowsOwn, Held
<1>17. QED
  BY <1>13, <1>14, <1>15, <1>16 DEF AnswerInv

\* A step that finds nothing: what was to do becomes an error, or gets a URL.
LEMMA NothingFound ==
    ASSUME AnswerInv, UNCHANGED <<version, rows, token, stage, req, fetched>>,
           DOMAIN answer' = DOMAIN answer,
           \A i \in DOMAIN answer :
              \/ answer'[i] = answer[i]
              \/ /\ answer[i].status \in {"miss", "linked"}
                 /\ answer'[i] \in {Error, [status |-> "linked", bytes |-> None]}
    PROVE  AnswerInv'
<1>1. ASSUME NEW i \in DOMAIN answer
      PROVE  /\ answer'[i] \in [status: Statuses, bytes: Items \cup {None}]
             /\ Done(i)' <=> Done(i)
             /\ IF Done(i) THEN answer'[i].bytes = answer[i].bytes ELSE answer'[i].bytes = None
             /\ answer'[i].status \in {"miss", "linked"} => answer[i].status \in {"miss", "linked"}
  <2>1. CASE answer'[i] = answer[i]
    BY <2>1 DEF AnswerInv, TypeOK, Own, Done
  <2>2. CASE /\ answer[i].status \in {"miss", "linked"}
             /\ answer'[i] = Error
    BY <2>2 DEF Error, Done, Statuses
  <2>3. CASE /\ answer[i].status \in {"miss", "linked"}
             /\ answer'[i] = [status |-> "linked", bytes |-> None]
    BY <2>3 DEF Done, Statuses
  <2>4. QED
    BY <2>1, <2>2, <2>3
<1>2. TypeOK'
  BY <1>1 DEF AnswerInv, TypeOK
<1>3. Order' = Order
  BY DEF Order
<1>4. Asked' /\ Quiet' /\ Staged'
  BY <1>1, <1>3 DEF AnswerInv, Asked, Quiet, Staged
<1>5. Own' /\ RowsOwn' /\ InTable' /\ Paid'
  <2>1. \A i : Held(i)' <=> Held(i)
    BY DEF Held
  <2>2. QED
    BY <1>1, <2>1 DEF AnswerInv, Own, RowsOwn, InTable, Paid
<1>6. QED
  BY <1>2, <1>4, <1>5 DEF AnswerInv

LEMMA AskUrlsNext ==
    ASSUME AnswerInv, NEW kind \in Kinds, AskUrls(kind) \/ NoToken(kind)
    PROVE  AnswerInv'
<1>1. ASSUME NEW i \in Misses(kind)
      PROVE  i \in DOMAIN answer /\ answer[i].status = "miss"
  BY DEF Misses, InState
<1>2. CASE AskUrls(kind)
  <2>1. PICK urls \in SUBSET Misses(kind) :
          answer' = [i \in DOMAIN answer |->
              CASE i \in urls                 -> [Miss EXCEPT !.status = "linked"]
                [] i \in Misses(kind) \ urls  -> Error
                [] OTHER                      -> answer[i]]
    BY <1>2 DEF AskUrls
  <2>2. [Miss EXCEPT !.status = "linked"] = [status |-> "linked", bytes |-> None]
    BY DEF Miss
  <2>3. ASSUME NEW i \in DOMAIN answer
        PROVE  \/ answer'[i] = answer[i]
               \/ /\ answer[i].status \in {"miss", "linked"}
                  /\ answer'[i] \in {Error, [status |-> "linked", bytes |-> None]}
    <3>1. CASE i \in urls
      BY <3>1, <1>1, <2>1, <2>2
    <3>2. CASE i \in Misses(kind) \ urls
      BY <3>2, <1>1, <2>1
    <3>3. CASE i \notin Misses(kind)
      BY <3>3, <2>1
    <3>4. QED
      BY <3>1, <3>2, <3>3
  <2>4. DOMAIN answer' = DOMAIN answer
    BY <2>1
  <2>5. QED
    BY <1>2, <2>3, <2>4, NothingFound DEF AskUrls
<1>3. CASE NoToken(kind)
  <2>1. answer' = [i \in DOMAIN answer |-> IF i \in Misses(kind) THEN Error ELSE answer[i]]
    BY <1>3 DEF NoToken
  <2>2. ASSUME NEW i \in DOMAIN answer
        PROVE  \/ answer'[i] = answer[i]
               \/ /\ answer[i].status \in {"miss", "linked"}
                  /\ answer'[i] \in {Error, [status |-> "linked", bytes |-> None]}
    BY <1>1, <2>1
  <2>3. DOMAIN answer' = DOMAIN answer
    BY <2>1
  <2>4. QED
    BY <1>3, <2>2, <2>3, NothingFound DEF NoToken
<1>4. QED
  BY <1>2, <1>3

\* What a request under way is answered for.
LEMMA AskedFor ==
    ASSUME AnswerInv, stage # "idle"
    PROVE  /\ Order \in Seq(Items) /\ ToSet(Order) = DOMAIN answer
           /\ DOMAIN answer = Wanted(req.ids, req.format, req.refs)
<1>1. req.ids \in Seq(Ids) /\ req.format \in Formats /\ req.refs \in SUBSET Refs
  BY DEF AnswerInv, TypeOK, Asked
<1>2. QED
  BY <1>1, OrderListed, ListedItems DEF AnswerInv, Asked

\* The next download is one that has a URL.
LEMMA NextIsLinked ==
    ASSUME AnswerInv, NEW kind \in Kinds, Downloading(kind)
    PROVE  /\ NextDownload(kind) \in DOMAIN answer
           /\ NextDownload(kind) \in Items
           /\ answer[NextDownload(kind)].status = "linked"
<1> DEFINE linked == InState(kind, "linked")
           todo == Chosen(Order, linked)
<1>1. stage # "idle" /\ linked # {} /\ linked \subseteq DOMAIN answer
  BY DEF Downloading, Kinds, InState
<1>2. Order \in Seq(Items) /\ ToSet(Order) = DOMAIN answer
  BY <1>1, AskedFor
<1> HIDE DEF linked
<1>3. todo \in Seq(Items) /\ ToSet(todo) = linked
  <2>1. todo \in Seq(Items) /\ ToSet(todo) = ToSet(Order) \cap linked
    BY <1>2, ChosenElements
  <2>2. QED
    BY <1>1, <1>2, <2>1
<1> HIDE DEF todo
<1>4. Len(todo) \in Nat /\ DOMAIN todo = 1..Len(todo) /\ todo # <<>>
  <2>1. ToSet(<<>>) = {}
    BY DEF ToSet
  <2>2. QED
    BY <1>1, <1>3, <2>1
<1>5. Head(todo) = todo[1] /\ 1 \in DOMAIN todo
  BY <1>3, <1>4
<1>6. Head(todo) \in linked
  BY <1>3, <1>5 DEF ToSet
<1>7. NextDownload(kind) = Head(todo)
  BY DEF NextDownload, todo, linked
<1>8. QED
  BY <1>1, <1>6, <1>7 DEF linked, InState, AnswerInv, TypeOK

LEMMA DownloadFailsNext ==
    ASSUME AnswerInv, NEW kind \in Kinds, DownloadFails(kind)
    PROVE  AnswerInv'
<1> DEFINE i == NextDownload(kind)
<1>1. Downloading(kind) /\ answer' = [answer EXCEPT ![i] = Error]
  BY DEF DownloadFails
<1>2. i \in DOMAIN answer /\ answer[i].status = "linked"
  BY <1>1, NextIsLinked
<1> HIDE DEF i
<1>3. DOMAIN answer' = DOMAIN answer
  BY <1>1
<1>4. \A j \in DOMAIN answer :
         \/ answer'[j] = answer[j]
         \/ /\ answer[j].status \in {"miss", "linked"}
            /\ answer'[j] \in {Error, [status |-> "linked", bytes |-> None]}
  BY <1>1, <1>2
<1>5. QED
  BY <1>3, <1>4, NothingFound DEF DownloadFails

LEMMA DownloadNext ==
    ASSUME AnswerInv, NEW kind \in Kinds, Download(kind)
    PROVE  AnswerInv'
<1>0. PICK i : i = NextDownload(kind)
  OBVIOUS
<1>1. Downloading(kind)
  BY DEF Download
<1>2. i \in DOMAIN answer /\ i \in Items /\ answer[i].status = "linked"
  BY <1>0, <1>1, NextIsLinked
<1> DEFINE row == [item |-> Filing(i), tag |-> version, bytes |-> i]
<1>3. /\ rows' = [rows EXCEPT ![KeyOf(i)] = [item |-> Filing(i), tag |-> req.tag, bytes |-> i]]
      /\ answer' = [answer EXCEPT ![i] = [status |-> "fetched", bytes |-> i]]
      /\ fetched' = fetched \cup {Filing(i)}
      /\ UNCHANGED <<version, token, stage, req>>
  BY <1>0 DEF Download, StoreImage
<1>4. stage # "idle" /\ req.tag = version
  BY <1>1 DEF Downloading, Kinds, AnswerInv, Asked
<1>5. \A j \in Items : KeyOf(j) \in Keys
  BY FiledItem
<1>6. rows \in [Keys -> Row \cup {None}] /\ row \in Row /\ row # None
  <2>1. Filing(i) \in Items
    BY <1>2, FiledItem
  <2>2. row \in Row
    BY <1>2, <2>1 DEF AnswerInv, TypeOK, Row
  <2>3. QED
    BY <2>2, ImagesAssumption DEF AnswerInv, TypeOK
<1>7. /\ rows' \in [Keys -> Row \cup {None}] /\ rows'[KeyOf(i)] = row
      /\ \A k \in Keys : k # KeyOf(i) => rows'[k] = rows[k]
  BY <1>2, <1>3, <1>4, <1>5, <1>6
<1>8. ASSUME NEW j \in Items, Filing(j) = Filing(i)
      PROVE  Held(j)' /\ rows'[KeyOf(j)].bytes = i
  <2>1. KeyOf(j) = KeyOf(i)
    BY <1>8 DEF KeyOf
  <2>2. rows'[KeyOf(j)] = row
    BY <1>7, <2>1
  <2>3. QED
    BY <1>3, <1>6, <1>8, <2>2 DEF Held
<1>9. ASSUME NEW j \in Items, Alone(j), Filing(j) # Filing(i)
      PROVE  (Held(j)' <=> Held(j)) /\ rows'[KeyOf(j)] = rows[KeyOf(j)]
  <2>1. KeyOf(j) # KeyOf(i)
    BY <1>2, <1>9 DEF Alone
  <2>2. rows'[KeyOf(j)] = rows[KeyOf(j)]
    BY <1>5, <1>7, <1>9, <2>1
  <2>3. QED
    BY <1>3, <2>2 DEF Held
<1>10. /\ DOMAIN answer' = DOMAIN answer
       /\ answer'[i] = [status |-> "fetched", bytes |-> i]
       /\ \A j \in DOMAIN answer : j # i => answer'[j] = answer[j]
  BY <1>2, <1>3
<1>11. answer'[i].status = "fetched" /\ answer'[i].bytes = i
  BY <1>10
<1>12. TypeOK'
  <2>1. \A j \in DOMAIN answer' : answer'[j] \in [status: Statuses, bytes: Items \cup {None}]
    <3>1. answer'[i] \in [status: Statuses, bytes: Items \cup {None}]
      BY <1>2, <1>10 DEF Statuses
    <3>2. QED
      BY <1>10, <3>1 DEF AnswerInv, TypeOK
  <2>2. fetched' \subseteq Items
    BY <1>2, <1>3, FiledItem DEF AnswerInv, TypeOK
  <2>3. QED
    BY <1>3, <1>7, <1>10, <2>1, <2>2 DEF AnswerInv, TypeOK
<1>13. Order' = Order
  BY <1>3 DEF Order
<1>14. Asked' /\ Quiet'
  BY <1>3, <1>4, <1>10, <1>13 DEF AnswerInv, Asked, Quiet
<1>15. Staged'
  BY <1>3, <1>10, <1>11 DEF AnswerInv, Staged
<1>16. Own' /\ RowsOwn'
  <2>1. OfItem(i, i)
    BY <1>2 DEF OfItem
  <2>2. Own'
    BY <1>10, <1>11, <2>1 DEF AnswerInv, Own, Done
  <2>3. row.bytes = i /\ row.item = Filing(i)
    OBVIOUS
  <2>4. RowsOwn'
    BY <1>7, <2>3 DEF AnswerInv, RowsOwn
  <2>5. QED
    BY <2>2, <2>4
<1>17. InTable'
  <2>1. ASSUME NEW j \in DOMAIN answer', Alone(j)
        PROVE  /\ Done(j)' <=> Held(j)'
               /\ Done(j)' => rows'[KeyOf(j)].bytes = answer'[j].bytes
    <3>1. CASE j = i
      BY <3>1, <1>2, <1>8, <1>11 DEF Done
    <3>2. CASE j # i
      <4>1. j \in DOMAIN answer /\ j \in Items /\ answer'[j] = answer[j]
        BY <2>1, <3>2, <1>10 DEF AnswerInv, TypeOK
      <4>2. Done(j)' <=> Done(j)
        BY <4>1 DEF Done
      <4>3. Filing(j) # Filing(i)
        BY <1>2, <1>4, <3>2, <4>1, AskedFor, FiledApart
      <4>4. QED
        BY <2>1, <4>1, <4>2, <4>3, <1>9 DEF AnswerInv, InTable
    <3>3. QED
      BY <3>1, <3>2
  <2>2. QED
    BY <2>1 DEF InTable
<1>18. Paid'
  <2>1. ASSUME NEW j \in Items, Alone(j), Filing(j) \in fetched'
        PROVE  Held(j)'
    <3>1. CASE Filing(j) = Filing(i)
      BY <3>1, <1>8
    <3>2. CASE Filing(j) # Filing(i)
      BY <2>1, <3>2, <1>3, <1>9 DEF AnswerInv, Paid
    <3>3. QED
      BY <3>1, <3>2
  <2>2. QED
    BY <2>1 DEF Paid
<1>19. QED
  BY <1>12, <1>14, <1>15, <1>16, <1>17, <1>18 DEF AnswerInv

LEMMA BatchDoneNext ==
    ASSUME AnswerInv, NEW kind \in Kinds, BatchDone(kind)
    PROVE  AnswerInv'
<1>1. /\ stage = kind /\ Misses(kind) = {} /\ InState(kind, "linked") = {}
      /\ stage' = IF kind = "render" THEN "fill" ELSE "reply"
      /\ UNCHANGED <<version, rows, token, req, answer, fetched>>
  BY DEF BatchDone
<1>2. stage # "idle" /\ stage' # "idle" /\ stage' \in Kinds \cup {"idle", "reply"}
  BY <1>1 DEF Kinds
<1>3. TypeOK'
  BY <1>1, <1>2 DEF AnswerInv, TypeOK
<1>4. Order' = Order
  BY <1>1 DEF Order
<1>5. Asked' /\ Quiet'
  BY <1>1, <1>2, <1>4 DEF AnswerInv, Asked, Quiet
<1>6. Staged'
  <2>1. ASSUME NEW i \in DOMAIN answer, answer[i].status \in {"miss", "linked"}
        PROVE  stage' = "fill" /\ i.kind = "fill"
    <3>1. i \in Items /\ i.kind # kind
      BY <1>1, <2>1 DEF Misses, InState, AnswerInv, TypeOK
    <3>2. i.kind \in {"render", "fill"}
      BY <3>1, ItemKinds
    <3>3. stage = "render" \/ (stage = "fill" /\ i.kind = "fill")
      BY <2>1 DEF AnswerInv, Staged
    <3>4. QED
      BY <1>1, <3>1, <3>2, <3>3
  <2>2. QED
    BY <1>1, <2>1 DEF Staged
<1>7. Own' /\ RowsOwn' /\ InTable' /\ Paid'
  BY <1>1 DEF AnswerInv, Own, RowsOwn, InTable, Paid, Done, Held
<1>8. QED
  BY <1>3, <1>5, <1>6, <1>7 DEF AnswerInv

LEMMA IdleAgain ==
    ASSUME AnswerInv, stage' = "idle", req' = NoRequest, answer' = <<>>, token' \in BOOLEAN,
           UNCHANGED <<version, rows, fetched>>
    PROVE  AnswerInv'
<1>1. req'.ids = <<>> /\ req'.format = "" /\ req'.tag = NoVersion /\ req'.refs = {}
  BY DEF NoRequest
<1>2. DOMAIN answer' = {} /\ IsInjective(<<>>) /\ <<>> \in Seq(Ids)
  BY DEF IsInjective
<1>3. TypeOK'
  BY <1>1, <1>2 DEF AnswerInv, TypeOK
<1>4. QED
  BY <1>2, <1>3 DEF AnswerInv, Asked, Quiet, Own, RowsOwn, Staged, InTable, Paid, Held

LEMMA PullNext ==
    ASSUME AnswerInv, NEW v \in Versions, NEW whole \in BOOLEAN, Pull(v, whole)
    PROVE  AnswerInv'
<1>1. /\ stage = "idle" /\ version' = v
      /\ rows' = IF whole THEN Evict(v) ELSE rows
      /\ fetched' = IF v = version THEN fetched ELSE {}
      /\ UNCHANGED <<token, stage, req, answer>>
  BY DEF Pull
<1>2. rows \in [Keys -> Row \cup {None}]
  BY DEF AnswerInv, TypeOK
<1>3. rows' \in [Keys -> Row \cup {None}]
  <2>1. Evict(v) \in [Keys -> Row \cup {None}]
    BY <1>2 DEF Evict
  <2>2. QED
    BY <1>1, <1>2, <2>1
<1>4. TypeOK'
  BY <1>1, <1>3 DEF AnswerInv, TypeOK
<1>5. DOMAIN answer = {}
  BY <1>1 DEF AnswerInv, Quiet
<1>6. Paid'
  <2>1. ASSUME NEW i \in Items, Alone(i), Filing(i) \in fetched'
        PROVE  Held(i)'
    <3>1. v = version /\ Filing(i) \in fetched /\ KeyOf(i) \in Keys
      BY <1>1, <2>1, FiledItem
    <3>2. Held(i)
      BY <2>1, <3>1 DEF AnswerInv, Paid
    <3>3. Evict(v)[KeyOf(i)] = rows[KeyOf(i)]
      BY <3>1, <3>2 DEF Evict, Held
    <3>4. QED
      BY <1>1, <3>1, <3>2, <3>3 DEF Held
  <2>2. QED
    BY <2>1 DEF Paid
<1>7. RowsOwn'
  <2>1. \A k \in Keys : Evict(v)[k] \in {rows[k], None}
    BY DEF Evict
  <2>2. \A k \in Keys : rows'[k] \in {rows[k], None}
    BY <1>1, <2>1
  <2>3. QED
    BY <2>2 DEF AnswerInv, RowsOwn
<1>8. QED
  BY <1>1, <1>4, <1>5, <1>6, <1>7 DEF AnswerInv, Asked, Quiet, Own, Staged, InTable

LEMMA AnswerNext == AnswerInv /\ [Next]_vars => AnswerInv'
<1> SUFFICES ASSUME AnswerInv, [Next]_vars PROVE AnswerInv'
  OBVIOUS
<1>1. CASE UNCHANGED vars
  <2>1. TypeOK'
    BY <1>1 DEF vars, AnswerInv, TypeOK
  <2>2. Order' = Order
    BY <1>1 DEF vars, Order
  <2>3. QED
    BY <1>1, <2>1, <2>2
       DEF vars, AnswerInv, Asked, Quiet, Own, RowsOwn, Staged, InTable, Paid, Done, Held
<1>2. ASSUME NEW raw \in BoundedSeq(Ids, MaxRequest), NEW f \in Formats, Scan(raw, f)
      PROVE  AnswerInv'
  BY <1>2, ScanNext
<1>3. ASSUME NEW kind \in Kinds, Resolve(kind)
      PROVE  AnswerInv'
  BY <1>3, AskUrlsNext, DownloadNext, DownloadFailsNext, BatchDoneNext DEF Resolve
<1>4. CASE Reply \/ Restart
  <2>1. token \in BOOLEAN
    BY DEF AnswerInv, TypeOK
  <2>2. QED
    BY <1>4, <2>1, IdleAgain DEF Reply, Restart
<1>5. ASSUME NEW v \in Versions, NEW whole \in BOOLEAN, Pull(v, whole)
      PROVE  AnswerInv'
  BY <1>5, PullNext
<1>6. QED
  BY <1>1, <1>2, <1>3, <1>4, <1>5 DEF Next

-----------------------------------------------------------------------------
(* Theorems *)

\* Requests are well typed, and each asks for an id once, whatever the client
\* repeats (images.rs normalize_ids).
THEOREM TypeCorrect == Spec => []TypeOK
<1>1. AnswerInv => TypeOK
  BY DEF AnswerInv
<1>2. QED
  BY <1>1, AnswerInit, AnswerNext, PTL DEF Spec

\* No item is answered with another's bytes, whatever the hashes collide on and
\* however downloads fail and versions move: the bytes were downloaded for an
\* item with the same node, format and scale in thousandths, or the same ref
\* (images.rs matches_identity).
THEOREM BytesAreOwn == Spec => []OwnBytes
<1>1. AnswerInv => OwnBytes
  BY DEF AnswerInv, Own, OfItem, OwnBytes
<1>2. QED
  BY <1>1, AnswerInit, AnswerNext, PTL DEF Spec

\* When an answer is ready, an item has the bytes the table has for it at the
\* mirror's version, or is an error if it has none, but for keys that collide: no
\* error is cached and no download is lost (images.rs resolve, store_image).
THEOREM TableHasAnswers == Spec => []AnsweredIffCached
<1>1. AnswerInv => AnsweredIffCached
  <2> SUFFICES ASSUME AnswerInv, stage = "reply", NEW i \in DOMAIN answer, Alone(i)
               PROVE  IF Held(i) THEN answer[i].bytes = rows[KeyOf(i)].bytes
                                 ELSE answer[i].status = "error"
    BY DEF AnsweredIffCached
  <2>1. answer[i].status \in {"cached", "fetched", "error"}
    BY DEF AnswerInv, Staged, TypeOK, Statuses
  <2>2. QED
    BY <2>1 DEF AnswerInv, InTable, Done
<1>2. QED
  BY <1>1, AnswerInit, AnswerNext, PTL DEF Spec

\* No request for URLs covers an image downloaded before at this version, but
\* for keys that collide (images.rs scan; SPEC 15).
THEOREM PaidOnce == Spec => NothingPaidTwice
<1>1. AnswerInv /\ [Next]_vars =>
        [\A kind \in Kinds : AskUrls(kind) =>
            \A i \in Misses(kind) : Alone(i) => Filing(i) \notin fetched]_vars
  BY DEF AnswerInv, TypeOK, InTable, Paid, Done, Misses, InState
<1>2. QED
  BY <1>1, AnswerInit, AnswerNext, PTL DEF Spec, NothingPaidTwice

-----------------------------------------------------------------------------
(* The relay *)

LEMMA NoneEncoded == \A bytes : Encoded(bytes) = None <=> bytes = None
  BY ImagesAssumption DEF Encoded

\* The rows a command restores from the blocks it gets are those that were
\* sent, but for those over the cap: the tag of a block tells its row.
LEMMA RelayedRow ==
    ASSUME NEW X, NEW out \in Seq(X), NEW k \in DOMAIN out,
           \A o, q \in X : o.item.subject = q.item.subject => o = q,
           \A o \in X : o.error => o.bytes = None,
           \A o \in X : ~o.error => o.bytes # None
    PROVE  Relayed(out, k) = IF out[k].bytes \in Large THEN None ELSE Encoded(out[k].bytes)
<1> DEFINE sound == {o \in ToSet(out) : ~o.error}
           good == Chosen(out, sound)
           Block(o) == [subject |-> o.item.subject,
                        payload |-> IF o.bytes \in Large THEN None ELSE Encoded(o.bytes)]
           content == [n \in DOMAIN good |-> Block(good[n])]
           fits == {b \in ToSet(content) : /\ b.subject = out[k].item.subject
                                           /\ b.payload # None}
           mine == Chosen(content, fits)
           Y == ToSet(content)
<1>1. out[k] \in X /\ out[k] \in ToSet(out) /\ ToSet(out) \subseteq X
  BY DEF ToSet
<1>2. good \in Seq(X) /\ ToSet(good) = sound
  <2> HIDE DEF sound
  <2>1. good \in Seq(X) /\ ToSet(good) = ToSet(out) \cap sound
    BY ChosenElements
  <2>2. sound \subseteq ToSet(out)
    BY DEF sound
  <2>3. QED
    BY <2>1, <2>2
<1>3. Content(out) = content
  BY DEF Content
<1> HIDE DEF good
<1>4. Len(good) \in Nat /\ DOMAIN good = 1..Len(good)
  BY <1>2
<1>5. Y = {Block(o) : o \in sound}
  <2> HIDE DEF sound, Block
  <2>1. Y = {Block(good[n]) : n \in DOMAIN good}
    BY DEF ToSet
  <2>2. sound = {good[n] : n \in DOMAIN good}
    BY <1>2 DEF ToSet
  <2>3. QED
    BY <2>1, <2>2
<1>6. content \in Seq(Y)
  <2> HIDE DEF Block
  <2>1. \A n \in 1..Len(good) : content[n] \in Y
    BY <1>4 DEF ToSet
  <2> HIDE DEF Y
  <2>2. QED
    BY <1>4, <2>1
<1> HIDE DEF content
<1>7. mine \in Seq(Y) /\ ToSet(mine) = fits
  <2> HIDE DEF fits
  <2>1. mine \in Seq(Y) /\ ToSet(mine) = ToSet(content) \cap fits
    BY <1>6, ChosenElements
  <2>2. fits \subseteq ToSet(content)
    BY DEF fits
  <2>3. QED
    BY <2>1, <2>2
<1>8. Relayed(out, k) = IF mine = <<>> THEN None ELSE Head(mine).payload
  BY <1>3 DEF Relayed, Payload
<1> HIDE DEF mine
<1>9. \A b : b \in fits <=> /\ \E o \in sound : b = Block(o)
                            /\ b.subject = out[k].item.subject
                            /\ b.payload # None
  <2> HIDE DEF sound, Block
  <2>1. QED
    BY <1>5
<1> HIDE DEF fits, Y
<1>10. \A o : /\ Block(o).subject = o.item.subject
              /\ Block(o).payload = IF o.bytes \in Large THEN None ELSE Encoded(o.bytes)
  OBVIOUS
<1> HIDE DEF Block
<1>11. ASSUME NEW b \in fits
       PROVE  /\ ~out[k].error /\ out[k].bytes \notin Large
              /\ b.payload = Encoded(out[k].bytes)
  <2>1. PICK o \in sound : b = Block(o)
    BY <1>9
  <2>2. o \in X /\ ~o.error
    BY <1>1, <2>1
  <2>3. o.item.subject = out[k].item.subject
    BY <1>9, <1>10, <2>1
  <2>4. o = out[k]
    BY <1>1, <2>2, <2>3
  <2>5. b.payload # None
    BY <1>9
  <2>6. QED
    BY <1>10, <2>1, <2>2, <2>4, <2>5
<1>12. CASE fits = {}
  <2>1. mine = <<>>
    <3>1. Len(mine) \in Nat /\ DOMAIN mine = 1..Len(mine)
      BY <1>7
    <3>2. DOMAIN mine = {}
      <4>1. \A n \in DOMAIN mine : mine[n] \in ToSet(mine)
        BY DEF ToSet
      <4>2. ToSet(mine) = {}
        BY <1>7, <1>12
      <4>3. QED
        BY <4>1, <4>2
    <3>3. Len(mine) = 0
      BY <3>1, <3>2
    <3>4. QED
      BY <1>7, <3>3, EmptySeq
  <2>2. Relayed(out, k) = None
    BY <1>8, <2>1
  <2>3. CASE out[k].error
    BY <1>1, <2>2, <2>3, NoneEncoded
  <2>4. CASE ~out[k].error
    <3>1. out[k] \in sound
      BY <1>1, <2>4
    <3>2. out[k].bytes # None
      BY <1>1, <2>4
    <3>3. ASSUME out[k].bytes \notin Large PROVE FALSE
      <4>1. /\ Block(out[k]).subject = out[k].item.subject
            /\ Block(out[k]).payload # None
        BY <1>10, <3>2, <3>3, NoneEncoded
      <4>2. Block(out[k]) \in fits
        BY <1>9, <3>1, <4>1
      <4>3. QED
        BY <1>12, <4>2
    <3>4. QED
      BY <2>2, <3>3
  <2>5. QED
    BY <2>3, <2>4
<1>13. CASE fits # {}
  <2>1. mine # <<>> /\ Head(mine) \in fits
    <3>1. Len(mine) \in Nat /\ DOMAIN mine = 1..Len(mine) /\ ToSet(<<>>) = {}
      BY <1>7 DEF ToSet
    <3>2. mine # <<>>
      BY <1>7, <1>13, <3>1
    <3>3. Head(mine) = mine[1] /\ 1 \in DOMAIN mine
      BY <1>7, <3>1, <3>2
    <3>4. QED
      BY <1>7, <3>2, <3>3 DEF ToSet
  <2>2. QED
    BY <1>8, <1>11, <2>1
<1>14. QED
  BY <1>12, <1>13

\* A command answered over the socket writes the files it would have written
\* itself, whatever failed, but for those over the cap, which it does not get,
\* and for SVGs that are no UTF-8 (cli/images.rs, to_mcp_content).
THEOREM RelayKeepsFiles == Spec => []RelayFaithful
<1>1. AnswerInv => RelayFaithful
  <2> SUFFICES ASSUME AnswerInv, stage = "reply", NEW k \in DOMAIN Out
               PROVE  Relayed(Out, k) = IF Out[k].bytes \in Large THEN None
                                          ELSE Encoded(Out[k].bytes)
    BY DEF RelayFaithful
  <2> DEFINE Entry(i) == [item |-> i, error |-> answer[i].status = "error",
                         bytes |-> answer[i].bytes]
             X == {Entry(i) : i \in DOMAIN answer}
  <2>1. req.ids \in Seq(Ids) /\ req.format \in Formats /\ req.refs \in SUBSET Refs
    BY DEF AnswerInv, TypeOK, Asked
  <2>2. /\ Order \in Seq(Items) /\ ToSet(Order) = DOMAIN answer
        /\ DOMAIN answer = Wanted(req.ids, req.format, req.refs)
    BY <2>1, OrderListed, ListedItems DEF AnswerInv, Asked
  <2>3. Len(Order) \in Nat /\ DOMAIN Order = 1..Len(Order)
    BY <2>2
  <2>4. \A n \in 1..Len(Order) : Order[n] \in DOMAIN answer
    BY <2>2, <2>3 DEF ToSet
  <2>5. Out = [n \in 1..Len(Order) |-> Entry(Order[n])]
    BY <2>3 DEF Out
  <2>6. Out \in Seq(X)
    <3>1. \A n \in 1..Len(Order) : Entry(Order[n]) \in X
      BY <2>4
    <3> HIDE DEF X, Entry
    <3>2. QED
      BY <2>3, <2>5, <3>1
  <2>7. ASSUME NEW i \in DOMAIN answer
        PROVE  answer[i].status = "error" <=> answer[i].bytes = None
    <3>1. answer[i].status \in {"cached", "fetched", "error"}
      BY DEF AnswerInv, Staged, TypeOK, Statuses
    <3>2. Done(i) => answer[i].bytes # None
      BY ImagesAssumption DEF AnswerInv, Own, OfItem
    <3>3. ~Done(i) => answer[i].bytes = None
      BY DEF AnswerInv, Own
    <3>4. QED
      BY <3>1, <3>2, <3>3 DEF Done
  <2>8. ASSUME NEW i \in DOMAIN answer, NEW j \in DOMAIN answer, i.subject = j.subject
        PROVE  i = j
    <3>1. ASSUME NEW e \in DOMAIN answer
          PROVE  \/ \E id \in Ids : e = Render(id, req.format) /\ e.subject = id
                 \/ \E r \in Refs : e = Fill(r) /\ e.subject = r
      <4>1. CASE e \in {Render(id, req.format) : id \in ToSet(req.ids)}
        <5>1. PICK id \in ToSet(req.ids) : e = Render(id, req.format)
          BY <4>1
        <5>2. id \in Ids /\ Render(id, req.format).subject = id
          BY <2>1, <5>1 DEF ToSet, Render
        <5>3. QED
          BY <5>1, <5>2
      <4>2. CASE e \in {Fill(r) : r \in req.refs}
        <5>1. PICK r \in req.refs : e = Fill(r)
          BY <4>2
        <5>2. r \in Refs /\ Fill(r).subject = r
          BY <2>1, <5>1 DEF Fill
        <5>3. QED
          BY <5>1, <5>2
      <4>3. QED
        BY <2>2, <3>1, <4>1, <4>2 DEF Wanted
    <3>2. Ids \cap Refs = {}
      BY ImagesAssumption
    <3>3. QED
      BY <2>8, <3>1, <3>2
  <2>9. \A i : /\ Entry(i).item = i /\ Entry(i).bytes = answer[i].bytes
               /\ Entry(i).error <=> answer[i].status = "error"
    OBVIOUS
  <2> HIDE DEF Entry
  <2>10. \A o, q \in X : o.item.subject = q.item.subject => o = q
    <3> SUFFICES ASSUME NEW o \in X, NEW q \in X, o.item.subject = q.item.subject
                 PROVE  o = q
      OBVIOUS
    <3>1. PICK i \in DOMAIN answer : o = Entry(i)
      OBVIOUS
    <3>2. PICK j \in DOMAIN answer : q = Entry(j)
      OBVIOUS
    <3>3. i.subject = j.subject
      BY <2>9, <3>1, <3>2
    <3>4. QED
      BY <2>8, <3>1, <3>2, <3>3
  <2>11. ASSUME NEW o \in X
         PROVE  /\ o.error => o.bytes = None
                /\ ~o.error => o.bytes # None
    <3>1. PICK i \in DOMAIN answer : o = Entry(i)
      OBVIOUS
    <3>2. o.error <=> answer[i].status = "error"
      BY <2>9, <3>1
    <3>3. o.bytes = answer[i].bytes
      BY <2>9, <3>1
    <3>4. QED
      BY <2>7, <3>2, <3>3
  <2> HIDE DEF X
  <2>12. QED
    BY <2>6, <2>10, <2>11, RelayedRow
<1>2. QED
  BY <1>1, AnswerInit, AnswerNext, PTL DEF Spec
=============================================================================
