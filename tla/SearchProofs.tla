---------------------------- MODULE SearchProofs ----------------------------
(***************************************************************************)
(* Proofs about Search: what is asked survives the query string, the pager *)
(* skips nothing and every row of an agenda is found, for any number of    *)
(* visitors, words, meetings, projects and certificates and any size of a  *)
(* page.                                                                   *)
(***************************************************************************)
EXTENDS Search, FiniteSetTheorems, WellFoundedInduction, TLAPS

-----------------------------------------------------------------------------
(* The query string. *)
LEMMA LastIndex ==
  ASSUME NEW n \in Nat, NEW S \in SUBSET (1..n), S # {}
  PROVE  Max(S) \in S /\ \A i \in S : i <= Max(S)
<1> DEFINE T == {n - i : i \in S}
<1>1. T \subseteq Nat /\ T # {}
  <2>1. \A i \in S : n - i \in Nat
    OBVIOUS
  <2>2. PICK i \in S : TRUE
    OBVIOUS
  <2>3. n - i \in T
    OBVIOUS
  <2> QED
    BY <2>1, <2>3
<1>2. PICK t \in T : \A u \in T : ~ (<<u, t>> \in OpToRel(<, Nat))
  BY <1>1, NatLessThanWellFounded, WFMin, Zenon
<1>3. PICK i \in S : t = n - i
  OBVIOUS
<1>4. \A j \in S : i >= j
  <2> SUFFICES ASSUME NEW j \in S, j > i PROVE FALSE
    OBVIOUS
  <2>1. n - j \in T /\ n - j < n - i
    OBVIOUS
  <2> QED
    BY <1>1, <1>2, <1>3, <2>1 DEF OpToRel
<1>5. \E k \in S : \A j \in S : k >= j
  BY <1>4
<1>6. Max(S) \in S /\ \A j \in S : Max(S) >= j
  BY <1>5 DEF Max
<1> QED
  BY <1>6

(* Of two query strings, one behind the other, the second is read first. *)
LEMMA LastOfTwo ==
  ASSUME NEW S, NEW s \in Seq(S), NEW t \in Seq(S), NEW keys, NEW otherwise
  PROVE  LastOf(s \o t, keys, otherwise) = LastOf(t, keys, LastOf(s, keys, otherwise))
<1> DEFINE At(url) == {i \in DOMAIN url : url[i][1] \in keys}
           st == s \o t
<1>1. /\ DOMAIN s = 1..Len(s) /\ DOMAIN t = 1..Len(t) /\ Len(s) \in Nat /\ Len(t) \in Nat
      /\ DOMAIN st = 1..(Len(s) + Len(t))
      /\ \A i \in 1..Len(s) : st[i] = s[i]
      /\ \A i \in 1..Len(t) : st[Len(s) + i] = t[i]
  OBVIOUS
<1> HIDE DEF st
<1>2. CASE At(t) # {}
  <2>1. Max(At(t)) \in At(t) /\ \A i \in At(t) : i <= Max(At(t))
    BY <1>1, <1>2, LastIndex
  <2>2. Len(s) + Max(At(t)) \in At(st)
    BY <1>1, <2>1
  <2>3. Max(At(st)) \in At(st) /\ \A i \in At(st) : i <= Max(At(st))
    <3>1. At(st) \in SUBSET (1..(Len(s) + Len(t))) /\ Len(s) + Len(t) \in Nat
      BY <1>1
    <3> QED
      BY <2>2, <3>1, LastIndex
  <2>4. \A i \in At(st) : i > Len(s) => i - Len(s) \in At(t)
    <3> SUFFICES ASSUME NEW i \in At(st), i > Len(s) PROVE i - Len(s) \in At(t)
      OBVIOUS
    <3>1. i - Len(s) \in 1..Len(t) /\ Len(s) + (i - Len(s)) = i
      BY <1>1
    <3> QED
      BY <1>1, <3>1
  <2> DEFINE a == Max(At(t))  b == Max(At(st))
  <2>5. a \in 1..Len(t) /\ b \in 1..(Len(s) + Len(t))
    BY <1>1, <2>1, <2>3
  <2>6. b = Len(s) + a
    <3>1. Len(s) + a <= b
      BY <2>2, <2>3
    <3>2. b - Len(s) <= a
      BY <1>1, <2>1, <2>3, <2>4, <2>5, <3>1
    <3> QED
      BY <1>1, <2>5, <3>1, <3>2
  <2>7. st[b][2] = t[a][2]
    BY <1>1, <2>5, <2>6
  <2> QED
    BY <1>2, <2>2, <2>7 DEF LastOf, st
<1>3. CASE At(t) = {}
  <2>1. \A i \in At(st) : i \in At(s)
    <3> SUFFICES ASSUME NEW i \in At(st) PROVE i \in At(s)
      OBVIOUS
    <3>1. CASE i <= Len(s)
      BY <1>1, <3>1
    <3>2. CASE i > Len(s)
      <4>1. i - Len(s) \in 1..Len(t) /\ Len(s) + (i - Len(s)) = i
        BY <1>1, <3>2
      <4> QED
        BY <1>1, <1>3, <4>1
    <3> QED
      BY <1>1, <3>1, <3>2
  <2>2. At(st) = At(s)
    BY <1>1, <2>1
  <2>3. CASE At(s) = {}
    BY <1>3, <2>2, <2>3 DEF LastOf, st
  <2>4. CASE At(s) # {}
    <3>1. Max(At(s)) \in At(s)
      BY <1>1, <2>4, LastIndex
    <3>2. st[Max(At(s))] = s[Max(At(s))]
      BY <1>1, <3>1
    <3> QED
      BY <1>3, <2>2, <2>4, <3>2 DEF LastOf, st
  <2> QED
    BY <2>3, <2>4
<1> QED
  BY <1>2, <1>3

LEMMA LastOfOne ==
  ASSUME NEW key, NEW value, NEW keys, NEW otherwise
  PROVE  /\ LastOf(<<>>, keys, otherwise) = otherwise
         /\ LastOf(<< <<key, value>> >>, keys, otherwise)
              = IF key \in keys THEN value ELSE otherwise
<1> DEFINE url == << <<key, value>> >>
           at == {i \in DOMAIN url : url[i][1] \in keys}
<1>1. LastOf(<<>>, keys, otherwise) = otherwise
  BY DEF LastOf
<1>2. DOMAIN url = {1} /\ url[1][1] = key /\ url[1][2] = value
  OBVIOUS
<1>3. CASE key \in keys
  <2>1. at = {1}
    BY <1>2, <1>3
  <2>2. Max(at) = 1
    BY <2>1 DEF Max
  <2> QED
    BY <1>1, <1>2, <1>3, <2>1, <2>2 DEF LastOf
<1>4. CASE key \notin keys
  <2>1. at = {}
    BY <1>2, <1>4
  <2> QED
    BY <1>1, <1>4, <2>1 DEF LastOf
<1> QED
  BY <1>3, <1>4

LEMMA AllTipsOfTwo ==
  ASSUME NEW S, NEW s \in Seq(S), NEW t \in Seq(S)
  PROVE  AllTips(s \o t) = AllTips(s) \cup AllTips(t)
<1> DEFINE Tips(url) == {pair \in ToSet(url) : pair[1] = "tip"}
<1>1. ToSet(s \o t) = ToSet(s) \cup ToSet(t)
  <2> DEFINE st == s \o t
  <2>1. /\ DOMAIN s = 1..Len(s) /\ DOMAIN t = 1..Len(t) /\ Len(s) \in Nat /\ Len(t) \in Nat
        /\ DOMAIN st = 1..(Len(s) + Len(t))
        /\ \A i \in 1..Len(s) : st[i] = s[i]
        /\ \A i \in 1..Len(t) : st[Len(s) + i] = t[i]
    OBVIOUS
  <2> HIDE DEF st
  <2>2. ASSUME NEW i \in 1..(Len(s) + Len(t))
        PROVE  st[i] \in {s[j] : j \in 1..Len(s)} \cup {t[j] : j \in 1..Len(t)}
    <3>1. CASE i <= Len(s)
      BY <2>1, <3>1
    <3>2. CASE i > Len(s)
      <4>1. i - Len(s) \in 1..Len(t) /\ Len(s) + (i - Len(s)) = i
        BY <2>1, <3>2
      <4>2. st[i] = t[i - Len(s)]
        BY <2>1, <4>1
      <4> QED
        BY <4>1, <4>2
    <3> QED
      BY <2>1, <3>1, <3>2
  <2>3. ASSUME NEW j \in 1..Len(s)
        PROVE  s[j] \in {st[i] : i \in 1..(Len(s) + Len(t))}
    BY <2>1
  <2>4. ASSUME NEW j \in 1..Len(t)
        PROVE  t[j] \in {st[i] : i \in 1..(Len(s) + Len(t))}
    <3>1. Len(s) + j \in 1..(Len(s) + Len(t))
      BY <2>1
    <3> QED
      BY <2>1, <3>1
  <2> QED
    BY <2>1, <2>2, <2>3, <2>4 DEF ToSet, st
<1>2. Tips(s \o t) = Tips(s) \cup Tips(t)
  BY <1>1
<1> QED
  BY <1>2 DEF AllTips

LEMMA AllTipsOfOne ==
  ASSUME NEW key, NEW value
  PROVE  /\ AllTips(<<>>) = {}
         /\ AllTips(<< <<key, value>> >>) = IF key = "tip" THEN KnownOf(value) ELSE {}
<1> DEFINE url == << <<key, value>> >>
<1>1. AllTips(<<>>) = {}
  BY DEF AllTips, ToSet
<1>2. ToSet(url) = {<<key, value>>}
  BY DEF ToSet
<1> QED
  BY <1>1, <1>2 DEF AllTips

(* The names of kinds are read as the kinds they name, whatever else is written. *)
LEMMA KindsAreKnown ==
  ASSUME NEW typed
  PROVE  /\ KnownOf(typed) \subseteq Kinds
         /\ typed \subseteq Kinds => KnownOf(typed) = typed
<1>1. \A t : Named(t) \in Kinds \cup {None}
  BY DEF Named, CategoryOf, KindOf, Kinds, Categories, CertificateKinds
<1>2. \A t \in Kinds : Named(t) = t
  <2>1. \A t \in Categories : CategoryOf(t) = t
    BY DEF CategoryOf, Categories
  <2>2. \A t \in CertificateKinds : KindOf(t) = t
    BY DEF KindOf, CertificateKinds
  <2> QED
    BY <2>1, <2>2 DEF Named, Kinds
<1>3. None \notin Kinds
  BY SearchAssumption DEF Kinds
<1> QED
  BY <1>1, <1>2, <1>3 DEF KnownOf

LEMMA PairIs ==
  ASSUME NEW S, NEW key, NEW value, NEW empty, <<key, value>> \in S
  PROVE  Pair(key, value, empty) \in Seq(S)
  BY DEF Pair

LEMMA LastOfPair ==
  ASSUME NEW key, NEW value, NEW empty, NEW keys, NEW otherwise
  PROVE  LastOf(Pair(key, value, empty), keys, otherwise)
           = IF key \in keys /\ value # empty THEN value ELSE otherwise
<1>1. CASE value = empty
  BY <1>1, LastOfOne DEF Pair
<1>2. CASE value # empty
  BY <1>2, LastOfOne DEF Pair
<1> QED
  BY <1>1, <1>2

LEMMA AllTipsOfPair ==
  ASSUME NEW key, NEW value, NEW empty
  PROVE  AllTips(Pair(key, value, empty))
           = IF key = "tip" /\ value # empty THEN KnownOf(value) ELSE {}
<1>1. CASE value = empty
  BY <1>1, AllTipsOfOne DEF Pair
<1>2. CASE value # empty
  BY <1>2, AllTipsOfOne DEF Pair
<1> QED
  BY <1>1, <1>2

(* What the link to the next page says is what was asked. *)
LEMMA ShownIsRead ==
  ASSUME NEW q, NEW tip \in SUBSET Kinds, NEW an, NEW offset
  PROVE  LET p == [q |-> q, tip |-> tip, an |-> an, offset |-> offset]
         IN SearchParams(Show(p)) = p
<1> DEFINE S  == {<<"q", q>>, <<"tip", tip>>, <<"an", an>>, <<"de_la", offset>>}
           p1 == Pair("q", q, {})
           p2 == Pair("tip", tip, {})
           p3 == Pair("an", an, None)
           p4 == Pair("de_la", offset, 0)
<1>1. p1 \in Seq(S) /\ p2 \in Seq(S) /\ p3 \in Seq(S) /\ p4 \in Seq(S)
  <2>1. <<"q", q>> \in S /\ <<"tip", tip>> \in S /\ <<"an", an>> \in S
        /\ <<"de_la", offset>> \in S
    OBVIOUS
  <2> HIDE DEF S
  <2> QED
    BY <2>1, PairIs
<1>2. ASSUME NEW keys, NEW otherwise
      PROVE  /\ LastOf(p1, keys, otherwise) = IF "q" \in keys /\ q # {} THEN q ELSE otherwise
             /\ LastOf(p2, keys, otherwise)
                  = IF "tip" \in keys /\ tip # {} THEN tip ELSE otherwise
             /\ LastOf(p3, keys, otherwise)
                  = IF "an" \in keys /\ an # None THEN an ELSE otherwise
             /\ LastOf(p4, keys, otherwise)
                  = IF "de_la" \in keys /\ offset # 0 THEN offset ELSE otherwise
  <2>1. LastOf(p1, keys, otherwise) = IF "q" \in keys /\ q # {} THEN q ELSE otherwise
    BY ONLY LastOfPair
  <2>2. LastOf(p2, keys, otherwise) = IF "tip" \in keys /\ tip # {} THEN tip ELSE otherwise
    BY ONLY LastOfPair
  <2>3. LastOf(p3, keys, otherwise) = IF "an" \in keys /\ an # None THEN an ELSE otherwise
    BY ONLY LastOfPair
  <2>4. LastOf(p4, keys, otherwise)
          = IF "de_la" \in keys /\ offset # 0 THEN offset ELSE otherwise
    BY ONLY LastOfPair
  <2> QED
    BY <2>1, <2>2, <2>3, <2>4
<1>3a. /\ AllTips(p1) = {} /\ AllTips(p3) = {} /\ AllTips(p4) = {}
       /\ AllTips(p2) = tip
  <2>1. KnownOf(tip) = tip
    BY KindsAreKnown
  <2> QED
    BY <2>1, AllTipsOfPair
<1> DEFINE p == [q |-> q, tip |-> tip, an |-> an, offset |-> offset]
           p12 == p1 \o p2
           p123 == p12 \o p3
           url == p123 \o p4
<1>3. Show(p) = url
  BY DEF Show
<1> HIDE DEF p1, p2, p3, p4, S
<1>4. p12 \in Seq(S) /\ p123 \in Seq(S)
  BY <1>1
<1>5. ASSUME NEW keys, NEW otherwise
      PROVE  LastOf(url, keys, otherwise)
               = LastOf(p4, keys,
                        LastOf(p3, keys, LastOf(p2, keys, LastOf(p1, keys, otherwise))))
  <2>1. LastOf(p12, keys, otherwise) = LastOf(p2, keys, LastOf(p1, keys, otherwise))
    BY <1>1, LastOfTwo
  <2> HIDE DEF p12
  <2>2. LastOf(p123, keys, otherwise) = LastOf(p3, keys, LastOf(p12, keys, otherwise))
    BY <1>1, <1>4, LastOfTwo
  <2> HIDE DEF p123
  <2>3. LastOf(url, keys, otherwise) = LastOf(p4, keys, LastOf(p123, keys, otherwise))
    BY <1>1, <1>4, LastOfTwo
  <2> QED
    BY <2>1, <2>2, <2>3
<1>6. AllTips(url) = tip
  <2>1. AllTips(p12) = AllTips(p1) \cup AllTips(p2)
    BY <1>1, AllTipsOfTwo
  <2> HIDE DEF p12
  <2>2. AllTips(p123) = AllTips(p12) \cup AllTips(p3)
    BY <1>1, <1>4, AllTipsOfTwo
  <2> HIDE DEF p123
  <2>3. AllTips(url) = AllTips(p123) \cup AllTips(p4)
    BY <1>1, <1>4, AllTipsOfTwo
  <2> QED
    BY <1>3a, <2>1, <2>2, <2>3
<1> HIDE DEF url
<1>7. LastOf(url, {"q"}, {}) = q
  BY <1>2, <1>5
<1>8. LastOf(url, {"an"}, None) = an
  BY <1>2, <1>5
<1>9. LastOf(url, {"de_la", "offset"}, 0) = offset
  BY <1>2, <1>5
<1> QED
  BY <1>3, <1>6, <1>7, <1>8, <1>9 DEF SearchParams

LEMMA KindsFinite == IsFiniteSet(Kinds)
<1>1. ASSUME NEW a, NEW b, NEW c, NEW d
      PROVE  IsFiniteSet({a, b, c, d})
  <2>1. IsFiniteSet({a}) /\ IsFiniteSet({b}) /\ IsFiniteSet({c}) /\ IsFiniteSet({d})
    BY FS_Singleton
  <2>2. IsFiniteSet({a} \cup {b}) /\ IsFiniteSet({c} \cup {d})
    BY <2>1, FS_Union
  <2>3. IsFiniteSet(({a} \cup {b}) \cup ({c} \cup {d}))
    BY <2>2, FS_Union
  <2>4. ({a} \cup {b}) \cup ({c} \cup {d}) = {a, b, c, d}
    OBVIOUS
  <2> QED
    BY <2>3, <2>4
<1>2. IsFiniteSet(Categories)
  BY <1>1 DEF Categories
<1>3. CertificateKinds = {"INFORMARE", "CONSTRUIRE", "PUZ", "PUD"}
                           \cup {"OPERATIUNI", "OPERATIUNI", "ALTELE", "ALTELE"}
  BY DEF CertificateKinds
<1>4. IsFiniteSet(CertificateKinds)
  BY <1>1, <1>3, FS_Union
<1> QED
  BY <1>2, <1>4 DEF Kinds

LEMMA SeqOfSet ==
  ASSUME NEW T, IsFiniteSet(T)
  PROVE  /\ Cardinality(T) \in Nat
         /\ SetToSeq(T) \in [1..Cardinality(T) -> T]
         /\ {SetToSeq(T)[i] : i \in 1..Cardinality(T)} = T
<1> DEFINE n == Cardinality(T)
           f == SetToSeq(T)
           R == {f[i] : i \in 1..n}
<1>1. n \in Nat
  BY FS_CardinalityType
<1>2. ExistsBijection(1..n, T)
  BY FS_CardinalityType
<1>3. \E g \in [1..n -> T] : IsInjective(g)
  BY <1>2 DEF ExistsBijection, Bijection, Injection, IsInjective
<1>4. f \in [1..n -> T] /\ IsInjective(f)
  BY <1>3 DEF SetToSeq
<1> HIDE DEF f, n
<1>5. f \in Bijection(1..n, R)
  BY <1>4 DEF Bijection, Injection, Surjection, IsInjective
<1>6. Cardinality(R) = n
  BY <1>1, <1>5, FS_CountingElements DEF ExistsBijection
<1>7. R \subseteq T
  BY <1>4
<1>8. R = T
  BY <1>6, <1>7, FS_Subset DEF n
<1> QED
  BY <1>1, <1>4, <1>8 DEF f, n

(* The boxes of a form, in whatever order they are sent. *)
LEMMA FormIsRead ==
  ASSUME NEW q, NEW ticked \in SUBSET Kinds, NEW an
  PROVE  SearchParams(FormUrl(q, ticked, an))
           = [q |-> q, tip |-> ticked, an |-> an, offset |-> 0]
<1> DEFINE n == Cardinality(ticked)
           f == SetToSeq(ticked)
           boxes == [i \in 1..n |-> <<"tip", {f[i]}>>]
           head == << <<"q", q>> >>
           last == << <<"an", an>> >>
           S == {<<"q", q>>, <<"an", an>>} \cup {<<"tip", {t}>> : t \in ticked}
           front == head \o boxes
           url == front \o last
<1>1. /\ n \in Nat /\ f \in [1..n -> ticked]
      /\ {f[i] : i \in 1..n} = ticked
  BY FS_Subset, KindsFinite, SeqOfSet
<1> HIDE DEF n, f
<1>2. head \in Seq(S) /\ last \in Seq(S)
  OBVIOUS
<1>3. boxes \in Seq(S) /\ DOMAIN boxes = 1..n
  BY <1>1
<1>4. FormUrl(q, ticked, an) = url
  BY DEF FormUrl, n, f
<1>5. ASSUME NEW keys, "tip" \notin keys, NEW otherwise
      PROVE  LastOf(boxes, keys, otherwise) = otherwise
  <2>1. \A i \in DOMAIN boxes : boxes[i][1] \notin keys
    BY <1>5
  <2> HIDE DEF boxes
  <2>2. {i \in DOMAIN boxes : boxes[i][1] \in keys} = {}
    BY <2>1
  <2> QED
    BY <2>2 DEF LastOf
<1>6. AllTips(boxes) = ticked
  <2>1. ToSet(boxes) = {<<"tip", {t}>> : t \in ticked}
    BY <1>1 DEF ToSet
  <2> HIDE DEF boxes
  <2>2. {p \in ToSet(boxes) : p[1] = "tip"} = {<<"tip", {t}>> : t \in ticked}
    BY <2>1
  <2>3. \A k : k \in AllTips(boxes) <=>
                 \E p \in {<<"tip", {t}>> : t \in ticked} : k \in KnownOf(p[2])
    BY <2>2 DEF AllTips
  <2>4. \A t \in ticked : KnownOf({t}) = {t}
    BY KindsAreKnown
  <2>5. ASSUME NEW k \in ticked
        PROVE  k \in AllTips(boxes)
    <3>1. <<"tip", {k}>> \in {<<"tip", {t}>> : t \in ticked} /\ <<"tip", {k}>>[2] = {k}
      OBVIOUS
    <3> QED
      BY <2>3, <2>4, <3>1
  <2>6. ASSUME NEW k \in AllTips(boxes)
        PROVE  k \in ticked
    <3>1. PICK p \in {<<"tip", {t}>> : t \in ticked} : k \in KnownOf(p[2])
      BY <2>3
    <3>2. PICK t \in ticked : p = <<"tip", {t}>>
      OBVIOUS
    <3>3. p[2] = {t}
      BY <3>2
    <3> QED
      BY <2>4, <3>1, <3>3
  <2> QED
    BY <2>5, <2>6
<1> HIDE DEF boxes, S, head, last
<1>7. front \in Seq(S)
  BY <1>2, <1>3
<1>8. ASSUME NEW keys, NEW otherwise
      PROVE  LastOf(url, keys, otherwise)
               = LastOf(last, keys, LastOf(boxes, keys, LastOf(head, keys, otherwise)))
  <2>1. LastOf(front, keys, otherwise) = LastOf(boxes, keys, LastOf(head, keys, otherwise))
    BY <1>2, <1>3, LastOfTwo
  <2> HIDE DEF front
  <2>2. LastOf(url, keys, otherwise) = LastOf(last, keys, LastOf(front, keys, otherwise))
    BY <1>2, <1>7, LastOfTwo
  <2> QED
    BY <2>1, <2>2
<1>9. AllTips(url) = ticked
  <2>1. AllTips(front) = AllTips(head) \cup AllTips(boxes)
    BY <1>2, <1>3, AllTipsOfTwo
  <2> HIDE DEF front
  <2>2. AllTips(url) = AllTips(front) \cup AllTips(last)
    BY <1>2, <1>7, AllTipsOfTwo
  <2>3. AllTips(head) = {} /\ AllTips(last) = {}
    BY AllTipsOfOne DEF head, last
  <2> QED
    BY <1>6, <2>1, <2>2, <2>3
<1> HIDE DEF url
<1>10. ASSUME NEW keys, NEW otherwise
       PROVE  /\ LastOf(head, keys, otherwise) = IF "q" \in keys THEN q ELSE otherwise
              /\ LastOf(last, keys, otherwise) = IF "an" \in keys THEN an ELSE otherwise
  <2>1. LastOf(head, keys, otherwise) = IF "q" \in keys THEN q ELSE otherwise
    BY ONLY LastOfOne DEF head
  <2>2. LastOf(last, keys, otherwise) = IF "an" \in keys THEN an ELSE otherwise
    BY ONLY LastOfOne DEF last
  <2> QED
    BY <2>1, <2>2
<1>11. LastOf(url, {"q"}, {}) = q
  BY <1>5, <1>8, <1>10
<1>12. LastOf(url, {"an"}, None) = an
  BY <1>5, <1>8, <1>10
<1>13. LastOf(url, {"de_la", "offset"}, 0) = 0
  BY <1>5, <1>8, <1>10
<1> QED
  BY <1>4, <1>9, <1>11, <1>12, <1>13 DEF SearchParams

(* A link from elsewhere. *)
LEMMA LinkIsRead ==
  ASSUME NEW q, NEW typed, NEW an
  PROVE  SearchParams(<< <<"q", q>>, <<"tip", typed>>, <<"an", an>> >>)
           = [q |-> q, tip |-> KnownOf(typed), an |-> an, offset |-> 0]
<1> DEFINE a == << <<"q", q>> >>
           b == << <<"tip", typed>> >>
           c == << <<"an", an>> >>
           S == {<<"q", q>>, <<"tip", typed>>, <<"an", an>>}
           ab == a \o b
           url == ab \o c
<1>1. a \in Seq(S) /\ b \in Seq(S) /\ c \in Seq(S)
  OBVIOUS
<1>2. << <<"q", q>>, <<"tip", typed>>, <<"an", an>> >> = url
  OBVIOUS
<1>3. ASSUME NEW keys, NEW otherwise
      PROVE  /\ LastOf(a, keys, otherwise) = IF "q" \in keys THEN q ELSE otherwise
             /\ LastOf(b, keys, otherwise) = IF "tip" \in keys THEN typed ELSE otherwise
             /\ LastOf(c, keys, otherwise) = IF "an" \in keys THEN an ELSE otherwise
  <2>1. LastOf(a, keys, otherwise) = IF "q" \in keys THEN q ELSE otherwise
    BY ONLY LastOfOne
  <2>2. LastOf(b, keys, otherwise) = IF "tip" \in keys THEN typed ELSE otherwise
    BY ONLY LastOfOne
  <2>3. LastOf(c, keys, otherwise) = IF "an" \in keys THEN an ELSE otherwise
    BY ONLY LastOfOne
  <2> QED
    BY <2>1, <2>2, <2>3
<1>4. AllTips(a) = {} /\ AllTips(b) = KnownOf(typed) /\ AllTips(c) = {}
  BY AllTipsOfOne
<1> HIDE DEF a, b, c, S
<1>5. ab \in Seq(S)
  BY <1>1
<1>6. ASSUME NEW keys, NEW otherwise
      PROVE  LastOf(url, keys, otherwise)
               = LastOf(c, keys, LastOf(b, keys, LastOf(a, keys, otherwise)))
  <2>1. LastOf(ab, keys, otherwise) = LastOf(b, keys, LastOf(a, keys, otherwise))
    BY <1>1, LastOfTwo
  <2> HIDE DEF ab
  <2>2. LastOf(url, keys, otherwise) = LastOf(c, keys, LastOf(ab, keys, otherwise))
    BY <1>1, <1>5, LastOfTwo
  <2> QED
    BY <2>1, <2>2
<1>7. AllTips(url) = KnownOf(typed)
  <2>1. AllTips(ab) = AllTips(a) \cup AllTips(b)
    BY <1>1, AllTipsOfTwo
  <2> HIDE DEF ab
  <2>2. AllTips(url) = AllTips(ab) \cup AllTips(c)
    BY <1>1, <1>5, AllTipsOfTwo
  <2> QED
    BY <1>4, <2>1, <2>2
<1> HIDE DEF url
<1>8. LastOf(url, {"q"}, {}) = q
  BY <1>3, <1>6
<1>9. LastOf(url, {"an"}, None) = an
  BY <1>3, <1>6
<1>10. LastOf(url, {"de_la", "offset"}, 0) = 0
  BY <1>3, <1>6
<1> QED
  BY <1>2, <1>7, <1>8, <1>9, <1>10 DEF SearchParams

-----------------------------------------------------------------------------
(* The searches under way: what they hold, whatever is committed meanwhile. *)
(* A multiple of P is followed by the next one P further. *)
LEMMA NextMultiple ==
  ASSUME NEW P \in Nat \ {0}, NEW o \in Nat, o % P = 0
  PROVE  (o + P) % P = 0
<1> DEFINE k == o \div P
           d == (o + P) \div P
           r == (o + P) % P
<1>1. o = P * k /\ k \in Int
  OBVIOUS
<1>2. o + P = P * d + r /\ d \in Int /\ r \in 0..(P - 1)
  OBVIOUS
<1> HIDE DEF k, d, r
<1>3. P * (k + 1 - d) = P * k + P - P * d
  BY <1>1, <1>2
<1>4. P * (k + 1 - d) = r
  BY <1>1, <1>2, <1>3
<1>5. ASSUME NEW j \in Int, P * j = r
      PROVE  r = 0
  BY <1>2, <1>5
<1> QED
  BY <1>1, <1>2, <1>4, <1>5 DEF r

Visits ==
  [pc: {"asked", "counted", "shown"}, query: Queries,
   wanted: [q: SUBSET Words, kinds: SUBSET Kinds, year: Years \cup {None}],
   pager: BOOLEAN, total: Nat, owed: SUBSET (Projects \cup Certificates), torn: BOOLEAN]

(* What is asked is what was meant; the pages of the pager follow each other, and
   who has none is owed nothing. *)
Sound(local) ==
  /\ Wanted(local.query.q, local.query.kinds, local.query.year) = local.wanted
  /\ local.pager => local.query.limit = Page /\ local.query.offset % Page = 0
  /\ ~local.pager => local.owed = {}

VisitsOK ==
  /\ subject \in {"projects", "certificates"}
  /\ visit \in [Visitors -> {Away} \cup Visits]
  /\ \A v \in Visitors : visit[v].pc # "away" => Sound(visit[v])

LEMMA VisitOf ==
  ASSUME VisitsOK, NEW v \in Visitors
  PROVE  /\ visit[v].pc = "away" <=> visit[v] = Away
         /\ visit[v].pc # "away" => visit[v] \in Visits /\ Sound(visit[v])
  BY DEF VisitsOK, Visits, Away

LEMMA HitsType ==
  ASSUME NEW query
  PROVE  /\ Hits(query) \in SUBSET (Projects \cup Certificates)
         /\ IsFiniteSet(Hits(query)) /\ Cardinality(Hits(query)) \in Nat
<1>1. Hits(query) \subseteq Projects \/ Hits(query) \subseteq Certificates
  BY DEF Hits
<1>2. IsFiniteSet(Hits(query))
  BY <1>1, SearchAssumption, FS_Subset
<1> QED
  BY <1>1, <1>2, FS_CardinalityType

(* A step of one visitor that leaves the tables alone. *)
LEMMA OneVisit ==
  ASSUME VisitsOK, subject' = subject, NEW v \in Visitors,
         NEW local \in Visits, Sees(v, local), Sound(local)
  PROVE  VisitsOK'
<1>1. visit' \in [Visitors -> {Away} \cup Visits]
  BY DEF Sees, VisitsOK
<1>2. Visits' = Visits
  BY DEF Visits, Queries, Kinds
<1>3. ASSUME NEW w \in Visitors, visit'[w].pc # "away"
      PROVE  Sound(visit'[w])
  BY <1>3 DEF Sees, VisitsOK
<1> QED
  BY <1>1, <1>2, <1>3 DEF VisitsOK, Sound, Wanted, Away

(* A new search. *)
LEMMA AsksStep ==
  ASSUME VisitsOK, NEW v \in Visitors, NEW query \in Queries, NEW pager \in BOOLEAN,
         NEW wanted, wanted = Wanted(query.q, query.kinds, query.year),
         pager => query.limit = Page /\ query.offset % Page = 0,
         Asks(v, query, wanted, pager)
  PROVE  VisitsOK'
<1> DEFINE local == [pc |-> "asked", query |-> query, wanted |-> wanted, pager |-> pager,
                     total |-> 0, owed |-> {}, torn |-> FALSE]
<1>1. wanted \in [q: SUBSET Words, kinds: SUBSET Kinds, year: Years \cup {None}]
  BY DEF Wanted, Queries
<1>2. local \in Visits
  BY <1>1 DEF Visits
<1>3. Sound(local)
  BY DEF Sound
<1>4. Sees(v, local) /\ subject' = subject
  BY DEF Asks
<1> QED
  BY <1>2, <1>3, <1>4, OneVisit

LEMMA AskStep ==
  ASSUME VisitsOK, NEW v \in Visitors, Ask(v)
  PROVE  VisitsOK'
<1>0. Page \in Nat \ {0} /\ MaxLimit \in Nat /\ 0 % Page = 0
  BY SearchAssumption
<1>1. PICK q \in SUBSET Words, an \in Years \cup {None} :
        \/ \E ticked \in SUBSET KnownOf(Typed) : SubmitForm(v, q, ticked, an)
        \/ \E typed \in SUBSET Typed :
             \/ OpenLink(v, q, typed, an)
             \/ \E limit \in {0, MaxLimit + 1} : CallApi(v, q, typed, an, limit, Page)
  BY DEF Ask
<1>2. ASSUME NEW ticked \in SUBSET KnownOf(Typed), SubmitForm(v, q, ticked, an)
      PROVE  VisitsOK'
  <2> DEFINE query == [q |-> q, kinds |-> ticked, year |-> an, limit |-> Page, offset |-> 0]
  <2>1. ticked \in SUBSET Kinds
    BY KindsAreKnown
  <2>2. ToQuery(SearchParams(FormUrl(q, ticked, an))) = query
    BY <2>1, FormIsRead DEF ToQuery
  <2>3. query \in Queries
    BY <1>0, <2>1 DEF Queries
  <2>4. Asks(v, query, Wanted(q, ticked, an), TRUE)
    BY <1>2, <2>2 DEF SubmitForm
  <2> QED
    BY <1>0, <2>3, <2>4, AsksStep
<1>3. ASSUME NEW typed \in SUBSET Typed, OpenLink(v, q, typed, an)
      PROVE  VisitsOK'
  <2> DEFINE query == [q |-> q, kinds |-> KnownOf(typed), year |-> an, limit |-> Page,
                       offset |-> 0]
  <2>1. KnownOf(typed) \in SUBSET Kinds
    BY KindsAreKnown
  <2>2. ToQuery(SearchParams(<< <<"q", q>>, <<"tip", typed>>, <<"an", an>> >>)) = query
    <3> DEFINE p == [q |-> q, tip |-> KnownOf(typed), an |-> an, offset |-> 0]
    <3>1. SearchParams(<< <<"q", q>>, <<"tip", typed>>, <<"an", an>> >>) = p
      BY LinkIsRead
    <3>2. ToQuery(p) = query
      BY DEF ToQuery
    <3> QED
      BY <3>1, <3>2
  <2>3. query \in Queries
    BY <1>0, <2>1 DEF Queries
  <2>4. Asks(v, query, Wanted(q, KnownOf(typed), an), TRUE)
    BY <1>3, <2>2 DEF OpenLink
  <2> QED
    BY <1>0, <2>3, <2>4, AsksStep
<1>4. ASSUME NEW typed \in SUBSET Typed, NEW limit \in {0, MaxLimit + 1},
             CallApi(v, q, typed, an, limit, Page)
      PROVE  VisitsOK'
  <2> DEFINE query == [q |-> q, kinds |-> KnownOf(typed), year |-> an, limit |-> limit,
                       offset |-> Page]
  <2>1. KnownOf(typed) \in SUBSET Kinds
    BY KindsAreKnown
  <2>2. query \in Queries
    BY <1>0, <2>1 DEF Queries
  <2>3. Asks(v, query, Wanted(q, KnownOf(typed), an), FALSE)
    BY <1>4 DEF CallApi
  <2> QED
    BY <2>2, <2>3, AsksStep
<1> QED
  BY <1>1, <1>2, <1>3, <1>4

(* The link to the next page asks the same, one page further. *)
NextOf(query) ==
  [q |-> query.q, kinds |-> query.kinds, year |-> query.year, limit |-> Page,
   offset |-> query.offset + Page]

LEMMA NextQuery ==
  ASSUME NEW query \in Queries
  PROVE  /\ ToQuery(SearchParams(Show([ParamsOf(query) EXCEPT !.offset = @ + Page])))
              = NextOf(query)
         /\ NextOf(query) \in Queries
<1> DEFINE p == [q |-> query.q, tip |-> query.kinds, an |-> query.year,
                 offset |-> query.offset + Page]
           link == [ParamsOf(query) EXCEPT !.offset = @ + Page]
<1>1. link = p
  BY DEF ParamsOf
<1>2. query.kinds \in SUBSET Kinds
  BY DEF Queries
<1>3. SearchParams(Show(p)) = p
  BY <1>2, ShownIsRead
<1>4. ToQuery(p) = NextOf(query)
  BY DEF ToQuery, NextOf
<1>5. NextOf(query) \in Queries
  BY SearchAssumption DEF NextOf, Queries
<1> HIDE DEF link, p
<1> QED
  BY <1>1, <1>3, <1>4, <1>5 DEF link

(* Steps of a search. *)
LEMMA SearchStep ==
  ASSUME VisitsOK, NEW v \in Visitors,
         Count(v) \/ Select(v) \/ FollowNext(v) \/ Leave(v)
  PROVE  VisitsOK'
<1> DEFINE local == visit[v]
<1>1. CASE Count(v)
  <2> DEFINE hits == Hits(local.query)
             new  == [local EXCEPT !.pc = "counted", !.total = Cardinality(hits),
                                   !.torn = FALSE,
                                   !.owed = IF FirstOf(local) THEN hits ELSE @]
  <2>1. local \in Visits /\ Sound(local)
    BY <1>1, VisitOf DEF Count
  <2>2. hits \in SUBSET (Projects \cup Certificates) /\ Cardinality(hits) \in Nat
    BY HitsType
  <2>3. Sees(v, new) /\ subject' = subject
    BY <1>1 DEF Count, Counted
  <2> HIDE DEF hits
  <2>4. new \in Visits
    BY <2>1, <2>2 DEF Visits
  <2>5. Sound(new)
    BY <2>1 DEF Sound, Visits, FirstOf
  <2> QED
    BY <2>3, <2>4, <2>5, OneVisit
<1>2. CASE Select(v)
  <2> DEFINE new == [local EXCEPT !.pc = "shown", !.owed = @ \ PageOf(local.query)]
  <2>1. local \in Visits /\ Sound(local)
    BY <1>2, VisitOf DEF Select
  <2>2. Sees(v, new) /\ subject' = subject
    BY <1>2 DEF Select
  <2>3. new \in Visits
    BY <2>1 DEF Visits
  <2>4. Sound(new)
    BY <2>1 DEF Sound, Visits
  <2> QED
    BY <2>2, <2>3, <2>4, OneVisit
<1>3. CASE FollowNext(v)
  <2> DEFINE query == NextOf(local.query)
             new == [local EXCEPT !.pc = "asked", !.query = query]
  <2>1. local \in Visits /\ Sound(local) /\ local.pager
    BY <1>3, VisitOf DEF FollowNext
  <2>2. local.query \in Queries
    BY <2>1 DEF Visits
  <2>3. Sees(v, new) /\ subject' = subject
    BY <1>3, <2>2, NextQuery DEF FollowNext
  <2>4. Page \in Nat \ {0}
    BY SearchAssumption
  <2>5. query \in Queries
    BY <2>2, NextQuery
  <2>6. new \in Visits
    BY <2>1, <2>5 DEF Visits
  <2>7. (local.query.offset + Page) % Page = 0
    BY <2>1, <2>2, <2>4, NextMultiple DEF Sound, Queries
  <2>8. Sound(new)
    BY <2>1, <2>2, <2>7 DEF Sound, Visits, NextOf, Wanted
  <2> QED
    BY <2>3, <2>6, <2>8, OneVisit
<1>4. CASE Leave(v)
  <2>1. visit' = [visit EXCEPT ![v] = Away] /\ subject' = subject
    BY <1>4 DEF Leave, Sees
  <2>2. Visits' = Visits
    BY <2>1 DEF Visits, Queries, Kinds
  <2> QED
    BY <2>1, <2>2 DEF VisitsOK, Sound, Wanted, Away
<1> QED
  BY <1>1, <1>2, <1>3, <1>4

(* What a commit leaves of a search under way. *)
LEMMA NoticeKeeps ==
  ASSUME VisitsOK, Notice, NEW v \in Visitors
  PROVE  /\ visit \in [Visitors -> {Away} \cup Visits] /\ DOMAIN visit' = Visitors
         /\ visit[v].pc = "away" => visit'[v] = visit[v]
         /\ visit[v].pc # "away" =>
              \E owed \in {{}, visit[v].owed} :
                /\ visit'[v] = [visit[v] EXCEPT !.owed = owed,
                                               !.torn = @ \/ visit[v].pc = "counted"]
                /\ owed # {} => \E q \in {visit[v].query} :
                     /\ Hits(q) \subseteq Hits(q)'
                     /\ \A e, o \in Hits(q) : Precedes(e, o) => Precedes(e, o)'
<1>1. visit \in [Visitors -> {Away} \cup Visits]
  BY DEF VisitsOK
<1>2. DOMAIN visit' = Visitors /\ (visit[v].pc = "away" => visit'[v] = visit[v])
  BY DEF Notice
<1>3. CASE visit[v].pc # "away"
  <2> DEFINE q == visit[v].query
             busy == {w \in Visitors : visit[w].pc # "away"}
             calm == {c \in {visit[w].query : w \in busy} :
                        /\ Hits(c) \subseteq Hits(c)'
                        /\ \A e, o \in Hits(c) : Precedes(e, o) => Precedes(e, o)'}
             owed == IF visit[v].query \in calm THEN visit[v].owed ELSE {}
  <2>1. v \in busy
    BY <1>3
  <2>2. visit' = [w \in Visitors |->
                   IF w \notin busy THEN visit[w]
                   ELSE [visit[w] EXCEPT !.owed = IF visit[w].query \in calm THEN @ ELSE {},
                                         !.torn = @ \/ visit[w].pc = "counted"]]
    BY DEF Notice
  <2>3. owed # {} => \E c \in {visit[v].query} :
                     /\ Hits(c) \subseteq Hits(c)'
                     /\ \A e, o \in Hits(c) : Precedes(e, o) => Precedes(e, o)'
    BY Zenon
  <2> HIDE DEF calm, busy
  <2>4. visit'[v] = [visit[v] EXCEPT !.owed = owed, !.torn = @ \/ visit[v].pc = "counted"]
    BY <2>1, <2>2
  <2> QED
    BY <1>1, <1>2, <1>3, <2>3, <2>4
<1> QED
  BY <1>1, <1>2, <1>3

LEMMA NoticeStep ==
  ASSUME VisitsOK, Notice, subject' = subject
  PROVE  VisitsOK'
<1>1. Visits' = Visits
  BY DEF Visits, Queries, Kinds
<1>2. ASSUME NEW v \in Visitors, visit[v].pc # "away"
      PROVE  visit'[v] \in Visits /\ Sound(visit'[v])
  <2>1. visit[v] \in Visits /\ Sound(visit[v])
    BY <1>2, VisitOf
  <2>2. PICK owed \in {{}, visit[v].owed} :
          visit'[v] = [visit[v] EXCEPT !.owed = owed, !.torn = @ \/ visit[v].pc = "counted"]
    BY <1>2, NoticeKeeps
  <2>3. owed \in SUBSET (Projects \cup Certificates)
    BY <2>1 DEF Visits
  <2>4. (visit[v].torn \/ visit[v].pc = "counted") \in BOOLEAN
    OBVIOUS
  <2> DEFINE torn == visit[v].torn \/ visit[v].pc = "counted"
  <2>5. visit'[v] = [visit[v] EXCEPT !.owed = owed, !.torn = torn]
    BY <2>2
  <2> HIDE DEF torn
  <2>6. visit'[v] \in Visits
    BY <2>1, <2>3, <2>4, <2>5 DEF Visits, torn
  <2>7. Sound(visit'[v])
    BY <2>1, <2>5 DEF Visits, Sound
  <2> QED
    BY <2>6, <2>7
<1>3. ASSUME NEW v \in Visitors, visit[v].pc = "away"
      PROVE  visit'[v] = Away
  BY <1>3, NoticeKeeps, VisitOf
<1>4. visit' \in [Visitors -> {Away} \cup Visits]
  <2>1. \A v \in Visitors : visit'[v] \in {Away} \cup Visits
    BY <1>2, <1>3
  <2>2. visit' = [v \in Visitors |-> visit'[v]]
    BY DEF Notice
  <2> QED
    BY <2>1, <2>2
<1>5. \A v \in Visitors : visit'[v].pc # "away" => Sound(visit'[v])
  BY <1>2, <1>3 DEF Away
<1> QED
  BY <1>1, <1>4, <1>5 DEF VisitsOK, Sound, Wanted, Away

LEMMA VisitsInit ==
  ASSUME Init
  PROVE  VisitsOK
  BY DEF Init, VisitsOK, Away

LEMMA VisitsStep ==
  ASSUME VisitsOK, [Next]_vars
  PROVE  VisitsOK'
<1>1. CASE Write
  <2>1. Notice /\ subject' = subject
    BY <1>1 DEF Write, WriteMeeting, ListCertificate, ReadCertificatePage
  <2> QED
    BY <2>1, NoticeStep
<1>2. ASSUME NEW v \in Visitors,
             Ask(v) \/ Count(v) \/ Select(v) \/ FollowNext(v) \/ Leave(v)
      PROVE  VisitsOK'
  BY <1>2, AskStep, SearchStep
<1>3. CASE UNCHANGED vars
  <2>1. Visits' = Visits
    BY <1>3 DEF vars, Visits, Queries, Kinds
  <2> QED
    BY <1>3, <2>1 DEF vars, VisitsOK, Sound, Wanted, Away
<1> QED
  BY <1>1, <1>2, <1>3 DEF Next

(* AnswersWhatWasAsked: whatever the visitors type, tick or follow, and whatever the
   sync commits meanwhile, the query the database is asked is the one that was meant,
   on the first page and on each page the pager leads to. *)
THEOREM AsksWhatWasMeant == Spec => []AnswersWhatWasAsked
<1>1. Init => VisitsOK
  BY VisitsInit
<1>2. VisitsOK /\ [Next]_vars => VisitsOK'
  BY VisitsStep
<1>3. VisitsOK => AnswersWhatWasAsked
  BY DEF VisitsOK, AnswersWhatWasAsked, Sound
<1> QED
  BY <1>1, <1>2, <1>3, PTL DEF Spec

-----------------------------------------------------------------------------
(* The tables. *)
Rows == [words: (SUBSET Words) \ {{}}, item: Projects \cup {None}]

ItemsOK ==
  /\ items \in [Projects -> {None} \cup Item]
  /\ \A p \in Known : items[p].id <= Cardinality(Known)
  /\ \A p, o \in Known : p # o => items[p].id # items[o].id

(* A row is shown by the project it is linked to, unless another meeting has listed
   that project since. *)
RowsOK ==
  /\ rows \in [Meetings -> SUBSET Rows]
  /\ \A m \in Meetings : \A r \in rows[m] : r.item # None =>
       /\ items[r.item] # None
       /\ items[r.item].shared \/ (items[r.item].meeting = m /\ items[r.item].row = r.words)

TablesOK ==
  /\ subject \in {"projects", "certificates"}
  /\ subject = "certificates" => \A m \in Meetings : rows[m] = {}
  /\ ItemsOK /\ RowsOK
  /\ certs \in [Certificates -> {None} \cup SUBSET Words]

LEMMA KnownFinite ==
  /\ IsFiniteSet(Projects) /\ Cardinality(Projects) \in Nat
  /\ Known \subseteq Projects /\ IsFiniteSet(Known) /\ Cardinality(Known) \in Nat
<1>1. IsFiniteSet(Projects) /\ Known \subseteq Projects
  BY SearchAssumption DEF Known
<1> QED
  BY <1>1, FS_Subset, FS_CardinalityType

(* The new projects of a page are numbered in its order, behind all others. *)
LEMMA NewNumbers ==
  ASSUME NEW cards \in Pages
  PROVE  /\ ToSet(cards) \subseteq Projects
         /\ \A p \in ToSet(cards) \ Known :
              /\ NewUpTo(p, cards) \subseteq ToSet(cards) \ Known
              /\ IsFiniteSet(NewUpTo(p, cards)) /\ p \in NewUpTo(p, cards)
              /\ Cardinality(NewUpTo(p, cards)) \in Nat \ {0}
         /\ \A p, o \in ToSet(cards) \ Known :
              p # o => Cardinality(NewUpTo(p, cards)) # Cardinality(NewUpTo(o, cards))
<1>1. PICK S \in SUBSET Projects : cards \in SetToSeqs(S)
  BY DEF Pages
<1> DEFINE n == Cardinality(S)
<1>2. n \in Nat /\ IsFiniteSet(S)
  BY KnownFinite, FS_Subset, FS_CardinalityType
<1>3. cards \in [1..n -> S] /\ IsInjective(cards)
  BY <1>1 DEF SetToSeqs, IsInjective
<1> HIDE DEF n
<1>4. /\ DOMAIN cards = 1..n
      /\ \A i, j \in 1..n : cards[i] = cards[j] => i = j
  BY <1>3 DEF IsInjective
<1>5. ToSet(cards) = {cards[i] : i \in 1..n} /\ ToSet(cards) \subseteq S
  BY <1>3, <1>4 DEF ToSet
<1>6. ASSUME NEW p \in ToSet(cards) \ Known
      PROVE  /\ NewUpTo(p, cards) \subseteq ToSet(cards) \ Known
             /\ IsFiniteSet(NewUpTo(p, cards)) /\ p \in NewUpTo(p, cards)
             /\ Cardinality(NewUpTo(p, cards)) \in Nat \ {0}
  <2>1. NewUpTo(p, cards) \subseteq ToSet(cards) \ Known
    BY <1>4, <1>5 DEF NewUpTo
  <2>2. PICK i \in 1..n : cards[i] = p
    BY <1>5
  <2>3. p \in NewUpTo(p, cards)
    BY <1>2, <1>4, <1>5, <2>2 DEF NewUpTo
  <2>4. IsFiniteSet(NewUpTo(p, cards))
    BY <1>2, <1>5, <2>1, FS_Subset
  <2> QED
    BY <2>1, <2>3, <2>4, FS_CardinalityType, FS_EmptySet
<1>7. ASSUME NEW i \in 1..n, NEW j \in 1..n, i < j,
             cards[i] \notin Known, cards[j] \notin Known
      PROVE  Cardinality(NewUpTo(cards[i], cards)) # Cardinality(NewUpTo(cards[j], cards))
  <2> DEFINE p == cards[i]  o == cards[j]
  <2>1. p \in ToSet(cards) \ Known /\ o \in ToSet(cards) \ Known
    BY <1>5, <1>7
  <2>2. o \in NewUpTo(o, cards) /\ IsFiniteSet(NewUpTo(o, cards))
    BY <1>6, <2>1
  <2>3. o \notin NewUpTo(p, cards)
    <3> SUFFICES ASSUME o \in NewUpTo(p, cards) PROVE FALSE
      OBVIOUS
    <3>1. PICK k \in 1..n, l \in 1..n : k <= l /\ cards[k] = o /\ cards[l] = p
      BY <1>4 DEF NewUpTo
    <3>2. k = j /\ l = i
      BY <1>4, <3>1
    <3> QED
      BY <1>2, <1>7, <3>1, <3>2
  <2>4. NewUpTo(p, cards) \subseteq NewUpTo(o, cards)
    <3> SUFFICES ASSUME NEW x \in NewUpTo(p, cards) PROVE x \in NewUpTo(o, cards)
      OBVIOUS
    <3>1. PICK k \in 1..n, l \in 1..n : k <= l /\ cards[k] = x /\ cards[l] = p
      BY <1>4 DEF NewUpTo
    <3>2. l = i
      BY <1>4, <3>1
    <3>3. k <= j
      BY <1>2, <1>7, <3>1, <3>2
    <3> QED
      BY <1>4, <3>1, <3>3 DEF NewUpTo
  <2> QED
    BY <2>2, <2>3, <2>4, FS_Subset
<1>8. ASSUME NEW p \in ToSet(cards) \ Known, NEW o \in ToSet(cards) \ Known, p # o
      PROVE  Cardinality(NewUpTo(p, cards)) # Cardinality(NewUpTo(o, cards))
  <2>1. PICK i \in 1..n, j \in 1..n : cards[i] = p /\ cards[j] = o
    BY <1>5
  <2>2. CASE i < j
    BY <1>7, <2>1, <2>2
  <2>3. CASE j < i
    BY <1>7, <2>1, <2>3
  <2>4. i # j
    BY <1>8, <2>1
  <2> QED
    BY <1>2, <2>2, <2>3, <2>4
<1> QED
  BY <1>5, <1>6, <1>8

(* The projects of a page, numbered behind the others or as they were. *)
NumberOf(p, cards) ==
  IF p \in Known THEN items[p].id
  ELSE Cardinality(Known) + Cardinality(NewUpTo(p, cards))

RowFor(p, agenda) ==
  IF agenda = None \/ \A r \in agenda : r.item # p THEN None
  ELSE (CHOOSE r \in agenda : r.item = p).words

Listed(p, m, cards, agenda) ==
  [id |-> NumberOf(p, cards), meeting |-> m, row |-> Coalesce(p, RowFor(p, agenda)),
   shared |-> items[p] # None /\ (items[p].shared \/ items[p].meeting # m)]

LEMMA WriteMeetingIs ==
  ASSUME NEW m, NEW cards, NEW agenda, WriteMeeting(m, cards, agenda)
  PROVE  /\ items' = [p \in Projects |-> IF p \in ToSet(cards) THEN Listed(p, m, cards, agenda)
                                         ELSE items[p]]
         /\ rows' = IF agenda = None THEN rows ELSE [rows EXCEPT ![m] = agenda]
         /\ subject = "projects" /\ UNCHANGED <<subject, certs>> /\ Notice
  BY DEF WriteMeeting, Listed, NumberOf, RowFor

LEMMA AgendaRows ==
  ASSUME NEW cards \in Pages, NEW agenda \in AgendasFor(cards)
  PROVE  \/ agenda = None
         \/ /\ agenda # None /\ agenda \subseteq Rows
            /\ \A r \in agenda : r.item \in ToSet(cards) \cup {None}
            /\ \A r \in agenda : r.item # None => RowFor(r.item, agenda) = r.words
<1>1. ToSet(cards) \subseteq Projects
  BY NewNumbers
<1>2. CASE agenda # None
  <2>1. /\ agenda \in SUBSET [words: (SUBSET Words) \ {{}}, item: ToSet(cards) \cup {None}]
        /\ \A r, s \in agenda : r # s /\ r.item # None => r.item # s.item
    BY <1>2 DEF AgendasFor
  <2>2. agenda \subseteq Rows /\ \A r \in agenda : r.item \in ToSet(cards) \cup {None}
    BY <1>1, <2>1 DEF Rows
  <2>3. ASSUME NEW r \in agenda, r.item # None
        PROVE  RowFor(r.item, agenda) = r.words
    <3>1. (CHOOSE s \in agenda : s.item = r.item) = r
      BY <2>1, <2>3
    <3> QED
      BY <1>2, <2>3, <3>1 DEF RowFor
  <2> QED
    BY <1>2, <2>2, <2>3
<1> QED
  BY <1>2

LEMMA RowForType ==
  ASSUME NEW cards \in Pages, NEW agenda \in AgendasFor(cards), NEW p
  PROVE  RowFor(p, agenda) \in {None} \cup SUBSET Words
<1>1. CASE agenda = None \/ \A r \in agenda : r.item # p
  BY <1>1 DEF RowFor
<1>2. ASSUME agenda # None, NEW r \in agenda, r.item = p
      PROVE  RowFor(p, agenda) \in {None} \cup SUBSET Words
  <2>1. (CHOOSE s \in agenda : s.item = p) \in agenda
    BY <1>2
  <2>2. agenda \subseteq Rows
    BY <1>2, AgendaRows
  <2> QED
    BY <1>2, <2>1, <2>2 DEF RowFor, Rows
<1> QED
  BY <1>1, <1>2

LEMMA WriteItems ==
  ASSUME ItemsOK, NEW m \in Meetings, NEW cards \in Pages, NEW agenda \in AgendasFor(cards),
         WriteMeeting(m, cards, agenda)
  PROVE  /\ ItemsOK' /\ Known' = Known \cup ToSet(cards)
         /\ \A p \in ToSet(cards) : items'[p] = Listed(p, m, cards, agenda)
         /\ \A p \in Projects \ ToSet(cards) : items'[p] = items[p]
<1> DEFINE n == Cardinality(Known)
           N == Cardinality(Known \cup ToSet(cards))
<1>1. /\ IsFiniteSet(Projects) /\ Cardinality(Projects) \in Nat
      /\ Known \subseteq Projects /\ IsFiniteSet(Known) /\ n \in Nat
  BY KnownFinite
<1>2. ToSet(cards) \subseteq Projects
  BY NewNumbers
<1>3. /\ \A p \in ToSet(cards) : items'[p] = Listed(p, m, cards, agenda)
      /\ \A p \in Projects \ ToSet(cards) : items'[p] = items[p]
      /\ DOMAIN items' = Projects
      /\ items' = [p \in Projects |-> items'[p]]
  BY <1>2, WriteMeetingIs
<1>4. N \in Nat /\ n <= N /\ N <= Cardinality(Projects)
  <2>1. Known \cup ToSet(cards) \subseteq Projects /\ IsFiniteSet(Known \cup ToSet(cards))
    BY <1>1, <1>2, FS_Subset
  <2> QED
    BY <1>1, <2>1, FS_Subset, FS_CardinalityType
<1>5. ASSUME NEW p \in Known
      PROVE  items[p].id \in 1..n
  BY <1>1, <1>5 DEF ItemsOK, Item, Known
<1>6. ASSUME NEW p \in ToSet(cards) \ Known
      PROVE  n + Cardinality(NewUpTo(p, cards)) \in (n + 1)..N
  <2> DEFINE new == NewUpTo(p, cards)
  <2>1. /\ new \subseteq ToSet(cards) \ Known
        /\ IsFiniteSet(new) /\ Cardinality(new) \in Nat \ {0}
    BY NewNumbers
  <2>2. new \cap Known = {}
    BY <2>1
  <2> HIDE DEF new
  <2>3. Cardinality(Known \cup new) = n + Cardinality(new)
    <3>1. Cardinality(Known \cap new) = 0
      <4>1. Known \cap new = {}
        BY <2>2
      <4> QED
        BY <4>1, FS_EmptySet
    <3>2. Cardinality(Known \cup new) = n + Cardinality(new) - Cardinality(Known \cap new)
      BY <1>1, <2>1, FS_Union
    <3> QED
      BY <1>1, <2>1, <3>1, <3>2
  <2>4. Cardinality(Known \cup new) <= N
    <3>1. Known \cup new \subseteq Known \cup ToSet(cards)
      BY <2>1
    <3>2. IsFiniteSet(Known \cup ToSet(cards))
      BY <1>1, <1>2, FS_Subset
    <3> QED
      BY <3>1, <3>2, FS_Subset
  <2> QED
    BY <1>1, <1>4, <2>1, <2>3, <2>4 DEF new
<1>7. ASSUME NEW p \in Known \cup ToSet(cards)
      PROVE  /\ NumberOf(p, cards) \in 1..N
             /\ p \notin Known => NumberOf(p, cards) > n
             /\ p \in Known => NumberOf(p, cards) = items[p].id /\ items[p].id <= n
  <2>1. CASE p \in Known
    BY <1>1, <1>4, <1>5, <2>1 DEF NumberOf
  <2>2. CASE p \notin Known
    <3>1. NumberOf(p, cards) = n + Cardinality(NewUpTo(p, cards))
      BY <2>2 DEF NumberOf
    <3>2. NumberOf(p, cards) \in (n + 1)..N
      BY <1>6, <2>2, <3>1
    <3> HIDE DEF n, N
    <3> QED
      BY <1>1, <1>4, <2>2, <3>2
  <2> QED
    BY <2>1, <2>2
<1>8. ASSUME NEW p \in ToSet(cards)
      PROVE  items'[p] \in Item
  <2>1. RowFor(p, agenda) \in {None} \cup SUBSET Words
    BY RowForType
  <2>2. Coalesce(p, RowFor(p, agenda)) \in {None} \cup SUBSET Words
    BY <1>2, <2>1 DEF Coalesce, ItemsOK, Item
  <2>3. NumberOf(p, cards) \in 1..Cardinality(Projects)
    BY <1>1, <1>4, <1>7
  <2>4. (items[p] # None /\ (items[p].shared \/ items[p].meeting # m)) \in BOOLEAN
    OBVIOUS
  <2>5. Listed(p, m, cards, agenda) \in Item
    BY <2>2, <2>3, <2>4 DEF Listed, Item
  <2> QED
    BY <1>3, <2>5
<1>9. items' \in [Projects -> {None} \cup Item]
  <2>1. \A p \in Projects : items'[p] \in {None} \cup Item
    BY <1>3, <1>8 DEF ItemsOK
  <2> QED
    BY <1>3, <2>1
<1>10. Known' = Known \cup ToSet(cards)
  <2>1. \A p \in ToSet(cards) : items'[p] # None
    BY <1>8, SearchAssumption
  <2> QED
    BY <1>2, <1>3, <2>1 DEF Known
<1>11. \A p \in Known' : items'[p].id = NumberOf(p, cards)
  <2>1. \A p \in ToSet(cards) : items'[p].id = NumberOf(p, cards)
    <3>1. \A p : Listed(p, m, cards, agenda).id = NumberOf(p, cards)
      BY DEF Listed
    <3> QED
      BY <1>3, <3>1
  <2>2. \A p \in Known \ ToSet(cards) : items'[p].id = NumberOf(p, cards)
    BY <1>1, <1>3 DEF NumberOf
  <2> QED
    BY <1>10, <2>1, <2>2
<1>12. \A p \in Known' : items'[p].id <= Cardinality(Known')
  <2>1. Cardinality(Known') = N
    BY <1>10
  <2>2. \A p \in Known' : NumberOf(p, cards) \in 1..N
    BY <1>7, <1>10
  <2> HIDE DEF N
  <2> QED
    BY <1>4, <1>11, <2>1, <2>2
<1>13. ASSUME NEW p \in Known', NEW o \in Known', p # o
       PROVE  NumberOf(p, cards) # NumberOf(o, cards)
  <2>1. CASE p \in Known /\ o \in Known
    BY <1>7, <1>10, <1>13, <2>1 DEF ItemsOK
  <2>2. CASE p \notin Known /\ o \notin Known
    <3>1. Cardinality(NewUpTo(p, cards)) # Cardinality(NewUpTo(o, cards))
      BY <1>10, <1>13, <2>2, NewNumbers
    <3>2. Cardinality(NewUpTo(p, cards)) \in Nat /\ Cardinality(NewUpTo(o, cards)) \in Nat
      BY <1>10, <2>2, NewNumbers
    <3> QED
      BY <1>1, <2>2, <3>1, <3>2 DEF NumberOf
  <2>3. CASE p \in Known /\ o \notin Known
    BY <1>1, <1>4, <1>7, <1>10, <2>3
  <2>4. CASE p \notin Known /\ o \in Known
    BY <1>1, <1>4, <1>7, <1>10, <2>4
  <2> QED
    BY <2>1, <2>2, <2>3, <2>4
<1>14. \A p, o \in Known' : p # o => items'[p].id # items'[o].id
  BY <1>11, <1>13
<1>15. ItemsOK'
  BY <1>9, <1>12, <1>14 DEF ItemsOK, Item
<1> QED
  BY <1>3, <1>10, <1>15

(* A page and its agenda: its rows are shown by the projects they are linked to; a
   project listed by another meeting is shared from now on. *)
LEMMA WriteRows ==
  ASSUME ItemsOK, RowsOK, NEW m \in Meetings, NEW cards \in Pages,
         NEW agenda \in AgendasFor(cards), WriteMeeting(m, cards, agenda)
  PROVE  RowsOK'
<1>1. /\ Known' = Known \cup ToSet(cards) /\ ToSet(cards) \subseteq Projects
      /\ \A p \in ToSet(cards) : items'[p] = Listed(p, m, cards, agenda) /\ items'[p] # None
      /\ \A p \in Projects \ ToSet(cards) : items'[p] = items[p]
  <2>1. ToSet(cards) \subseteq Projects
    BY NewNumbers
  <2>2. Known' = Known \cup ToSet(cards)
    BY WriteItems
  <2>3. \A p \in ToSet(cards) : items'[p] # None
    BY <2>1, <2>2 DEF Known
  <2> QED
    BY <2>1, <2>2, <2>3, WriteItems
<1>2. rows' = IF agenda = None THEN rows ELSE [rows EXCEPT ![m] = agenda]
  BY WriteMeetingIs
<1>3. rows' \in [Meetings -> SUBSET Rows]
  BY <1>2, AgendaRows DEF RowsOK
<1>4. ASSUME NEW p \in ToSet(cards)
      PROVE  /\ items'[p].meeting = m /\ items'[p].row = Coalesce(p, RowFor(p, agenda))
             /\ items'[p].shared <=> (items[p] # None
                                      /\ (items[p].shared \/ items[p].meeting # m))
  <2>1. items'[p] = Listed(p, m, cards, agenda)
    BY <1>1
  <2>2. /\ Listed(p, m, cards, agenda).meeting = m
        /\ Listed(p, m, cards, agenda).row = Coalesce(p, RowFor(p, agenda))
        /\ Listed(p, m, cards, agenda).shared
             = (items[p] # None /\ (items[p].shared \/ items[p].meeting # m))
    BY DEF Listed
  <2> QED
    BY <2>1, <2>2
<1>5. ASSUME NEW k \in Meetings, NEW r \in rows[k], r.item # None, r.item \in Projects,
             k # m \/ agenda = None
      PROVE  /\ items'[r.item] # None
             /\ items'[r.item].shared
                  \/ (items'[r.item].meeting = k /\ items'[r.item].row = r.words)
  <2> DEFINE p == r.item
  <2>1. /\ items[p] # None
        /\ items[p].shared \/ (items[p].meeting = k /\ items[p].row = r.words)
    BY <1>5 DEF RowsOK
  <2>2. CASE p \notin ToSet(cards)
    BY <1>1, <1>5, <2>1, <2>2
  <2>3. CASE p \in ToSet(cards) /\ k # m
    BY <1>1, <1>4, <2>1, <2>3
  <2>4. CASE p \in ToSet(cards) /\ k = m /\ agenda = None
    <3>1. RowFor(p, agenda) = None
      BY <2>4 DEF RowFor
    <3>2. items'[p].row = items[p].row
      BY <1>4, <2>1, <2>4, <3>1 DEF Coalesce
    <3> QED
      BY <1>1, <1>4, <2>1, <2>4, <3>2
  <2> QED
    BY <1>5, <2>2, <2>3, <2>4
<1>6. ASSUME NEW r \in agenda, agenda # None, r.item # None
      PROVE  items'[r.item] # None /\ items'[r.item].meeting = m
             /\ items'[r.item].row = r.words
  <2>1. agenda \subseteq Rows /\ r.item \in ToSet(cards) /\ RowFor(r.item, agenda) = r.words
    BY <1>6, AgendaRows
  <2>2. r.words # None
    BY <2>1, SearchAssumption DEF Rows
  <2> QED
    BY <1>1, <1>4, <2>1, <2>2 DEF Coalesce
<1>7. ASSUME NEW k \in Meetings, NEW r \in rows'[k], r.item # None
      PROVE  /\ items'[r.item] # None
             /\ items'[r.item].shared
                  \/ (items'[r.item].meeting = k /\ items'[r.item].row = r.words)
  <2>1. CASE agenda # None /\ k = m
    <3>1. r \in agenda
      BY <1>2, <2>1 DEF RowsOK
    <3> QED
      BY <1>6, <1>7, <2>1, <3>1
  <2>2. CASE agenda = None \/ k # m
    <3>1. r \in rows[k] /\ rows[k] \subseteq Rows
      BY <1>2, <2>2 DEF RowsOK
    <3>2. r.item \in Projects
      BY <1>7, <3>1 DEF Rows
    <3> QED
      BY <1>5, <1>7, <2>2, <3>1, <3>2
  <2> QED
    BY <2>1, <2>2
<1>8. Rows' = Rows
  BY DEF Rows
<1> QED
  BY <1>3, <1>7, <1>8 DEF RowsOK

LEMMA TablesInit ==
  ASSUME Init
  PROVE  TablesOK
<1>1. items \in [Projects -> {None} \cup Item] /\ Known = {}
  BY DEF Init, Known
<1>2. rows \in [Meetings -> SUBSET Rows] /\ \A m \in Meetings : rows[m] = {}
  BY DEF Init
<1>3. certs \in [Certificates -> {None} \cup SUBSET Words]
  BY DEF Init
<1> QED
  BY <1>1, <1>2, <1>3 DEF Init, TablesOK, ItemsOK, RowsOK

LEMMA TablesStep ==
  ASSUME TablesOK, [Next]_vars
  PROVE  TablesOK'
<1>1. ASSUME NEW m \in Meetings, NEW cards \in Pages, NEW agenda \in AgendasFor(cards),
             WriteMeeting(m, cards, agenda)
      PROVE  TablesOK'
  <2>1. subject = "projects" /\ subject' = subject /\ certs' = certs
    BY <1>1, WriteMeetingIs
  <2>2. ItemsOK' /\ RowsOK'
    BY <1>1, WriteItems, WriteRows DEF TablesOK
  <2> QED
    BY <2>1, <2>2 DEF TablesOK
<1>2. ASSUME NEW c \in Certificates, ListCertificate(c) \/ ReadCertificatePage(c)
      PROVE  TablesOK'
  <2>1. CertificateOf[c].list \in SUBSET Words /\ CertificateOf[c].page \in SUBSET Words
    BY SearchAssumption
  <2>2. \E words \in SUBSET Words : certs' = [certs EXCEPT ![c] = words]
    <3>1. CASE ListCertificate(c)
      BY <2>1, <3>1 DEF ListCertificate
    <3>2. CASE ReadCertificatePage(c)
      <4>1. certs[c] \in SUBSET Words
        BY <3>2 DEF TablesOK, ReadCertificatePage
      <4> QED
        BY <2>1, <3>2, <4>1 DEF ReadCertificatePage
    <3> QED
      BY <1>2, <3>1, <3>2
  <2>3. UNCHANGED <<subject, items, rows>>
    BY <1>2 DEF ListCertificate, ReadCertificatePage
  <2> QED
    BY <2>2, <2>3 DEF TablesOK, ItemsOK, RowsOK, Known, Rows
<1>3. ASSUME UNCHANGED <<subject, items, rows, certs>>
      PROVE  TablesOK'
  BY <1>3 DEF TablesOK, ItemsOK, RowsOK, Known, Rows
<1>4. ASSUME NEW v \in Visitors,
             Ask(v) \/ Count(v) \/ Select(v) \/ FollowNext(v) \/ Leave(v)
      PROVE  UNCHANGED <<subject, items, rows, certs>>
  BY <1>4 DEF Ask, SubmitForm, OpenLink, CallApi, Asks, Count, Select, FollowNext, Leave
<1> QED
  BY <1>1, <1>2, <1>3, <1>4 DEF Next, Write, vars

(* TypeOK: the tables and what the visitors have asked are well-formed. *)
THEOREM TypeCorrect == Spec => []TypeOK
<1>1. Init => VisitsOK /\ TablesOK
  BY VisitsInit, TablesInit
<1>2. VisitsOK /\ TablesOK /\ [Next]_vars => VisitsOK' /\ TablesOK'
  BY VisitsStep, TablesStep
<1>3. ASSUME VisitsOK, TablesOK
      PROVE  TypeOK
  <2>1. \A m \in Meetings : \A r \in rows[m] :
          r.words \subseteq Words /\ (r.item = None \/ items[r.item] # None)
    BY <1>3 DEF TablesOK, RowsOK, Rows
  <2>2. ASSUME NEW v \in Visitors, visit[v].pc # "away"
        PROVE  /\ visit[v].query \in Queries
               /\ visit[v].pager => visit[v].query.offset % Page = 0
    BY <1>3, <2>2, VisitOf DEF Visits, Sound
  <2> QED
    BY <1>3, <2>1, <2>2 DEF TypeOK, TablesOK, ItemsOK
<1> QED
  BY <1>1, <1>2, <1>3, PTL DEF Spec

(* RowsAreFound: a text that is in a row of an agenda finds it, or the project it is
   linked to, after any pages and agendas, in any order; unless several meetings have
   listed that project. *)
THEOREM RowsOfAgendasAreFound == Spec => []RowsAreFound
<1>1. Init => TablesOK
  BY TablesInit
<1>2. TablesOK /\ [Next]_vars => TablesOK'
  BY TablesStep
<1>3. ASSUME TablesOK
      PROVE  RowsAreFound
  <2> SUFFICES ASSUME NEW q \in (SUBSET Words) \ {{}}, NEW m \in Meetings, NEW r \in rows[m],
                      q \subseteq r.words,
                      ~(r.item # None /\ items[r.item].shared)
               PROVE  LET query == [q |-> q, kinds |-> {}, year |-> None,
                                    limit |-> MaxLimit, offset |-> 0]
                      IN r \in AgendaOnly(query) \/ r.item \in Hits(query)
    BY DEF RowsAreFound
  <2> DEFINE query == [q |-> q, kinds |-> {}, year |-> None, limit |-> MaxLimit, offset |-> 0]
  <2>1. r \in Rows /\ subject = "projects"
    BY <1>3 DEF TablesOK, RowsOK
  <2>2. CASE r.item = None
    <3>1. Passes(query, r.words, Classify[r.words], YearOf[m])
      BY DEF Passes
    <3>2. query.q # {}
      OBVIOUS
    <3> HIDE DEF query
    <3> QED
      BY <2>2, <3>1, <3>2 DEF AgendaOnly, query
  <2>3. CASE r.item # None
    <3> DEFINE p == r.item
    <3>1. p \in Projects /\ items[p] # None /\ items[p].row = r.words
      BY <1>3, <2>1, <2>3 DEF TablesOK, RowsOK, Rows
    <3>2. r.words # None
      BY <2>1, SearchAssumption DEF Rows
    <3>3. q \subseteq ItemText(p)
      BY <3>1, <3>2 DEF ItemText
    <3>4. ProjectPasses(query, p)
      BY <3>1, <3>3 DEF ProjectPasses, Passes
    <3> HIDE DEF query
    <3> QED
      BY <2>1, <3>1, <3>4 DEF Hits, query
  <2> QED
    BY <2>2, <2>3
<1> QED
  BY <1>1, <1>2, <1>3, PTL DEF Spec

-----------------------------------------------------------------------------
(* The pager: what is owed is among the results, behind the pages shown so far. *)
Paged(local) ==
  LET query == local.query
      ahead == IF local.pc = "shown" THEN query.offset + Page ELSE query.offset
  IN /\ local.owed \subseteq Hits(query)
     /\ \A e \in local.owed : Rank(query, e) >= ahead
     /\ local.pc = "counted" /\ ~local.torn => local.total = Cardinality(Hits(query))
     /\ local.pc = "shown" /\ ~local.torn /\ ~HasNext(local) => local.owed = {}

Searches == {visit[v] : v \in Visitors} \ {Away}

PagerOK == \A local \in Searches : Paged(local)

(* The order of results is strict: the last one has fewer before it than there are. *)
LEMMA RankBelow ==
  ASSUME TablesOK, NEW query, NEW e \in Hits(query)
  PROVE  /\ Rank(query, e) \in Nat
         /\ Rank(query, e) < Cardinality(Hits(query))
<1> DEFINE H == Hits(query)
           B == {o \in H : Precedes(o, e)}
<1>1. IsFiniteSet(H) /\ Cardinality(H) \in Nat
  BY HitsType
<1>2. ~Precedes(e, e)
  <2>1. CASE subject = "projects"
    <3>1. e \in Projects /\ items[e] # None
      BY <2>1 DEF Hits, ProjectPasses
    <3>2. items[e].meeting \in Nat /\ items[e].id \in Nat
      BY <3>1, SearchAssumption, KnownFinite DEF TablesOK, ItemsOK, Item
    <3> QED
      BY <2>1, <3>2 DEF Precedes, ProjectBefore
  <2>2. CASE subject # "projects"
    <3>1. e \in Nat
      BY <2>2, SearchAssumption DEF Hits
    <3> QED
      BY <2>2, <3>1 DEF Precedes
  <2> QED
    BY <2>1, <2>2
<1>3. B \subseteq H /\ B # H
  BY <1>2
<1>4. IsFiniteSet(B) /\ Cardinality(B) <= Cardinality(H) /\ Cardinality(B) # Cardinality(H)
  BY <1>1, <1>3, FS_Subset
<1>5. Cardinality(B) \in Nat
  BY <1>4, FS_CardinalityType
<1>6. Rank(query, e) = Cardinality(B)
  BY DEF Rank
<1> HIDE DEF B, H
<1>7. Cardinality(B) < Cardinality(H)
  BY <1>1, <1>4, <1>5
<1> QED
  BY <1>5, <1>6, <1>7 DEF H

(* A commit that takes no result away and swaps none only puts more before each. *)
LEMMA RankGrows ==
  ASSUME NEW query, Hits(query) \subseteq Hits(query)',
         \A e, o \in Hits(query) : Precedes(e, o) => Precedes(e, o)',
         NEW e \in Hits(query)
  PROVE  /\ Rank(query, e) \in Nat /\ Rank(query, e)' \in Nat
         /\ Rank(query, e) <= Rank(query, e)'
<1> DEFINE B == {o \in Hits(query) : Precedes(o, e)}
           C == {o \in Hits(query)' : Precedes(o, e)'}
<1>1. IsFiniteSet(Hits(query)) /\ IsFiniteSet(Hits(query)')
  <2>1. /\ IsFiniteSet(Projects) /\ IsFiniteSet(Certificates)
        /\ Hits(query)' \subseteq Projects \/ Hits(query)' \subseteq Certificates
    BY SearchAssumption DEF Hits
  <2> QED
    BY <2>1, HitsType, FS_Subset
<1>2. B \subseteq C
  OBVIOUS
<1>3. IsFiniteSet(B) /\ IsFiniteSet(C)
  BY <1>1, FS_Subset
<1>4. Cardinality(B) <= Cardinality(C)
  BY <1>2, <1>3, FS_Subset
<1>5. Rank(query, e) = Cardinality(B) /\ Rank(query, e)' = Cardinality(C)
  BY DEF Rank
<1>6. Cardinality(B) \in Nat /\ Cardinality(C) \in Nat
  BY <1>3, FS_CardinalityType
<1> QED
  BY <1>4, <1>5, <1>6

(* The pages of one search have the same results. *)
LEMMA NextHits ==
  ASSUME NEW query
  PROVE  /\ Hits(NextOf(query)) = Hits(query)
         /\ \A e : Rank(NextOf(query), e) = Rank(query, e)
<1>1. /\ NextOf(query).q = query.q /\ NextOf(query).kinds = query.kinds
      /\ NextOf(query).year = query.year
  BY DEF NextOf
<1>2. \A words, kind, year :
        Passes(NextOf(query), words, kind, year) = Passes(query, words, kind, year)
  BY <1>1 DEF Passes
<1>3. Hits(NextOf(query)) = Hits(query)
  BY <1>2 DEF Hits, ProjectPasses, CertificatePasses
<1> QED
  BY <1>3 DEF Rank

LEMMA TablesUnchanged ==
  ASSUME UNCHANGED <<subject, items, rows, certs>>, NEW local, Paged(local)
  PROVE  Paged(local)'
<1>1. \A query : Hits(query)' = Hits(query)
  BY DEF Hits, ProjectPasses, CertificatePasses, Passes, ItemText
<1>2. \A e, o : Precedes(e, o)' = Precedes(e, o)
  BY DEF Precedes, ProjectBefore
<1>3. \A query, e : Rank(query, e)' = Rank(query, e)
  BY <1>1, <1>2 DEF Rank
<1> QED
  BY <1>1, <1>3 DEF Paged, HasNext

LEMMA OnePaged ==
  ASSUME VisitsOK, PagerOK, UNCHANGED <<subject, items, rows, certs>>,
         NEW v \in Visitors, NEW local, Sees(v, local), local # Away => Paged(local)
  PROVE  PagerOK'
<1>1. Searches' \subseteq Searches \cup {local}
  BY DEF Sees, Searches, VisitsOK
<1>2. \A other \in Searches' : Paged(other)
  BY <1>1 DEF PagerOK, Searches
<1>3. \A other \in Searches' : Paged(other)'
  BY <1>2, TablesUnchanged
<1> QED
  BY <1>3 DEF PagerOK

LEMMA CountPaged ==
  ASSUME VisitsOK, PagerOK, NEW v \in Visitors, Count(v)
  PROVE  PagerOK'
<1> DEFINE local == visit[v]
           hits  == Hits(local.query)
           new   == [local EXCEPT !.pc = "counted", !.total = Cardinality(hits),
                                  !.torn = FALSE,
                                  !.owed = IF FirstOf(local) THEN hits ELSE @]
<1>1. local \in Visits /\ local.pc = "asked" /\ local \in Searches
  BY VisitOf DEF Count, Searches, Away
<1>2. Paged(local)
  BY <1>1 DEF PagerOK
<1>3. Sees(v, new) /\ UNCHANGED <<subject, items, rows, certs>>
  BY DEF Count, Counted
<1>4. /\ new.pc = "counted" /\ new.query = local.query /\ new.total = Cardinality(hits)
      /\ new.owed = IF FirstOf(local) THEN hits ELSE local.owed
  BY <1>1 DEF Visits
<1>5. ASSUME FirstOf(local), NEW e \in hits
      PROVE  Rank(local.query, e) >= local.query.offset
  <2>1. local.query.offset = 0
    BY <1>5 DEF FirstOf
  <2>2. Rank(local.query, e) \in Nat
    <3>1. {o \in Hits(local.query) : Precedes(o, e)} \subseteq Hits(local.query)
      OBVIOUS
    <3> QED
      BY <3>1, HitsType, FS_Subset, FS_CardinalityType DEF Rank
  <2> QED
    BY <2>1, <2>2
<1> HIDE DEF new
<1>6. Paged(new)
  BY <1>1, <1>2, <1>4, <1>5 DEF Paged
<1> QED
  BY <1>3, <1>6, OnePaged

LEMMA SelectPaged ==
  ASSUME VisitsOK, TablesOK, PagerOK, NEW v \in Visitors, Select(v)
  PROVE  PagerOK'
<1> DEFINE local == visit[v]
           query == local.query
           new   == [local EXCEPT !.pc = "shown", !.owed = @ \ PageOf(query)]
<1>1. local \in Visits /\ local.pc = "counted" /\ local \in Searches /\ Sound(local)
  BY VisitOf DEF Select, Searches, Away
<1>2. Paged(local)
  BY <1>1 DEF PagerOK
<1>3. Sees(v, new) /\ UNCHANGED <<subject, items, rows, certs>>
  BY DEF Select
<1>4. /\ new.pc = "shown" /\ new.query = query /\ new.total = local.total
      /\ new.owed = local.owed \ PageOf(query) /\ new.torn = local.torn
  BY <1>1 DEF Visits
<1>5. query.offset \in Nat /\ local.total \in Nat /\ Page \in Nat
  BY <1>1, SearchAssumption DEF Visits, Queries
<1>6. ASSUME NEW e \in new.owed
      PROVE  Rank(query, e) >= query.offset + Page /\ Rank(query, e) < Cardinality(Hits(query))
  <2>1. e \in local.owed /\ e \notin PageOf(query)
    BY <1>4
  <2>2. e \in Hits(query) /\ Rank(query, e) >= query.offset
    BY <1>1, <1>2, <2>1 DEF Paged
  <2>3. Rank(query, e) \in Nat /\ Rank(query, e) < Cardinality(Hits(query))
    BY <2>2, RankBelow
  <2>4. Limit(query) = Page
    <3>1. local.pager
      BY <1>1, <2>1 DEF Sound
    <3>2. query.limit = Page
      BY <1>1, <3>1 DEF Sound
    <3> QED
      BY <3>2, SearchAssumption DEF Limit
  <2>5. Rank(query, e) - query.offset \notin 0..(Page - 1)
    BY <2>1, <2>2, <2>4 DEF PageOf
  <2> HIDE DEF query
  <2> QED
    BY <1>5, <2>2, <2>3, <2>5
<1>7. ASSUME ~new.torn, ~HasNext(new)
      PROVE  new.owed = {}
  <2> SUFFICES ASSUME NEW e \in new.owed PROVE FALSE
    OBVIOUS
  <2>1. local.total = Cardinality(Hits(query))
    BY <1>1, <1>2, <1>4, <1>7 DEF Paged
  <2>2. ~(query.offset + Page < local.total)
    BY <1>4, <1>7 DEF HasNext
  <2>3. /\ Rank(query, e) >= query.offset + Page /\ Rank(query, e) < local.total
        /\ Rank(query, e) \in Nat
    <3>1. e \in Hits(query)
      BY <1>2, <1>4 DEF Paged
    <3> QED
      BY <1>6, <2>1, <3>1, RankBelow
  <2> HIDE DEF query, local
  <2> QED
    BY <1>5, <2>2, <2>3
<1>8. new.owed \subseteq Hits(query)
  BY <1>2, <1>4 DEF Paged
<1> HIDE DEF new
<1>9. Paged(new)
  BY <1>4, <1>6, <1>7, <1>8 DEF Paged
<1> QED
  BY <1>3, <1>9, OnePaged

LEMMA FollowPaged ==
  ASSUME VisitsOK, PagerOK, NEW v \in Visitors, FollowNext(v)
  PROVE  PagerOK'
<1> DEFINE local == visit[v]
           query == local.query
           new   == [local EXCEPT !.pc = "asked", !.query = NextOf(query)]
<1>1. local \in Visits /\ local.pc = "shown" /\ local \in Searches
  BY VisitOf DEF FollowNext, Searches, Away
<1>2. Paged(local)
  BY <1>1 DEF PagerOK
<1>3. Sees(v, new) /\ UNCHANGED <<subject, items, rows, certs>>
  BY <1>1, NextQuery DEF FollowNext, Visits
<1>4. new.pc = "asked" /\ new.query = NextOf(query) /\ new.owed = local.owed
  BY <1>1 DEF Visits
<1>5. NextOf(query).offset = query.offset + Page
  BY DEF NextOf
<1> HIDE DEF new
<1>6. Paged(new)
  BY <1>1, <1>2, <1>4, <1>5, NextHits DEF Paged
<1> QED
  BY <1>3, <1>6, OnePaged

LEMMA NoticePaged ==
  ASSUME VisitsOK, PagerOK, Notice
  PROVE  PagerOK'
<1> SUFFICES ASSUME NEW v \in Visitors, NEW local, local = visit[v],
                    NEW new, new = visit'[v], new # Away
             PROVE  Paged(new)'
  BY DEF PagerOK, Searches
<1>1. local.pc # "away" /\ local \in Visits /\ local \in Searches
  BY VisitOf, NoticeKeeps DEF Searches, Away
<1>2. Paged(local)
  BY <1>1 DEF PagerOK
<1>3. PICK owed \in {{}, local.owed} :
        /\ new = [local EXCEPT !.owed = owed, !.torn = @ \/ local.pc = "counted"]
        /\ owed # {} => \E q \in {local.query} :
             /\ Hits(q) \subseteq Hits(q)'
             /\ \A e, o \in Hits(q) : Precedes(e, o) => Precedes(e, o)'
  BY <1>1, NoticeKeeps
<1>4. /\ new.pc = local.pc /\ new.query = local.query /\ new.total = local.total
      /\ new.owed = owed /\ (new.torn <=> local.torn \/ local.pc = "counted")
  BY <1>1, <1>3 DEF Visits
<1>5. ASSUME owed # {}, NEW e \in owed
      PROVE  /\ e \in Hits(new.query)'
             /\ Rank(new.query, e) \in Nat /\ Rank(new.query, e)' \in Nat
             /\ Rank(new.query, e) <= Rank(new.query, e)'
  <2> DEFINE q == new.query
  <2>1. /\ Hits(q) \subseteq Hits(q)'
        /\ \A x, y \in Hits(q) : Precedes(x, y) => Precedes(x, y)'
    BY <1>3, <1>4, <1>5
  <2>2. e \in Hits(q)
    BY <1>2, <1>4, <1>5 DEF Paged
  <2> HIDE DEF q
  <2>3. /\ Rank(q, e) \in Nat /\ Rank(q, e)' \in Nat
        /\ Rank(q, e) <= Rank(q, e)'
    BY <2>1, <2>2, RankGrows
  <2> QED
    BY <2>1, <2>2, <2>3 DEF q
<1> DEFINE ahead == IF new.pc = "shown" THEN new.query.offset + Page ELSE new.query.offset
<1>6. ASSUME NEW e \in owed
      PROVE  Rank(new.query, e)' >= ahead
  <2>1. ahead \in Nat
    BY <1>1, <1>4, SearchAssumption DEF Visits, Queries
  <2>2. Rank(new.query, e) >= ahead
    BY <1>2, <1>4, <1>6 DEF Paged
  <2> HIDE DEF ahead
  <2> QED
    BY <1>5, <1>6, <2>1, <2>2
<1>7. new.pc = "shown" /\ ~new.torn /\ ~HasNext(new) => new.owed = {}
  BY <1>2, <1>3, <1>4 DEF Paged, HasNext
<1> QED
  BY <1>4, <1>5, <1>6, <1>7 DEF Paged, HasNext

LEMMA PagerStep ==
  ASSUME VisitsOK, TablesOK, PagerOK, [Next]_vars
  PROVE  PagerOK'
<1>1. CASE Write
  BY <1>1, NoticePaged DEF Write, WriteMeeting, ListCertificate, ReadCertificatePage
<1>2. ASSUME NEW v \in Visitors, Ask(v)
      PROVE  PagerOK'
  <2>1. PICK query, wanted, pager : Asks(v, query, wanted, pager)
    BY <1>2 DEF Ask, SubmitForm, OpenLink, CallApi
  <2> DEFINE local == [pc |-> "asked", query |-> query, wanted |-> wanted, pager |-> pager,
                       total |-> 0, owed |-> {}, torn |-> FALSE]
  <2>2. Sees(v, local) /\ UNCHANGED <<subject, items, rows, certs>>
    BY <2>1 DEF Asks
  <2>3. Paged(local)
    BY DEF Paged
  <2> QED
    BY <2>2, <2>3, OnePaged
<1>3. ASSUME NEW v \in Visitors, Leave(v)
      PROVE  PagerOK'
  BY <1>3, OnePaged DEF Leave
<1>4. ASSUME NEW v \in Visitors, Count(v) \/ Select(v) \/ FollowNext(v)
      PROVE  PagerOK'
  BY <1>4, CountPaged, SelectPaged, FollowPaged
<1>5. CASE UNCHANGED vars
  <2>1. Searches' = Searches /\ UNCHANGED <<subject, items, rows, certs>>
    BY <1>5 DEF vars, Searches
  <2>2. \A local \in Searches' : Paged(local)'
    BY <2>1, TablesUnchanged DEF PagerOK
  <2> QED
    BY <2>2 DEF PagerOK
<1> QED
  BY <1>1, <1>2, <1>3, <1>4, <1>5 DEF Next

(* PagerShowsAll: whoever follows the links to the last page has been shown every result
   of the first count, for any size of a page, any number of results and any commits in
   between that neither take one away nor swap two; a commit between the count and the
   page of the last request excepted. *)
THEOREM PagerSkipsNothing == Spec => []PagerShowsAll
<1>1. Init => VisitsOK /\ TablesOK /\ PagerOK
  <2>1. Init => Searches = {}
    BY DEF Init, Searches
  <2> QED
    BY <2>1, VisitsInit, TablesInit DEF PagerOK
<1>2. VisitsOK /\ TablesOK /\ PagerOK /\ [Next]_vars => VisitsOK' /\ TablesOK' /\ PagerOK'
  BY VisitsStep, TablesStep, PagerStep
<1>3. PagerOK => PagerShowsAll
  <2> SUFFICES ASSUME PagerOK, NEW v \in Visitors, visit[v].pc = "shown",
                      ~HasNext(visit[v]), ~visit[v].torn
               PROVE  visit[v].owed = {}
    BY DEF PagerShowsAll
  <2>1. visit[v] \in Searches
    BY DEF Searches, Away
  <2> QED
    BY <2>1 DEF PagerOK, Paged
<1> QED
  BY <1>1, <1>2, <1>3, PTL DEF Spec
=============================================================================
