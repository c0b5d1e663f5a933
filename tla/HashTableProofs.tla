-------------------------- MODULE HashTableProofs ---------------------------
(***************************************************************************)
(* What HashTable promises for any keys, buckets and iterators: entries    *)
(* stay while an iterator is on them and are destroyed once, iterations    *)
(* are complete, and whoever looks keys up sees the dictionary of Dict.    *)
(***************************************************************************)
EXTENDS HashTable, SequenceTheorems, FiniteSetTheorems, TLAPS

-----------------------------------------------------------------------------
(* Lists without duplicates, and the order of what is in them. *)

Distinct(s) == \A m, n \in 1 .. Len(s) : s[m] = s[n] => m = n

Before(s, a, b) ==
  \E m, n \in 1 .. Len(s) : m < n /\ s[m] = a /\ s[n] = b

LEMMA OrderFacts ==
  ASSUME NEW S, NEW s \in Seq(S), Distinct(s)
  PROVE  /\ \A a, b : Before(s, a, b) => Contains(s, a) /\ Contains(s, b)
         /\ \A a, b : Before(s, a, b) => a # b /\ ~Before(s, b, a)
         /\ \A a, b : Contains(s, a) /\ Contains(s, b) /\ a # b
                        => Before(s, a, b) \/ Before(s, b, a)
         /\ \A a, b, c : Before(s, a, b) /\ Before(s, b, c) => Before(s, a, c)
<1>1. Len(s) \in Nat
  OBVIOUS
<1>2. \A a, b : Before(s, a, b) => Contains(s, a) /\ Contains(s, b)
  BY DEF Before, Contains
<1>3. ASSUME NEW a, NEW b, Before(s, a, b) PROVE a # b /\ ~Before(s, b, a)
  BY <1>1, <1>3 DEF Before, Distinct
<1>4. ASSUME NEW a, NEW b, Contains(s, a), Contains(s, b), a # b
      PROVE  Before(s, a, b) \/ Before(s, b, a)
  <2>1. PICK m \in 1 .. Len(s) : s[m] = a
    BY <1>4 DEF Contains
  <2>2. PICK n \in 1 .. Len(s) : s[n] = b
    BY <1>4 DEF Contains
  <2>3. m < n \/ n < m
    BY <1>1, <1>4, <2>1, <2>2
  <2> QED BY <2>1, <2>2, <2>3 DEF Before
<1>5. ASSUME NEW a, NEW b, NEW c, Before(s, a, b), Before(s, b, c) PROVE Before(s, a, c)
  <2>1. PICK m \in 1 .. Len(s), n \in 1 .. Len(s) : m < n /\ s[m] = a /\ s[n] = b
    BY <1>5 DEF Before
  <2>2. PICK i \in 1 .. Len(s), j \in 1 .. Len(s) : i < j /\ s[i] = b /\ s[j] = c
    BY <1>5 DEF Before
  <2>3. i = n
    BY <2>1, <2>2 DEF Distinct
  <2>4. m < j
    BY <1>1, <2>1, <2>2, <2>3
  <2> QED BY <2>1, <2>2, <2>4 DEF Before
<1> QED BY <1>2, <1>3, <1>4, <1>5

(* LIST_INSERT_HEAD.                                                       *)
LEMMA PrependFacts ==
  ASSUME NEW S, NEW s \in Seq(S), Distinct(s), NEW h \in S, ~Contains(s, h)
  PROVE  /\ <<h>> \o s \in Seq(S) /\ Distinct(<<h>> \o s)
         /\ \A g : Contains(<<h>> \o s, g) <=> Contains(s, g) \/ g = h
         /\ \A a, b : Before(s, a, b) => Before(<<h>> \o s, a, b)
<1> DEFINE r == <<h>> \o s
<1>1. Len(s) \in Nat /\ <<h>> \in Seq(S) /\ Len(<<h>>) = 1 /\ <<h>>[1] = h
  OBVIOUS
<1>2. /\ r \in Seq(S) /\ Len(r) = Len(s) + 1
      /\ \A n \in 1 .. Len(r) : r[n] = IF n <= 1 THEN h ELSE s[n - 1]
  <2>1. /\ r \in Seq(S) /\ Len(r) = 1 + Len(s)
        /\ \A n \in 1 .. 1 + Len(s) : r[n] = IF n <= 1 THEN <<h>>[n] ELSE s[n - 1]
    BY <1>1, ConcatProperties
  <2> QED BY <1>1, <2>1
<1> HIDE DEF r
<1>3. r[1] = h /\ \A n \in 1 .. Len(s) : n + 1 \in 1 .. Len(r) /\ r[n + 1] = s[n]
  BY <1>1, <1>2
<1>4. \A n \in 1 .. Len(r) : n = 1 \/ \E m \in 1 .. Len(s) : n = m + 1
  BY <1>1, <1>2
<1>5. Distinct(r)
  <2>1. ASSUME NEW m \in 1 .. Len(r), NEW n \in 1 .. Len(r), r[m] = r[n] PROVE m = n
    <3>1. CASE m = 1 /\ n = 1
      BY <3>1
    <3>2. CASE m = 1 /\ n # 1
      BY <1>3, <1>4, <2>1, <3>2 DEF Contains
    <3>3. CASE m # 1 /\ n = 1
      BY <1>3, <1>4, <2>1, <3>3 DEF Contains
    <3>4. CASE m # 1 /\ n # 1
      BY <1>3, <1>4, <2>1, <3>4 DEF Distinct
    <3> QED BY <3>1, <3>2, <3>3, <3>4
  <2> QED BY <2>1 DEF Distinct
<1>6. ASSUME NEW g PROVE Contains(r, g) <=> Contains(s, g) \/ g = h
  <2>1. 1 \in 1 .. Len(r)
    BY <1>1, <1>2
  <2>2. ASSUME Contains(r, g), g # h PROVE Contains(s, g)
    <3>1. PICK n \in 1 .. Len(r) : r[n] = g
      BY <2>2 DEF Contains
    <3>2. n # 1
      BY <1>3, <2>2, <3>1
    <3> QED BY <1>3, <1>4, <3>1, <3>2 DEF Contains
  <2>3. ASSUME Contains(s, g) PROVE Contains(r, g)
    <3>1. PICK n \in 1 .. Len(s) : s[n] = g
      BY <2>3 DEF Contains
    <3> QED BY <1>3, <3>1 DEF Contains
  <2>4. Contains(r, h)
    BY <1>3, <2>1 DEF Contains
  <2> QED BY <2>2, <2>3, <2>4
<1>7. ASSUME NEW a, NEW b, Before(s, a, b) PROVE Before(r, a, b)
  <2>1. PICK m \in 1 .. Len(s), n \in 1 .. Len(s) : m < n /\ s[m] = a /\ s[n] = b
    BY <1>7 DEF Before
  <2>2. m + 1 < n + 1
    BY <1>1, <2>1
  <2> QED BY <1>3, <2>1, <2>2 DEF Before
<1> QED BY <1>2, <1>5, <1>6, <1>7 DEF r

(* LIST_REMOVE.                                                            *)
LEMMA WithoutFacts ==
  ASSUME NEW S, NEW s \in Seq(S), Distinct(s), NEW h, Contains(s, h)
  PROVE  /\ Without(s, h) \in Seq(S) /\ Distinct(Without(s, h))
         /\ \A g : Contains(Without(s, h), g) <=> Contains(s, g) /\ g # h
         /\ \A a, b : a # h /\ b # h /\ Before(s, a, b) => Before(Without(s, h), a, b)
<1> DEFINE k == CHOOSE n \in DOMAIN s : s[n] = h
           r == Without(s, h)
           a1 == SubSeq(s, 1, k - 1)
           a2 == SubSeq(s, k + 1, Len(s))
<1>1. Len(s) \in Nat /\ DOMAIN s = 1 .. Len(s)
  OBVIOUS
<1>2. k \in 1 .. Len(s) /\ s[k] = h
  BY <1>1 DEF Contains
<1>3. r = a1 \o a2
  BY Zenon DEF Without, RemoveAt
<1> HIDE DEF k, r
<1>4. /\ a1 \in Seq(S) /\ Len(a1) = k - 1 /\ \A n \in 1 .. k - 1 : a1[n] = s[n]
      /\ a2 \in Seq(S) /\ Len(a2) = Len(s) - k /\ \A n \in 1 .. Len(s) - k : a2[n] = s[n + k]
  <2>1. k - 1 \in Int /\ k + 1 \in Int /\ Len(s) \in Int /\ 1 \in Int
    BY <1>1, <1>2
  <2>2. /\ a1 \in Seq(S) /\ Len(a1) = IF 1 <= k - 1 THEN (k - 1) - 1 + 1 ELSE 0
        /\ \A n \in 1 .. (k - 1) - 1 + 1 : a1[n] = s[1 + n - 1]
    <3>1. \A n \in 1 .. (k - 1) : s[n] \in S
      BY <1>1, <1>2
    <3> QED BY <2>1, <3>1, SubSeqProperties
  <2>3. /\ a2 \in Seq(S) /\ Len(a2) = IF k + 1 <= Len(s) THEN Len(s) - (k + 1) + 1 ELSE 0
        /\ \A n \in 1 .. Len(s) - (k + 1) + 1 : a2[n] = s[(k + 1) + n - 1]
    <3>1. \A n \in (k + 1) .. Len(s) : s[n] \in S
      BY <1>1, <1>2
    <3> QED BY <2>1, <3>1, SubSeqProperties
  <2>4. /\ \A n \in 1 .. k - 1 : 1 + n - 1 = n
        /\ \A n \in 1 .. Len(s) - k : (k + 1) + n - 1 = n + k
        /\ (k - 1) - 1 + 1 = k - 1 /\ Len(s) - (k + 1) + 1 = Len(s) - k
        /\ ~(1 <= k - 1) => k - 1 = 0
        /\ ~(k + 1 <= Len(s)) => Len(s) - k = 0
    <3> DEFINE l == Len(s)
    <3>1. k \in Int /\ l \in Int /\ 1 <= k /\ k <= l
      BY <1>1, <1>2
    <3> HIDE DEF l
    <3>2. /\ \A n \in 1 .. k - 1 : 1 + n - 1 = n
          /\ \A n \in 1 .. l - k : (k + 1) + n - 1 = n + k
      BY <3>1
    <3>3. (k - 1) - 1 + 1 = k - 1 /\ l - (k + 1) + 1 = l - k
      BY <3>1
    <3>4. ~(1 <= k - 1) => k - 1 = 0
      BY <3>1
    <3>5. ~(k + 1 <= l) => l - k = 0
      BY <3>1
    <3> QED BY <3>2, <3>3, <3>4, <3>5 DEF l
  <2> HIDE DEF a1, a2
  <2>5. Len(a1) = k - 1 /\ Len(a2) = Len(s) - k
    BY <2>2, <2>3, <2>4
  <2>6. \A n \in 1 .. k - 1 : a1[n] = s[n]
    BY <2>2, <2>4
  <2>7. \A n \in 1 .. Len(s) - k : a2[n] = s[n + k]
    BY <2>3, <2>4
  <2> QED BY <2>2, <2>3, <2>5, <2>6, <2>7
<1> HIDE DEF a1, a2
<1>5. /\ r \in Seq(S) /\ Len(r) = Len(s) - 1
      /\ \A n \in 1 .. Len(s) - 1 : r[n] = IF n <= k - 1 THEN a1[n] ELSE a2[n - (k - 1)]
  <2>1. /\ a1 \o a2 \in Seq(S) /\ Len(a1 \o a2) = Len(a1) + Len(a2)
        /\ \A n \in 1 .. Len(a1) + Len(a2) :
             (a1 \o a2)[n] = IF n <= Len(a1) THEN a1[n] ELSE a2[n - Len(a1)]
    BY <1>4, ConcatProperties
  <2>2. Len(a1) + Len(a2) = Len(s) - 1
    BY <1>1, <1>2, <1>4
  <2> QED BY <1>3, <1>4, <2>1, <2>2
<1> DEFINE up(n) == IF n < k THEN n ELSE n + 1
           down(n) == IF n < k THEN n ELSE n - 1
<1>6. \A n \in 1 .. Len(r) : up(n) \in 1 .. Len(s) /\ up(n) # k /\ r[n] = s[up(n)]
  <2>1. ASSUME NEW n \in 1 .. Len(r)
        PROVE  up(n) \in 1 .. Len(s) /\ up(n) # k /\ r[n] = s[up(n)]
    <3>1. n \in 1 .. Len(s) - 1 /\ n \in Int
      BY <1>1, <1>5
    <3>2. CASE n < k
      <4>1. n <= k - 1 /\ n \in 1 .. k - 1
        BY <1>1, <1>2, <3>1, <3>2
      <4> QED BY <1>1, <1>2, <1>4, <1>5, <3>1, <3>2, <4>1
    <3>3. CASE ~(n < k)
      <4>1. ~(n <= k - 1) /\ n - (k - 1) \in 1 .. Len(s) - k /\ n - (k - 1) + k = n + 1
        BY <1>1, <1>2, <3>1, <3>3
      <4> QED BY <1>1, <1>2, <1>4, <1>5, <3>1, <3>3, <4>1
    <3> QED BY <3>2, <3>3
  <2> QED BY <2>1
<1>7. \A n \in 1 .. Len(s) : n # k => down(n) \in 1 .. Len(r) /\ up(down(n)) = n
  BY <1>1, <1>2, <1>5
<1>8. \A m, n \in 1 .. Len(s) : m < n /\ m # k /\ n # k => down(m) < down(n)
  BY <1>1, <1>2
<1>9. \A m, n \in 1 .. Len(r) : up(m) = up(n) => m = n
  BY <1>1, <1>2, <1>5
<1> HIDE DEF up, down
<1>10. Distinct(r)
  BY <1>6, <1>9 DEF Distinct
<1>11. \A n \in 1 .. Len(s) : n # k => down(n) \in 1 .. Len(r) /\ r[down(n)] = s[n]
  BY <1>6, <1>7
<1>12. ASSUME NEW g PROVE Contains(r, g) <=> Contains(s, g) /\ g # h
  <2>1. ASSUME Contains(r, g) PROVE Contains(s, g) /\ g # h
    <3>1. PICK n \in 1 .. Len(r) : r[n] = g
      BY <2>1 DEF Contains
    <3>2. up(n) \in 1 .. Len(s) /\ up(n) # k /\ s[up(n)] = g
      BY <1>6, <3>1
    <3> QED BY <1>2, <3>2 DEF Contains, Distinct
  <2>2. ASSUME Contains(s, g), g # h PROVE Contains(r, g)
    BY <1>2, <1>11, <2>2 DEF Contains
  <2> QED BY <2>1, <2>2
<1>13. ASSUME NEW a, NEW b, a # h, b # h, Before(s, a, b) PROVE Before(r, a, b)
  <2>1. PICK m \in 1 .. Len(s), n \in 1 .. Len(s) : m < n /\ s[m] = a /\ s[n] = b
    BY <1>13 DEF Before
  <2>2. m # k /\ n # k
    BY <1>2, <1>13, <2>1
  <2> QED BY <1>8, <1>11, <2>1, <2>2 DEF Before
<1> QED BY <1>5, <1>10, <1>12, <1>13 DEF r

LEMMA FirstFacts ==
  ASSUME NEW t, NEW S, t.all_entries \in Seq(S), Distinct(t.all_entries), NULL \notin S
  PROVE  /\ First(t) = NULL => \A g : ~Contains(t.all_entries, g)
         /\ First(t) # NULL =>
              /\ Contains(t.all_entries, First(t))
              /\ \A g : Contains(t.all_entries, g) /\ g # First(t)
                          => Before(t.all_entries, First(t), g)
<1> DEFINE s == t.all_entries
<1>1. s \in Seq(S) /\ Len(s) \in Nat /\ Distinct(s)
  OBVIOUS
<1>2. First(t) = IF s = <<>> THEN NULL ELSE Head(s)
  BY DEF First
<1> HIDE DEF s
<1>3. CASE s = <<>>
  <2>1. First(t) = NULL /\ Len(s) = 0
    BY <1>2, <1>3
  <2>2. \A g : ~Contains(s, g)
    BY <2>1 DEF Contains
  <2> QED BY <2>1, <2>2 DEF s
<1>4. CASE s # <<>>
  <2>1. Len(s) >= 1 /\ Head(s) = s[1] /\ First(t) = s[1] /\ 1 \in 1 .. Len(s)
    BY <1>1, <1>2, <1>4
  <2>2. First(t) # NULL
    BY <1>1, <2>1
  <2>3. Contains(s, First(t))
    BY <2>1 DEF Contains
  <2>4. ASSUME NEW g, Contains(s, g), g # First(t) PROVE Before(s, First(t), g)
    <3>1. PICK n \in 1 .. Len(s) : s[n] = g
      BY <2>4 DEF Contains
    <3>2. 1 < n
      BY <1>1, <2>1, <2>4, <3>1
    <3> QED BY <2>1, <3>1, <3>2 DEF Before
  <2> QED BY <2>2, <2>3, <2>4 DEF s
<1> QED BY <1>3, <1>4

(* What comes after an entry comes after the next one, or is it.           *)
LEMMA NextFacts ==
  ASSUME NEW t, NEW S, t.all_entries \in Seq(S), Distinct(t.all_entries), NULL \notin S,
         NEW h, Contains(t.all_entries, h)
  PROVE  /\ LeNext(t, h) = NULL => \A g : ~Before(t.all_entries, h, g)
         /\ LeNext(t, h) # NULL =>
              /\ Before(t.all_entries, h, LeNext(t, h))
              /\ \A g : Before(t.all_entries, h, g) /\ g # LeNext(t, h)
                          => Before(t.all_entries, LeNext(t, h), g)
<1> DEFINE s == t.all_entries
           after == {n \in 2 .. Len(s) : s[n - 1] = h}
           x == CHOOSE n \in after : TRUE
<1>1. s \in Seq(S) /\ Len(s) \in Nat /\ Distinct(s)
  OBVIOUS
<1>2. LeNext(t, h) = IF after = {} THEN NULL ELSE s[x]
  BY Zenon DEF LeNext
<1>3. PICK k \in 1 .. Len(s) : s[k] = h
  BY DEF Contains
<1>4. \A n \in 1 .. Len(s) : s[n] = h => n = k
  BY <1>1, <1>3 DEF Distinct
<1>5. after # {} => x \in after
  BY Zenon
<1> HIDE DEF s, x
<1>6. CASE after = {}
  <2>1. k = Len(s)
    <3>1. k < Len(s) => k + 1 \in 2 .. Len(s) /\ s[(k + 1) - 1] = h
      BY <1>1, <1>3
    <3>2. k < Len(s) => k + 1 \in after
      BY <3>1
    <3> QED BY <1>1, <1>3, <1>6, <3>2
  <2>2. \A g : ~Before(s, h, g)
    BY <1>1, <1>4, <2>1 DEF Before
  <2> QED BY <1>2, <1>6, <2>2 DEF s
<1>7. CASE after # {}
  <2>1. x \in 2 .. Len(s) /\ x - 1 = k /\ LeNext(t, h) = s[x]
    <3>1. x \in 2 .. Len(s) /\ s[x - 1] = h
      BY <1>5, <1>7
    <3>2. x - 1 \in 1 .. Len(s)
      BY <1>1, <3>1
    <3> QED BY <1>2, <1>4, <1>7, <3>1, <3>2
  <2>2. s[x] # NULL /\ k < x
    BY <1>1, <1>3, <2>1
  <2>3. Before(s, h, s[x])
    BY <1>1, <1>3, <2>1, <2>2 DEF Before
  <2>4. ASSUME NEW g, Before(s, h, g), g # s[x] PROVE Before(s, s[x], g)
    <3>1. PICK m \in 1 .. Len(s), n \in 1 .. Len(s) : m < n /\ s[m] = h /\ s[n] = g
      BY <2>4 DEF Before
    <3>2. m = k /\ n # x /\ x \in 1 .. Len(s)
      BY <1>1, <1>4, <2>1, <2>4, <3>1
    <3>3. x < n
      BY <1>1, <1>3, <2>1, <3>1, <3>2
    <3> QED BY <3>1, <3>2, <3>3 DEF Before
  <2> QED BY <2>1, <2>2, <2>3, <2>4 DEF s
<1> QED BY <1>6, <1>7

-----------------------------------------------------------------------------
(* The table.  Sound(t, it, x) is the state it is in between two of its    *)
(* operations, when the iterators sit where it says and one more lock is   *)
(* held on x, if x is not NULL: hiter_next holds two for a moment.         *)

HenType == [key : Keys, is_deleted : BOOLEAN, lock_count : Nat]

TableType ==
  [hens : Seq(HenType), buckets : [Buckets -> Seq(Nat)],
   all_entries : Seq(Nat), destroyed : Seq(Nat)]

On(t, h) == Contains(t.all_entries, h)

Keyed(t, h) == t.hens[h].key

(* What hfind has to find under a key.                                     *)
Holds(t, k, h) == On(t, h) /\ Live(t, h) /\ Keyed(t, h) = k

Linked(t) ==
  /\ t \in TableType
  /\ Len(t.destroyed) = Len(t.hens)
  /\ Distinct(t.all_entries)
  /\ \A h : On(t, h) => h \in 1 .. Len(t.hens)
  /\ \A b \in Buckets :
       /\ Distinct(t.buckets[b])
       /\ \A h : Contains(t.buckets[b], h) <=> On(t, h) /\ HIndex[Keyed(t, h)] = b
  /\ \A h \in 1 .. Len(t.hens) : t.destroyed[h] = IF On(t, h) THEN 0 ELSE 1
  /\ \A k, g, h : Holds(t, k, g) /\ Holds(t, k, h) => g = h

Sitting(it, h) == {i \in Iters : it[i] = h}

Holders(it, x, h) == Cardinality(Sitting(it, h)) + (IF h = x THEN 1 ELSE 0)

Counted(t, it, x) ==
  /\ \A h : On(t, h) => t.hens[h].lock_count = Holders(it, x, h)
  /\ \A i \in Iters : it[i] = NULL \/ On(t, it[i])
  /\ x = NULL \/ On(t, x)

(* What is deleted and still there waits for an iterator.                  *)
Awaited(t, it, x, h) == On(t, h) /\ ~Live(t, h) => h = x \/ \E i \in Iters : it[i] = h

Sound(t, it, x) == Linked(t) /\ Counted(t, it, x) /\ \A h : Awaited(t, it, x, h)

(* What no operation does to the entries there were: no key changes, none  *)
(* comes back, none is brought to life and none overtakes another.         *)
Evolves(t, u) ==
  /\ Len(t.hens) <= Len(u.hens)
  /\ \A h \in 1 .. Len(t.hens) :
       /\ On(u, h) => On(t, h)
       /\ Live(u, h) => Live(t, h)
  /\ \A a, b : Before(t.all_entries, a, b) /\ On(u, a) /\ On(u, b)
                 => Before(u.all_entries, a, b)

LEMMA HoldersFacts ==
  ASSUME NEW it, NEW x, NEW h
  PROVE  /\ IsFiniteSet(Sitting(it, h)) /\ Cardinality(Sitting(it, h)) \in Nat
         /\ Holders(it, x, h) \in Nat
         /\ Holders(it, h, h) = Cardinality(Sitting(it, h)) + 1
         /\ h # x => Holders(it, x, h) = Cardinality(Sitting(it, h))
         /\ Cardinality(Sitting(it, h)) = 0 => \A i \in Iters : it[i] # h
         /\ (\A i \in Iters : it[i] # h) => Cardinality(Sitting(it, h)) = 0
<1>1. Sitting(it, h) \subseteq Iters
  BY DEF Sitting
<1>2. IsFiniteSet(Sitting(it, h)) /\ Cardinality(Sitting(it, h)) \in Nat
  BY <1>1, FS_Subset, FS_CardinalityType, ItersAssumption
<1>3. Cardinality(Sitting(it, h)) = 0 <=> Sitting(it, h) = {}
  BY <1>2, FS_EmptySet
<1>4. Sitting(it, h) = {} <=> \A i \in Iters : it[i] # h
  BY DEF Sitting
<1> QED BY <1>2, <1>3, <1>4 DEF Holders

Sits(it) == it \in [Iters -> Nat \union {NULL}]

(* An iterator leaves one entry for another.                               *)
Moved(it, jt, i, x) == jt = [it EXCEPT ![i] = x]

LEMMA MoveFacts ==
  ASSUME NEW it, Sits(it), NEW i \in Iters, NEW x, NEW jt, Moved(it, jt, i, x), NEW h
  PROVE  Holders(jt, it[i], h) = Holders(it, x, h)
<1> USE DEF Sits, Moved
<1> DEFINE o == it[i]
           rest == {j \in Iters : j # i /\ it[j] = h}
<1>1. /\ Sitting(it, h) = IF o = h THEN rest \union {i} ELSE rest
      /\ Sitting(jt, h) = IF x = h THEN rest \union {i} ELSE rest
  BY DEF Sitting
<1>2. IsFiniteSet(rest) /\ i \notin rest
  <2>1. rest \subseteq Iters
    OBVIOUS
  <2> QED BY <2>1, FS_Subset, ItersAssumption
<1>3. Cardinality(rest \union {i}) = Cardinality(rest) + 1 /\ Cardinality(rest) \in Nat
  BY <1>2, FS_AddElement, FS_CardinalityType
<1> HIDE DEF rest, o
<1>4. Holders(jt, o, h) = Holders(it, x, h)
  BY <1>1, <1>3 DEF Holders
<1> QED BY <1>4 DEF o

LEMMA Move ==
  ASSUME NEW t, NEW it, Sits(it), NEW x, NEW i \in Iters, Sound(t, it, x),
         NEW jt, Moved(it, jt, i, x)
  PROVE  Sound(t, jt, it[i])
<1>1. jt[i] = x /\ \A j \in Iters : j # i => jt[j] = it[j]
  BY DEF Sits, Moved
<1>2. \A h : Holders(jt, it[i], h) = Holders(it, x, h)
  BY MoveFacts
<1>3. Counted(t, jt, it[i])
  BY <1>1, <1>2 DEF Sound, Counted
<1>4. ASSUME NEW h, On(t, h), ~Live(t, h) PROVE h = it[i] \/ \E j \in Iters : jt[j] = h
  <2>1. h = x \/ \E j \in Iters : it[j] = h
    BY <1>4 DEF Sound, Awaited
  <2> QED BY <1>1, <2>1
<1>5. \A h : Awaited(t, jt, it[i], h)
  BY <1>4 DEF Awaited
<1> QED BY <1>3, <1>5 DEF Sound

(* The same lists, the same keys: only counts and marks may differ.        *)
SameLists(t, u) ==
  /\ u \in TableType
  /\ u.all_entries = t.all_entries /\ u.buckets = t.buckets /\ u.destroyed = t.destroyed
  /\ Len(u.hens) = Len(t.hens)
  /\ \A h \in 1 .. Len(t.hens) : Keyed(u, h) = Keyed(t, h) /\ (Live(u, h) => Live(t, h))

LEMMA SameListsFacts ==
  ASSUME NEW t, NEW u, Linked(t), SameLists(t, u)
  PROVE  /\ Linked(u) /\ Evolves(t, u) /\ \A h : On(u, h) <=> On(t, h)
         /\ \A h : On(t, h) => h \in 1 .. Len(t.hens) /\ Keyed(u, h) = Keyed(t, h)
<1>1. \A h : On(u, h) <=> On(t, h)
  BY DEF SameLists, On
<1>2. \A h : On(t, h) => h \in 1 .. Len(t.hens) /\ Keyed(u, h) = Keyed(t, h)
  BY DEF SameLists, Linked
<1>3. \A k, h : Holds(u, k, h) => Holds(t, k, h)
  BY <1>1, <1>2 DEF Holds, SameLists
<1>4. Evolves(t, u)
  BY <1>1 DEF Evolves, SameLists, Linked, TableType
<1>5. /\ u \in TableType /\ Len(u.destroyed) = Len(u.hens) /\ Distinct(u.all_entries)
      /\ \A h : On(u, h) => h \in 1 .. Len(u.hens)
  BY <1>1 DEF SameLists, Linked
<1>6. \A b \in Buckets :
        /\ Distinct(u.buckets[b])
        /\ \A h : Contains(u.buckets[b], h) <=> On(u, h) /\ HIndex[Keyed(u, h)] = b
  BY <1>1, <1>2 DEF SameLists, Linked
<1>7. \A h \in 1 .. Len(u.hens) : u.destroyed[h] = IF On(u, h) THEN 0 ELSE 1
  BY <1>1 DEF SameLists, Linked
<1>8. \A k, g, h : Holds(u, k, g) /\ Holds(u, k, h) => g = h
  BY <1>3 DEF Linked
<1> QED BY <1>1, <1>2, <1>4, <1>5, <1>6, <1>7, <1>8 DEF Linked

LEMMA CountFacts ==
  ASSUME NEW t \in TableType, NEW h \in 1 .. Len(t.hens), NEW c \in Nat,
         NEW u, u = [t EXCEPT !.hens[h].lock_count = c]
  PROVE  /\ SameLists(t, u) /\ u.hens[h].lock_count = c
         /\ \A g \in 1 .. Len(t.hens) :
              /\ Live(u, g) <=> Live(t, g)
              /\ g # h => u.hens[g].lock_count = t.hens[g].lock_count
<1> DEFINE e == [t.hens[h] EXCEPT !.lock_count = c]
<1>1. t.hens \in Seq(HenType) /\ DOMAIN t.hens = 1 .. Len(t.hens) /\ t.hens[h] \in HenType
  BY DEF TableType
<1>2. /\ e \in HenType /\ e.key = t.hens[h].key /\ e.is_deleted = t.hens[h].is_deleted
      /\ e.lock_count = c
  BY <1>1 DEF HenType
<1>3. /\ u.hens = [t.hens EXCEPT ![h] = e]
      /\ u.all_entries = t.all_entries /\ u.buckets = t.buckets /\ u.destroyed = t.destroyed
      /\ u = [hens |-> u.hens, buckets |-> t.buckets, all_entries |-> t.all_entries,
              destroyed |-> t.destroyed]
  BY DEF TableType
<1> HIDE DEF e
<1>4. /\ u.hens \in Seq(HenType) /\ Len(u.hens) = Len(t.hens) /\ u.hens[h] = e
      /\ \A g \in 1 .. Len(t.hens) : g # h => u.hens[g] = t.hens[g]
  <2> DEFINE s == t.hens
             r == u.hens
  <2>1. s \in Seq(HenType) /\ h \in 1 .. Len(s) /\ e \in HenType /\ r = [s EXCEPT ![h] = e]
    BY <1>1, <1>2, <1>3
  <2> HIDE DEF s, r
  <2>2. /\ r \in Seq(HenType) /\ Len(r) = Len(s)
        /\ \A g \in 1 .. Len(s) : r[g] = IF g = h THEN e ELSE s[g]
    BY <2>1, ExceptSeq
  <2> QED BY <2>1, <2>2 DEF s, r
<1>5. u \in TableType
  BY <1>3, <1>4 DEF TableType
<1> QED BY <1>2, <1>3, <1>4, <1>5 DEF SameLists, Keyed, Live

LEMMA LockSound ==
  ASSUME NEW t, NEW it, Sound(t, it, NULL), NEW h, h = NULL \/ On(t, h)
  PROVE  /\ Sound(Lock(t, h), it, h) /\ Evolves(t, Lock(t, h))
         /\ \A k, g : Holds(Lock(t, h), k, g) <=> Holds(t, k, g)
         /\ Lock(t, h).all_entries = t.all_entries /\ Len(Lock(t, h).hens) = Len(t.hens)
<1> DEFINE u == Lock(t, h)
<1>0. Linked(t) /\ t \in TableType /\ \A g : On(t, g) => g \in 1 .. Len(t.hens)
  BY DEF Sound, Linked
<1>1. CASE h = NULL
  <2>1. u = t
    BY <1>1 DEF Lock
  <2>2. Evolves(t, t)
    BY <1>0 DEF Evolves, TableType
  <2> QED BY <1>1, <2>1, <2>2
<1>2. CASE h # NULL
  <2>1. On(t, h) /\ h \in 1 .. Len(t.hens)
    BY <1>0, <1>2
  <2> DEFINE c == t.hens[h].lock_count
  <2>2. /\ t.hens[h] \in HenType /\ c \in Nat /\ c + 1 \in Nat
        /\ c = Cardinality(Sitting(it, h))
    <3>1. t.hens[h] \in HenType
      BY <1>0, <2>1 DEF TableType
    <3>2. c = Holders(it, NULL, h)
      BY <2>1 DEF Sound, Counted
    <3> QED BY <1>2, <3>1, <3>2, HoldersFacts DEF HenType
  <2>3. u = [t EXCEPT !.hens[h].lock_count = c + 1]
    BY <1>2 DEF Lock
  <2> HIDE DEF u, c
  <2>4. /\ SameLists(t, u) /\ u.hens[h].lock_count = c + 1
        /\ \A g \in 1 .. Len(t.hens) :
             /\ Live(u, g) <=> Live(t, g)
             /\ g # h => u.hens[g].lock_count = t.hens[g].lock_count
    BY <1>0, <2>1, <2>2, <2>3, CountFacts
  <2>5. /\ Linked(u) /\ Evolves(t, u) /\ \A g : On(u, g) <=> On(t, g)
        /\ \A g : On(t, g) => g \in 1 .. Len(t.hens) /\ Keyed(u, g) = Keyed(t, g)
    BY <1>0, <2>4, SameListsFacts
  <2>6. Counted(u, it, h)
    <3>1. ASSUME NEW g, On(u, g), g # h PROVE u.hens[g].lock_count = Holders(it, h, g)
      <4>1. g \in 1 .. Len(t.hens) /\ On(t, g) /\ g # NULL
        BY <2>5, <3>1, NullAssumption, <1>0 DEF TableType
      <4> QED BY <3>1, <4>1, <2>4, HoldersFacts DEF Sound, Counted
    <3>2. u.hens[h].lock_count = Holders(it, h, h)
      BY <2>2, <2>4, HoldersFacts
    <3> QED BY <2>1, <2>5, <3>1, <3>2 DEF Sound, Counted
  <2>7. \A g : Awaited(u, it, h, g)
    <3>1. \A g : On(u, g) => g \in 1 .. Len(t.hens) /\ g # NULL /\ On(t, g)
      BY <2>5, <1>0, NullAssumption DEF TableType
    <3> QED BY <2>4, <2>5, <3>1 DEF Sound, Awaited
  <2> QED BY <2>4, <2>5, <2>6, <2>7 DEF Sound, Holds, SameLists, u
<1> QED BY <1>1, <1>2

LEMMA KeyFacts ==
  ASSUME NEW t, Linked(t), NEW h, On(t, h)
  PROVE  /\ h \in 1 .. Len(t.hens) /\ h \in Nat /\ h # NULL
         /\ t.hens[h] \in HenType /\ Keyed(t, h) \in Keys /\ HIndex[Keyed(t, h)] \in Buckets
<1>1. h \in 1 .. Len(t.hens) /\ t.hens \in Seq(HenType)
  BY DEF Linked, TableType
<1>2. h \in Nat /\ t.hens[h] \in HenType
  BY <1>1
<1>3. Keyed(t, h) \in Keys
  BY <1>2 DEF Keyed, HenType
<1> QED BY <1>1, <1>2, <1>3, HIndexAssumption, NullAssumption

(* What is removed leaves both lists and nobody else does.                 *)
LEMMA DropFacts ==
  ASSUME NEW t, Linked(t), NEW h, On(t, h), NEW u, u = HDoDelete(t, h)
  PROVE  /\ Linked(u) /\ Evolves(t, u) /\ u.hens = t.hens
         /\ \A g : On(u, g) <=> On(t, g) /\ g # h
<1> DEFINE b0 == HIndex[Keyed(t, h)]
           n == Len(t.hens)
<1>0. t \in TableType /\ h \in 1 .. n /\ b0 \in Buckets /\ n \in Nat /\ Len(t.destroyed) = n
  <2>1. t \in TableType /\ Len(t.destroyed) = n /\ n \in Nat
    BY DEF Linked, TableType
  <2>2. h \in 1 .. n /\ b0 \in Buckets
    BY KeyFacts
  <2> QED BY <2>1, <2>2
<1>1. /\ u.hens = t.hens
      /\ u.buckets = [t.buckets EXCEPT ![b0] = Without(t.buckets[b0], h)]
      /\ u.all_entries = Without(t.all_entries, h)
      /\ u.destroyed = [t.destroyed EXCEPT ![h] = t.destroyed[h] + 1]
      /\ u = [hens |-> u.hens, buckets |-> u.buckets, all_entries |-> u.all_entries,
              destroyed |-> u.destroyed]
  BY <1>0 DEF HDoDelete, TableType, Keyed
<1>2. /\ t.all_entries \in Seq(Nat) /\ Distinct(t.all_entries) /\ Contains(t.all_entries, h)
  BY DEF Linked, TableType, On
<1>3. /\ u.all_entries \in Seq(Nat) /\ Distinct(u.all_entries)
      /\ \A g : On(u, g) <=> On(t, g) /\ g # h
      /\ \A a, b : a # h /\ b # h /\ Before(t.all_entries, a, b) => Before(u.all_entries, a, b)
  BY <1>1, <1>2, WithoutFacts DEF On
<1>4. /\ t.buckets[b0] \in Seq(Nat) /\ Distinct(t.buckets[b0]) /\ Contains(t.buckets[b0], h)
  BY <1>0 DEF Linked, TableType
<1>5. /\ u.buckets[b0] \in Seq(Nat) /\ Distinct(u.buckets[b0])
      /\ \A g : Contains(u.buckets[b0], g) <=> Contains(t.buckets[b0], g) /\ g # h
  <2>1. u.buckets[b0] = Without(t.buckets[b0], h)
    BY <1>0, <1>1 DEF TableType
  <2> QED BY <1>4, <2>1, WithoutFacts
<1>6. \A b \in Buckets : b # b0 => u.buckets[b] = t.buckets[b]
  BY <1>0, <1>1 DEF TableType
<1>7. u.buckets \in [Buckets -> Seq(Nat)]
  <2>1. t.buckets \in [Buckets -> Seq(Nat)] /\ u.buckets[b0] = Without(t.buckets[b0], h)
    BY <1>0, <1>1 DEF TableType
  <2> QED BY <1>0, <1>1, <1>5, <2>1
<1>8. /\ t.destroyed \in Seq(Nat) /\ t.destroyed[h] = 0
      /\ \A g \in 1 .. n : t.destroyed[g] = IF On(t, g) THEN 0 ELSE 1
  BY <1>0 DEF Linked, TableType
<1>9. /\ u.destroyed \in Seq(Nat) /\ Len(u.destroyed) = n /\ u.destroyed[h] = 1
      /\ \A g \in 1 .. n : g # h => u.destroyed[g] = t.destroyed[g]
  <2> DEFINE s == t.destroyed
             r == u.destroyed
  <2>1. s \in Seq(Nat) /\ h \in 1 .. Len(s) /\ Len(s) = n /\ 1 \in Nat /\ r = [s EXCEPT ![h] = 1]
    BY <1>0, <1>1, <1>8
  <2> HIDE DEF s, r
  <2>2. /\ r \in Seq(Nat) /\ Len(r) = Len(s)
        /\ \A g \in 1 .. Len(s) : r[g] = IF g = h THEN 1 ELSE s[g]
    BY <2>1, ExceptSeq
  <2> QED BY <2>1, <2>2 DEF s, r
<1> HIDE DEF b0
<1>10. u \in TableType
  BY <1>0, <1>1, <1>3, <1>7, <1>9 DEF TableType
<1>11. /\ Len(u.destroyed) = Len(u.hens) /\ \A g : On(u, g) => g \in 1 .. Len(u.hens)
  BY <1>1, <1>3, <1>9 DEF Linked
<1>12. ASSUME NEW b \in Buckets
       PROVE  /\ Distinct(u.buckets[b])
              /\ \A g : Contains(u.buckets[b], g) <=> On(u, g) /\ HIndex[Keyed(u, g)] = b
  <2>1. /\ Distinct(t.buckets[b])
        /\ \A g : Contains(t.buckets[b], g) <=> On(t, g) /\ HIndex[Keyed(t, g)] = b
    BY DEF Linked
  <2>2. \A g : Keyed(u, g) = Keyed(t, g)
    BY <1>1 DEF Keyed
  <2>3. CASE b = b0
    BY <1>3, <1>5, <2>1, <2>2, <2>3
  <2>4. CASE b # b0
    <3>1. HIndex[Keyed(t, h)] # b
      BY <2>4 DEF b0
    <3> QED BY <1>3, <1>6, <2>1, <2>2, <2>4, <3>1
  <2> QED BY <2>3, <2>4
<1>13. \A g \in 1 .. Len(u.hens) : u.destroyed[g] = IF On(u, g) THEN 0 ELSE 1
  BY <1>1, <1>3, <1>8, <1>9
<1>14. \A k, g : Holds(u, k, g) => Holds(t, k, g)
  BY <1>1, <1>3 DEF Holds, Live, Keyed
<1>15. \A k, f, g : Holds(u, k, f) /\ Holds(u, k, g) => f = g
  BY <1>14 DEF Linked
<1>16. Linked(u)
  BY <1>3, <1>10, <1>11, <1>12, <1>13, <1>15 DEF Linked
<1>17. Evolves(t, u)
  BY <1>0, <1>1, <1>3 DEF Evolves, Live
<1> QED BY <1>1, <1>3, <1>16, <1>17

(* An entry nobody sits on is removed; it may be the only one nobody waits *)
(* for.                                                                    *)
LEMMA DropSound ==
  ASSUME NEW t, NEW it, Linked(t), Counted(t, it, NULL), NEW h, On(t, h),
         \A i \in Iters : it[i] # h, \A g : g # h => Awaited(t, it, NULL, g),
         NEW u, u = HDoDelete(t, h)
  PROVE  Sound(u, it, NULL)
<1>1. /\ Linked(u) /\ u.hens = t.hens
      /\ \A g : On(u, g) <=> On(t, g) /\ g # h
  BY DropFacts
<1>2. Counted(u, it, NULL)
  BY <1>1 DEF Counted
<1>3. \A g : Awaited(u, it, NULL, g)
  BY <1>1 DEF Awaited, Live
<1> QED BY <1>1, <1>2, <1>3 DEF Sound

LEMMA EvolvesFacts ==
  ASSUME NEW t, NEW u, NEW v, Linked(t), Linked(u), Linked(v), Evolves(t, u), Evolves(u, v)
  PROVE  Evolves(t, v)
<1>1. Len(t.hens) \in Nat /\ Len(u.hens) \in Nat /\ Len(v.hens) \in Nat
  BY DEF Linked, TableType
<1>2. \A h \in 1 .. Len(t.hens) : h \in 1 .. Len(u.hens)
  BY <1>1 DEF Evolves
<1>3. ASSUME NEW a, NEW b, Before(t.all_entries, a, b), On(v, a), On(v, b)
      PROVE  Before(v.all_entries, a, b)
  <2>1. On(t, a) /\ On(t, b)
    BY <1>3, OrderFacts DEF On, Linked, TableType
  <2>2. On(u, a) /\ On(u, b)
    BY <1>2, <1>3, <2>1 DEF Evolves, Linked
  <2> QED BY <1>3, <2>2 DEF Evolves
<1> QED BY <1>1, <1>2, <1>3 DEF Evolves

LEMMA UnlockSound ==
  ASSUME NEW t, NEW it, NEW h, Sound(t, it, h), NEW u, u = Unlock(t, h)
  PROVE  /\ Sound(u, it, NULL) /\ Evolves(t, u)
         /\ \A k, g : Holds(u, k, g) <=> Holds(t, k, g)
         /\ Len(u.hens) = Len(t.hens)
<1>0. Linked(t) /\ t \in TableType
  BY DEF Sound, Linked
<1>1. CASE h = NULL
  <2>1. u = t
    BY <1>1 DEF Unlock
  <2>2. Evolves(t, t)
    BY <1>0 DEF Evolves, TableType
  <2> QED BY <1>1, <2>1, <2>2
<1>2. CASE h # NULL
  <2>1. On(t, h)
    BY <1>2 DEF Sound, Counted
  <2> DEFINE c == Cardinality(Sitting(it, h))
             v == [t EXCEPT !.hens[h].lock_count = c]
  <2>2. /\ h \in 1 .. Len(t.hens) /\ t.hens[h] \in HenType
        /\ \A g : On(t, g) => g \in 1 .. Len(t.hens) /\ g # NULL
    BY <1>0, <2>1, KeyFacts
  <2>3. c \in Nat /\ t.hens[h].lock_count - 1 = c
    <3>1. t.hens[h].lock_count = Holders(it, h, h)
      BY <2>1 DEF Sound, Counted
    <3> QED BY <3>1, HoldersFacts
  <2>4. v = [t EXCEPT !.hens[h].lock_count = @ - 1]
    BY <2>3
  <2>5. u = IF v.hens[h].lock_count = 0 /\ ~Live(v, h) THEN HDoDelete(v, h) ELSE v
    BY <1>2, <2>4, Zenon DEF Unlock
  <2>6. v = [t EXCEPT !.hens[h].lock_count = c]
    OBVIOUS
  <2> HIDE DEF c, v
  <2>7. /\ SameLists(t, v) /\ v.hens[h].lock_count = c
        /\ \A g \in 1 .. Len(t.hens) :
             /\ Live(v, g) <=> Live(t, g)
             /\ g # h => v.hens[g].lock_count = t.hens[g].lock_count
    BY <1>0, <2>2, <2>3, <2>6, CountFacts
  <2>8. /\ Linked(v) /\ Evolves(t, v) /\ \A g : On(v, g) <=> On(t, g)
        /\ \A g : On(t, g) => g \in 1 .. Len(t.hens) /\ Keyed(v, g) = Keyed(t, g)
    BY <1>0, <2>7, SameListsFacts
  <2>9. Counted(v, it, NULL)
    <3>1. ASSUME NEW g, On(v, g), g # h PROVE v.hens[g].lock_count = Holders(it, NULL, g)
      <4>1. g \in 1 .. Len(t.hens) /\ On(t, g) /\ g # NULL
        BY <2>2, <2>8, <3>1
      <4>2. Holders(it, h, g) = Holders(it, NULL, g)
        BY <3>1, <4>1, HoldersFacts
      <4> QED BY <3>1, <4>1, <4>2, <2>7 DEF Sound, Counted
    <3>2. v.hens[h].lock_count = Holders(it, NULL, h)
      BY <1>2, <2>7, HoldersFacts DEF c
    <3> QED BY <2>8, <3>1, <3>2 DEF Sound, Counted
  <2>10. \A g : g # h => Awaited(v, it, NULL, g)
    BY <2>2, <2>7, <2>8 DEF Sound, Awaited
  <2>11. \A k, g : Holds(v, k, g) <=> Holds(t, k, g)
    BY <2>2, <2>7, <2>8 DEF Holds
  <2>12. Len(v.hens) = Len(t.hens)
    BY <2>7 DEF SameLists
  <2>13. CASE v.hens[h].lock_count = 0 /\ ~Live(v, h)
    <3>1. u = HDoDelete(v, h) /\ On(v, h)
      BY <2>1, <2>5, <2>8, <2>13
    <3>2. \A i \in Iters : it[i] # h
      BY <2>7, <2>13, HoldersFacts DEF c
    <3>3. Sound(u, it, NULL)
      BY <2>8, <2>9, <2>10, <3>1, <3>2, DropSound
    <3>4. Linked(u) /\ Evolves(v, u) /\ u.hens = v.hens /\ \A g : On(u, g) <=> On(v, g) /\ g # h
      BY <2>8, <3>1, DropFacts
    <3>5. \A k, g : Holds(u, k, g) <=> Holds(v, k, g)
      BY <2>13, <3>4 DEF Holds, Live, Keyed
    <3>6. Evolves(t, u)
      BY <1>0, <2>8, <3>4, EvolvesFacts
    <3> QED BY <2>11, <2>12, <3>3, <3>4, <3>5, <3>6
  <2>14. CASE ~(v.hens[h].lock_count = 0 /\ ~Live(v, h))
    <3>1. u = v
      BY <2>5, <2>14
    <3>2. Awaited(v, it, NULL, h)
      <4>1. ~Live(v, h) => c # 0
        BY <2>7, <2>14
      <4> QED BY <4>1, HoldersFacts DEF Awaited, c
    <3>3. \A g : Awaited(v, it, NULL, g)
      BY <2>10, <3>2
    <3> QED BY <2>8, <2>9, <2>11, <2>12, <3>1, <3>3 DEF Sound
  <2> QED BY <2>13, <2>14
<1> QED BY <1>1, <1>2

(* htry_delete of an entry that is found: it is gone, or out of sight.     *)
LEMMA TryDeleteSound ==
  ASSUME NEW t, NEW it, Sound(t, it, NULL), NEW h, On(t, h), NEW u, u = HTryDelete(t, h)
  PROVE  /\ Sound(u, it, NULL) /\ Evolves(t, u) /\ Len(u.hens) = Len(t.hens)
         /\ \A k, g : Holds(u, k, g) <=> Holds(t, k, g) /\ g # h
<1>0. Linked(t) /\ t \in TableType /\ h \in 1 .. Len(t.hens) /\ h # NULL
  BY KeyFacts DEF Sound, Linked
<1>1. t.hens[h].lock_count = Cardinality(Sitting(it, h))
  BY <1>0, HoldersFacts DEF Sound, Counted
<1>2. CASE t.hens[h].lock_count = 0
  <2>1. u = HDoDelete(t, h)
    BY <1>2 DEF HTryDelete
  <2>2. \A i \in Iters : it[i] # h
    BY <1>1, <1>2, HoldersFacts
  <2>3. Counted(t, it, NULL) /\ \A g : g # h => Awaited(t, it, NULL, g)
    BY DEF Sound
  <2>4. Sound(u, it, NULL)
    BY <1>0, <2>1, <2>2, <2>3, DropSound
  <2>5. Linked(u) /\ Evolves(t, u) /\ u.hens = t.hens /\ \A g : On(u, g) <=> On(t, g) /\ g # h
    BY <1>0, <2>1, DropFacts
  <2>6. \A k, g : Holds(u, k, g) <=> Holds(t, k, g) /\ g # h
    BY <2>5 DEF Holds, Live, Keyed
  <2> QED BY <2>4, <2>5, <2>6
<1>3. CASE t.hens[h].lock_count # 0
  <2> DEFINE e == [t.hens[h] EXCEPT !.is_deleted = TRUE]
  <2>1. u = [t EXCEPT !.hens[h].is_deleted = TRUE]
    BY <1>3 DEF HTryDelete
  <2>2. t.hens \in Seq(HenType) /\ DOMAIN t.hens = 1 .. Len(t.hens) /\ t.hens[h] \in HenType
    BY <1>0 DEF TableType
  <2>3. /\ e \in HenType /\ e.key = t.hens[h].key /\ e.is_deleted
        /\ e.lock_count = t.hens[h].lock_count
    BY <2>2 DEF HenType
  <2>4. /\ u.hens = [t.hens EXCEPT ![h] = e]
        /\ u.all_entries = t.all_entries /\ u.buckets = t.buckets /\ u.destroyed = t.destroyed
        /\ u = [hens |-> u.hens, buckets |-> t.buckets, all_entries |-> t.all_entries,
                destroyed |-> t.destroyed]
    BY <1>0, <2>1 DEF TableType
  <2> HIDE DEF e
  <2>5. /\ u.hens \in Seq(HenType) /\ Len(u.hens) = Len(t.hens) /\ u.hens[h] = e
        /\ \A g \in 1 .. Len(t.hens) : g # h => u.hens[g] = t.hens[g]
    <3> DEFINE s == t.hens
               r == u.hens
    <3>1. s \in Seq(HenType) /\ h \in 1 .. Len(s) /\ e \in HenType /\ r = [s EXCEPT ![h] = e]
      BY <1>0, <2>2, <2>3, <2>4
    <3> HIDE DEF s, r
    <3>2. /\ r \in Seq(HenType) /\ Len(r) = Len(s)
          /\ \A g \in 1 .. Len(s) : r[g] = IF g = h THEN e ELSE s[g]
      BY <3>1, ExceptSeq
    <3> QED BY <3>1, <3>2 DEF s, r
  <2>6. u \in TableType
    BY <1>0, <2>4, <2>5 DEF TableType
  <2>7. SameLists(t, u)
    BY <2>3, <2>4, <2>5, <2>6 DEF SameLists, Keyed, Live
  <2>8. /\ Linked(u) /\ Evolves(t, u) /\ \A g : On(u, g) <=> On(t, g)
        /\ \A g : On(t, g) => g \in 1 .. Len(t.hens) /\ Keyed(u, g) = Keyed(t, g)
    BY <1>0, <2>7, SameListsFacts
  <2>9. \A g : On(t, g) => /\ u.hens[g].lock_count = t.hens[g].lock_count
                           /\ g # h => (Live(u, g) <=> Live(t, g))
    BY <2>3, <2>5, <2>8 DEF Live
  <2>10. Counted(u, it, NULL)
    BY <2>8, <2>9 DEF Sound, Counted
  <2>11. \E i \in Iters : it[i] = h
    BY <1>1, <1>3, HoldersFacts
  <2>12. \A g : Awaited(u, it, NULL, g)
    BY <2>8, <2>9, <2>11 DEF Sound, Awaited
  <2>13. ~Live(u, h)
    BY <2>3, <2>5 DEF Live
  <2>14. \A k, g : Holds(u, k, g) <=> Holds(t, k, g) /\ g # h
    BY <2>8, <2>9, <2>13 DEF Holds
  <2> QED BY <2>5, <2>8, <2>10, <2>12, <2>14 DEF Sound
<1> QED BY <1>2, <1>3

(* h_entry finds what the key holds.                                       *)
LEMMA EntryFacts ==
  ASSUME NEW t, Linked(t), NEW k \in Keys
  PROVE  /\ HEntry(t, k) = NULL => \A h : ~Holds(t, k, h)
         /\ HEntry(t, k) # NULL => Holds(t, k, HEntry(t, k))
<1> DEFINE bucket == t.buckets[HIndex[k]]
           found == {n \in DOMAIN bucket : Live(t, bucket[n]) /\ t.hens[bucket[n]].key = k}
<1>1. /\ HIndex[k] \in Buckets /\ bucket \in Seq(Nat) /\ Len(bucket) \in Nat
      /\ DOMAIN bucket = 1 .. Len(bucket)
      /\ \A h : Contains(bucket, h) <=> On(t, h) /\ HIndex[Keyed(t, h)] = HIndex[k]
  <2>1. HIndex[k] \in Buckets
    BY HIndexAssumption
  <2>2. bucket \in Seq(Nat)
    BY <2>1 DEF Linked, TableType
  <2> QED BY <2>1, <2>2 DEF Linked
<1>2. HEntry(t, k) = IF found = {} THEN NULL ELSE bucket[Min(found)]
  BY Zenon DEF HEntry
<1> HIDE DEF bucket
<1>3. \A n \in DOMAIN bucket : Contains(bucket, bucket[n])
  BY <1>1 DEF Contains
<1>4. CASE found = {}
  <2>1. ASSUME NEW h, Holds(t, k, h) PROVE FALSE
    <3>1. Contains(bucket, h)
      BY <1>1, <2>1 DEF Holds
    <3>2. PICK n \in 1 .. Len(bucket) : bucket[n] = h
      BY <3>1 DEF Contains
    <3>3. n \in found
      BY <1>1, <2>1, <3>2 DEF Holds, Keyed
    <3> QED BY <1>4, <3>3
  <2>2. HEntry(t, k) = NULL
    BY <1>2, <1>4
  <2> QED BY <2>1, <2>2
<1>5. CASE found # {}
  <2>1. Min(found) \in found
    <3>1. ASSUME NEW m \in found, NEW n \in found PROVE m <= n
      <4>1. /\ m \in 1 .. Len(bucket) /\ n \in 1 .. Len(bucket)
            /\ Holds(t, k, bucket[m]) /\ Holds(t, k, bucket[n])
        BY <1>1, <1>3 DEF Holds, Keyed
      <4>2. bucket[m] = bucket[n]
        BY <4>1 DEF Linked
      <4>3. m = n
        BY <1>1, <4>1, <4>2 DEF Linked, Distinct, bucket
      <4> QED BY <1>1, <4>1, <4>3
    <3> HIDE DEF found
    <3> QED BY <1>5, <3>1 DEF Min
  <2>2. HEntry(t, k) = bucket[Min(found)]
    BY <1>2, <1>5
  <2> DEFINE n == Min(found)
  <2>3. n \in DOMAIN bucket /\ Live(t, bucket[n]) /\ t.hens[bucket[n]].key = k
    BY <2>1
  <2> HIDE DEF n
  <2>4. bucket[n] # NULL /\ Contains(bucket, bucket[n])
    BY <1>1, <1>3, <2>3, NullAssumption
  <2>5. Holds(t, k, bucket[n])
    BY <1>1, <2>3, <2>4 DEF Holds, Keyed
  <2> QED BY <2>2, <2>4, <2>5 DEF n
<1> QED BY <1>4, <1>5

(* hinsert of a key nothing is held under.                                 *)
LEMMA InsertSound ==
  ASSUME NEW t, NEW it, Sound(t, it, NULL), NEW k \in Keys, \A h : ~Holds(t, k, h),
         NEW u, u = InsertHead(t, k)
  PROVE  /\ Sound(u, it, NULL) /\ Evolves(t, u)
         /\ Len(u.hens) = Len(t.hens) + 1
         /\ \A j, g : Holds(u, j, g) <=> Holds(t, j, g) \/ (j = k /\ g = Len(t.hens) + 1)
<1> DEFINE n == Len(t.hens)
           x == n + 1
           b0 == HIndex[k]
<1>0. /\ Linked(t) /\ t \in TableType /\ n \in Nat /\ x \in Nat /\ x # NULL /\ b0 \in Buckets
      /\ Len(t.destroyed) = n
  BY HIndexAssumption, NullAssumption DEF Sound, Linked, TableType
<1>1. ~On(t, x) /\ \A g : On(t, g) => g \in 1 .. n
  BY <1>0 DEF Linked
<1>2. Hen(k) \in HenType /\ Hen(k).key = k /\ ~Hen(k).is_deleted /\ Hen(k).lock_count = 0
  BY DEF Hen, HenType
<1>3. /\ u.hens = Append(t.hens, Hen(k))
      /\ u.buckets = [t.buckets EXCEPT ![b0] = <<x>> \o t.buckets[b0]]
      /\ u.all_entries = <<x>> \o t.all_entries
      /\ u.destroyed = Append(t.destroyed, 0)
      /\ u = [hens |-> u.hens, buckets |-> u.buckets, all_entries |-> u.all_entries,
              destroyed |-> u.destroyed]
  BY <1>0 DEF InsertHead, TableType
<1> HIDE DEF b0, x
<1>4. /\ u.hens \in Seq(HenType) /\ Len(u.hens) = x /\ u.hens[x] = Hen(k)
      /\ \A g \in 1 .. n : u.hens[g] = t.hens[g]
  <2>1. t.hens \in Seq(HenType)
    BY <1>0 DEF TableType
  <2> QED BY <1>0, <1>2, <1>3, <2>1 DEF x
<1>5. /\ u.destroyed \in Seq(Nat) /\ Len(u.destroyed) = x /\ u.destroyed[x] = 0
      /\ \A g \in 1 .. n : u.destroyed[g] = t.destroyed[g]
  <2>1. t.destroyed \in Seq(Nat)
    BY <1>0 DEF TableType
  <2> QED BY <1>0, <1>3, <2>1 DEF x
<1>6. /\ u.all_entries \in Seq(Nat) /\ Distinct(u.all_entries)
      /\ \A g : On(u, g) <=> On(t, g) \/ g = x
      /\ \A a, b : Before(t.all_entries, a, b) => Before(u.all_entries, a, b)
  <2>1. t.all_entries \in Seq(Nat) /\ Distinct(t.all_entries) /\ ~Contains(t.all_entries, x)
    BY <1>0, <1>1 DEF Linked, TableType, On
  <2> QED BY <1>0, <1>3, <2>1, PrependFacts DEF On
<1>7. /\ t.buckets[b0] \in Seq(Nat) /\ Distinct(t.buckets[b0]) /\ ~Contains(t.buckets[b0], x)
  BY <1>0, <1>1 DEF Linked, TableType
<1>8. /\ u.buckets[b0] = <<x>> \o t.buckets[b0]
      /\ \A b \in Buckets : b # b0 => u.buckets[b] = t.buckets[b]
      /\ t.buckets \in [Buckets -> Seq(Nat)]
  BY <1>0, <1>3 DEF TableType
<1>9. /\ u.buckets[b0] \in Seq(Nat) /\ Distinct(u.buckets[b0])
      /\ \A g : Contains(u.buckets[b0], g) <=> Contains(t.buckets[b0], g) \/ g = x
  BY <1>0, <1>7, <1>8, PrependFacts
<1>10. u.buckets \in [Buckets -> Seq(Nat)]
  BY <1>0, <1>3, <1>8, <1>9
<1>11. u \in TableType
  BY <1>3, <1>4, <1>5, <1>6, <1>10 DEF TableType
<1>12. \A g : On(u, g) => g \in 1 .. Len(u.hens)
  BY <1>0, <1>1, <1>4, <1>6 DEF x
<1>13. Keyed(u, x) = k /\ Live(u, x) /\ u.hens[x].lock_count = 0
  BY <1>2, <1>4 DEF Keyed, Live
<1>14. \A g \in 1 .. n : Keyed(u, g) = Keyed(t, g) /\ (Live(u, g) <=> Live(t, g)) /\ g # x
  BY <1>0, <1>4 DEF Keyed, Live, x
<1>15. ASSUME NEW b \in Buckets
       PROVE  /\ Distinct(u.buckets[b])
              /\ \A g : Contains(u.buckets[b], g) <=> On(u, g) /\ HIndex[Keyed(u, g)] = b
  <2>1. /\ Distinct(t.buckets[b])
        /\ \A g : Contains(t.buckets[b], g) <=> On(t, g) /\ HIndex[Keyed(t, g)] = b
    BY <1>0 DEF Linked
  <2>2. \A g : On(t, g) => Keyed(u, g) = Keyed(t, g)
    BY <1>1, <1>14
  <2>3. CASE b = b0
    <3>1. HIndex[Keyed(u, x)] = b
      BY <1>13, <2>3 DEF b0
    <3> QED BY <1>6, <1>9, <2>1, <2>2, <2>3, <3>1
  <2>4. CASE b # b0
    <3>1. HIndex[Keyed(u, x)] # b
      BY <1>13, <2>4 DEF b0
    <3> QED BY <1>1, <1>6, <1>8, <2>1, <2>2, <2>4, <3>1
  <2> QED BY <2>3, <2>4
<1>16. \A g \in 1 .. Len(u.hens) : u.destroyed[g] = IF On(u, g) THEN 0 ELSE 1
  <2>1. \A g \in 1 .. Len(u.hens) : g = x \/ g \in 1 .. n
    BY <1>0, <1>4 DEF x
  <2>2. \A g \in 1 .. n : t.destroyed[g] = IF On(t, g) THEN 0 ELSE 1
    BY <1>0 DEF Linked
  <2>3. \A g \in 1 .. n : u.destroyed[g] = IF On(u, g) THEN 0 ELSE 1
    BY <1>5, <1>6, <1>14, <2>2
  <2>4. u.destroyed[x] = 0 /\ On(u, x)
    BY <1>5, <1>6
  <2> QED BY <2>1, <2>3, <2>4
<1>17. ASSUME NEW j, NEW g PROVE Holds(u, j, g) <=> Holds(t, j, g) \/ (j = k /\ g = x)
  <2>1. CASE g = x
    BY <1>1, <1>6, <1>13, <2>1 DEF Holds
  <2>2. CASE g # x
    <3>1. On(u, g) <=> On(t, g)
      BY <1>6, <2>2
    <3>2. On(t, g) => Keyed(u, g) = Keyed(t, g) /\ (Live(u, g) <=> Live(t, g))
      BY <1>1, <1>14
    <3> QED BY <2>2, <3>1, <3>2 DEF Holds
  <2> QED BY <2>1, <2>2
<1>18. \A j, f, g : Holds(u, j, f) /\ Holds(u, j, g) => f = g
  BY <1>0, <1>17 DEF Linked
<1>19. Linked(u)
  BY <1>4, <1>5, <1>6, <1>11, <1>12, <1>15, <1>16, <1>18 DEF Linked
<1>20. Evolves(t, u)
  <2>1. \A h \in 1 .. n : On(u, h) => On(t, h)
    BY <1>6, <1>14
  <2> QED BY <1>0, <1>4, <1>6, <1>14, <2>1 DEF Evolves, x
<1>21. Counted(u, it, NULL)
  <2>1. \A i \in Iters : it[i] # x
    BY <1>0, <1>1 DEF Sound, Counted
  <2>2. u.hens[x].lock_count = Holders(it, NULL, x)
    BY <1>0, <1>13, <2>1, HoldersFacts
  <2>3. ASSUME NEW g, On(t, g) PROVE u.hens[g].lock_count = Holders(it, NULL, g)
    BY <1>1, <1>4, <2>3 DEF Sound, Counted
  <2> QED BY <1>6, <2>2, <2>3 DEF Sound, Counted
<1>22. \A g : Awaited(u, it, NULL, g)
  BY <1>1, <1>6, <1>13, <1>14 DEF Sound, Awaited
<1> QED BY <1>4, <1>17, <1>19, <1>20, <1>21, <1>22 DEF Sound, x

-----------------------------------------------------------------------------
(* An iterator on here that has shown seen and found began when it began:  *)
(* what it has shown and is there lies before it, what it has not shown    *)
(* lies ahead.                                                             *)

Walk(t, here, seen, found) ==
  /\ seen \in Seq(Nat) /\ Distinct(seen)
  /\ \A v : Contains(seen, v) => v \in 1 .. Len(t.hens)
  /\ found \subseteq 1 .. Len(t.hens)
  /\ here = NULL \/ Contains(seen, here)
  /\ \A v : Contains(seen, v) /\ On(t, v) /\ here # NULL /\ v # here
              => Before(t.all_entries, v, here)
  /\ \A g \in found :
       On(t, g) => Contains(seen, g) \/ (here # NULL /\ Before(t.all_entries, here, g))

LEMMA AppendFacts ==
  ASSUME NEW s \in Seq(Nat), Distinct(s), NEW h \in Nat, ~Contains(s, h)
  PROVE  /\ s \o <<h>> \in Seq(Nat) /\ Distinct(s \o <<h>>)
         /\ \A g : Contains(s \o <<h>>, g) <=> Contains(s, g) \/ g = h
<1> DEFINE r == s \o <<h>>
<1>1. Len(s) \in Nat /\ <<h>> \in Seq(Nat) /\ Len(<<h>>) = 1 /\ <<h>>[1] = h
  OBVIOUS
<1>2. /\ r \in Seq(Nat) /\ Len(r) = Len(s) + 1
      /\ \A n \in 1 .. Len(s) + 1 : r[n] = IF n <= Len(s) THEN s[n] ELSE <<h>>[n - Len(s)]
  BY <1>1, ConcatProperties
<1> HIDE DEF r
<1>3. /\ \A n \in 1 .. Len(s) : r[n] = s[n] /\ n \in 1 .. Len(r)
      /\ r[Len(s) + 1] = h /\ Len(s) + 1 \in 1 .. Len(r)
      /\ \A n \in 1 .. Len(r) : n \in 1 .. Len(s) \/ n = Len(s) + 1
  <2>1. Len(s) + 1 \in 1 .. Len(s) + 1 /\ ~(Len(s) + 1 <= Len(s)) /\ Len(s) + 1 - Len(s) = 1
    BY <1>1
  <2>2. r[Len(s) + 1] = h
    BY <1>1, <1>2, <2>1
  <2> QED BY <1>1, <1>2, <2>1, <2>2
<1>4. Distinct(r)
  <2>1. ASSUME NEW m \in 1 .. Len(r), NEW n \in 1 .. Len(r), r[m] = r[n] PROVE m = n
    <3>1. CASE m \in 1 .. Len(s) /\ n \in 1 .. Len(s)
      BY <1>3, <2>1, <3>1 DEF Distinct
    <3>2. CASE m \in 1 .. Len(s) /\ n = Len(s) + 1
      BY <1>3, <2>1, <3>2 DEF Contains
    <3>3. CASE m = Len(s) + 1 /\ n \in 1 .. Len(s)
      BY <1>3, <2>1, <3>3 DEF Contains
    <3> QED BY <1>3, <3>1, <3>2, <3>3
  <2> QED BY <2>1 DEF Distinct
<1>5. ASSUME NEW g PROVE Contains(r, g) <=> Contains(s, g) \/ g = h
  <2>1. ASSUME Contains(r, g), g # h PROVE Contains(s, g)
    <3>1. PICK n \in 1 .. Len(r) : r[n] = g
      BY <2>1 DEF Contains
    <3> QED BY <1>3, <2>1, <3>1 DEF Contains
  <2>2. ASSUME Contains(s, g) PROVE Contains(r, g)
    <3>1. PICK n \in 1 .. Len(s) : s[n] = g
      BY <2>2 DEF Contains
    <3> QED BY <1>3, <3>1 DEF Contains
  <2>3. Contains(r, h)
    BY <1>3 DEF Contains
  <2> QED BY <2>1, <2>2, <2>3
<1> QED BY <1>2, <1>4, <1>5 DEF r

LEMMA WalkKept ==
  ASSUME NEW t, NEW u, Linked(t), Linked(u), Evolves(t, u), NEW here, NEW seen, NEW found,
         Walk(t, here, seen, found), here = NULL \/ On(u, here)
  PROVE  Walk(u, here, seen, found)
<1>1. /\ Len(t.hens) \in Nat /\ Len(u.hens) \in Nat /\ Len(t.hens) <= Len(u.hens)
      /\ \A h \in 1 .. Len(t.hens) : h \in 1 .. Len(u.hens) /\ (On(u, h) => On(t, h))
  BY DEF Linked, TableType, Evolves
<1>2. ASSUME NEW v, Contains(seen, v), On(u, v), here # NULL, v # here
      PROVE  Before(u.all_entries, v, here)
  <2>1. On(t, v)
    BY <1>1, <1>2 DEF Walk
  <2> QED BY <1>2, <2>1 DEF Walk, Evolves
<1>3. ASSUME NEW g \in found, On(u, g), ~Contains(seen, g)
      PROVE  here # NULL /\ Before(u.all_entries, here, g)
  <2>1. On(t, g)
    BY <1>1, <1>3 DEF Walk
  <2> QED BY <1>3, <2>1 DEF Walk, Evolves
<1> QED BY <1>1, <1>2, <1>3 DEF Walk

LEMMA WalkStarts ==
  ASSUME NEW t, Linked(t), NEW found, \A g \in found : On(t, g)
  PROVE  Walk(t, First(t), Visit(First(t)), found)
<1> DEFINE h == First(t)
<1>1. /\ h = NULL => \A g : ~On(t, g)
      /\ h # NULL => On(t, h) /\ \A g : On(t, g) /\ g # h => Before(t.all_entries, h, g)
  BY FirstFacts, NullAssumption DEF Linked, TableType, On
<1>2. \A g : On(t, g) => g \in 1 .. Len(t.hens) /\ g \in Nat
  BY KeyFacts
<1> HIDE DEF h
<1>3. CASE h = NULL
  <2>1. Visit(h) = <<>>
    BY <1>3 DEF Visit
  <2>2. <<>> \in Seq(Nat) /\ Distinct(<<>>) /\ \A g : ~Contains(<<>>, g)
    BY DEF Distinct, Contains
  <2> QED BY <1>1, <1>3, <2>1, <2>2 DEF Walk, h
<1>4. CASE h # NULL
  <2>1. Visit(h) = <<h>>
    BY <1>4 DEF Visit
  <2>2. h \in Nat /\ On(t, h)
    BY <1>1, <1>2, <1>4
  <2>3. <<h>> \in Seq(Nat) /\ Distinct(<<h>>) /\ \A g : Contains(<<h>>, g) <=> g = h
    BY <2>2 DEF Distinct, Contains
  <2> DEFINE r == <<h>>
  <2>4. r \in Seq(Nat) /\ Distinct(r) /\ (\A g : Contains(r, g) <=> g = h) /\ Visit(h) = r
    BY <2>1, <2>3
  <2> HIDE DEF r
  <2>5. Walk(t, h, r, found)
    BY <1>1, <1>2, <1>4, <2>2, <2>4 DEF Walk
  <2> QED BY <2>4, <2>5 DEF h
<1> QED BY <1>3, <1>4

LEMMA WalkGoesOn ==
  ASSUME NEW t, Linked(t), NEW h, On(t, h), NEW seen, NEW found, Walk(t, h, seen, found)
  PROVE  Walk(t, LeNext(t, h), seen \o Visit(LeNext(t, h)), found)
<1> DEFINE x == LeNext(t, h)
           all == t.all_entries
<1>1. /\ x = NULL => \A g : ~Before(all, h, g)
      /\ x # NULL =>
           /\ Before(all, h, x)
           /\ \A g : Before(all, h, g) /\ g # x => Before(all, x, g)
  BY NextFacts, NullAssumption DEF Linked, TableType, On
<1>2. /\ \A a, b : Before(all, a, b) => On(t, a) /\ On(t, b)
      /\ \A a, b : Before(all, a, b) => a # b /\ ~Before(all, b, a)
      /\ \A a, b, c : Before(all, a, b) /\ Before(all, b, c) => Before(all, a, c)
  BY OrderFacts DEF Linked, TableType, On
<1>3. \A g : On(t, g) => g \in 1 .. Len(t.hens) /\ g \in Nat /\ g # NULL
  BY KeyFacts
<1>4. seen \in Seq(Nat) /\ Distinct(seen)
  BY DEF Walk
<1> HIDE DEF x, all
<1>5. CASE x = NULL
  <2>1. Visit(x) = <<>> /\ seen \o <<>> = seen
    BY <1>4, <1>5 DEF Visit
  <2>2. Walk(t, x, seen, found)
    BY <1>1, <1>5 DEF Walk, all
  <2> QED BY <2>1, <2>2 DEF x
<1>6. CASE x # NULL
  <2>1. Before(all, h, x) /\ On(t, x) /\ x # h /\ x \in Nat /\ h # NULL
    BY <1>1, <1>2, <1>3, <1>6
  <2>2. ~Contains(seen, x)
    BY <1>2, <2>1 DEF Walk, all
  <2> DEFINE r == seen \o <<x>>
  <2>3. /\ r \in Seq(Nat) /\ Distinct(r) /\ \A g : Contains(r, g) <=> Contains(seen, g) \/ g = x
    BY <1>4, <2>1, <2>2, AppendFacts
  <2>4. seen \o Visit(x) = r
    BY <1>6 DEF Visit
  <2> HIDE DEF r
  <2>5. ASSUME NEW v, Contains(r, v), On(t, v), v # x PROVE Before(all, v, x)
    <3>1. Contains(seen, v)
      BY <2>3, <2>5
    <3>2. v = h \/ Before(all, v, h)
      BY <2>1, <2>5, <3>1 DEF Walk, all
    <3> QED BY <1>2, <2>1, <3>2
  <2>6. ASSUME NEW g \in found, On(t, g), ~Contains(r, g) PROVE Before(all, x, g)
    <3>1. ~Contains(seen, g) /\ g # x
      BY <2>3, <2>6
    <3>2. Before(all, h, g)
      BY <2>6, <3>1 DEF Walk, all
    <3> QED BY <1>1, <1>6, <3>1, <3>2
  <2>7. Walk(t, x, r, found)
    BY <1>3, <1>6, <2>1, <2>3, <2>5, <2>6 DEF Walk, all
  <2> QED BY <2>4, <2>7 DEF x
<1> QED BY <1>5, <1>6

-----------------------------------------------------------------------------
(* The inductive invariant. *)

IInv ==
  /\ Sits(iter) /\ Sound(ht, iter, NULL) /\ Len(ht.hens) <= MaxEntries
  /\ open \subseteq Iters
  /\ began \in [Iters -> SUBSET Nat]
  /\ visits \in [Iters -> Seq(Nat)]
  /\ \A i \in Iters : i \notin open => iter[i] = NULL
  /\ \A i \in Iters : Walk(ht, iter[i], visits[i], began[i])

LEMMA InitIInv == Init => IInv
<1> SUFFICES ASSUME Init PROVE IInv
  OBVIOUS
<1>0. Len(<<>>) = 0 /\ <<>> \in Seq(Nat) /\ <<>> \in Seq(HenType) /\ Distinct(<<>>)
  BY DEF Distinct
<1>1. \A h : ~Contains(<<>>, h)
  BY DEF Contains
<1>2. /\ ht.hens = <<>> /\ ht.all_entries = <<>> /\ ht.destroyed = <<>>
      /\ \A b \in Buckets : ht.buckets[b] = <<>>
      /\ ht \in TableType
  BY <1>0 DEF Init, TableType
<1>3. Sits(iter) /\ \A i \in Iters : iter[i] = NULL
  BY DEF Init, Sits
<1>4. \A h : ~On(ht, h)
  BY <1>1, <1>2 DEF On
<1>5. Linked(ht)
  <2>1. \A b \in Buckets :
          /\ Distinct(ht.buckets[b])
          /\ \A h : Contains(ht.buckets[b], h) <=> On(ht, h) /\ HIndex[Keyed(ht, h)] = b
    BY <1>0, <1>1, <1>2, <1>4
  <2> QED BY <1>0, <1>2, <1>4, <2>1 DEF Linked, Holds
<1>6. Sound(ht, iter, NULL)
  BY <1>3, <1>4, <1>5 DEF Sound, Counted, Awaited
<1>7. /\ open = {} /\ began \in [Iters -> SUBSET Nat] /\ visits \in [Iters -> Seq(Nat)]
      /\ \A i \in Iters : began[i] = {} /\ visits[i] = <<>>
  BY <1>0 DEF Init
<1>8. Walk(ht, NULL, <<>>, {})
  BY <1>0, <1>1 DEF Walk
<1>9. Len(ht.hens) <= MaxEntries
  BY <1>0, <1>2, MaxEntriesAssumption
<1> QED BY <1>3, <1>6, <1>7, <1>8, <1>9 DEF IInv

(* Whatever becomes of the table, iterators that stay where they are walk on. *)
LEMMA WalksKept ==
  ASSUME IInv, NEW u, NEW it, Sound(u, it, NULL), Evolves(ht, u), NEW i \in Iters,
         it[i] = iter[i]
  PROVE  Walk(u, iter[i], visits[i], began[i])
<1>1. Linked(ht) /\ Linked(u) /\ (iter[i] = NULL \/ On(u, iter[i]))
  BY DEF IInv, Sound, Counted
<1>2. Walk(ht, iter[i], visits[i], began[i])
  BY DEF IInv
<1> QED BY <1>1, <1>2, WalkKept

LEMMA HInsertStep ==
  ASSUME IInv, NEW k \in Keys, HInsert(k)
  PROVE  /\ IInv' /\ Evolves(ht, ht') /\ Len(ht'.hens) = Len(ht.hens) + 1
         /\ \A j, g : j # k => (Holds(ht', j, g) <=> Holds(ht, j, g))
         /\ Holds(ht', k, Len(ht.hens) + 1)
<1> DEFINE old == HEntry(ht, k)
           t == IF old = NULL THEN ht ELSE HTryDelete(ht, old)
<1>0. Sound(ht, iter, NULL) /\ Linked(ht) /\ Len(ht.hens) \in Nat
  BY DEF IInv, Sound, Linked, TableType
<1>1. /\ Sound(t, iter, NULL) /\ Evolves(ht, t) /\ Len(t.hens) = Len(ht.hens)
      /\ \A g : ~Holds(t, k, g)
      /\ \A j, g : j # k => (Holds(t, j, g) <=> Holds(ht, j, g))
  <2>1. CASE old = NULL
    <3>1. t = ht
      BY <2>1
    <3>2. \A g : ~Holds(ht, k, g)
      BY <1>0, <2>1, EntryFacts
    <3>3. Evolves(ht, ht)
      BY <1>0 DEF Evolves
    <3> HIDE DEF t
    <3> QED BY <1>0, <3>1, <3>2, <3>3
  <2>2. CASE old # NULL
    <3>1. t = HTryDelete(ht, old)
      BY <2>2
    <3>2. Holds(ht, k, old)
      BY <1>0, <2>2, EntryFacts
    <3>3. On(ht, old) /\ Keyed(ht, old) = k
      BY <3>2 DEF Holds
    <3> HIDE DEF t, old
    <3>4. /\ Sound(t, iter, NULL) /\ Evolves(ht, t) /\ Len(t.hens) = Len(ht.hens)
          /\ \A j, g : Holds(t, j, g) <=> Holds(ht, j, g) /\ g # old
      BY <1>0, <3>1, <3>3, TryDeleteSound
    <3>5. \A g : ~Holds(t, k, g)
      BY <1>0, <3>2, <3>4 DEF Linked
    <3>6. \A j, g : j # k => (Holds(t, j, g) <=> Holds(ht, j, g))
      BY <3>3, <3>4 DEF Holds
    <3> QED BY <3>4, <3>5, <3>6
  <2> QED BY <2>1, <2>2
<1>2. /\ ht' = InsertHead(t, k) /\ Len(ht.hens) < MaxEntries
      /\ iter' = iter /\ open' = open /\ began' = began /\ visits' = visits
  BY DEF HInsert
<1> HIDE DEF t, old
<1>3. /\ Sound(ht', iter, NULL) /\ Evolves(t, ht')
      /\ Len(ht'.hens) = Len(t.hens) + 1
      /\ \A j, g : Holds(ht', j, g) <=> Holds(t, j, g) \/ (j = k /\ g = Len(t.hens) + 1)
  BY <1>1, <1>2, InsertSound
<1>4. Evolves(ht, ht')
  BY <1>0, <1>1, <1>3, EvolvesFacts DEF Sound
<1>5. \A i \in Iters : Walk(ht', iter[i], visits[i], began[i])
  BY <1>3, <1>4, WalksKept
<1>6. IInv'
  <2>1. Len(ht'.hens) <= MaxEntries
    BY <1>0, <1>1, <1>2, <1>3, MaxEntriesAssumption
  <2>2. Sits(iter') /\ Sound(ht', iter', NULL)
    BY <1>2, <1>3 DEF IInv
  <2>3. /\ open' \subseteq Iters /\ began' \in [Iters -> SUBSET Nat]
        /\ visits' \in [Iters -> Seq(Nat)] /\ \A i \in Iters : i \notin open' => iter'[i] = NULL
    BY <1>2 DEF IInv
  <2>4. \A i \in Iters : Walk(ht', iter'[i], visits'[i], began'[i])
    BY <1>2, <1>5
  <2> QED BY <2>1, <2>2, <2>3, <2>4 DEF IInv
<1> QED BY <1>1, <1>3, <1>4, <1>6

LEMMA HDeleteStep ==
  ASSUME IInv, NEW k \in Keys, HDelete(k)
  PROVE  /\ IInv' /\ Evolves(ht, ht') /\ Len(ht'.hens) = Len(ht.hens)
         /\ \A j, g : j # k => (Holds(ht', j, g) <=> Holds(ht, j, g))
         /\ \A g : ~Holds(ht', k, g)
<1> DEFINE old == HEntry(ht, k)
<1>0. Sound(ht, iter, NULL) /\ Linked(ht)
  BY DEF IInv, Sound
<1>1. /\ old # NULL /\ ht' = HTryDelete(ht, old)
      /\ iter' = iter /\ open' = open /\ began' = began /\ visits' = visits
  BY DEF HDelete
<1>2. Holds(ht, k, old)
  BY <1>0, <1>1, EntryFacts
<1> HIDE DEF old
<1>3. On(ht, old) /\ Keyed(ht, old) = k
  BY <1>2 DEF Holds
<1>4. /\ Sound(ht', iter, NULL) /\ Evolves(ht, ht') /\ Len(ht'.hens) = Len(ht.hens)
      /\ \A j, g : Holds(ht', j, g) <=> Holds(ht, j, g) /\ g # old
  BY <1>0, <1>1, <1>3, TryDeleteSound
<1>5. \A g : ~Holds(ht', k, g)
  BY <1>0, <1>2, <1>4 DEF Linked
<1>6. \A j, g : j # k => (Holds(ht', j, g) <=> Holds(ht, j, g))
  BY <1>3, <1>4 DEF Holds
<1>7. \A i \in Iters : Walk(ht', iter[i], visits[i], began[i])
  BY <1>4, WalksKept
<1>8. IInv'
  BY <1>1, <1>4, <1>7 DEF IInv
<1> QED BY <1>4, <1>5, <1>6, <1>8

LEMMA HIterFirstStep ==
  ASSUME IInv, NEW i \in Iters, HIterFirst(i)
  PROVE  /\ IInv' /\ Evolves(ht, ht') /\ Len(ht'.hens) = Len(ht.hens)
         /\ \A k, g : Holds(ht', k, g) <=> Holds(ht, k, g)
<1> DEFINE h == First(ht)
           found == {g \in ToSet(ht.all_entries) : Live(ht, g)}
<1>0. Sound(ht, iter, NULL) /\ Linked(ht) /\ Sits(iter)
  BY DEF IInv, Sound
<1>1. /\ i \notin open /\ open' = open \union {i} /\ iter' = [iter EXCEPT ![i] = h]
      /\ ht' = Lock(ht, h) /\ began' = [began EXCEPT ![i] = found]
      /\ visits' = [visits EXCEPT ![i] = Visit(h)]
  BY Zenon DEF HIterFirst
<1>2. h = NULL \/ On(ht, h)
  BY <1>0, FirstFacts, NullAssumption DEF Linked, TableType, On
<1>3. iter[i] = NULL
  BY <1>1 DEF IInv
<1>4. \A g \in found : On(ht, g) /\ g \in Nat
  <2>1. ht.all_entries \in Seq(Nat) /\ DOMAIN ht.all_entries = 1 .. Len(ht.all_entries)
    BY <1>0 DEF Linked, TableType
  <2>2. \A g \in found : On(ht, g)
    BY <2>1 DEF ToSet, On, Contains
  <2> QED BY <1>0, <2>2, KeyFacts
<1>5. Walk(ht, h, Visit(h), found)
  <2> HIDE DEF found
  <2> QED BY <1>0, <1>4, WalkStarts
<1> HIDE DEF h, found
<1>6. /\ Sound(ht', iter, h) /\ Evolves(ht, ht')
      /\ (\A k, g : Holds(ht', k, g) <=> Holds(ht, k, g))
      /\ Len(ht'.hens) = Len(ht.hens)
  BY <1>0, <1>1, <1>2, LockSound
<1>7. Moved(iter, iter', i, h)
  BY <1>1 DEF Moved
<1>8. Sound(ht', iter', NULL)
  BY <1>0, <1>3, <1>6, <1>7, Move
<1>9. Sits(iter') /\ iter'[i] = h /\ \A j \in Iters : j # i => iter'[j] = iter[j]
  <2>1. h = NULL \/ h \in Nat
    BY <1>0, <1>2, KeyFacts
  <2> QED BY <1>0, <1>1, <2>1 DEF Sits
<1>10. /\ began' \in [Iters -> SUBSET Nat] /\ began'[i] = found
       /\ \A j \in Iters : j # i => began'[j] = began[j]
  BY <1>1, <1>4 DEF IInv
<1>11. /\ visits' \in [Iters -> Seq(Nat)] /\ visits'[i] = Visit(h)
       /\ \A j \in Iters : j # i => visits'[j] = visits[j]
  BY <1>1, <1>5 DEF IInv, Walk
<1>12. ASSUME NEW j \in Iters PROVE Walk(ht', iter'[j], visits'[j], began'[j])
  <2>1. CASE j = i
    <3>1. Linked(ht') /\ (h = NULL \/ On(ht', h))
      BY <1>8, <1>9 DEF Sound, Counted
    <3> QED BY <1>0, <1>5, <1>6, <1>9, <1>10, <1>11, <2>1, <3>1, WalkKept
  <2>2. CASE j # i
    <3>1. iter'[j] = iter[j] /\ visits'[j] = visits[j] /\ began'[j] = began[j]
      BY <1>9, <1>10, <1>11, <2>2
    <3> QED BY <1>6, <1>8, <3>1, WalksKept
  <2> QED BY <2>1, <2>2
<1>13. IInv'
  <2>1. open' \subseteq Iters /\ \A j \in Iters : j \notin open' => iter'[j] = NULL
    BY <1>1, <1>9 DEF IInv
  <2>2. Len(ht'.hens) <= MaxEntries
    BY <1>6 DEF IInv
  <2> QED BY <1>8, <1>9, <1>10, <1>11, <1>12, <2>1, <2>2 DEF IInv
<1> QED BY <1>6, <1>13

LEMMA HIterNextStep ==
  ASSUME IInv, NEW i \in Iters, HIterNext(i)
  PROVE  /\ IInv' /\ Evolves(ht, ht') /\ Len(ht'.hens) = Len(ht.hens)
         /\ \A k, g : Holds(ht', k, g) <=> Holds(ht, k, g)
<1> DEFINE o == iter[i]
           x == IF o = NULL THEN NULL ELSE LeNext(ht, o)
           u == Lock(ht, x)
<1>0. Sound(ht, iter, NULL) /\ Linked(ht) /\ Sits(iter) /\ Walk(ht, o, visits[i], began[i])
  BY DEF IInv, Sound
<1>1. /\ i \in open /\ open' = open /\ began' = began /\ iter' = [iter EXCEPT ![i] = x]
      /\ ht' = Unlock(u, o) /\ visits' = [visits EXCEPT ![i] = visits[i] \o Visit(x)]
  BY Zenon DEF HIterNext, IInv
<1>2. (x = NULL \/ On(ht, x)) /\ Walk(ht, x, visits[i] \o Visit(x), began[i])
  <2>1. CASE o = NULL
    <3>1. x = NULL /\ Visit(x) = <<>>
      BY <2>1 DEF Visit
    <3>2. visits[i] \o <<>> = visits[i]
      BY DEF IInv
    <3> HIDE DEF x
    <3> QED BY <1>0, <2>1, <3>1, <3>2
  <2>2. CASE o # NULL
    <3>1. On(ht, o)
      BY <2>2 DEF IInv, Sound, Counted
    <3>2. x = LeNext(ht, o)
      BY <2>2
    <3>3. x = NULL \/ Before(ht.all_entries, o, x)
      <4>1. ht.all_entries \in Seq(Nat) /\ Distinct(ht.all_entries) /\ Contains(ht.all_entries, o)
        BY <1>0, <3>1 DEF Linked, TableType, On
      <4> QED BY <3>2, <4>1, NextFacts, NullAssumption
    <3> HIDE DEF x, o
    <3>4. x = NULL \/ On(ht, x)
      BY <1>0, <3>3, OrderFacts DEF Linked, TableType, On
    <3>5. Walk(ht, x, visits[i] \o Visit(x), began[i])
      BY <1>0, <3>1, <3>2, WalkGoesOn
    <3> QED BY <3>4, <3>5
  <2> QED BY <2>1, <2>2
<1> HIDE DEF x
<1>3. /\ Sound(u, iter, x) /\ Evolves(ht, u)
      /\ (\A k, g : Holds(u, k, g) <=> Holds(ht, k, g))
      /\ Len(u.hens) = Len(ht.hens)
  BY <1>0, <1>2, LockSound
<1> HIDE DEF u
<1>4. Moved(iter, iter', i, x)
  BY <1>1 DEF Moved
<1>5. Sound(u, iter', o)
  BY <1>0, <1>3, <1>4, Move
<1> HIDE DEF o
<1>6. /\ Sound(ht', iter', NULL) /\ Evolves(u, ht')
      /\ (\A k, g : Holds(ht', k, g) <=> Holds(u, k, g))
      /\ Len(ht'.hens) = Len(u.hens)
  BY <1>1, <1>5, UnlockSound
<1>7. Evolves(ht, ht')
  BY <1>0, <1>3, <1>6, EvolvesFacts DEF Sound
<1>8. Sits(iter') /\ iter'[i] = x /\ \A j \in Iters : j # i => iter'[j] = iter[j]
  <2>1. x = NULL \/ x \in Nat
    BY <1>0, <1>2, KeyFacts
  <2> QED BY <1>0, <1>1, <2>1 DEF Sits
<1>9. /\ visits' \in [Iters -> Seq(Nat)] /\ visits'[i] = visits[i] \o Visit(x)
      /\ \A j \in Iters : j # i => visits'[j] = visits[j]
  <2> DEFINE s == visits[i] \o Visit(x)
  <2>1. s \in Seq(Nat) /\ visits' = [visits EXCEPT ![i] = s]
    BY <1>1, <1>2 DEF Walk
  <2> HIDE DEF s
  <2>2. /\ visits' \in [Iters -> Seq(Nat)] /\ visits'[i] = s
        /\ \A j \in Iters : j # i => visits'[j] = visits[j]
    BY <2>1 DEF IInv
  <2> QED BY <2>2 DEF s
<1>10. ASSUME NEW j \in Iters PROVE Walk(ht', iter'[j], visits'[j], began'[j])
  <2>1. CASE j = i
    <3>1. Linked(ht') /\ (x = NULL \/ On(ht', x))
      BY <1>6, <1>8 DEF Sound, Counted
    <3>2. Walk(ht', x, visits[i] \o Visit(x), began[i])
      BY <1>0, <1>2, <1>7, <3>1, WalkKept
    <3> QED BY <1>1, <1>8, <1>9, <2>1, <3>2
  <2>2. CASE j # i
    <3>1. iter'[j] = iter[j] /\ visits'[j] = visits[j] /\ began'[j] = began[j]
      BY <1>1, <1>8, <1>9, <2>2
    <3> QED BY <1>6, <1>7, <3>1, WalksKept
  <2> QED BY <2>1, <2>2
<1>11. IInv'
  <2>1. /\ open' \subseteq Iters /\ began' \in [Iters -> SUBSET Nat]
        /\ \A j \in Iters : j \notin open' => iter'[j] = NULL
    BY <1>1, <1>8 DEF IInv
  <2>2. Len(ht'.hens) <= MaxEntries
    BY <1>3, <1>6 DEF IInv
  <2> QED BY <1>6, <1>8, <1>9, <1>10, <2>1, <2>2 DEF IInv
<1> QED BY <1>3, <1>6, <1>7, <1>11

LEMMA HIterFreeStep ==
  ASSUME IInv, NEW i \in Iters, HIterFree(i)
  PROVE  /\ IInv' /\ Evolves(ht, ht') /\ Len(ht'.hens) = Len(ht.hens)
         /\ \A k, g : Holds(ht', k, g) <=> Holds(ht, k, g)
<1> DEFINE o == iter[i]
<1>0. Sound(ht, iter, NULL) /\ Linked(ht) /\ Sits(iter)
  BY DEF IInv, Sound
<1>1. /\ open' = open \ {i} /\ iter' = [iter EXCEPT ![i] = NULL] /\ ht' = Unlock(ht, o)
      /\ began' = [began EXCEPT ![i] = {}] /\ visits' = [visits EXCEPT ![i] = <<>>]
  BY DEF HIterFree
<1>2. Moved(iter, iter', i, NULL)
  BY <1>1 DEF Moved
<1>3. Sound(ht, iter', o)
  BY <1>0, <1>2, Move
<1> HIDE DEF o
<1>4. /\ Sound(ht', iter', NULL) /\ Evolves(ht, ht')
      /\ (\A k, g : Holds(ht', k, g) <=> Holds(ht, k, g))
      /\ Len(ht'.hens) = Len(ht.hens)
  BY <1>1, <1>3, UnlockSound
<1>5. Sits(iter') /\ iter'[i] = NULL /\ \A j \in Iters : j # i => iter'[j] = iter[j]
  BY <1>0, <1>1 DEF Sits
<1>6. /\ began' \in [Iters -> SUBSET Nat] /\ began'[i] = {}
      /\ \A j \in Iters : j # i => began'[j] = began[j]
  BY <1>1 DEF IInv
<1>7. /\ visits' \in [Iters -> Seq(Nat)] /\ visits'[i] = <<>>
      /\ \A j \in Iters : j # i => visits'[j] = visits[j]
  BY <1>1 DEF IInv
<1>8. ASSUME NEW j \in Iters PROVE Walk(ht', iter'[j], visits'[j], began'[j])
  <2>1. CASE j = i
    <3>1. <<>> \in Seq(Nat) /\ Distinct(<<>>) /\ \A g : ~Contains(<<>>, g)
      BY DEF Distinct, Contains
    <3>2. Walk(ht', NULL, <<>>, {})
      BY <3>1 DEF Walk
    <3> QED BY <1>5, <1>6, <1>7, <2>1, <3>2
  <2>2. CASE j # i
    <3>1. iter'[j] = iter[j] /\ visits'[j] = visits[j] /\ began'[j] = began[j]
      BY <1>5, <1>6, <1>7, <2>2
    <3> QED BY <1>4, <3>1, WalksKept
  <2> QED BY <2>1, <2>2
<1>9. IInv'
  <2>1. open' \subseteq Iters /\ \A j \in Iters : j \notin open' => iter'[j] = NULL
    BY <1>1, <1>5 DEF IInv
  <2>2. Len(ht'.hens) <= MaxEntries
    BY <1>4 DEF IInv
  <2> QED BY <1>4, <1>5, <1>6, <1>7, <1>8, <2>1, <2>2 DEF IInv
<1> QED BY <1>4, <1>9

LEMMA StepIInv == IInv /\ [Next]_vars => IInv'
<1> SUFFICES ASSUME IInv, [Next]_vars PROVE IInv'
  OBVIOUS
<1>1. ASSUME NEW k \in Keys, HInsert(k) PROVE IInv'
  BY <1>1, HInsertStep
<1>2. ASSUME NEW k \in Keys, HDelete(k) PROVE IInv'
  BY <1>2, HDeleteStep
<1>3. ASSUME NEW i \in Iters, HIterFirst(i) PROVE IInv'
  BY <1>3, HIterFirstStep
<1>4. ASSUME NEW i \in Iters, HIterNext(i) PROVE IInv'
  BY <1>4, HIterNextStep
<1>5. ASSUME NEW i \in Iters, HIterFree(i) PROVE IInv'
  BY <1>5, HIterFreeStep
<1>6. CASE UNCHANGED vars
  BY <1>6 DEF vars, IInv
<1> QED BY <1>1, <1>2, <1>3, <1>4, <1>5, <1>6 DEF Next

(* IInv is an invariant: the table is linked, every lock is an iterator's, *)
(* and every iterator has passed what it has shown and no more.            *)
THEOREM InvariantHolds == Spec => []IInv
<1> QED BY InitIInv, StepIInv, PTL DEF Spec

-----------------------------------------------------------------------------
(* What it means. *)

LEMMA Narrow ==
  ASSUME NEW s \in Seq(Nat), NEW T, \A h : Contains(s, h) => h \in T
  PROVE  s \in Seq(T)
<1>1. Len(s) \in Nat /\ s \in [1 .. Len(s) -> Nat]
  OBVIOUS
<1>2. \A n \in 1 .. Len(s) : s[n] \in T
  BY DEF Contains
<1>3. s \in [1 .. Len(s) -> T]
  BY <1>1, <1>2
<1> QED BY <1>1, <1>3

LEMMA IInvTypeOK == IInv => TypeOK
<1> SUFFICES ASSUME IInv PROVE TypeOK
  OBVIOUS
<1>0. /\ Linked(ht) /\ ht \in TableType /\ Len(ht.hens) \in Nat
      /\ Allocated = 1 .. Len(ht.hens)
      /\ \A h : On(ht, h) => h \in Allocated
  BY DEF IInv, Sound, Linked, TableType, Allocated
<1>1. ht.hens \in Seq([key : Keys, is_deleted : BOOLEAN, lock_count : Nat])
  BY <1>0 DEF TableType, HenType
<1>2. ht.buckets \in [Buckets -> Seq(Allocated)]
  <2>1. ASSUME NEW b \in Buckets PROVE ht.buckets[b] \in Seq(Allocated)
    <3>1. ht.buckets[b] \in Seq(Nat) /\ \A h : Contains(ht.buckets[b], h) => h \in Allocated
      BY <1>0 DEF Linked, TableType
    <3> QED BY <3>1, Narrow
  <2> QED BY <1>0, <2>1 DEF TableType
<1>3. ht.all_entries \in Seq(Allocated)
  <2>1. ht.all_entries \in Seq(Nat) /\ \A h : Contains(ht.all_entries, h) => h \in Allocated
    BY <1>0 DEF TableType, On
  <2> QED BY <2>1, Narrow
<1>4. ht.destroyed \in [Allocated -> Nat]
  BY <1>0 DEF Linked, TableType
<1>5. iter \in [Iters -> Allocated \union {NULL}]
  BY <1>0 DEF IInv, Sits, Sound, Counted
<1>6. began \in [Iters -> SUBSET Allocated]
  BY <1>0 DEF IInv, Walk
<1>7. visits \in [Iters -> Seq(Allocated)]
  <2>1. ASSUME NEW i \in Iters PROVE visits[i] \in Seq(Allocated)
    <3>1. visits[i] \in Seq(Nat) /\ \A h : Contains(visits[i], h) => h \in Allocated
      BY <1>0 DEF IInv, Walk
    <3> QED BY <3>1, Narrow
  <2> QED BY <2>1 DEF IInv
<1> QED BY <1>1, <1>2, <1>3, <1>4, <1>5, <1>6, <1>7 DEF TypeOK, IInv

(* The lock count of an entry is the number of iterators on it, and every  *)
(* iterator is on an entry that is still in the table.                     *)
THEOREM LocksCount == Spec => []LocksCountIterators
<1>1. IInv => LocksCountIterators
  <2> SUFFICES ASSUME IInv PROVE LocksCountIterators
    OBVIOUS
  <2>1. \A i \in Iters : iter[i] # NULL => InTable(iter[i])
    BY DEF IInv, Sound, Counted, On, InTable
  <2>2. ASSUME NEW h \in Allocated, InTable(h)
        PROVE  ht.hens[h].lock_count = Cardinality({i \in Iters : iter[i] = h})
    <3>1. On(ht, h) /\ Linked(ht)
      BY <2>2 DEF On, InTable, IInv, Sound
    <3>2. h # NULL
      BY <3>1, KeyFacts
    <3>3. ht.hens[h].lock_count = Holders(iter, NULL, h)
      BY <3>1 DEF IInv, Sound, Counted
    <3>4. Holders(iter, NULL, h) = Cardinality(Sitting(iter, h))
      BY <3>2, HoldersFacts
    <3> QED BY <3>3, <3>4 DEF Sitting
  <2> QED BY <2>1, <2>2, IInvTypeOK DEF LocksCountIterators
<1> QED BY <1>1, InvariantHolds, PTL

(* Whatever leaves the table leaves both lists, is destroyed once, and     *)
(* what stays although it is deleted has an iterator on it.                *)
THEOREM DestructorsRunOnce == Spec => []DestroyedOnce
<1>1. IInv => DestroyedOnce
  <2> SUFFICES ASSUME IInv, NEW h \in Allocated
               PROVE  /\ ht.destroyed[h] = IF InTable(h) THEN 0 ELSE 1
                      /\ Contains(ht.buckets[HIndex[ht.hens[h].key]], h) <=> InTable(h)
                      /\ InTable(h) /\ ~Live(ht, h) => \E i \in Iters : iter[i] = h
    BY DEF DestroyedOnce
  <2>0. /\ Linked(ht) /\ h \in 1 .. Len(ht.hens) /\ ht.hens[h].key \in Keys
        /\ HIndex[ht.hens[h].key] \in Buckets /\ h # NULL
    <3>1. /\ Linked(ht) /\ ht.hens \in Seq(HenType) /\ h \in 1 .. Len(ht.hens)
      BY DEF IInv, Sound, Linked, TableType, Allocated
    <3>2. ht.hens[h].key \in Keys
      <4>1. ht.hens[h] \in HenType
        BY <3>1
      <4> QED BY <4>1 DEF HenType
    <3>3. h # NULL
      BY <3>1, NullAssumption
    <3> QED BY <3>1, <3>2, <3>3, HIndexAssumption
  <2>1. ht.destroyed[h] = IF InTable(h) THEN 0 ELSE 1
    BY <2>0 DEF Linked, On, InTable
  <2>2. Contains(ht.buckets[HIndex[ht.hens[h].key]], h) <=> InTable(h)
    BY <2>0 DEF Linked, On, InTable, Keyed
  <2>3. InTable(h) /\ ~Live(ht, h) => \E i \in Iters : iter[i] = h
    BY <2>0 DEF IInv, Sound, Awaited, On, InTable
  <2> QED BY <2>1, <2>2, <2>3
<1> QED BY <1>1, InvariantHolds, PTL

(* An iterator shows nothing twice and misses nothing that stays.          *)
THEOREM IterationsAreComplete == Spec => []IterationComplete
<1>1. IInv => IterationComplete
  <2> SUFFICES ASSUME IInv, NEW i \in open
               PROVE  /\ IsInjective(visits[i])
                      /\ iter[i] = NULL =>
                           \A h \in began[i] :
                             InTable(h) /\ Live(ht, h) => Contains(visits[i], h)
    BY DEF IterationComplete
  <2>1. Walk(ht, iter[i], visits[i], began[i])
    BY DEF IInv
  <2>2. IsInjective(visits[i])
    BY <2>1 DEF Walk, Distinct, IsInjective
  <2>3. iter[i] = NULL => \A h \in began[i] : InTable(h) => Contains(visits[i], h)
    BY <2>1 DEF Walk, On, InTable
  <2> QED BY <2>2, <2>3
<1> QED BY <1>1, InvariantHolds, PTL

-----------------------------------------------------------------------------
(* The dictionary. *)

LEMMA SameEntry ==
  ASSUME NEW t, NEW u, Linked(t), Linked(u), NEW k \in Keys,
         \A g : Holds(u, k, g) <=> Holds(t, k, g)
  PROVE  HEntry(u, k) = HEntry(t, k)
<1>1. CASE HEntry(t, k) = NULL
  BY <1>1, EntryFacts
<1>2. CASE HEntry(t, k) # NULL
  <2>1. Holds(t, k, HEntry(t, k))
    BY <1>2, EntryFacts
  <2>2. Holds(u, k, HEntry(u, k))
    BY <2>1, EntryFacts
  <2> QED BY <2>1, <2>2 DEF Linked
<1> QED BY <1>1, <1>2

LEMMA FoundFacts ==
  ASSUME IInv, IInv', NEW k \in Keys,
         \A j \in Keys : j # k => HEntry(ht', j) = HEntry(ht, j)
  PROVE  Found' = [Found EXCEPT ![k] = HEntry(ht', k)]
BY DEF Found

LEMMA FoundSame ==
  ASSUME IInv, IInv', \A k, g : Holds(ht', k, g) <=> Holds(ht, k, g),
         Len(ht'.hens) = Len(ht.hens)
  PROVE  UNCHANGED D!vars
<1>1. Linked(ht) /\ Linked(ht')
  BY DEF IInv, Sound
<1>2. \A k \in Keys : HEntry(ht', k) = HEntry(ht, k)
  BY <1>1, SameEntry
<1>3. Found' = Found
  BY <1>2 DEF Found
<1>4. Allocated' = Allocated
  BY <1>1 DEF Allocated, Linked, TableType
<1> QED BY <1>3, <1>4 DEF D!vars

LEMMA InsertIsInsert ==
  ASSUME IInv, NEW k \in Keys, HInsert(k)
  PROVE  D!Next
<1> DEFINE n == Len(ht.hens)
<1>1. /\ IInv' /\ Len(ht'.hens) = n + 1
      /\ \A j, g : j # k => (Holds(ht', j, g) <=> Holds(ht, j, g))
      /\ Holds(ht', k, n + 1)
  BY HInsertStep
<1>2. Linked(ht) /\ Linked(ht') /\ n \in Nat /\ n < MaxEntries
  BY <1>1 DEF IInv, Sound, HInsert, Linked, TableType
<1>3. \A j \in Keys : j # k => HEntry(ht', j) = HEntry(ht, j)
  BY <1>1, <1>2, SameEntry
<1>4. HEntry(ht', k) = n + 1
  <2>1. Holds(ht', k, HEntry(ht', k))
    BY <1>1, <1>2, EntryFacts
  <2> QED BY <1>1, <1>2, <2>1 DEF Linked
<1>5. Found' = [Found EXCEPT ![k] = n + 1]
  BY <1>1, <1>3, <1>4, FoundFacts
<1>6. Allocated = 1 .. n /\ Allocated' = 1 .. n + 1
  BY <1>1, <1>2 DEF Allocated, Linked, TableType
<1>7. n + 1 \notin Allocated /\ Allocated' = Allocated \union {n + 1} /\ n + 1 \in Hens
  BY <1>2, <1>6, MaxEntriesAssumption DEF Hens
<1>8. D!Insert(k, n + 1)
  BY <1>5, <1>7 DEF D!Insert
<1> QED BY <1>7, <1>8 DEF D!Next

LEMMA DeleteIsDelete ==
  ASSUME IInv, NEW k \in Keys, HDelete(k)
  PROVE  D!Next
<1>1. /\ IInv' /\ Len(ht'.hens) = Len(ht.hens)
      /\ \A j, g : j # k => (Holds(ht', j, g) <=> Holds(ht, j, g))
      /\ \A g : ~Holds(ht', k, g)
  BY HDeleteStep
<1>2. Linked(ht) /\ Linked(ht')
  BY <1>1 DEF IInv, Sound
<1>3. \A j \in Keys : j # k => HEntry(ht', j) = HEntry(ht, j)
  BY <1>1, <1>2, SameEntry
<1>4. HEntry(ht', k) = NULL
  BY <1>1, <1>2, EntryFacts
<1>5. Found' = [Found EXCEPT ![k] = NULL]
  BY <1>1, <1>3, <1>4, FoundFacts
<1>6. Allocated' = Allocated
  BY <1>1, <1>2 DEF Allocated, Linked, TableType
<1>7. Found[k] # NULL
  BY DEF Found, HDelete
<1> QED BY <1>5, <1>6, <1>7 DEF D!Next, D!Delete

(* Whoever looks keys up sees the dictionary: every call of the hash table *)
(* is a step of Dict on what hfind returns, or changes nothing for it.     *)
THEOREM TableIsADictionary == Spec => ImplementsDict
<1>1. Init => D!Init
  <2> SUFFICES ASSUME Init PROVE D!Init
    OBVIOUS
  <2>1. Linked(ht) /\ ht.all_entries = <<>> /\ ht.hens = <<>>
    BY InitIInv DEF Init, IInv, Sound
  <2>2. \A k, h : ~Holds(ht, k, h)
    BY <2>1 DEF Holds, On, Contains
  <2>3. \A k \in Keys : HEntry(ht, k) = NULL
    BY <2>1, <2>2, EntryFacts
  <2>4. Found = [k \in Keys |-> NULL]
    BY <2>3 DEF Found
  <2>5. Allocated = {}
    BY <2>1 DEF Allocated
  <2> QED BY <2>4, <2>5 DEF D!Init
<1>2. IInv /\ [Next]_vars => [D!Next]_D!vars
  <2> SUFFICES ASSUME IInv, [Next]_vars PROVE [D!Next]_D!vars
    OBVIOUS
  <2>1. ASSUME NEW k \in Keys, HInsert(k) PROVE D!Next
    BY <2>1, InsertIsInsert
  <2>2. ASSUME NEW k \in Keys, HDelete(k) PROVE D!Next
    BY <2>2, DeleteIsDelete
  <2>3. ASSUME NEW i \in Iters, HIterFirst(i) PROVE UNCHANGED D!vars
    BY <2>3, HIterFirstStep, FoundSame
  <2>4. ASSUME NEW i \in Iters, HIterNext(i) PROVE UNCHANGED D!vars
    BY <2>4, HIterNextStep, FoundSame
  <2>5. ASSUME NEW i \in Iters, HIterFree(i) PROVE UNCHANGED D!vars
    BY <2>5, HIterFreeStep, FoundSame
  <2>6. CASE UNCHANGED vars
    <3>1. Found' = Found /\ Allocated' = Allocated
      BY <2>6 DEF vars, Found, Allocated, HEntry, Live
    <3> QED BY <3>1 DEF D!vars
  <2> QED BY <2>1, <2>2, <2>3, <2>4, <2>5, <2>6 DEF Next
<1> QED BY <1>1, <1>2, InvariantHolds, PTL DEF Spec, ImplementsDict, D!Spec
=============================================================================
