-------------------------- MODULE ModuleListProofs --------------------------
(* Proofs about ModuleList, for every set of modules and every chunk size: the
   chunked list is sorted and has one copy of each module in it, and what is looked
   up or removed by a binary search over it is found.

   The inductive invariant, Good, is what the searches rest on: no chunk is empty
   or longer than the limit, no module is in the list twice, and the starts ascend
   within every chunk and from each to the next. Add and remove replace a chunk,
   split it in two, or insert or drop one, and each of these is a lemma about
   sequences of chunks that keeps Good and says which modules are in the list
   afterwards. What the two-level search may return is given by SearchIs and
   PlaceIs: one of the modules that start at the address, or a place with all that
   comes before it below the address and all that comes after above. *)
EXTENDS ModuleList, FiniteSetTheorems, WellFoundedInduction, TLAPS

-----------------------------------------------------------------------------
(* Sequences                                                               *)

LEMMA Concat ==
  ASSUME NEW S, NEW a \in Seq(S), NEW b \in Seq(S)
  PROVE  /\ a \o b \in Seq(S) /\ Len(a \o b) = Len(a) + Len(b)
         /\ \A i \in 1 .. Len(a) + Len(b) : (a \o b)[i] = IF i <= Len(a) THEN a[i] ELSE b[i - Len(a)]
OBVIOUS

(* t is s with e inserted at k; t is s without its element at k. *)
Inserted(t, s, k, e) ==
  \A i \in 1 .. Len(s) + 1 : t[i] = IF i < k THEN s[i] ELSE IF i = k THEN e ELSE s[i - 1]
Removed(t, s, k) == \A i \in 1 .. Len(s) - 1 : t[i] = IF i < k THEN s[i] ELSE s[i + 1]

LEMMA InsertAtProperties ==
  ASSUME NEW S, NEW s \in Seq(S), NEW k \in 1 .. Len(s) + 1, NEW e \in S
  PROVE  /\ InsertAt(s, k, e) \in Seq(S) /\ Len(InsertAt(s, k, e)) = Len(s) + 1
         /\ Inserted(InsertAt(s, k, e), s, k, e)
<1> DEFINE a == SubSeq(s, 1, k - 1)
           b == SubSeq(s, k, Len(s))
<1>1. /\ a \in Seq(S) /\ Len(a) = k - 1 /\ \A i \in 1 .. k - 1 : a[i] = s[i]
      /\ b \in Seq(S) /\ Len(b) = Len(s) + 1 - k /\ \A i \in 1 .. Len(s) + 1 - k : b[i] = s[k + i - 1]
  OBVIOUS
<1>2. InsertAt(s, k, e) = (a \o <<e>>) \o b
  BY DEF InsertAt
<1> HIDE DEF a, b
<1>3. /\ a \o <<e>> \in Seq(S) /\ Len(a \o <<e>>) = k
      /\ \A i \in 1 .. k : (a \o <<e>>)[i] = IF i < k THEN s[i] ELSE e
  <2>1. <<e>> \in Seq(S) /\ Len(<<e>>) = 1 /\ <<e>>[1] = e
    OBVIOUS
  <2> HIDE DEF a
  <2> QED
    BY <1>1, <2>1, Concat
<1> DEFINE ae == a \o <<e>>
<1> HIDE DEF ae
<1>4. /\ ae \o b \in Seq(S) /\ Len(ae \o b) = Len(ae) + Len(b)
      /\ \A i \in 1 .. Len(ae) + Len(b) : (ae \o b)[i] = IF i <= Len(ae) THEN ae[i] ELSE b[i - Len(ae)]
  BY <1>1, <1>3, Concat DEF ae
<1>5. ae \in Seq(S) /\ Len(ae) = k /\ \A i \in 1 .. k : ae[i] = IF i < k THEN s[i] ELSE e
  BY <1>3 DEF ae
<1>6. InsertAt(s, k, e) = ae \o b
  BY <1>2 DEF ae
<1>7. ASSUME NEW i \in 1 .. Len(s) + 1
      PROVE  (ae \o b)[i] = IF i < k THEN s[i] ELSE IF i = k THEN e ELSE s[i - 1]
  <2>1. Len(s) \in Nat /\ Len(ae) + Len(b) = Len(s) + 1
    BY <1>1, <1>5
  <2>2. CASE i <= k
    BY <1>4, <1>5, <2>1, <2>2
  <2>3. CASE i > k
    <3> DEFINE j == i - k
    <3>1. j \in 1 .. Len(s) + 1 - k /\ k + j - 1 = i - 1
      BY <2>1, <2>3
    <3>2. (ae \o b)[i] = b[j]
      BY <1>4, <1>5, <2>1, <2>3
    <3> HIDE DEF j
    <3>3. b[j] = s[i - 1]
      BY <1>1, <3>1
    <3> QED
      BY <2>3, <3>2, <3>3
  <2>4. i <= k \/ i > k
    OBVIOUS
  <2> QED
    BY <2>2, <2>3, <2>4
<1>8. Len(ae \o b) = Len(s) + 1
  BY <1>1, <1>4, <1>5
<1> QED
  BY <1>4, <1>6, <1>7, <1>8 DEF Inserted

LEMMA RemoveAtProperties ==
  ASSUME NEW S, NEW s \in Seq(S), NEW k \in 1 .. Len(s)
  PROVE  /\ RemoveAt(s, k) \in Seq(S) /\ Len(RemoveAt(s, k)) = Len(s) - 1
         /\ Removed(RemoveAt(s, k), s, k)
<1> DEFINE a == SubSeq(s, 1, k - 1)
           b == SubSeq(s, k + 1, Len(s))
<1>1. /\ a \in Seq(S) /\ Len(a) = k - 1 /\ \A i \in 1 .. k - 1 : a[i] = s[i]
      /\ b \in Seq(S) /\ Len(b) = Len(s) - k /\ \A i \in 1 .. Len(s) - k : b[i] = s[k + i]
  OBVIOUS
<1>2. RemoveAt(s, k) = a \o b
  BY DEF RemoveAt
<1> HIDE DEF a, b
<1>3. /\ a \o b \in Seq(S) /\ Len(a \o b) = Len(a) + Len(b)
      /\ \A i \in 1 .. Len(a) + Len(b) : (a \o b)[i] = IF i <= Len(a) THEN a[i] ELSE b[i - Len(a)]
  <2>1. a \in Seq(S) /\ b \in Seq(S)
    BY <1>1
  <2> QED
    BY <2>1, Concat
<1>4. Len(s) \in Nat /\ Len(a) + Len(b) = Len(s) - 1
  BY <1>1
<1>5. ASSUME NEW i \in 1 .. Len(s) - 1 PROVE (a \o b)[i] = IF i < k THEN s[i] ELSE s[i + 1]
  <2>1. CASE i < k
    BY <1>1, <1>3, <1>4, <2>1
  <2>2. CASE i >= k
    <3> DEFINE j == i - (k - 1)
    <3>1. j \in 1 .. Len(s) - k /\ k + j = i + 1
      BY <1>4, <2>2
    <3>2. (a \o b)[i] = b[j]
      BY <1>1, <1>3, <1>4, <2>2
    <3> HIDE DEF j
    <3>3. b[j] = s[i + 1]
      BY <1>1, <3>1
    <3> QED
      BY <2>2, <3>2, <3>3
  <2>3. i < k \/ i >= k
    OBVIOUS
  <2> QED
    BY <2>1, <2>2, <2>3
<1> QED
  BY <1>2, <1>3, <1>4, <1>5 DEF Removed
-----------------------------------------------------------------------------
(* Chunks                                                                  *)

Asc(s) == \A i, j \in DOMAIN s : i < j => s[i].start <= s[j].start

LEMMA InsertChunk ==
  ASSUME NEW s \in Seq(Modules), Asc(s), IsInjective(s),
         NEW m \in Modules, m \notin ToSet(s), NEW k \in 1 .. Len(s) + 1,
         \A i \in 1 .. Len(s) : IF i < k THEN s[i].start <= m.start ELSE m.start <= s[i].start
  PROVE  LET t == InsertAt(s, k, m)
         IN  /\ t \in Seq(Modules) /\ Len(t) = Len(s) + 1 /\ Asc(t) /\ IsInjective(t)
             /\ ToSet(t) = ToSet(s) \cup {m}
<1> DEFINE t == InsertAt(s, k, m)
<1>0. t \in Seq(Modules) /\ Len(t) = Len(s) + 1 /\ Inserted(t, s, k, m)
  BY InsertAtProperties
<1>1. /\ t \in Seq(Modules) /\ Len(t) = Len(s) + 1
      /\ \A i \in 1 .. Len(s) + 1 : t[i] = IF i < k THEN s[i] ELSE IF i = k THEN m ELSE s[i - 1]
  BY <1>0 DEF Inserted
<1> HIDE DEF t
<1>2. DOMAIN s = 1 .. Len(s) /\ DOMAIN t = 1 .. Len(s) + 1 /\ Len(s) \in Nat
  BY <1>1
<1>3. \A i \in 1 .. Len(s) : s[i] \in Modules /\ s[i].start \in Nat /\ s[i] # m
  <2>1. \A x \in Modules : x.start \in Nat
    BY ListAssumption
  <2>2. \A i \in 1 .. Len(s) : s[i] # m
    BY <1>2 DEF ToSet
  <2> QED
    BY <1>2, <2>1, <2>2
<1>4. Asc(t)
  <2> SUFFICES ASSUME NEW i \in 1 .. Len(s) + 1, NEW j \in 1 .. Len(s) + 1, i < j
               PROVE  t[i].start <= t[j].start
    BY <1>2 DEF Asc
  <2>0. \A x, y \in 1 .. Len(s) : x < y => s[x].start <= s[y].start
    BY <1>2 DEF Asc
  <2>1. CASE j < k
    <3>1. t[i] = s[i] /\ t[j] = s[j] /\ i \in 1 .. Len(s) /\ j \in 1 .. Len(s)
      BY <1>1, <1>2, <2>1
    <3> QED
      BY <2>0, <3>1
  <2>2. CASE j = k
    BY <1>1, <2>2
  <2>3. CASE j > k /\ i < k
    <3>1. t[i] = s[i] /\ t[j] = s[j - 1] /\ i \in 1 .. Len(s) /\ j - 1 \in 1 .. Len(s) /\ j - 1 >= k
      BY <1>1, <1>2, <2>3
    <3>2. m.start \in Nat
      BY ListAssumption
    <3> QED
      BY <1>3, <2>3, <3>1, <3>2
  <2>4. CASE j > k /\ i = k
    <3>1. t[i] = m /\ t[j] = s[j - 1] /\ j - 1 \in 1 .. Len(s) /\ ~(j - 1 < k)
      BY <1>1, <1>2, <2>4
    <3> QED
      BY <3>1
  <2>5. CASE i > k
    <3>1. t[i] = s[i - 1] /\ t[j] = s[j - 1] /\ i - 1 \in 1 .. Len(s) /\ j - 1 \in 1 .. Len(s) /\ i - 1 < j - 1
      BY <1>1, <1>2, <2>5
    <3> QED
      BY <2>0, <3>1
  <2> QED
    BY <2>1, <2>2, <2>3, <2>4, <2>5
<1>5. IsInjective(t)
  <2> SUFFICES ASSUME NEW i \in 1 .. Len(s) + 1, NEW j \in 1 .. Len(s) + 1, i < j, t[i] = t[j]
               PROVE  FALSE
    BY <1>2 DEF IsInjective
  <2>0. \A x, y \in 1 .. Len(s) : s[x] = s[y] => x = y
    BY <1>2 DEF IsInjective
  <2>1. CASE i = k \/ j = k
    BY <1>1, <1>2, <1>3, <2>1
  <2>2. CASE i < k /\ j < k
    BY <1>1, <2>0, <2>2
  <2>3. CASE i < k /\ j > k
    <3>1. t[i] = s[i] /\ t[j] = s[j - 1] /\ i \in 1 .. Len(s) /\ j - 1 \in 1 .. Len(s) /\ i # j - 1
      BY <1>1, <1>2, <2>3
    <3> QED
      BY <2>0, <3>1
  <2>4. CASE i > k
    <3>1. t[i] = s[i - 1] /\ t[j] = s[j - 1] /\ i - 1 \in 1 .. Len(s) /\ j - 1 \in 1 .. Len(s) /\ i - 1 # j - 1
      BY <1>1, <1>2, <2>4
    <3> QED
      BY <2>0, <3>1
  <2> QED
    BY <2>1, <2>2, <2>3, <2>4
<1>6. ToSet(t) = ToSet(s) \cup {m}
  <2>0. /\ \A x : x \in ToSet(t) <=> \E i \in 1 .. Len(s) + 1 : x = t[i]
        /\ \A x : x \in ToSet(s) <=> \E i \in 1 .. Len(s) : x = s[i]
    BY <1>2 DEF ToSet
  <2>1. ASSUME NEW i \in 1 .. Len(s) + 1 PROVE t[i] \in ToSet(s) \cup {m}
    <3>1. CASE i < k
      BY <1>1, <2>0, <3>1
    <3>2. CASE i > k
      <4>1. i - 1 \in 1 .. Len(s) /\ t[i] = s[i - 1]
        BY <1>1, <1>2, <3>2
      <4> QED
        BY <2>0, <4>1
    <3> QED
      BY <1>1, <3>1, <3>2
  <2>2. ASSUME NEW i \in 1 .. Len(s) PROVE s[i] \in ToSet(t)
    <3>1. CASE i < k
      BY <1>1, <1>2, <2>0, <3>1
    <3>2. CASE i >= k
      <4>1. i + 1 \in 1 .. Len(s) + 1 /\ t[i + 1] = s[i]
        BY <1>1, <1>2, <3>2
      <4> QED
        BY <2>0, <4>1
    <3> QED
      BY <3>1, <3>2
  <2>3. m \in ToSet(t)
    BY <1>1, <2>0
  <2> QED
    BY <2>0, <2>1, <2>2, <2>3
<1> QED
  BY <1>1, <1>4, <1>5, <1>6 DEF t

-----------------------------------------------------------------------------
LEMMA ToSetIs ==
  ASSUME NEW S, NEW s \in Seq(S)
  PROVE  /\ \A x : x \in ToSet(s) <=> \E i \in 1 .. Len(s) : x = s[i]
         /\ \A i \in 1 .. Len(s) : s[i] \in ToSet(s)
         /\ DOMAIN s = 1 .. Len(s) /\ Len(s) \in Nat /\ ToSet(s) \in SUBSET S
BY DEF ToSet

(* A chunk whose modules are some of another's, in the same order. *)
LEMMA PartOfChunk ==
  ASSUME NEW s \in Seq(Modules), Asc(s), IsInjective(s), NEW t \in Seq(Modules),
         NEW f \in [1 .. Len(t) -> 1 .. Len(s)], \A i \in 1 .. Len(t) : t[i] = s[f[i]],
         \A i, j \in 1 .. Len(t) : i < j => f[i] < f[j]
  PROVE  Asc(t) /\ IsInjective(t)
<1>1. DOMAIN s = 1 .. Len(s) /\ DOMAIN t = 1 .. Len(t)
  OBVIOUS
<1>2. Asc(t)
  BY <1>1 DEF Asc
<1>3. IsInjective(t)
  <2> SUFFICES ASSUME NEW i \in 1 .. Len(t), NEW j \in 1 .. Len(t), i < j, t[i] = t[j] PROVE FALSE
    BY <1>1 DEF IsInjective
  <2>1. f[i] = f[j]
    BY <1>1 DEF IsInjective
  <2> QED
    BY <2>1
<1> QED
  BY <1>2, <1>3

LEMMA RemoveChunk ==
  ASSUME NEW s \in Seq(Modules), Asc(s), IsInjective(s), NEW k \in 1 .. Len(s)
  PROVE  /\ RemoveAt(s, k) \in Seq(Modules) /\ Len(RemoveAt(s, k)) = Len(s) - 1
         /\ Asc(RemoveAt(s, k)) /\ IsInjective(RemoveAt(s, k))
         /\ ToSet(RemoveAt(s, k)) = ToSet(s) \ {s[k]}
<1> DEFINE t == RemoveAt(s, k)
           f == [i \in 1 .. Len(s) - 1 |-> IF i < k THEN i ELSE i + 1]
<1>0. t \in Seq(Modules) /\ Len(t) = Len(s) - 1 /\ Removed(t, s, k)
  BY RemoveAtProperties
<1>1. /\ t \in Seq(Modules) /\ Len(t) = Len(s) - 1
      /\ \A i \in 1 .. Len(s) - 1 : t[i] = IF i < k THEN s[i] ELSE s[i + 1]
  BY <1>0 DEF Removed
<1> HIDE DEF t
<1>2. /\ f \in [1 .. Len(t) -> 1 .. Len(s)]
      /\ \A i \in 1 .. Len(t) : t[i] = s[f[i]]
      /\ \A i, j \in 1 .. Len(t) : i < j => f[i] < f[j]
  BY <1>1
<1>3. /\ \A i \in 1 .. Len(t) : f[i] # k
      /\ \A i \in 1 .. Len(s) : i # k => \E j \in 1 .. Len(t) : f[j] = i
  <2>1. ASSUME NEW i \in 1 .. Len(s), i # k PROVE \E j \in 1 .. Len(t) : f[j] = i
    <3>1. CASE i < k
      <4>1. i \in 1 .. Len(t) /\ f[i] = i
        BY <1>1, <3>1
      <4> QED
        BY <4>1
    <3>2. CASE i > k
      <4>1. i - 1 \in 1 .. Len(t) /\ f[i - 1] = i
        BY <1>1, <3>2
      <4> QED
        BY <4>1
    <3>3. i < k \/ i > k
      BY <2>1
    <3> QED
      BY <3>1, <3>2, <3>3
  <2> QED
    BY <1>1, <2>1
<1> HIDE DEF f
<1>4. Asc(t) /\ IsInjective(t)
  BY <1>1, <1>2, PartOfChunk
<1>5. \A i, j \in 1 .. Len(s) : s[i] = s[j] => i = j
  BY DEF IsInjective
<1>6. ASSUME NEW x \in ToSet(t) PROVE x \in ToSet(s) \ {s[k]}
  <2>1. PICK i \in 1 .. Len(t) : x = t[i]
    BY <1>1, ToSetIs
  <2> QED
    BY <1>2, <1>3, <1>5, <2>1, ToSetIs
<1>7. ASSUME NEW x \in ToSet(s) \ {s[k]} PROVE x \in ToSet(t)
  <2>1. PICK i \in 1 .. Len(s) : x = s[i]
    BY ToSetIs
  <2>2. PICK j \in 1 .. Len(t) : f[j] = i
    BY <1>3, <2>1
  <2>3. x = t[j]
    BY <1>2, <2>1, <2>2
  <2> QED
    BY <1>1, <2>3, ToSetIs
<1> QED
  BY <1>1, <1>4, <1>6, <1>7 DEF t

(* Every module of s starts at or before every module of t, and none is in both. *)
Apart(s, t) == \A x \in ToSet(s), y \in ToSet(t) : x # y /\ x.start <= y.start

LEMMA HalfChunk ==
  ASSUME NEW s \in Seq(Modules), Asc(s), IsInjective(s), NEW n \in 1 .. Len(s)
  PROVE  LET a == SubSeq(s, 1, n)
             b == SubSeq(s, n + 1, Len(s))
         IN  /\ a \in Seq(Modules) /\ Len(a) = n /\ Asc(a) /\ IsInjective(a)
             /\ b \in Seq(Modules) /\ Len(b) = Len(s) - n /\ Asc(b) /\ IsInjective(b)
             /\ ToSet(s) = ToSet(a) \cup ToSet(b) /\ Apart(a, b)
<1> DEFINE a == SubSeq(s, 1, n)
           b == SubSeq(s, n + 1, Len(s))
           f == [i \in 1 .. n |-> i]
           g == [i \in 1 .. Len(s) - n |-> n + i]
<1>1. /\ a \in Seq(Modules) /\ Len(a) = n /\ \A i \in 1 .. n : a[i] = s[i]
      /\ b \in Seq(Modules) /\ Len(b) = Len(s) - n /\ \A i \in 1 .. Len(s) - n : b[i] = s[n + i]
  OBVIOUS
<1> HIDE DEF a, b
<1>2. /\ f \in [1 .. Len(a) -> 1 .. Len(s)] /\ \A i \in 1 .. Len(a) : a[i] = s[f[i]]
      /\ \A i, j \in 1 .. Len(a) : i < j => f[i] < f[j]
  BY <1>1
<1>3. /\ g \in [1 .. Len(b) -> 1 .. Len(s)] /\ \A i \in 1 .. Len(b) : b[i] = s[g[i]]
      /\ \A i, j \in 1 .. Len(b) : i < j => g[i] < g[j]
  BY <1>1
<1> HIDE DEF f, g
<1>4. Asc(a) /\ IsInjective(a) /\ Asc(b) /\ IsInjective(b)
  BY <1>1, <1>2, <1>3, PartOfChunk
<1>0. /\ \A x : x \in ToSet(a) <=> \E i \in 1 .. Len(a) : x = a[i]
      /\ \A x : x \in ToSet(b) <=> \E i \in 1 .. Len(b) : x = b[i]
      /\ Len(s) \in Nat
  BY <1>1, ToSetIs
<1>5. \A x : x \in ToSet(a) <=> \E i \in 1 .. n : x = s[i]
  <2>1. Len(a) = n /\ \A i \in 1 .. n : a[i] = s[i]
    BY <1>1
  <2>2. \A x : x \in ToSet(a) <=> \E i \in 1 .. Len(a) : x = a[i]
    BY <1>0
  <2> QED
    BY <2>1, <2>2, Zenon
<1>6. \A x : x \in ToSet(b) <=> \E i \in n + 1 .. Len(s) : x = s[i]
  <2>1. ASSUME NEW x \in ToSet(b) PROVE \E i \in n + 1 .. Len(s) : x = s[i]
    <3>1. PICK i \in 1 .. Len(s) - n : x = b[i]
      BY <1>0, <1>1
    <3>2. n + i \in n + 1 .. Len(s) /\ x = s[n + i]
      BY <1>1, <3>1
    <3> QED
      BY <3>2
  <2>2. ASSUME NEW i \in n + 1 .. Len(s) PROVE s[i] \in ToSet(b)
    <3>1. i - n \in 1 .. Len(s) - n /\ n + (i - n) = i
      BY <1>0
    <3>2. b[i - n] = s[i]
      BY <1>1, <3>1
    <3> QED
      BY <1>0, <1>1, <3>1, <3>2
  <2> QED
    BY <2>1, <2>2
<1>7. ToSet(s) = ToSet(a) \cup ToSet(b)
  <2>1. \A x \in ToSet(s) : x \in ToSet(a) \cup ToSet(b)
    <3> TAKE x \in ToSet(s)
    <3>1. PICK i \in 1 .. Len(s) : x = s[i]
      BY ToSetIs
    <3>2. i \in 1 .. n \/ i \in n + 1 .. Len(s)
      OBVIOUS
    <3> QED
      BY <1>5, <1>6, <3>1, <3>2
  <2>2. \A i \in 1 .. n : i \in 1 .. Len(s)
    OBVIOUS
  <2>3. \A i \in n + 1 .. Len(s) : i \in 1 .. Len(s)
    OBVIOUS
  <2> QED
    BY <1>5, <1>6, <2>1, <2>2, <2>3, ToSetIs
<1>8. Apart(a, b)
  <2> SUFFICES ASSUME NEW i \in 1 .. n, NEW j \in n + 1 .. Len(s)
               PROVE  s[i] # s[j] /\ s[i].start <= s[j].start
    BY <1>5, <1>6 DEF Apart
  <2>1. i \in DOMAIN s /\ j \in DOMAIN s /\ i < j
    OBVIOUS
  <2> QED
    BY <2>1 DEF Asc, IsInjective
<1> QED
  BY <1>1, <1>4, <1>7, <1>8 DEF a, b

-----------------------------------------------------------------------------
(* Lists of chunks                                                         *)

ChunkOK(s) ==
  /\ s \in Seq(Modules) /\ Len(s) \in 1 .. 2 * MODULE_CHUNK
  /\ Asc(s) /\ IsInjective(s)

Good(cs) ==
  /\ cs \in Seq(Seq(Modules))
  /\ \A c \in 1 .. Len(cs) : ChunkOK(cs[c])
  /\ \A c, d \in 1 .. Len(cs) : c < d => Apart(cs[c], cs[d])

All(cs) == UNION {ToSet(cs[c]) : c \in DOMAIN cs}

LEMMA AllIs ==
  ASSUME NEW cs \in Seq(Seq(Modules))
  PROVE  \A x : x \in All(cs) <=> \E c \in 1 .. Len(cs) : x \in ToSet(cs[c])
<1>1. DOMAIN cs = 1 .. Len(cs)
  OBVIOUS
<1> QED
  BY <1>1, Zenon DEF All

LEMMA ReplaceChunk ==
  ASSUME NEW cs, Good(cs), NEW c \in 1 .. Len(cs), NEW t, ChunkOK(t),
         \A d \in 1 .. Len(cs) : (d < c => Apart(cs[d], t)) /\ (d > c => Apart(t, cs[d]))
  PROVE  /\ Good([cs EXCEPT ![c] = t]) /\ Len([cs EXCEPT ![c] = t]) = Len(cs)
         /\ \A d \in 1 .. Len(cs) : [cs EXCEPT ![c] = t][d] = IF d = c THEN t ELSE cs[d]
         /\ \A x : x \in All([cs EXCEPT ![c] = t])
                     <=> x \in ToSet(t) \/ \E d \in 1 .. Len(cs) : d # c /\ x \in ToSet(cs[d])
<1> DEFINE ds == [cs EXCEPT ![c] = t]
<1>1. cs \in Seq(Seq(Modules)) /\ t \in Seq(Modules)
  BY DEF Good, ChunkOK
<1>2. /\ ds \in Seq(Seq(Modules)) /\ Len(ds) = Len(cs)
      /\ \A d \in 1 .. Len(cs) : ds[d] = IF d = c THEN t ELSE cs[d]
  BY <1>1
<1> HIDE DEF ds
<1>3. Good(ds)
  <2>1. \A d \in 1 .. Len(ds) : ChunkOK(ds[d])
    BY <1>2 DEF Good
  <2>2. ASSUME NEW d \in 1 .. Len(ds), NEW e \in 1 .. Len(ds), d < e PROVE Apart(ds[d], ds[e])
    <3>0. \A x, y \in 1 .. Len(cs) : x < y => Apart(cs[x], cs[y])
      BY DEF Good
    <3>1. CASE d = c
      BY <1>2, <2>2, <3>1
    <3>2. CASE e = c
      BY <1>2, <2>2, <3>2
    <3>3. CASE d # c /\ e # c
      BY <1>2, <2>2, <3>0, <3>3
    <3> QED
      BY <3>1, <3>2, <3>3
  <2> QED
    BY <1>2, <2>1, <2>2 DEF Good
<1>4. \A x : x \in All(ds) <=> \E d \in 1 .. Len(cs) : x \in ToSet(ds[d])
  BY <1>2, AllIs
<1>5. \A x : x \in All(ds) <=> x \in ToSet(t) \/ \E d \in 1 .. Len(cs) : d # c /\ x \in ToSet(cs[d])
  BY <1>2, <1>4
<1> QED
  BY <1>2, <1>3, <1>5 DEF ds

LEMMA InsertAtList ==
  ASSUME NEW cs \in Seq(Seq(Modules)), NEW k \in 1 .. Len(cs) + 1, NEW t \in Seq(Modules)
  PROVE  /\ InsertAt(cs, k, t) \in Seq(Seq(Modules)) /\ Len(InsertAt(cs, k, t)) = Len(cs) + 1
         /\ Inserted(InsertAt(cs, k, t), cs, k, t)
BY InsertAtProperties

LEMMA InsertIntoList ==
  ASSUME NEW cs, Good(cs), NEW k \in 1 .. Len(cs) + 1, NEW t, ChunkOK(t),
         \A d \in 1 .. Len(cs) : IF d < k THEN Apart(cs[d], t) ELSE Apart(t, cs[d])
  PROVE  Good(InsertAt(cs, k, t)) /\ All(InsertAt(cs, k, t)) = All(cs) \cup ToSet(t)
<1> DEFINE ds == InsertAt(cs, k, t)
<1>0. cs \in Seq(Seq(Modules)) /\ t \in Seq(Modules) /\ Len(cs) \in Nat
  BY DEF Good, ChunkOK
<1>1. /\ ds \in Seq(Seq(Modules)) /\ Len(ds) = Len(cs) + 1
      /\ \A d \in 1 .. Len(cs) + 1 : ds[d] = IF d < k THEN cs[d] ELSE IF d = k THEN t ELSE cs[d - 1]
  <2>1. ds \in Seq(Seq(Modules)) /\ Len(ds) = Len(cs) + 1 /\ Inserted(ds, cs, k, t)
    BY <1>0, InsertAtList
  <2> HIDE DEF ds
  <2> QED
    BY <2>1 DEF Inserted
<1> HIDE DEF ds
<1>2. ASSUME NEW d \in 1 .. Len(ds)
      PROVE  \/ d < k /\ d \in 1 .. Len(cs) /\ ds[d] = cs[d]
             \/ d = k /\ ds[d] = t
             \/ d > k /\ d - 1 \in 1 .. Len(cs) /\ d - 1 >= k /\ ds[d] = cs[d - 1]
  <2>1. CASE d < k
    BY <1>0, <1>1, <2>1
  <2>2. CASE d = k
    BY <1>0, <1>1, <2>2
  <2>3. CASE d > k
    BY <1>0, <1>1, <2>3
  <2> QED
    BY <2>1, <2>2, <2>3
<1>3. \A d \in 1 .. Len(ds) : ChunkOK(ds[d])
  BY <1>2 DEF Good
<1>4. ASSUME NEW d \in 1 .. Len(ds), NEW e \in 1 .. Len(ds), d < e PROVE Apart(ds[d], ds[e])
  <2>0. \A x, y \in 1 .. Len(cs) : x < y => Apart(cs[x], cs[y])
    BY DEF Good
  <2>1. CASE d < k /\ e < k
    BY <1>2, <1>4, <2>0, <2>1
  <2>2. CASE d < k /\ e = k
    BY <1>2, <2>2
  <2>3. CASE d < k /\ e > k
    <3>1. d \in 1 .. Len(cs) /\ e - 1 \in 1 .. Len(cs) /\ d < e - 1 /\ ds[d] = cs[d] /\ ds[e] = cs[e - 1]
      BY <1>2, <2>3
    <3> QED
      BY <2>0, <3>1
  <2>4. CASE d = k /\ e > k
    <3>1. e - 1 \in 1 .. Len(cs) /\ ~(e - 1 < k) /\ ds[e] = cs[e - 1] /\ ds[d] = t
      BY <1>2, <2>4
    <3> QED
      BY <3>1
  <2>5. CASE d > k /\ e > k
    <3>1. d - 1 \in 1 .. Len(cs) /\ e - 1 \in 1 .. Len(cs) /\ d - 1 < e - 1
          /\ ds[d] = cs[d - 1] /\ ds[e] = cs[e - 1]
      BY <1>2, <1>4, <2>5
    <3> QED
      BY <2>0, <3>1
  <2> QED
    BY <1>4, <2>1, <2>2, <2>3, <2>4, <2>5
<1>5. ASSUME NEW x \in All(ds) PROVE x \in All(cs) \cup ToSet(t)
  <2>1. PICK d \in 1 .. Len(ds) : x \in ToSet(ds[d])
    BY <1>1, AllIs
  <2> QED
    BY <1>0, <1>2, <2>1, AllIs
<1>6. ASSUME NEW x \in All(cs) PROVE x \in All(ds)
  <2>1. PICK d \in 1 .. Len(cs) : x \in ToSet(cs[d])
    BY <1>0, AllIs
  <2>2. CASE d < k
    <3>1. d \in 1 .. Len(ds) /\ ds[d] = cs[d]
      BY <1>0, <1>1, <2>2
    <3> QED
      BY <1>1, <2>1, <3>1, AllIs
  <2>3. CASE d >= k
    <3>1. d + 1 \in 1 .. Len(ds) /\ d + 1 > k /\ (d + 1) - 1 = d
      BY <1>0, <1>1, <2>3
    <3>2. ds[d + 1] = cs[d]
      BY <1>2, <3>1
    <3> QED
      BY <1>1, <2>1, <3>1, <3>2, AllIs
  <2> QED
    BY <2>2, <2>3
<1>7. ToSet(t) \subseteq All(ds)
  <2>1. k \in 1 .. Len(ds) /\ ds[k] = t
    BY <1>0, <1>1
  <2> QED
    BY <1>1, <2>1, AllIs
<1> QED
  BY <1>1, <1>3, <1>4, <1>5, <1>6, <1>7 DEF ds, Good

LEMMA DropChunk ==
  ASSUME NEW cs, Good(cs), NEW k \in 1 .. Len(cs)
  PROVE  /\ Good(RemoveAt(cs, k))
         /\ \A x : x \in All(RemoveAt(cs, k)) <=> \E d \in 1 .. Len(cs) : d # k /\ x \in ToSet(cs[d])
<1> DEFINE ds == RemoveAt(cs, k)
           f == [d \in 1 .. Len(cs) - 1 |-> IF d < k THEN d ELSE d + 1]
<1>0. cs \in Seq(Seq(Modules)) /\ Len(cs) \in Nat
  BY DEF Good
<1>1. /\ ds \in Seq(Seq(Modules)) /\ Len(ds) = Len(cs) - 1
      /\ \A d \in 1 .. Len(cs) - 1 : ds[d] = IF d < k THEN cs[d] ELSE cs[d + 1]
  BY <1>0, RemoveAtProperties DEF Removed
<1> HIDE DEF ds
<1>2. /\ \A d \in 1 .. Len(ds) : f[d] \in 1 .. Len(cs) /\ f[d] # k /\ ds[d] = cs[f[d]]
      /\ \A d, e \in 1 .. Len(ds) : d < e => f[d] < f[e]
  <2>1. \A d \in 1 .. Len(ds) : f[d] = IF d < k THEN d ELSE d + 1
    BY <1>1
  <2> HIDE DEF f
  <2>2. ASSUME NEW d \in 1 .. Len(ds) PROVE f[d] \in 1 .. Len(cs) /\ f[d] # k /\ ds[d] = cs[f[d]]
    <3>1. CASE d < k
      <4>1. f[d] = d
        BY <2>1, <3>1
      <4>2. d \in 1 .. Len(cs) - 1
        BY <1>1
      <4>3. ds[d] = cs[d]
        BY <1>1, <3>1, <4>2
      <4>4. d \in 1 .. Len(cs) /\ d # k
        BY <1>0, <3>1, <4>2
      <4> QED
        BY <4>1, <4>3, <4>4
    <3>2. CASE d >= k
      <4>1. d \in 1 .. Len(cs) - 1 /\ ~(d < k)
        BY <1>1, <3>2
      <4>2. f[d] = d + 1
        BY <2>1, <4>1
      <4>3. ds[d] = cs[d + 1]
        BY <1>1, <4>1
      <4>4. d + 1 \in 1 .. Len(cs) /\ d + 1 # k
        BY <1>0, <3>2, <4>1
      <4> QED
        BY <4>2, <4>3, <4>4
    <3> QED
      BY <3>1, <3>2
  <2>3. ASSUME NEW d \in 1 .. Len(ds), NEW e \in 1 .. Len(ds), d < e PROVE f[d] < f[e]
    <3>1. d \in Int /\ e \in Int /\ k \in Int
      OBVIOUS
    <3>2. (f[d] = IF d < k THEN d ELSE d + 1) /\ (f[e] = IF e < k THEN e ELSE e + 1)
      BY <2>1
    <3> QED
      BY <2>3, <3>1, <3>2
  <2> QED
    BY <2>2, <2>3
<1>3. ASSUME NEW d \in 1 .. Len(cs), d # k PROVE \E e \in 1 .. Len(ds) : f[e] = d
  <2>1. CASE d < k
    <3>1. d \in 1 .. Len(ds) /\ f[d] = d
      BY <1>0, <1>1, <2>1
    <3> QED
      BY <3>1
  <2>2. CASE d > k
    <3>1. d - 1 \in 1 .. Len(ds) /\ f[d - 1] = d
      BY <1>0, <1>1, <2>2
    <3> QED
      BY <3>1
  <2>3. d < k \/ d > k
    BY <1>3
  <2> QED
    BY <2>1, <2>2, <2>3
<1> HIDE DEF f
<1>4. Good(ds)
  BY <1>1, <1>2 DEF Good
<1>5. \A x : x \in All(ds) <=> \E d \in 1 .. Len(ds) : x \in ToSet(ds[d])
  BY <1>1, AllIs
<1>6. \A x : x \in All(ds) <=> \E d \in 1 .. Len(cs) : d # k /\ x \in ToSet(cs[d])
  <2> TAKE x
  <2>1. ASSUME NEW d \in 1 .. Len(ds), x \in ToSet(ds[d])
        PROVE  \E e \in 1 .. Len(cs) : e # k /\ x \in ToSet(cs[e])
    BY <1>2, <2>1
  <2>2. ASSUME NEW d \in 1 .. Len(cs), d # k, x \in ToSet(cs[d])
        PROVE  \E e \in 1 .. Len(ds) : x \in ToSet(ds[e])
    <3>1. PICK e \in 1 .. Len(ds) : f[e] = d
      BY <1>3, <2>2
    <3>2. ds[e] = cs[d]
      BY <1>2, <3>1
    <3> QED
      BY <2>2, <3>2
  <2> QED
    BY <1>5, <2>1, <2>2
<1> QED
  BY <1>4, <1>6 DEF ds

-----------------------------------------------------------------------------
(* The two searches                                                        *)

LEMMA LeastNatural ==
  ASSUME NEW S \in SUBSET Nat, S # {}
  PROVE  \E n \in S : \A m \in S : n <= m
<1> DEFINE R == {ss \in Nat \X Nat : ss[1] < ss[2]}
<1>1. IsWellFoundedOn(R, Nat)
  BY NatLessThanWellFounded DEF OpToRel
<1> HIDE DEF R
<1>2. PICK n \in S : \A m \in S : ~(<<m, n>> \in R)
  BY <1>1, WFMin
<1>3. \A m \in S : ~(m < n)
  BY <1>2 DEF R
<1> QED
  BY <1>3

Below(keys, n, a) == {i \in 1 .. n : keys[i] < a}

(* In ascending keys the ones below a are those before a certain position. *)
LEMMA Frontier ==
  ASSUME NEW n \in Nat, NEW keys \in [1 .. n -> Nat], NEW a \in Nat,
         \A i, j \in 1 .. n : i < j => keys[i] <= keys[j]
  PROVE  \E k \in 0 .. n : Below(keys, n, a) = 1 .. k
<1> DEFINE S == {i \in 1 .. n + 1 : i <= n => keys[i] >= a}
<1>1. PICK i \in S : \A j \in S : i <= j
  <2>1. S \in SUBSET Nat /\ n + 1 \in S
    OBVIOUS
  <2> HIDE DEF S
  <2> QED
    BY <2>1, LeastNatural
<1>2. ASSUME NEW j \in 1 .. n, j < i PROVE keys[j] < a
  BY <1>1, <1>2
<1>3. ASSUME NEW j \in 1 .. n, j >= i PROVE ~(keys[j] < a)
  <2>1. i \in 1 .. n /\ keys[i] >= a /\ keys[i] <= keys[j]
    BY <1>1, <1>3
  <2> QED
    BY <2>1
<1>4. i - 1 \in 0 .. n /\ \A j \in 1 .. n : j \in 1 .. i - 1 <=> j < i
  BY <1>1
<1>5. Below(keys, n, a) = 1 .. i - 1
  <2>1. ASSUME NEW j \in 1 .. i - 1 PROVE j \in 1 .. n /\ keys[j] < a
    BY <1>1, <1>2
  <2>2. ASSUME NEW j \in 1 .. n, keys[j] < a PROVE j \in 1 .. i - 1
    BY <1>1, <1>3, <1>4, <2>2
  <2> QED
    BY <2>1, <2>2 DEF Below
<1> QED
  BY <1>4, <1>5

(* What binary_search_by_key returns. *)
LEMMA SearchIs ==
  ASSUME NEW n \in Nat, NEW keys \in [1 .. n -> Nat], NEW a \in Nat,
         \A i, j \in 1 .. n : i < j => keys[i] <= keys[j]
  PROVE  /\ \E r : r \in Search(keys, a)
         /\ \A r \in Search(keys, a) :
              IF r.found THEN r.at \in 1 .. n /\ keys[r.at] = a
              ELSE /\ r.at \in 1 .. n + 1
                   /\ \A i \in 1 .. n : IF i < r.at THEN keys[i] < a ELSE a < keys[i]
<1>1. DOMAIN keys = 1 .. n
  OBVIOUS
<1>2. CASE \E i \in 1 .. n : keys[i] = a
  <2>1. Search(keys, a) = {[found |-> TRUE, at |-> i] : i \in {j \in 1 .. n : keys[j] = a}}
    BY <1>1, <1>2 DEF Search
  <2>2. PICK i \in 1 .. n : keys[i] = a
    BY <1>2
  <2>3. [found |-> TRUE, at |-> i] \in Search(keys, a)
    BY <2>1, <2>2
  <2>4. ASSUME NEW r \in Search(keys, a) PROVE r.found /\ r.at \in 1 .. n /\ keys[r.at] = a
    BY <2>1
  <2> QED
    BY <2>3, <2>4
<1>3. CASE ~\E i \in 1 .. n : keys[i] = a
  <2>1. PICK k \in 0 .. n : Below(keys, n, a) = 1 .. k
    BY Frontier
  <2>2. Cardinality(1 .. k) = k
    BY FS_Interval
  <2>3. Search(keys, a) = {[found |-> FALSE, at |-> 1 + k]}
    BY <1>1, <1>3, <2>1, <2>2 DEF Search, Below
  <2>4. \A i \in 1 .. n : i < 1 + k <=> keys[i] < a
    <3>1. \A i \in 1 .. n : i \in 1 .. k <=> keys[i] < a
      BY <2>1 DEF Below
    <3> QED
      BY <3>1
  <2>5. \A i \in 1 .. n : keys[i] # a /\ keys[i] \in Nat
    BY <1>3
  <2>6. [found |-> FALSE, at |-> 1 + k] \in Search(keys, a)
    BY <2>3
  <2>7. ASSUME NEW r \in Search(keys, a) PROVE ~r.found /\ r.at = 1 + k
    BY <2>3
  <2>8. 1 + k \in 1 .. n + 1 /\ \A i \in 1 .. n : IF i < 1 + k THEN keys[i] < a ELSE a < keys[i]
    BY <2>4, <2>5
  <2> QED
    BY <2>6, <2>7, <2>8
<1> QED
  BY <1>2, <1>3

LEMMA InChunk ==
  ASSUME Good(chunks), NEW c \in 1 .. Len(chunks)
  PROVE  /\ chunks[c] \in Seq(Modules) /\ Len(chunks[c]) \in Nat
         /\ 1 \in 1 .. Len(chunks[c]) /\ Len(chunks[c]) \in 1 .. Len(chunks[c])
         /\ \A i \in 1 .. Len(chunks[c]) :
              /\ chunks[c][i] \in ToSet(chunks[c]) /\ chunks[c][i] \in Modules
              /\ chunks[c][i].start \in Nat
         /\ \A x \in ToSet(chunks[c]) :
              /\ x \in Modules /\ x.start \in Nat /\ chunks[c][1].start <= x.start
              /\ \E i \in 1 .. Len(chunks[c]) : x = chunks[c][i]
         /\ \A i, j \in 1 .. Len(chunks[c]) : i < j => chunks[c][i].start <= chunks[c][j].start
<1>1. /\ chunks[c] \in Seq(Modules) /\ Len(chunks[c]) \in 1 .. 2 * MODULE_CHUNK /\ Asc(chunks[c])
      /\ MODULE_CHUNK \in Nat
  BY ListAssumption DEF Good, ChunkOK
<1>2. \A m \in Modules : m.start \in Nat
  BY ListAssumption
<1> DEFINE s == chunks[c]
<1>3. s \in Seq(Modules) /\ Len(s) \in Nat /\ 1 \in 1 .. Len(s) /\ Len(s) \in 1 .. Len(s)
  BY <1>1
<1>4. \A i, j \in 1 .. Len(s) : i < j => s[i].start <= s[j].start
  BY <1>1, <1>3 DEF Asc
<1> HIDE DEF s
<1>5. /\ \A x : x \in ToSet(s) <=> \E i \in 1 .. Len(s) : x = s[i]
      /\ \A i \in 1 .. Len(s) : s[i] \in ToSet(s) /\ s[i] \in Modules
  BY <1>3, ToSetIs
<1>6. \A i \in 1 .. Len(s) : s[i].start \in Nat /\ s[1].start <= s[i].start
  <2> TAKE i \in 1 .. Len(s)
  <2>1. s[i].start \in Nat
    BY <1>2, <1>5
  <2>2. i = 1 \/ (1 \in 1 .. Len(s) /\ 1 < i)
    BY <1>3
  <2> QED
    BY <1>4, <2>1, <2>2
<1> QED
  BY <1>3, <1>4, <1>5, <1>6 DEF s

LEMMA FirstsAscend ==
  ASSUME Good(chunks)
  PROVE  /\ Len(chunks) \in Nat /\ Firsts \in [1 .. Len(chunks) -> Nat]
         /\ \A c \in 1 .. Len(chunks) : Firsts[c] = chunks[c][1].start
         /\ \A c, d \in 1 .. Len(chunks) : c < d => Firsts[c] <= Firsts[d]
<1>1. chunks \in Seq(Seq(Modules)) /\ DOMAIN chunks = 1 .. Len(chunks) /\ Len(chunks) \in Nat
  BY DEF Good
<1>2. \A c \in 1 .. Len(chunks) : chunks[c][1].start \in Nat /\ chunks[c][1] \in ToSet(chunks[c])
  <2> TAKE c \in 1 .. Len(chunks)
  <2>1. 1 \in 1 .. Len(chunks[c])
    BY InChunk
  <2> QED
    BY <2>1, InChunk
<1>3. \A c, d \in 1 .. Len(chunks) : c < d => chunks[c][1].start <= chunks[d][1].start
  <2>1. \A c, d \in 1 .. Len(chunks) : c < d => Apart(chunks[c], chunks[d])
    BY DEF Good
  <2> QED
    BY <1>2, <2>1 DEF Apart
<1> QED
  BY <1>1, <1>2, <1>3 DEF Firsts

(* The chunk that chunk_index_for chooses: everything before it is at or below
   the address, everything after it at or above. *)
LEMMA Around ==
  ASSUME Good(chunks), Len(chunks) # 0, NEW a \in Nat
  PROVE  /\ \E c : c \in chunk_index_for(a)
         /\ \A c \in chunk_index_for(a) :
              /\ c \in 1 .. Len(chunks)
              /\ \A d \in 1 .. Len(chunks) : \A x \in ToSet(chunks[d]) :
                   /\ d < c => x.start <= a /\ x.start <= chunks[c][1].start
                   /\ d > c => x.start >= a
                   /\ chunks[c][1].start # a => (d < c => x.start < a) /\ (d > c => x.start > a)
              /\ chunks[c][1].start > a => c = 1
<1> DEFINE n == Len(chunks)
<1>1. /\ \E r : r \in Search(Firsts, a)
      /\ \A r \in Search(Firsts, a) :
           IF r.found THEN r.at \in 1 .. n /\ Firsts[r.at] = a
           ELSE /\ r.at \in 1 .. n + 1
                /\ \A i \in 1 .. n : IF i < r.at THEN Firsts[i] < a ELSE a < Firsts[i]
  BY FirstsAscend, SearchIs
<1>2. n \in Nat /\ n >= 1 /\ \A c \in 1 .. n : Firsts[c] = chunks[c][1].start /\ Firsts[c] \in Nat
  BY FirstsAscend
<1>3. \A d \in 1 .. n : \A x \in ToSet(chunks[d]) : x.start \in Nat /\ Firsts[d] <= x.start
  BY <1>2, InChunk
<1>4. \A d, e \in 1 .. n : \A x \in ToSet(chunks[d]) : d < e => x.start <= Firsts[e]
  <2> TAKE d, e \in 1 .. n
  <2> TAKE x \in ToSet(chunks[d])
  <2>1. chunks[e][1] \in ToSet(chunks[e])
    <3>1. 1 \in 1 .. Len(chunks[e])
      BY InChunk
    <3> QED
      BY <3>1, InChunk
  <2> QED
    BY <1>2, <2>1 DEF Good, Apart
<1> DEFINE Index(r) == IF r.found \/ r.at = 1 THEN r.at ELSE r.at - 1
<1>5. chunk_index_for(a) = {Index(r) : r \in Search(Firsts, a)}
  BY DEF chunk_index_for
<1>6. ASSUME NEW r \in Search(Firsts, a), NEW c, c = Index(r)
      PROVE  /\ c \in 1 .. n
             /\ \A d \in 1 .. n : \A x \in ToSet(chunks[d]) :
                  /\ d < c => x.start <= a /\ x.start <= Firsts[c]
                  /\ d > c => x.start >= a
                  /\ Firsts[c] # a => (d < c => x.start < a) /\ (d > c => x.start > a)
             /\ Firsts[c] > a => c = 1
  <2>1. CASE r.found
    <3>1. c \in 1 .. n /\ Firsts[c] = a
      BY <1>1, <1>6, <2>1
    <3>2. ASSUME NEW d \in 1 .. n, NEW x \in ToSet(chunks[d])
          PROVE  (d < c => x.start <= a) /\ (d > c => x.start >= a)
      <4>1. d > c => Firsts[c] <= Firsts[d]
        BY <3>1, FirstsAscend
      <4> QED
        BY <1>2, <1>3, <1>4, <3>1, <4>1
    <3> QED
      BY <1>2, <3>1, <3>2
  <2>2. CASE ~r.found /\ r.at = 1
    <3>1. c = 1 /\ \A d \in 1 .. n : a < Firsts[d]
      BY <1>1, <1>2, <1>6, <2>2
    <3>2. \A d \in 1 .. n : \A x \in ToSet(chunks[d]) : x.start > a
      BY <1>2, <1>3, <3>1
    <3> QED
      BY <1>2, <1>3, <3>1, <3>2
  <2>3. CASE ~r.found /\ r.at # 1
    <3>1. /\ c = r.at - 1 /\ c \in 1 .. n /\ Firsts[c] < a
          /\ \A d \in 1 .. n : d > c => a < Firsts[d]
      BY <1>1, <1>2, <1>6, <2>3
    <3>2. ASSUME NEW d \in 1 .. n, NEW x \in ToSet(chunks[d])
          PROVE  (d < c => x.start <= Firsts[c] /\ x.start < a) /\ (d > c => x.start > a)
      BY <1>2, <1>3, <1>4, <3>1
    <3> QED
      BY <1>2, <1>3, <3>1, <3>2
  <2> QED
    BY <2>1, <2>2, <2>3
<1> HIDE DEF Index
<1>7. \E c : c \in chunk_index_for(a)
  BY <1>1, <1>5
<1>8. \A c \in chunk_index_for(a) : \E r \in Search(Firsts, a) : c = Index(r)
  BY <1>5
<1> QED
  BY <1>2, <1>6, <1>7, <1>8

(* Where the two searches end. *)
LEMMA PlaceIs ==
  ASSUME Good(chunks), Len(chunks) # 0, NEW a \in Nat
  PROVE  /\ \E p : p \in Places(a)
         /\ \A p \in Places(a) :
              /\ p.c \in chunk_index_for(a) /\ p.c \in 1 .. Len(chunks)
              /\ IF p.r.found THEN p.r.at \in 1 .. Len(chunks[p.c]) /\ chunks[p.c][p.r.at].start = a
                 ELSE /\ p.r.at \in 1 .. Len(chunks[p.c]) + 1
                      /\ \A i \in 1 .. Len(chunks[p.c]) :
                           IF i < p.r.at THEN chunks[p.c][i].start < a ELSE a < chunks[p.c][i].start
<1>1. ASSUME NEW c \in 1 .. Len(chunks)
      PROVE  /\ \E r : r \in Search(Starts(chunks[c]), a)
             /\ \A r \in Search(Starts(chunks[c]), a) :
                  IF r.found THEN r.at \in 1 .. Len(chunks[c]) /\ chunks[c][r.at].start = a
                  ELSE /\ r.at \in 1 .. Len(chunks[c]) + 1
                       /\ \A i \in 1 .. Len(chunks[c]) :
                            IF i < r.at THEN chunks[c][i].start < a ELSE a < chunks[c][i].start
  <2> DEFINE keys == Starts(chunks[c])
             n == Len(chunks[c])
  <2>1. /\ n \in Nat /\ keys \in [1 .. n -> Nat] /\ \A i \in 1 .. n : keys[i] = chunks[c][i].start
        /\ \A i, j \in 1 .. n : i < j => keys[i] <= keys[j]
    <3>1. DOMAIN chunks[c] = 1 .. n
      BY InChunk
    <3> QED
      BY <3>1, InChunk DEF Starts
  <2> HIDE DEF keys, n
  <2>2. /\ \E r : r \in Search(keys, a)
        /\ \A r \in Search(keys, a) :
             IF r.found THEN r.at \in 1 .. n /\ keys[r.at] = a
             ELSE /\ r.at \in 1 .. n + 1
                  /\ \A i \in 1 .. n : IF i < r.at THEN keys[i] < a ELSE a < keys[i]
    BY <2>1, SearchIs
  <2> QED
    BY <2>1, <2>2 DEF keys, n
<1>2. (\E c : c \in chunk_index_for(a)) /\ chunk_index_for(a) \subseteq 1 .. Len(chunks)
  BY Around
<1> DEFINE At(c) == {[c |-> c, r |-> r] : r \in Search(Starts(chunks[c]), a)}
<1>3. \A p : p \in Places(a) <=> \E c \in chunk_index_for(a) :
                                    \E r \in Search(Starts(chunks[c]), a) : p = [c |-> c, r |-> r]
  <2>1. Places(a) = UNION {At(c) : c \in chunk_index_for(a)}
    BY DEF Places
  <2>2. ASSUME NEW c PROVE \A p : p \in At(c) <=> \E r \in Search(Starts(chunks[c]), a) : p = [c |-> c, r |-> r]
    OBVIOUS
  <2> HIDE DEF At
  <2>3. \A p : p \in Places(a) <=> \E c \in chunk_index_for(a) : p \in At(c)
    BY <2>1, Zenon
  <2> QED
    BY <2>2, <2>3
<1>4. \E p : p \in Places(a)
  <2>1. PICK c \in chunk_index_for(a) : TRUE
    BY <1>2
  <2>2. PICK r : r \in Search(Starts(chunks[c]), a)
    BY <1>1, <1>2
  <2>3. [c |-> c, r |-> r] \in Places(a)
    BY <1>3, <2>2
  <2> QED
    BY <2>3
<1>5. ASSUME NEW p \in Places(a)
      PROVE  p.c \in chunk_index_for(a) /\ p.r \in Search(Starts(chunks[p.c]), a)
  BY <1>3
<1> QED
  BY <1>1, <1>2, <1>4, <1>5

(* A search that finds nothing has missed nothing, in no chunk. *)
LEMMA NoneMissed ==
  ASSUME Good(chunks), NEW x \in Present, NEW p \in Places(x.start)
  PROVE  p.r.found
<1>1. PICK d \in 1 .. Len(chunks) : x \in ToSet(chunks[d])
  BY AllIs DEF Good, Present, All
<1>2. x.start \in Nat /\ \E i \in 1 .. Len(chunks[d]) : x = chunks[d][i]
  BY <1>1, InChunk
<1>3. Len(chunks) # 0
  BY <1>1
<1>4. SUFFICES ASSUME ~p.r.found PROVE FALSE
  OBVIOUS
<1>5. /\ p.c \in chunk_index_for(x.start) /\ p.c \in 1 .. Len(chunks)
      /\ \A i \in 1 .. Len(chunks[p.c]) : chunks[p.c][i].start # x.start
  <2>1. /\ p.c \in chunk_index_for(x.start) /\ p.c \in 1 .. Len(chunks)
        /\ \A i \in 1 .. Len(chunks[p.c]) :
             IF i < p.r.at THEN chunks[p.c][i].start < x.start ELSE x.start < chunks[p.c][i].start
    BY <1>2, <1>3, <1>4, PlaceIs
  <2>2. \A i \in 1 .. Len(chunks[p.c]) : chunks[p.c][i].start \in Nat
    BY <2>1, InChunk
  <2> QED
    BY <1>2, <2>1, <2>2
<1>6. chunks[p.c][1].start # x.start
  <2>1. 1 \in 1 .. Len(chunks[p.c])
    BY <1>5, InChunk
  <2> QED
    BY <1>5, <2>1
<1>7. CASE d = p.c
  BY <1>2, <1>5, <1>7
<1>8. CASE d # p.c
  <2>1. (d < p.c => x.start < x.start) /\ (d > p.c => x.start > x.start)
    BY <1>1, <1>2, <1>3, <1>5, <1>6, Around
  <2> QED
    BY <1>2, <1>5, <1>8, <2>1
<1> QED
  BY <1>7, <1>8

-----------------------------------------------------------------------------
(* The two operations                                                      *)

(* Whatever comes in place of chunk c, made of its modules and m, fits between
   the other chunks. *)
LEMMA Fits ==
  ASSUME Good(chunks), NEW m \in Modules, m \notin Present, NEW c \in 1 .. Len(chunks),
         \A d \in 1 .. Len(chunks) : \A x \in ToSet(chunks[d]) :
           (d < c => x.start <= m.start) /\ (d > c => x.start >= m.start),
         NEW t, ToSet(t) \subseteq ToSet(chunks[c]) \cup {m}
  PROVE  \A d \in 1 .. Len(chunks) :
           (d < c => Apart(chunks[d], t)) /\ (d > c => Apart(t, chunks[d]))
<1>1. m.start \in Nat /\ \A d \in 1 .. Len(chunks) : \A x \in ToSet(chunks[d]) : x # m /\ x.start \in Nat
  <2>1. \A d \in 1 .. Len(chunks) : ToSet(chunks[d]) \subseteq Present
    BY AllIs DEF Good, Present, All
  <2> QED
    BY <2>1, InChunk, ListAssumption
<1>2. \A d \in 1 .. Len(chunks) : (d < c => Apart(chunks[d], chunks[c])) /\ (d > c => Apart(chunks[c], chunks[d]))
  BY DEF Good
<1> QED
  BY <1>1, <1>2 DEF Apart

LEMMA SingleChunk ==
  ASSUME NEW m \in Modules
  PROVE  Good(<<<<m>>>>) /\ All(<<<<m>>>>) = {m}
<1> DEFINE s == <<m>>
<1>1. s \in Seq(Modules) /\ Len(s) = 1 /\ s[1] = m /\ DOMAIN s = 1 .. 1
  OBVIOUS
<1>2. 1 \in 1 .. 2 * MODULE_CHUNK
  BY ListAssumption
<1> HIDE DEF s
<1>3. ChunkOK(s)
  BY <1>1, <1>2 DEF ChunkOK, Asc, IsInjective
<1>4. ToSet(s) = {m}
  BY <1>1, ToSetIs
<1> DEFINE cs == <<s>>
<1>5. cs \in Seq(Seq(Modules)) /\ Len(cs) = 1 /\ cs[1] = s
  BY <1>1
<1> HIDE DEF cs
<1>6. Good(cs)
  BY <1>3, <1>5 DEF Good
<1>7. All(cs) = {m}
  <2>1. \A x : x \in All(cs) <=> \E c \in 1 .. Len(cs) : x \in ToSet(cs[c])
    BY <1>5, AllIs
  <2> QED
    BY <1>4, <1>5, <2>1
<1> QED
  BY <1>6, <1>7 DEF cs, s

LEMMA AddKeeps ==
  ASSUME Good(chunks), NEW m \in Modules, AddModule(m)
  PROVE  Good(chunks') /\ All(chunks') = All(chunks) \cup {m}
<1>1. chunks \in Seq(Seq(Modules)) /\ Len(chunks) \in Nat /\ m.start \in Nat /\ MODULE_CHUNK \in Nat \ {0}
  BY ListAssumption DEF Good
<1>2. m \notin Present /\ m \notin All(chunks) /\ add_module(m)
  BY DEF AddModule, Present, All
<1>3. CASE chunks = <<>>
  <2>1. chunks' = <<<<m>>>>
    BY <1>2, <1>3 DEF add_module
  <2>2. All(chunks) = {}
    BY <1>3 DEF All
  <2> QED
    BY <2>1, <2>2, SingleChunk
<1>4. CASE chunks # <<>>
  <2>0. Len(chunks) # 0
    BY <1>1, <1>4
  <2> DEFINE Full(p) == InsertAt(chunks[p.c], p.r.at, m)
  <2>1. PICK p \in Places(m.start) :
          chunks' = IF Len(Full(p)) > 2 * MODULE_CHUNK
                    THEN InsertAt([chunks EXCEPT ![p.c] = SubSeq(Full(p), 1, MODULE_CHUNK)],
                                  p.c + 1, SubSeq(Full(p), MODULE_CHUNK + 1, Len(Full(p))))
                    ELSE [chunks EXCEPT ![p.c] = Full(p)]
    BY <1>2, <1>4 DEF add_module
  <2> DEFINE c == p.c
             s == chunks[c]
             full == Full(p)
  <2>2. c \in 1 .. Len(chunks) /\ c \in chunk_index_for(m.start)
    BY <1>1, <2>0, PlaceIs
  <2>3. /\ s \in Seq(Modules) /\ Len(s) \in 1 .. 2 * MODULE_CHUNK /\ Asc(s) /\ IsInjective(s)
        /\ \A i \in 1 .. Len(s) : s[i].start \in Nat
    BY <2>2, InChunk DEF Good, ChunkOK
  <2>4. /\ p.r.at \in 1 .. Len(s) + 1
        /\ \A i \in 1 .. Len(s) :
             IF i < p.r.at THEN s[i].start <= m.start ELSE m.start <= s[i].start
    <3>1. CASE p.r.found
      <4>1. p.r.at \in 1 .. Len(s) /\ s[p.r.at].start = m.start
        BY <1>1, <2>0, <3>1, PlaceIs
      <4>2. \A i, j \in 1 .. Len(s) : i < j => s[i].start <= s[j].start
        BY <2>2, InChunk
      <4>3. ASSUME NEW i \in 1 .. Len(s)
            PROVE  IF i < p.r.at THEN s[i].start <= m.start ELSE m.start <= s[i].start
        <5>1. CASE i < p.r.at
          BY <4>1, <4>2, <5>1
        <5>2. CASE i = p.r.at
          BY <1>1, <4>1, <5>2
        <5>3. CASE p.r.at < i
          BY <4>1, <4>2, <5>3
        <5>4. i \in Int /\ p.r.at \in Int
          BY <2>3, <4>1
        <5> QED
          BY <5>1, <5>2, <5>3, <5>4
      <4>4. p.r.at \in 1 .. Len(s) + 1
        BY <2>3, <4>1
      <4> QED
        BY <4>3, <4>4
    <3>2. CASE ~p.r.found
      <4>1. /\ p.r.at \in 1 .. Len(s) + 1
            /\ \A i \in 1 .. Len(s) : IF i < p.r.at THEN s[i].start < m.start ELSE m.start < s[i].start
        BY <1>1, <2>0, <3>2, PlaceIs
      <4>2. ASSUME NEW i \in 1 .. Len(s)
            PROVE  IF i < p.r.at THEN s[i].start <= m.start ELSE m.start <= s[i].start
        <5>1. s[i].start \in Nat /\ m.start \in Nat
          BY <1>1, <2>3
        <5> QED
          BY <4>1, <5>1
      <4> QED
        BY <4>1, <4>2
    <3> QED
      BY <3>1, <3>2
  <2>5. m \notin ToSet(s) /\ ToSet(s) \subseteq All(chunks)
    BY <1>1, <1>2, <2>2, AllIs
  <2>6. /\ full \in Seq(Modules) /\ Len(full) = Len(s) + 1 /\ Asc(full) /\ IsInjective(full)
        /\ ToSet(full) = ToSet(s) \cup {m}
    BY <2>3, <2>4, <2>5, InsertChunk
  <2> HIDE DEF full, Full
  <2>7. \A d \in 1 .. Len(chunks) : \A x \in ToSet(chunks[d]) :
          (d < c => x.start <= m.start) /\ (d > c => x.start >= m.start)
    BY <1>1, <2>0, <2>2, Around
  <2>8. CASE ~(Len(full) > 2 * MODULE_CHUNK)
    <3>1. chunks' = [chunks EXCEPT ![c] = full]
      BY <2>1, <2>8 DEF full
    <3>2. ChunkOK(full)
      BY <1>1, <2>3, <2>6, <2>8 DEF ChunkOK
    <3>3. \A d \in 1 .. Len(chunks) : (d < c => Apart(chunks[d], full)) /\ (d > c => Apart(full, chunks[d]))
      BY <1>2, <2>2, <2>6, <2>7, Fits
    <3>4. /\ Good(chunks')
          /\ \A x : x \in All(chunks')
                      <=> x \in ToSet(full) \/ \E d \in 1 .. Len(chunks) : d # c /\ x \in ToSet(chunks[d])
      BY <2>2, <3>1, <3>2, <3>3, ReplaceChunk
    <3>5. \A x : x \in All(chunks) <=> \E d \in 1 .. Len(chunks) : x \in ToSet(chunks[d])
      BY <1>1, AllIs
    <3>6. All(chunks') = All(chunks) \cup {m}
      BY <2>2, <2>6, <3>4, <3>5
    <3> QED
      BY <3>4, <3>6
  <2>9. CASE Len(full) > 2 * MODULE_CHUNK
    <3> DEFINE a == SubSeq(full, 1, MODULE_CHUNK)
               b == SubSeq(full, MODULE_CHUNK + 1, Len(full))
               ds == [chunks EXCEPT ![c] = a]
    <3>1. chunks' = InsertAt(ds, c + 1, b)
      BY <2>1, <2>9 DEF full
    <3>2. MODULE_CHUNK \in 1 .. Len(full) /\ Len(full) = 2 * MODULE_CHUNK + 1
      <4>1. MODULE_CHUNK \in Nat /\ MODULE_CHUNK >= 1
        BY <1>1
      <4>2. Len(s) \in 1 .. 2 * MODULE_CHUNK /\ Len(full) = Len(s) + 1
        BY <2>3, <2>6
      <4> QED
        BY <2>9, <4>1, <4>2
    <3>3. /\ a \in Seq(Modules) /\ Len(a) = MODULE_CHUNK /\ Asc(a) /\ IsInjective(a)
          /\ b \in Seq(Modules) /\ Len(b) = Len(full) - MODULE_CHUNK /\ Asc(b) /\ IsInjective(b)
          /\ ToSet(full) = ToSet(a) \cup ToSet(b) /\ Apart(a, b)
      BY <2>6, <3>2, HalfChunk
    <3> HIDE DEF a, b
    <3>4. ChunkOK(a) /\ ChunkOK(b)
      BY <1>1, <3>2, <3>3 DEF ChunkOK
    <3>5. /\ \A d \in 1 .. Len(chunks) : (d < c => Apart(chunks[d], a)) /\ (d > c => Apart(a, chunks[d]))
          /\ \A d \in 1 .. Len(chunks) : (d < c => Apart(chunks[d], b)) /\ (d > c => Apart(b, chunks[d]))
      <4>1. ToSet(a) \subseteq ToSet(s) \cup {m} /\ ToSet(b) \subseteq ToSet(s) \cup {m}
        BY <2>6, <3>3
      <4> QED
        BY <1>2, <2>2, <2>7, <4>1, Fits
    <3>6. /\ Good(ds) /\ Len(ds) = Len(chunks)
          /\ \A d \in 1 .. Len(chunks) : ds[d] = IF d = c THEN a ELSE chunks[d]
          /\ \A x : x \in All(ds)
                      <=> x \in ToSet(a) \/ \E d \in 1 .. Len(chunks) : d # c /\ x \in ToSet(chunks[d])
      BY <2>2, <3>4, <3>5, ReplaceChunk
    <3> HIDE DEF ds
    <3>7. \A d \in 1 .. Len(ds) : IF d < c + 1 THEN Apart(ds[d], b) ELSE Apart(b, ds[d])
      <4> TAKE d \in 1 .. Len(ds)
      <4>1. CASE d = c
        BY <2>2, <3>3, <3>6, <4>1
      <4>2. CASE d < c
        BY <2>2, <3>5, <3>6, <4>2
      <4>3. CASE d > c
        BY <2>2, <3>5, <3>6, <4>3
      <4> QED
        BY <2>2, <3>6, <4>1, <4>2, <4>3
    <3>8. Good(chunks') /\ All(chunks') = All(ds) \cup ToSet(b)
      <4>1. c + 1 \in 1 .. Len(ds) + 1
        BY <1>1, <2>2, <3>6
      <4> QED
        BY <3>1, <3>4, <3>6, <3>7, <4>1, InsertIntoList
    <3>9. \A x : x \in All(chunks) <=> \E d \in 1 .. Len(chunks) : x \in ToSet(chunks[d])
      BY <1>1, AllIs
    <3>10. All(chunks') = All(chunks) \cup {m}
      BY <2>2, <2>6, <3>3, <3>6, <3>8, <3>9
    <3> QED
      BY <3>8, <3>10
  <2> QED
    BY <2>8, <2>9
<1> QED
  BY <1>3, <1>4

LEMMA RemoveKeeps ==
  ASSUME Good(chunks), NEW m \in Modules, remove_module(m.start)
  PROVE  /\ Good(chunks')
         /\ \E x \in All(chunks) : x.start = m.start /\ All(chunks') = All(chunks) \ {x}
<1>1. chunks \in Seq(Seq(Modules)) /\ Len(chunks) \in Nat /\ Len(chunks) # 0 /\ m.start \in Nat
  BY ListAssumption DEF Good, remove_module
<1> DEFINE Rest(p) == RemoveAt(chunks[p.c], p.r.at)
<1>2. PICK p \in Places(m.start) :
        /\ p.r.found
        /\ chunks' = IF Rest(p) = <<>> THEN RemoveAt(chunks, p.c) ELSE [chunks EXCEPT ![p.c] = Rest(p)]
  BY DEF remove_module
<1> DEFINE c == p.c
           s == chunks[c]
           x == s[p.r.at]
           rest == Rest(p)
<1>3. c \in 1 .. Len(chunks) /\ p.r.at \in 1 .. Len(s) /\ x.start = m.start
  BY <1>1, <1>2, PlaceIs
<1>4. s \in Seq(Modules) /\ Len(s) \in 1 .. 2 * MODULE_CHUNK /\ Asc(s) /\ IsInjective(s)
  BY <1>3 DEF Good, ChunkOK
<1>5. /\ rest \in Seq(Modules) /\ Len(rest) = Len(s) - 1 /\ Asc(rest) /\ IsInjective(rest)
      /\ ToSet(rest) = ToSet(s) \ {x}
  BY <1>3, <1>4, RemoveChunk
<1>6. x \in ToSet(s)
  BY <1>3, InChunk
<1>7. \A y : y \in All(chunks) <=> \E d \in 1 .. Len(chunks) : y \in ToSet(chunks[d])
  BY <1>1, AllIs
<1>8. \A d \in 1 .. Len(chunks) : d # c => x \notin ToSet(chunks[d])
  <2> SUFFICES ASSUME NEW d \in 1 .. Len(chunks), d # c, x \in ToSet(chunks[d]) PROVE FALSE
    OBVIOUS
  <2>1. Apart(chunks[d], s) \/ Apart(s, chunks[d])
    BY <1>1, <1>3 DEF Good
  <2> QED
    BY <1>6, <2>1 DEF Apart
<1> HIDE DEF rest, Rest
<1>9. CASE rest = <<>>
  <2>1. chunks' = RemoveAt(chunks, c)
    BY <1>2, <1>9 DEF rest
  <2>2. /\ Good(chunks')
        /\ \A y : y \in All(chunks') <=> \E d \in 1 .. Len(chunks) : d # c /\ y \in ToSet(chunks[d])
    BY <1>3, <2>1, DropChunk
  <2>3. ToSet(s) = {x}
    <3>1. ToSet(rest) = {}
      BY <1>9 DEF ToSet
    <3> QED
      BY <1>5, <1>6, <3>1
  <2>4. All(chunks') = All(chunks) \ {x}
    BY <1>3, <1>7, <1>8, <2>2, <2>3
  <2> QED
    BY <1>3, <1>6, <1>7, <2>2, <2>4
<1>10. CASE rest # <<>>
  <2>1. chunks' = [chunks EXCEPT ![c] = rest]
    BY <1>2, <1>10 DEF rest
  <2>2. ChunkOK(rest)
    <3>0. rest \in Seq(Modules) /\ MODULE_CHUNK \in Nat
      BY <1>5, ListAssumption
    <3>1. Len(rest) # 0 /\ Len(rest) \in Nat
      BY <3>0, <1>10
    <3>2. Len(s) \in 1 .. 2 * MODULE_CHUNK /\ Len(rest) = Len(s) - 1
      BY <1>4, <1>5
    <3>3. Len(rest) \in 1 .. 2 * MODULE_CHUNK
      <4> DEFINE l == Len(rest)
                 k == Len(s)
      <4>1. MODULE_CHUNK \in Nat /\ l \in Nat /\ l # 0 /\ k \in 1 .. 2 * MODULE_CHUNK /\ l = k - 1
        BY <3>0, <3>1, <3>2
      <4> HIDE DEF l, k
      <4>2. l \in 1 .. 2 * MODULE_CHUNK
        BY <4>1
      <4> QED
        BY <4>2 DEF l
    <3> QED
      BY <1>5, <3>3 DEF ChunkOK
  <2>3. \A d \in 1 .. Len(chunks) : (d < c => Apart(chunks[d], rest)) /\ (d > c => Apart(rest, chunks[d]))
    <3>1. \A d \in 1 .. Len(chunks) : (d < c => Apart(chunks[d], s)) /\ (d > c => Apart(s, chunks[d]))
      BY <1>3 DEF Good
    <3> QED
      BY <1>5, <3>1 DEF Apart
  <2>4. /\ Good(chunks')
        /\ \A y : y \in All(chunks')
                    <=> y \in ToSet(rest) \/ \E d \in 1 .. Len(chunks) : d # c /\ y \in ToSet(chunks[d])
    BY <1>3, <2>1, <2>2, <2>3, ReplaceChunk
  <2>5. All(chunks') = All(chunks) \ {x}
    BY <1>3, <1>5, <1>7, <1>8, <2>4
  <2> QED
    BY <1>3, <1>6, <1>7, <2>4, <2>5
<1> QED
  BY <1>9, <1>10

-----------------------------------------------------------------------------
(* Theorems                                                                *)

(* The inductive invariant: the chunks are non-empty, none has more modules than
   it may, and no module is in the list twice. *)
ListInv == Good(chunks)

LEMMA InitList == Init => ListInv
<1> SUFFICES ASSUME Init PROVE Good(chunks)
  BY DEF ListInv
<1>1. chunks = <<>> /\ Len(chunks) = 0 /\ chunks \in Seq(Seq(Modules))
  BY DEF Init
<1> QED
  BY <1>1 DEF Good

LEMMA NextList == ListInv /\ [Next]_chunks => ListInv'
<1> SUFFICES ASSUME Good(chunks), [Next]_chunks PROVE Good(chunks')
  BY DEF ListInv
<1>1. CASE \E m \in Modules : AddModule(m)
  BY <1>1, AddKeeps
<1>2. CASE \E m \in Modules : remove_module(m.start)
  BY <1>2, RemoveKeeps
<1>3. CASE UNCHANGED chunks
  BY <1>3
<1> QED
  BY <1>1, <1>2, <1>3 DEF Next

LEMMA AlwaysListInv == Spec => []ListInv
BY InitList, NextList, PTL DEF Spec

(* The chunks of the list are never empty and never longer than 2 * MODULE_CHUNK,
   for every chunk size and every set of modules. *)
THEOREM ListTypeCorrect == Spec => []TypeOK
<1>1. ListInv => TypeOK
  <2> SUFFICES ASSUME Good(chunks) PROVE TypeOK
    BY DEF ListInv
  <2>1. chunks \in Seq(Seq(Modules)) /\ DOMAIN chunks = 1 .. Len(chunks)
    BY DEF Good
  <2> QED
    BY <2>1 DEF Good, ChunkOK, TypeOK
<1> QED
  BY <1>1, AlwaysListInv, PTL

(* Insertions, splits and removals keep the list sorted. *)
THEOREM ListStaysSorted == Spec => []Sorted
<1>1. ListInv => Sorted
  <2> SUFFICES ASSUME Good(chunks) PROVE Sorted
    BY DEF ListInv
  <2>1. DOMAIN chunks = 1 .. Len(chunks)
    BY DEF Good
  <2> QED
    BY <2>1 DEF Good, ChunkOK, Asc, Apart, Sorted
<1> QED
  BY <1>1, AlwaysListInv, PTL

(* remove_module finds a module whenever one starts at the address. *)
THEOREM RemoveAlwaysFinds == Spec => []RemoveFinds
<1>1. ListInv => RemoveFinds
  BY NoneMissed DEF ListInv, RemoveFinds
<1> QED
  BY <1>1, AlwaysListInv, PTL

(* No module has two places in the list. *)
LEMMA OneCopy ==
  ASSUME Good(chunks), NEW x \in Present
  PROVE  Cardinality(Entries(x)) = 1
<1>1. DOMAIN chunks = 1 .. Len(chunks)
  BY DEF Good
<1>2. PICK c \in 1 .. Len(chunks) : x \in ToSet(chunks[c])
  BY AllIs DEF Good, Present, All
<1>3. \A d \in 1 .. Len(chunks) : chunks[d] \in Seq(Modules) /\ DOMAIN chunks[d] = 1 .. Len(chunks[d])
  BY DEF Good
<1>4. PICK i \in 1 .. Len(chunks[c]) : chunks[c][i] = x
  BY <1>2, InChunk
<1>5. ASSUME NEW d \in 1 .. Len(chunks), NEW j \in 1 .. Len(chunks[d]), chunks[d][j] = x
      PROVE  d = c /\ j = i
  <2>1. x \in ToSet(chunks[d])
    BY <1>5, InChunk
  <2>2. d = c
    <3> SUFFICES ASSUME d # c PROVE FALSE
      OBVIOUS
    <3>1. d < c \/ c < d
      OBVIOUS
    <3>2. Apart(chunks[d], chunks[c]) \/ Apart(chunks[c], chunks[d])
      BY <3>1 DEF Good
    <3> QED
      BY <1>2, <2>1, <3>2 DEF Apart
  <2>3. IsInjective(chunks[c])
    BY DEF Good, ChunkOK
  <2> QED
    BY <1>3, <1>4, <1>5, <2>2, <2>3 DEF IsInjective
<1>6. Entries(x) = {<<c, i>>}
  <2>1. <<c, i>> \in Entries(x)
    BY <1>1, <1>3, <1>4 DEF Entries
  <2>2. ASSUME NEW q \in Entries(x) PROVE q = <<c, i>>
    <3>1. PICK d \in DOMAIN chunks : q \in {<<d, j>> : j \in {k \in DOMAIN chunks[d] : chunks[d][k] = x}}
      BY DEF Entries
    <3>2. PICK j \in DOMAIN chunks[d] : chunks[d][j] = x /\ q = <<d, j>>
      BY <3>1
    <3> QED
      BY <1>1, <1>3, <1>5, <3>2
  <2> QED
    BY <2>1, <2>2
<1> QED
  BY <1>6, FS_Singleton

OneEach == Copies = [x \in Modules |-> IF x \in Present THEN 1 ELSE 0]

LEMMA GoodHasOneEach == ListInv => OneEach
<1> SUFFICES ASSUME Good(chunks), NEW x \in Modules
             PROVE  Cardinality(Entries(x)) = IF x \in Present THEN 1 ELSE 0
  BY DEF ListInv, OneEach, Copies
<1>1. CASE x \in Present
  BY <1>1, OneCopy
<1>2. CASE x \notin Present
  <2>1. Entries(x) = {}
    <3> SUFFICES ASSUME NEW q \in Entries(x) PROVE FALSE
      OBVIOUS
    <3>1. PICK d \in DOMAIN chunks : \E j \in DOMAIN chunks[d] : chunks[d][j] = x
      BY DEF Entries
    <3>2. x \in ToSet(chunks[d])
      BY <3>1 DEF ToSet
    <3> QED
      BY <1>2, <3>1, <3>2 DEF Present
  <2> QED
    BY <1>2, <2>1, FS_EmptySet
<1> QED
  BY <1>1, <1>2

(* The chunked list behaves as a bag of modules: what add_module and
   remove_module do to the chunks, splits included, puts in or takes out one copy
   of one module. *)
THEOREM ListIsABag == Spec => RefinesModuleBag
<1>1. Init => Abstract!Init
  <2> SUFFICES ASSUME Init PROVE Abstract!Init
    OBVIOUS
  <2>1. \A m : Entries(m) = {}
    BY DEF Init, Entries
  <2> QED
    BY <2>1, FS_EmptySet DEF Abstract!Init, Copies
<1>2. ListInv /\ OneEach /\ OneEach' /\ [Next]_chunks => [Abstract!Next]_Copies
  <2> SUFFICES ASSUME Good(chunks), OneEach, OneEach', [Next]_chunks PROVE [Abstract!Next]_Copies
    BY DEF ListInv
  <2>0. Present = All(chunks) /\ Present' = All(chunks')
    BY DEF Present, All
  <2>b. /\ Copies = [x \in Modules |-> IF x \in Present THEN 1 ELSE 0]
        /\ Copies' = [x \in Modules |-> IF x \in Present' THEN 1 ELSE 0]
    BY DEF OneEach
  <2>1. ASSUME NEW m \in Modules, AddModule(m) PROVE Abstract!Add(m)
    <3>1. m \notin Present
      BY <2>1 DEF AddModule
    <3>2. Present' = Present \cup {m}
      BY <2>0, <2>1, AddKeeps
    <3> QED
      BY <2>b, <3>1, <3>2 DEF Abstract!Add
  <2>2. ASSUME NEW m \in Modules, remove_module(m.start) PROVE Abstract!Remove(m.start)
    <3>1. PICK x \in Present : x.start = m.start /\ Present' = Present \ {x}
      BY <2>0, <2>2, RemoveKeeps
    <3>2. x \in Modules
      BY AllIs, InChunk DEF Good, Present, All
    <3>3. Copies[x] > 0 /\ Copies' = [Copies EXCEPT ![x] = @ - 1]
      BY <2>b, <3>1, <3>2
    <3> QED
      BY <3>1, <3>2, <3>3 DEF Abstract!Remove
  <2>3. CASE UNCHANGED chunks
    BY <2>3 DEF Copies, Entries
  <2> QED
    BY <2>1, <2>2, <2>3 DEF Next, Abstract!Next
<1> QED
  BY <1>1, <1>2, AlwaysListInv, GoodHasOneEach, PTL DEF Spec, RefinesModuleBag, Abstract!Spec

LEMMA InPresent ==
  ASSUME Good(chunks), NEW x \in Present
  PROVE  /\ x \in Modules /\ x.start \in Nat /\ x.end \in Nat /\ x.start < x.end /\ x.base \in Nat
         /\ Len(chunks) # 0
         /\ \E d \in 1 .. Len(chunks) : x \in ToSet(chunks[d])
<1>1. PICK d \in 1 .. Len(chunks) : x \in ToSet(chunks[d])
  BY AllIs DEF Good, Present, All
<1>2. x \in Modules
  BY <1>1, InChunk
<1>3. Len(chunks) # 0
  BY <1>1
<1> QED
  BY <1>1, <1>2, <1>3, ListAssumption

LEMMA ChunkInPresent ==
  ASSUME Good(chunks), NEW c \in 1 .. Len(chunks), NEW i \in 1 .. Len(chunks[c])
  PROVE  chunks[c][i] \in Present
BY InChunk, AllIs DEF Good, Present, All

LEMMA Overlap ==
  ASSUME Good(chunks), Disjoint, NEW x \in Present, NEW y \in Present,
         x.start < y.end, y.start < x.end
  PROVE  x = y
BY InPresent DEF Disjoint

(* max_known_code_address is the end of the last module, and that is an upper
   bound of every module's end as long as modules do not overlap. *)
THEOREM MaxCodeAddressIsMax == Spec => []MaxCodeIsMax
<1>1. ListInv => MaxCodeIsMax
  <2> SUFFICES ASSUME Good(chunks), Disjoint, NEW x \in Present
               PROVE  x.end <= max_known_code_address
    BY DEF ListInv, MaxCodeIsMax
  <2> DEFINE n == Len(chunks)
             s == chunks[n]
             l == s[Len(s)]
  <2>1. PICK d \in 1 .. n : x \in ToSet(chunks[d])
    BY InPresent
  <2>2. chunks \in Seq(Seq(Modules)) /\ n \in 1 .. Len(chunks) /\ chunks # <<>>
    BY <2>1 DEF Good
  <2>3. Len(s) \in 1 .. Len(s) /\ s \in Seq(Modules)
    BY <2>2, InChunk
  <2>4. max_known_code_address = l.end
    BY <2>2, <2>3 DEF max_known_code_address, Last
  <2>5. l \in Present /\ l \in ToSet(s)
    BY <2>2, <2>3, ChunkInPresent, InChunk
  <2>6. x.start <= l.start
    <3>1. CASE d = n
      <4>1. PICK i \in 1 .. Len(s) : x = s[i]
        BY <2>1, <2>2, <3>1, InChunk
      <4>2. i = Len(s) \/ i < Len(s)
        BY <2>3
      <4>3. \A j, k \in 1 .. Len(s) : j < k => s[j].start <= s[k].start
        BY <2>2, InChunk
      <4> QED
        BY <2>3, <2>5, <4>1, <4>2, <4>3, InPresent
    <3>2. CASE d < n
      BY <2>1, <2>2, <2>5, <3>2 DEF Good, Apart
    <3> QED
      BY <2>1, <2>2, <3>1, <3>2
  <2>7. x = l \/ x.end <= l.start \/ l.end <= x.start
    BY <2>5 DEF Disjoint
  <2>8. /\ x.start \in Nat /\ x.end \in Nat /\ x.start < x.end
        /\ l.start \in Nat /\ l.end \in Nat /\ l.start < l.end
    BY <2>5, InPresent
  <2> QED
    BY <2>4, <2>6, <2>7, <2>8
<1> QED
  BY <1>1, AlwaysListInv, PTL

(* A module that starts where the search found one is that one. *)
LEMMA FoundIsIt ==
  ASSUME Good(chunks), Disjoint, NEW a \in Nat, Len(chunks) # 0,
         NEW p \in Places(a), p.r.found, NEW m \in Present, m.start <= a, a < m.end
  PROVE  chunks[p.c][p.r.at] = m
<1> DEFINE x == chunks[p.c][p.r.at]
<1>1. p.c \in 1 .. Len(chunks) /\ p.r.at \in 1 .. Len(chunks[p.c]) /\ x.start = a
  BY PlaceIs
<1>2. x \in Present
  BY <1>1, ChunkInPresent
<1>3. x.start < x.end /\ x.end \in Nat /\ m.start \in Nat /\ m.end \in Nat
  BY <1>2, InPresent
<1> HIDE DEF x
<1>4. x.start < m.end /\ m.start < x.end
  BY <1>1, <1>3
<1> QED
  BY <1>2, <1>4, Overlap DEF x

(* A search that finds nothing ends after a module that starts before a. *)
LEMMA BeforePlace ==
  ASSUME Good(chunks), NEW a \in Nat, Len(chunks) # 0,
         NEW p \in Places(a), ~p.r.found, p.r.at > 1
  PROVE  /\ p.c \in 1 .. Len(chunks) /\ p.r.at - 1 \in 1 .. Len(chunks[p.c])
         /\ chunks[p.c][p.r.at - 1] \in Present /\ chunks[p.c][p.r.at - 1].start < a
<1>1. /\ p.c \in 1 .. Len(chunks) /\ p.r.at \in 1 .. Len(chunks[p.c]) + 1
      /\ \A i \in 1 .. Len(chunks[p.c]) :
           IF i < p.r.at THEN chunks[p.c][i].start < a ELSE a < chunks[p.c][i].start
  BY PlaceIs
<1>2. Len(chunks[p.c]) \in Nat
  BY <1>1, InChunk
<1>3. p.r.at - 1 \in 1 .. Len(chunks[p.c]) /\ p.r.at - 1 < p.r.at
  BY <1>1, <1>2
<1>4. chunks[p.c][p.r.at - 1] \in Present
  BY <1>1, <1>3, ChunkInPresent
<1> QED
  BY <1>1, <1>3, <1>4

(* Nothing that starts before a comes after the module before the place. *)
LEMMA LastBefore ==
  ASSUME Good(chunks), NEW a \in Nat, Len(chunks) # 0,
         NEW p \in Places(a), ~p.r.found, NEW m \in Present, m.start < a
  PROVE  p.r.at > 1 /\ m.start <= chunks[p.c][p.r.at - 1].start
<1> DEFINE c == p.c
           s == chunks[c]
           k == p.r.at
<1>1. /\ c \in chunk_index_for(a) /\ c \in 1 .. Len(chunks) /\ k \in 1 .. Len(s) + 1
      /\ \A i \in 1 .. Len(s) : IF i < k THEN s[i].start < a ELSE a < s[i].start
  BY PlaceIs
<1>2. Len(s) \in Nat /\ 1 \in 1 .. Len(s) /\ \A i \in 1 .. Len(s) : s[i].start \in Nat
  BY <1>1, InChunk
<1>3. \A i, j \in 1 .. Len(s) : i < j => s[i].start <= s[j].start
  BY <1>1, InChunk
<1>4. PICK d \in 1 .. Len(chunks) : m \in ToSet(chunks[d])
  BY InPresent
<1>5. d < c => m.start <= s[1].start
  BY <1>1, <1>4, Around
<1>6. d > c => m.start >= a
  BY <1>1, <1>4, Around
<1>7. s[1].start > a => c = 1
  BY <1>1, Around
<1>8. m.start \in Nat
  BY InPresent
<1>9. d = c => \E i \in 1 .. Len(s) : m = s[i]
  <2>1. \E i \in 1 .. Len(chunks[d]) : m = chunks[d][i]
    BY <1>4, InChunk
  <2> QED
    BY <2>1
<1> HIDE DEF s, k, c
<1>10. c \in Int /\ d \in Int /\ k \in Int /\ 1 <= k
  BY <1>1, <1>2
<1>11. d = c \/ d < c
  BY <1>6, <1>8, <1>10
<1>12. CASE d = c
  <2>1. PICK i \in 1 .. Len(s) : m = s[i]
    BY <1>9, <1>12
  <2>2. i < k
    BY <1>1, <1>2, <1>8, <2>1
  <2>3. k > 1 /\ k - 1 \in 1 .. Len(s) /\ (i = k - 1 \/ i < k - 1)
    BY <1>1, <1>2, <1>10, <2>2
  <2>4. m.start <= s[k - 1].start
    <3>1. CASE i = k - 1
      BY <1>8, <2>1, <3>1
    <3>2. CASE i < k - 1
      BY <1>3, <2>1, <2>3, <3>2
    <3> QED
      BY <2>3, <3>1, <3>2
  <2> QED
    BY <2>3, <2>4 DEF s, k, c
<1>13. CASE d < c
  <2>1. ~(s[1].start > a)
    BY <1>7, <1>13
  <2>2. k > 1
    <3>1. ~(1 < k) => a < s[1].start
      BY <1>1, <1>2
    <3> QED
      BY <1>2, <1>10, <2>1, <3>1
  <2>3. k - 1 \in 1 .. Len(s) /\ (k - 1 = 1 \/ 1 < k - 1)
    BY <1>1, <1>2, <1>10, <2>2
  <2>4. s[1].start <= s[k - 1].start
    <3>1. CASE k - 1 = 1
      BY <1>2, <3>1
    <3>2. CASE 1 < k - 1
      BY <1>2, <1>3, <2>3, <3>2
    <3> QED
      BY <2>3, <3>1, <3>2
  <2>5. s[1].start \in Nat /\ s[k - 1].start \in Nat
    BY <1>2, <2>3
  <2>6. m.start <= s[k - 1].start
    BY <1>5, <1>8, <1>13, <2>4, <2>5
  <2> QED
    BY <2>2, <2>6 DEF s, k, c
<1> QED
  BY <1>11, <1>12, <1>13

(* If no module starts at a, the module that contains a is the one before. *)
LEMMA BeforeIsIt ==
  ASSUME Good(chunks), Disjoint, NEW a \in Nat, Len(chunks) # 0,
         NEW p \in Places(a), ~p.r.found, NEW m \in Present, m.start <= a, a < m.end
  PROVE  p.r.at > 1 /\ chunks[p.c][p.r.at - 1] = m
<1>1. m.start \in Nat /\ m.end \in Nat /\ m.start < m.end
  BY InPresent
<1>2. m.start # a
  BY NoneMissed
<1>3. m.start < a
  BY <1>1, <1>2
<1> DEFINE x == chunks[p.c][p.r.at - 1]
<1>4. p.r.at > 1 /\ m.start <= x.start
  BY <1>3, LastBefore
<1>5. x \in Present /\ x.start < a
  BY <1>4, BeforePlace
<1> HIDE DEF x
<1>6. x.start \in Nat /\ x.end \in Nat /\ x.start < x.end
  BY <1>5, InPresent
<1>7. m.start < x.end /\ x.start < m.end
  BY <1>1, <1>4, <1>5, <1>6
<1>8. x = m
  BY <1>5, <1>7, Overlap
<1> QED
  BY <1>4, <1>8 DEF x

(* Among modules that do not overlap, find_module_for_address returns the module
   that contains the address, if its base is in reach, and no other. *)
THEOREM LookupIsExact == Spec => []LookupExact
<1>1. ListInv => LookupExact
  <2> SUFFICES ASSUME Good(chunks), Disjoint, NEW a \in Addrs
               PROVE  find_module_for_address(a) =
                        {m \in Present : m.start <= a /\ a < m.end /\ m.base <= a /\ a - m.base <= U32_MAX}
    BY DEF ListInv, LookupExact
  <2>0. a \in Nat /\ chunks \in Seq(Seq(Modules)) /\ Len(chunks) \in Nat
    BY ListAssumption DEF Good
  <2>1. CASE chunks = <<>>
    BY <2>1 DEF find_module_for_address, Present
  <2>2. CASE chunks # <<>>
    <3> DEFINE exact  == {chunks[p.c][p.r.at] : p \in {q \in Places(a) : q.r.found}}
               before == {chunks[p.c][p.r.at - 1] : p \in {q \in Places(a) : ~q.r.found /\ q.r.at > 1}}
               hits   == exact \cup {m \in before : a < m.end}
    <3>1. find_module_for_address(a) = {m \in hits : m.base <= a /\ a - m.base <= U32_MAX}
      BY <2>2 DEF find_module_for_address
    <3>2. Len(chunks) # 0
      BY <2>0, <2>2
    <3>3. ASSUME NEW m \in exact PROVE m \in Present /\ m.start = a
      <4>1. PICK p \in Places(a) : p.r.found /\ m = chunks[p.c][p.r.at]
        OBVIOUS
      <4>2. p.c \in 1 .. Len(chunks) /\ p.r.at \in 1 .. Len(chunks[p.c]) /\ m.start = a
        BY <2>0, <3>2, <4>1, PlaceIs
      <4> QED
        BY <4>1, <4>2, ChunkInPresent
    <3>4. ASSUME NEW m \in before PROVE m \in Present /\ m.start < a
      <4>1. PICK p \in Places(a) : ~p.r.found /\ p.r.at > 1 /\ m = chunks[p.c][p.r.at - 1]
        OBVIOUS
      <4> QED
        BY <2>0, <3>2, <4>1, BeforePlace
    <3>5. ASSUME NEW m \in Present, m.start <= a, a < m.end PROVE m \in hits
      <4>1. PICK p \in Places(a) : TRUE
        BY <2>0, <3>2, PlaceIs
      <4>2. CASE p.r.found
        <5>1. chunks[p.c][p.r.at] = m
          BY <2>0, <3>2, <3>5, <4>2, FoundIsIt
        <5> QED
          BY <4>2, <5>1
      <4>3. CASE ~p.r.found
        <5>1. p.r.at > 1 /\ chunks[p.c][p.r.at - 1] = m
          BY <2>0, <3>2, <3>5, <4>3, BeforeIsIt
        <5>2. m \in before
          BY <4>3, <5>1
        <5> HIDE DEF before
        <5> QED
          BY <3>5, <5>2
      <4> QED
        BY <4>2, <4>3
    <3> HIDE DEF exact, before
    <3>6. ASSUME NEW m \in hits PROVE m \in Present /\ m.start <= a /\ a < m.end
      <4>1. m \in Present /\ (m.start = a \/ (m.start < a /\ a < m.end))
        BY <3>3, <3>4
      <4>2. m.start \in Nat /\ m.end \in Nat /\ m.start < m.end
        BY <4>1, InPresent
      <4> QED
        BY <2>0, <4>1, <4>2
    <3> HIDE DEF hits
    <3> QED
      BY <3>1, <3>5, <3>6
  <2> QED
    BY <2>1, <2>2
<1> QED
  BY <1>1, AlwaysListInv, PTL

=============================================================================
