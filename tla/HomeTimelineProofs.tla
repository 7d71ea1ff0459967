-------------------------- MODULE HomeTimelineProofs --------------------------
(***************************************************************************)
(* Theorems about HomeTimeline, for any number of statuses, any page and   *)
(* any lengths at which the list is cut.                                   *)
(***************************************************************************)
EXTENDS HomeTimeline, SumTheorems, SequenceTheorems

--------------------------------------------------------------------------------
(* Sequences without some of their elements. *)

\* Of some numbers up to n, one is the first.
LEMMA First ==
  ASSUME NEW n \in Nat, NEW S, S \subseteq 0..n, S # {}
  PROVE  \E k \in S : \A m \in S : k <= m
<1>1. IsFiniteSet(S)
  <2>1. S \in SUBSET Nat /\ \A x \in S : x <= n
    OBVIOUS
  <2> QED
    BY <2>1, FS_BoundedSetOfNaturals
<1>2. \A x \in S : x \in Nat
  OBVIOUS
<1> QED
  BY <1>1, <1>2, Least

\* The recursion of Only, as far as m.
Fills(h, list, set, m) ==
  h = [n \in 0..m |-> IF n = 0 THEN <<>>
                      ELSE IF list[n] \in set THEN Append(h[n - 1], list[n]) ELSE h[n - 1]]

Filled(list, set) == CHOOSE h : Fills(h, list, set, Len(list))

LEMMA OnlyIsFilled ==
  ASSUME NEW list, NEW set
  PROVE  Only(list, set) = Filled(list, set)[Len(list)]
BY DEF Only, Filled, Fills

LEMMA FillsAt ==
  ASSUME NEW h, NEW list, NEW set, NEW m \in Nat, Fills(h, list, set, m), NEW n \in 0..m
  PROVE  h[n] = IF n = 0 THEN <<>>
                ELSE IF list[n] \in set THEN Append(h[n - 1], list[n]) ELSE h[n - 1]
BY DEF Fills

LEMMA SomeFills ==
  ASSUME NEW list, NEW set, NEW m \in Nat
  PROVE  \E h : Fills(h, list, set, m)
<1> DEFINE Bad == {n \in 0..m : ~\E h : Fills(h, list, set, n)}
<1>1. Bad = {}
  <2> SUFFICES ASSUME Bad # {} PROVE FALSE
    OBVIOUS
  <2>1. PICK n \in Bad : \A k \in Bad : n <= k
    <3>1. Bad \subseteq 0..m
      OBVIOUS
    <3> HIDE DEF Bad
    <3> QED
      BY <3>1, First
  <2>2. n # 0
    <3>1. Fills([k \in 0..0 |-> <<>>], list, set, 0)
      BY DEF Fills
    <3> QED
      BY <2>1, <3>1
  <2>3. n \in Nat /\ n - 1 \in Nat /\ n - 1 \in 0..m /\ n - 1 \notin Bad
    BY <2>1, <2>2
  <2>4. PICK g : Fills(g, list, set, n - 1)
    BY <2>3
  <2> DEFINE new == IF list[n] \in set THEN Append(g[n - 1], list[n]) ELSE g[n - 1]
             h == [k \in 0..n |-> IF k = n THEN new ELSE g[k]]
  <2>5. Fills(h, list, set, n)
    <3>1. \A k \in 0..(n - 1) :
            g[k] = IF k = 0 THEN <<>>
                   ELSE IF list[k] \in set THEN Append(g[k - 1], list[k]) ELSE g[k - 1]
      BY <2>3, <2>4, FillsAt
    <3>2. ASSUME NEW k \in 0..n
          PROVE  h[k] = IF k = 0 THEN <<>>
                        ELSE IF list[k] \in set THEN Append(h[k - 1], list[k]) ELSE h[k - 1]
      <4>1. CASE k = n
        BY <2>2, <2>3, <4>1
      <4>2. CASE k # n
        <5>1. k \in 0..(n - 1) /\ h[k] = g[k]
          BY <4>2, <2>3
        <5>2. k # 0 => h[k - 1] = g[k - 1]
          BY <5>1, <2>3
        <5> QED
          BY <5>1, <5>2, <3>1
      <4> QED
        BY <4>1, <4>2
    <3>3. h = [k \in 0..n |-> h[k]]
      OBVIOUS
    <3> HIDE DEF h
    <3> QED
      BY <3>2, <3>3 DEF Fills
  <2> QED
    BY <2>1, <2>5
<1> QED
  BY <1>1

\* So the recursion is what it says.
LEMMA FilledAt ==
  ASSUME NEW list, NEW set, Len(list) \in Nat, NEW n \in 0..Len(list)
  PROVE  Filled(list, set)[n] =
           IF n = 0 THEN <<>>
           ELSE IF list[n] \in set THEN Append(Filled(list, set)[n - 1], list[n])
           ELSE Filled(list, set)[n - 1]
<1>1. Fills(Filled(list, set), list, set, Len(list))
  BY SomeFills DEF Filled
<1> HIDE DEF Filled
<1> QED
  BY <1>1, FillsAt

\* r has the first m elements of the list that are in set, at the places f.
Picks(r, f, list, set, m) ==
  /\ f \in [1..Len(r) -> 1..m]
  /\ \A j, k \in 1..Len(r) : j < k => f[j] < f[k]
  /\ \A k \in 1..Len(r) : r[k] = list[f[k]] /\ list[f[k]] \in set
  /\ \A i \in 1..m : list[i] \in set => \E k \in 1..Len(r) : f[k] = i

LEMMA PicksNext ==
  ASSUME NEW T, NEW list \in Seq(T), NEW set, NEW m \in 0..Len(list), m + 1 <= Len(list),
         NEW r \in Seq(T), NEW f, Picks(r, f, list, set, m)
  PROVE  \E g : Picks(IF list[m + 1] \in set THEN Append(r, list[m + 1]) ELSE r, g, list, set, m + 1)
<1>1. CASE list[m + 1] \in set
  <2> DEFINE q == Append(r, list[m + 1])
             g == [k \in 1..(Len(r) + 1) |-> IF k = Len(r) + 1 THEN m + 1 ELSE f[k]]
  <2>1. list[m + 1] \in T
    BY ElementOfSeq
  <2>2. /\ Len(q) = Len(r) + 1 /\ Len(r) \in Nat
        /\ q[Len(r) + 1] = list[m + 1] /\ \A k \in 1..Len(r) : q[k] = r[k]
    BY <2>1, AppendProperties
  <2>3. g \in [1..Len(q) -> 1..(m + 1)]
    BY <2>2 DEF Picks
  <2>4. ASSUME NEW j \in 1..Len(q), NEW k \in 1..Len(q), j < k
        PROVE  g[j] < g[k]
    <3>1. j \in 1..Len(r) /\ g[j] = f[j] /\ f[j] \in 1..m
      BY <2>2, <2>4 DEF Picks
    <3>2. ASSUME k # Len(r) + 1
          PROVE  g[k] = f[k] /\ f[j] < f[k]
      <4>1. k \in 1..Len(r)
        BY <2>2, <3>2
      <4> QED
        BY <2>4, <3>1, <3>2, <4>1 DEF Picks
    <3>3. k = Len(r) + 1 => g[k] = m + 1
      BY <2>2
    <3> QED
      BY <3>1, <3>2, <3>3
  <2>5. \A k \in 1..Len(q) : q[k] = list[g[k]] /\ list[g[k]] \in set
    BY <2>2, <1>1 DEF Picks
  <2>6. ASSUME NEW i \in 1..(m + 1), list[i] \in set
        PROVE  \E k \in 1..Len(q) : g[k] = i
    <3>1. CASE i = m + 1
      <4>1. Len(r) + 1 \in 1..Len(q) /\ g[Len(r) + 1] = i
        BY <3>1, <2>2
      <4> QED
        BY <4>1
    <3>2. CASE i # m + 1
      <4>1. PICK k \in 1..Len(r) : f[k] = i
        BY <3>2, <2>6 DEF Picks
      <4>2. k \in 1..Len(q) /\ g[k] = i
        BY <4>1, <2>2
      <4> QED
        BY <4>2
    <3> QED
      BY <3>1, <3>2
  <2> HIDE DEF q, g
  <2>7. Picks(q, g, list, set, m + 1)
    BY <2>3, <2>4, <2>5, <2>6 DEF Picks
  <2> QED
    BY <2>7, <1>1 DEF q
<1>2. CASE list[m + 1] \notin set
  <2>1. Picks(r, f, list, set, m + 1)
    BY <1>2 DEF Picks
  <2> QED
    BY <2>1, <1>2
<1> QED
  BY <1>1, <1>2

\* What Only is: the elements that are in set, in the order they had.
LEMMA OnlyIs ==
  ASSUME NEW T, NEW list \in Seq(T), NEW set
  PROVE  /\ Only(list, set) \in Seq(T)
         /\ \E f : Picks(Only(list, set), f, list, set, Len(list))
<1> DEFINE h == Filled(list, set)
           Good(m) == h[m] \in Seq(T) /\ \E f : Picks(h[m], f, list, set, m)
           Bad == {m \in 0..Len(list) : ~Good(m)}
<1>0. Len(list) \in Nat
  BY LenProperties
<1>1. Bad = {}
  <2> SUFFICES ASSUME Bad # {} PROVE FALSE
    OBVIOUS
  <2>1. PICK m \in Bad : \A k \in Bad : m <= k
    <3>1. Bad \subseteq 0..Len(list)
      OBVIOUS
    <3> HIDE DEF Bad
    <3> QED
      BY <1>0, <3>1, First
  <2> HIDE DEF h
  <2>2. m # 0
    <3>1. h[0] = <<>>
      BY <1>0, FilledAt DEF h
    <3>2. Picks(<<>>, [k \in 1..0 |-> 0], list, set, 0)
      BY DEF Picks
    <3>3. Good(0)
      BY <3>1, <3>2
    <3> QED
      BY <2>1, <3>3
  <2>3. m - 1 \in 0..Len(list) /\ m - 1 \notin Bad
    BY <2>1, <2>2, <1>0
  <2>4. Good(m - 1)
    BY <2>3
  <2>5. PICK f : Picks(h[m - 1], f, list, set, m - 1)
    BY <2>4
  <2>6. h[m] = IF list[m] \in set THEN Append(h[m - 1], list[m]) ELSE h[m - 1]
    BY <1>0, <2>1, <2>2, FilledAt DEF h
  <2>7. h[m] \in Seq(T)
    BY <2>4, <2>6, <2>3, <2>1, <2>2, ElementOfSeq, AppendProperties, <1>0
  <2>8. \E g : Picks(h[m], g, list, set, m)
    <3> DEFINE n == m - 1
    <3>1. n \in 0..Len(list) /\ n + 1 <= Len(list) /\ n + 1 = m
      BY <2>3, <1>0, <2>1
    <3>2. h[n] \in Seq(T) /\ Picks(h[n], f, list, set, n)
      BY <2>4, <2>5
    <3> HIDE DEF n
    <3> QED
      BY <3>1, <3>2, <2>6, PicksNext
  <2> QED
    BY <2>1, <2>7, <2>8
<1>2. Good(Len(list))
  BY <1>0, <1>1
<1> QED
  BY <1>2, OnlyIsFilled

\* Between two neighbours of what is kept, nothing was to be kept.
LEMMA PicksNeighbours ==
  ASSUME NEW r, NEW f, NEW list, NEW set, NEW m \in Nat, Len(r) \in Nat, Picks(r, f, list, set, m),
         NEW i \in 1..m, list[i] \in set
  PROVE  /\ Len(r) # 0 /\ f[1] <= i
         /\ \A k \in 2..Len(r) : ~(f[k - 1] < i /\ i < f[k])
<1>1. PICK k \in 1..Len(r) : f[k] = i
  BY DEF Picks
<1>2. f[1] \in Int /\ f[k] \in Int /\ (1 < k => f[1] < f[k])
  BY <1>1 DEF Picks
<1>3. Len(r) # 0 /\ f[1] <= i
  BY <1>1, <1>2
<1>4. ASSUME NEW j \in 2..Len(r), f[j - 1] < i, i < f[j]
      PROVE  FALSE
  <2>1. j \in 1..Len(r) /\ j - 1 \in 1..Len(r)
    OBVIOUS
  <2>2. f[j] \in Int /\ f[j - 1] \in Int /\ f[k] \in Int
    <3>1. \A l \in 1..Len(r) : f[l] \in 1..m
      BY DEF Picks
    <3> QED
      BY <2>1, <3>1
  <2>3. CASE k < j - 1
    <3>1. f[k] < f[j - 1]
      BY <2>1, <2>3 DEF Picks
    <3> QED
      BY <3>1, <1>1, <1>4, <2>2
  <2>4. CASE k > j
    <3>1. f[j] < f[k]
      BY <2>1, <2>4 DEF Picks
    <3> QED
      BY <3>1, <1>1, <1>4, <2>2
  <2>5. CASE k = j \/ k = j - 1
    BY <2>5, <1>1, <1>4, <2>2
  <2> QED
    BY <2>3, <2>4, <2>5, <2>1
<1> QED
  BY <1>3, <1>4

\* What is all to be kept is kept as it is.
LEMMA OnlyAll ==
  ASSUME NEW T, NEW list \in Seq(T), NEW set, \A i \in 1..Len(list) : list[i] \in set
  PROVE  Only(list, set) = list
<1> DEFINE h == Filled(list, set)
           Bad == {m \in 0..Len(list) : h[m] # SubSeq(list, 1, m)}
<1>0. Len(list) \in Nat
  BY LenProperties
<1>1. Bad = {}
  <2> SUFFICES ASSUME Bad # {} PROVE FALSE
    OBVIOUS
  <2>1. PICK m \in Bad : \A k \in Bad : m <= k
    <3>1. Bad \subseteq 0..Len(list)
      OBVIOUS
    <3> HIDE DEF Bad
    <3> QED
      BY <1>0, <3>1, First
  <2> HIDE DEF h
  <2>2. m # 0
    <3>1. h[0] = <<>>
      BY <1>0, FilledAt DEF h
    <3>2. SubSeq(list, 1, 0) = <<>>
      OBVIOUS
    <3> QED
      BY <2>1, <3>1, <3>2
  <2>3. m \in 1..Len(list) /\ m - 1 \in 0..Len(list) /\ m - 1 \notin Bad
    BY <2>1, <2>2, <1>0
  <2>4. h[m - 1] = SubSeq(list, 1, m - 1)
    BY <2>3
  <2>5. h[m] = Append(h[m - 1], list[m])
    <3>1. h[m] = IF m = 0 THEN <<>> ELSE IF list[m] \in set THEN Append(h[m - 1], list[m]) ELSE h[m - 1]
      BY <1>0, <2>1, FilledAt DEF h
    <3> QED
      BY <3>1, <2>2, <2>3
  <2>6. Append(SubSeq(list, 1, m - 1), list[m]) = SubSeq(list, 1, m)
    <3>1. SubSeq(list, 1, m) = SubSeq(list, 1, m - 1) \o <<list[m]>>
      BY <2>3, <1>0, SubSeqRecursiveSecond
    <3>2. list[m] \in T /\ \A i \in 1..(m - 1) : list[i] \in T
      BY <2>3, <1>0, ElementOfSeq
    <3>3. SubSeq(list, 1, m - 1) \in Seq(T)
      BY <2>3, <1>0, <3>2, SubSeqProperties
    <3> QED
      BY <3>1, <3>2, <3>3, AppendIsConcat
  <2> QED
    BY <2>1, <2>4, <2>5, <2>6
<1>2. h[Len(list)] = SubSeq(list, 1, Len(list))
  BY <1>0, <1>1
<1>3. SubSeq(list, 1, Len(list)) = list
  BY SubSeqFull
<1> QED
  BY <1>2, <1>3, OnlyIsFilled

\* Of nothing to be kept, nothing is.
LEMMA OnlyNone ==
  ASSUME NEW T, NEW list \in Seq(T), NEW set, \A i \in 1..Len(list) : list[i] \notin set
  PROVE  Only(list, set) = <<>>
<1>1. PICK f : Picks(Only(list, set), f, list, set, Len(list))
  BY OnlyIs
<1> DEFINE r == Only(list, set)
<1>2. r \in Seq(T)
  BY OnlyIs
<1> HIDE DEF r
<1>3. Len(r) \in Nat /\ (Len(r) # 0 => f[1] \in 1..Len(list) /\ list[f[1]] \in set)
  <2>1. Len(r) \in Nat
    BY <1>2, LenProperties
  <2>2. Picks(r, f, list, set, Len(list))
    BY <1>1 DEF r
  <2> QED
    BY <2>1, <2>2 DEF Picks
<1>4. Len(r) = 0
  BY <1>3
<1>5. r = <<>>
  BY <1>2, <1>4, EmptySeq
<1> QED
  BY <1>5 DEF r

\* LastPlace is the last place.
LEMMA LastPlaceIs ==
  ASSUME NEW list, NEW n \in Nat, NEW set
  PROVE  /\ LastPlace(list, n, set) \in 0..n
         /\ LastPlace(list, n, set) # 0 => list[LastPlace(list, n, set)] \in set
         /\ \A i \in 1..n : i > LastPlace(list, n, set) => list[i] \notin set
<1> DEFINE at == {i \in 1..n : list[i] \in set}
<1>1. CASE at = {}
  BY <1>1 DEF LastPlace
<1>2. CASE at # {}
  <2>1. \E x \in at : \A y \in at : x >= y
    <3> DEFINE back == {n - i : i \in at}
    <3>1. back \subseteq 0..n /\ back # {}
      BY <1>2
    <3>2. PICK k \in back : \A m \in back : k <= m
      <4> HIDE DEF back
      <4> QED
        BY <3>1, First
    <3>3. PICK x \in at : k = n - x
      OBVIOUS
    <3>4. ASSUME NEW y \in at PROVE x >= y
      <4>1. n - y \in back
        OBVIOUS
      <4>2. k <= n - y
        BY <4>1, <3>2
      <4> QED
        BY <4>2, <3>3
    <3> QED
      BY <3>4
  <2>2. Max(at) \in at /\ \A y \in at : Max(at) >= y
    BY <2>1 DEF Max
  <2>3. LastPlace(list, n, set) = Max(at)
    BY <1>2 DEF LastPlace
  <2> HIDE DEF at
  <2>4. \A i \in 1..n : list[i] \in set => i \in at
    BY DEF at
  <2>5. Max(at) \in 1..n /\ list[Max(at)] \in set
    BY <2>2 DEF at
  <2> QED
    BY <2>2, <2>3, <2>4, <2>5
<1> QED
  BY <1>1, <1>2

\* What a list has between two of its places.
LEMMA PieceIs ==
  ASSUME NEW T, NEW list \in Seq(T), NEW n \in 0..Len(list), NEW m \in 0..n
  PROVE  /\ SubSeq(list, m + 1, n) \in Seq(T)
         /\ Len(SubSeq(list, m + 1, n)) = n - m
         /\ \A i \in 1..(n - m) : SubSeq(list, m + 1, n)[i] = list[m + i]
<1> DEFINE c == SubSeq(list, m + 1, n)
<1>0. Len(list) \in Nat /\ n \in Int /\ m \in Int /\ 0 <= m /\ m <= n /\ n <= Len(list)
  BY LenProperties
<1>1. \A i \in (m + 1)..n : list[i] \in T
  BY <1>0, ElementOfSeq
<1>2. /\ c \in Seq(T)
      /\ Len(c) = IF m + 1 <= n THEN n - (m + 1) + 1 ELSE 0
      /\ \A i \in 1..(n - (m + 1) + 1) : c[i] = list[(m + 1) + i - 1]
  BY <1>0, <1>1, SubSeqProperties
<1> HIDE DEF c
<1>3. n - (m + 1) + 1 = n - m
  BY <1>0
<1>4. ASSUME NEW i \in 1..(n - m) PROVE c[i] = list[m + i]
  <2>1. (m + 1) + i - 1 = m + i
    BY <1>0
  <2> QED
    BY <1>2, <1>3, <2>1
<1>5. Len(c) = n - m
  BY <1>0, <1>2
<1> QED
  BY <1>2, <1>4, <1>5 DEF c

\* A piece of a list replaced by ids: where each element is then.
Spliced(list, first, ids, last) == SubSeq(list, 1, first) \o ids \o SubSeq(list, last + 1, Len(list))

LEMMA SplicedIs ==
  ASSUME NEW T, NEW list \in Seq(T), NEW ids \in Seq(T),
         NEW last \in 0..Len(list), NEW first \in 0..last
  PROVE  /\ Spliced(list, first, ids, last) \in Seq(T)
         /\ Len(Spliced(list, first, ids, last)) = first + Len(ids) + Len(list) - last
         /\ \A k \in 1..(first + Len(ids) + Len(list) - last) :
              Spliced(list, first, ids, last)[k] =
                IF k <= first THEN list[k]
                ELSE IF k <= first + Len(ids) THEN ids[k - first]
                ELSE list[k - first - Len(ids) + last]
<1>1. Len(list) \in Nat /\ Len(ids) \in Nat
  BY LenProperties
<1>2. first \in Int /\ last \in Int /\ first <= last /\ last <= Len(list) /\ 0 <= first
  BY <1>1
<1>3. PICK a : a = SubSeq(list, 1, first)
  OBVIOUS
<1>4. PICK c : c = SubSeq(list, last + 1, Len(list))
  OBVIOUS
<1>5. a \in Seq(T) /\ Len(a) = first /\ \A i \in 1..first : a[i] = list[i]
  <2>1. first \in 0..Len(list) /\ 0 \in 0..first /\ 0 + 1 = 1 /\ first - 0 = first
    BY <1>1, <1>2
  <2>2. /\ SubSeq(list, 1, first) \in Seq(T) /\ Len(SubSeq(list, 1, first)) = first
        /\ \A i \in 1..first : SubSeq(list, 1, first)[i] = list[0 + i]
    BY <2>1, PieceIs
  <2> QED
    BY <1>3, <2>2, <1>2
<1>6. c \in Seq(T) /\ Len(c) = Len(list) - last /\ \A i \in 1..(Len(list) - last) : c[i] = list[last + i]
  <2>1. Len(list) \in 0..Len(list) /\ last \in 0..Len(list)
    BY <1>1, <1>2
  <2> QED
    BY <2>1, <1>4, PieceIs
<1>7. PICK ac : ac = a \o ids
  OBVIOUS
<1>8. /\ ac \in Seq(T) /\ Len(ac) = first + Len(ids)
      /\ \A k \in 1..(first + Len(ids)) : ac[k] = IF k <= first THEN a[k] ELSE ids[k - first]
  BY <1>5, <1>7, ConcatProperties
<1>9. PICK r : r = ac \o c
  OBVIOUS
<1>10. /\ r \in Seq(T) /\ Len(r) = Len(ac) + Len(c)
       /\ \A k \in 1..(Len(ac) + Len(c)) : r[k] = IF k <= Len(ac) THEN ac[k] ELSE c[k - Len(ac)]
  <2>1. ac \in Seq(T) /\ c \in Seq(T)
    BY <1>6, <1>8
  <2> QED
    BY <1>9, <2>1, ConcatProperties
<1>11. Spliced(list, first, ids, last) = r
  BY <1>3, <1>4, <1>7, <1>9 DEF Spliced
<1>12. Len(ac) + Len(c) = first + Len(ids) + Len(list) - last
  BY <1>1, <1>2, <1>6, <1>8
<1>13. ASSUME NEW k \in 1..(first + Len(ids) + Len(list) - last)
       PROVE  r[k] = IF k <= first THEN list[k]
                     ELSE IF k <= first + Len(ids) THEN ids[k - first]
                     ELSE list[k - first - Len(ids) + last]
  <2>1. CASE k <= first + Len(ids)
    <3>1. k \in 1..(first + Len(ids)) /\ r[k] = ac[k]
      BY <1>1, <1>2, <1>8, <1>10, <1>12, <2>1
    <3>2. k <= first => k \in 1..first
      BY <3>1
    <3> QED
      BY <1>1, <1>2, <1>5, <1>8, <3>1, <3>2, <2>1
  <2>2. CASE k > first + Len(ids)
    <3>1. r[k] = c[k - Len(ac)]
      BY <1>1, <1>2, <1>8, <1>10, <1>12, <2>2
    <3>2. /\ k - Len(ac) \in 1..(Len(list) - last)
          /\ k - first - Len(ids) + last = last + (k - Len(ac))
      BY <1>1, <1>2, <1>8, <2>2
    <3>3. c[k - Len(ac)] = list[last + (k - Len(ac))]
      BY <1>6, <3>2
    <3>4. ~(k <= first) /\ ~(k <= first + Len(ids))
      BY <1>1, <1>2, <2>2
    <3>5. r[k] = list[k - first - Len(ids) + last]
      BY <3>1, <3>2, <3>3
    <3> QED
      BY <3>4, <3>5
  <2> QED
    BY <1>1, <1>2, <2>1, <2>2
<1> QED
  BY <1>10, <1>11, <1>12, <1>13

Lists == Seq(Ids \cup {Gap})

LEMMA SplicedLen ==
  ASSUME NEW list \in Lists, NEW ids \in Lists,
         NEW last \in 0..Len(list), NEW first \in 0..last
  PROVE  Len(Spliced(list, first, ids, last)) = first + Len(ids) + Len(list) - last
BY SplicedIs DEF Lists

LEMMA SplicedAt ==
  ASSUME NEW list \in Lists, NEW ids \in Lists,
         NEW last \in 0..Len(list), NEW first \in 0..last,
         NEW k \in 1..(first + Len(ids) + Len(list) - last)
  PROVE  Spliced(list, first, ids, last)[k] =
           IF k <= first THEN list[k]
           ELSE IF k <= first + Len(ids) THEN ids[k - first]
           ELSE list[k - first - Len(ids) + last]
BY SplicedIs DEF Lists

\* What Only keeps is of the set.
LEMMA OnlyTyped ==
  ASSUME NEW T, NEW list \in Seq(T), NEW set
  PROVE  Only(list, set) \in Seq(T) /\ Only(list, set) \in Seq(T \cap set)
<1>1. PICK r : r = Only(list, set)
  OBVIOUS
<1>2. r \in Seq(T) /\ \E f : Picks(r, f, list, set, Len(list))
  BY <1>1, OnlyIs
<1>3. PICK f : Picks(r, f, list, set, Len(list))
  BY <1>2
<1>4. Len(r) \in Nat /\ r = [k \in 1..Len(r) |-> r[k]]
  BY <1>2, LenProperties
<1>5. \A k \in 1..Len(r) : r[k] \in set /\ r[k] \in T /\ f[k] \in 1..Len(list) /\ r[k] = list[f[k]]
  BY <1>2, <1>3, ElementOfSeq DEF Picks
<1>6. r \in [1..Len(r) -> T \cap set]
  BY <1>4, <1>5
<1>7. r \in Seq(T \cap set)
  BY <1>4, <1>6, SeqDef
<1> QED
  BY <1>1, <1>2, <1>5, <1>7

LEMMA OnlyFrom ==
  ASSUME NEW list \in Lists, NEW set, NEW k \in 1..Len(Only(list, set))
  PROVE  Only(list, set)[k] \in set /\ \E i \in 1..Len(list) : Only(list, set)[k] = list[i]
<1>1. PICK f : Picks(Only(list, set), f, list, set, Len(list))
  BY OnlyIs DEF Lists
<1>2. f[k] \in 1..Len(list) /\ Only(list, set)[k] = list[f[k]] /\ list[f[k]] \in set
  BY <1>1 DEF Picks
<1> QED
  BY <1>2

--------------------------------------------------------------------------------
(* Where an answer goes, and what it brings. *)

LowCut(list, ids) == LastPlace(list, Len(list), From(Last(ids)))
HighCut(list, ids) == LastPlace(list, LowCut(list, ids), From(Head(ids) + 1))
Older(list, ids) == Only(SubSeq(list, HighCut(list, ids) + 1, LowCut(list, ids)), Before(Last(ids)))
Elsewhere(list, ids) == ToSet(SubSeq(list, 1, HighCut(list, ids)))
                          \cup ToSet(SubSeq(list, LowCut(list, ids) + 1, Len(list)))
Inserted(list, ids) == Only(ids \o Older(list, ids), Ids \ Elsewhere(list, ids))

LEMMA CutsAre ==
  ASSUME NEW T, NEW list \in Seq(T), NEW ids
  PROVE  LowCut(list, ids) \in 0..Len(list) /\ HighCut(list, ids) \in 0..LowCut(list, ids)
<1>1. LowCut(list, ids) \in 0..Len(list)
  BY LenProperties, LastPlaceIs DEF LowCut
<1>2. LowCut(list, ids) \in Nat
  BY <1>1, LenProperties
<1> QED
  BY <1>1, <1>2, LastPlaceIs DEF HighCut

LEMMA EndsOf ==
  ASSUME NEW T, NEW ids \in Seq(T), ids # <<>>
  PROVE  /\ Len(ids) \in Nat \ {0} /\ Head(ids) = ids[1] /\ Last(ids) = ids[Len(ids)]
         /\ Head(ids) \in T /\ Last(ids) \in T
<1>1. Len(ids) \in Nat /\ Len(ids) # 0
  BY LenProperties, EmptySeq
<1>2. 1 \in 1..Len(ids) /\ Len(ids) \in 1..Len(ids)
  BY <1>1
<1>3. ids[1] \in T /\ ids[Len(ids)] \in T
  BY <1>2, ElementOfSeq
<1> QED
  BY <1>1, <1>3, HeadTailProperties DEF Last

LEMMA OlderIs ==
  ASSUME NEW list \in Seq(Ids \cup {Gap}), NEW ids \in Seq(Ids), ids # <<>>
  PROVE  Older(list, ids) \in Seq(Ids)
<1>1. SubSeq(list, HighCut(list, ids) + 1, LowCut(list, ids)) \in Seq(Ids \cup {Gap})
  BY CutsAre, PieceIs
<1>2. Older(list, ids) \in Seq((Ids \cup {Gap}) \cap Before(Last(ids)))
  BY <1>1, OnlyTyped DEF Older
<1>3. (Ids \cup {Gap}) \cap Before(Last(ids)) \subseteq Ids
  <2>1. Last(ids) \in Ids
    BY EndsOf
  <2> QED
    BY <2>1, HomeTimelineAssumption DEF Before, Ids
<1> QED
  BY <1>2, <1>3, SeqDef

LEMMA ExpandedIs ==
  ASSUME NEW list \in Seq(Ids \cup {Gap}), NEW ids \in Seq(Ids), ids # <<>>
  PROVE  /\ Inserted(list, ids) \in Seq(Ids)
         /\ Expanded(list, ids) = Spliced(list, HighCut(list, ids), Inserted(list, ids), LowCut(list, ids))
<1>1. ids \o Older(list, ids) \in Seq(Ids)
  BY OlderIs, ConcatProperties
<1>2. Inserted(list, ids) \in Seq(Ids)
  BY <1>1, OnlyTyped DEF Inserted
<1>3. Expanded(list, ids) = Spliced(list, HighCut(list, ids), Inserted(list, ids), LowCut(list, ids))
  BY DEF Expanded, Spliced, Inserted, Elsewhere, Older, HighCut, LowCut
<1> QED
  BY <1>2, <1>3

--------------------------------------------------------------------------------
(* The types. *)

LEMMA ExpandedTyped ==
  ASSUME NEW list \in Lists, NEW ids \in Seq(Ids), ids # <<>>
  PROVE  Expanded(list, ids) \in Lists
<1>1. Inserted(list, ids) \in Seq(Ids \cup {Gap})
  <2>1. Inserted(list, ids) \in Seq(Ids)
    BY ExpandedIs DEF Lists
  <2> QED
    BY <2>1, SeqDef
<1>2. LowCut(list, ids) \in 0..Len(list) /\ HighCut(list, ids) \in 0..LowCut(list, ids)
  BY CutsAre DEF Lists
<1>3. Expanded(list, ids) = Spliced(list, HighCut(list, ids), Inserted(list, ids), LowCut(list, ids))
  BY ExpandedIs DEF Lists
<1> QED
  BY <1>1, <1>2, <1>3, SplicedIs DEF Lists

LEMMA MarkedTyped ==
  ASSUME NEW list \in Lists
  PROVE  Marked(list) \in Lists
<1>1. <<Gap>> \in Lists
  BY DEF Lists
<1> QED
  BY <1>1, ConcatProperties DEF Marked, Lists

LEMMA RequestTyped ==
  ASSUME NEW list \in Lists, NEW max \in Ids \cup {None}, NEW fill \in BOOLEAN,
         NEW loop \in Loops \cup {0}
  PROVE  Request(list, max, fill, loop) \in Calls
<1>1. list # <<>> => Head(list) \in Ids \cup {Gap}
  BY HeadTailProperties DEF Lists
<1> QED
  BY <1>1 DEF Request, Calls

LEMMA Bounds == {MaxStatus, Page, Full, Kept} \subseteq Nat /\ Page > 0 /\ Kept > 0 /\ Kept <= Full /\ Gap \notin Nat
BY HomeTimelineAssumption

LEMMA InitTyped == Init => TypeOK
<1> SUFFICES ASSUME Init PROVE TypeOK
  OBVIOUS
<1>1. published \in 0..MaxStatus /\ feed \subseteq Ids /\ live \in BOOLEAN
  <2>1. published = 0 /\ feed = {} /\ live = FALSE
    BY DEF Init
  <2>2. published \in 0..MaxStatus /\ feed \subseteq Ids
    BY <2>1, Bounds
  <2>3. live \in BOOLEAN
    BY <2>1
  <2> QED
    BY <2>2, <2>3
<1>2. wire \in Seq([event : {"update", "delete"}, id : Ids]) /\ items \in Seq(Ids \cup {Gap})
  <2>1. wire = <<>> /\ items = <<>>
    BY DEF Init
  <2>2. <<>> \in Seq([event : {"update", "delete"}, id : Ids]) /\ <<>> \in Seq(Ids \cup {Gap})
    OBVIOUS
  <2> QED
    BY <2>1, <2>2
<1>3. loops \in [Loops -> {"none", "timer", "wait", "rest"}] /\ pollingId \in Loops \cup {0}
  BY DEF Init
<1>4. {hasMore, top, online} \subseteq BOOLEAN /\ call \in Calls \cup {None} /\ drops \in Nat /\ slips \subseteq Slips
  BY DEF Init
<1> QED
  BY <1>1, <1>2, <1>3, <1>4 DEF TypeOK

LEMMA SendTyped ==
  ASSUME TypeOK, NEW event \in {"update", "delete"}, NEW id \in Ids, Send(event, id)
  PROVE  wire' \in Seq([event : {"update", "delete"}, id : Ids])
<1>1. [event |-> event, id |-> id] \in [event : {"update", "delete"}, id : Ids]
  OBVIOUS
<1>2. Append(wire, [event |-> event, id |-> id]) \in Seq([event : {"update", "delete"}, id : Ids])
  BY <1>1, AppendProperties DEF TypeOK
<1> QED
  BY <1>2 DEF Send, TypeOK

LEMMA OverTyped ==
  ASSUME TypeOK, call # None, NEW list \in Lists, Over(list)
  PROVE  call' \in Calls \cup {None} /\ loops' \in [Loops -> {"none", "timer", "wait", "rest"}]
         /\ pollingId' = pollingId
<1>1. call \in Calls
  BY DEF TypeOK
<1>2. call.loop \in Loops \cup {0}
  BY <1>1 DEF Calls
<1>3. call' \in Calls \cup {None}
  BY RequestTyped DEF Over
<1>4. loops' \in [Loops -> {"none", "timer", "wait", "rest"}]
  BY <1>2 DEF Over, TypeOK
<1> QED
  BY <1>3, <1>4 DEF Over

LEMMA ConnectedTyped ==
  ASSUME TypeOK, NEW list \in Lists, Connected(list)
  PROVE  TypeOK'
<1>1. Request(list, None, Len(list) > 1, 0) \in Calls
  <2>1. list # <<>> => Head(list) \in Ids \cup {Gap}
    BY HeadTailProperties DEF Lists
  <2> QED
    BY <2>1 DEF Request, Calls
<1>2. call' \in Calls \cup {None}
  BY <1>1 DEF TypeOK, Connected
<1>3. loops' \in [Loops -> {"none", "timer", "wait", "rest"}] /\ pollingId' \in Loops \cup {0}
  BY DEF TypeOK, Connected
<1>4. items' \in Seq(Ids \cup {Gap}) /\ {hasMore', top', online'} \subseteq BOOLEAN
  BY DEF Lists, TypeOK, Connected
<1>5. UNCHANGED <<published, feed, live, wire, drops, slips>>
  BY DEF Connected, server
<1> QED
  BY <1>2, <1>3, <1>4, <1>5 DEF TypeOK

\* A step that changes no more than the request and the polling loops.
LEMMA AskTyped ==
  ASSUME TypeOK, UNCHANGED <<server, timeline, drops, slips>>,
         call' \in Calls \cup {None}, loops' \in [Loops -> {"none", "timer", "wait", "rest"}],
         pollingId' \in Loops \cup {0}
  PROVE  TypeOK'
BY DEF TypeOK, server, timeline

LEMMA AskedTyped ==
  ASSUME TypeOK, Visit \/ LoadOlder \/ Fail \/ (\E i \in DOMAIN items : LoadGap(i))
                   \/ (\E l \in Loops : Poll(l) \/ Rearm(l))
  PROVE  TypeOK'
<1>0. /\ items \in Lists /\ call \in Calls \cup {None}
      /\ loops \in [Loops -> {"none", "timer", "wait", "rest"}] /\ pollingId \in Loops \cup {0}
  BY DEF TypeOK, Lists
<1>1. CASE Visit
  <2>1. call' \in Calls
    BY <1>0, <1>1, RequestTyped DEF Visit
  <2>2. UNCHANGED <<server, timeline, drops, slips, loops, pollingId>>
    BY <1>1 DEF Visit, polling
  <2> QED
    BY <1>0, <2>1, <2>2, AskTyped
<1>2. CASE LoadOlder
  <2>1. items # <<>> /\ Last(items) \in Ids \cup {Gap}
    BY <1>0, <1>2, EndsOf DEF LoadOlder, Lists
  <2>2. call' \in Calls
    BY <1>0, <1>2, <2>1, RequestTyped DEF LoadOlder
  <2>3. UNCHANGED <<server, timeline, drops, slips, loops, pollingId>>
    BY <1>2 DEF LoadOlder, polling
  <2> QED
    BY <1>0, <2>2, <2>3, AskTyped
<1>3. CASE Fail
  <2>1. call # None /\ Over(items) /\ UNCHANGED <<server, timeline, drops, slips>>
    BY <1>3 DEF Fail
  <2> QED
    BY <1>0, <2>1, OverTyped, AskTyped
<1>4. ASSUME NEW i \in DOMAIN items, LoadGap(i)
      PROVE  TypeOK'
  <2>1. i > 1 => items[i - 1] \in Ids \cup {Gap}
    BY <1>0, ElementOfSeq DEF Lists
  <2>2. call' \in Calls
    BY <1>0, <1>4, <2>1, RequestTyped DEF LoadGap
  <2>3. UNCHANGED <<server, timeline, drops, slips, loops, pollingId>>
    BY <1>4 DEF LoadGap, polling
  <2> QED
    BY <1>0, <2>2, <2>3, AskTyped
<1>5. ASSUME NEW l \in Loops, Poll(l)
      PROVE  TypeOK'
  <2>1. call' \in Calls \cup {None}
    <3>1. None \in Ids \cup {None} /\ FALSE \in BOOLEAN /\ l \in Loops \cup {0}
      OBVIOUS
    <3>2. Request(items, None, FALSE, l) \in Calls
      BY <1>0, <3>1, RequestTyped
    <3> QED
      BY <1>0, <1>5, <3>2 DEF Poll
  <2>2. UNCHANGED <<server, timeline, drops, slips, pollingId>>
        /\ loops' \in [Loops -> {"none", "timer", "wait", "rest"}]
    BY <1>0, <1>5 DEF Poll
  <2> QED
    BY <1>0, <2>1, <2>2, AskTyped
<1>6. ASSUME NEW l \in Loops, Rearm(l)
      PROVE  TypeOK'
  <2>1. UNCHANGED <<server, timeline, drops, slips, call>>
        /\ loops' \in [Loops -> {"none", "timer", "wait", "rest"}] /\ pollingId' \in Loops \cup {0}
    BY <1>0, <1>6 DEF Rearm
  <2> QED
    BY <1>0, <2>1, AskTyped
<1> QED
  BY <1>1, <1>2, <1>3, <1>4, <1>5, <1>6

\* What is asked for is of the feed, and an answer of it.
LEMMA AnswerIs ==
  ASSUME TypeOK, Answer
  PROVE  \E n \in Nat, ids \in Seq(Ids) :
           /\ ids \in [1..n -> Wanted(call)] /\ Len(ids) = n /\ NewestFirst(ids, Wanted(call))
           /\ call' = [call EXCEPT !.answer = ids, !.cut = ToSet(ids) # Wanted(call)]
<1>1. Wanted(call) \subseteq Ids /\ IsFiniteSet(Wanted(call))
  <2>1. Wanted(call) \subseteq Ids
    BY DEF Wanted, TypeOK
  <2>2. IsFiniteSet(Ids)
    BY Bounds, FS_Interval DEF Ids
  <2> QED
    BY <2>1, <2>2, FS_Subset
<1>2. Cardinality(Wanted(call)) \in Nat
  BY <1>1, FS_CardinalityType
<1> DEFINE n == IF Cardinality(Wanted(call)) < Page THEN Cardinality(Wanted(call)) ELSE Page
<1>3. n \in Nat
  BY <1>2, Bounds
<1>4. PICK ids \in [1..n -> Wanted(call)] :
        /\ NewestFirst(ids, Wanted(call))
        /\ call' = [call EXCEPT !.answer = ids, !.cut = ToSet(ids) # Wanted(call)]
  BY DEF Answer
<1> HIDE DEF n
<1>5. ids \in [1..n -> Ids]
  BY <1>1
<1>6. ids \in Seq(Ids) /\ Len(ids) = n
  BY <1>3, <1>5, SeqDef
<1> QED
  BY <1>3, <1>4, <1>6

LEMMA AnswerTyped ==
  ASSUME TypeOK, Answer
  PROVE  TypeOK'
<1>1. call \in Calls /\ UNCHANGED <<server, timeline, drops, slips, loops, pollingId>>
  BY DEF TypeOK, Answer, polling
<1>2. PICK ids \in Seq(Ids) : call' = [call EXCEPT !.answer = ids, !.cut = ToSet(ids) # Wanted(call)]
  BY AnswerIs
<1>3. call' \in Calls
  BY <1>1, <1>2 DEF Calls
<1> QED
  BY <1>1, <1>3, AskTyped DEF TypeOK

LEMMA ArriveTyped ==
  ASSUME TypeOK, Arrive
  PROVE  TypeOK'
<1>0. call \in Calls /\ call # None /\ call.answer # None /\ items \in Lists
  BY DEF TypeOK, Arrive, Lists
<1>1. call.answer \in Seq(Ids)
  BY <1>0 DEF Calls
<1>2. PICK list : /\ list = IF call.answer = <<>> THEN items ELSE Expanded(items, call.answer)
                  /\ items' = list /\ Over(list)
  BY DEF Arrive
<1>3. list \in Lists
  BY <1>0, <1>1, <1>2, ExpandedTyped
<1>4. call' \in Calls \cup {None} /\ loops' \in [Loops -> {"none", "timer", "wait", "rest"}]
      /\ pollingId' = pollingId
  BY <1>0, <1>2, <1>3, OverTyped
<1>5. hasMore' \in BOOLEAN
  BY DEF Arrive
<1>6. UNCHANGED <<published, feed, live, wire, top, online, drops>>
  BY DEF Arrive, server
<1>7. slips' \subseteq Slips
  BY DEF Arrive, TypeOK, Slips
<1> QED
  BY <1>2, <1>3, <1>4, <1>5, <1>6, <1>7 DEF TypeOK, Lists

LEMMA FeedTyped ==
  ASSUME TypeOK, Publish \/ (\E s \in feed : Delete(s)) \/ GoLive \/ Scroll
  PROVE  TypeOK'
<1>1. CASE Publish
  <2>1. published' \in 0..MaxStatus /\ published' \in Ids
    BY <1>1, Bounds DEF Publish, TypeOK, Ids
  <2>2. feed' \subseteq Ids
    BY <2>1, <1>1 DEF Publish, TypeOK
  <2>3. wire' \in Seq([event : {"update", "delete"}, id : Ids])
    BY <2>1, <1>1, SendTyped DEF Publish
  <2>4. slips' \subseteq Slips /\ UNCHANGED <<live, items, hasMore, top, online, call, loops, pollingId, drops>>
    BY <1>1 DEF Publish, TypeOK, Slips, timeline, polling
  <2> QED
    BY <2>1, <2>2, <2>3, <2>4 DEF TypeOK
<1>2. ASSUME NEW s \in feed, Delete(s)
      PROVE  TypeOK'
  <2>1. s \in Ids
    BY DEF TypeOK
  <2>2. wire' \in Seq([event : {"update", "delete"}, id : Ids])
    BY <2>1, <1>2, SendTyped DEF Delete
  <2>3. /\ feed' \subseteq Ids
        /\ UNCHANGED <<published, live, items, hasMore, top, online, call, loops, pollingId, drops, slips>>
    BY <1>2 DEF Delete, TypeOK, timeline, polling
  <2> QED
    BY <2>2, <2>3 DEF TypeOK
<1>3. CASE GoLive
  <2>1. live' \in BOOLEAN
    BY <1>3 DEF GoLive
  <2>2. UNCHANGED <<published, feed, wire, items, hasMore, top, online, call, loops, pollingId, drops, slips>>
    BY <1>3 DEF GoLive, timeline, polling
  <2> QED
    BY <2>1, <2>2 DEF TypeOK
<1>4. CASE Scroll
  <2>1. top' \in BOOLEAN
    BY <1>4 DEF Scroll
  <2>2. UNCHANGED <<published, feed, live, wire, items, hasMore, online, call, loops, pollingId, drops, slips>>
    BY <1>4 DEF Scroll, server, polling
  <2> QED
    BY <2>1, <2>2 DEF TypeOK
<1> QED
  BY <1>1, <1>2, <1>3, <1>4

LEMMA LinkTyped ==
  ASSUME TypeOK, Connect \/ Disconnect
  PROVE  TypeOK'
<1>0. items \in Lists /\ Marked(items) \in Lists
  BY MarkedTyped DEF TypeOK, Lists
<1>1. CASE Connect
  BY <1>0, <1>1, ConnectedTyped DEF Connect
<1>2. CASE Disconnect
  <2>1. live' \in BOOLEAN /\ online' \in BOOLEAN
    BY <1>2 DEF Disconnect
  <2>2. wire' \in Seq([event : {"update", "delete"}, id : Ids])
    <3>1. wire' = <<>>
      BY <1>2 DEF Disconnect
    <3>2. <<>> \in Seq([event : {"update", "delete"}, id : Ids])
      OBVIOUS
    <3> QED
      BY <3>1, <3>2
  <2>3. items' \in Seq(Ids \cup {Gap})
    BY <1>0, <1>2 DEF Disconnect, Lists
  <2>4. loops' \in [Loops -> {"none", "timer", "wait", "rest"}] /\ pollingId' \in Loops \cup {0}
    BY <1>2 DEF Disconnect, TypeOK
  <2>5. drops' \in Nat /\ slips' \subseteq Slips
    BY <1>2 DEF Disconnect, TypeOK, Slips
  <2>6. UNCHANGED <<published, feed, hasMore, top, call>>
    BY <1>2 DEF Disconnect
  <2> QED
    BY <2>1, <2>2, <2>3, <2>4, <2>5, <2>6 DEF TypeOK
<1> QED
  BY <1>1, <1>2

\* What is received, and what it leaves on the wire.
LEMMA WireIs ==
  ASSUME TypeOK, wire # <<>>
  PROVE  /\ Head(wire) = wire[1] /\ Head(wire) \in [event : {"update", "delete"}, id : Ids]
         /\ Tail(wire) \in Seq([event : {"update", "delete"}, id : Ids])
         /\ Len(wire) \in Nat \ {0} /\ Len(Tail(wire)) = Len(wire) - 1
         /\ \A i \in 1..(Len(wire) - 1) : Tail(wire)[i] = wire[i + 1]
<1>1. wire \in Seq([event : {"update", "delete"}, id : Ids])
  BY DEF TypeOK
<1>2. Len(wire) \in Nat \ {0}
  BY <1>1, LenProperties, EmptySeq
<1>3. wire[1] \in [event : {"update", "delete"}, id : Ids]
  <2>1. 1 \in 1..Len(wire)
    BY <1>2
  <2>2. PICK T : T = [event : {"update", "delete"}, id : Ids]
    OBVIOUS
  <2> QED
    BY <1>1, <2>1, <2>2, ElementOfSeq
<1>4. /\ Head(wire) = wire[1] /\ Tail(wire) \in Seq([event : {"update", "delete"}, id : Ids])
      /\ Len(Tail(wire)) = Len(wire) - 1
      /\ \A i \in 1..(Len(wire) - 1) : Tail(wire)[i] = wire[i + 1]
  BY <1>1, HeadTailProperties
<1> QED
  BY <1>2, <1>3, <1>4

LEMMA ReceiveTyped ==
  ASSUME TypeOK, Receive
  PROVE  TypeOK'
<1>0. wire # <<>> /\ wire' = Tail(wire) /\ UNCHANGED <<published, feed, live, call, loops, pollingId, drops>>
  BY DEF Receive, polling
<1>1. Head(wire).id \in Ids /\ wire' \in Seq([event : {"update", "delete"}, id : Ids])
  BY <1>0, WireIs
<1>2. CASE Head(wire).event = "update"
  <2>1. Update(Head(wire).id)
    BY <1>2 DEF Receive
  <2>2. items \in Lists /\ (Len(items) > Full => SubSeq(items, 1, Kept) \in Lists)
    <3>1. items \in Seq(Ids \cup {Gap}) /\ Len(items) \in Nat
      BY LenProperties DEF TypeOK
    <3>2. Len(items) > Full => Kept \in 0..Len(items) /\ 0 \in 0..Kept
      BY <3>1, Bounds
    <3>3. Len(items) > Full => SubSeq(items, 0 + 1, Kept) \in Seq(Ids \cup {Gap})
      BY <3>1, <3>2, PieceIs
    <3> QED
      BY <3>1, <3>3 DEF Lists
  <2>3. /\ <<Head(wire).id>> \o items \in Lists
        /\ Len(items) > Full => <<Head(wire).id>> \o SubSeq(items, 1, Kept) \in Lists
    BY <1>1, <2>2, ConcatProperties DEF Lists
  <2>4. items' \in Lists
    BY <2>1, <2>2, <2>3 DEF Update
  <2>5. slips' \subseteq Slips /\ UNCHANGED <<hasMore, top, online>>
    BY <2>1 DEF Update, TypeOK, Slips
  <2> QED
    BY <1>0, <1>1, <2>4, <2>5 DEF TypeOK, Lists
<1>3. CASE Head(wire).event # "update"
  <2>1. items' = Only(items, (Ids \ {Head(wire).id}) \cup {Gap}) /\ UNCHANGED <<hasMore, top, online>>
    BY <1>3 DEF Receive
  <2>2. items' \in Seq(Ids \cup {Gap})
    BY <2>1, OnlyTyped DEF TypeOK
  <2>3. slips' \subseteq Slips
    BY <1>3 DEF Receive, TypeOK, Slips
  <2> QED
    BY <1>0, <1>1, <2>1, <2>2, <2>3 DEF TypeOK
<1> QED
  BY <1>2, <1>3

LEMMA StepTyped == TypeOK /\ [Next]_vars => TypeOK'
<1> SUFFICES ASSUME TypeOK, [Next]_vars PROVE TypeOK'
  OBVIOUS
<1>1. CASE UNCHANGED vars
  BY <1>1 DEF TypeOK, vars, server, timeline, polling
<1>2. CASE Visit \/ LoadOlder \/ Fail \/ (\E i \in DOMAIN items : LoadGap(i))
          \/ (\E l \in Loops : Poll(l) \/ Rearm(l))
  BY <1>2, AskedTyped
<1>3. CASE Publish \/ (\E s \in feed : Delete(s)) \/ GoLive \/ Scroll
  BY <1>3, FeedTyped
<1>4. CASE Answer \/ Arrive \/ Connect \/ Disconnect \/ Receive
  BY <1>4, AnswerTyped, ArriveTyped, LinkTyped, ReceiveTyped
<1> QED
  BY <1>1, <1>2, <1>3, <1>4 DEF Next

--------------------------------------------------------------------------------
(* What holds whatever has been missed. *)

\* The statuses whose updates are on the wire.
Coming == {wire[j].id : j \in {k \in DOMAIN wire : wire[k].event = "update"}}

\* What is sent comes in order: an update after everything that was sent before it was published;
\* and what is deleted is no longer in the feed.
Wired ==
  /\ live => online
  /\ ~live => wire = <<>>
  /\ \A j \in DOMAIN wire :
       /\ wire[j].id <= published
       /\ wire[j].event = "delete" => wire[j].id \notin feed
       /\ wire[j].event = "update" => \A i \in 1..(j - 1) : wire[i].id < wire[j].id
  /\ \A id \in Coming : \A s \in feed : s > id => s \in Coming

\* Nothing is known of that was not published.
Known ==
  /\ \A s \in feed : s <= published
  /\ \A i \in DOMAIN items : items[i] # Gap => items[i] <= published
  /\ call # None =>
       /\ call.since # None => call.since <= published
       /\ call.max # None => call.max <= published

\* An answer is in order, and of what was asked for.
Falling(ids) == \A i, j \in DOMAIN ids : i < j => ids[i] > ids[j]

Answers ==
  Answered =>
    /\ Falling(call.answer)
    /\ \A i \in DOMAIN call.answer :
         /\ call.answer[i] <= published
         /\ call.since # None => call.answer[i] > call.since
         /\ call.max # None => call.answer[i] < call.max

Sound == Wired /\ Known /\ Answers

\* Each element of a spliced list is one of the two.
LEMMA SplicedFrom ==
  ASSUME NEW list \in Lists, NEW ids \in Lists,
         NEW last \in 0..Len(list), NEW first \in 0..last,
         NEW k \in 1..Len(Spliced(list, first, ids, last))
  PROVE  \/ k \in 1..first /\ Spliced(list, first, ids, last)[k] = list[k]
         \/ \E i \in 1..Len(ids) : k = first + i /\ Spliced(list, first, ids, last)[k] = ids[i]
         \/ \E i \in (last + 1)..Len(list) : /\ k = first + Len(ids) + (i - last)
                                             /\ Spliced(list, first, ids, last)[k] = list[i]
<1>1. Len(list) \in Nat /\ Len(ids) \in Nat
  BY LenProperties DEF Lists
<1>2. first \in Int /\ last \in Int /\ 0 <= first /\ first <= last /\ last <= Len(list)
  BY <1>1
<1>3. k \in 1..(first + Len(ids) + Len(list) - last)
  BY SplicedLen
<1>4. Spliced(list, first, ids, last)[k] =
        IF k <= first THEN list[k]
        ELSE IF k <= first + Len(ids) THEN ids[k - first]
        ELSE list[k - first - Len(ids) + last]
  BY <1>3, SplicedAt
<1>5. k \in Int /\ 1 <= k /\ k <= first + Len(ids) + Len(list) - last
  BY <1>1, <1>2, <1>3
<1>6. CASE k <= first
  BY <1>2, <1>4, <1>5, <1>6
<1>7. CASE k > first /\ k <= first + Len(ids)
  <2>1. k - first \in 1..Len(ids) /\ k = first + (k - first)
    BY <1>1, <1>2, <1>5, <1>7
  <2>2. Spliced(list, first, ids, last)[k] = ids[k - first]
    BY <1>2, <1>4, <1>5, <1>7
  <2> QED
    BY <2>1, <2>2
<1>8. CASE k > first + Len(ids)
  <2>1. /\ k - first - Len(ids) + last \in (last + 1)..Len(list)
        /\ k = first + Len(ids) + ((k - first - Len(ids) + last) - last)
    BY <1>1, <1>2, <1>5, <1>8
  <2>2. Spliced(list, first, ids, last)[k] = list[k - first - Len(ids) + last]
    BY <1>1, <1>2, <1>4, <1>5, <1>8
  <2> QED
    BY <2>1, <2>2
<1> QED
  BY <1>1, <1>2, <1>5, <1>6, <1>7, <1>8

\* What an answer brings is of the answer, or was in the list.
LEMMA InsertedFrom ==
  ASSUME NEW list \in Lists, NEW ids \in Seq(Ids), ids # <<>>,
         NEW k \in 1..Len(Inserted(list, ids))
  PROVE  \/ \E i \in 1..Len(ids) : Inserted(list, ids)[k] = ids[i]
         \/ \E i \in 1..Len(list) : Inserted(list, ids)[k] = list[i]
<1> DEFINE high == HighCut(list, ids)
           low == LowCut(list, ids)
           piece == SubSeq(list, high + 1, low)
           below == Before(Last(ids))
           older == Only(piece, below)
           both == ids \o older
           new == Ids \ Elsewhere(list, ids)
<1>1. low \in 0..Len(list) /\ high \in 0..low /\ Len(list) \in Nat
  BY CutsAre, LenProperties DEF Lists
<1>2. Older(list, ids) = older /\ older \in Seq(Ids)
  BY OlderIs DEF Older, Lists
<1>3. Inserted(list, ids) = Only(both, new)
  BY DEF Inserted, Older
<1> HIDE DEF new, below, high, low
<1>4. piece \in Lists
  BY <1>1, PieceIs DEF Lists
<1>5. Len(piece) = low - high /\ \A i \in 1..(low - high) : piece[i] = list[high + i]
  BY <1>1, PieceIs DEF Lists
<1> HIDE DEF piece
<1>6. \A i \in 1..Len(older) : \E j \in 1..Len(piece) : older[i] = piece[j]
  BY <1>4, OnlyFrom
<1> HIDE DEF older
<1>7. \A i \in 1..Len(older) : \E j \in 1..Len(list) : older[i] = list[j]
  <2>1. \A i \in 1..Len(piece) : high + i \in 1..Len(list)
    BY <1>1, <1>5
  <2> QED
    BY <1>5, <1>6, <2>1
<1>8. /\ both \in Seq(Ids) /\ Len(both) = Len(ids) + Len(older)
      /\ \A i \in 1..(Len(ids) + Len(older)) : both[i] = IF i <= Len(ids) THEN ids[i] ELSE older[i - Len(ids)]
  BY <1>2, ConcatProperties
<1> HIDE DEF both
<1>9. both \in Lists
  BY <1>8, SeqDef DEF Lists
<1>10. PICK i \in 1..Len(both) : Inserted(list, ids)[k] = both[i]
  BY <1>3, <1>9, OnlyFrom
<1>11. Len(ids) \in Nat /\ Len(older) \in Nat
  BY <1>2, LenProperties
<1>12. CASE i <= Len(ids)
  <2>1. i \in 1..Len(ids) /\ both[i] = ids[i]
    BY <1>8, <1>11, <1>12
  <2> QED
    BY <2>1, <1>10
<1>13. CASE i > Len(ids)
  <2>1. i - Len(ids) \in 1..Len(older) /\ both[i] = older[i - Len(ids)]
    BY <1>8, <1>11, <1>13
  <2> QED
    BY <2>1, <1>7, <1>10
<1> QED
  BY <1>11, <1>8, <1>12, <1>13

LEMMA ExpandedFrom ==
  ASSUME NEW list \in Lists, NEW ids \in Seq(Ids), ids # <<>>,
         NEW k \in 1..Len(Expanded(list, ids))
  PROVE  \/ \E i \in 1..Len(ids) : Expanded(list, ids)[k] = ids[i]
         \/ \E i \in 1..Len(list) : Expanded(list, ids)[k] = list[i]
<1>1. PICK ins : ins = Inserted(list, ids)
  OBVIOUS
<1>2. PICK first, last : first = HighCut(list, ids) /\ last = LowCut(list, ids)
  OBVIOUS
<1>3. last \in 0..Len(list) /\ first \in 0..last /\ Len(list) \in Nat
  BY <1>2, CutsAre, LenProperties DEF Lists
<1>4. ins \in Lists
  <2>1. ins \in Seq(Ids)
    BY <1>1, ExpandedIs DEF Lists
  <2> QED
    BY <2>1, SeqDef DEF Lists
<1>5. Expanded(list, ids) = Spliced(list, first, ins, last)
  <2>1. Expanded(list, ids) = Spliced(list, HighCut(list, ids), Inserted(list, ids), LowCut(list, ids))
    BY ExpandedIs DEF Lists
  <2> QED
    BY <1>1, <1>2, <2>1, Zenon
<1>6. \/ k \in 1..first /\ Expanded(list, ids)[k] = list[k]
      \/ \E i \in 1..Len(ins) : Expanded(list, ids)[k] = ins[i]
      \/ \E i \in (last + 1)..Len(list) : Expanded(list, ids)[k] = list[i]
  <2>1. k \in 1..Len(Spliced(list, first, ins, last))
    BY <1>5
  <2>2. \/ k \in 1..first /\ Spliced(list, first, ins, last)[k] = list[k]
        \/ \E i \in 1..Len(ins) : Spliced(list, first, ins, last)[k] = ins[i]
        \/ \E i \in (last + 1)..Len(list) : Spliced(list, first, ins, last)[k] = list[i]
    BY <1>3, <1>4, <2>1, SplicedFrom
  <2> QED
    BY <1>5, <2>2
<1>7. /\ \A i \in 1..first : i \in 1..Len(list)
      /\ \A i \in (last + 1)..Len(list) : i \in 1..Len(list)
  BY <1>3
<1>8. \A i \in 1..Len(ins) : \/ \E j \in 1..Len(ids) : ins[i] = ids[j]
                             \/ \E j \in 1..Len(list) : ins[i] = list[j]
  BY <1>1, InsertedFrom
<1> QED
  BY <1>6, <1>7, <1>8

\* The wire after something is sent.
LEMMA SendIs ==
  ASSUME TypeOK, live, NEW event \in {"update", "delete"}, NEW id \in Ids, Send(event, id)
  PROVE  /\ Len(wire) \in Nat /\ Len(wire') = Len(wire) + 1
         /\ \A j \in 1..Len(wire) : wire'[j] = wire[j]
         /\ wire'[Len(wire) + 1].event = event /\ wire'[Len(wire) + 1].id = id
<1> DEFINE e == [event |-> event, id |-> id]
           All == [event : {"update", "delete"}, id : Ids]
<1>1. wire \in Seq(All) /\ e \in All /\ wire' = Append(wire, e)
  BY DEF TypeOK, Send
<1>2. e.event = event /\ e.id = id
  OBVIOUS
<1> HIDE DEF e, All
<1>3. Len(wire) \in Nat /\ Len(wire') = Len(wire) + 1 /\ wire'[Len(wire) + 1] = e
  BY <1>1, AppendProperties, LenProperties
<1>4. \A j \in 1..Len(wire) : wire'[j] = wire[j]
  BY <1>1, AppendProperties
<1> QED
  BY <1>2, <1>3, <1>4

LEMMA ComingIs ==
  ASSUME TypeOK, NEW id
  PROVE  id \in Coming <=> \E j \in 1..Len(wire) : wire[j].event = "update" /\ wire[j].id = id
<1>1. DOMAIN wire = 1..Len(wire)
  BY LenProperties DEF TypeOK
<1> QED
  BY <1>1 DEF Coming

LEMMA WiredAt ==
  ASSUME TypeOK, Wired, NEW j \in 1..Len(wire)
  PROVE  /\ wire[j].id \in Ids /\ wire[j].id <= published /\ wire[j].event \in {"update", "delete"}
         /\ wire[j].event = "delete" => wire[j].id \notin feed
         /\ wire[j].event = "update" => \A i \in 1..(j - 1) : wire[i].id < wire[j].id
<1> DEFINE All == [event : {"update", "delete"}, id : Ids]
<1>1. wire \in Seq(All)
  BY DEF TypeOK
<1>2. DOMAIN wire = 1..Len(wire)
  BY <1>1, LenProperties
<1>3. wire[j] \in All
  <2> HIDE DEF All
  <2> QED
    BY <1>1, ElementOfSeq
<1> QED
  BY <1>2, <1>3 DEF Wired

LEMMA PublishWired ==
  ASSUME TypeOK, TypeOK', Wired, Known, Publish
  PROVE  Wired'
<1>1. /\ published \in Nat /\ published' = published + 1 /\ feed' = feed \cup {published'}
      /\ published' \in Ids /\ Send("update", published') /\ live' = live /\ online' = online
  BY Bounds DEF Publish, TypeOK, Ids, timeline
<1>2. CASE live
  <2>1. /\ Len(wire) \in Nat /\ Len(wire') = Len(wire) + 1
        /\ \A j \in 1..Len(wire) : wire'[j] = wire[j]
        /\ wire'[Len(wire) + 1].event = "update" /\ wire'[Len(wire) + 1].id = published'
    BY <1>1, <1>2, SendIs
  <2>2. DOMAIN wire' = 1..(Len(wire) + 1)
    BY <2>1, LenProperties DEF TypeOK
  <2>3. ASSUME NEW j \in 1..(Len(wire) + 1)
        PROVE  /\ wire'[j].id <= published'
               /\ wire'[j].event = "delete" => wire'[j].id \notin feed'
               /\ wire'[j].event = "update" => \A i \in 1..(j - 1) : wire'[i].id < wire'[j].id
    <3>1. CASE j = Len(wire) + 1
      <4>1. \A i \in 1..(j - 1) : i \in 1..Len(wire)
        BY <2>1, <3>1
      <4>2. \A i \in 1..(j - 1) : wire'[i] = wire[i] /\ wire[i].id \in Ids /\ wire[i].id <= published
        BY <4>1, <2>1, WiredAt
      <4>3. \A i \in Ids : i <= published => i < published'
        BY <1>1 DEF Ids
      <4>4. \A i \in 1..(j - 1) : wire'[i].id < published'
        BY <4>2, <4>3
      <4>5. wire'[j].id = published' /\ wire'[j].event = "update" /\ published' <= published'
        BY <3>1, <2>1, <1>1
      <4> QED
        BY <4>4, <4>5
    <3>2. CASE j # Len(wire) + 1
      <4>1. j \in 1..Len(wire) /\ wire'[j] = wire[j] /\ \A i \in 1..(j - 1) : wire'[i] = wire[i]
        BY <2>1, <3>2
      <4>2. wire[j].id \in Ids /\ wire[j].id <= published
        BY <4>1, WiredAt
      <4>3. wire[j].id < published'
        BY <4>2, <1>1 DEF Ids
      <4>4. /\ wire[j].event = "delete" => wire[j].id \notin feed
            /\ wire[j].event = "update" => \A i \in 1..(j - 1) : wire[i].id < wire[j].id
        BY <4>1, WiredAt
      <4> QED
        BY <4>1, <4>2, <4>3, <4>4, <1>1 DEF Ids
    <3> QED
      BY <3>1, <3>2
  <2>4. ASSUME NEW id \in Coming', NEW s \in feed', s > id
        PROVE  s \in Coming'
    <3>1. PICK j \in 1..Len(wire') : wire'[j].event = "update" /\ wire'[j].id = id
      BY ComingIs, <2>2 DEF Coming
    <3>2. CASE s = published'
      <4>1. Len(wire) + 1 \in DOMAIN wire'
        BY <2>1, <2>2
      <4> QED
        BY <2>1, <3>2, <4>1 DEF Coming
    <3>3. CASE s # published'
      <4>1. s \in feed /\ s \in Ids /\ s <= published
        BY <3>3, <1>1 DEF TypeOK, Known
      <4>2. j # Len(wire) + 1
        BY <4>1, <3>1, <2>1, <1>1, <2>4 DEF Ids
      <4>3. j \in 1..Len(wire) /\ wire[j].event = "update" /\ wire[j].id = id
        BY <4>2, <3>1, <2>1
      <4>4. id \in Coming
        BY <4>3, ComingIs
      <4>5. s \in Coming
        BY <4>1, <4>4, <2>4 DEF Wired
      <4>6. PICK m \in 1..Len(wire) : wire[m].event = "update" /\ wire[m].id = s
        BY <4>5, ComingIs
      <4>7. m \in DOMAIN wire' /\ wire'[m] = wire[m]
        BY <2>1, <2>2
      <4> QED
        BY <4>6, <4>7 DEF Coming
    <3> QED
      BY <3>2, <3>3
  <2> QED
    BY <1>1, <1>2, <2>2, <2>3, <2>4 DEF Wired
<1>3. CASE ~live
  <2>1. wire' = <<>>
    BY <1>1, <1>3 DEF Send, Wired
  <2>2. Coming' = {} /\ DOMAIN wire' = {}
    BY <2>1 DEF Coming
  <2> QED
    BY <1>1, <1>3, <2>1, <2>2 DEF Wired
<1> QED
  BY <1>2, <1>3

LEMMA DeletedComing ==
  ASSUME TypeOK, TypeOK', Wired, NEW s \in feed, Delete(s)
  PROVE  Coming' = Coming
<1>1. s \in Ids /\ Send("delete", s)
  BY DEF Delete, TypeOK
<1>2. CASE live
  <2>1. /\ Len(wire) \in Nat /\ Len(wire') = Len(wire) + 1
        /\ \A j \in 1..Len(wire) : wire'[j] = wire[j]
        /\ wire'[Len(wire) + 1].event = "delete"
    BY <1>1, <1>2, SendIs
  <2>2. DOMAIN wire' = 1..(Len(wire) + 1) /\ DOMAIN wire = 1..Len(wire)
    BY <2>1, LenProperties DEF TypeOK
  <2>3. \A j \in 1..(Len(wire) + 1) : wire'[j].event = "update" => j \in 1..Len(wire)
    BY <2>1
  <2>4. \A j \in 1..Len(wire) : j \in 1..(Len(wire) + 1)
    BY <2>1
  <2> QED
    BY <2>1, <2>2, <2>3, <2>4 DEF Coming
<1>3. CASE ~live
  BY <1>1, <1>3 DEF Send, Coming
<1> QED
  BY <1>2, <1>3

LEMMA DeleteWired ==
  ASSUME TypeOK, TypeOK', Wired, Known, NEW s \in feed, Delete(s)
  PROVE  Wired'
<1>1. /\ s \in Ids /\ s <= published /\ published' = published /\ feed' = feed \ {s}
      /\ Send("delete", s) /\ live' = live /\ online' = online
  BY DEF Delete, TypeOK, Known, timeline
<1>2. CASE live
  <2>1. /\ Len(wire) \in Nat /\ Len(wire') = Len(wire) + 1
        /\ \A j \in 1..Len(wire) : wire'[j] = wire[j]
        /\ wire'[Len(wire) + 1].event = "delete" /\ wire'[Len(wire) + 1].id = s
    BY <1>1, <1>2, SendIs
  <2>2. DOMAIN wire' = 1..(Len(wire) + 1)
    BY <2>1, LenProperties DEF TypeOK
  <2>3. ASSUME NEW j \in 1..(Len(wire) + 1)
        PROVE  /\ wire'[j].id <= published'
               /\ wire'[j].event = "delete" => wire'[j].id \notin feed'
               /\ wire'[j].event = "update" => \A i \in 1..(j - 1) : wire'[i].id < wire'[j].id
    <3>1. CASE j = Len(wire) + 1
      BY <2>1, <3>1, <1>1
    <3>2. CASE j # Len(wire) + 1
      <4>1. j \in 1..Len(wire) /\ wire'[j] = wire[j] /\ \A i \in 1..(j - 1) : wire'[i] = wire[i]
        BY <2>1, <3>2
      <4>2. /\ wire[j].id <= published
            /\ wire[j].event = "delete" => wire[j].id \notin feed
            /\ wire[j].event = "update" => \A i \in 1..(j - 1) : wire[i].id < wire[j].id
        BY <4>1, WiredAt
      <4> QED
        BY <4>1, <4>2, <1>1
    <3> QED
      BY <3>1, <3>2
  <2>4. Coming' = Coming
    BY DeletedComing
  <2> QED
    BY <1>1, <1>2, <2>2, <2>3, <2>4 DEF Wired
<1>3. CASE ~live
  <2>1. wire' = <<>>
    BY <1>1, <1>3 DEF Send, Wired
  <2>2. Coming' = {} /\ DOMAIN wire' = {}
    BY <2>1 DEF Coming
  <2> QED
    BY <1>1, <1>3, <2>1, <2>2 DEF Wired
<1> QED
  BY <1>2, <1>3

\* Receiving takes what came first.
LEMMA ReceivedComing ==
  ASSUME TypeOK, TypeOK', Wired, wire # <<>>, wire' = Tail(wire)
  PROVE  /\ Coming' \subseteq Coming
         /\ Head(wire).event = "update" => Coming' = Coming \ {Head(wire).id}
         /\ Head(wire).event # "update" => Coming' = Coming
         /\ \A id \in Coming' : Head(wire).id < id
<1>1. /\ Len(wire) \in Nat \ {0} /\ Len(wire') = Len(wire) - 1 /\ Head(wire) = wire[1]
      /\ \A i \in 1..(Len(wire) - 1) : wire'[i] = wire[i + 1]
  BY WireIs
<1>2. DOMAIN wire = 1..Len(wire) /\ DOMAIN wire' = 1..(Len(wire) - 1)
  BY <1>1, LenProperties DEF TypeOK
<1>3. ASSUME NEW id \in Coming'
      PROVE  id \in Coming /\ Head(wire).id < id
  <2>1. PICK j \in 1..(Len(wire) - 1) : wire'[j].event = "update" /\ wire'[j].id = id
    BY <1>2 DEF Coming
  <2>2. j + 1 \in 1..Len(wire) /\ wire'[j] = wire[j + 1] /\ 1 \in 1..((j + 1) - 1)
    BY <1>1
  <2>3. \A i \in 1..((j + 1) - 1) : wire[i].id < wire[j + 1].id
    BY <2>1, <2>2, WiredAt
  <2> QED
    BY <2>1, <2>2, <2>3, <1>1, ComingIs
<1>4. ASSUME NEW id \in Coming
      PROVE  id \in Coming' \/ (Head(wire).event = "update" /\ Head(wire).id = id)
  <2>1. PICK j \in 1..Len(wire) : wire[j].event = "update" /\ wire[j].id = id
    BY ComingIs
  <2>2. CASE j # 1
    <3>1. j - 1 \in 1..(Len(wire) - 1) /\ (j - 1) + 1 = j
      BY <1>1, <2>2
    <3>2. wire'[j - 1] = wire[j]
      BY <3>1, <1>1
    <3> QED
      BY <2>1, <3>1, <3>2, <1>2 DEF Coming
  <2> QED
    BY <2>1, <2>2, <1>1
<1>5. Head(wire).event = "update" => Head(wire).id \notin Coming'
  <2>1. Head(wire).id \in Ids
    BY WireIs
  <2>2. \A x \in Ids : ~(x < x)
    BY DEF Ids
  <2> QED
    BY <2>1, <2>2, <1>3
<1> QED
  BY <1>3, <1>4, <1>5

LEMMA ReceiveWired ==
  ASSUME TypeOK, TypeOK', Wired, Receive
  PROVE  Wired'
<1>1. wire # <<>> /\ wire' = Tail(wire) /\ UNCHANGED <<published, feed, live, online>>
  BY DEF Receive, Update
<1>2. /\ Len(wire) \in Nat \ {0} /\ Len(wire') = Len(wire) - 1
      /\ \A i \in 1..(Len(wire) - 1) : wire'[i] = wire[i + 1]
  BY <1>1, WireIs
<1>3. DOMAIN wire' = 1..(Len(wire) - 1)
  BY <1>2, LenProperties DEF TypeOK
<1>4. ASSUME NEW j \in 1..(Len(wire) - 1)
      PROVE  /\ wire'[j].id <= published'
             /\ wire'[j].event = "delete" => wire'[j].id \notin feed'
             /\ wire'[j].event = "update" => \A i \in 1..(j - 1) : wire'[i].id < wire'[j].id
  <2>1. j + 1 \in 1..Len(wire) /\ wire'[j] = wire[j + 1]
        /\ \A i \in 1..(j - 1) : i + 1 \in 1..((j + 1) - 1) /\ wire'[i] = wire[i + 1]
    BY <1>2
  <2>2. /\ wire[j + 1].id <= published
        /\ wire[j + 1].event = "delete" => wire[j + 1].id \notin feed
        /\ wire[j + 1].event = "update" => \A i \in 1..((j + 1) - 1) : wire[i].id < wire[j + 1].id
    BY <2>1, WiredAt
  <2>3. wire[j + 1].event = "update" => \A i \in 1..(j - 1) : wire[i + 1].id < wire[j + 1].id
    BY <2>1, <2>2
  <2> QED
    BY <2>1, <2>2, <2>3, <1>1
<1>5. live' => online'
  BY <1>1 DEF Wired
<1>6. live
  BY <1>1 DEF Wired
<1>7. ASSUME NEW id \in Coming', NEW s \in feed', s > id
      PROVE  s \in Coming'
  <2>1. id \in Coming /\ Head(wire).id < id /\ s \in feed
    BY <1>1, <1>7, ReceivedComing
  <2>2. s \in Coming
    BY <2>1, <1>7 DEF Wired
  <2>3. Head(wire).id \in Ids /\ id \in Ids /\ s \in Ids
    <3>1. Head(wire).id \in Ids /\ s \in Ids
      BY <1>1, <2>1, WireIs DEF TypeOK
    <3>2. PICK j \in 1..Len(wire) : wire[j].id = id
      BY <2>1, ComingIs
    <3> QED
      BY <3>1, <3>2, WiredAt
  <2>4. s # Head(wire).id
    BY <2>1, <2>3, <1>7 DEF Ids
  <2> QED
    BY <2>2, <2>4, <1>1, ReceivedComing
<1> QED
  BY <1>1, <1>3, <1>4, <1>5, <1>6, <1>7 DEF Wired

LEMMA LinkWired ==
  ASSUME Wired, Connect \/ GoLive \/ Disconnect
  PROVE  Wired'
<1>1. CASE Connect
  <2>1. online' = TRUE /\ UNCHANGED <<published, feed, live, wire>>
    BY <1>1 DEF Connect, Connected, server
  <2>2. Coming' = Coming
    BY <2>1 DEF Coming
  <2> QED
    BY <2>1, <2>2 DEF Wired
<1>2. CASE GoLive
  <2>1. online /\ online' = online /\ live' = TRUE /\ UNCHANGED <<published, feed, wire>>
    BY <1>2 DEF GoLive, timeline
  <2>2. Coming' = Coming
    BY <2>1 DEF Coming
  <2> QED
    BY <2>1, <2>2 DEF Wired
<1>3. CASE Disconnect
  <2>1. live' = FALSE /\ wire' = <<>>
    BY <1>3 DEF Disconnect
  <2>2. Coming' = {} /\ DOMAIN wire' = {}
    BY <2>1 DEF Coming
  <2> QED
    BY <2>1, <2>2 DEF Wired
<1> QED
  BY <1>1, <1>2, <1>3

LEMMA StepWired ==
  ASSUME TypeOK, TypeOK', Wired, Known, [Next]_vars
  PROVE  Wired'
<1>1. CASE UNCHANGED <<server, online>>
  <2>1. Coming' = Coming
    BY <1>1 DEF Coming, server
  <2> QED
    BY <1>1, <2>1 DEF Wired, server
<1>2. CASE UNCHANGED vars
  BY <1>1, <1>2 DEF vars, timeline
<1>3. CASE Visit \/ LoadOlder \/ Answer \/ Arrive \/ Fail \/ Scroll \/ (\E i \in DOMAIN items : LoadGap(i))
          \/ (\E l \in Loops : Poll(l) \/ Rearm(l))
  BY <1>1, <1>3 DEF Visit, LoadOlder, Answer, Arrive, Fail, Scroll, LoadGap, Poll, Rearm, timeline
<1>4. CASE Connect \/ GoLive \/ Disconnect
  BY <1>4, LinkWired
<1>5. CASE Publish \/ (\E s \in feed : Delete(s)) \/ Receive
  BY <1>5, PublishWired, DeleteWired, ReceiveWired
<1> QED
  BY <1>2, <1>3, <1>4, <1>5 DEF Next

\* A request that is sent is about the list as it is then.
Asked(c, list) ==
  \E max, fill, loop :
    /\ c = Request(list, max, fill, loop)
    /\ max = None \/ (max \in Ids /\ max \in ToSet(list))

LEMMA AskedFor ==
  ASSUME NEW list, NEW max, NEW fill, NEW loop, max = None \/ (max \in Ids /\ max \in ToSet(list))
  PROVE  Asked(Request(list, max, fill, loop), list)
BY DEF Asked

LEMMA AskedForNewest ==
  ASSUME NEW list, NEW fill, NEW loop
  PROVE  Asked(Request(list, None, fill, loop), list)
BY AskedFor

LEMMA ToSetIs ==
  ASSUME NEW list \in Lists, NEW x
  PROVE  x \in ToSet(list) <=> \E i \in 1..Len(list) : list[i] = x
<1>1. DOMAIN list = 1..Len(list)
  BY LenProperties DEF Lists
<1> QED
  BY <1>1 DEF ToSet

LEMMA StepAsked ==
  ASSUME TypeOK, TypeOK', [Next]_vars, ~Answer, call' # None, call' # call
  PROVE  Asked(call', items') /\ UNCHANGED <<published, feed, wire>>
<1>0. DOMAIN items = 1..Len(items) /\ items \in Lists
  BY LenProperties DEF TypeOK, Lists
<1>1. \A fill, loop : Asked(Request(items', None, fill, loop), items')
  BY AskedForNewest
<1>2. CASE Visit
  <2>1. call' = Request(items', None, FALSE, 0) /\ UNCHANGED <<published, feed, wire>>
    BY <1>2 DEF Visit, timeline, server
  <2> QED
    BY <1>1, <2>1
<1>3. CASE \E i \in DOMAIN items : LoadGap(i)
  <2>1. PICK i \in DOMAIN items : LoadGap(i)
    BY <1>3
  <2> DEFINE max == IF i > 1 /\ items[i - 1] # Gap THEN items[i - 1] ELSE None
  <2>2. call' = Request(items', max, FALSE, 0) /\ items' = items /\ UNCHANGED <<published, feed, wire>>
    BY <2>1 DEF LoadGap, timeline, server
  <2>3. i > 1 => i - 1 \in DOMAIN items /\ items[i - 1] \in Ids \cup {Gap}
    BY <1>0, ElementOfSeq DEF Lists
  <2>4. max = None \/ (max \in Ids /\ max \in ToSet(items'))
    <3>1. CASE i > 1 /\ items[i - 1] # Gap
      <4>1. items[i - 1] \in Ids /\ items[i - 1] \in ToSet(items)
        BY <1>0, <2>3, <3>1, ToSetIs
      <4> QED
        BY <4>1, <2>2, <3>1
    <3>2. CASE ~(i > 1 /\ items[i - 1] # Gap)
      <4>1. max = None
        BY <3>2
      <4> QED
        BY <4>1
    <3> QED
      BY <3>1, <3>2
  <2> HIDE DEF max
  <2>5. Asked(Request(items', max, FALSE, 0), items')
    BY <2>4, AskedFor
  <2> QED
    BY <2>2, <2>5
<1>4. CASE LoadOlder
  <2> DEFINE max == IF Last(items) = Gap THEN None ELSE Last(items)
  <2>1. items # <<>> /\ call' = Request(items', max, FALSE, 0) /\ items' = items /\ UNCHANGED <<published, feed, wire>>
    BY <1>4 DEF LoadOlder, timeline, server
  <2>2. Last(items) \in Ids \cup {Gap} /\ Last(items) = items[Len(items)] /\ Len(items) \in DOMAIN items
    BY <1>0, <2>1, EndsOf DEF Lists
  <2>3. Last(items) # Gap => Last(items) \in Ids /\ Last(items) \in ToSet(items)
    BY <1>0, <2>2, ToSetIs
  <2>4. max = None \/ (max \in Ids /\ max \in ToSet(items'))
    <3>1. Last(items) = Gap => max = None
      OBVIOUS
    <3>2. Last(items) # Gap => max = Last(items)
      OBVIOUS
    <3> HIDE DEF max
    <3> QED
      BY <2>1, <2>3, <3>1, <3>2
  <2> HIDE DEF max
  <2>5. Asked(Request(items', max, FALSE, 0), items')
    BY <2>4, AskedFor
  <2> QED
    BY <2>1, <2>5
<1>5. CASE Arrive \/ Fail
  <2>1. /\ call' = IF call.fill THEN Request(items', None, FALSE, 0) ELSE None
        /\ UNCHANGED <<published, feed, wire>>
    BY <1>5 DEF Arrive, Fail, Over, server, timeline
  <2> QED
    BY <1>1, <2>1
<1>6. CASE Connect
  <2>1. call' = Request(items', None, Len(items') > 1, 0) /\ UNCHANGED <<published, feed, wire>>
    BY <1>6 DEF Connect, Connected, server
  <2> QED
    BY <1>1, <2>1
<1>7. CASE \E l \in Loops : Poll(l)
  <2>1. PICK l \in Loops : call' = Request(items', None, FALSE, l) /\ UNCHANGED <<published, feed, wire>>
    BY <1>7 DEF Poll, timeline, server
  <2> QED
    BY <1>1, <2>1
<1>8. CASE UNCHANGED vars \/ Publish \/ GoLive \/ Disconnect \/ Receive \/ Scroll \/ (\E s \in feed : Delete(s))
           \/ (\E l \in Loops : Rearm(l))
  BY <1>8 DEF vars, Publish, GoLive, Disconnect, Receive, Scroll, Delete, Rearm
<1> QED
  BY <1>2, <1>3, <1>4, <1>5, <1>6, <1>7, <1>8 DEF Next

LEMMA OnTop ==
  ASSUME NEW g \in Lists, Len(g) = 1, NEW list \in Lists
  PROVE  /\ Len(g \o list) = 1 + Len(list) /\ (g \o list)[1] = g[1]
         /\ \A k \in 2..(1 + Len(list)) : (g \o list)[k] = list[k - 1]
<1>1. /\ Len(g \o list) = Len(g) + Len(list)
      /\ \A k \in 1..(Len(g) + Len(list)) : (g \o list)[k] = IF k <= Len(g) THEN g[k] ELSE list[k - Len(g)]
  BY ConcatProperties DEF Lists
<1> DEFINE both == g \o list
<1> HIDE DEF both
<1>2. /\ Len(both) = 1 + Len(list)
      /\ \A k \in 1..(1 + Len(list)) : both[k] = IF k <= 1 THEN g[k] ELSE list[k - 1]
  BY <1>1 DEF both
<1>3. Len(list) \in Nat
  BY LenProperties DEF Lists
<1>4. both[1] = g[1]
  BY <1>2, <1>3
<1>5. \A k \in 2..(1 + Len(list)) : both[k] = list[k - 1]
  BY <1>2, <1>3
<1> QED
  BY <1>2, <1>4, <1>5 DEF both

LEMMA MarkedIs ==
  ASSUME NEW list \in Lists
  PROVE  \/ Marked(list) = list /\ (list = <<>> \/ list[1] = Gap)
         \/ /\ Len(Marked(list)) = Len(list) + 1 /\ Marked(list)[1] = Gap
            /\ \A k \in 2..(Len(list) + 1) : Marked(list)[k] = list[k - 1]
<1>1. CASE list # <<>> /\ Head(list) # Gap
  <2> DEFINE g == <<Gap>>
  <2>1. g \in Lists /\ Len(g) = 1 /\ g[1] = Gap
    BY DEF Lists
  <2>2. Marked(list) = g \o list
    BY <1>1 DEF Marked
  <2> HIDE DEF g
  <2>3. /\ Len(g \o list) = 1 + Len(list)
        /\ (g \o list)[1] = g[1] /\ \A k \in 2..(1 + Len(list)) : (g \o list)[k] = list[k - 1]
    BY <2>1, OnTop
  <2>4. Len(list) \in Nat
    BY LenProperties DEF Lists
  <2> QED
    BY <2>1, <2>2, <2>3, <2>4
<1>2. CASE ~(list # <<>> /\ Head(list) # Gap)
  <2>1. Marked(list) = list
    BY <1>2 DEF Marked
  <2>2. list # <<>> => Head(list) = list[1]
    BY EndsOf DEF Lists
  <2> QED
    BY <1>2, <2>1, <2>2
<1> QED
  BY <1>1, <1>2

\* An update is put on top, and the list may be cut.
LEMMA UpdateIs ==
  ASSUME TypeOK, NEW id \in Ids, Update(id), id \notin ToSet(items)
  PROVE  /\ slips' = {} => items' # <<>> /\ ToSet(items') \cap From(id + 1) = {}
         /\ \E n \in 0..Len(items) :
              /\ Len(items') = n + 1 /\ items'[1] = id
              /\ \A k \in 2..(n + 1) : items'[k] = items[k - 1]
              /\ n # Len(items) => n > 0 /\ (call # None => "trim" \in slips')
<1> DEFINE cut == top /\ Len(items) > Full
           rest == IF cut THEN SubSeq(items, 1, Kept) ELSE items
           n == IF cut THEN Kept ELSE Len(items)
           one == <<id>>
<1>1. items \in Lists /\ Len(items) \in Nat
  BY LenProperties DEF TypeOK, Lists
<1>2. n \in 0..Len(items) /\ n \in Nat /\ (n # Len(items) => n > 0 /\ cut)
  BY <1>1, Bounds
<1>3. rest \in Lists /\ Len(rest) = n /\ \A k \in 1..n : rest[k] = items[k]
  <2>1. CASE cut
    <3>1. Kept \in 0..Len(items) /\ 0 \in 0..Kept /\ Kept - 0 = Kept /\ 0 + 1 = 1
      BY <1>1, <2>1, Bounds
    <3>2. /\ SubSeq(items, 0 + 1, Kept) \in Lists /\ Len(SubSeq(items, 0 + 1, Kept)) = Kept - 0
          /\ \A k \in 1..(Kept - 0) : SubSeq(items, 0 + 1, Kept)[k] = items[0 + k]
      BY <1>1, <3>1, PieceIs DEF Lists
    <3> QED
      BY <2>1, <3>1, <3>2, Bounds
  <2>2. CASE ~cut
    BY <1>1, <2>2
  <2> QED
    BY <2>1, <2>2
<1>4. items' = one \o rest /\ (cut /\ call # None => "trim" \in slips')
      /\ (slips' = {} => ToSet(items') \cap From(id + 1) = {})
  BY DEF Update
<1>5. one \in Lists /\ Len(one) = 1 /\ one[1] = id
  BY DEF Lists
<1> HIDE DEF cut, rest, n, one
<1>6. /\ Len(one \o rest) = 1 + n
      /\ (one \o rest)[1] = one[1] /\ \A k \in 2..(1 + n) : (one \o rest)[k] = rest[k - 1]
  BY <1>3, <1>5, OnTop
<1>7. Len(items') = n + 1 /\ items'[1] = id /\ \A k \in 2..(n + 1) : items'[k] = items[k - 1]
  <2>1. \A k \in 2..(n + 1) : k \in 2..(1 + n) /\ k - 1 \in 1..n
    BY <1>2
  <2> QED
    BY <1>2, <1>3, <1>4, <1>5, <1>6, <2>1
<1>8. items' # <<>>
  BY <1>2, <1>7
<1> QED
  BY <1>2, <1>4, <1>7, <1>8

\* Where a status of the list comes from.
LEMMA StepShown ==
  ASSUME TypeOK, TypeOK', [Next]_vars, NEW k \in 1..Len(items')
  PROVE  \/ items'[k] = Gap
         \/ \E i \in 1..Len(items) : items'[k] = items[i]
         \/ Arrive /\ call.answer # <<>> /\ \E i \in 1..Len(call.answer) : items'[k] = call.answer[i]
         \/ Receive /\ wire # <<>> /\ Head(wire).event = "update" /\ items'[k] = Head(wire).id
<1>0. items \in Lists /\ Len(items) \in Nat
  BY LenProperties DEF TypeOK, Lists
<1>1. CASE items' = items
  BY <1>1
<1>2. CASE items' = Marked(items)
  <2>1. CASE Marked(items) = items
    BY <1>2, <2>1
  <2>2. CASE /\ Len(Marked(items)) = Len(items) + 1 /\ Marked(items)[1] = Gap
             /\ \A m \in 2..(Len(items) + 1) : Marked(items)[m] = items[m - 1]
    <3>1. k # 1 => k \in 2..(Len(items) + 1) /\ k - 1 \in 1..Len(items)
      BY <1>0, <1>2, <2>2
    <3> QED
      BY <1>2, <2>2, <3>1
  <2> QED
    BY <1>0, <2>1, <2>2, MarkedIs
<1>3. CASE Arrive
  <2>1. call \in Calls /\ call.answer # None
    BY <1>3 DEF Arrive, TypeOK
  <2>2. call.answer \in Seq(Ids)
    BY <2>1 DEF Calls
  <2>3. items' = IF call.answer = <<>> THEN items ELSE Expanded(items, call.answer)
    BY <1>3 DEF Arrive
  <2> DEFINE ids == call.answer
  <2>4. CASE ids # <<>>
    <3>1. items' = Expanded(items, ids) /\ ids \in Seq(Ids)
      BY <2>2, <2>3, <2>4
    <3> HIDE DEF ids
    <3>2. \/ \E i \in 1..Len(ids) : items'[k] = ids[i]
          \/ \E i \in 1..Len(items) : items'[k] = items[i]
      BY <1>0, <2>4, <3>1, ExpandedFrom
    <3> QED
      BY <1>3, <2>4, <3>2 DEF ids
  <2> QED
    BY <2>3, <2>4, <1>1
<1>4. CASE Receive
  <2>1. wire # <<>>
    BY <1>4 DEF Receive
  <2>2. CASE Head(wire).event = "update"
    <3>1. Update(Head(wire).id) /\ Head(wire).id \in Ids
      BY <1>4, <2>1, <2>2, WireIs DEF Receive
    <3>2. CASE Head(wire).id \in ToSet(items)
      BY <1>1, <3>1, <3>2 DEF Update
    <3>3. CASE Head(wire).id \notin ToSet(items)
      <4>1. PICK n \in 0..Len(items) :
              /\ Len(items') = n + 1 /\ items'[1] = Head(wire).id
              /\ \A m \in 2..(n + 1) : items'[m] = items[m - 1]
        BY <3>1, <3>3, UpdateIs
      <4>2. k # 1 => k \in 2..(n + 1) /\ k - 1 \in 1..Len(items)
        BY <1>0, <4>1
      <4> QED
        BY <1>4, <2>1, <2>2, <4>1, <4>2
    <3> QED
      BY <3>2, <3>3
  <2>3. CASE Head(wire).event # "update"
    <3> DEFINE set == (Ids \ {Head(wire).id}) \cup {Gap}
    <3>1. items' = Only(items, set)
      BY <1>4, <2>3 DEF Receive
    <3> HIDE DEF set
    <3>2. k \in 1..Len(Only(items, set))
      BY <3>1
    <3>3. \E i \in 1..Len(items) : Only(items, set)[k] = items[i]
      BY <1>0, <3>2, OnlyFrom
    <3> QED
      BY <3>1, <3>3
  <2> QED
    BY <2>2, <2>3
<1>5. CASE UNCHANGED vars \/ Publish \/ GoLive \/ Scroll \/ (\E s \in feed : Delete(s))
           \/ Visit \/ LoadOlder \/ Fail \/ Answer \/ (\E i \in DOMAIN items : LoadGap(i))
           \/ (\E l \in Loops : Poll(l) \/ Rearm(l))
  BY <1>1, <1>5 DEF vars, timeline, Publish, GoLive, Scroll, Delete, Visit, LoadOlder, Fail, Answer, LoadGap, Poll, Rearm
<1>6. CASE Connect \/ Disconnect
  BY <1>1, <1>2, <1>6 DEF Connect, Connected, Disconnect
<1> QED
  BY <1>3, <1>4, <1>5, <1>6 DEF Next

LEMMA StepPublished ==
  ASSUME TypeOK, [Next]_vars
  PROVE  published' = published \/ published' = published + 1
<1>1. CASE UNCHANGED vars
  BY <1>1 DEF vars, server
<1>2. CASE Visit \/ LoadOlder \/ Answer \/ Arrive \/ Fail \/ Scroll \/ (\E i \in DOMAIN items : LoadGap(i))
          \/ (\E l \in Loops : Poll(l) \/ Rearm(l)) \/ Connect \/ GoLive \/ Disconnect \/ Receive
          \/ (\E s \in feed : Delete(s)) \/ Publish
  BY <1>2 DEF Visit, LoadOlder, Answer, Arrive, Fail, Scroll, LoadGap, Poll, Rearm, server, Connect, Connected,
              GoLive, Disconnect, Receive, Delete, Publish
<1> QED
  BY <1>1, <1>2 DEF Next

\* What is asked for is of the list.
LEMMA AskedIs ==
  ASSUME NEW list \in Lists, NEW c, Asked(c, list)
  PROVE  /\ c.answer = None
         /\ c.since # None => list # <<>> /\ list[1] \in Ids /\ c.since = list[1] /\ c.max = None
         /\ c.max # None => c.max \in Ids /\ c.max \in ToSet(list)
<1>1. PICK max, fill, loop : c = Request(list, max, fill, loop) /\ (max = None \/ (max \in Ids /\ max \in ToSet(list)))
  BY DEF Asked
<1>2. c.answer = None /\ c.max = max
      /\ c.since = IF max = None /\ list # <<>> /\ Head(list) # Gap THEN Head(list) ELSE None
  BY <1>1 DEF Request
<1>3. list # <<>> => Head(list) = list[1] /\ list[1] \in Ids \cup {Gap}
  BY EndsOf DEF Lists
<1>4. c.since # None => list # <<>> /\ list[1] \in Ids /\ c.since = list[1] /\ c.max = None
  BY <1>2, <1>3
<1> QED
  BY <1>1, <1>2, <1>4

LEMMA StepKnown ==
  ASSUME TypeOK, TypeOK', Wired, Known, Answers, [Next]_vars
  PROVE  Known'
<1>0. /\ published \in Nat /\ published' \in Nat /\ published <= published'
      /\ items \in Lists /\ items' \in Lists /\ DOMAIN items = 1..Len(items) /\ DOMAIN items' = 1..Len(items')
  BY StepPublished, Bounds, LenProperties DEF TypeOK, Lists
<1>1. ASSUME NEW s \in feed'
      PROVE  s <= published'
  <2>1. CASE s \in feed
    BY <1>0, <2>1, Bounds DEF Known, TypeOK, Ids
  <2>2. CASE s \notin feed
    <3>1. feed' # feed
      BY <2>2
    <3>2. Publish \/ \E x \in feed : Delete(x)
      BY <3>1 DEF Next, vars, server, Visit, LoadOlder, Answer, Arrive, Fail, Scroll, LoadGap, Poll, Rearm,
                  Connect, Connected, GoLive, Disconnect, Receive
    <3>3. s = published'
      BY <2>2, <3>2 DEF Publish, Delete
    <3> QED
      BY <3>3, <1>0
  <2> QED
    BY <2>1, <2>2
<1>2. ASSUME NEW k \in 1..Len(items'), items'[k] # Gap
      PROVE  items'[k] <= published'
  <2>0. items'[k] \in Ids
    BY <1>0, <1>2, ElementOfSeq DEF Lists
  <2>1. items'[k] <= published
    <3>1. CASE \E i \in 1..Len(items) : items'[k] = items[i]
      BY <1>0, <1>2, <3>1 DEF Known
    <3>2. CASE Arrive /\ \E i \in 1..Len(call.answer) : items'[k] = call.answer[i]
      <4>1. Answered /\ call \in Calls
        BY <3>2 DEF Arrive, Answered, TypeOK
      <4>2. call.answer \in Seq(Ids)
        BY <4>1 DEF Calls, Answered
      <4>3. DOMAIN call.answer = 1..Len(call.answer)
        BY <4>2, LenProperties
      <4> QED
        BY <3>2, <4>1, <4>3 DEF Answers
    <3>3. CASE Receive /\ wire # <<>> /\ items'[k] = Head(wire).id
      <4>1. Head(wire) = wire[1] /\ 1 \in 1..Len(wire)
        BY <3>3, WireIs
      <4> QED
        BY <3>3, <4>1, WiredAt
    <3> QED
      BY <1>2, <3>1, <3>2, <3>3, StepShown
  <2> QED
    BY <1>0, <2>0, <2>1 DEF Ids
<1>3. ASSUME call' # None
      PROVE  /\ call'.since # None => call'.since <= published'
             /\ call'.max # None => call'.max <= published'
  <2>1. CASE call' = call
    <3>1. call \in Calls
      BY <1>3, <2>1 DEF TypeOK
    <3>2. call.since \in Ids \cup {None} /\ call.max \in Ids \cup {None}
      BY <3>1 DEF Calls
    <3>3. /\ call.since # None => call.since <= published
          /\ call.max # None => call.max <= published
      BY <1>3, <2>1 DEF Known
    <3> QED
      BY <1>0, <2>1, <3>2, <3>3 DEF Ids
  <2>2. CASE Answer
    <3>1. call # None /\ call \in Calls /\ UNCHANGED published
      BY <2>2 DEF Answer, TypeOK, server
    <3>2. PICK ids : call' = [call EXCEPT !.answer = ids, !.cut = ToSet(ids) # Wanted(call)]
      BY <2>2, AnswerIs
    <3>3. call'.since = call.since /\ call'.max = call.max
      BY <3>1, <3>2 DEF Calls
    <3> QED
      BY <3>1, <3>3 DEF Known
  <2>3. CASE ~Answer /\ call' # call
    <3>1. Asked(call', items')
      BY <1>3, <2>3, StepAsked
    <3>2. /\ call'.since # None => items' # <<>> /\ items'[1] \in Ids /\ call'.since = items'[1]
          /\ call'.max # None => call'.max \in Ids /\ call'.max \in ToSet(items')
      BY <1>0, <3>1, AskedIs
    <3>3. \A x \in Ids : x # Gap
      BY Bounds DEF Ids
    <3>4. call'.since # None => call'.since <= published'
      <4>1. items' # <<>> => 1 \in 1..Len(items')
        BY <1>0, EndsOf DEF Lists
      <4> QED
        BY <1>2, <3>2, <3>3, <4>1
    <3>5. call'.max # None => call'.max <= published'
      BY <1>0, <1>2, <3>2, <3>3, ToSetIs
    <3> QED
      BY <3>4, <3>5
  <2> QED
    BY <2>1, <2>2, <2>3
<1> QED
  BY <1>0, <1>1, <1>2, <1>3 DEF Known

LEMMA StepAnswers ==
  ASSUME TypeOK, TypeOK', Known, Answers, [Next]_vars
  PROVE  Answers'
<1>0. published \in Nat /\ published' \in Nat /\ published <= published'
  BY StepPublished, Bounds DEF TypeOK
<1>1. CASE call' = call /\ Answered
  <2>1. call \in Calls /\ call.answer # None
    BY <1>1 DEF Answered, TypeOK
  <2>2. call.answer \in Seq(Ids)
    BY <2>1 DEF Calls
  <2>3. \A i \in DOMAIN call.answer : call.answer[i] \in Ids
    BY <2>2, ElementOfSeq, LenProperties
  <2>4. \A x \in Ids : x <= published => x <= published'
    BY <1>0 DEF Ids
  <2>5. \A i \in DOMAIN call.answer : call.answer[i] <= published'
    BY <1>1, <2>3, <2>4 DEF Answers
  <2> QED
    BY <1>1, <2>5 DEF Answers, Answered
<1>2. CASE Answer
  <2>1. call # None /\ call \in Calls /\ UNCHANGED <<published, feed>>
    BY <1>2 DEF Answer, TypeOK, server
  <2>2. PICK n \in Nat, ids \in Seq(Ids) :
          /\ ids \in [1..n -> Wanted(call)] /\ Len(ids) = n /\ NewestFirst(ids, Wanted(call))
          /\ call' = [call EXCEPT !.answer = ids, !.cut = ToSet(ids) # Wanted(call)]
    BY <1>2, AnswerIs
  <2>3. call'.answer = ids /\ call'.since = call.since /\ call'.max = call.max
    BY <2>1, <2>2 DEF Calls
  <2>4. \A i \in DOMAIN ids : /\ ids[i] <= published
                              /\ call.since # None => ids[i] > call.since
                              /\ call.max # None => ids[i] < call.max
    BY <2>2 DEF Wanted, Known
  <2>5. Falling(ids)
    BY <2>2 DEF NewestFirst, Falling
  <2> QED
    BY <2>1, <2>3, <2>4, <2>5 DEF Answers
<1>3. CASE ~Answer /\ call' # call /\ call' # None
  <2>1. call'.answer = None
    BY <1>3, StepAsked, AskedIs DEF TypeOK, Lists
  <2> QED
    BY <2>1 DEF Answers, Answered
<1>4. CASE call' = None \/ (call' = call /\ ~Answered)
  BY <1>4 DEF Answers, Answered
<1> QED
  BY <1>1, <1>2, <1>3, <1>4

LEMMA StepSound == TypeOK /\ Sound /\ [Next]_vars => Sound'
BY StepTyped, StepWired, StepKnown, StepAnswers DEF Sound

LEMMA InitSound == Init => Sound
<1> SUFFICES ASSUME Init PROVE Sound
  OBVIOUS
<1>1. live = FALSE /\ wire = <<>> /\ feed = {} /\ items = <<>> /\ call = None
  BY DEF Init
<1>2. Coming = {}
  BY <1>1 DEF Coming
<1> QED
  BY <1>1, <1>2 DEF Sound, Wired, Known, Answers, Answered

--------------------------------------------------------------------------------
(* No status is in the list twice. *)

Distinct(list) == \A i, j \in DOMAIN list : list[i] = list[j] /\ list[i] # Gap => i = j

LEMMA DistinctOnly ==
  ASSUME NEW list \in Lists, NEW set, Distinct(list)
  PROVE  Distinct(Only(list, set))
<1> DEFINE r == Only(list, set)
<1>1. PICK f : Picks(r, f, list, set, Len(list))
  BY OnlyIs DEF Lists
<1>2. DOMAIN r = 1..Len(r) /\ DOMAIN list = 1..Len(list) /\ Len(list) \in Nat /\ Len(r) \in Nat
  BY OnlyTyped, LenProperties DEF Lists
<1> HIDE DEF r
<1>3. ASSUME NEW j \in 1..Len(r), NEW k \in 1..Len(r), r[j] = r[k], r[j] # Gap
      PROVE  j = k
  <2>1. f[j] \in 1..Len(list) /\ f[k] \in 1..Len(list) /\ r[j] = list[f[j]] /\ r[k] = list[f[k]]
    BY <1>1 DEF Picks
  <2>2. f[j] = f[k]
    BY <1>2, <1>3, <2>1 DEF Distinct
  <2>3. ~(j < k) /\ ~(k < j)
    <3>1. /\ j < k => f[j] < f[k]
          /\ k < j => f[k] < f[j]
      BY <1>1 DEF Picks
    <3> QED
      BY <2>1, <2>2, <3>1, <1>2
  <2> QED
    BY <2>3, <1>2
<1>4. Distinct(r)
  BY <1>2, <1>3 DEF Distinct
<1> QED
  BY <1>4 DEF r

LEMMA DistinctPiece ==
  ASSUME NEW list \in Lists, NEW n \in 0..Len(list), NEW m \in 0..n, Distinct(list)
  PROVE  Distinct(SubSeq(list, m + 1, n))
<1> DEFINE r == SubSeq(list, m + 1, n)
<1>1. r \in Lists /\ Len(r) = n - m /\ \A i \in 1..(n - m) : r[i] = list[m + i]
  BY PieceIs DEF Lists
<1> HIDE DEF r
<1>2. DOMAIN r = 1..Len(r) /\ DOMAIN list = 1..Len(list) /\ Len(list) \in Nat
  BY <1>1, LenProperties DEF Lists
<1>3. m \in Int /\ n \in Int /\ 0 <= m /\ m <= n /\ n <= Len(list)
  BY <1>2
<1>4. ASSUME NEW j \in 1..Len(r), NEW k \in 1..Len(r), r[j] = r[k], r[j] # Gap
      PROVE  j = k
  <2>1. m + j \in 1..Len(list) /\ m + k \in 1..Len(list) /\ r[j] = list[m + j] /\ r[k] = list[m + k]
    BY <1>1, <1>2, <1>3
  <2>2. m + j = m + k
    BY <1>2, <1>4, <2>1 DEF Distinct
  <2> QED
    BY <1>3, <1>1, <2>2
<1>5. Distinct(r)
  BY <1>2, <1>4 DEF Distinct
<1> QED
  BY <1>5 DEF r

\* An answer and what is kept of the statuses older than it.
LEMMA DistinctBoth ==
  ASSUME NEW ids \in Seq(Ids), NEW older \in Seq(Ids), Falling(ids), Distinct(older),
         \A i \in 1..Len(older), j \in 1..Len(ids) : older[i] < ids[j]
  PROVE  Distinct(ids \o older)
<1> DEFINE r == ids \o older
<1>1. /\ r \in Seq(Ids) /\ Len(r) = Len(ids) + Len(older)
      /\ \A i \in 1..(Len(ids) + Len(older)) : r[i] = IF i <= Len(ids) THEN ids[i] ELSE older[i - Len(ids)]
  BY ConcatProperties
<1> HIDE DEF r
<1>2. /\ DOMAIN r = 1..Len(r) /\ DOMAIN ids = 1..Len(ids) /\ DOMAIN older = 1..Len(older)
      /\ Len(ids) \in Nat /\ Len(older) \in Nat
  BY <1>1, LenProperties
<1>3. /\ \A i \in 1..Len(ids) : ids[i] \in Ids
      /\ \A i \in 1..Len(older) : older[i] \in Ids /\ older[i] # Gap
  <2>1. /\ \A i \in 1..Len(ids) : ids[i] \in Ids
        /\ \A i \in 1..Len(older) : older[i] \in Ids
    BY ElementOfSeq
  <2>2. \A x \in Ids : x # Gap
    BY Bounds DEF Ids
  <2> QED
    BY <2>1, <2>2
<1>4. ASSUME NEW j \in 1..Len(r), NEW k \in 1..Len(r), r[j] = r[k], j < k
      PROVE  FALSE
  <2>1. CASE k <= Len(ids)
    <3>1. j \in 1..Len(ids) /\ k \in 1..Len(ids) /\ r[j] = ids[j] /\ r[k] = ids[k]
      BY <1>1, <1>2, <1>4, <2>1
    <3>2. ids[j] > ids[k]
      BY <3>1, <1>2, <1>4 DEF Falling
    <3> QED
      BY <3>1, <3>2, <1>3, <1>4 DEF Ids
  <2>2. CASE j <= Len(ids) /\ k > Len(ids)
    <3>1. j \in 1..Len(ids) /\ k - Len(ids) \in 1..Len(older) /\ r[j] = ids[j] /\ r[k] = older[k - Len(ids)]
      BY <1>1, <1>2, <1>4, <2>2
    <3>2. older[k - Len(ids)] < ids[j]
      BY <3>1
    <3> QED
      BY <3>1, <3>2, <1>3, <1>4 DEF Ids
  <2>3. CASE j > Len(ids)
    <3>1. /\ j - Len(ids) \in 1..Len(older) /\ k - Len(ids) \in 1..Len(older)
          /\ r[j] = older[j - Len(ids)] /\ r[k] = older[k - Len(ids)]
      BY <1>1, <1>2, <1>4, <2>3
    <3>2. j - Len(ids) = k - Len(ids)
      BY <3>1, <1>2, <1>3, <1>4 DEF Distinct
    <3> QED
      BY <3>2, <1>2, <1>4
  <2> QED
    BY <1>1, <1>2, <1>4, <2>1, <2>2, <2>3
<1>5. Distinct(r)
  BY <1>1, <1>2, <1>4 DEF Distinct
<1> QED
  BY <1>5 DEF r

LEMMA DistinctSpliced ==
  ASSUME NEW list \in Lists, NEW ins \in Lists, NEW last \in 0..Len(list), NEW first \in 0..last,
         Distinct(list), Distinct(ins),
         \A i \in 1..Len(ins) : \A j \in 1..Len(list) : j <= first \/ j > last => list[j] # ins[i]
  PROVE  Distinct(Spliced(list, first, ins, last))
<1> DEFINE r == Spliced(list, first, ins, last)
<1>1. r \in Lists
  BY SplicedIs DEF Lists
<1>2. /\ DOMAIN r = 1..Len(r) /\ DOMAIN list = 1..Len(list) /\ DOMAIN ins = 1..Len(ins)
      /\ Len(list) \in Nat /\ Len(ins) \in Nat
  BY <1>1, LenProperties DEF Lists
<1>3. \A k \in 1..Len(r) :
        \/ k \in 1..first /\ r[k] = list[k]
        \/ \E i \in 1..Len(ins) : k = first + i /\ r[k] = ins[i]
        \/ \E i \in (last + 1)..Len(list) : k = first + Len(ins) + (i - last) /\ r[k] = list[i]
  <2> SUFFICES ASSUME NEW k \in 1..Len(r)
               PROVE  \/ k \in 1..first /\ r[k] = list[k]
                      \/ \E i \in 1..Len(ins) : k = first + i /\ r[k] = ins[i]
                      \/ \E i \in (last + 1)..Len(list) : k = first + Len(ins) + (i - last) /\ r[k] = list[i]
    OBVIOUS
  <2> QED
    BY SplicedFrom
<1> HIDE DEF r
<1>4. first \in Int /\ last \in Int /\ 0 <= first /\ first <= last /\ last <= Len(list)
  BY <1>2
<1>5. ASSUME NEW j \in 1..Len(r), NEW k \in 1..Len(r), r[j] = r[k], r[j] # Gap
      PROVE  j = k
  <2>1. \A i \in 1..first : i \in 1..Len(list) /\ i <= first
    BY <1>4
  <2>2. \A i \in (last + 1)..Len(list) : i \in 1..Len(list) /\ i > last
    BY <1>4
  <2>3. CASE j \in 1..first /\ r[j] = list[j]
    <3>1. CASE k \in 1..first /\ r[k] = list[k]
      BY <1>2, <1>5, <2>1, <2>3, <3>1 DEF Distinct
    <3>2. ASSUME NEW i \in 1..Len(ins), r[k] = ins[i]
          PROVE  FALSE
      BY <1>5, <2>1, <2>3, <3>2
    <3>3. ASSUME NEW i \in (last + 1)..Len(list), r[k] = list[i]
          PROVE  FALSE
      <4>1. i = j
        BY <1>2, <1>5, <2>1, <2>2, <2>3, <3>3 DEF Distinct
      <4> QED
        BY <4>1, <1>4, <2>3
    <3> QED
      BY <1>3, <3>1, <3>2, <3>3
  <2>4. ASSUME NEW i \in 1..Len(ins), j = first + i, r[j] = ins[i]
        PROVE  j = k
    <3>1. CASE k \in 1..first /\ r[k] = list[k]
      BY <1>5, <2>1, <2>4, <3>1
    <3>2. ASSUME NEW m \in 1..Len(ins), k = first + m, r[k] = ins[m]
          PROVE  j = k
      BY <1>2, <1>5, <2>4, <3>2 DEF Distinct
    <3>3. ASSUME NEW m \in (last + 1)..Len(list), r[k] = list[m]
          PROVE  FALSE
      BY <1>5, <2>2, <2>4, <3>3
    <3> QED
      BY <1>3, <3>1, <3>2, <3>3
  <2>5. ASSUME NEW i \in (last + 1)..Len(list), j = first + Len(ins) + (i - last), r[j] = list[i]
        PROVE  j = k
    <3>1. ASSUME k \in 1..first, r[k] = list[k]
          PROVE  FALSE
      <4>1. i = k
        BY <1>2, <1>5, <2>1, <2>2, <2>5, <3>1 DEF Distinct
      <4> QED
        BY <4>1, <1>4, <3>1
    <3>2. ASSUME NEW m \in 1..Len(ins), r[k] = ins[m]
          PROVE  FALSE
      BY <1>5, <2>2, <2>5, <3>2
    <3>3. ASSUME NEW m \in (last + 1)..Len(list), k = first + Len(ins) + (m - last), r[k] = list[m]
          PROVE  j = k
      BY <1>2, <1>5, <2>2, <2>5, <3>3 DEF Distinct
    <3> QED
      BY <1>3, <3>1, <3>2, <3>3
  <2> QED
    BY <1>3, <2>3, <2>4, <2>5
<1>6. Distinct(r)
  BY <1>2, <1>5 DEF Distinct
<1> QED
  BY <1>6 DEF r

\* What an answer brings is in no other place of the list.
LEMMA InsertedNew ==
  ASSUME NEW list \in Lists, NEW ids \in Seq(Ids), ids # <<>>,
         NEW i \in 1..Len(Inserted(list, ids)), NEW j \in 1..Len(list),
         j <= HighCut(list, ids) \/ j > LowCut(list, ids)
  PROVE  list[j] # Inserted(list, ids)[i]
<1> DEFINE high == HighCut(list, ids)
           low == LowCut(list, ids)
           above == SubSeq(list, 1, high)
           under == SubSeq(list, low + 1, Len(list))
           both == ids \o Older(list, ids)
           new == Ids \ Elsewhere(list, ids)
<1>1. low \in 0..Len(list) /\ high \in 0..low /\ Len(list) \in Nat
  BY CutsAre, LenProperties DEF Lists
<1>2. both \in Lists
  <2>1. both \in Seq(Ids)
    BY OlderIs, ConcatProperties DEF Lists
  <2> QED
    BY <2>1, SeqDef DEF Lists
<1>3. Elsewhere(list, ids) = ToSet(above) \cup ToSet(under)
  BY DEF Elsewhere
<1>4. Inserted(list, ids) = Only(both, new)
  BY DEF Inserted
<1> HIDE DEF both, high, low
<1>5. Inserted(list, ids)[i] \notin ToSet(above) \cup ToSet(under)
  <2>1. Only(both, new)[i] \in new
    <3> HIDE DEF new
    <3> QED
      BY <1>2, <1>4, OnlyFrom
  <2> QED
    BY <1>3, <1>4, <2>1
<1>6. CASE j <= high
  <2>1. j \in 1..high /\ high \in 0..Len(list) /\ 0 \in 0..high /\ 0 + 1 = 1 /\ high - 0 = high
    BY <1>1, <1>6
  <2>2. above \in Lists /\ Len(above) = high /\ \A m \in 1..high : above[m] = list[0 + m]
    BY <2>1, PieceIs DEF Lists
  <2> HIDE DEF above
  <2>3. list[j] \in ToSet(above)
    BY <2>1, <2>2, ToSetIs
  <2> QED
    BY <1>5, <2>3
<1>7. CASE j > low
  <2>1. j - low \in 1..(Len(list) - low) /\ low + (j - low) = j /\ Len(list) \in 0..Len(list) /\ low \in 0..Len(list)
    BY <1>1, <1>7
  <2>2. under \in Lists /\ Len(under) = Len(list) - low /\ \A m \in 1..(Len(list) - low) : under[m] = list[low + m]
    BY <2>1, PieceIs DEF Lists
  <2> HIDE DEF under
  <2>3. list[j] \in ToSet(under)
    BY <2>1, <2>2, ToSetIs
  <2> QED
    BY <1>5, <2>3
<1> QED
  BY <1>6, <1>7 DEF high, low

\* What is kept under an answer is older than it.
LEMMA OlderThan ==
  ASSUME NEW list \in Lists, NEW ids \in Seq(Ids), ids # <<>>, Falling(ids),
         NEW i \in 1..Len(Older(list, ids)), NEW j \in 1..Len(ids)
  PROVE  Older(list, ids)[i] < ids[j]
<1> DEFINE piece == SubSeq(list, HighCut(list, ids) + 1, LowCut(list, ids))
           below == Before(Last(ids))
<1>1. piece \in Lists
  BY CutsAre, PieceIs DEF Lists
<1>2. Older(list, ids) = Only(piece, below)
  BY DEF Older
<1>3. Older(list, ids)[i] \in below
  <2> HIDE DEF piece, below
  <2> QED
    BY <1>1, <1>2, OnlyFrom
<1>4. Len(ids) \in Nat \ {0} /\ Last(ids) = ids[Len(ids)] /\ Last(ids) \in Ids /\ ids[j] \in Ids
  BY EndsOf, ElementOfSeq
<1>5. ids[Len(ids)] <= ids[j]
  <2>1. DOMAIN ids = 1..Len(ids) /\ Len(ids) \in 1..Len(ids)
    BY <1>4, LenProperties
  <2>2. j < Len(ids) => ids[j] > ids[Len(ids)]
    BY <2>1 DEF Falling
  <2> QED
    BY <1>4, <2>2 DEF Ids
<1> QED
  BY <1>3, <1>4, <1>5 DEF Before, Ids

LEMMA DistinctExpanded ==
  ASSUME NEW list \in Lists, NEW ids \in Seq(Ids), ids # <<>>, Falling(ids), Distinct(list)
  PROVE  Distinct(Expanded(list, ids))
<1> DEFINE high == HighCut(list, ids)
           low == LowCut(list, ids)
           older == Older(list, ids)
           both == ids \o older
           ins == Inserted(list, ids)
<1>1. low \in 0..Len(list) /\ high \in 0..low
  BY CutsAre DEF Lists
<1>2. older \in Seq(Ids) /\ Distinct(older)
  <2>1. SubSeq(list, high + 1, low) \in Lists
    BY <1>1, PieceIs DEF Lists
  <2>2. Distinct(SubSeq(list, high + 1, low))
    BY <1>1, DistinctPiece
  <2>3. Distinct(Only(SubSeq(list, high + 1, low), Before(Last(ids))))
    <3> DEFINE piece == SubSeq(list, high + 1, low)
    <3> HIDE DEF piece, high, low
    <3> QED
      BY <2>1, <2>2, DistinctOnly DEF piece
  <2> QED
    BY <2>3, OlderIs DEF Older, Lists
<1>3. \A i \in 1..Len(older), j \in 1..Len(ids) : older[i] < ids[j]
  BY OlderThan
<1>4. both \in Lists /\ Distinct(both)
  <2> HIDE DEF older
  <2>1. both \in Seq(Ids) /\ Distinct(both)
    BY <1>2, <1>3, DistinctBoth, ConcatProperties
  <2> QED
    BY <2>1, SeqDef DEF Lists
<1>5. ins \in Lists /\ Distinct(ins)
  <2>1. ins = Only(both, Ids \ Elsewhere(list, ids))
    BY DEF Inserted
  <2>2. ins \in Seq(Ids)
    BY ExpandedIs DEF Lists
  <2>3. ins \in Lists
    <3> HIDE DEF ins
    <3> QED
      BY <2>2, SeqDef DEF Lists
  <2> DEFINE new == Ids \ Elsewhere(list, ids)
  <2> HIDE DEF both, new
  <2>4. Distinct(Only(both, new))
    BY <1>4, DistinctOnly
  <2> QED
    BY <2>1, <2>3, <2>4 DEF new
<1>6. \A i \in 1..Len(ins) : \A j \in 1..Len(list) : j <= high \/ j > low => list[j] # ins[i]
  BY InsertedNew
<1>7. Expanded(list, ids) = Spliced(list, high, ins, low)
  BY ExpandedIs DEF Lists
<1> HIDE DEF high, low, ins
<1> QED
  BY <1>1, <1>5, <1>6, <1>7, DistinctSpliced

LEMMA StepDistinct ==
  ASSUME TypeOK, TypeOK', Answers, NothingTwice, [Next]_vars
  PROVE  NothingTwice'
<1>0. /\ items \in Lists /\ Distinct(items) /\ DOMAIN items = 1..Len(items) /\ Len(items) \in Nat
      /\ DOMAIN items' = 1..Len(items')
  BY LenProperties DEF TypeOK, Lists, NothingTwice, Distinct
<1>1. Distinct(items') => NothingTwice'
  BY DEF Distinct, NothingTwice
<1>2. CASE items' = items
  BY <1>0, <1>1, <1>2
<1>3. CASE items' = Marked(items)
  <2>1. CASE /\ Len(Marked(items)) = Len(items) + 1 /\ Marked(items)[1] = Gap
             /\ \A k \in 2..(Len(items) + 1) : Marked(items)[k] = items[k - 1]
    <3>1. ASSUME NEW j \in 1..Len(items'), NEW k \in 1..Len(items'), items'[j] = items'[k], items'[j] # Gap
          PROVE  j = k
      <4>1. j \in 2..(Len(items) + 1) /\ k \in 2..(Len(items) + 1)
        BY <1>0, <1>3, <2>1, <3>1
      <4>2. items'[j] = items[j - 1] /\ items'[k] = items[k - 1] /\ j - 1 \in 1..Len(items) /\ k - 1 \in 1..Len(items)
        BY <1>0, <1>3, <2>1, <4>1
      <4>3. j - 1 = k - 1
        BY <1>0, <3>1, <4>2 DEF Distinct
      <4> QED
        BY <4>1, <4>3
    <3> QED
      BY <1>0, <1>1, <3>1 DEF Distinct
  <2> QED
    BY <1>0, <1>2, <1>3, <2>1, MarkedIs
<1>4. CASE Arrive
  <2>1. Answered /\ call \in Calls /\ call.answer # None
    BY <1>4 DEF Arrive, TypeOK, Answered
  <2>2. call.answer \in Seq(Ids) /\ Falling(call.answer)
    BY <2>1 DEF Calls, Answers
  <2>3. items' = IF call.answer = <<>> THEN items ELSE Expanded(items, call.answer)
    BY <1>4 DEF Arrive
  <2>4. CASE call.answer # <<>>
    <3>1. Distinct(Expanded(items, call.answer))
      BY <1>0, <2>2, <2>4, DistinctExpanded
    <3> QED
      BY <1>1, <2>3, <2>4, <3>1
  <2> QED
    BY <1>2, <2>3, <2>4
<1>5. CASE Receive
  <2>1. wire # <<>>
    BY <1>5 DEF Receive
  <2>2. CASE Head(wire).event = "update" /\ Head(wire).id \notin ToSet(items)
    <3>1. Update(Head(wire).id) /\ Head(wire).id \in Ids
      BY <1>5, <2>1, <2>2, WireIs DEF Receive
    <3>2. PICK n \in 0..Len(items) :
            /\ Len(items') = n + 1 /\ items'[1] = Head(wire).id
            /\ \A k \in 2..(n + 1) : items'[k] = items[k - 1]
      BY <3>1, <2>2, UpdateIs
    <3>3. \A k \in 2..(n + 1) : k - 1 \in 1..Len(items) /\ items'[k] # Head(wire).id
      <4>1. \A k \in 2..(n + 1) : k - 1 \in 1..Len(items)
        BY <1>0
      <4> QED
        BY <1>0, <2>2, <3>2, <4>1, ToSetIs
    <3>4. ASSUME NEW j \in 1..Len(items'), NEW k \in 1..Len(items'), items'[j] = items'[k], items'[j] # Gap
          PROVE  j = k
      <4>1. /\ j = 1 \/ j \in 2..(n + 1)
            /\ k = 1 \/ k \in 2..(n + 1)
        BY <1>0, <3>2
      <4>2. CASE j \in 2..(n + 1) /\ k \in 2..(n + 1)
        <5>1. j - 1 = k - 1
          <6>1. j - 1 \in 1..Len(items) /\ k - 1 \in 1..Len(items)
            BY <3>3, <4>2
          <6>2. items'[j] = items[j - 1] /\ items'[k] = items[k - 1]
            BY <3>2, <4>2
          <6> QED
            BY <1>0, <3>4, <6>1, <6>2 DEF Distinct
        <5> QED
          BY <4>2, <5>1
      <4> QED
        BY <3>2, <3>3, <3>4, <4>1, <4>2
    <3> QED
      BY <1>0, <1>1, <3>4 DEF Distinct
  <2>3. CASE Head(wire).event = "update" /\ Head(wire).id \in ToSet(items)
    BY <1>2, <1>5, <2>3 DEF Receive, Update
  <2>4. CASE Head(wire).event # "update"
    <3> DEFINE set == (Ids \ {Head(wire).id}) \cup {Gap}
    <3>1. items' = Only(items, set)
      BY <1>5, <2>4 DEF Receive
    <3> HIDE DEF set
    <3> QED
      BY <1>0, <1>1, <3>1, DistinctOnly
  <2> QED
    BY <2>2, <2>3, <2>4
<1>6. CASE UNCHANGED vars \/ Publish \/ GoLive \/ Scroll \/ (\E s \in feed : Delete(s))
           \/ Visit \/ LoadOlder \/ Fail \/ Answer \/ (\E i \in DOMAIN items : LoadGap(i))
           \/ (\E l \in Loops : Poll(l) \/ Rearm(l))
  BY <1>2, <1>6 DEF vars, timeline, Publish, GoLive, Scroll, Delete, Visit, LoadOlder, Fail, Answer, LoadGap, Poll, Rearm
<1>7. CASE Connect \/ Disconnect
  BY <1>2, <1>3, <1>7 DEF Connect, Connected, Disconnect
<1> QED
  BY <1>4, <1>5, <1>6, <1>7 DEF Next

--------------------------------------------------------------------------------
(* What holds of a list, and of the request under way, when nothing has slipped by. *)

\* The statuses of a list are in order.
InOrder(list) ==
  \A i, j \in 1..Len(list) : i < j /\ list[i] # Gap /\ list[j] # Gap => list[i] > list[j]

\* The feed has nothing between two of them with no gap between.
Dense ==
  \A i \in 2..Len(items) : items[i - 1] # Gap /\ items[i] # Gap =>
    \A s \in feed : ~(items[i] < s /\ s < items[i - 1])

\* Nor above the first, but for what is on the wire.
TopSeen ==
  online /\ items # <<>> /\ items[1] # Gap => \A s \in feed : s > items[1] => s \in Coming

\* A request goes on from a status that stays in the list, or else what is on the wire is newer;
\* and the feed has nothing between it and the status under its place.
Under(list, i, since) ==
  /\ list[i] # Gap /\ list[i] < since
  /\ i = 1 \/ (list[i - 1] # Gap /\ list[i - 1] > since)

SinceKept ==
  call # None /\ call.since # None =>
    /\ call.since \notin ToSet(items) => \A id \in Coming : id > call.since
    /\ \A i \in 1..Len(items) : Under(items, i, call.since) =>
         \A s \in feed : ~(items[i] < s /\ s <= call.since)

MaxKept == call # None /\ call.max # None => call.max \in ToSet(items)

\* Of what was asked for, the feed has nothing within an answer that the answer lacks; what is
\* newer came after it; and nothing is older unless the answer was cut.
Later(s) == s \in Coming /\ \A i \in 1..Len(items) : items[i] # Gap => items[i] < s

Complete ==
  Answered /\ call.answer # <<>> =>
    /\ \A s \in Wanted(call) :
         Last(call.answer) <= s /\ s <= Head(call.answer) => s \in ToSet(call.answer)
    /\ \A s \in Wanted(call) :
         s > Head(call.answer) => call.max = None /\ (s \in ToSet(items) \/ Later(s))
    /\ ~call.cut => \A s \in Wanted(call) : s >= Last(call.answer)

Whole == InOrder(items) /\ Dense /\ TopSeen /\ SinceKept /\ MaxKept /\ Complete
Seen == slips = {} => Whole

LEMMA SlipsStay ==
  ASSUME [Next]_vars, slips' = {}
  PROVE  slips = {}
<1>1. CASE UNCHANGED slips
  BY <1>1
<1>2. CASE Publish \/ Disconnect \/ Arrive
  BY <1>2 DEF Publish, Disconnect, Arrive
<1>3. CASE Receive
  BY <1>3 DEF Receive, Update
<1>4. CASE UNCHANGED vars
  BY <1>4 DEF vars
<1>5. CASE Visit \/ LoadOlder \/ Answer \/ Fail \/ Scroll \/ (\E i \in DOMAIN items : LoadGap(i))
          \/ (\E l \in Loops : Poll(l) \/ Rearm(l)) \/ Connect \/ GoLive \/ (\E s \in feed : Delete(s))
  BY <1>1, <1>5 DEF Visit, LoadOlder, Answer, Fail, Scroll, LoadGap, Poll, Rearm, Connect, Connected, GoLive, Delete
<1> QED
  BY <1>2, <1>3, <1>4, <1>5 DEF Next

\* The types, as the proofs below use them.
LEMMA Shown ==
  ASSUME TypeOK
  PROVE  /\ items \in Lists /\ Len(items) \in Nat /\ feed \subseteq Ids
         /\ \A i \in 1..Len(items) : items[i] # Gap => items[i] \in Ids
         /\ \A x \in Ids : x # Gap
<1>1. items \in Lists /\ Len(items) \in Nat /\ feed \subseteq Ids
  BY LenProperties DEF TypeOK, Lists
<1>2. \A i \in 1..Len(items) : items[i] \in Ids \cup {Gap}
  BY <1>1, ElementOfSeq DEF Lists
<1> QED
  BY <1>1, <1>2, Bounds DEF Ids

LEMMA CallIs ==
  ASSUME TypeOK, call # None
  PROVE  /\ call \in Calls
         /\ call.since # None => call.since \in Ids
         /\ call.max # None => call.max \in Ids
         /\ call.answer # None => call.answer \in Seq(Ids)
BY DEF TypeOK, Calls

LEMMA ComingTyped ==
  ASSUME TypeOK, Wired, NEW id \in Coming
  PROVE  id \in Ids /\ id <= published
<1>1. PICK j \in 1..Len(wire) : wire[j].id = id
  BY ComingIs
<1> QED
  BY <1>1, WiredAt

\* A new request keeps to the list.
LEMMA AskedKept ==
  ASSUME NEW list \in Lists, InOrder(list), NEW c, Asked(c, list)
  PROVE  /\ c.answer = None
         /\ c.since # None => c.since \in ToSet(list) /\ \A i \in 1..Len(list) : ~Under(list, i, c.since)
         /\ c.max # None => c.max \in ToSet(list)
<1>1. /\ c.answer = None
      /\ c.since # None => list # <<>> /\ list[1] \in Ids /\ c.since = list[1]
      /\ c.max # None => c.max \in ToSet(list)
  BY AskedIs
<1>2. ASSUME c.since # None
      PROVE  c.since \in ToSet(list) /\ \A i \in 1..Len(list) : ~Under(list, i, c.since)
  <2>1. 1 \in 1..Len(list) /\ list[1] \in Ids /\ c.since = list[1] /\ Len(list) \in Nat
    BY <1>1, <1>2, EndsOf DEF Lists
  <2>2. c.since \in ToSet(list)
    BY <2>1, ToSetIs
  <2>3. ASSUME NEW i \in 1..Len(list), Under(list, i, c.since)
        PROVE  FALSE
    <3>1. list[i] # Gap /\ list[i] < list[1] /\ (i = 1 \/ (list[i - 1] # Gap /\ list[i - 1] > list[1]))
      BY <2>1, <2>3 DEF Under
    <3>2. i # 1
      BY <2>1, <3>1 DEF Ids
    <3>3. i - 1 \in 1..Len(list) /\ list[i - 1] \in Ids /\ list[i - 1] > list[1]
      <4>1. i - 1 \in 1..Len(list)
        BY <2>1, <3>2
      <4>2. list[i - 1] \in Ids \cup {Gap}
        BY <4>1, ElementOfSeq DEF Lists
      <4> QED
        BY <3>1, <3>2, <4>1, <4>2
    <3>4. i - 1 # 1
      BY <2>1, <3>3 DEF Ids
    <3>5. list[1] > list[i - 1]
      <4>1. 1 < i - 1 /\ list[1] # Gap /\ list[i - 1] # Gap
        BY <2>1, <3>3, <3>4, Bounds DEF Ids
      <4> QED
        BY <2>1, <3>3, <4>1 DEF InOrder
    <3> QED
      BY <2>1, <3>3, <3>5 DEF Ids
  <2> QED
    BY <2>2, <2>3
<1> QED
  BY <1>1, <1>2

\* So a step that ends a request, or sends another, leaves only the list to look at.
LEMMA StepAsking ==
  ASSUME TypeOK, TypeOK', [Next]_vars, ~Answer, call' # call, InOrder(items)'
  PROVE  SinceKept' /\ MaxKept' /\ Complete'
<1>1. CASE call' = None
  BY <1>1 DEF SinceKept, MaxKept, Complete, Answered
<1>2. CASE call' # None
  <2>1. Asked(call', items') /\ items' \in Lists
    BY <1>2, StepAsked DEF TypeOK, Lists
  <2>2. InOrder(items')
    BY DEF InOrder
  <2>3. /\ call'.answer = None
        /\ call'.since # None => call'.since \in ToSet(items')
                                 /\ \A i \in 1..Len(items') : ~Under(items', i, call'.since)
        /\ call'.max # None => call'.max \in ToSet(items')
    BY <2>1, <2>2, AskedKept
  <2> QED
    BY <2>3 DEF SinceKept, MaxKept, Complete, Answered, Under
<1> QED
  BY <1>1, <1>2

LEMMA AnswerWhole ==
  ASSUME TypeOK, Whole, Answer
  PROVE  Whole'
<1>0. /\ call # None /\ call \in Calls /\ UNCHANGED <<feed, wire, items, online>>
      /\ items \in Lists /\ feed \subseteq Ids
  BY Shown DEF Answer, TypeOK, server, timeline
<1>1. PICK n \in Nat, ids \in Seq(Ids) :
        /\ ids \in [1..n -> Wanted(call)] /\ Len(ids) = n /\ NewestFirst(ids, Wanted(call))
        /\ call' = [call EXCEPT !.answer = ids, !.cut = ToSet(ids) # Wanted(call)]
  BY AnswerIs
<1>2. /\ call'.answer = ids /\ call'.since = call.since /\ call'.max = call.max
      /\ (~call'.cut => ToSet(ids) = Wanted(call))
  BY <1>0, <1>1 DEF Calls
<1>3. Coming' = Coming /\ Wanted(call)' = Wanted(call)
  BY <1>0, <1>2 DEF Coming, Wanted
<1>4. InOrder(items)' /\ Dense' /\ TopSeen'
  BY <1>0, <1>3 DEF Whole, InOrder, Dense, TopSeen
<1>5. SinceKept' /\ MaxKept'
  BY <1>0, <1>2, <1>3 DEF Whole, SinceKept, MaxKept, Under
<1>6. Complete'
  <2>1. CASE ids # <<>>
    <3>1. /\ n \in Nat \ {0} /\ Head(ids) = ids[1] /\ Last(ids) = ids[n] /\ DOMAIN ids = 1..n
      BY <1>1, <2>1, EndsOf
    <3>2. Wanted(call) \subseteq Ids
      BY <1>0 DEF Wanted
    <3>3. ASSUME NEW s \in Wanted(call), s \notin ToSet(ids)
          PROVE  s < ids[n] /\ s < ids[1] /\ ids[1] \in Ids /\ ids[n] \in Ids
      <4>1. \A i \in 1..n : s < ids[i]
        BY <1>1, <3>1, <3>3 DEF NewestFirst
      <4>2. 1 \in 1..n /\ n \in 1..n
        BY <3>1
      <4> QED
        BY <4>1, <4>2, <1>1, ElementOfSeq
    <3>4. ASSUME NEW s \in Wanted(call), s \in ToSet(ids)
          PROVE  ids[n] <= s /\ s <= ids[1]
      <4>1. PICK i \in 1..n : s = ids[i]
        BY <3>1, <3>4 DEF ToSet
      <4>2. 1 \in 1..n /\ n \in 1..n
        BY <3>1
      <4>3. ids[i] \in Ids /\ ids[1] \in Ids /\ ids[n] \in Ids
        BY <4>2, <1>1, ElementOfSeq
      <4>4. (1 < i => ids[1] > ids[i]) /\ (i < n => ids[i] > ids[n])
        BY <1>1, <3>1, <4>2 DEF NewestFirst
      <4> QED
        BY <3>1, <4>1, <4>3, <4>4 DEF Ids
    <3>5. \A s \in Wanted(call) : ids[n] <= s /\ s <= ids[1] => s \in ToSet(ids)
      BY <3>2, <3>3 DEF Ids
    <3>6. \A s \in Wanted(call) : ~(s > ids[1])
      <4>1. ids[1] \in Ids
        BY <3>1, <1>1, ElementOfSeq
      <4> QED
        BY <3>2, <3>3, <3>4, <4>1 DEF Ids
    <3>7. ~call'.cut => \A s \in Wanted(call) : s >= ids[n]
      <4>1. ids[n] \in Ids
        BY <3>1, <1>1, ElementOfSeq
      <4> QED
        BY <1>2, <3>2, <3>4, <4>1 DEF Ids
    <3> QED
      BY <1>2, <1>3, <3>1, <3>5, <3>6, <3>7 DEF Complete
  <2>2. CASE ids = <<>>
    BY <1>2, <2>2 DEF Complete
  <2> QED
    BY <2>1, <2>2
<1> QED
  BY <1>4, <1>5, <1>6 DEF Whole

\* A step that neither the list nor the feed takes part in.
LEMMA QuietWhole ==
  ASSUME TypeOK, TypeOK', [Next]_vars, Whole, ~Answer, UNCHANGED <<feed, wire, items, online>>
  PROVE  Whole'
<1>1. Coming' = Coming
  BY DEF Coming
<1>2. InOrder(items)' /\ Dense' /\ TopSeen'
  BY <1>1 DEF Whole, InOrder, Dense, TopSeen
<1>3. CASE call' = call
  <2>1. Wanted(call)' = Wanted(call) /\ Answered' = Answered
    BY <1>3 DEF Wanted, Answered
  <2>2. SinceKept' /\ MaxKept'
    BY <1>1, <1>3 DEF Whole, SinceKept, MaxKept, Under
  <2>3. Complete'
    BY <1>1, <1>3, <2>1 DEF Whole, Complete, Later
  <2> QED
    BY <1>2, <2>2, <2>3 DEF Whole
<1>4. CASE call' # call
  BY <1>2, <1>4, StepAsking DEF Whole
<1> QED
  BY <1>3, <1>4

LEMMA PublishWhole ==
  ASSUME TypeOK, TypeOK', Sound, Whole, Publish, slips' = {}
  PROVE  Whole'
<1>0. /\ published \in Nat /\ published' = published + 1 /\ feed' = feed \cup {published'} /\ published' \in Ids
      /\ Send("update", published') /\ UNCHANGED <<items, online, call>>
      /\ (~live => ~online /\ ~Answered)
  <2>1. published \in Nat /\ published < MaxStatus /\ MaxStatus \in Nat /\ published' = published + 1
    BY Bounds DEF Publish, TypeOK
  <2>2. published' \in Ids
    BY <2>1 DEF Ids
  <2> QED
    BY <2>1, <2>2 DEF Publish, timeline
<1>1. /\ items \in Lists /\ feed \subseteq Ids
      /\ \A i \in 1..Len(items) : items[i] # Gap => items[i] \in Ids
      /\ \A x \in Ids : x # Gap
  BY Shown
<1>2. /\ \A i \in 1..Len(items) : items[i] # Gap => items[i] < published'
      /\ \A s \in feed : s < published'
  <2>1. DOMAIN items = 1..Len(items)
    BY <1>1, LenProperties DEF Lists
  <2> QED
    BY <1>0, <1>1, <2>1 DEF Sound, Known, Ids
<1>3. /\ live => Coming' = Coming \cup {published'}
      /\ ~live => Coming' = Coming /\ Coming = {}
  <2>1. CASE live
    <3>1. /\ Len(wire) \in Nat /\ Len(wire') = Len(wire) + 1
          /\ \A j \in 1..Len(wire) : wire'[j] = wire[j]
          /\ wire'[Len(wire) + 1].event = "update" /\ wire'[Len(wire) + 1].id = published'
      BY <1>0, <2>1, SendIs
    <3>2. DOMAIN wire' = 1..(Len(wire) + 1) /\ DOMAIN wire = 1..Len(wire)
      BY <3>1, LenProperties DEF TypeOK
    <3>3. \A j : j \in 1..(Len(wire) + 1) <=> j \in 1..Len(wire) \/ j = Len(wire) + 1
      BY <3>1
    <3> QED
      BY <2>1, <3>1, <3>2, <3>3 DEF Coming
  <2>2. CASE ~live
    <3>1. wire = <<>> /\ wire' = <<>>
      BY <1>0, <2>2 DEF Send, Sound, Wired
    <3> QED
      BY <2>2, <3>1 DEF Coming
  <2> QED
    BY <2>1, <2>2
<1>4. InOrder(items)'
  BY <1>0 DEF Whole, InOrder
<1>5. Dense'
  <2>1. ASSUME NEW i \in 2..Len(items), items[i - 1] # Gap, items[i] # Gap, NEW s \in feed',
               items[i] < s, s < items[i - 1]
        PROVE  FALSE
    <3>1. i - 1 \in 1..Len(items) /\ items[i - 1] \in Ids
      BY <1>1, <2>1, Shown
    <3>2. items[i - 1] < published'
      BY <1>2, <2>1, <3>1
    <3>3. s # published'
      BY <1>0, <2>1, <3>1, <3>2 DEF Ids
    <3>4. s \in feed
      BY <1>0, <3>3
    <3> QED
      BY <2>1, <3>4 DEF Whole, Dense
  <2> QED
    BY <1>0, <2>1 DEF Dense
<1>6. TopSeen'
  BY <1>0, <1>3 DEF Whole, TopSeen
<1>7. SinceKept'
  <2>1. CASE call # None /\ call.since # None
    <3>1. call.since \in Ids /\ call.since <= published /\ call.since < published'
      BY <1>0, <2>1, CallIs DEF Sound, Known, Ids
    <3>2. call.since \notin ToSet(items) => \A id \in Coming' : id > call.since
      BY <1>0, <1>3, <2>1, <3>1 DEF Whole, SinceKept, Ids
    <3>3. ASSUME NEW i \in 1..Len(items), Under(items, i, call.since), NEW s \in feed',
                 items[i] < s, s <= call.since
          PROVE  FALSE
      <4>1. s # published'
        BY <1>0, <3>1, <3>3 DEF Ids
      <4> QED
        BY <1>0, <2>1, <3>3, <4>1 DEF Whole, SinceKept
    <3> QED
      BY <1>0, <3>2, <3>3 DEF SinceKept, Under
  <2>2. CASE ~(call # None /\ call.since # None)
    BY <1>0, <2>2 DEF SinceKept
  <2> QED
    BY <2>1, <2>2
<1>8. MaxKept'
  BY <1>0 DEF Whole, MaxKept
<1>9. Complete'
  <2>1. CASE Answered /\ call.answer # <<>>
    <3> DEFINE ids == call.answer
    <3>1. /\ call # None /\ live /\ ids \in Seq(Ids)
          /\ call.since # None => call.since \in Ids
          /\ call.max # None => call.max \in Ids /\ call.max < published'
      BY <1>0, <2>1, CallIs DEF Answered, Sound, Known, Ids
    <3>2. /\ Head(ids) \in Ids /\ Last(ids) \in Ids /\ Head(ids) < published' /\ Last(ids) < published'
      <4>1. /\ Len(ids) \in Nat \ {0} /\ Head(ids) = ids[1] /\ Last(ids) = ids[Len(ids)]
            /\ Head(ids) \in Ids /\ Last(ids) \in Ids /\ DOMAIN ids = 1..Len(ids)
        BY <2>1, <3>1, EndsOf, LenProperties
      <4>2. 1 \in DOMAIN ids /\ Len(ids) \in DOMAIN ids
        BY <4>1
      <4>3. ids[1] <= published /\ ids[Len(ids)] <= published
        BY <2>1, <4>2 DEF Sound, Answers
      <4> QED
        BY <1>0, <4>1, <4>3 DEF Ids
    <3>3. ASSUME NEW s \in Wanted(call)', s \notin Wanted(call)
          PROVE  s = published' /\ call.max = None
      <4>1. s \in feed' /\ (call.since # None => s > call.since) /\ (call.max # None => s < call.max)
        BY <1>0, <3>3 DEF Wanted
      <4>2. s = published'
        BY <1>0, <3>3, <4>1 DEF Wanted
      <4> QED
        BY <1>0, <3>1, <4>1, <4>2 DEF Ids
    <3>4. \A s \in Wanted(call)' : Last(ids) <= s /\ s <= Head(ids) => s \in ToSet(ids)
      BY <1>0, <2>1, <3>2, <3>3 DEF Whole, Complete, Ids
    <3>5. ASSUME NEW s \in Wanted(call)', s > Head(ids)
          PROVE  call.max = None /\ (s \in ToSet(items') \/ Later(s)')
      <4>1. CASE s \in Wanted(call)
        BY <1>0, <1>3, <2>1, <3>1, <3>5, <4>1 DEF Whole, Complete, Later
      <4>2. CASE s \notin Wanted(call)
        BY <1>0, <1>2, <1>3, <3>1, <3>3, <4>2 DEF Later
      <4> QED
        BY <4>1, <4>2
    <3>6. ~call.cut => \A s \in Wanted(call)' : s >= Last(ids)
      BY <1>0, <2>1, <3>2, <3>3 DEF Whole, Complete, Ids
    <3> QED
      BY <1>0, <3>4, <3>5, <3>6 DEF Complete
  <2>2. CASE ~(Answered /\ call.answer # <<>>)
    BY <1>0, <2>2 DEF Complete, Answered
  <2> QED
    BY <2>1, <2>2
<1> QED
  BY <1>4, <1>5, <1>6, <1>7, <1>8, <1>9 DEF Whole

LEMMA DeleteWhole ==
  ASSUME TypeOK, TypeOK', Sound, Whole, NEW d \in feed, Delete(d)
  PROVE  Whole'
<1>1. feed' \subseteq feed /\ UNCHANGED <<items, online, call>> /\ Coming' = Coming
  BY DeletedComing DEF Delete, timeline, Sound
<1>2. InOrder(items)' /\ Dense' /\ TopSeen'
  BY <1>1 DEF Whole, InOrder, Dense, TopSeen
<1>3. SinceKept' /\ MaxKept'
  BY <1>1 DEF Whole, SinceKept, MaxKept, Under
<1>4. Complete'
  <2>1. Wanted(call)' \subseteq Wanted(call)
    BY <1>1 DEF Wanted
  <2>2. Answered' = Answered
    BY <1>1 DEF Answered
  <2> QED
    BY <1>1, <2>1, <2>2 DEF Whole, Complete, Later
<1> QED
  BY <1>2, <1>3, <1>4 DEF Whole

\* A gap on top takes nothing away.
LEMMA MarkedOrder ==
  ASSUME TypeOK, Whole, items' = Marked(items), feed' = feed
  PROVE  InOrder(items)' /\ Dense' /\ TopSeen'
<1>0. Len(items) \in Nat /\ items \in Lists
  BY Shown
<1>1. CASE items' = items /\ (items = <<>> \/ items[1] = Gap)
  BY <1>1 DEF Whole, InOrder, Dense, TopSeen
<1>2. CASE /\ Len(items') = Len(items) + 1 /\ items'[1] = Gap
           /\ \A k \in 2..(Len(items) + 1) : items'[k] = items[k - 1]
  <2>1. \A k \in 1..Len(items') : items'[k] # Gap =>
          k \in 2..(Len(items) + 1) /\ k - 1 \in 1..Len(items) /\ items'[k] = items[k - 1]
    BY <1>0, <1>2
  <2>2. InOrder(items)'
    <3>1. ASSUME NEW i \in 1..Len(items'), NEW j \in 1..Len(items'), i < j, items'[i] # Gap, items'[j] # Gap
          PROVE  items'[i] > items'[j]
      <4>1. i - 1 < j - 1
        BY <1>0, <1>2, <3>1
      <4> QED
        BY <2>1, <3>1, <4>1 DEF Whole, InOrder
    <3> QED
      BY <3>1 DEF InOrder
  <2>3. Dense'
    <3>1. ASSUME NEW i \in 2..Len(items'), items'[i - 1] # Gap, items'[i] # Gap
          PROVE  \A s \in feed : ~(items'[i] < s /\ s < items'[i - 1])
      <4>1. i - 1 \in 1..Len(items') /\ i \in 1..Len(items')
        BY <1>0, <1>2
      <4>2. /\ i - 1 \in 2..Len(items) /\ items'[i] = items[i - 1]
            /\ items'[i - 1] = items[(i - 1) - 1]
        BY <1>0, <2>1, <3>1, <4>1
      <4> QED
        BY <3>1, <4>2 DEF Whole, Dense
    <3> QED
      BY <3>1 DEF Dense
  <2>4. TopSeen'
    BY <1>2 DEF TopSeen
  <2> QED
    BY <2>2, <2>3, <2>4
<1> QED
  BY <1>0, <1>1, <1>2, MarkedIs

LEMMA MarkedKept ==
  ASSUME TypeOK, Whole, items' = Marked(items), feed' = feed, call' = call, Coming' = {},
         Answered => Coming = {}
  PROVE  SinceKept' /\ MaxKept' /\ Complete'
<1>0. /\ items \in Lists /\ Len(items) \in Nat /\ feed \subseteq Ids /\ Marked(items) \in Lists
      /\ \A i \in 1..Len(items) : items[i] # Gap => items[i] \in Ids
  BY Shown, MarkedTyped
<1>1. CASE items' = items /\ (items = <<>> \/ items[1] = Gap)
  <2>2. SinceKept' /\ MaxKept'
    BY <1>1 DEF Whole, SinceKept, MaxKept, Under
  <2>3. Complete'
    BY <1>1 DEF Whole, Complete, Later, Wanted, Answered
  <2> QED
    BY <2>2, <2>3
<1>2. CASE /\ Len(items') = Len(items) + 1 /\ items'[1] = Gap
           /\ \A k \in 2..(Len(items) + 1) : items'[k] = items[k - 1]
  <2>0. items' \in Lists
    BY <1>0
  <2>1. \A k \in 1..Len(items') : items'[k] # Gap =>
          k \in 2..(Len(items) + 1) /\ k - 1 \in 1..Len(items) /\ items'[k] = items[k - 1]
    BY <1>0, <1>2
  <2>5. ASSUME NEW x \in ToSet(items)
        PROVE  x \in ToSet(items')
    <3>1. PICK i \in 1..Len(items) : items[i] = x
      BY <1>0, ToSetIs
    <3>2. i + 1 \in 2..(Len(items) + 1) /\ i + 1 \in 1..Len(items') /\ (i + 1) - 1 = i
      BY <1>0, <1>2
    <3>3. items'[i + 1] = x
      BY <1>2, <3>1, <3>2
    <3> QED
      BY <2>0, <3>2, <3>3, ToSetIs
  <2>6. SinceKept'
    <3>1. CASE call # None /\ call.since # None
      <4>1. ASSUME NEW i \in 1..Len(items'), Under(items', i, call.since)
            PROVE  \A s \in feed : ~(items'[i] < s /\ s <= call.since)
        <5>1. i - 1 \in 1..Len(items) /\ i # 1 /\ items'[i] = items[i - 1] /\ i \in Int
          BY <2>1, <4>1 DEF Under
        <5>2. items'[i - 1] # Gap /\ items'[i - 1] > call.since /\ i - 1 \in 1..Len(items')
          BY <1>0, <1>2, <4>1, <5>1 DEF Under
        <5>3. i - 1 # 1 /\ items'[i - 1] = items[(i - 1) - 1]
          BY <1>2, <2>1, <5>2
        <5>4. Under(items, i - 1, call.since)
          BY <4>1, <5>1, <5>2, <5>3 DEF Under
        <5> QED
          BY <3>1, <5>1, <5>4 DEF Whole, SinceKept
      <4> QED
        BY <4>1 DEF SinceKept, Under
    <3>2. CASE ~(call # None /\ call.since # None)
      BY <3>2 DEF SinceKept
    <3> QED
      BY <3>1, <3>2
  <2>7. MaxKept'
    BY <2>5 DEF Whole, MaxKept
  <2>8. Complete'
    <3>1. Wanted(call)' = Wanted(call) /\ Answered' = Answered
      BY DEF Wanted, Answered
    <3>2. Answered => \A s \in Ids : ~Later(s)
      BY DEF Later
    <3>3. Wanted(call) \subseteq Ids
      BY <1>0 DEF Wanted
    <3> QED
      BY <2>5, <3>1, <3>2, <3>3 DEF Whole, Complete
  <2> QED
    BY <2>6, <2>7, <2>8
<1> QED
  BY <1>0, <1>1, <1>2, MarkedIs

LEMMA LinkWhole ==
  ASSUME TypeOK, TypeOK', [Next]_vars, Sound, Whole, ~Pending, Connect \/ Disconnect, slips' = {}
  PROVE  Whole'
<1>1. CASE Connect
  <2>1. ~online /\ items' = Marked(items) /\ UNCHANGED <<published, feed, live, wire>>
    BY <1>1 DEF Connect, Connected, server
  <2>2. Coming = {} /\ Coming' = {}
    BY <2>1 DEF Sound, Wired, Coming
  <2>3. CASE call' = call
    BY <2>1, <2>2, <2>3, MarkedOrder, MarkedKept DEF Whole
  <2>4. CASE call' # call
    <3>1. InOrder(items)' /\ Dense' /\ TopSeen'
      BY <2>1, MarkedOrder
    <3>2. ~Answer
      BY <1>1, <2>4 DEF Connect, Connected, Answer
    <3> QED
      BY <2>4, <3>1, <3>2, StepAsking DEF Whole
  <2> QED
    BY <2>3, <2>4
<1>2. CASE Disconnect
  <2>1. /\ items' = Marked(items) /\ wire' = <<>> /\ feed' = feed /\ call' = call
        /\ (Answered => wire = <<>>)
    BY <1>2 DEF Disconnect
  <2>2. Coming' = {} /\ (Answered => Coming = {})
    BY <2>1 DEF Coming
  <2> QED
    BY <2>1, <2>2, MarkedOrder, MarkedKept DEF Whole
<1> QED
  BY <1>1, <1>2

\* An update that is in the list already.
LEMMA SeenAlreadyWhole ==
  ASSUME TypeOK, TypeOK', Sound, Whole, Receive, Head(wire).event = "update", Head(wire).id \in ToSet(items)
  PROVE  Whole'
<1>0. /\ wire # <<>> /\ wire' = Tail(wire) /\ UNCHANGED <<feed, items, online, call>>
      /\ items \in Lists /\ Len(items) \in Nat
      /\ \A i \in 1..Len(items) : items[i] # Gap => items[i] \in Ids
      /\ \A x \in Ids : x # Gap
  BY Shown DEF Receive, Update
<1>1. Coming' = Coming \ {Head(wire).id} /\ Head(wire).id \in Ids
  BY <1>0, WireIs, ReceivedComing DEF Sound
<1>2. InOrder(items)' /\ Dense'
  BY <1>0 DEF Whole, InOrder, Dense
<1>3. TopSeen'
  <2>1. ASSUME items # <<>>, items[1] # Gap, NEW s \in feed, s > items[1]
        PROVE  s # Head(wire).id
    <3>1. PICK i \in 1..Len(items) : items[i] = Head(wire).id
      BY <1>0, ToSetIs
    <3>2. 1 \in 1..Len(items) /\ items[1] \in Ids /\ s \in Ids
      BY <1>0, <2>1, EndsOf, Shown DEF Lists
    <3>3. i = 1 \/ items[1] > items[i]
      <4>1. i # 1 => 1 < i
        OBVIOUS
      <4> QED
        BY <1>0, <1>1, <2>1, <3>1, <3>2, <4>1 DEF Whole, InOrder
    <3> QED
      BY <1>1, <2>1, <3>1, <3>2, <3>3 DEF Ids
  <2> QED
    BY <1>0, <1>1, <2>1 DEF Whole, TopSeen
<1>4. SinceKept' /\ MaxKept'
  BY <1>0, <1>1 DEF Whole, SinceKept, MaxKept, Under
<1>5. Complete'
  <2>1. Wanted(call)' = Wanted(call) /\ Answered' = Answered
    BY <1>0 DEF Wanted, Answered
  <2>2. \A s : Later(s) => Later(s)'
    <3>1. ASSUME NEW s, Later(s)
          PROVE  Later(s)'
      <4>1. s # Head(wire).id
        <5>1. PICK i \in 1..Len(items) : items[i] = Head(wire).id
          BY <1>0, ToSetIs
        <5>2. items[i] < s
          BY <1>0, <1>1, <3>1, <5>1 DEF Later
        <5> QED
          BY <1>1, <5>1, <5>2 DEF Ids
      <4> QED
        BY <1>0, <1>1, <3>1, <4>1 DEF Later
    <3> QED
      BY <3>1
  <2> QED
    BY <1>0, <2>1, <2>2 DEF Whole, Complete
<1> QED
  BY <1>2, <1>3, <1>4, <1>5 DEF Whole

\* An update that is new is newer than the list.
LEMMA UpdateWhole ==
  ASSUME TypeOK, TypeOK', Sound, Whole, Receive, slips' = {},
         Head(wire).event = "update", Head(wire).id \notin ToSet(items)
  PROVE  Whole'
<1> DEFINE id == Head(wire).id
<1>0. /\ wire # <<>> /\ wire' = Tail(wire) /\ UNCHANGED <<feed, online, call>> /\ Update(id)
      /\ items \in Lists /\ Len(items) \in Nat /\ items' \in Lists
      /\ \A i \in 1..Len(items) : items[i] # Gap => items[i] \in Ids
      /\ \A x \in Ids : x # Gap
      /\ online
  BY Shown DEF Receive, Update, TypeOK, Lists, Sound, Wired
<1>1. /\ id \in Ids /\ Coming' = Coming \ {id} /\ \A s \in Coming' : id < s
  BY <1>0, WireIs, ReceivedComing DEF Sound
<1>2. id \in Coming
  <2>1. 1 \in 1..Len(wire) /\ wire[1].event = "update" /\ wire[1].id = id
    BY <1>0, WireIs
  <2> QED
    BY <2>1, ComingIs
<1>3. PICK n \in 0..Len(items) :
        /\ Len(items') = n + 1 /\ items'[1] = id
        /\ \A k \in 2..(n + 1) : items'[k] = items[k - 1]
        /\ n # Len(items) => n > 0 /\ (call # None => "trim" \in slips')
  BY <1>0, <1>1, UpdateIs
<1>4. ToSet(items') \cap From(id + 1) = {}
  BY <1>0, <1>1, UpdateIs
<1> HIDE DEF id
<1>5. ASSUME NEW k \in 2..(n + 1)
      PROVE  k - 1 \in 1..Len(items) /\ items'[k] = items[k - 1] /\ (items[k - 1] # Gap => items[k - 1] < id)
  <2>1. k - 1 \in 1..Len(items) /\ items'[k] = items[k - 1] /\ k \in 1..Len(items')
    BY <1>0, <1>3
  <2>2. ASSUME items[k - 1] # Gap
        PROVE  items[k - 1] < id
    <3>1. items[k - 1] \in Ids /\ items[k - 1] \in ToSet(items) /\ items[k - 1] \in ToSet(items')
      BY <1>0, <2>1, <2>2, ToSetIs
    <3>2. items[k - 1] \notin From(id + 1)
      BY <1>4, <3>1
    <3>3. items[k - 1] # id
      BY <3>1 DEF id
    <3> QED
      BY <1>1, <3>1, <3>2, <3>3, Bounds DEF From, Ids
  <2> QED
    BY <2>1, <2>2
<1>6. call # None => n = Len(items)
  BY <1>3
<1>7. ASSUME call # None, NEW x \in ToSet(items)
      PROVE  x \in ToSet(items')
  <2>1. PICK i \in 1..Len(items) : items[i] = x
    BY <1>0, <1>7, ToSetIs
  <2>2. i + 1 \in 2..(n + 1) /\ i + 1 \in 1..Len(items') /\ (i + 1) - 1 = i
    BY <1>0, <1>3, <1>6, <1>7
  <2>3. items'[i + 1] = x
    BY <1>5, <2>1, <2>2
  <2> QED
    BY <1>0, <2>2, <2>3, ToSetIs
<1>8. InOrder(items)'
  <2>1. ASSUME NEW i \in 1..Len(items'), NEW j \in 1..Len(items'), i < j, items'[i] # Gap, items'[j] # Gap
        PROVE  items'[i] > items'[j]
    <3>1. j \in 2..(n + 1)
      BY <1>3, <2>1
    <3>2. CASE i = 1
      BY <1>1, <1>0, <1>3, <1>5, <2>1, <3>1, <3>2 DEF Ids
    <3>3. CASE i # 1
      <4>1. i \in 2..(n + 1) /\ i - 1 < j - 1
        BY <1>3, <2>1, <3>3
      <4> QED
        BY <1>5, <2>1, <3>1, <4>1 DEF Whole, InOrder
    <3> QED
      BY <3>2, <3>3
  <2> QED
    BY <2>1 DEF InOrder
<1>9. Dense'
  <2>1. ASSUME NEW i \in 2..Len(items'), items'[i - 1] # Gap, items'[i] # Gap,
               NEW s \in feed, items'[i] < s, s < items'[i - 1]
        PROVE  FALSE
    <3>0. s \in Ids
      BY Shown
    <3>1. i \in 2..(n + 1) /\ items'[i] = items[i - 1] /\ i - 1 \in 1..Len(items)
      BY <1>3, <1>5, <2>1
    <3>2. CASE i = 2
      <4>1. items[1] # Gap /\ items # <<>> /\ s > items[1] /\ items'[1] = id
        <5>1. items'[2] = items[1] /\ 1 \in 1..Len(items)
          BY <3>1, <3>2
        <5> QED
          BY <1>0, <1>3, <2>1, <3>0, <3>2, <5>1 DEF Ids
      <4>2. s \in Coming
        BY <1>0, <4>1 DEF Whole, TopSeen
      <4>3. s < id
        BY <2>1, <3>2, <4>1
      <4> QED
        BY <1>1, <3>0, <4>2, <4>3 DEF Ids
    <3>3. CASE i # 2
      <4>1. i - 1 \in 2..(n + 1) /\ i - 1 \in 2..Len(items) /\ items'[i - 1] = items[(i - 1) - 1]
        BY <1>5, <3>1, <3>3
      <4> QED
        BY <2>1, <3>1, <4>1 DEF Whole, Dense
    <3> QED
      BY <3>2, <3>3
  <2> QED
    BY <1>0, <2>1 DEF Dense
<1>10. TopSeen'
  <2>1. ASSUME NEW s \in feed, s > id
        PROVE  s \in Coming'
    <3>1. s \in Coming /\ s \in Ids
      BY <1>2, <2>1, Shown DEF Sound, Wired
    <3> QED
      BY <1>1, <2>1, <3>1 DEF Ids
  <2> QED
    BY <1>0, <1>3, <2>1 DEF TopSeen
<1>11. SinceKept'
  <2>1. CASE call # None /\ call.since # None
    <3> DEFINE since == call.since
    <3>1. since \in Ids
      BY <2>1, CallIs
    <3> HIDE DEF since
    <3>2. since \notin ToSet(items') => \A s \in Coming' : s > since
      BY <1>1, <1>7, <2>1 DEF Whole, SinceKept, since
    <3>3. ASSUME NEW i \in 1..Len(items'), Under(items', i, since), NEW s \in feed, items'[i] < s, s <= since
          PROVE  FALSE
      <4>0. s \in Ids
        BY Shown
      <4>1. CASE i = 1
        <5>1. id < since
          BY <1>3, <3>3, <4>1 DEF Under
        <5>2. since \notin ToSet(items)
          <6>1. ASSUME since \in ToSet(items)
                PROVE  FALSE
            <7>1. PICK j \in 1..Len(items) : items[j] = since
              BY <1>0, <6>1, ToSetIs
            <7>2. j + 1 \in 2..(n + 1) /\ (j + 1) - 1 = j
              BY <1>0, <1>6, <2>1
            <7>3. items[j] < id
              BY <1>0, <1>5, <3>1, <7>1, <7>2
            <7> QED
              BY <1>1, <3>1, <5>1, <7>1, <7>3 DEF Ids
          <6> QED
            BY <6>1
        <5>3. id > since
          BY <1>2, <2>1, <5>2 DEF Whole, SinceKept, since
        <5> QED
          BY <1>1, <3>1, <5>1, <5>3 DEF Ids
      <4>2. CASE i # 1
        <5>1. i \in 2..(n + 1) /\ i - 1 \in 1..Len(items) /\ items'[i] = items[i - 1]
          BY <1>3, <1>5, <4>2
        <5>2. Under(items, i - 1, since)
          <6>1. CASE i = 2
            BY <3>3, <5>1, <6>1 DEF Under
          <6>2. CASE i # 2
            <7>1. i - 1 \in 2..(n + 1) /\ items'[i - 1] = items[(i - 1) - 1]
              BY <1>5, <5>1, <6>2
            <7> QED
              BY <3>3, <4>2, <5>1, <7>1 DEF Under
          <6> QED
            BY <6>1, <6>2
        <5> QED
          BY <2>1, <3>3, <5>1, <5>2 DEF Whole, SinceKept, since
      <4> QED
        BY <4>1, <4>2
    <3> QED
      BY <1>0, <3>2, <3>3 DEF SinceKept, Under, since
  <2>2. CASE ~(call # None /\ call.since # None)
    BY <1>0, <2>2 DEF SinceKept
  <2> QED
    BY <2>1, <2>2
<1>12. MaxKept'
  BY <1>0, <1>7 DEF Whole, MaxKept
<1>13. Complete'
  <2>1. Wanted(call)' = Wanted(call) /\ Answered' = Answered /\ (Answered => call # None)
    BY <1>0 DEF Wanted, Answered
  <2>2. ASSUME NEW s, Later(s), call # None
        PROVE  s \in ToSet(items') \/ Later(s)'
    <3>1. CASE s = id
      <4>1. 1 \in 1..Len(items')
        BY <1>3
      <4> QED
        BY <1>0, <1>3, <3>1, <4>1, ToSetIs
    <3>2. CASE s # id
      <4>1. s \in Coming' /\ id < s
        BY <1>1, <2>2, <3>2 DEF Later
      <4>2. ASSUME NEW k \in 1..Len(items'), items'[k] # Gap
            PROVE  items'[k] < s
        <5>1. k = 1 \/ k \in 2..(n + 1)
          BY <1>3
        <5> QED
          BY <1>3, <1>5, <2>2, <4>1, <4>2, <5>1 DEF Later
      <4> QED
        BY <4>1, <4>2 DEF Later
    <3> QED
      BY <3>1, <3>2
  <2> QED
    BY <1>0, <1>7, <2>1, <2>2 DEF Whole, Complete
<1> QED
  BY <1>8, <1>9, <1>10, <1>11, <1>12, <1>13 DEF Whole

\* r is what is left, at the places f, of a list in order: it lacks e, which was at one place at most.
LeftOf(r, f, list, e) ==
  /\ \A k \in 1..Len(r) : f[k] \in 1..Len(list) /\ r[k] = list[f[k]] /\ r[k] # e
  /\ \A j, k \in 1..Len(r) : j < k => f[j] < f[k]
  /\ \A x \in ToSet(list) : x # e => x \in ToSet(r)
  /\ 1 <= Len(r) => f[1] = 1 \/ (f[1] = 2 /\ list[1] = e)
  /\ \A k \in 2..Len(r) : \/ f[k] = f[k - 1] + 1
                          \/ f[k] = f[k - 1] + 2 /\ list[f[k - 1] + 1] = e

LEMMA TakenOut ==
  ASSUME NEW list \in Lists, InOrder(list), NEW e \in Ids, NEW r \in Lists, NEW f,
         Picks(r, f, list, (Ids \ {e}) \cup {Gap}, Len(list))
  PROVE  LeftOf(r, f, list, e)
<1> DEFINE set == (Ids \ {e}) \cup {Gap}
<1>0. Len(list) \in Nat /\ Len(r) \in Nat /\ e # Gap
  BY LenProperties, Bounds DEF Lists, Ids
<1>1. \A i \in 1..Len(list) : list[i] \in set \/ list[i] = e
  <2>1. \A i \in 1..Len(list) : list[i] \in Ids \cup {Gap}
    BY ElementOfSeq DEF Lists
  <2> QED
    BY <2>1
<1>2. \A x \in set : x # e
  BY <1>0
<1>3. Picks(r, f, list, set, Len(list))
  OBVIOUS
<1> HIDE DEF set
<1>4. \A k \in 1..Len(r) : f[k] \in 1..Len(list) /\ r[k] = list[f[k]] /\ r[k] # e
  BY <1>2, <1>3 DEF Picks
<1>5. \A j, k \in 1..Len(r) : j < k => f[j] < f[k]
  BY <1>3 DEF Picks
<1>6. ASSUME NEW x \in ToSet(list), x # e
      PROVE  x \in ToSet(r)
  <2>1. PICK i \in 1..Len(list) : list[i] = x
    BY ToSetIs
  <2>2. list[i] \in set
    BY <1>1, <1>6, <2>1
  <2>3. PICK k \in 1..Len(r) : f[k] = i
    BY <1>3, <2>2 DEF Picks
  <2>4. r[k] = x
    BY <1>4, <2>1, <2>3
  <2> QED
    BY <2>4, ToSetIs
<1>7. ASSUME NEW i \in 1..Len(list), NEW j \in 1..Len(list), list[i] = e, list[j] = e
      PROVE  i = j
  <2>1. ~(i < j) /\ ~(j < i)
    BY <1>0, <1>7 DEF InOrder, Ids
  <2> QED
    BY <2>1
<1>8. ASSUME NEW i \in 1..Len(list), list[i] # e
      PROVE  Len(r) # 0 /\ f[1] <= i /\ \A k \in 2..Len(r) : ~(f[k - 1] < i /\ i < f[k])
  BY <1>0, <1>1, <1>3, <1>8, PicksNeighbours
<1>9. ASSUME 1 <= Len(r)
      PROVE  f[1] = 1 \/ (f[1] = 2 /\ list[1] = e)
  <2>1. 1 \in 1..Len(r)
    BY <1>0, <1>9
  <2>2. f[1] \in 1..Len(list)
    BY <1>4, <2>1
  <2>3. CASE f[1] # 1
    <3>1. 1 \in 1..Len(list) /\ ~(f[1] <= 1)
      BY <1>0, <2>2, <2>3
    <3>2. list[1] = e
      BY <1>8, <3>1
    <3>3. CASE f[1] # 2
      <4>1. 2 \in 1..Len(list) /\ ~(f[1] <= 2)
        BY <1>0, <2>2, <2>3, <3>3
      <4>2. list[2] = e
        BY <1>8, <4>1
      <4> QED
        BY <1>7, <3>1, <3>2, <4>1, <4>2
    <3> QED
      BY <3>2, <3>3
  <2> QED
    BY <2>3
<1>10. ASSUME NEW k \in 2..Len(r)
       PROVE  f[k] = f[k - 1] + 1 \/ (f[k] = f[k - 1] + 2 /\ list[f[k - 1] + 1] = e)
  <2>1. k \in 1..Len(r) /\ k - 1 \in 1..Len(r) /\ k - 1 < k
    BY <1>0
  <2>2. f[k] \in 1..Len(list) /\ f[k - 1] \in 1..Len(list) /\ f[k - 1] < f[k]
    BY <1>4, <1>5, <2>1
  <2>3. CASE f[k] # f[k - 1] + 1
    <3>1. f[k - 1] + 1 \in 1..Len(list) /\ f[k - 1] < f[k - 1] + 1 /\ f[k - 1] + 1 < f[k]
      BY <1>0, <2>2, <2>3
    <3>2. list[f[k - 1] + 1] = e
      BY <1>8, <3>1
    <3>3. CASE f[k] # f[k - 1] + 2
      <4>1. /\ f[k - 1] + 2 \in 1..Len(list) /\ f[k - 1] < f[k - 1] + 2 /\ f[k - 1] + 2 < f[k]
            /\ f[k - 1] + 2 # f[k - 1] + 1
        BY <1>0, <2>2, <3>1, <3>3
      <4>2. list[f[k - 1] + 2] = e
        BY <1>8, <4>1
      <4> QED
        BY <1>7, <3>1, <3>2, <4>1, <4>2
    <3> QED
      BY <3>2, <3>3
  <2> QED
    BY <2>3
<1> QED
  BY <1>4, <1>5, <1>6, <1>9, <1>10 DEF LeftOf

LEMMA RemoveWhole ==
  ASSUME TypeOK, TypeOK', Sound, Whole, Receive, Head(wire).event # "update", slips' = {}
  PROVE  Whole'
<1> DEFINE e == Head(wire).id
<1>0. /\ wire # <<>> /\ wire' = Tail(wire) /\ UNCHANGED <<feed, online, call>>
      /\ items' = Only(items, (Ids \ {e}) \cup {Gap})
      /\ ~(call # None /\ call.max = e)
      /\ items \in Lists /\ Len(items) \in Nat /\ items' \in Lists /\ Len(items') \in Nat
      /\ \A i \in 1..Len(items) : items[i] # Gap => items[i] \in Ids
      /\ \A x \in Ids : x # Gap
      /\ feed \subseteq Ids
  BY Shown, LenProperties DEF Receive, TypeOK, Lists
<1>1. Coming' = Coming /\ \A id \in Coming' : e < id
  BY <1>0, ReceivedComing DEF Sound
<1>2. e \in Ids /\ e \notin feed
  <2>1. 1 \in 1..Len(wire) /\ Head(wire) = wire[1]
    BY <1>0, WireIs
  <2> QED
    BY <2>1, WiredAt DEF Sound
<1>3. PICK f : Picks(items', f, items, (Ids \ {e}) \cup {Gap}, Len(items))
  BY <1>0, OnlyIs DEF Lists
<1>4. /\ \A k \in 1..Len(items') : f[k] \in 1..Len(items) /\ items'[k] = items[f[k]] /\ items'[k] # e
      /\ \A j, k \in 1..Len(items') : j < k => f[j] < f[k]
      /\ \A x \in ToSet(items) : x # e => x \in ToSet(items')
      /\ 1 <= Len(items') => f[1] = 1 \/ (f[1] = 2 /\ items[1] = e)
      /\ \A k \in 2..Len(items') : \/ f[k] = f[k - 1] + 1
                                   \/ f[k] = f[k - 1] + 2 /\ items[f[k - 1] + 1] = e
  <2> HIDE DEF e
  <2>1. InOrder(items)
    BY DEF Whole
  <2>2. items \in Lists /\ items' \in Lists /\ e \in Ids
    BY <1>0, <1>2
  <2>3. LeftOf(items', f, items, e)
    BY <1>3, <2>1, <2>2, TakenOut
  <2> QED
    BY <2>3 DEF LeftOf
<1> HIDE DEF e
<1>5. InOrder(items)'
  BY <1>4 DEF Whole, InOrder
<1>6. ASSUME NEW i \in 1..Len(items), i + 1 \in 1..Len(items), items[i] # Gap, items[i + 1] # Gap,
             NEW s \in feed, items[i + 1] < s, s < items[i]
      PROVE  FALSE
  <2>1. i + 1 \in 2..Len(items) /\ (i + 1) - 1 = i
    BY <1>0, <1>6
  <2> QED
    BY <1>6, <2>1 DEF Whole, Dense
<1>7. Dense'
  <2>1. ASSUME NEW k \in 2..Len(items'), items'[k - 1] # Gap, items'[k] # Gap,
               NEW s \in feed, items'[k] < s, s < items'[k - 1]
        PROVE  FALSE
    <3> DEFINE p == f[k - 1]
    <3>1. k \in 1..Len(items') /\ k - 1 \in 1..Len(items')
      BY <1>0
    <3>2. /\ p \in 1..Len(items) /\ items'[k - 1] = items[p]
          /\ f[k] \in 1..Len(items) /\ items'[k] = items[f[k]]
          /\ f[k] = p + 1 \/ (f[k] = p + 2 /\ items[p + 1] = e)
      BY <1>4, <3>1
    <3> HIDE DEF p
    <3>3. CASE f[k] = p + 1
      BY <1>6, <2>1, <3>2, <3>3
    <3>4. CASE f[k] = p + 2 /\ items[p + 1] = e
      <4>1. p + 1 \in 1..Len(items) /\ (p + 1) + 1 = f[k]
        BY <1>0, <3>2, <3>4
      <4>2. s < e \/ e < s
        BY <1>0, <1>2 DEF Ids
      <4> QED
        BY <1>0, <1>2, <1>6, <2>1, <3>2, <3>4, <4>1, <4>2
    <3> QED
      BY <3>2, <3>3, <3>4
  <2> QED
    BY <1>0, <2>1 DEF Dense
<1>8. TopSeen'
  <2>1. ASSUME online, items' # <<>>, items'[1] # Gap, NEW s \in feed, s > items'[1]
        PROVE  s \in Coming
    <3>1. 1 <= Len(items') /\ 1 \in 1..Len(items')
      BY <1>0, <2>1, EndsOf DEF Lists
    <3>2. f[1] \in 1..Len(items) /\ items'[1] = items[f[1]]
      BY <1>4, <3>1
    <3>3. items # <<>>
      BY <3>2
    <3>4. CASE f[1] = 1
      BY <2>1, <3>2, <3>3, <3>4 DEF Whole, TopSeen
    <3>5. CASE f[1] = 2 /\ items[1] = e
      <4>1. 1 \in 1..Len(items) /\ 1 + 1 \in 1..Len(items) /\ f[1] = 1 + 1
        BY <1>0, <3>2, <3>5
      <4>2. ~(s < e)
        BY <1>0, <1>2, <1>6, <2>1, <3>2, <3>5, <4>1
      <4>3. s > items[1]
        BY <1>0, <1>2, <3>5, <4>2 DEF Ids
      <4> QED
        BY <1>0, <1>2, <2>1, <3>3, <3>5, <4>3 DEF Whole, TopSeen
    <3> QED
      BY <1>4, <3>1, <3>4, <3>5
  <2> QED
    BY <1>0, <1>1, <2>1 DEF TopSeen
<1>9. SinceKept'
  <2>1. CASE call # None /\ call.since # None
    <3> DEFINE since == call.since
    <3>1. since \in Ids
      BY <2>1, CallIs
    <3>2. \A i \in 1..Len(items) : Under(items, i, since) => \A s \in feed : ~(items[i] < s /\ s <= since)
      BY <2>1 DEF Whole, SinceKept
    <3>3. since \notin ToSet(items') => \A id \in Coming' : id > since
      <4>1. CASE since = e
        BY <1>1, <4>1, <1>2, ReceivedComing, ComingTyped DEF Ids, Sound
      <4>2. CASE since # e
        BY <1>1, <1>4, <2>1, <4>2 DEF Whole, SinceKept
      <4> QED
        BY <4>1, <4>2
    <3> HIDE DEF since
    <3>4. ASSUME NEW k \in 1..Len(items'), Under(items', k, since), NEW s \in feed, items'[k] < s, s <= since
          PROVE  FALSE
      <4> DEFINE p == f[k]
      <4>1. /\ p \in 1..Len(items) /\ items'[k] = items[p] /\ items[p] # Gap /\ items[p] < since
            /\ items[p] < s /\ s \in Ids /\ s # e
        BY <1>0, <1>2, <1>4, <3>4 DEF Under
      <4>2. k # 1 => /\ k - 1 \in 1..Len(items') /\ k \in 2..Len(items') /\ f[k - 1] \in 1..Len(items)
                     /\ items[f[k - 1]] # Gap /\ items[f[k - 1]] > since
        <5>1. ASSUME k # 1
              PROVE  k - 1 \in 1..Len(items') /\ k \in 2..Len(items')
          BY <1>0, <5>1
        <5>2. k # 1 => f[k - 1] \in 1..Len(items) /\ items'[k - 1] = items[f[k - 1]]
          BY <1>4, <5>1
        <5>3. k # 1 => items'[k - 1] # Gap /\ items'[k - 1] > since
          BY <3>4 DEF Under
        <5> QED
          BY <5>1, <5>2, <5>3
      <4>3. k = 1 => 1 <= Len(items')
        BY <1>0
      <4>4. \/ p = 1 \/ (p - 1 \in 1..Len(items) /\ items[p - 1] # Gap /\ items[p - 1] > since)
            \/ /\ p - 1 \in 1..Len(items) /\ items[p - 1] = e
               /\ p - 1 = 1 \/ (items[(p - 1) - 1] # Gap /\ items[(p - 1) - 1] > since)
        <5>1. CASE k = 1
          BY <1>0, <1>4, <4>1, <4>3, <5>1
        <5>2. CASE k # 1
          <6>1. k \in 2..Len(items') /\ f[k - 1] \in 1..Len(items)
            BY <4>2, <5>2
          <6>2. CASE f[k] = f[k - 1] + 1
            <7>1. p - 1 = f[k - 1]
              BY <6>1, <6>2
            <7> QED
              BY <4>2, <5>2, <6>1, <7>1
          <6>3. CASE f[k] = f[k - 1] + 2 /\ items[f[k - 1] + 1] = e
            <7>1. p - 1 = f[k - 1] + 1 /\ (p - 1) - 1 = f[k - 1] /\ p # 1
              BY <6>1, <6>3
            <7>2. p - 1 \in 1..Len(items)
              BY <1>0, <4>1, <7>1
            <7> QED
              BY <4>2, <5>2, <6>3, <7>1, <7>2
          <6> QED
            BY <1>4, <6>1, <6>2, <6>3
        <5> QED
          BY <5>1, <5>2
      <4> HIDE DEF p
      <4>5. CASE p = 1 \/ (p - 1 \in 1..Len(items) /\ items[p - 1] # Gap /\ items[p - 1] > since)
        BY <3>2, <3>4, <4>1, <4>5 DEF Under
      <4>6. CASE /\ p - 1 \in 1..Len(items) /\ items[p - 1] = e
                 /\ p - 1 = 1 \/ (items[(p - 1) - 1] # Gap /\ items[(p - 1) - 1] > since)
        <5>0. e # Gap /\ (p - 1) + 1 = p
          BY <1>0, <1>2, <4>1
        <5>1. ~(s < e)
          BY <1>6, <4>1, <4>6, <5>0
        <5>2. e < s /\ e < since
          BY <1>2, <3>1, <3>4, <4>1, <5>1 DEF Ids
        <5>3. Under(items, p - 1, since)
          BY <4>6, <5>0, <5>2 DEF Under
        <5> QED
          BY <3>2, <3>4, <4>6, <5>2, <5>3
      <4> QED
        BY <4>4, <4>5, <4>6
    <3> QED
      BY <1>0, <3>3, <3>4 DEF SinceKept, Under, since
  <2>2. CASE ~(call # None /\ call.since # None)
    BY <1>0, <2>2 DEF SinceKept
  <2> QED
    BY <2>1, <2>2
<1>10. MaxKept'
  BY <1>0, <1>4 DEF Whole, MaxKept
<1>11. Complete'
  <2>1. Wanted(call)' = Wanted(call) /\ Answered' = Answered /\ Wanted(call) \subseteq feed
    BY <1>0 DEF Wanted, Answered
  <2>2. \A s : Later(s) => Later(s)'
    BY <1>1, <1>4 DEF Later
  <2>3. \A s \in Wanted(call) : s \in ToSet(items) => s \in ToSet(items')
    BY <1>2, <1>4, <2>1
  <2> QED
    BY <1>0, <2>1, <2>2, <2>3 DEF Whole, Complete
<1> QED
  BY <1>5, <1>7, <1>8, <1>9, <1>10, <1>11 DEF Whole

\* In a list in order, an answer takes the place of what is as old as it is, from high to low.
Opened(list, ids, new, high, low) ==
  /\ low \in 0..Len(list) /\ high \in 0..low
  /\ Len(new) = high + Len(ids) + (Len(list) - low)
  /\ \A k \in 1..high : new[k] = list[k]
  /\ \A k \in 1..Len(ids) : new[high + k] = ids[k]
  /\ \A k \in (low + 1)..Len(list) : new[high + Len(ids) + (k - low)] = list[k]
  /\ \A k \in 1..high : list[k] # Gap => list[k] > Head(ids)
  /\ \A k \in (high + 1)..low : list[k] # Gap => list[k] <= Head(ids)
  /\ \A k \in (low + 1)..Len(list) : list[k] # Gap => list[k] < Last(ids)
  /\ high # 0 => list[high] # Gap
  /\ low # 0 => list[low] # Gap /\ list[low] >= Last(ids)

LEMMA EndsFalling ==
  ASSUME NEW ids \in Seq(Ids), ids # <<>>, Falling(ids), NEW i \in 1..Len(ids)
  PROVE  /\ Head(ids) \in Ids /\ Last(ids) \in Ids /\ ids[i] \in Ids
         /\ Last(ids) <= ids[i] /\ ids[i] <= Head(ids) /\ Last(ids) <= Head(ids)
<1>1. /\ Len(ids) \in Nat \ {0} /\ Head(ids) = ids[1] /\ Last(ids) = ids[Len(ids)]
      /\ Head(ids) \in Ids /\ Last(ids) \in Ids
  BY EndsOf
<1>2. DOMAIN ids = 1..Len(ids) /\ 1 \in 1..Len(ids) /\ Len(ids) \in 1..Len(ids) /\ ids[i] \in Ids
  BY <1>1, LenProperties, ElementOfSeq
<1>3. (1 < i => ids[1] > ids[i]) /\ (i < Len(ids) => ids[i] > ids[Len(ids)])
  BY <1>2 DEF Falling
<1> QED
  BY <1>1, <1>2, <1>3 DEF Ids

LEMMA CutsOpen ==
  ASSUME NEW list \in Lists, InOrder(list), NEW ids \in Seq(Ids), ids # <<>>, Falling(ids),
         NEW low, low = LowCut(list, ids), NEW high, high = HighCut(list, ids)
  PROVE  /\ \A k \in 1..high : list[k] # Gap => list[k] > Head(ids)
         /\ \A k \in (high + 1)..low : list[k] # Gap => list[k] <= Head(ids) /\ list[k] >= Last(ids)
         /\ \A k \in (low + 1)..Len(list) : list[k] # Gap => list[k] < Last(ids)
         /\ high # 0 => list[high] # Gap
         /\ low # 0 => list[low] # Gap /\ list[low] >= Last(ids)
<1>0. low \in 0..Len(list) /\ high \in 0..low /\ Len(list) \in Nat
  BY CutsAre, LenProperties DEF Lists
<1>1. /\ Head(ids) \in Ids /\ Last(ids) \in Ids /\ MaxStatus \in Nat
      /\ \A k \in 1..Len(list) : list[k] # Gap => list[k] \in Ids
      /\ \A x \in Ids : x # Gap
  <2>1. \A k \in 1..Len(list) : list[k] \in Ids \cup {Gap}
    BY ElementOfSeq DEF Lists
  <2> QED
    BY <2>1, EndsOf, Bounds DEF Ids
<1>2. /\ low # 0 => list[low] \in From(Last(ids))
      /\ \A k \in 1..Len(list) : k > low => list[k] \notin From(Last(ids))
  BY <1>0, LastPlaceIs DEF LowCut
<1>3. /\ high # 0 => list[high] \in From(Head(ids) + 1)
      /\ \A k \in 1..low : k > high => list[k] \notin From(Head(ids) + 1)
  <2>1. low \in Nat
    BY <1>0
  <2> QED
    BY <2>1, LastPlaceIs DEF HighCut
<1>4. low # 0 => list[low] \in Ids /\ list[low] >= Last(ids)
  BY <1>1, <1>2 DEF From, Ids
<1>5. high # 0 => list[high] \in Ids /\ list[high] > Head(ids)
  BY <1>1, <1>3 DEF From, Ids
<1>6. ASSUME NEW k \in (low + 1)..Len(list), list[k] # Gap
      PROVE  list[k] < Last(ids)
  <2>1. k \in 1..Len(list) /\ k > low
    BY <1>0
  <2>2. list[k] \in Ids /\ list[k] \notin From(Last(ids))
    BY <1>1, <1>2, <1>6, <2>1
  <2> QED
    BY <1>1, <2>2 DEF From, Ids
<1>7. ASSUME NEW k \in (high + 1)..low, list[k] # Gap
      PROVE  list[k] <= Head(ids) /\ list[k] >= Last(ids)
  <2>1. k \in 1..Len(list) /\ k \in 1..low /\ k > high /\ low # 0 /\ low \in 1..Len(list)
    BY <1>0
  <2>2. list[k] \in Ids /\ list[k] \notin From(Head(ids) + 1)
    BY <1>1, <1>3, <1>7, <2>1
  <2>3. list[k] <= Head(ids)
    BY <1>1, <2>2 DEF From, Ids
  <2>4. k = low \/ list[k] > list[low]
    <3>1. k # low => k < low
      BY <1>0, <2>1
    <3> QED
      BY <1>1, <1>4, <1>7, <2>1, <3>1 DEF InOrder
  <2> QED
    BY <1>1, <1>4, <2>1, <2>2, <2>3, <2>4 DEF Ids
<1>8. ASSUME NEW k \in 1..high, list[k] # Gap
      PROVE  list[k] > Head(ids)
  <2>1. k \in 1..Len(list) /\ high # 0 /\ high \in 1..Len(list)
    BY <1>0
  <2>2. list[k] \in Ids
    BY <1>1, <1>8, <2>1
  <2>3. k = high \/ list[k] > list[high]
    <3>1. k # high => k < high
      BY <1>0, <2>1
    <3> QED
      BY <1>1, <1>5, <1>8, <2>1, <3>1 DEF InOrder
  <2> QED
    BY <1>1, <1>5, <2>1, <2>2, <2>3 DEF Ids
<1> QED
  BY <1>1, <1>4, <1>5, <1>6, <1>7, <1>8

\* Nothing older is kept of what was there, and all of the answer is new to the rest.
LEMMA AllInserted ==
  ASSUME NEW list \in Lists, InOrder(list), NEW ids \in Seq(Ids), ids # <<>>, Falling(ids)
  PROVE  Inserted(list, ids) = ids
<1> DEFINE low == LowCut(list, ids)
           high == HighCut(list, ids)
           piece == SubSeq(list, high + 1, low)
           above == SubSeq(list, 1, high)
           under == SubSeq(list, low + 1, Len(list))
           new == Ids \ Elsewhere(list, ids)
           below == Before(Last(ids))
<1>0. low \in 0..Len(list) /\ high \in 0..low /\ Len(list) \in Nat
  BY CutsAre, LenProperties DEF Lists
<1>1. /\ \A k \in 1..high : list[k] # Gap => list[k] > Head(ids)
      /\ \A k \in (high + 1)..low : list[k] # Gap => list[k] <= Head(ids) /\ list[k] >= Last(ids)
      /\ \A k \in (low + 1)..Len(list) : list[k] # Gap => list[k] < Last(ids)
  BY CutsOpen
<1>2. /\ piece \in Lists /\ Len(piece) = low - high
      /\ \A i \in 1..(low - high) : piece[i] = list[high + i]
  BY <1>0, PieceIs DEF Lists
<1>3. above \in Lists /\ Len(above) = high /\ \A i \in 1..high : above[i] = list[0 + i]
  <2>1. high \in 0..Len(list) /\ 0 \in 0..high /\ 0 + 1 = 1 /\ high - 0 = high
    BY <1>0
  <2> QED
    BY <2>1, PieceIs DEF Lists
<1>4. /\ under \in Lists /\ Len(under) = Len(list) - low
      /\ \A i \in 1..(Len(list) - low) : under[i] = list[low + i]
  <2>1. Len(list) \in 0..Len(list) /\ low \in 0..Len(list)
    BY <1>0
  <2> QED
    BY <2>1, PieceIs DEF Lists
<1>5. Older(list, ids) = Only(piece, below)
  BY DEF Older
<1>6. Elsewhere(list, ids) = ToSet(above) \cup ToSet(under)
  BY DEF Elsewhere
<1>7. Inserted(list, ids) = Only(ids \o Older(list, ids), new)
  BY DEF Inserted
<1>8. /\ Head(ids) \in Ids /\ Last(ids) \in Ids /\ Last(ids) <= Head(ids) /\ Gap \notin Nat /\ MaxStatus \in Nat
      /\ \A i \in 1..Len(ids) : ids[i] \in Ids /\ Last(ids) <= ids[i] /\ ids[i] <= Head(ids)
  <2>1. 1 \in 1..Len(ids)
    BY EndsOf
  <2> QED
    BY <2>1, EndsFalling, Bounds
<1> HIDE DEF low, high, piece, above, under, below
<1>9. Older(list, ids) = <<>>
  <2>1. ASSUME NEW i \in 1..Len(piece)
        PROVE  piece[i] \notin below
    <3>1. high + i \in (high + 1)..low /\ piece[i] = list[high + i]
      BY <1>0, <1>2
    <3>2. piece[i] # Gap => piece[i] >= Last(ids)
      BY <1>1, <3>1
    <3> QED
      BY <1>8, <3>2 DEF below, Before, Ids
  <2> QED
    BY <1>2, <1>5, <2>1, OnlyNone DEF Lists
<1>10. ASSUME NEW i \in 1..Len(ids)
       PROVE  ids[i] \in new
  <2>1. ASSUME ids[i] \in ToSet(above)
        PROVE  FALSE
    <3>1. PICK k \in 1..high : above[k] = ids[i]
      BY <1>3, <2>1, ToSetIs
    <3>2. list[k] = ids[i]
      BY <1>0, <1>3, <3>1
    <3>3. ids[i] # Gap => ids[i] > Head(ids)
      BY <1>1, <3>2
    <3> QED
      BY <1>8, <3>3 DEF Ids
  <2>2. ASSUME ids[i] \in ToSet(under)
        PROVE  FALSE
    <3>1. PICK k \in 1..(Len(list) - low) : under[k] = ids[i]
      BY <1>4, <2>2, ToSetIs
    <3>2. list[low + k] = ids[i] /\ low + k \in (low + 1)..Len(list)
      BY <1>0, <1>4, <3>1
    <3>3. ids[i] # Gap => ids[i] < Last(ids)
      BY <1>1, <3>2
    <3> QED
      BY <1>8, <3>3 DEF Ids
  <2> QED
    BY <1>6, <1>8, <2>1, <2>2
<1> HIDE DEF new
<1>11. Only(ids, new) = ids
  BY <1>10, OnlyAll
<1>12. ids \o <<>> = ids
  OBVIOUS
<1> QED
  BY <1>7, <1>9, <1>11, <1>12

LEMMA ExpandedOpened ==
  ASSUME NEW list \in Lists, InOrder(list), NEW ids \in Seq(Ids), ids # <<>>, Falling(ids)
  PROVE  \E high : Opened(list, ids, Expanded(list, ids), high, LowCut(list, ids))
<1> DEFINE low == LowCut(list, ids)
           high == HighCut(list, ids)
           new == Spliced(list, high, ids, low)
<1>0. /\ low \in 0..Len(list) /\ high \in 0..low /\ Len(list) \in Nat
      /\ ids \in Lists /\ Len(ids) \in Nat
  BY CutsAre, LenProperties, SeqDef DEF Lists
<1>1. Expanded(list, ids) = new
  BY AllInserted, ExpandedIs DEF Lists
<1>2. /\ \A k \in 1..high : list[k] # Gap => list[k] > Head(ids)
      /\ \A k \in (high + 1)..low : list[k] # Gap => list[k] <= Head(ids) /\ list[k] >= Last(ids)
      /\ \A k \in (low + 1)..Len(list) : list[k] # Gap => list[k] < Last(ids)
      /\ high # 0 => list[high] # Gap
      /\ low # 0 => list[low] # Gap /\ list[low] >= Last(ids)
  BY CutsOpen
<1> HIDE DEF low, high
<1>3. Len(new) = high + Len(ids) + (Len(list) - low)
  BY <1>0, SplicedLen
<1>4. \A k \in 1..(high + Len(ids) + Len(list) - low) :
        new[k] = IF k <= high THEN list[k]
                 ELSE IF k <= high + Len(ids) THEN ids[k - high]
                 ELSE list[k - high - Len(ids) + low]
  BY <1>0, SplicedAt
<1> HIDE DEF new
<1>5. \A k \in 1..high : new[k] = list[k]
  BY <1>0, <1>4
<1>6. ASSUME NEW k \in 1..Len(ids)
      PROVE  new[high + k] = ids[k]
  <2>1. /\ high + k \in 1..(high + Len(ids) + Len(list) - low) /\ ~(high + k <= high)
        /\ high + k <= high + Len(ids) /\ (high + k) - high = k
    BY <1>0
  <2> QED
    BY <1>4, <2>1
<1>7. ASSUME NEW k \in (low + 1)..Len(list)
      PROVE  new[high + Len(ids) + (k - low)] = list[k]
  <2> DEFINE j == high + Len(ids) + (k - low)
  <2>1. /\ j \in 1..(high + Len(ids) + Len(list) - low) /\ ~(j <= high)
        /\ ~(j <= high + Len(ids)) /\ j - high - Len(ids) + low = k
    BY <1>0
  <2> HIDE DEF j
  <2>2. new[j] = list[k]
    BY <1>4, <2>1
  <2> QED
    BY <2>2 DEF j
<1>8. Opened(list, ids, new, high, low)
  BY <1>0, <1>2, <1>3, <1>5, <1>6, <1>7 DEF Opened
<1> QED
  BY <1>1, <1>8 DEF low

\* So each place of the new list is above the answer, in it, or under it.
LEMMA OpenedAt ==
  ASSUME NEW list \in Lists, NEW ids \in Seq(Ids), NEW new, NEW high, NEW low,
         Opened(list, ids, new, high, low), NEW k \in 1..Len(new)
  PROVE  \/ k \in 1..high /\ new[k] = list[k]
         \/ \E i \in 1..Len(ids) : k = high + i /\ new[k] = ids[i]
         \/ \E i \in (low + 1)..Len(list) : k = high + Len(ids) + (i - low) /\ new[k] = list[i]
<1>1. /\ Len(list) \in Nat /\ Len(ids) \in Nat /\ low \in 0..Len(list) /\ high \in 0..low
      /\ Len(new) = high + Len(ids) + (Len(list) - low)
  BY LenProperties DEF Lists, Opened
<1>2. CASE k <= high
  <2>1. k \in 1..high
    BY <1>1, <1>2
  <2> QED
    BY <2>1 DEF Opened
<1>3. CASE k > high /\ k <= high + Len(ids)
  <2>1. k - high \in 1..Len(ids) /\ k = high + (k - high)
    BY <1>1, <1>3
  <2> QED
    BY <2>1 DEF Opened
<1>4. CASE k > high + Len(ids)
  <2> DEFINE i == k - high - Len(ids) + low
  <2>1. i \in (low + 1)..Len(list) /\ k = high + Len(ids) + (i - low)
    BY <1>1, <1>4
  <2> HIDE DEF i
  <2>2. new[high + Len(ids) + (i - low)] = list[i]
    BY <2>1 DEF Opened
  <2> QED
    BY <2>1, <2>2
<1> QED
  BY <1>1, <1>2, <1>3, <1>4

LEMMA OpenedOrder ==
  ASSUME NEW list \in Lists, InOrder(list), NEW ids \in Seq(Ids), ids # <<>>, Falling(ids),
         NEW new, NEW high, NEW low, Opened(list, ids, new, high, low)
  PROVE  InOrder(new)
<1>1. /\ Len(list) \in Nat /\ Len(ids) \in Nat /\ low \in 0..Len(list) /\ high \in 0..low
      /\ DOMAIN ids = 1..Len(ids) /\ high \in Int /\ low \in Int
      /\ \A k \in 1..Len(list) : list[k] # Gap => list[k] \in Ids
  <2>1. \A k \in 1..Len(list) : list[k] \in Ids \cup {Gap}
    BY ElementOfSeq DEF Lists
  <2> QED
    BY <2>1, LenProperties DEF Lists, Opened
<1>2. /\ Head(ids) \in Ids /\ Last(ids) \in Ids /\ Last(ids) <= Head(ids)
      /\ \A i \in 1..Len(ids) : ids[i] \in Ids /\ Last(ids) <= ids[i] /\ ids[i] <= Head(ids)
  <2>1. 1 \in 1..Len(ids)
    BY EndsOf
  <2> QED
    BY <2>1, EndsFalling
<1>3. ASSUME NEW j \in 1..Len(new), NEW k \in 1..Len(new), j < k, new[j] # Gap, new[k] # Gap
      PROVE  new[j] > new[k]
  <2> DEFINE A(m) == m \in 1..high /\ new[m] = list[m]
             M(m) == \E i \in 1..Len(ids) : m = high + i /\ new[m] = ids[i]
             C(m) == \E i \in (low + 1)..Len(list) : m = high + Len(ids) + (i - low) /\ new[m] = list[i]
  <2>1. (A(j) \/ M(j) \/ C(j)) /\ (A(k) \/ M(k) \/ C(k))
    BY OpenedAt
  <2>2. /\ A(j) => new[j] \in Ids /\ new[j] > Head(ids)
        /\ A(k) => new[k] \in Ids /\ new[k] > Head(ids)
    BY <1>1, <1>3 DEF Opened
  <2>3. /\ M(j) => new[j] \in Ids /\ Last(ids) <= new[j] /\ new[j] <= Head(ids)
        /\ M(k) => new[k] \in Ids /\ Last(ids) <= new[k] /\ new[k] <= Head(ids)
    BY <1>2
  <2>4. \A i \in (low + 1)..Len(list) : list[i] # Gap => list[i] \in Ids /\ list[i] < Last(ids)
    <3>1. \A i \in (low + 1)..Len(list) : i \in 1..Len(list)
      BY <1>1
    <3> QED
      BY <1>1, <3>1 DEF Opened
  <2>5. C(j) => new[j] \in Ids /\ new[j] < Last(ids)
    BY <1>3, <2>4, Zenon
  <2>6. C(k) => new[k] \in Ids /\ new[k] < Last(ids)
    BY <1>3, <2>4, Zenon
  <2>7. CASE A(j) /\ A(k)
    <3>1. j \in 1..Len(list) /\ k \in 1..Len(list)
      BY <1>1, <2>7
    <3> QED
      BY <1>3, <2>7, <3>1 DEF InOrder
  <2>8. CASE M(j) /\ M(k)
    <3>1. PICK i \in 1..Len(ids) : j = high + i /\ new[j] = ids[i]
      BY <2>8
    <3>2. PICK l \in 1..Len(ids) : k = high + l /\ new[k] = ids[l]
      BY <2>8
    <3>3. i < l /\ i \in DOMAIN ids /\ l \in DOMAIN ids
      BY <1>1, <1>3, <3>1, <3>2
    <3> QED
      BY <3>1, <3>2, <3>3 DEF Falling
  <2>9. CASE C(j) /\ C(k)
    <3>1. PICK i \in (low + 1)..Len(list) : j = high + Len(ids) + (i - low) /\ new[j] = list[i]
      BY <2>9
    <3>2. PICK l \in (low + 1)..Len(list) : k = high + Len(ids) + (l - low) /\ new[k] = list[l]
      BY <2>9
    <3>3. i < l /\ i \in 1..Len(list) /\ l \in 1..Len(list)
      BY <1>1, <1>3, <3>1, <3>2
    <3> QED
      BY <1>3, <3>1, <3>2, <3>3 DEF InOrder
  <2>10. ~(M(j) /\ A(k)) /\ ~(C(j) /\ A(k)) /\ ~(C(j) /\ M(k))
    BY <1>1, <1>3
  <2> HIDE DEF A, M, C
  <2> QED
    BY <1>2, <2>1, <2>2, <2>3, <2>5, <2>6, <2>7, <2>8, <2>9, <2>10 DEF Ids
<1> QED
  BY <1>3 DEF InOrder

LEMMA ArriveWhole ==
  ASSUME TypeOK, TypeOK', [Next]_vars, Sound, Whole, Arrive, slips' = {}
  PROVE  Whole'
<1>0. /\ Answered /\ call # None /\ call.answer # None /\ call \in Calls
      /\ UNCHANGED <<published, feed, live, wire, online>>
      /\ items' = IF call.answer = <<>> THEN items ELSE Expanded(items, call.answer)
      /\ ~(call.cut /\ Lands(items, call.answer))
  BY CallIs DEF Arrive, Answered, server
<1>1. Coming' = Coming
  BY <1>0 DEF Coming
<1>2. call' # call /\ ~Answer
  <2>1. call' = None \/ call'.answer = None
    BY DEF Arrive, Over, Request
  <2> QED
    BY <1>0, <2>1 DEF Answer
<1>3. InOrder(items') => SinceKept' /\ MaxKept' /\ Complete'
  BY <1>2, StepAsking DEF InOrder
<1>4. CASE call.answer = <<>>
  <2>1. items' = items
    BY <1>0, <1>4
  <2>2. InOrder(items') /\ InOrder(items)' /\ Dense' /\ TopSeen'
    BY <1>0, <1>1, <2>1 DEF Whole, InOrder, Dense, TopSeen
  <2> QED
    BY <1>3, <2>2 DEF Whole
<1>5. CASE call.answer # <<>>
  <2> DEFINE ids == call.answer
             low == LowCut(items, ids)
             n == Len(ids)
  <2>1. /\ ids \in Seq(Ids) /\ Falling(ids) /\ DOMAIN ids = 1..n /\ n \in Nat \ {0}
        /\ Head(ids) = ids[1] /\ Last(ids) = ids[n]
    BY <1>0, <1>5, CallIs, EndsOf, LenProperties DEF Sound, Answers
  <2>2. /\ items \in Lists /\ Len(items) \in Nat /\ InOrder(items) /\ feed \subseteq Ids
        /\ \A i \in 1..Len(items) : items[i] # Gap => items[i] \in Ids
        /\ \A x \in Ids : x # Gap
    BY Shown DEF Whole
  <2>3. PICK high : Opened(items, ids, items', high, low)
    BY <1>0, <1>5, <2>1, <2>2, ExpandedOpened
  <2>4. InOrder(items')
    <3> HIDE DEF ids, low
    <3> QED
      BY <1>5, <2>1, <2>2, <2>3, OpenedOrder DEF ids
  <2>5. /\ Head(ids) \in Ids /\ Last(ids) \in Ids /\ Last(ids) <= Head(ids)
        /\ \A i \in 1..n : ids[i] \in Ids /\ Last(ids) <= ids[i] /\ ids[i] <= Head(ids)
    <3>1. 1 \in 1..n
      BY <2>1
    <3> QED
      BY <1>5, <2>1, <3>1, EndsFalling
  <2>6. \A i \in 1..n : /\ call.since # None => call.since \in Ids /\ ids[i] > call.since
                        /\ call.max # None => call.max \in Ids /\ ids[i] < call.max
    BY <1>0, <2>1, CallIs DEF Sound, Answers
  <2>7. /\ call.since # None => Last(ids) > call.since
        /\ call.max # None => Head(ids) < call.max
    <3>1. 1 \in 1..n /\ n \in 1..n
      BY <2>1
    <3> QED
      BY <2>1, <2>6, <3>1
  <2>8. /\ \A s \in Wanted(call) :
             Last(ids) <= s /\ s <= Head(ids) => s \in ToSet(ids)
        /\ \A s \in Wanted(call) :
             s > Head(ids) => call.max = None /\ (s \in ToSet(items) \/ Later(s))
        /\ ~call.cut => \A s \in Wanted(call) : s >= Last(ids)
    BY <1>0, <1>5 DEF Whole, Complete
  <2>9. ~call.cut \/ ~(low < Len(items) /\ items[low + 1] # Gap)
    BY <1>0 DEF Lands, LowCut
  <2> HIDE DEF low, ids
  <2>10. /\ low \in 0..Len(items) /\ high \in 0..low /\ low \in Int /\ high \in Int
         /\ Len(items') = high + n + (Len(items) - low)
         /\ \A k \in 1..high : items'[k] = items[k]
         /\ \A k \in 1..n : items'[high + k] = ids[k]
         /\ \A k \in (low + 1)..Len(items) : items'[high + n + (k - low)] = items[k]
         /\ high # 0 => items[high] # Gap /\ items[high] > Head(ids)
         /\ low # 0 => items[low] # Gap /\ items[low] >= Last(ids)
    BY <2>2, <2>3 DEF Opened
  <2>11. ASSUME NEW x \in ToSet(items), x \in Ids, x > Head(ids)
         PROVE  high # 0 /\ x >= items[high]
    <3>1. PICK i \in 1..Len(items) : items[i] = x
      BY <2>2, ToSetIs
    <3>2. x # Gap
      BY <2>2, <2>11
    <3>3. CASE i \in (high + 1)..low \/ i \in (low + 1)..Len(items)
      <4>1. x <= Head(ids) \/ x < Last(ids)
        BY <2>3, <3>1, <3>2, <3>3 DEF Opened
      <4> QED
        BY <2>5, <2>11, <4>1 DEF Ids
    <3>4. CASE i \in 1..high
      <4>1. high # 0 /\ high \in 1..Len(items) /\ (i = high \/ i < high)
        BY <2>2, <2>10, <3>4
      <4>2. items[high] \in Ids
        BY <2>2, <2>10, <4>1
      <4>3. i < high => x > items[high]
        BY <2>2, <2>10, <3>1, <3>2, <4>1 DEF InOrder
      <4> QED
        BY <2>11, <3>1, <4>1, <4>2, <4>3 DEF Ids
    <3> QED
      BY <2>2, <2>10, <3>1, <3>3, <3>4
  <2>12. ASSUME NEW s \in feed, s > Head(ids), high # 0 => s < items[high]
         PROVE  s \in Coming /\ high = 0
    <3>0. s \in Ids
      BY <2>2
    <3>1. s \notin ToSet(items)
      <4>1. ASSUME s \in ToSet(items)
            PROVE  FALSE
        <5>1. high # 0 /\ s >= items[high]
          BY <2>11, <2>12, <3>0, <4>1
        <5>2. items[high] \in Ids
          BY <2>2, <2>10, <5>1
        <5> QED
          BY <2>12, <3>0, <5>1, <5>2 DEF Ids
      <4> QED
        BY <4>1
    <3>2. call.max # None => s < call.max
      <4>1. CASE call.max # None
        <5>1. call.max \in ToSet(items) /\ call.max \in Ids /\ call.max > Head(ids)
          BY <1>0, <2>5, <2>7, <4>1, CallIs DEF Whole, MaxKept, Ids
        <5>2. high # 0 /\ call.max >= items[high]
          BY <2>11, <5>1
        <5>3. items[high] \in Ids
          BY <2>2, <2>10, <5>2
        <5> QED
          BY <2>12, <3>0, <5>1, <5>2, <5>3 DEF Ids
      <4> QED
        BY <4>1
    <3>3. call.since # None => s > call.since
      BY <1>0, <2>5, <2>7, <2>12, <3>0, CallIs DEF Ids
    <3>4. s \in Wanted(call)
      BY <3>2, <3>3 DEF Wanted
    <3>5. Later(s)
      BY <2>8, <2>12, <3>1, <3>4
    <3>6. high = 0
      <4>1. CASE high # 0
        <5>1. high \in 1..Len(items) /\ items[high] \in Ids
          BY <2>2, <2>10, <4>1
        <5>2. items[high] < s
          BY <2>10, <3>5, <4>1, <5>1 DEF Later
        <5> QED
          BY <2>12, <3>0, <4>1, <5>1, <5>2 DEF Ids
      <4> QED
        BY <4>1
    <3> QED
      BY <3>5, <3>6 DEF Later
  <2>13. Dense'
    <3>1. ASSUME NEW k \in 2..Len(items'), items'[k - 1] # Gap, items'[k] # Gap,
                 NEW s \in feed, items'[k] < s, s < items'[k - 1]
          PROVE  FALSE
      <4>0. s \in Ids
        BY <2>2
      <4>1. CASE k <= high
        <5>1. k \in 2..Len(items) /\ k \in 1..high /\ k - 1 \in 1..high
          BY <2>2, <2>10, <4>1
        <5> QED
          BY <2>10, <3>1, <5>1 DEF Whole, Dense
      <4>2. CASE k = high + 1
        <5>1. high # 0 /\ k - 1 = high /\ high \in 1..high /\ 1 \in 1..n
          BY <2>1, <2>10, <4>2
        <5>2. items'[k] = Head(ids) /\ items'[k - 1] = items[high]
          BY <2>1, <2>10, <4>2, <5>1
        <5> QED
          BY <2>5, <2>12, <3>1, <4>0, <5>1, <5>2 DEF Ids
      <4>3. CASE k > high + 1 /\ k <= high + n
        <5> DEFINE i == k - high
        <5>1. i \in 1..n /\ i - 1 \in 1..n /\ k = high + i /\ k - 1 = high + (i - 1)
          BY <2>1, <2>10, <4>3
        <5> HIDE DEF i
        <5>2. ids[i] < s /\ s < ids[i - 1]
          BY <2>10, <3>1, <5>1
        <5>3. ids[i] \in Ids /\ ids[i - 1] \in Ids /\ Last(ids) <= ids[i] /\ ids[i - 1] <= Head(ids)
          BY <2>5, <5>1
        <5>4. /\ call.since # None => call.since \in Ids /\ ids[i] > call.since
              /\ call.max # None => call.max \in Ids /\ ids[i - 1] < call.max
          BY <2>6, <5>1
        <5>5. s \in Wanted(call)
          <6>1. call.since # None => s > call.since
            BY <4>0, <5>2, <5>3, <5>4 DEF Ids
          <6>2. call.max # None => s < call.max
            BY <4>0, <5>2, <5>3, <5>4 DEF Ids
          <6> QED
            BY <6>1, <6>2 DEF Wanted
        <5>6. Last(ids) <= s /\ s <= Head(ids)
          BY <2>5, <4>0, <5>2, <5>3 DEF Ids
        <5>7. PICK j \in 1..n : s = ids[j]
          BY <2>1, <2>8, <5>5, <5>6 DEF ToSet
        <5>8. j < i /\ i - 1 < j
          <6>1. (i < j => ids[i] > ids[j]) /\ (j < i - 1 => ids[j] > ids[i - 1])
            BY <2>1, <5>1, <5>7 DEF Falling
          <6>2. ids[i] \in Ids /\ ids[j] \in Ids /\ ids[i - 1] \in Ids
            BY <2>5, <5>1, <5>7
          <6>3. ~(i < j) /\ ~(j < i - 1)
            BY <4>0, <5>2, <5>7, <6>1, <6>2 DEF Ids
          <6>4. i # j /\ j # i - 1
            BY <4>0, <5>2, <5>7 DEF Ids
          <6> QED
            BY <5>1, <5>7, <6>3, <6>4
        <5> QED
          BY <5>1, <5>7, <5>8
      <4>4. CASE k = high + n + 1
        <5>1. low + 1 \in (low + 1)..Len(items) /\ (low + 1) - low = 1 /\ low < Len(items) /\ n \in 1..n
              /\ k - 1 = high + n /\ low + 1 \in 1..Len(items)
          BY <2>1, <2>2, <2>10, <4>4
        <5>2. items'[k] = items[low + 1] /\ items'[k - 1] = Last(ids)
          BY <2>1, <2>10, <4>4, <5>1
        <5>3. ~call.cut
          BY <2>9, <3>1, <5>1, <5>2
        <5>4. s \notin Wanted(call)
          BY <2>5, <2>8, <3>1, <4>0, <5>2, <5>3 DEF Ids
        <5>5. call.max # None => s < call.max
          BY <1>0, <2>5, <2>7, <3>1, <4>0, <5>2, CallIs DEF Ids
        <5>6. call.since # None /\ call.since \in Ids /\ s <= call.since
          BY <1>0, <4>0, <5>4, <5>5, CallIs DEF Wanted, Ids
        <5>7. items[low + 1] \in Ids /\ items[low + 1] < call.since
          BY <2>2, <3>1, <4>0, <5>1, <5>2, <5>6 DEF Ids
        <5>8. low + 1 = 1 \/ (items[(low + 1) - 1] # Gap /\ items[(low + 1) - 1] > call.since)
          <6>1. CASE low # 0
            <7>1. (low + 1) - 1 = low /\ low \in 1..Len(items) /\ items[low] \in Ids
              BY <2>2, <2>10, <6>1
            <7> QED
              BY <2>5, <2>7, <2>10, <5>6, <6>1, <7>1 DEF Ids
          <6> QED
            BY <6>1
        <5>9. Under(items, low + 1, call.since)
          BY <3>1, <5>2, <5>7, <5>8 DEF Under
        <5> QED
          BY <1>0, <3>1, <5>1, <5>2, <5>6, <5>9 DEF Whole, SinceKept
      <4>5. CASE k > high + n + 1
        <5> DEFINE i == k - high - n + low
        <5>1. /\ i \in (low + 1)..Len(items) /\ i - 1 \in (low + 1)..Len(items)
              /\ k = high + n + (i - low) /\ k - 1 = high + n + ((i - 1) - low) /\ i \in 2..Len(items)
          BY <2>1, <2>2, <2>10, <4>5
        <5> HIDE DEF i
        <5>2. items'[k] = items[i] /\ items'[k - 1] = items[i - 1]
          BY <2>10, <5>1
        <5> QED
          BY <3>1, <5>1, <5>2 DEF Whole, Dense
      <4> QED
        BY <2>1, <2>10, <4>1, <4>2, <4>3, <4>4, <4>5
    <3> QED
      BY <1>0, <3>1 DEF Dense
  <2>14. TopSeen'
    <3>1. ASSUME online, items' # <<>>, items'[1] # Gap, NEW s \in feed, s > items'[1]
          PROVE  s \in Coming
      <4>1. CASE high # 0
        <5>1. 1 \in 1..high /\ items'[1] = items[1] /\ items # <<>>
          BY <2>2, <2>10, <4>1
        <5> QED
          BY <3>1, <5>1 DEF Whole, TopSeen
      <4>2. CASE high = 0
        <5>1. 1 \in 1..n /\ high + 1 = 1
          BY <2>1, <4>2
        <5>2. items'[1] = Head(ids)
          BY <2>1, <2>10, <5>1
        <5> QED
          BY <2>12, <3>1, <4>2, <5>2
      <4> QED
        BY <4>1, <4>2
    <3> QED
      BY <1>0, <1>1, <3>1 DEF TopSeen
  <2> QED
    BY <1>3, <2>4, <2>13, <2>14 DEF Whole, InOrder
<1> QED
  BY <1>4, <1>5

LEMMA StepSeen ==
  ASSUME ~Pending, TypeOK, TypeOK', Sound, Seen, [Next]_vars
  PROVE  Seen'
<1>1. SUFFICES ASSUME slips' = {}
               PROVE  Whole'
  BY DEF Seen
<1>2. Whole
  BY <1>1, SlipsStay DEF Seen
<1>3. CASE Answer
  BY <1>2, <1>3, AnswerWhole
<1>4. CASE Arrive
  BY <1>1, <1>2, <1>4, ArriveWhole
<1>5. CASE Publish
  BY <1>1, <1>2, <1>5, PublishWhole
<1>6. CASE \E s \in feed : Delete(s)
  BY <1>2, <1>6, DeleteWhole
<1>7. CASE Receive
  BY <1>1, <1>2, <1>7, SeenAlreadyWhole, UpdateWhole, RemoveWhole
<1>8. CASE Connect \/ Disconnect
  BY <1>1, <1>2, <1>8, LinkWhole
<1>9. CASE UNCHANGED vars \/ Visit \/ LoadOlder \/ Fail \/ GoLive \/ Scroll
           \/ (\E i \in DOMAIN items : LoadGap(i)) \/ (\E l \in Loops : Poll(l) \/ Rearm(l))
  <2>1. UNCHANGED <<feed, wire, items, online>>
    BY <1>9 DEF vars, server, timeline, Visit, LoadOlder, Fail, GoLive, Scroll, LoadGap, Poll, Rearm
  <2>2. CASE ~Answer
    BY <1>2, <2>1, <2>2, QuietWhole
  <2> QED
    BY <1>3, <2>2
<1> QED
  BY <1>3, <1>4, <1>5, <1>6, <1>7, <1>8, <1>9 DEF Next

LEMMA InitSeen == Init => Seen
<1> SUFFICES ASSUME Init
             PROVE  Whole
  BY DEF Seen
<1>1. items = <<>> /\ Len(items) = 0 /\ feed = {} /\ call = None
  BY DEF Init
<1> QED
  BY <1>1 DEF Whole, InOrder, Dense, TopSeen, SinceKept, MaxKept, Complete, Answered

\* What is whole shows its holes: nothing is left on the wire of what the feed has above the list.
LEMMA SeenIsMarked ==
  ASSUME TypeOK, Sound, Seen
  PROVE  OtherHolesMarked
<1> SUFFICES ASSUME Whole, Settled, items # <<>>
             PROVE  /\ Head(items) # Gap => Close(MaxStatus + 1, Head(items))
                    /\ \A i \in 1..(Len(items) - 1) :
                         items[i] # Gap /\ items[i + 1] # Gap => Close(items[i], items[i + 1])
  BY DEF OtherHolesMarked, HolesMarked, Seen
<1>1. Coming = {} /\ online
  BY DEF Settled, Sound, Wired, Coming
<1>2. Head(items) = items[1] /\ Len(items) \in Nat
  BY Shown, EndsOf DEF Lists
<1>3. Head(items) # Gap => Close(MaxStatus + 1, Head(items))
  BY <1>1, <1>2 DEF Whole, TopSeen, Close
<1>4. ASSUME NEW i \in 1..(Len(items) - 1), items[i] # Gap, items[i + 1] # Gap
      PROVE  Close(items[i], items[i + 1])
  <2>1. i + 1 \in 2..Len(items) /\ (i + 1) - 1 = i
    BY <1>2
  <2> QED
    BY <1>4, <2>1 DEF Whole, Dense, Close
<1> QED
  BY <1>3, <1>4

--------------------------------------------------------------------------------
(* The theorems. *)

\* Every step of the timeline, of its stream and of its server keeps to the types.
THEOREM HomeTyped == Spec => []TypeOK
<1>1. Init => TypeOK
  BY InitTyped
<1>2. TypeOK /\ [Next]_vars => TypeOK'
  BY StepTyped
<1> QED
  BY <1>1, <1>2, PTL DEF Spec

\* What was sent is in the order of the feed, nothing unpublished is known of, and an answer is
\* of what was asked for, whatever was missed (Sound).
THEOREM HomeSound == Spec => []Sound
<1>1. Init => Sound
  BY InitSound
<1>2. TypeOK /\ Sound /\ [Next]_vars => Sound'
  BY StepSound
<1> QED
  BY <1>1, <1>2, HomeTyped, PTL DEF Spec

\* No status is in the list twice, however answers and updates overlap: expandNormalizedTimeline
\* leaves out of an answer what the rest of the list has.
THEOREM NoneTwice == Spec => []NothingTwice
<1>1. Init => NothingTwice
  BY DEF Init, NothingTwice
<1>2. TypeOK /\ TypeOK' /\ Sound /\ NothingTwice /\ [Next]_vars => NothingTwice'
  BY StepDistinct DEF Sound
<1> QED
  BY <1>1, <1>2, HomeTyped, HomeSound, PTL DEF Spec

\* Of an account without pending items, where the list lacks statuses of the feed a gap is shown,
\* unless one of the slips named there has come about: TIMELINE_CONNECT, TIMELINE_DISCONNECT and
\* the requests that fill gaps leave no other hole.
THEOREM HolesShown ==
  ASSUME ~Pending
  PROVE  Spec => []OtherHolesMarked
<1>1. Init => Seen
  BY InitSeen
<1>2. TypeOK /\ TypeOK' /\ Sound /\ Seen /\ [Next]_vars => Seen'
  BY StepSeen
<1>3. TypeOK /\ Sound /\ Seen => OtherHolesMarked
  BY SeenIsMarked
<1> QED
  BY <1>1, <1>2, <1>3, HomeTyped, HomeSound, PTL DEF Spec
================================================================================
