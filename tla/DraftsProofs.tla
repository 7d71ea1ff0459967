----------------------------- MODULE DraftsProofs -----------------------------
(***************************************************************************)
(* Theorems about Drafts, for any number of times the composer is opened   *)
(* and of texts typed.                                                     *)
(***************************************************************************)
EXTENDS Drafts, TLAPS

(* Lists of drafts and chains, by what is in them. *)

\* No two have one id.
Single(list) == \A i, k \in DOMAIN list : list[i].id = list[k].id => i = k

LEMMA RemoveAtIs ==
  ASSUME NEW S, NEW s \in Seq(S), NEW i \in DOMAIN s
  PROVE  /\ RemoveAt(s, i) \in Seq(S) /\ Len(RemoveAt(s, i)) = Len(s) - 1
         /\ \A k \in 1..(Len(s) - 1) : RemoveAt(s, i)[k] = s[IF k < i THEN k ELSE k + 1]
<1> DEFINE a == SubSeq(s, 1, i - 1)
           b == SubSeq(s, i + 1, Len(s))
<1>1. Len(s) \in Nat /\ i \in 1..Len(s)
  OBVIOUS
<1>2. /\ a \in Seq(S) /\ Len(a) = i - 1
      /\ \A k \in 1..(i - 1) : a[k] = s[k]
  BY <1>1
<1>3. /\ b \in Seq(S) /\ Len(b) = Len(s) - i
      /\ \A k \in 1..(Len(s) - i) : b[k] = s[i + k]
  BY <1>1
<1>4. RemoveAt(s, i) = a \o b
  BY DEF RemoveAt
<1> HIDE DEF a, b
<1>5. /\ a \o b \in Seq(S) /\ Len(a \o b) = Len(s) - 1
      /\ \A k \in 1..(Len(s) - 1) :
           (a \o b)[k] = IF k <= Len(a) THEN a[k] ELSE b[k - Len(a)]
  BY SMTT(30), <1>1, <1>2, <1>3
<1>6. ASSUME NEW k \in 1..(Len(s) - 1)
      PROVE  (a \o b)[k] = s[IF k < i THEN k ELSE k + 1]
  <2>1. CASE k < i
    BY <1>1, <1>2, <1>5, <2>1
  <2>2. CASE ~(k < i)
    <3>1. k - (i - 1) \in 1..(Len(s) - i)
      BY <1>1, <2>2
    <3>2. (a \o b)[k] = b[k - (i - 1)]
      BY <1>1, <1>2, <1>5, <2>2
    <3>3. b[k - (i - 1)] = s[i + (k - (i - 1))]
      BY <1>3, <3>1
    <3>4. i + (k - (i - 1)) = k + 1
      BY <1>1
    <3> QED
      BY <2>2, <3>2, <3>3, <3>4
  <2> QED
    BY <2>1, <2>2
<1> QED
  BY <1>4, <1>5, <1>6

\* What is left of a list without a draft.
LEMMA WithoutIs ==
  ASSUME NEW S, NEW s \in Seq(S), NEW id, Single(s)
  PROVE  /\ Without(s, id) \in Seq(S)
         /\ Single(Without(s, id))
         /\ ToSet(Without(s, id)) = {d \in ToSet(s) : d.id # id}
<1>1. CASE ~\E i \in DOMAIN s : s[i].id = id
  BY <1>1 DEF Without, ToSet
<1>2. CASE \E i \in DOMAIN s : s[i].id = id
  <2> DEFINE i == CHOOSE k \in DOMAIN s : s[k].id = id
             w == RemoveAt(s, i)
             at(k) == IF k < i THEN k ELSE k + 1
  <2>1. i \in DOMAIN s /\ s[i].id = id /\ Without(s, id) = w
    BY <1>2 DEF Without
  <2> HIDE DEF i
  <2>2. Len(s) \in Nat /\ DOMAIN s = 1..Len(s)
    OBVIOUS
  <2>3. /\ w \in Seq(S) /\ Len(w) = Len(s) - 1
        /\ \A k \in 1..(Len(s) - 1) : w[k] = s[at(k)]
    BY <2>1, RemoveAtIs
  <2> HIDE DEF w
  <2>4. DOMAIN w = 1..(Len(s) - 1)
    BY <2>3
  <2>5. \A k \in DOMAIN w : w[k] = s[at(k)] /\ at(k) \in DOMAIN s /\ at(k) # i
    BY <2>1, <2>2, <2>3, <2>4
  <2>6. \A k \in DOMAIN s : k # i => \E l \in DOMAIN w : at(l) = k
    <3> SUFFICES ASSUME NEW k \in DOMAIN s, k # i PROVE \E l \in DOMAIN w : at(l) = k
      OBVIOUS
    <3>1. CASE k < i
      <4>1. k \in DOMAIN w /\ at(k) = k
        BY <2>1, <2>2, <2>4, <3>1
      <4> QED
        BY <4>1
    <3>2. CASE k > i
      <4>1. k - 1 \in DOMAIN w /\ at(k - 1) = k
        BY <2>1, <2>2, <2>4, <3>2
      <4> QED
        BY <4>1
    <3> QED
      BY <2>1, <2>2, <3>1, <3>2
  <2>7. \A k, l \in DOMAIN w : at(k) = at(l) => k = l
    BY <2>1, <2>2, <2>4
  <2>8. Single(w)
    <3> SUFFICES ASSUME NEW k \in DOMAIN w, NEW l \in DOMAIN w, w[k].id = w[l].id PROVE k = l
      BY DEF Single
    <3>1. s[at(k)].id = s[at(l)].id /\ at(k) \in DOMAIN s /\ at(l) \in DOMAIN s
      BY <2>5
    <3> HIDE DEF at
    <3>2. at(k) = at(l)
      BY <3>1 DEF Single
    <3> QED
      BY <2>7, <3>2
  <2>9. ToSet(w) = {d \in ToSet(s) : d.id # id}
    <3> HIDE DEF at
    <3>1. ASSUME NEW k \in DOMAIN w PROVE w[k] \in ToSet(s) /\ w[k].id # id
      BY <2>1, <2>5 DEF ToSet, Single
    <3>2. ASSUME NEW k \in DOMAIN s, s[k].id # id PROVE s[k] \in ToSet(w)
      <4>1. PICK l \in DOMAIN w : at(l) = k
        BY <2>1, <2>6, <3>2
      <4> QED
        BY <2>5, <4>1 DEF ToSet
    <3> QED
      BY <3>1, <3>2 DEF ToSet
  <2> QED
    BY <2>1, <2>3, <2>8, <2>9
<1> QED
  BY <1>1, <1>2

\* A list with a draft saved in it.
LEMMA SaveInIs ==
  ASSUME NEW s \in Seq(Listed), NEW id \in Ids, NEW text \in Texts, Single(s)
  PROVE  /\ SaveIn(s, id, text) \in Seq(Listed)
         /\ Single(SaveIn(s, id, text))
         /\ ToSet(SaveIn(s, id, text)) =
              {[id |-> id, text |-> text]} \cup {d \in ToSet(s) : d.id # id}
<1> DEFINE w == Without(s, id)
           e == [id |-> id, text |-> text]
           v == SaveIn(s, id, text)
<1>1. w \in Seq(Listed) /\ Single(w) /\ ToSet(w) = {d \in ToSet(s) : d.id # id}
  BY WithoutIs
<1>2. v = <<e>> \o w
  BY DEF SaveIn
<1>3. e \in Listed /\ e.id = id
  BY DEF Listed
<1> HIDE DEF e, w, v
<1>4. /\ v \in Seq(Listed) /\ Len(w) \in Nat /\ DOMAIN w = 1..Len(w)
      /\ DOMAIN v = 1..(Len(w) + 1)
      /\ v[1] = e /\ \A k \in 2..(Len(w) + 1) : v[k] = w[k - 1]
  BY <1>1, <1>2, <1>3
<1>5. \A k \in DOMAIN w : w[k].id # id
  BY <1>1 DEF ToSet
<1>6. \A k \in DOMAIN v : k = 1 \/ (k - 1 \in DOMAIN w /\ v[k] = w[k - 1])
  BY <1>4
<1>7. \A k \in DOMAIN w : k + 1 \in DOMAIN v /\ v[k + 1] = w[k]
  BY <1>4
<1>8. Single(v)
  <2> SUFFICES ASSUME NEW k \in DOMAIN v, NEW l \in DOMAIN v, v[k].id = v[l].id PROVE k = l
    BY DEF Single
  <2>1. k \in Nat /\ l \in Nat
    BY <1>4
  <2>2. CASE k = 1
    BY <1>3, <1>4, <1>5, <1>6, <2>2
  <2>3. CASE l = 1
    BY <1>3, <1>4, <1>5, <1>6, <2>3
  <2>4. CASE k # 1 /\ l # 1
    <3>1. /\ k - 1 \in DOMAIN w /\ l - 1 \in DOMAIN w
          /\ w[k - 1].id = w[l - 1].id
      BY <1>6, <2>4
    <3>2. k - 1 = l - 1
      BY <1>1, <3>1 DEF Single
    <3> QED
      BY <2>1, <3>2
  <2> QED
    BY <2>2, <2>3, <2>4
<1>9. ToSet(v) = {e} \cup ToSet(w)
  <2>1. \A k \in DOMAIN v : v[k] \in {e} \cup ToSet(w)
    BY <1>4, <1>6 DEF ToSet
  <2>2. e \in ToSet(v) /\ \A k \in DOMAIN w : w[k] \in ToSet(v)
    <3>1. 1 \in DOMAIN v /\ v[1] = e
      BY <1>4
    <3> QED
      BY <1>7, <3>1 DEF ToSet
  <2> QED
    BY <2>1, <2>2 DEF ToSet
<1> QED
  BY <1>1, <1>4, <1>8, <1>9 DEF v, e

LEMMA ListedAre ==
  ASSUME NEW list \in Seq(Listed)
  PROVE  \A d \in ToSet(list) : d \in Listed /\ d.id \in Ids /\ d.text \in Texts
<1>1. \A d \in ToSet(list) : d \in Listed
  BY DEF ToSet
<1> QED
  BY <1>1 DEF Listed

LEMMA ListTypes ==
  ASSUME NEW s \in Seq(Listed), NEW id
  PROVE  /\ Without(s, id) \in Seq(Listed)
         /\ \A text \in Texts : id \in Ids => SaveIn(s, id, text) \in Seq(Listed)
<1>1. Without(s, id) \in Seq(Listed)
  <2>1. CASE \E i \in DOMAIN s : s[i].id = id
    <3>1. (CHOOSE i \in DOMAIN s : s[i].id = id) \in DOMAIN s
      BY <2>1
    <3> QED
      BY <2>1, <3>1, RemoveAtIs DEF Without
  <2>2. CASE ~\E i \in DOMAIN s : s[i].id = id
    BY <2>2 DEF Without
  <2> QED
    BY <2>1, <2>2
<1>2. ASSUME NEW text \in Texts, id \in Ids PROVE SaveIn(s, id, text) \in Seq(Listed)
  <2>1. [id |-> id, text |-> text] \in Listed
    BY <1>2 DEF Listed
  <2>2. <<[id |-> id, text |-> text]>> \in Seq(Listed)
    BY <2>1
  <2> QED
    BY <1>1, <2>2 DEF SaveIn
<1> QED
  BY <1>1, <1>2

(* What waits in a chain. *)
Saves(r) == {i \in DOMAIN r.chain : r.chain[i].do = "save"}
Loads(r) == {i \in DOMAIN r.chain : r.chain[i].do = "load"}
Discards(r) == {i \in DOMAIN r.chain : r.chain[i].do = "discard"}

\* The saves that are not to be thrown away.
Meant(r) == {i \in Saves(r) : ~r.chain[i].forgotten}

LEMMA ChainParts ==
  ASSUME NEW r, r.chain \in Seq(Chained), NEW i \in DOMAIN r.chain
  PROVE  /\ r.chain[i].do \in {"save", "load", "discard"}
         /\ r.chain[i].do = "save" => r.chain[i].text \in Texts /\ r.chain[i].forgotten \in BOOLEAN
         /\ r.chain[i].do = "load" => r.chain[i].draft \in Listed \cup {None}
         /\ r.chain[i].do = "discard" => r.chain[i].id \in Ids
<1>1. r.chain[i] \in Chained
  OBVIOUS
<1> QED
  BY <1>1 DEF Chained

\* Something joins the chain.
LEMMA Appended ==
  ASSUME NEW r, NEW s, r.chain \in Seq(Chained), NEW e \in Chained, s.chain = Append(r.chain, e)
  PROVE  LET n == Len(r.chain) + 1 IN
         /\ s.chain \in Seq(Chained) /\ s.chain # <<>>
         /\ n \in Nat \ {0} /\ DOMAIN s.chain = DOMAIN r.chain \cup {n}
         /\ s.chain[n] = e
         /\ \A i \in DOMAIN r.chain : i \in Nat \ {0} /\ i < n /\ s.chain[i] = r.chain[i]
         /\ Saves(s) = Saves(r) \cup (IF e.do = "save" THEN {n} ELSE {})
         /\ Loads(s) = Loads(r) \cup (IF e.do = "load" THEN {n} ELSE {})
         /\ Discards(s) = Discards(r) \cup (IF e.do = "discard" THEN {n} ELSE {})
         /\ Meant(s) = Meant(r) \cup (IF e.do = "save" /\ ~e.forgotten THEN {n} ELSE {})
<1> DEFINE n == Len(r.chain) + 1
           c == r.chain
           d == s.chain
<1>1. /\ d \in Seq(Chained) /\ d # <<>>
      /\ Len(c) \in Nat /\ DOMAIN c = 1..Len(c) /\ DOMAIN d = 1..n
      /\ d[n] = e /\ \A i \in DOMAIN c : d[i] = c[i]
  OBVIOUS
<1>2. /\ n \in Nat \ {0} /\ DOMAIN d = DOMAIN c \cup {n} /\ n \notin DOMAIN c
      /\ \A i \in DOMAIN c : i \in Nat \ {0} /\ i < n
  BY <1>1
<1> HIDE DEF n, c, d
<1>3. /\ {i \in DOMAIN d : d[i].do = "save"} =
           {i \in DOMAIN c : c[i].do = "save"} \cup (IF e.do = "save" THEN {n} ELSE {})
      /\ {i \in DOMAIN d : d[i].do = "load"} =
           {i \in DOMAIN c : c[i].do = "load"} \cup (IF e.do = "load" THEN {n} ELSE {})
      /\ {i \in DOMAIN d : d[i].do = "discard"} =
           {i \in DOMAIN c : c[i].do = "discard"} \cup (IF e.do = "discard" THEN {n} ELSE {})
  BY <1>1, <1>2
<1>4. {i \in {k \in DOMAIN d : d[k].do = "save"} : ~d[i].forgotten} =
        {i \in {k \in DOMAIN c : c[k].do = "save"} : ~c[i].forgotten}
          \cup (IF e.do = "save" /\ ~e.forgotten THEN {n} ELSE {})
  BY <1>1, <1>2
<1> QED
  BY <1>1, <1>2, <1>3, <1>4 DEF Saves, Loads, Discards, Meant, n, c, d

\* The first in the chain is done with.
LEMMA Tailed ==
  ASSUME NEW r, NEW s, r.chain \in Seq(Chained), r.chain # <<>>, s.chain = Tail(r.chain)
  PROVE  /\ s.chain \in Seq(Chained)
         /\ 1 \in DOMAIN r.chain /\ Head(r.chain) = r.chain[1]
         /\ \A i \in DOMAIN s.chain : /\ i \in Nat \ {0} /\ i + 1 \in DOMAIN r.chain
                                      /\ s.chain[i] = r.chain[i + 1]
         /\ \A i \in DOMAIN r.chain \ {1} : /\ i - 1 \in DOMAIN s.chain
                                            /\ i \in Nat \ {0} /\ s.chain[i - 1] = r.chain[i]
         /\ s.chain = <<>> => DOMAIN r.chain = {1}
<1> DEFINE c == r.chain
           d == s.chain
<1>1. /\ d \in Seq(Chained) /\ Len(c) \in Nat \ {0} /\ DOMAIN c = 1..Len(c)
      /\ Head(c) = c[1] /\ Len(d) = Len(c) - 1 /\ DOMAIN d = 1..(Len(c) - 1)
      /\ \A i \in 1..(Len(c) - 1) : d[i] = c[i + 1]
  OBVIOUS
<1> HIDE DEF c, d
<1>2. d = <<>> => Len(d) = 0
  OBVIOUS
<1>3. \A i \in DOMAIN c \ {1} : i - 1 \in DOMAIN d /\ i \in Nat \ {0} /\ (i - 1) + 1 = i
  BY <1>1
<1>4. d = <<>> => DOMAIN c = {1}
  <2> SUFFICES ASSUME d = <<>> PROVE DOMAIN c = {1}
    OBVIOUS
  <2> DEFINE n == Len(c)
             k == Len(d)
  <2>1. n \in Nat /\ k = n - 1 /\ k = 0
    BY <1>1, <1>2
  <2> HIDE DEF n, k
  <2>2. n = 1
    BY <2>1
  <2>3. Len(c) = 1
    BY <2>2 DEF n
  <2> QED
    BY <1>1, <2>3
<1>5. 1 \in DOMAIN c /\ \A i \in DOMAIN d : i \in Nat \ {0} /\ i + 1 \in DOMAIN c
  BY <1>1
<1>6. \A i \in DOMAIN c \ {1} : d[i - 1] = c[i]
  BY <1>1, <1>3
<1> QED
  BY <1>1, <1>3, <1>4, <1>5, <1>6 DEF c, d

LEMMA TailedSaves ==
  ASSUME NEW r, NEW s, r.chain \in Seq(Chained), r.chain # <<>>, s.chain = Tail(r.chain)
  PROVE  /\ \A i \in Saves(s) : i + 1 \in Saves(r)
         /\ \A i \in Loads(s) : i + 1 \in Loads(r)
         /\ \A i \in Discards(s) : i + 1 \in Discards(r)
         /\ \A i \in Meant(s) : i + 1 \in Meant(r)
         /\ \A i \in Saves(r) \ {1} : i - 1 \in Saves(s)
         /\ \A i \in Loads(r) \ {1} : i - 1 \in Loads(s)
         /\ \A i \in Discards(r) \ {1} : i - 1 \in Discards(s)
         /\ \A i \in Meant(r) \ {1} : i - 1 \in Meant(s)
<1>1. \A i \in DOMAIN s.chain : i + 1 \in DOMAIN r.chain /\ s.chain[i] = r.chain[i + 1]
  BY Tailed
<1>2. \A i \in DOMAIN r.chain \ {1} : i - 1 \in DOMAIN s.chain /\ s.chain[i - 1] = r.chain[i]
  BY Tailed
<1>3. \A i \in Saves(s) : i + 1 \in Saves(r)
  BY <1>1 DEF Saves
<1>4. \A i \in Loads(s) : i + 1 \in Loads(r)
  BY <1>1 DEF Loads
<1>5. \A i \in Discards(s) : i + 1 \in Discards(r)
  BY <1>1 DEF Discards
<1>6. \A i \in Meant(s) : i + 1 \in Meant(r)
  BY <1>1 DEF Meant, Saves
<1>7. \A i \in Saves(r) \ {1} : i - 1 \in Saves(s)
  BY <1>2 DEF Saves
<1>8. \A i \in Loads(r) \ {1} : i - 1 \in Loads(s)
  BY <1>2 DEF Loads
<1>9. \A i \in Discards(r) \ {1} : i - 1 \in Discards(s)
  BY <1>2 DEF Discards
<1>10. \A i \in Meant(r) \ {1} : i - 1 \in Meant(s)
  BY <1>2 DEF Meant, Saves
<1> QED
  BY <1>3, <1>4, <1>5, <1>6, <1>7, <1>8, <1>9, <1>10

\* The saves in the chain are to be thrown away.
Thrown(c) == [i \in DOMAIN c |-> IF c[i].do = "save" THEN [c[i] EXCEPT !.forgotten = TRUE] ELSE c[i]]

LEMMA ThrownIs ==
  ASSUME NEW r, NEW s, r.chain \in Seq(Chained), s.chain = Thrown(r.chain)
  PROVE  /\ s.chain \in Seq(Chained) /\ DOMAIN s.chain = DOMAIN r.chain
         /\ Len(s.chain) = Len(r.chain) /\ (s.chain = <<>> <=> r.chain = <<>>)
         /\ \A i \in DOMAIN r.chain :
              IF r.chain[i].do = "save"
              THEN s.chain[i].do = "save" /\ s.chain[i].text = r.chain[i].text /\ s.chain[i].forgotten
              ELSE s.chain[i] = r.chain[i]
         /\ Saves(s) = Saves(r) /\ Loads(s) = Loads(r) /\ Discards(s) = Discards(r) /\ Meant(s) = {}
<1> DEFINE c == r.chain
           d == s.chain
<1>1. \A i \in DOMAIN c : c[i] \in Chained
  OBVIOUS
<1>2. \A i \in DOMAIN c : c[i].do = "save" =>
        c[i] \in [do : {"save"}, text : Texts, forgotten : BOOLEAN]
  BY <1>1 DEF Chained
<1>3. DOMAIN c = 1..Len(c) /\ Len(c) \in Nat
  OBVIOUS
<1>4. d = [i \in 1..Len(c) |->
            IF c[i].do = "save" THEN [c[i] EXCEPT !.forgotten = TRUE] ELSE c[i]]
  BY <1>3 DEF Thrown
<1> HIDE DEF c, d
<1>5. \A i \in DOMAIN c :
        IF c[i].do = "save"
        THEN /\ d[i] \in [do : {"save"}, text : Texts, forgotten : BOOLEAN]
             /\ d[i].do = "save" /\ d[i].text = c[i].text /\ d[i].forgotten
        ELSE d[i] = c[i]
  <2> SUFFICES ASSUME NEW i \in DOMAIN c
               PROVE  IF c[i].do = "save"
                      THEN /\ d[i] \in [do : {"save"}, text : Texts, forgotten : BOOLEAN]
                           /\ d[i].do = "save" /\ d[i].text = c[i].text /\ d[i].forgotten
                      ELSE d[i] = c[i]
    OBVIOUS
  <2>1. CASE c[i].do = "save"
    <3>1. d[i] = [c[i] EXCEPT !.forgotten = TRUE]
      BY <1>3, <1>4, <2>1
    <3>2. c[i] \in [do : {"save"}, text : Texts, forgotten : BOOLEAN]
      BY <1>2, <2>1
    <3> QED
      BY <2>1, <3>1, <3>2
  <2>2. CASE c[i].do # "save"
    BY <1>3, <1>4, <2>2
  <2> QED
    BY <2>1, <2>2
<1>6. \A i \in 1..Len(c) : d[i] \in Chained
  BY <1>1, <1>3, <1>5 DEF Chained
<1>7. DOMAIN d = 1..Len(c)
  BY <1>4
<1>8. d \in Seq(Chained) /\ Len(d) = Len(c)
  <2>1. d \in [1..Len(c) -> Chained]
    BY <1>4, <1>6
  <2> QED
    BY <1>3, <2>1
<1>9. d = <<>> <=> c = <<>>
  <2>1. c \in Seq(Chained)
    BY DEF c
  <2> QED
    BY <1>3, <1>8, <2>1
<1> QED
  BY <1>3, <1>5, <1>7, <1>8, <1>9 DEF Saves, Loads, Discards, Meant, c, d

(* The parts of the hook. *)

Saving(text) == [do |-> "save", text |-> text, forgotten |-> FALSE]
Loading(draft) == [do |-> "load", draft |-> draft]
Discarding(id) == [do |-> "discard", id |-> id]

LEMMA ChainedAre ==
  /\ \A text \in Texts : /\ Saving(text) \in Chained /\ Saving(text).do = "save"
                          /\ Saving(text).text = text /\ ~Saving(text).forgotten
  /\ \A draft \in Listed \cup {None} : /\ Loading(draft) \in Chained
                                      /\ Loading(draft).do = "load" /\ Loading(draft).draft = draft
  /\ \A id \in Ids : /\ Discarding(id) \in Chained
                    /\ Discarding(id).do = "discard" /\ Discarding(id).id = id
BY DEF Saving, Loading, Discarding, Chained

LEMMA FlushIs ==
  ASSUME NEW r \in Composers
  PROVE  /\ Flush(r) \in Composers
         /\ Flush(r).phase = r.phase /\ Flush(r).local = r.local /\ Flush(r).list = r.list
         /\ Flush(r).field = r.field /\ Flush(r).work = r.work /\ Flush(r).current = r.current
         /\ Flush(r).pending = None /\ Flush(r).sent = r.sent /\ Flush(r).call = r.call
         /\ Flush(r).localDue = r.localDue /\ Flush(r).serverDue = r.serverDue
         /\ Flush(r).emptyDue = r.emptyDue
         /\ r.pending = None => Flush(r).chain = r.chain
         /\ r.pending # None => Flush(r).chain = Append(r.chain, Saving(r.pending))
<1>1. CASE r.pending = None
  BY <1>1 DEF Flush
<1>2. CASE r.pending # None
  <2>1. r.chain \in Seq(Chained) /\ r.pending \in Texts
    BY <1>2 DEF Composers
  <2>2. Append(r.chain, Saving(r.pending)) \in Seq(Chained)
    BY <2>1, ChainedAre
  <2>3. Flush(r) = [r EXCEPT !.pending = None, !.chain = Append(r.chain, Saving(r.pending))]
    BY <1>2 DEF Flush, Saving
  <2> QED
    BY <1>2, <2>2, <2>3 DEF Composers
<1> QED
  BY <1>1, <1>2

LEMMA WrittenIs ==
  ASSUME NEW r \in Composers, NEW text \in Texts \cup {None}
  PROVE  /\ Written(r, text) \in Composers
         /\ Written(r, text).phase = r.phase /\ Written(r, text).local = r.local
         /\ Written(r, text).list = r.list /\ Written(r, text).field = text
         /\ Written(r, text).current = r.current /\ Written(r, text).sent = r.sent
         /\ Written(r, text).chain = r.chain /\ Written(r, text).call = r.call
         /\ text = None => /\ Written(r, text).work = r.work /\ Written(r, text).pending = r.pending
                           /\ ~Written(r, text).localDue /\ ~Written(r, text).serverDue
                           /\ Written(r, text).emptyDue = (r.current # None)
         /\ text # None => /\ Written(r, text).work = text.work /\ Written(r, text).pending = text
                           /\ Written(r, text).localDue /\ Written(r, text).serverDue
                           /\ ~Written(r, text).emptyDue
<1>1. CASE text = None
  <2>1. Written(r, text) = [r EXCEPT !.field = None, !.localDue = FALSE, !.serverDue = FALSE,
                                     !.emptyDue = r.current # None]
    BY <1>1 DEF Written
  <2> QED
    BY <1>1, <2>1 DEF Composers
<1>2. CASE text # None
  <2>1. Written(r, text) = [r EXCEPT !.field = text, !.work = text.work, !.pending = text,
                              !.localDue = TRUE, !.serverDue = TRUE, !.emptyDue = FALSE]
    BY <1>2 DEF Written
  <2>2. text \in Texts /\ text.work \in 0..MaxTyped
    BY <1>2, DraftsAssumption DEF Texts
  <2> QED
    BY ZenonT(40), <1>2, <2>1, <2>2 DEF Composers
<1> QED
  BY <1>1, <1>2

TextOf(draft) == IF draft = None THEN None ELSE draft.text
WorkOf(text) == IF text = None THEN 0 ELSE text.work
IdOf(draft) == IF draft = None THEN None ELSE draft.id

LEMMA TextsAre ==
  /\ \A draft \in Listed \cup {None} :
       /\ TextOf(draft) \in Texts \cup {None} /\ IdOf(draft) \in Ids \cup {None}
       /\ TextOf(draft) = None <=> draft = None
       /\ IdOf(draft) = None <=> draft = None
  /\ \A text \in Texts \cup {None} :
       WorkOf(text) \in 0..MaxTyped /\ (WorkOf(text) = 0 <=> text = None)
BY NoneAssumption, DraftsAssumption DEF TextOf, WorkOf, IdOf, Listed, Texts

LEMMA LoadIs ==
  ASSUME NEW r \in Composers, r.phase = "open", NEW draft \in Listed \cup {None}
  PROVE  LET s == Load(r, draft)
             text == TextOf(draft)
         IN
         /\ s \in Composers
         /\ s.phase = r.phase /\ s.local = r.local /\ s.list = r.list
         /\ s.field = text /\ s.work = WorkOf(text) /\ s.current = IdOf(draft) /\ s.sent = None
         /\ s.chain = r.chain /\ s.call = r.call
         /\ text = r.field => /\ s.pending = None /\ s.localDue = r.localDue
                              /\ s.serverDue = r.serverDue /\ s.emptyDue = r.emptyDue
         /\ text # r.field => /\ s.pending = text /\ ~s.emptyDue
                              /\ text # None => s.localDue /\ s.serverDue
                              /\ text = None => ~s.localDue /\ ~s.serverDue
<1> DEFINE text == TextOf(draft)
           t == [r EXCEPT !.pending = None, !.sent = None, !.work = WorkOf(text), !.current = IdOf(draft)]
           s == Load(r, draft)
<1>1. /\ text \in Texts \cup {None} /\ WorkOf(text) \in 0..MaxTyped
      /\ IdOf(draft) \in Ids \cup {None}
      /\ text = None <=> IdOf(draft) = None
  BY TextsAre
<1>2. s = IF r.phase # "open" \/ text = r.field THEN t ELSE Written(t, text)
  BY DEF Load, TextOf, WorkOf, IdOf
<1> HIDE DEF text, s
<1>3. /\ t \in Composers
      /\ t.phase = r.phase /\ t.local = r.local /\ t.list = r.list
      /\ t.field = r.field /\ t.work = WorkOf(text) /\ t.current = IdOf(draft)
      /\ t.pending = None /\ t.sent = None /\ t.chain = r.chain /\ t.call = r.call
      /\ t.localDue = r.localDue /\ t.serverDue = r.serverDue /\ t.emptyDue = r.emptyDue
  BY <1>1 DEF Composers
<1> HIDE DEF t
<1>4. CASE text = r.field
  BY <1>2, <1>3, <1>4 DEF s, text
<1>5. CASE text # r.field
  <2>1. s = Written(t, text)
    BY <1>2, <1>3, <1>5
  <2>2. CASE text = None
    <3>1. s.pending = None /\ ~s.localDue /\ ~s.serverDue /\ s.emptyDue = (t.current # None)
      BY <1>3, <2>1, <2>2, WrittenIs
    <3>2. /\ s \in Composers /\ s.field = text /\ s.phase = t.phase /\ s.local = t.local
          /\ s.list = t.list /\ s.current = t.current /\ s.sent = t.sent /\ s.chain = t.chain
          /\ s.call = t.call /\ s.work = t.work
      BY <1>3, <2>1, <2>2, WrittenIs
    <3>3. ~s.emptyDue
      BY <1>1, <1>3, <2>2, <3>1
    <3> QED
      BY <1>3, <1>5, <2>2, <3>1, <3>2, <3>3 DEF s, text
  <2>3. CASE text # None
    <3>1. text.work = WorkOf(text)
      BY <2>3 DEF WorkOf
    <3>2. text \in Texts \cup {None}
      BY <1>1
    <3>3. s.pending = text /\ s.localDue /\ s.serverDue /\ ~s.emptyDue
      BY <1>3, <2>1, <2>3, <3>2, WrittenIs
    <3>4. /\ s \in Composers /\ s.field = text /\ s.phase = t.phase /\ s.local = t.local
          /\ s.list = t.list /\ s.current = t.current /\ s.sent = t.sent /\ s.chain = t.chain
          /\ s.call = t.call /\ s.work = text.work
      BY <1>3, <2>1, <2>3, <3>2, WrittenIs
    <3> QED
      BY <1>3, <1>5, <2>3, <3>1, <3>3, <3>4 DEF s, text
  <2> QED
    BY <2>2, <2>3
<1> QED
  BY <1>4, <1>5

\* Of a composer that is closed, only what the hook goes on with is loaded.
LEMMA ShutLoadIs ==
  ASSUME NEW r \in Composers, r.phase # "open", NEW draft \in Listed \cup {None}
  PROVE  LET s == Load(r, draft) IN
         /\ s \in Composers
         /\ s.phase = r.phase /\ s.local = r.local /\ s.list = r.list /\ s.field = r.field
         /\ s.work = WorkOf(TextOf(draft)) /\ s.current = IdOf(draft)
         /\ s.pending = None /\ s.sent = None /\ s.chain = r.chain /\ s.call = r.call
         /\ s.localDue = r.localDue /\ s.serverDue = r.serverDue /\ s.emptyDue = r.emptyDue
<1> DEFINE work == WorkOf(TextOf(draft))
           id == IdOf(draft)
<1>1. work \in 0..MaxTyped /\ id \in Ids \cup {None}
  BY TextsAre
<1>2. Load(r, draft) = [r EXCEPT !.pending = None, !.sent = None, !.work = work, !.current = id]
  BY DEF Load, TextOf, WorkOf, IdOf
<1> HIDE DEF work, id
<1> DEFINE t == [r EXCEPT !.pending = None, !.sent = None, !.work = work, !.current = id]
<1>3. /\ t.phase = r.phase /\ t.local = r.local /\ t.list = r.list /\ t.field = r.field
      /\ t.work = work /\ t.current = id /\ t.pending = None /\ t.sent = None
      /\ t.chain = r.chain /\ t.call = r.call /\ t.localDue = r.localDue
      /\ t.serverDue = r.serverDue /\ t.emptyDue = r.emptyDue
  BY DEF Composers
<1>4. t \in Composers
  BY <1>1 DEF Composers
<1> HIDE DEF t
<1> QED
  BY <1>2, <1>3, <1>4 DEF work, id, t

LEMMA CallsAre ==
  ASSUME NEW c \in Calls
  PROVE  /\ c # None /\ c.id \in Ids \cup {None} /\ c.text \in Texts /\ c.forgotten \in BOOLEAN
         /\ c.at \in {"sent", "saved", "failed"} /\ (c.at = "saved" => c.id \in Ids)
         /\ LET d == [c EXCEPT !.forgotten = TRUE]
            IN  d \in Calls /\ d.id = c.id /\ d.text = c.text /\ d.at = c.at /\ d.forgotten
         /\ LET d == [c EXCEPT !.at = "failed"]
            IN  d \in Calls /\ d.id = c.id /\ d.text = c.text /\ d.at = "failed" /\ d.forgotten = c.forgotten
         /\ \A at \in {"sent", "saved", "failed"}, id \in Ids :
              LET d == [c EXCEPT !.at = at, !.id = id]
              IN  d \in Calls /\ d.id = id /\ d.text = c.text /\ d.at = at /\ d.forgotten = c.forgotten
<1>1. c # None
  BY NoneAssumption
<1>2. CASE c \in [id : Ids, text : Texts, forgotten : BOOLEAN, at : {"sent", "saved", "failed"}]
  BY <1>1, <1>2 DEF Calls
<1>3. CASE c \in [id : {None}, text : Texts, forgotten : BOOLEAN, at : {"sent", "failed"}]
  BY <1>1, <1>3 DEF Calls
<1> QED
  BY <1>2, <1>3 DEF Calls

LEMMA ForgetIs ==
  ASSUME NEW r \in Composers
  PROVE  LET s == Forget(r) IN
         /\ s \in Composers
         /\ s.phase = r.phase /\ s.local = r.local /\ s.field = r.field /\ s.sent = r.sent
         /\ s.pending = None /\ s.current = None /\ s.work = 0
         /\ s.list = Without(r.list, r.current)
         /\ ~s.localDue /\ ~s.serverDue /\ ~s.emptyDue
         /\ r.call = None => s.call = None
         /\ r.call # None => /\ s.call # None /\ s.call.id = r.call.id /\ s.call.text = r.call.text
                             /\ s.call.at = r.call.at /\ s.call.forgotten
         /\ r.current = None => s.chain = Thrown(r.chain)
         /\ r.current # None => s.chain = Append(Thrown(r.chain), Discarding(r.current))
<1> DEFINE c == IF r.call = None THEN None ELSE [r.call EXCEPT !.forgotten = TRUE]
           q == IF r.current = None THEN Thrown(r.chain)
                ELSE Append(Thrown(r.chain), Discarding(r.current))
           w == Without(r.list, r.current)
           s == Forget(r)
<1>1. /\ r.chain \in Seq(Chained) /\ r.list \in Seq(Listed) /\ r.call \in Calls \cup {None}
      /\ r.current \in Ids \cup {None}
  BY DEF Composers
<1>2. w \in Seq(Listed)
  BY <1>1, ListTypes
<1>3. /\ c \in Calls \cup {None}
      /\ r.call = None => c = None
      /\ r.call # None => /\ c # None /\ c.id = r.call.id /\ c.text = r.call.text
                          /\ c.at = r.call.at /\ c.forgotten
  <2>1. CASE r.call = None
    BY <2>1
  <2>2. CASE r.call # None
    <3>1. r.call \in Calls /\ c = [r.call EXCEPT !.forgotten = TRUE]
      BY <1>1, <2>2
    <3> QED
      BY <2>2, <3>1, CallsAre
  <2> QED
    BY <2>1, <2>2
<1>4. Thrown(r.chain) \in Seq(Chained)
  <2>1. PICK t \in {[r EXCEPT !.chain = Thrown(r.chain)]} : t.chain = Thrown(r.chain)
    BY DEF Composers
  <2> QED
    BY <1>1, <2>1, ThrownIs
<1>5. /\ q \in Seq(Chained)
      /\ r.current = None => q = Thrown(r.chain)
      /\ r.current # None => q = Append(Thrown(r.chain), Discarding(r.current))
  <2>1. CASE r.current = None
    BY <1>4, <2>1
  <2>2. CASE r.current # None
    <3>1. Discarding(r.current) \in Chained
      BY <1>1, <2>2, ChainedAre
    <3> QED
      BY <1>4, <2>2, <3>1
  <2> QED
    BY <2>1, <2>2
<1>6. s = [r EXCEPT !.pending = None, !.current = None, !.work = 0, !.list = w, !.localDue = FALSE,
                    !.serverDue = FALSE, !.emptyDue = FALSE, !.call = c, !.chain = q]
  BY DEF Forget, Thrown, Discarding
<1> HIDE DEF c, q, w, s
<1>7. 0 \in 0..MaxTyped
  BY DraftsAssumption
<1>8. /\ s \in Composers
      /\ s.phase = r.phase /\ s.local = r.local /\ s.field = r.field /\ s.sent = r.sent
      /\ s.pending = None /\ s.current = None /\ s.work = 0 /\ s.list = w
      /\ ~s.localDue /\ ~s.serverDue /\ ~s.emptyDue /\ s.call = c /\ s.chain = q
  BY <1>2, <1>3, <1>5, <1>6, <1>7 DEF Composers
<1> QED
  BY <1>3, <1>5, <1>8 DEF s, w

\* What is in the composer is to be saved, and another draft loaded after it.
Queued(r, draft) ==
  LET s == Flush([r EXCEPT !.pending = IF r.field = None THEN @ ELSE r.field])
  IN  [s EXCEPT !.chain = Append(@, Loading(draft))]

Waiting(r) == IF r.field = None THEN r.pending ELSE r.field

LEMMA QueuedIs ==
  ASSUME NEW r \in Composers, NEW draft \in Listed \cup {None}
  PROVE  LET s == Queued(r, draft) IN
         /\ s \in Composers
         /\ s.phase = r.phase /\ s.local = r.local /\ s.list = r.list
         /\ s.field = r.field /\ s.work = r.work /\ s.current = r.current
         /\ s.pending = None /\ s.sent = r.sent /\ s.call = r.call
         /\ s.localDue = r.localDue /\ s.serverDue = r.serverDue /\ s.emptyDue = r.emptyDue
         /\ Waiting(r) = None => s.chain = Append(r.chain, Loading(draft))
         /\ Waiting(r) # None => s.chain = Append(Append(r.chain, Saving(Waiting(r))), Loading(draft))
<1> DEFINE t == [r EXCEPT !.pending = Waiting(r)]
           f == Flush(t)
           g == Append(f.chain, Loading(draft))
           s == Queued(r, draft)
<1>1. /\ t \in Composers /\ t.phase = r.phase /\ t.local = r.local /\ t.list = r.list
      /\ t.field = r.field /\ t.work = r.work /\ t.current = r.current
      /\ t.pending = Waiting(r) /\ t.sent = r.sent /\ t.call = r.call /\ t.chain = r.chain
      /\ t.localDue = r.localDue /\ t.serverDue = r.serverDue /\ t.emptyDue = r.emptyDue
  BY SMTT(30) DEF Composers, Waiting
<1> HIDE DEF t
<1>2. /\ f \in Composers /\ f.phase = t.phase /\ f.local = t.local /\ f.list = t.list
      /\ f.field = t.field /\ f.work = t.work /\ f.current = t.current
      /\ f.pending = None /\ f.sent = t.sent /\ f.call = t.call
      /\ f.localDue = t.localDue /\ f.serverDue = t.serverDue /\ f.emptyDue = t.emptyDue
      /\ t.pending = None => f.chain = t.chain
      /\ t.pending # None => f.chain = Append(t.chain, Saving(t.pending))
  BY <1>1, FlushIs
<1> HIDE DEF f
<1>3. f \in Composers
  BY <1>2
<1>4. s = [f EXCEPT !.chain = g]
  BY DEF Queued, Waiting, f, t
<1>5. g \in Seq(Chained)
  <2>1. f.chain \in Seq(Chained) /\ Loading(draft) \in Chained
    BY <1>3, ChainedAre DEF Composers
  <2> QED
    BY <2>1
<1> HIDE DEF s, g
<1>6. /\ s \in Composers /\ s.phase = f.phase /\ s.local = f.local /\ s.list = f.list
      /\ s.field = f.field /\ s.work = f.work /\ s.current = f.current
      /\ s.pending = f.pending /\ s.sent = f.sent /\ s.call = f.call
      /\ s.localDue = f.localDue /\ s.serverDue = f.serverDue /\ s.emptyDue = f.emptyDue
      /\ s.chain = g
  BY <1>3, <1>4, <1>5 DEF Composers
<1> QED
  BY <1>1, <1>2, <1>6 DEF s, g

(* Opening. *)

\* A copy the server never got is laid over the list, and is left out of it again.
LEMMA NamelessIs ==
  ASSUME NEW s \in Seq(Listed), NEW text
  PROVE  LET v == SaveIn(s, None, text) IN
         /\ Without(s, None) = s
         /\ v # <<>> /\ Head(v) = [id |-> None, text |-> text]
         /\ Without(v, None) = s
<1> DEFINE e == [id |-> None, text |-> text]
           v == <<e>> \o s
           i == CHOOSE k \in DOMAIN v : v[k].id = None
           t == RemoveAt(v, i)
           U == Listed \cup {e}
<1>1. \A k \in DOMAIN s : s[k].id # None
  <2> SUFFICES ASSUME NEW k \in DOMAIN s PROVE s[k].id # None
    OBVIOUS
  <2>1. s[k] \in Listed
    OBVIOUS
  <2> QED
    BY <2>1, NoneAssumption DEF Listed
<1>2. Without(s, None) = s
  BY <1>1 DEF Without
<1>3. SaveIn(s, None, text) = v
  BY <1>2 DEF SaveIn
<1>4. e.id = None
  OBVIOUS
<1> HIDE DEF e
<1>5. s \in Seq(U)
  <2>1. Len(s) \in Nat /\ s \in [1..Len(s) -> U]
    OBVIOUS
  <2> QED
    BY <2>1
<1>6. /\ v \in Seq(U) /\ v # <<>> /\ Head(v) = e /\ Len(s) \in Nat /\ DOMAIN s = 1..Len(s)
      /\ Len(v) = Len(s) + 1 /\ DOMAIN v = 1..(Len(s) + 1) /\ v[1] = e
      /\ \A k \in 1..Len(s) : v[k + 1] = s[k]
  BY <1>5
<1> HIDE DEF v
<1>7. i = 1
  <2>1. 1 \in DOMAIN v /\ v[1].id = None
    BY <1>4, <1>6
  <2>2. ASSUME NEW k \in DOMAIN v, v[k].id = None PROVE k = 1
    <3> SUFFICES ASSUME k # 1 PROVE FALSE
      OBVIOUS
    <3>1. k - 1 \in 1..Len(s) /\ (k - 1) + 1 = k
      BY <1>6
    <3>2. v[k] = s[k - 1]
      BY <1>6, <3>1
    <3> QED
      BY <1>1, <1>6, <2>2, <3>1, <3>2
  <2> QED
    BY <2>1, <2>2
<1>8. Without(v, None) = t
  <2>1. \E k \in DOMAIN v : v[k].id = None
    BY <1>4, <1>6
  <2> QED
    BY <2>1 DEF Without
<1> HIDE DEF i
<1>9. t \in Seq(U) /\ Len(t) = Len(s) /\ \A k \in 1..Len(s) : t[k] = s[k]
  <2>1. 1 \in DOMAIN v
    BY <1>6
  <2>2. /\ t \in Seq(U) /\ Len(t) = Len(v) - 1
        /\ \A k \in 1..(Len(v) - 1) : t[k] = v[IF k < 1 THEN k ELSE k + 1]
    BY <1>6, <1>7, <2>1, RemoveAtIs
  <2> HIDE DEF t
  <2> QED
    BY <1>6, <2>2
<1> HIDE DEF t
<1>10. t = s
  BY <1>5, <1>9
<1> QED
  BY <1>2, <1>3, <1>6, <1>8, <1>10 DEF e

\* mergeLocal, and what is put into the composer.
Laid(r) == Dirty(r.local, r.list)
Merged(r) == IF Laid(r) THEN SaveIn(r.list, r.local.id, r.local.text) ELSE r.list
First(r, resume) == IF Merged(r) # <<>> /\ resume THEN Head(Merged(r)) ELSE None

LEMMA MergedIs ==
  ASSUME NEW r \in Composers, NEW resume \in BOOLEAN
  PROVE  LET first == First(r, resume)
             l == Without(Merged(r), None) IN
         /\ l \in Seq(Listed)
         /\ Single(r.list) => Single(l)
         /\ Single(r.list) => ToSet(l) =
              IF Laid(r) /\ r.local.id # None
              THEN {[id |-> r.local.id, text |-> r.local.text]} \cup {d \in ToSet(r.list) : d.id # r.local.id}
              ELSE ToSet(r.list)
         /\ Laid(r) => r.local \in Copies
         /\ first # None => resume /\ first.id \in Ids \cup {None} /\ first.text \in Texts
         /\ first # None /\ Laid(r) => first = [id |-> r.local.id, text |-> r.local.text]
         /\ first # None /\ ~Laid(r) => 1 \in DOMAIN r.list /\ first = r.list[1]
         /\ resume /\ first = None => ~Laid(r) /\ r.list = <<>>
<1>1. r.list \in Seq(Listed) /\ r.local \in Copies \cup {None}
  BY DEF Composers
<1>2. Laid(r) => /\ r.local \in Copies /\ r.local.id \in Ids \cup {None} /\ r.local.text \in Texts
  BY <1>1 DEF Laid, Dirty, Copies
<1>3. CASE ~Laid(r)
  <2>1. Merged(r) = r.list /\ Without(r.list, None) = r.list
    BY <1>1, <1>3, NamelessIs DEF Merged
  <2>2. r.list # <<>> => /\ 1 \in DOMAIN r.list /\ Head(r.list) = r.list[1] /\ r.list[1] \in Listed
    BY <1>1
  <2>3. r.list # <<>> => Head(r.list) # None /\ Head(r.list).id \in Ids /\ Head(r.list).text \in Texts
    BY <2>2, NoneAssumption DEF Listed
  <2> QED
    BY <1>1, <1>3, <2>1, <2>2, <2>3 DEF First
<1>4. CASE Laid(r) /\ r.local.id = None
  <2>1. /\ Merged(r) = SaveIn(r.list, None, r.local.text)
        /\ Merged(r) # <<>> /\ Head(Merged(r)) = [id |-> None, text |-> r.local.text]
        /\ Without(Merged(r), None) = r.list
    BY <1>1, <1>4, NamelessIs DEF Merged
  <2>2. PICK e \in {[id |-> None, text |-> r.local.text]} : e = [id |-> None, text |-> r.local.text]
    OBVIOUS
  <2>3. First(r, resume) # None => First(r, resume) = e /\ resume
    BY <2>1, <2>2 DEF First
  <2>4. e.id = None /\ e.text = r.local.text
    BY <2>2
  <2>5. e # None
    BY NoneAssumption, <1>2, <1>4, <2>2
  <2>6. First(r, resume) = None => ~resume
    BY <2>1, <2>2, <2>5 DEF First
  <2> QED
    BY <1>1, <1>2, <1>4, <2>1, <2>2, <2>3, <2>4, <2>6
<1>5. CASE Laid(r) /\ r.local.id # None
  <2> DEFINE id == r.local.id
             text == r.local.text
             list == r.list
  <2>1. Merged(r) = SaveIn(list, id, text) /\ id \in Ids /\ text \in Texts /\ list \in Seq(Listed)
    BY <1>1, <1>2, <1>5 DEF Merged
  <2> HIDE DEF id, text, list
  <2>2. Merged(r) \in Seq(Listed)
    BY <2>1, ListTypes
  <2>3. Without(Merged(r), None) = Merged(r)
    BY <2>2, NamelessIs
  <2>4. Single(list) =>
          /\ Single(Merged(r))
          /\ ToSet(Merged(r)) = {[id |-> id, text |-> text]} \cup {d \in ToSet(list) : d.id # id}
    BY <2>1, SaveInIs
  <2>5. PICK e \in Listed : e = [id |-> id, text |-> text]
    BY <2>1 DEF Listed
  <2>6. Merged(r) # <<>> /\ Head(Merged(r)) = e
    <3>1. Without(list, id) \in Seq(Listed)
      BY <2>1, ListTypes
    <3>2. Merged(r) = <<e>> \o Without(list, id)
      BY <2>1, <2>5 DEF SaveIn
    <3> QED
      BY <3>1, <3>2
  <2>7. e # None /\ e.id \in Ids /\ e.text \in Texts
    BY NoneAssumption DEF Listed
  <2> QED
    BY <1>2, <1>5, <2>2, <2>3, <2>4, <2>5, <2>6, <2>7 DEF First, id, text, list
<1> QED
  BY <1>3, <1>4, <1>5

\* What Loaded makes of r.
Opened(r, resume) ==
  LET first == First(r, resume)
      s == [r EXCEPT !.phase = "open", !.list = Without(Merged(r), None), !.current = IdOf(first)]
      sent == IF Laid(r) /\ first # None THEN Flush([s EXCEPT !.pending = first.text]) ELSE s
      text == IF first = None THEN r.field ELSE first.text
  IN  IF text = None THEN sent ELSE Written(sent, text)

LEMMA OpenedIs ==
  ASSUME NEW r \in Composers, NEW resume \in BOOLEAN
  PROVE  LET first == First(r, resume)
             s == Opened(r, resume) IN
         /\ s \in Composers
         /\ s.phase = "open" /\ s.local = r.local /\ s.list = Without(Merged(r), None)
         /\ s.sent = r.sent /\ s.call = r.call /\ s.current = IdOf(first)
         /\ s.field = IF first = None THEN r.field ELSE first.text
         /\ Laid(r) /\ first # None => s.chain = Append(r.chain, Saving(first.text))
         /\ ~(Laid(r) /\ first # None) => s.chain = r.chain
         /\ s.field # None => /\ s.work = s.field.work /\ s.pending = s.field
                              /\ s.localDue /\ s.serverDue /\ ~s.emptyDue
         /\ s.field = None => /\ s.work = r.work /\ s.pending = r.pending /\ s.localDue = r.localDue
                              /\ s.serverDue = r.serverDue /\ s.emptyDue = r.emptyDue
<1> DEFINE first == First(r, resume)
           list == Without(Merged(r), None)
           t == [r EXCEPT !.phase = "open", !.list = list, !.current = IdOf(first)]
           u == [t EXCEPT !.pending = first.text]
           f == Flush(u)
           sent == IF Laid(r) /\ first # None THEN f ELSE t
           text == IF first = None THEN r.field ELSE first.text
           s == Opened(r, resume)
<1>1. /\ list \in Seq(Listed) /\ IdOf(first) \in Ids \cup {None} /\ text \in Texts \cup {None}
      /\ first # None => first.text \in Texts /\ text # None /\ text = first.text
  <2>1. first # None => first.id \in Ids \cup {None} /\ first.text \in Texts
    BY MergedIs
  <2>2. list \in Seq(Listed)
    BY MergedIs
  <2>3. r.field \in Texts \cup {None}
    BY DEF Composers
  <2> HIDE DEF first, list
  <2> QED
    BY <2>1, <2>2, <2>3, NoneAssumption DEF IdOf
<1>2. s = IF text = None THEN sent ELSE Written(sent, text)
  BY DEF Opened
<1>3. s.field = text => s.field = IF first = None THEN r.field ELSE first.text
  OBVIOUS
<1> HIDE DEF first, list, s
<1>4. /\ t \in Composers /\ t.phase = "open" /\ t.local = r.local /\ t.list = list
      /\ t.field = r.field /\ t.work = r.work /\ t.current = IdOf(first) /\ t.pending = r.pending
      /\ t.sent = r.sent /\ t.chain = r.chain /\ t.call = r.call
      /\ t.localDue = r.localDue /\ t.serverDue = r.serverDue /\ t.emptyDue = r.emptyDue
  BY <1>1 DEF Composers
<1> HIDE DEF t
<1>5. ASSUME first # None
      PROVE  /\ f \in Composers /\ f.phase = "open" /\ f.local = r.local /\ f.list = list
             /\ f.field = r.field /\ f.current = IdOf(first)
             /\ f.sent = r.sent /\ f.chain = Append(r.chain, Saving(first.text)) /\ f.call = r.call
  <2>1. /\ u \in Composers /\ u.phase = t.phase /\ u.local = t.local /\ u.list = t.list
        /\ u.field = t.field /\ u.current = t.current /\ u.pending = first.text
        /\ u.sent = t.sent /\ u.chain = t.chain /\ u.call = t.call
    <3>1. t \in Composers /\ first.text \in Texts
      BY <1>1, <1>4, <1>5
    <3> QED
      BY ZenonT(40), <3>1 DEF Composers
  <2>2. u.pending # None
    BY <1>1, <1>5, <2>1
  <2> HIDE DEF u
  <2> QED
    BY <1>4, <2>1, <2>2, FlushIs
<1> HIDE DEF u, f
<1>6. /\ sent \in Composers /\ sent.phase = "open" /\ sent.local = r.local /\ sent.list = list
      /\ sent.current = IdOf(first) /\ sent.sent = r.sent /\ sent.call = r.call
      /\ Laid(r) /\ first # None => sent.chain = Append(r.chain, Saving(first.text))
      /\ ~(Laid(r) /\ first # None) => sent.chain = r.chain
      /\ first = None => sent = t
  BY <1>4, <1>5
<1> HIDE DEF sent
<1>7. CASE text = None
  <2>1. first = None /\ s = sent /\ sent = t /\ text = r.field
    BY <1>1, <1>2, <1>6, <1>7
  <2> QED
    BY <1>3, <1>4, <1>6, <1>7, <2>1 DEF s, first, list
<1>8. CASE text # None
  <2>1. s = Written(sent, text) /\ text \in Texts \cup {None}
    BY <1>1, <1>2, <1>8
  <2> HIDE DEF text
  <2>2. /\ s \in Composers /\ s.phase = sent.phase /\ s.local = sent.local /\ s.list = sent.list
        /\ s.field = text /\ s.current = sent.current /\ s.sent = sent.sent /\ s.chain = sent.chain
        /\ s.call = sent.call /\ s.work = text.work /\ s.pending = text
        /\ s.localDue /\ s.serverDue /\ ~s.emptyDue
    BY <1>6, <1>8, <2>1, WrittenIs
  <2> QED
    BY <1>3, <1>6, <1>8, <2>2 DEF s, first, list
<1> QED
  BY <1>7, <1>8

(* The chain of saves. *)

\* The first of the chain is a save, and is sent.
Called(r) == [r EXCEPT !.call = [id |-> r.current, text |-> Head(r.chain).text,
                                 forgotten |-> FALSE, at |-> "sent"]]

\* The first of the chain is done with.
Done(r) == [r EXCEPT !.call = None, !.chain = Tail(@)]

\* The answer to a save that was not forgotten.
Put(r) == [Done(r) EXCEPT !.sent = r.call.text, !.current = r.call.id,
                          !.list = SaveIn(@, r.call.id, r.call.text)]

LEMMA CalledIs ==
  ASSUME NEW r \in Composers, r.chain # <<>>, Head(r.chain).do = "save"
  PROVE  LET s == Called(r) IN
         /\ s \in Composers /\ s.call # None
         /\ s.call.id = r.current /\ s.call.text = r.chain[1].text /\ s.call.forgotten = FALSE
         /\ s.call.at = "sent" /\ 1 \in Saves(r)
         /\ s.phase = r.phase /\ s.local = r.local /\ s.list = r.list
         /\ s.field = r.field /\ s.work = r.work /\ s.current = r.current
         /\ s.pending = r.pending /\ s.sent = r.sent /\ s.chain = r.chain
         /\ s.localDue = r.localDue /\ s.serverDue = r.serverDue /\ s.emptyDue = r.emptyDue
<1> DEFINE c == [id |-> r.current, text |-> Head(r.chain).text, forgotten |-> FALSE, at |-> "sent"]
<1>1. 1 \in DOMAIN r.chain /\ Head(r.chain) = r.chain[1] /\ r.chain \in Seq(Chained)
  BY DEF Composers
<1>2. Head(r.chain).text \in Texts /\ r.current \in Ids \cup {None}
  BY <1>1, ChainParts DEF Composers
<1>3. /\ c \in Calls /\ c.id = r.current /\ c.text = r.chain[1].text /\ c.forgotten = FALSE
      /\ c.at = "sent"
  BY <1>1, <1>2 DEF Calls
<1>4. c # None /\ Called(r) = [r EXCEPT !.call = c]
  BY <1>3, CallsAre DEF Called
<1>5. 1 \in Saves(r)
  BY <1>1 DEF Saves
<1> HIDE DEF c
<1> QED
  BY <1>3, <1>4, <1>5 DEF Composers

LEMMA DoneIs ==
  ASSUME NEW r \in Composers, r.chain # <<>>
  PROVE  LET s == Done(r) IN
         /\ s \in Composers /\ s.call = None /\ s.chain = Tail(r.chain)
         /\ s.phase = r.phase /\ s.local = r.local /\ s.list = r.list
         /\ s.field = r.field /\ s.work = r.work /\ s.current = r.current
         /\ s.pending = r.pending /\ s.sent = r.sent
         /\ s.localDue = r.localDue /\ s.serverDue = r.serverDue /\ s.emptyDue = r.emptyDue
<1>1. Tail(r.chain) \in Seq(Chained)
  BY DEF Composers
<1>2. Done(r) = [r EXCEPT !.call = None, !.chain = Tail(r.chain)]
  BY DEF Done
<1> QED
  BY <1>1, <1>2 DEF Composers

LEMMA PutIs ==
  ASSUME NEW r \in Composers, r.chain # <<>>, r.call # None, r.call.at = "saved"
  PROVE  LET s == Put(r) IN
         /\ s \in Composers /\ s.call = None /\ s.chain = Tail(r.chain)
         /\ s.list = SaveIn(r.list, r.call.id, r.call.text)
         /\ r.call.id \in Ids /\ s.current = r.call.id /\ s.sent = r.call.text
         /\ s.phase = r.phase /\ s.local = r.local
         /\ s.field = r.field /\ s.work = r.work /\ s.pending = r.pending
         /\ s.localDue = r.localDue /\ s.serverDue = r.serverDue /\ s.emptyDue = r.emptyDue
<1> DEFINE list == SaveIn(r.list, r.call.id, r.call.text)
           d == Done(r)
<1>1. r.call.id \in Ids /\ r.call.text \in Texts /\ r.list \in Seq(Listed)
  <2>1. r.call \in Calls /\ r.list \in Seq(Listed)
    BY DEF Composers
  <2> QED
    BY <2>1, CallsAre
<1>2. list \in Seq(Listed)
  BY <1>1, ListTypes
<1>3. /\ d \in Composers /\ d.call = None /\ d.chain = Tail(r.chain)
      /\ d.phase = r.phase /\ d.local = r.local /\ d.list = r.list
      /\ d.field = r.field /\ d.work = r.work /\ d.pending = r.pending
      /\ d.localDue = r.localDue /\ d.serverDue = r.serverDue /\ d.emptyDue = r.emptyDue
  BY DoneIs
<1>4. Put(r) = [d EXCEPT !.sent = r.call.text, !.current = r.call.id, !.list = list]
  BY <1>3 DEF Put
<1> DEFINE s == Put(r)
           id == r.call.id
           text == r.call.text
<1>5. d \in Composers /\ id \in Ids /\ text \in Texts
      /\ s = [d EXCEPT !.sent = text, !.current = id, !.list = list]
  BY <1>1, <1>3, <1>4
<1> HIDE DEF d, list, s, id, text
<1>6. /\ s \in Composers /\ s.call = d.call /\ s.chain = d.chain /\ s.list = list
      /\ s.current = id /\ s.sent = text /\ s.phase = d.phase /\ s.local = d.local
      /\ s.field = d.field /\ s.work = d.work /\ s.pending = d.pending
      /\ s.localDue = d.localDue /\ s.serverDue = d.serverDue /\ s.emptyDue = d.emptyDue
  BY <1>2, <1>5 DEF Composers
<1> QED
  BY <1>3, <1>5, <1>6 DEF list, s, id, text

\* The first of the chain is passed over.
Advanced(r) == [r EXCEPT !.chain = Tail(@)]

LEMMA AdvancedIs ==
  ASSUME NEW r \in Composers, r.chain # <<>>
  PROVE  LET s == Advanced(r) IN
         /\ s \in Composers /\ s.chain = Tail(r.chain) /\ s.call = r.call
         /\ s.phase = r.phase /\ s.local = r.local /\ s.list = r.list
         /\ s.field = r.field /\ s.work = r.work /\ s.current = r.current
         /\ s.pending = r.pending /\ s.sent = r.sent
         /\ s.localDue = r.localDue /\ s.serverDue = r.serverDue /\ s.emptyDue = r.emptyDue
<1>1. Tail(r.chain) \in Seq(Chained)
  BY DEF Composers
<1> QED
  BY <1>1 DEF Composers, Advanced

\* What the first of a chain is.
LEMMA HeadIs ==
  ASSUME NEW r \in Composers, r.chain # <<>>
  PROVE  /\ 1 \in DOMAIN r.chain /\ Head(r.chain) = r.chain[1]
         /\ Head(r.chain).do = "save" =>
              1 \in Saves(r) /\ Head(r.chain).text \in Texts /\ Head(r.chain).forgotten \in BOOLEAN
         /\ Head(r.chain).do = "load" => 1 \in Loads(r) /\ Head(r.chain).draft \in Listed \cup {None}
         /\ Head(r.chain).do = "discard" => 1 \in Discards(r) /\ Head(r.chain).id \in Ids
<1>1. 1 \in DOMAIN r.chain /\ Head(r.chain) = r.chain[1] /\ r.chain \in Seq(Chained)
  BY DEF Composers
<1>2. /\ r.chain[1].do = "save" => r.chain[1].text \in Texts /\ r.chain[1].forgotten \in BOOLEAN
      /\ r.chain[1].do = "load" => r.chain[1].draft \in Listed \cup {None}
      /\ r.chain[1].do = "discard" => r.chain[1].id \in Ids
  BY <1>1, ChainParts
<1> QED
  BY <1>1, <1>2 DEF Saves, Loads, Discards

\* What Close makes of r.
Closed(r) == [Flush(r) EXCEPT !.phase = "closed", !.field = None, !.localDue = FALSE,
                              !.serverDue = FALSE, !.emptyDue = FALSE]

LEMMA ClosedIs ==
  ASSUME NEW r \in Composers
  PROVE  LET s == Closed(r) IN
         /\ s \in Composers /\ s.phase = "closed" /\ s.local = r.local /\ s.list = r.list
         /\ s.field = None /\ s.work = r.work /\ s.current = r.current
         /\ s.pending = None /\ s.sent = r.sent /\ s.call = r.call
         /\ ~s.localDue /\ ~s.serverDue /\ ~s.emptyDue
         /\ r.pending = None => s.chain = r.chain
         /\ r.pending # None => s.chain = Append(r.chain, Saving(r.pending))
<1> DEFINE f == Flush(r)
           s == Closed(r)
<1>1. f \in Composers
  BY FlushIs
<1>2. s = [f EXCEPT !.phase = "closed", !.field = None, !.localDue = FALSE,
                    !.serverDue = FALSE, !.emptyDue = FALSE]
  BY DEF Closed
<1>3. /\ f.local = r.local /\ f.list = r.list /\ f.work = r.work /\ f.current = r.current
      /\ f.pending = None /\ f.sent = r.sent /\ f.call = r.call
      /\ r.pending = None => f.chain = r.chain
      /\ r.pending # None => f.chain = Append(r.chain, Saving(r.pending))
  BY FlushIs
<1> HIDE DEF f, s
<1>4. /\ s \in Composers /\ s.phase = "closed" /\ s.local = f.local /\ s.list = f.list
      /\ s.field = None /\ s.work = f.work /\ s.current = f.current
      /\ s.pending = f.pending /\ s.sent = f.sent /\ s.call = f.call /\ s.chain = f.chain
      /\ ~s.localDue /\ ~s.serverDue /\ ~s.emptyDue
  BY <1>1, <1>2 DEF Composers
<1> QED
  BY <1>3, <1>4 DEF s

\* What ServerTimer makes of r.
Flushed(r) == [Flush(r) EXCEPT !.serverDue = FALSE]

LEMMA FlushedIs ==
  ASSUME NEW r \in Composers
  PROVE  LET s == Flushed(r) IN
         /\ s \in Composers /\ s.phase = r.phase /\ s.local = r.local /\ s.list = r.list
         /\ s.field = r.field /\ s.work = r.work /\ s.current = r.current
         /\ s.pending = None /\ s.sent = r.sent /\ s.call = r.call
         /\ s.localDue = r.localDue /\ ~s.serverDue /\ s.emptyDue = r.emptyDue
         /\ r.pending = None => s.chain = r.chain
         /\ r.pending # None => s.chain = Append(r.chain, Saving(r.pending))
<1> DEFINE f == Flush(r)
           s == Flushed(r)
<1>1. f \in Composers
  BY FlushIs
<1>2. s = [f EXCEPT !.serverDue = FALSE]
  BY DEF Flushed
<1>3. /\ f.phase = r.phase /\ f.local = r.local /\ f.list = r.list /\ f.field = r.field
      /\ f.work = r.work /\ f.current = r.current
      /\ f.pending = None /\ f.sent = r.sent /\ f.call = r.call
      /\ f.localDue = r.localDue /\ f.emptyDue = r.emptyDue
      /\ r.pending = None => f.chain = r.chain
      /\ r.pending # None => f.chain = Append(r.chain, Saving(r.pending))
  BY FlushIs
<1> HIDE DEF f, s
<1>4. /\ s \in Composers /\ s.phase = f.phase /\ s.local = f.local /\ s.list = f.list
      /\ s.field = f.field /\ s.work = f.work /\ s.current = f.current
      /\ s.pending = f.pending /\ s.sent = f.sent /\ s.call = f.call /\ s.chain = f.chain
      /\ s.localDue = f.localDue /\ ~s.serverDue /\ s.emptyDue = f.emptyDue
  BY <1>1, <1>2 DEF Composers
<1> QED
  BY <1>3, <1>4 DEF s

\* What Discard makes of r.
Blanked(r) == [Forget(r) EXCEPT !.field = None]

LEMMA BlankedIs ==
  ASSUME NEW r \in Composers
  PROVE  LET s == Blanked(r) IN
         /\ s \in Composers
         /\ s.phase = r.phase /\ s.local = r.local /\ s.field = None /\ s.sent = r.sent
         /\ s.pending = None /\ s.current = None /\ s.work = 0
         /\ s.list = Without(r.list, r.current)
         /\ ~s.localDue /\ ~s.serverDue /\ ~s.emptyDue
         /\ s.call = Forget(r).call /\ s.chain = Forget(r).chain
<1> DEFINE f == Forget(r)
           s == Blanked(r)
<1>1. /\ f \in Composers
      /\ f.phase = r.phase /\ f.local = r.local /\ f.sent = r.sent
      /\ f.pending = None /\ f.current = None /\ f.work = 0
      /\ f.list = Without(r.list, r.current)
      /\ ~f.localDue /\ ~f.serverDue /\ ~f.emptyDue
  BY ForgetIs
<1>2. s = [f EXCEPT !.field = None]
  BY DEF Blanked
<1>3. Forget(r) = f
  OBVIOUS
<1> HIDE DEF f, s
<1>4. /\ s \in Composers /\ s.phase = f.phase /\ s.local = f.local /\ s.list = f.list
      /\ s.field = None /\ s.work = f.work /\ s.current = f.current
      /\ s.pending = f.pending /\ s.sent = f.sent /\ s.call = f.call /\ s.chain = f.chain
      /\ s.localDue = f.localDue /\ s.serverDue = f.serverDue /\ s.emptyDue = f.emptyDue
  BY <1>1, <1>2 DEF Composers
<1> QED
  BY <1>1, <1>3, <1>4 DEF s

\* A device copy, as it is after draft id is saved.
LEMMA OlderIs ==
  ASSUME NEW copy \in Copies \cup {None}, NEW id
  PROVE  /\ Older(copy, id) \in Copies \cup {None}
         /\ Older(copy, id) = None <=> copy = None
         /\ copy # None => /\ Older(copy, id).id = copy.id /\ Older(copy, id).text = copy.text
                           /\ copy.id = id => ~Older(copy, id).newer
                           /\ copy.id # id => Older(copy, id) = copy
                           /\ ~copy.newer => ~Older(copy, id).newer
<1>1. CASE copy # None /\ copy.id = id
  <2>1. Older(copy, id) = [copy EXCEPT !.newer = FALSE]
    BY <1>1 DEF Older
  <2>2. [copy EXCEPT !.newer = FALSE] \in Copies
    BY <1>1 DEF Copies
  <2> QED
    BY <1>1, <2>1, <2>2, NoneAssumption DEF Copies
<1>2. CASE ~(copy # None /\ copy.id = id)
  BY <1>2 DEF Older
<1> QED
  BY <1>1, <1>2

LEMMA CopyIs ==
  ASSUME NEW id \in Ids \cup {None}, NEW text \in Texts, NEW newer \in BOOLEAN
  PROVE  /\ Copy(id, text, newer) \in Copies /\ Copy(id, text, newer) # None
         /\ Copy(id, text, newer).id = id /\ Copy(id, text, newer).text = text
         /\ Copy(id, text, newer).newer = newer
<1>1. Copy(id, text, newer) \in Copies
  BY DEF Copy, Copies
<1> QED
  BY <1>1, NoneAssumption DEF Copy

--------------------------------------------------------------------------------
(* Types, and what they rest on. *)

\* What the device is to have is in the fields; what the server is asked is first in the chain.
Sound(r) ==
  /\ r.localDue => r.field # None
  /\ r.call # None => /\ 1 \in Saves(r)
                      /\ r.chain[1].text = r.call.text /\ r.chain[1].forgotten = r.call.forgotten

AllSound == \A m \in Mounts : Sound(mount[m])

Typed == TypeOK /\ AllSound

LEMMA SavesNonempty == ASSUME NEW r, r.chain \in Seq(Chained), 1 \in Saves(r) PROVE r.chain # <<>>
BY DEF Saves

LEMMA ForgetParts ==
  ASSUME NEW r \in Composers, NEW s \in Composers, s.chain = Forget(r).chain
  PROVE  /\ Saves(s) = Saves(r) /\ Loads(s) = Loads(r) /\ Meant(s) = {}
         /\ \A i \in Saves(r) : s.chain[i].text = r.chain[i].text /\ s.chain[i].forgotten
         /\ \A i \in Loads(r) \cup Discards(r) : s.chain[i] = r.chain[i]
         /\ r.current = None => Discards(s) = Discards(r) /\ (s.chain = <<>> <=> r.chain = <<>>)
         /\ r.current # None =>
              LET n == Len(r.chain) + 1 IN
              /\ n \in Nat \ {0} /\ \A i \in DOMAIN r.chain : i < n
              /\ Discards(s) = Discards(r) \cup {n} /\ s.chain[n].id = r.current /\ s.chain # <<>>
<1>1. r.chain \in Seq(Chained) /\ r.current \in Ids \cup {None}
  BY DEF Composers
<1>2. PICK t \in {[r EXCEPT !.chain = Thrown(r.chain)]} : t.chain = Thrown(r.chain)
  BY DEF Composers
<1>3. /\ t.chain \in Seq(Chained) /\ DOMAIN t.chain = DOMAIN r.chain
      /\ Len(t.chain) = Len(r.chain) /\ (t.chain = <<>> <=> r.chain = <<>>)
      /\ \A i \in DOMAIN r.chain :
           IF r.chain[i].do = "save"
           THEN t.chain[i].do = "save" /\ t.chain[i].text = r.chain[i].text /\ t.chain[i].forgotten
           ELSE t.chain[i] = r.chain[i]
      /\ Saves(t) = Saves(r) /\ Loads(t) = Loads(r) /\ Discards(t) = Discards(r) /\ Meant(t) = {}
  BY <1>1, <1>2, ThrownIs
<1>4. /\ \A i \in Saves(r) : t.chain[i].text = r.chain[i].text /\ t.chain[i].forgotten
      /\ \A i \in Loads(r) \cup Discards(r) : t.chain[i] = r.chain[i]
  BY <1>3 DEF Saves, Loads, Discards
<1>5. CASE r.current = None
  <2>1. s.chain = t.chain
    BY <1>2, <1>5, ForgetIs
  <2>2. Saves(s) = Saves(t) /\ Loads(s) = Loads(t) /\ Discards(s) = Discards(t) /\ Meant(s) = Meant(t)
    BY <2>1 DEF Saves, Loads, Discards, Meant
  <2> QED
    BY <1>3, <1>4, <1>5, <2>1, <2>2
<1>6. CASE r.current # None
  <2>1. PICK e \in Chained : e = Discarding(r.current) /\ e.do = "discard" /\ e.id = r.current
    BY <1>1, <1>6, ChainedAre
  <2>2. s.chain = Append(t.chain, e)
    BY <1>2, <1>6, <2>1, ForgetIs
  <2>3. t.chain \in Seq(Chained)
    BY <1>3
  <2>4. LET n == Len(t.chain) + 1 IN
        /\ s.chain # <<>> /\ n \in Nat \ {0} /\ s.chain[n] = e
        /\ \A i \in DOMAIN t.chain : i \in Nat \ {0} /\ i < n /\ s.chain[i] = t.chain[i]
        /\ Saves(s) = Saves(t) \cup (IF e.do = "save" THEN {n} ELSE {})
        /\ Loads(s) = Loads(t) \cup (IF e.do = "load" THEN {n} ELSE {})
        /\ Discards(s) = Discards(t) \cup (IF e.do = "discard" THEN {n} ELSE {})
        /\ Meant(s) = Meant(t) \cup (IF e.do = "save" /\ ~e.forgotten THEN {n} ELSE {})
    BY <2>3, <2>2, Appended
  <2>5. /\ Saves(s) = Saves(t) /\ Loads(s) = Loads(t) /\ Meant(s) = Meant(t)
        /\ Discards(s) = Discards(t) \cup {Len(t.chain) + 1}
    BY <2>1, <2>4
  <2>6. \A i \in Saves(r) \cup Loads(r) \cup Discards(r) : i \in DOMAIN t.chain
    BY <1>3 DEF Saves, Loads, Discards
  <2> QED
    BY <1>3, <1>4, <1>6, <2>1, <2>4, <2>5, <2>6
<1> QED
  BY <1>5, <1>6

\* A chain that something joined: what was in it stays where it was.
LEMMA Joined ==
  ASSUME NEW r \in Composers, NEW s \in Composers, NEW e \in Chained, s.chain = Append(r.chain, e)
  PROVE  LET n == Len(r.chain) + 1 IN
         /\ s.chain # <<>> /\ n \in Nat \ {0} /\ s.chain[n] = e /\ n \in DOMAIN s.chain
         /\ \A i \in DOMAIN r.chain : i \in Nat \ {0} /\ i < n /\ s.chain[i] = r.chain[i]
         /\ \A i \in Saves(r) \cup Loads(r) \cup Discards(r) : i \in Nat \ {0} /\ i < n /\ s.chain[i] = r.chain[i]
         /\ e.do = "save" => /\ Saves(s) = Saves(r) \cup {n} /\ Loads(s) = Loads(r)
                             /\ Discards(s) = Discards(r)
                             /\ ~e.forgotten => Meant(s) = Meant(r) \cup {n}
         /\ e.do = "load" => /\ Saves(s) = Saves(r) /\ Loads(s) = Loads(r) \cup {n}
                             /\ Discards(s) = Discards(r) /\ Meant(s) = Meant(r)
<1>1. r.chain \in Seq(Chained)
  BY DEF Composers
<1>2. LET n == Len(r.chain) + 1 IN
      /\ s.chain # <<>> /\ n \in Nat \ {0} /\ s.chain[n] = e /\ n \in DOMAIN s.chain
      /\ \A i \in DOMAIN r.chain : i \in Nat \ {0} /\ i < n /\ s.chain[i] = r.chain[i]
      /\ Saves(s) = Saves(r) \cup (IF e.do = "save" THEN {n} ELSE {})
      /\ Loads(s) = Loads(r) \cup (IF e.do = "load" THEN {n} ELSE {})
      /\ Discards(s) = Discards(r) \cup (IF e.do = "discard" THEN {n} ELSE {})
      /\ Meant(s) = Meant(r) \cup (IF e.do = "save" /\ ~e.forgotten THEN {n} ELSE {})
  BY SMTT(30), <1>1, Appended
<1>3. \A i \in Saves(r) \cup Loads(r) \cup Discards(r) : i \in DOMAIN r.chain
  BY DEF Saves, Loads, Discards
<1>4. e.do = "save" => e.do # "load" /\ e.do # "discard"
  OBVIOUS
<1>5. e.do = "load" => e.do # "save" /\ e.do # "discard"
  OBVIOUS
<1> QED
  BY <1>2, <1>3, <1>4, <1>5

LEMMA SoundJoined ==
  ASSUME NEW r \in Composers, NEW s \in Composers, Sound(r), s.call = r.call,
         s.localDue => s.field # None,
         s.chain = r.chain \/ \E e \in Chained : s.chain = Append(r.chain, e)
  PROVE  Sound(s)
<1>1. CASE s.chain = r.chain
  BY <1>1 DEF Sound, Saves
<1>2. CASE \E e \in Chained : s.chain = Append(r.chain, e)
  <2>1. PICK e \in Chained : s.chain = Append(r.chain, e)
    BY <1>2
  <2>2. /\ \A i \in DOMAIN r.chain : s.chain[i] = r.chain[i]
        /\ Saves(r) \subseteq Saves(s)
    <3>1. r.chain \in Seq(Chained) /\ s.chain \in Seq(Chained)
      BY DEF Composers
    <3>2. \A i \in DOMAIN r.chain : s.chain[i] = r.chain[i] /\ i \in DOMAIN s.chain
      BY <2>1, <3>1
    <3> QED
      BY <3>2 DEF Saves
  <2>3. 1 \in Saves(r) => 1 \in DOMAIN r.chain
    BY DEF Saves
  <2> QED
    BY <2>2, <2>3 DEF Sound
<1> QED
  BY <1>1, <1>2

LEMMA SoundForgotten ==
  ASSUME NEW r \in Composers, NEW s \in Composers, Sound(r), ~s.localDue,
         s.chain = Forget(r).chain, s.call = Forget(r).call
  PROVE  Sound(s)
<1>1. Saves(s) = Saves(r) /\ \A i \in Saves(r) : s.chain[i].text = r.chain[i].text /\ s.chain[i].forgotten
  BY ForgetParts
<1>2. CASE r.call = None
  <2>1. s.call = None
    BY <1>2, ForgetIs
  <2> QED
    BY <2>1 DEF Sound
<1>3. CASE r.call # None
  <2>1. s.call # None /\ s.call.text = r.call.text /\ s.call.forgotten
    BY <1>3, ForgetIs
  <2>2. s.call \in Calls /\ s.chain[1].forgotten
    BY <1>1, <1>3, <2>1 DEF Sound, Composers
  <2>3. s.call.forgotten \in BOOLEAN
    BY <2>2, CallsAre
  <2>4. s.chain[1].forgotten \in BOOLEAN
    <3>1. s.chain \in Seq(Chained) /\ 1 \in DOMAIN s.chain /\ s.chain[1].do = "save"
      BY <1>1, <1>3 DEF Sound, Saves, Composers
    <3> QED
      BY <3>1, ChainParts
  <2>5. s.chain[1].forgotten = s.call.forgotten
    BY <2>1, <2>2, <2>3, <2>4
  <2> QED
    BY <1>1, <1>3, <2>1, <2>5 DEF Sound
<1> QED
  BY <1>2, <1>3

\* Each part of the hook leaves a mount sound.
LEMMA SoundParts ==
  ASSUME NEW r \in Composers, Sound(r)
  PROVE  /\ Sound(Flush(r)) /\ Sound(Flushed(r)) /\ Sound(Closed(r))
         /\ Sound(Forget(r)) /\ Sound(Blanked(r))
         /\ \A text \in Texts \cup {None} : Sound(Written(r, text))
         /\ \A draft \in Listed \cup {None} : Sound(Load(r, draft)) /\ Sound(Queued(r, draft))
         /\ \A resume \in BOOLEAN : Sound(Opened(r, resume))
<1> USE DEF Sound
<1>1. r.pending # None => Saving(r.pending) \in Chained
  BY ChainedAre DEF Composers
<1>2. Sound(Flush(r))
  <2>1. PICK s \in Composers : s = Flush(r)
    BY FlushIs
  <2>2. s.call = r.call /\ (s.localDue => s.field # None)
        /\ (s.chain = r.chain \/ \E e \in Chained : s.chain = Append(r.chain, e))
    BY <1>1, <2>1, FlushIs
  <2> QED
    BY <2>1, <2>2, SoundJoined
<1>3. Sound(Flushed(r))
  <2>1. PICK s \in Composers : s = Flushed(r)
    BY FlushedIs
  <2>2. s.call = r.call /\ (s.localDue => s.field # None)
        /\ (s.chain = r.chain \/ \E e \in Chained : s.chain = Append(r.chain, e))
    BY <1>1, <2>1, FlushedIs
  <2> QED
    BY <2>1, <2>2, SoundJoined
<1>4. Sound(Closed(r))
  <2>1. PICK s \in Composers : s = Closed(r)
    BY ClosedIs
  <2>2. s.call = r.call /\ ~s.localDue
        /\ (s.chain = r.chain \/ \E e \in Chained : s.chain = Append(r.chain, e))
    BY <1>1, <2>1, ClosedIs
  <2> QED
    BY <2>1, <2>2, SoundJoined
<1>5. Sound(Forget(r))
  <2>1. PICK s \in Composers : s = Forget(r)
    BY ForgetIs
  <2>2. ~s.localDue
    BY <2>1, ForgetIs
  <2> QED
    BY <2>1, <2>2, SoundForgotten
<1>6. Sound(Blanked(r))
  <2>1. PICK s \in Composers : s = Blanked(r)
    BY BlankedIs
  <2>2. ~s.localDue /\ s.chain = Forget(r).chain /\ s.call = Forget(r).call
    BY <2>1, BlankedIs
  <2> QED
    BY <2>1, <2>2, SoundForgotten
<1>7. ASSUME NEW text \in Texts \cup {None} PROVE Sound(Written(r, text))
  <2>1. PICK s \in Composers : s = Written(r, text)
    BY WrittenIs
  <2>2. s.call = r.call /\ (s.localDue => s.field # None) /\ s.chain = r.chain
    BY <2>1, WrittenIs
  <2> QED
    BY <2>1, <2>2, SoundJoined
<1>8. ASSUME NEW draft \in Listed \cup {None} PROVE Sound(Load(r, draft)) /\ Sound(Queued(r, draft))
  <2>1. PICK s \in Composers : s = Load(r, draft)
    BY LoadIs, ShutLoadIs
  <2>2. s.call = r.call /\ (s.localDue => s.field # None) /\ s.chain = r.chain
    <3>1. CASE r.phase = "open"
      BY <2>1, <3>1, LoadIs
    <3>2. CASE r.phase # "open"
      BY <2>1, <3>2, ShutLoadIs
    <3> QED
      BY <3>1, <3>2
  <2>3. PICK t \in Composers : t = Queued(r, draft)
    BY QueuedIs
  <2>4. t.call = r.call /\ (t.localDue => t.field # None)
    BY <2>3, QueuedIs
  <2>5. Loading(draft) \in Chained /\ (Waiting(r) # None => Saving(Waiting(r)) \in Chained)
    BY ChainedAre DEF Waiting, Composers
  <2>6. Sound(t)
    <3>1. CASE Waiting(r) = None
      <4>1. t.chain = Append(r.chain, Loading(draft))
        BY <2>3, <3>1, QueuedIs
      <4> QED
        BY <2>4, <2>5, <4>1, SoundJoined
    <3>2. CASE Waiting(r) # None
      <4> DEFINE c == Append(r.chain, Saving(Waiting(r)))
      <4>1. c \in Seq(Chained)
        BY <2>5, <3>2 DEF Composers
      <4>2. t.chain = Append(c, Loading(draft)) /\ \E e \in Chained : c = Append(r.chain, e)
        BY <2>3, <2>5, <3>2, QueuedIs
      <4> HIDE DEF c
      <4>3. PICK u \in Composers : /\ u.chain = c /\ u.call = r.call
                                   /\ u.localDue = r.localDue /\ u.field = r.field
        <5>1. [r EXCEPT !.chain = c] \in Composers
          BY <4>1 DEF Composers
        <5> QED
          BY <5>1 DEF Composers
      <4>4. Sound(u)
        BY <4>2, <4>3, SoundJoined
      <4> QED
        BY <2>4, <2>5, <4>2, <4>3, <4>4, SoundJoined
    <3> QED
      BY <3>1, <3>2
  <2> QED
    BY <2>1, <2>2, <2>3, <2>6, SoundJoined
<1>9. ASSUME NEW resume \in BOOLEAN PROVE Sound(Opened(r, resume))
  <2>1. PICK s \in Composers : s = Opened(r, resume)
    BY OpenedIs
  <2> DEFINE first == First(r, resume)
  <2>2. first # None => Saving(first.text) \in Chained
    <3>1. first # None => first.text \in Texts
      BY MergedIs
    <3> QED
      BY <3>1, ChainedAre
  <2>3. /\ s.call = r.call
        /\ Laid(r) /\ first # None => s.chain = Append(r.chain, Saving(first.text))
        /\ ~(Laid(r) /\ first # None) => s.chain = r.chain
        /\ s.field = None => s.localDue = r.localDue
        /\ s.field = IF first = None THEN r.field ELSE first.text
    BY <2>1, OpenedIs
  <2>4. s.localDue => s.field # None
    <3>1. first # None => first.text \in Texts
      BY MergedIs
    <3> QED
      BY <2>3, <3>1, NoneAssumption
  <2> HIDE DEF first
  <2>5. s.chain = r.chain \/ \E e \in Chained : s.chain = Append(r.chain, e)
    BY <2>2, <2>3
  <2> QED
    BY <2>1, <2>3, <2>4, <2>5, SoundJoined
<1> QED
  BY <1>2, <1>3, <1>4, <1>5, <1>6, <1>7, <1>8, <1>9

\* One mount moves to s, and the rest stay.
LEMMA MountMoves ==
  ASSUME Typed, NEW m \in Mounts, NEW s \in Composers, Becomes(m, s)
  PROVE  /\ mount' \in [Mounts -> Composers]
         /\ mount'[m] = s /\ \A l \in Mounts : l # m => mount'[l] = mount[l]
         /\ Sound(s) => AllSound'
<1>1. mount' = [mount EXCEPT ![m] = s] /\ mount \in [Mounts -> Composers]
  BY DEF Typed, TypeOK, Becomes
<1>2. mount' \in [Mounts -> Composers] /\ mount'[m] = s /\ \A l \in Mounts : l # m => mount'[l] = mount[l]
  BY <1>1
<1>3. \A l \in Mounts : Sound(mount[l])
  BY DEF Typed, AllSound
<1>4. Sound(s) => \A l \in Mounts : Sound(mount'[l])
  BY <1>2, <1>3
<1> QED
  BY <1>2, <1>4 DEF AllSound

\* The parts of TypeOK but for the mounts.
RestOK ==
  /\ drafts \in Seq(Listed) /\ made \in Nat
  /\ device \in Copies \cup {None}
  /\ deleting \subseteq Ids
  /\ typed \in 0..MaxTyped
  /\ wanted \in [1..MaxTyped -> Texts \cup {None}]
  /\ gone \subseteq 1..MaxTyped
  /\ trouble \subseteq Troubles

LEMMA MountTyped ==
  ASSUME Typed, NEW m \in Mounts, NEW s \in Composers, Sound(s), Becomes(m, s), RestOK'
  PROVE  Typed'
BY MountMoves DEF Typed, TypeOK, RestOK

\* Nothing was done with it yet.
Blank(r) ==
  /\ r.field = None /\ r.work = 0 /\ r.current = None /\ r.pending = None /\ r.sent = None
  /\ r.chain = <<>> /\ r.call = None
  /\ ~r.localDue /\ ~r.serverDue /\ ~r.emptyDue

LEMMA EmptyAre == <<>> \in Seq(Chained) /\ <<>> \in Seq(Listed) /\ 0 \in 0..MaxTyped
BY DraftsAssumption

LEMMA UnopenedIs ==
  ASSUME NEW s,
         \/ s = Unopened
         \/ \E local \in Copies \cup {None} : s = [Unopened EXCEPT !.phase = "listing", !.local = local]
         \/ s = [Unopened EXCEPT !.phase = "closed"]
  PROVE  s \in Composers /\ Blank(s) /\ s.list = <<>> /\ Sound(s)
<1>1. <<>> \in Seq(Chained) /\ <<>> \in Seq(Listed) /\ 0 \in 0..MaxTyped
  BY EmptyAre
<1>2. s \in Composers /\ Blank(s) /\ s.list = <<>>
  <2>1. CASE s = Unopened
    BY <1>1, <2>1 DEF Composers, Unopened, Blank
  <2>2. CASE s = [Unopened EXCEPT !.phase = "closed"]
    BY <1>1, <2>2 DEF Composers, Unopened, Blank
  <2>3. ASSUME NEW local \in Copies \cup {None}, s = [Unopened EXCEPT !.phase = "listing", !.local = local]
        PROVE  s \in Composers /\ Blank(s) /\ s.list = <<>>
    BY <1>1, <2>3 DEF Composers, Unopened, Blank
  <2> QED
    BY <2>1, <2>2, <2>3
<1> QED
  BY <1>2 DEF Sound, Blank

LEMMA TypedInit == Init => Typed
<1> SUFFICES ASSUME Init PROVE Typed
  OBVIOUS
<1>1. PICK u \in Composers : u = Unopened /\ Sound(u)
  BY UnopenedIs
<1>2. mount = [m \in Mounts |-> u]
  BY <1>1 DEF Init
<1>3. mount \in [Mounts -> Composers] /\ \A m \in Mounts : Sound(mount[m])
  BY <1>1, <1>2
<1>4. RestOK
  <2>1. typed \in 0..MaxTyped /\ made \in Nat /\ drafts \in Seq(Listed)
    BY DraftsAssumption DEF Init
  <2> QED
    BY <2>1 DEF Init, RestOK
<1> QED
  BY <1>3, <1>4 DEF Typed, TypeOK, RestOK, AllSound

(* What each step makes of its mount. *)

\* Before a step, mount m is r; after it, s.
Turns(m, r, s) == r = mount[m] /\ Sound(r) /\ Becomes(m, s) /\ Sound(s)

\* What typing makes of it before a draft is open.
Scribbled(r, text) == [r EXCEPT !.field = text, !.work = text.work]

LEMMA Record ==
  ASSUME Typed, NEW m \in Mounts
  PROVE  \E r \in Composers : r = mount[m] /\ Sound(r)
<1>1. mount[m] \in Composers /\ Sound(mount[m])
  BY DEF Typed, TypeOK, AllSound
<1> QED
  BY <1>1

LEMMA OpenMoves ==
  ASSUME Typed, NEW m \in Mounts, Open(m)
  PROVE  \E r, s \in Composers :
           /\ Turns(m, r, s) /\ r.phase = "none"
           /\ Blank(s) /\ s.phase = "listing" /\ s.local = device /\ s.list = <<>>
<1>1. PICK local \in Copies \cup {None} : local = device
  BY DEF Typed, TypeOK
<1>2. PICK s \in {[Unopened EXCEPT !.phase = "listing", !.local = local]} :
        s = [Unopened EXCEPT !.phase = "listing", !.local = local]
  OBVIOUS
<1>3. s \in Composers /\ Blank(s) /\ s.list = <<>> /\ Sound(s)
  BY <1>2, UnopenedIs
<1>4. s.phase = "listing" /\ s.local = local
  BY <1>2 DEF Unopened
<1>5. Becomes(m, s) /\ mount[m].phase = "none"
  BY <1>1, <1>2 DEF Open
<1> QED
  BY <1>1, <1>3, <1>4, <1>5, Record DEF Turns

LEMMA ScribbledIs ==
  ASSUME NEW r \in Composers, Sound(r), NEW text \in Texts
  PROVE  LET s == Scribbled(r, text) IN
         /\ s \in Composers /\ Sound(s) /\ s.phase = r.phase /\ s.field = text /\ s.work = text.work
<1> DEFINE s == Scribbled(r, text)
<1>1. text.work \in 0..MaxTyped /\ text # None
  BY NoneAssumption, DraftsAssumption DEF Texts
<1>2. /\ s \in Composers /\ s.phase = r.phase /\ s.field = text /\ s.work = text.work
      /\ s.chain = r.chain /\ s.call = r.call
  BY <1>1 DEF Composers, Scribbled
<1> HIDE DEF s
<1>3. Sound(s)
  BY <1>1, <1>2, SoundJoined
<1> QED
  BY <1>2, <1>3 DEF s

LEMMA TypeMoves ==
  ASSUME Typed, NEW m \in Mounts, Type(m)
  PROVE  \E r, s \in Composers, text \in Texts :
           /\ Turns(m, r, s)
           /\ text.n = typed + 1 /\ text.work = IF r.work = 0 THEN typed + 1 ELSE r.work
           /\ typed' = typed + 1 /\ wanted' = [wanted EXCEPT ![text.work] = text]
           /\ s = IF r.phase = "open" THEN Written(r, text) ELSE Scribbled(r, text)
<1>1. PICK r \in Composers : r = mount[m] /\ Sound(r)
  BY Record
<1>2. typed \in 0..MaxTyped /\ typed < MaxTyped /\ typed' = typed + 1 /\ MaxTyped \in Nat
  BY DraftsAssumption DEF Typed, TypeOK, Type
<1>3. PICK n \in 1..MaxTyped : n = typed + 1 /\ n = typed'
  BY <1>2
<1>4. PICK w \in 1..MaxTyped : w = IF r.work = 0 THEN n ELSE r.work
  BY DEF Composers
<1>5. PICK text \in Texts : text = [work |-> w, n |-> n] /\ text.work = w /\ text.n = n
  <2>1. [work |-> w, n |-> n] \in Texts
    BY DEF Texts
  <2> QED
    BY <2>1
<1>6. PICK s \in Composers : s = (IF r.phase = "open" THEN Written(r, text) ELSE Scribbled(r, text)) /\ Sound(s)
  BY <1>1, WrittenIs, ScribbledIs, SoundParts
<1>7. Becomes(m, s) /\ wanted' = [wanted EXCEPT ![w] = text]
  BY <1>1, <1>3, <1>4, <1>5, <1>6 DEF Type, Scribbled
<1> QED
  BY <1>1, <1>3, <1>4, <1>5, <1>6, <1>7 DEF Turns

LEMMA EmptyMoves ==
  ASSUME Typed, NEW m \in Mounts, Empty(m)
  PROVE  \E r, s \in Composers : Turns(m, r, s) /\ s = Written(r, None) /\ r.field # None
<1>1. PICK r \in Composers : r = mount[m] /\ Sound(r)
  BY Record
<1>2. PICK s \in Composers : s = Written(r, None) /\ Sound(s)
  BY <1>1, WrittenIs, SoundParts
<1>3. Becomes(m, s) /\ r.field # None
  BY <1>1, <1>2 DEF Empty
<1> QED
  BY <1>1, <1>2, <1>3 DEF Turns

LEMMA StartNewMoves ==
  ASSUME Typed, NEW m \in Mounts, StartNew(m)
  PROVE  \E r, s \in Composers : Turns(m, r, s) /\ s = Queued(r, None) /\ r.phase = "open"
<1>1. PICK r \in Composers : r = mount[m] /\ Sound(r)
  BY Record
<1>2. PICK s \in Composers : s = Queued(r, None) /\ Sound(s)
  BY <1>1, QueuedIs, SoundParts
<1>3. Becomes(m, s) /\ r.phase = "open"
  BY <1>1, <1>2 DEF StartNew, Queued, Loading
<1> QED
  BY <1>1, <1>2, <1>3 DEF Turns

LEMMA DiscardMoves ==
  ASSUME Typed, NEW m \in Mounts, Discard(m)
  PROVE  \E r, s \in Composers : Turns(m, r, s) /\ s = Blanked(r) /\ r.field # None
<1>1. PICK r \in Composers : r = mount[m] /\ Sound(r)
  BY Record
<1>2. PICK s \in Composers : s = Blanked(r) /\ Sound(s)
  BY <1>1, BlankedIs, SoundParts
<1>3. Becomes(m, s) /\ r.field # None
  BY <1>1, <1>2 DEF Discard, Blanked
<1> QED
  BY <1>1, <1>2, <1>3 DEF Turns

LEMMA CloseMoves ==
  ASSUME Typed, NEW m \in Mounts, Close(m)
  PROVE  \E r, s \in Composers : Turns(m, r, s) /\ s = Closed(r)
                               /\ r.phase \in {"listing", "listed", "open"}
<1>1. PICK r \in Composers : r = mount[m] /\ Sound(r)
  BY Record
<1>2. PICK s \in Composers : s = Closed(r) /\ Sound(s)
  BY <1>1, ClosedIs, SoundParts
<1>3. Becomes(m, s) /\ r.phase \in {"listing", "listed", "open"}
  BY <1>1, <1>2 DEF Close, Closed, Here
<1> QED
  BY <1>1, <1>2, <1>3 DEF Turns

LEMMA ServerTimerMoves ==
  ASSUME Typed, NEW m \in Mounts, ServerTimer(m)
  PROVE  \E r, s \in Composers : Turns(m, r, s) /\ s = Flushed(r) /\ r.serverDue /\ ~r.localDue
<1>1. PICK r \in Composers : r = mount[m] /\ Sound(r)
  BY Record
<1>2. PICK s \in Composers : s = Flushed(r) /\ Sound(s)
  BY <1>1, FlushedIs, SoundParts
<1>3. Becomes(m, s) /\ r.serverDue /\ ~r.localDue
  BY <1>1, <1>2 DEF ServerTimer, Flushed
<1> QED
  BY <1>1, <1>2, <1>3 DEF Turns

LEMMA EmptyTimerMoves ==
  ASSUME Typed, NEW m \in Mounts, EmptyTimer(m)
  PROVE  \E r, s \in Composers : Turns(m, r, s) /\ s = Forget(r) /\ r.emptyDue
<1>1. PICK r \in Composers : r = mount[m] /\ Sound(r)
  BY Record
<1>2. PICK s \in Composers : s = Forget(r) /\ Sound(s)
  BY <1>1, ForgetIs, SoundParts
<1>3. Becomes(m, s) /\ r.emptyDue
  BY <1>1, <1>2 DEF EmptyTimer
<1> QED
  BY <1>1, <1>2, <1>3 DEF Turns

LEMMA SwitchToMoves ==
  ASSUME Typed, NEW m \in Mounts, NEW d \in ToSet(mount[m].list), SwitchTo(m, d)
  PROVE  /\ d \in Listed
         /\ \E r, s \in Composers : /\ Turns(m, r, s) /\ s = Queued(r, d) /\ r.phase = "open"
                                   /\ d \in ToSet(r.list) /\ d.id # r.current
<1>1. PICK r \in Composers : r = mount[m] /\ Sound(r)
  BY Record
<1>2. d \in Listed
  <2>1. r.list \in Seq(Listed) /\ d \in ToSet(r.list)
    BY <1>1 DEF Composers
  <2> QED
    BY <2>1 DEF ToSet
<1>3. PICK s \in Composers : s = Queued(r, d) /\ Sound(s)
  BY <1>1, <1>2, QueuedIs, SoundParts
<1>4. Becomes(m, s) /\ r.phase = "open" /\ d \in ToSet(r.list) /\ d.id # r.current
  BY <1>1, <1>3 DEF SwitchTo, Queued, Loading
<1> QED
  BY <1>1, <1>2, <1>3, <1>4 DEF Turns

LEMMA LocalTimerMoves ==
  ASSUME Typed, NEW m \in Mounts, LocalTimer(m)
  PROVE  \E r, s \in Composers :
           /\ Turns(m, r, s) /\ s = [r EXCEPT !.localDue = FALSE] /\ r.localDue /\ r.field # None
           /\ device' = Copy(r.current, r.field, TRUE)
<1>1. PICK r \in Composers : r = mount[m] /\ Sound(r)
  BY Record
<1>2. PICK s \in Composers : s = [r EXCEPT !.localDue = FALSE]
  <2>1. [r EXCEPT !.localDue = FALSE] \in Composers
    BY DEF Composers
  <2> QED
    BY <2>1
<1>3. ~s.localDue /\ s.chain = r.chain /\ s.call = r.call
  BY <1>2 DEF Composers
<1>4. Sound(s)
  BY <1>1, <1>3, SoundJoined
<1>5. Becomes(m, s) /\ r.localDue /\ r.field # None /\ device' = Copy(r.current, r.field, TRUE)
  BY <1>1, <1>2 DEF LocalTimer, Sound
<1> QED
  BY <1>1, <1>2, <1>4, <1>5 DEF Turns

LEMMA ListMoves ==
  ASSUME Typed, NEW m \in Mounts, List(m)
  PROVE  \E r, s \in Composers :
           /\ Turns(m, r, s) /\ r.phase = "listing"
           /\ \/ s = [r EXCEPT !.phase = "listed", !.list = drafts] /\ UNCHANGED trouble
              \/ s = [r EXCEPT !.phase = "listed"] /\ Failure("signal")
<1>1. PICK r \in Composers : r = mount[m] /\ Sound(r)
  BY Record
<1>2. PICK list \in Seq(Listed) : list = drafts
  BY DEF Typed, TypeOK
<1> DEFINE a == [r EXCEPT !.phase = "listed", !.list = list]
           b == [r EXCEPT !.phase = "listed"]
<1>3. /\ a \in Composers /\ a.call = r.call /\ a.chain = r.chain /\ a.localDue = r.localDue
      /\ a.field = r.field
      /\ b \in Composers /\ b.call = r.call /\ b.chain = r.chain /\ b.localDue = r.localDue
      /\ b.field = r.field
  BY DEF Composers
<1>4. r.phase = "listing" /\ ((Becomes(m, a) /\ UNCHANGED trouble) \/ (Becomes(m, b) /\ Failure("signal")))
  BY <1>1, <1>2 DEF List
<1>5. Sound(a) /\ Sound(b)
  BY <1>1, <1>3 DEF Sound, Saves
<1> QED
  BY <1>1, <1>2, <1>3, <1>4, <1>5 DEF Turns

LEMMA LoadedMoves ==
  ASSUME Typed, NEW m \in Mounts, Loaded(m)
  PROVE  \E r, s \in Composers, resume \in BOOLEAN :
           Turns(m, r, s) /\ r.phase = "listed" /\ s = Opened(r, resume) /\ resume \in Resuming
<1>1. PICK r \in Composers : r = mount[m] /\ Sound(r)
  BY Record
<1>2. PICK resume \in Resuming : Becomes(m, Opened(r, resume)) /\ r.phase = "listed"
  BY ZenonT(40), <1>1 DEF Loaded, Opened, First, Merged, Laid, IdOf
<1>3. resume \in BOOLEAN
  BY DraftsAssumption
<1>4. Opened(r, resume) \in Composers /\ Sound(Opened(r, resume))
  BY <1>1, <1>3, OpenedIs, SoundParts
<1> QED
  BY <1>1, <1>2, <1>3, <1>4 DEF Turns

LEMMA StartSaveMoves ==
  ASSUME Typed, NEW m \in Mounts, StartSave(m)
  PROVE  \E r, s \in Composers :
           /\ Turns(m, r, s) /\ r.chain # <<>> /\ r.call = None /\ Head(r.chain).do = "save"
           /\ s = IF Head(r.chain).forgotten \/ (Head(r.chain).text = r.sent /\ r.current # None)
                  THEN Advanced(r) ELSE Called(r)
<1>1. PICK r \in Composers : r = mount[m] /\ Sound(r)
  BY Record
<1>2. r.chain # <<>> /\ r.call = None /\ Head(r.chain).do = "save"
  BY <1>1 DEF StartSave, Ready
<1>3. Advanced(r) \in Composers /\ Called(r) \in Composers
  BY <1>2, AdvancedIs, CalledIs
<1>4. Sound(Advanced(r))
  BY <1>1, <1>2, AdvancedIs DEF Sound
<1>5. ASSUME ~Head(r.chain).forgotten PROVE Sound(Called(r))
  <2>1. PICK s \in Composers : s = Called(r)
    BY <1>3
  <2>2. /\ s.call.text = r.chain[1].text /\ s.call.forgotten = FALSE /\ 1 \in Saves(r) /\ s.chain = r.chain
        /\ s.localDue = r.localDue /\ s.field = r.field /\ s.call # None
    BY <1>2, <2>1, CalledIs
  <2>3. r.chain[1].forgotten = FALSE
    BY <1>2, <1>5, HeadIs
  <2>4. Saves(s) = Saves(r) /\ (r.localDue => r.field # None)
    BY <1>1, <2>2 DEF Saves, Sound
  <2>5. Sound(s)
    BY <2>2, <2>3, <2>4 DEF Sound
  <2> QED
    BY <2>1, <2>5
<1>6. PICK s \in Composers :
        s = IF Head(r.chain).forgotten \/ (Head(r.chain).text = r.sent /\ r.current # None)
            THEN Advanced(r) ELSE Called(r)
  BY <1>3
<1>7. Becomes(m, s)
  BY <1>1, <1>6 DEF StartSave, Advanced, Called
<1> QED
  BY <1>1, <1>2, <1>4, <1>5, <1>6, <1>7 DEF Turns

LEMMA StartLoadMoves ==
  ASSUME Typed, NEW m \in Mounts, StartLoad(m)
  PROVE  \E r, s \in Composers, draft \in Listed \cup {None} :
           /\ Turns(m, r, s) /\ r.chain # <<>> /\ r.call = None
           /\ Head(r.chain).do = "load" /\ Head(r.chain).draft = draft
           /\ s = Load(Advanced(r), draft)
<1>1. PICK r \in Composers : r = mount[m] /\ Sound(r)
  BY Record
<1>2. r.chain # <<>> /\ r.call = None /\ Head(r.chain).do = "load"
  BY <1>1 DEF StartLoad, Ready
<1>3. PICK draft \in Listed \cup {None} : Head(r.chain).draft = draft
  BY <1>2, HeadIs
<1>4. PICK a \in Composers : /\ a = Advanced(r) /\ a.phase = r.phase /\ a.call = r.call
                             /\ a.localDue = r.localDue /\ a.field = r.field
  BY <1>2, AdvancedIs
<1>5. Sound(a)
  BY <1>1, <1>2, <1>4 DEF Sound
<1>6. PICK s \in Composers : s = Load(a, draft) /\ Sound(s)
  BY <1>5, LoadIs, ShutLoadIs, SoundParts
<1>7. Becomes(m, s)
  <2>1. Becomes(m, Load(a, Head(r.chain).draft))
    BY <1>1, <1>4 DEF StartLoad, Advanced
  <2> QED
    BY <1>3, <1>6, <2>1
<1> QED
  BY <1>1, <1>2, <1>3, <1>4, <1>6, <1>7 DEF Turns

LEMMA StartDiscardMoves ==
  ASSUME Typed, NEW m \in Mounts, StartDiscard(m)
  PROVE  \E r, s \in Composers, id \in Ids :
           /\ Turns(m, r, s) /\ r.chain # <<>> /\ r.call = None
           /\ Head(r.chain).do = "discard" /\ Head(r.chain).id = id
           /\ s = Advanced(r) /\ deleting' = deleting \cup {id}
<1>1. PICK r \in Composers : r = mount[m] /\ Sound(r)
  BY Record
<1>2. r.chain # <<>> /\ r.call = None /\ Head(r.chain).do = "discard"
  BY <1>1 DEF StartDiscard, Ready
<1>3. PICK id \in Ids : Head(r.chain).id = id
  BY <1>2, HeadIs
<1>4. PICK s \in Composers : /\ s = Advanced(r) /\ s.phase = r.phase /\ s.call = r.call
                             /\ s.localDue = r.localDue /\ s.field = r.field
  BY <1>2, AdvancedIs
<1>5. Sound(s)
  BY <1>1, <1>2, <1>4 DEF Sound
<1>6. Becomes(m, s) /\ deleting' = deleting \cup {id}
  BY <1>1, <1>3, <1>4 DEF StartDiscard, Advanced
<1> QED
  BY <1>1, <1>2, <1>3, <1>4, <1>5, <1>6 DEF Turns

LEMMA FailMoves ==
  ASSUME Typed, NEW m \in Mounts, Fail(m)
  PROVE  \E r, s \in Composers, c \in Calls :
           /\ Turns(m, r, s) /\ r.call # None /\ s = [r EXCEPT !.call = c]
           /\ c.id = r.call.id /\ c.text = r.call.text /\ c.at = "failed"
           /\ c.forgotten = r.call.forgotten
<1>1. PICK r \in Composers : r = mount[m] /\ Sound(r)
  BY Record
<1>2. PICK old \in Calls : old = r.call /\ old # None
  BY <1>1 DEF Fail, Composers
<1>3. PICK c \in Calls : /\ c = [old EXCEPT !.at = "failed"]
                         /\ c.id = old.id /\ c.text = old.text /\ c.at = "failed"
                         /\ c.forgotten = old.forgotten
  <2> DEFINE d == [old EXCEPT !.at = "failed"]
  <2>1. d \in Calls /\ d.id = old.id /\ d.text = old.text /\ d.at = "failed" /\ d.forgotten = old.forgotten
    BY CallsAre
  <2> QED
    BY <2>1
<1>4. PICK s \in Composers : s = [r EXCEPT !.call = c]
  <2>1. [r EXCEPT !.call = c] \in Composers
    BY DEF Composers
  <2> QED
    BY <2>1
<1>5. s.call = c /\ s.chain = r.chain /\ s.localDue = r.localDue /\ s.field = r.field
  BY <1>4 DEF Composers
<1>6. Sound(s)
  BY <1>1, <1>2, <1>3, <1>5 DEF Sound, Saves
<1>7. s = [r EXCEPT !.call.at = "failed"]
  BY <1>2, <1>3, <1>4
<1>8. Becomes(m, s)
  BY <1>1, <1>7 DEF Fail
<1>9. Turns(m, r, s)
  BY <1>1, <1>6, <1>8 DEF Turns
<1> QED
  BY <1>2, <1>3, <1>4, <1>9

LEMMA SavedMoves ==
  ASSUME Typed, NEW m \in Mounts, Saved(m)
  PROVE  \E r, s \in Composers :
           /\ Turns(m, r, s) /\ r.call # None /\ r.call.at = "saved" /\ r.chain # <<>>
           /\ \/ /\ r.call.forgotten /\ s = Done(r)
                 /\ deleting' = deleting \cup {r.call.id} /\ UNCHANGED device
              \/ /\ ~r.call.forgotten /\ s = Put(r) /\ UNCHANGED deleting
                 /\ device' = IF device # None /\ device.text = r.call.text
                              THEN Copy(r.call.id, r.call.text, FALSE) ELSE device
<1>1. PICK r \in Composers : r = mount[m] /\ Sound(r)
  BY Record
<1>2. r.call # None /\ r.call.at = "saved"
  BY <1>1 DEF Saved, SavedAs
<1>3. r.chain # <<>>
  BY <1>1, <1>2 DEF Sound, Saves, Composers
<1>4. Done(r) \in Composers /\ Sound(Done(r))
  BY <1>1, <1>3, DoneIs DEF Sound
<1>5. Put(r) \in Composers /\ Sound(Put(r))
  BY <1>1, <1>2, <1>3, PutIs DEF Sound
<1>6. \/ /\ r.call.forgotten /\ Becomes(m, Done(r))
         /\ deleting' = deleting \cup {r.call.id} /\ UNCHANGED device
      \/ /\ ~r.call.forgotten /\ Becomes(m, Put(r)) /\ UNCHANGED deleting
         /\ device' = IF device # None /\ device.text = r.call.text
                      THEN Copy(r.call.id, r.call.text, FALSE) ELSE device
  BY <1>1 DEF Saved, SavedAs, Done, Put
<1> QED
  BY <1>1, <1>2, <1>3, <1>4, <1>5, <1>6 DEF Turns

LEMMA FailedMoves ==
  ASSUME Typed, NEW m \in Mounts, Failed(m)
  PROVE  \E r, s \in Composers :
           Turns(m, r, s) /\ r.call # None /\ r.call.at = "failed" /\ r.chain # <<>> /\ s = Done(r)
<1>1. PICK r \in Composers : r = mount[m] /\ Sound(r)
  BY Record
<1>2. r.call # None /\ r.call.at = "failed"
  BY <1>1 DEF Failed
<1>3. r.chain # <<>>
  BY <1>1, <1>2 DEF Sound, Saves, Composers
<1>4. Done(r) \in Composers /\ Sound(Done(r))
  BY <1>1, <1>3, DoneIs DEF Sound
<1>5. Becomes(m, Done(r))
  BY <1>1 DEF Failed, Done
<1> QED
  BY <1>1, <1>2, <1>3, <1>4, <1>5 DEF Turns

\* All but the device copy that was read, and the call.
Same(s, r) ==
  /\ s.phase = r.phase /\ s.list = r.list /\ s.field = r.field /\ s.work = r.work
  /\ s.current = r.current /\ s.pending = r.pending /\ s.sent = r.sent /\ s.chain = r.chain
  /\ s.localDue = r.localDue /\ s.serverDue = r.serverDue /\ s.emptyDue = r.emptyDue

\* The server has a draft id.
Stored(id) == \E i \in DOMAIN drafts : drafts[i].id = id

\* What the answer to a call makes of it.
Answered(c, id, found) == [c EXCEPT !.at = IF found THEN "saved" ELSE "failed", !.id = id]

LEMMA AnsweredIs ==
  ASSUME NEW c \in Calls, NEW id \in Ids, NEW found \in BOOLEAN
  PROVE  LET d == Answered(c, id, found) IN
         /\ d \in Calls /\ d # None /\ d.id = id /\ d.text = c.text /\ d.forgotten = c.forgotten
         /\ found => d.at = "saved"
         /\ ~found => d.at = "failed"
<1> DEFINE d == Answered(c, id, found)
           at == IF found THEN "saved" ELSE "failed"
           e == [c EXCEPT !.at = at, !.id = id]
<1>1. at \in {"sent", "saved", "failed"} /\ (found => at = "saved") /\ (~found => at = "failed")
  OBVIOUS
<1>2. d = e
  BY DEF Answered
<1> HIDE DEF at, d
<1>3. e \in Calls /\ e.id = id /\ e.text = c.text /\ e.at = at /\ e.forgotten = c.forgotten
  BY <1>1 DEF Calls
<1> HIDE DEF e
<1>4. e # None
  BY <1>3, CallsAre
<1> QED
  BY <1>1, <1>2, <1>3, <1>4 DEF d

LEMMA SaveMoves ==
  ASSUME Typed, NEW m \in Mounts, Save(m)
  PROVE  \E c \in Calls, id \in Ids, found \in BOOLEAN :
           /\ mount[m].call = c /\ c.at = "sent"
           /\ c.id = None => id = made + 1 /\ made' = made + 1 /\ found
           /\ c.id # None => id = c.id /\ made' = made /\ (found <=> Stored(id))
           /\ drafts' = IF found THEN SaveIn(drafts, id, c.text) ELSE drafts
           /\ device' = IF found THEN Older(device, id) ELSE device
           /\ mount' \in [Mounts -> Composers] /\ AllSound'
           /\ \A l \in Mounts :
                /\ Same(mount'[l], mount[l])
                /\ mount'[l].call = IF l = m THEN Answered(c, id, found) ELSE mount[l].call
                /\ mount'[l].local = IF found /\ mount[l].phase = "listing"
                                     THEN Older(mount[l].local, id) ELSE mount[l].local
<1>1. PICK c \in Calls : mount[m].call = c /\ c.at = "sent"
  BY DEF Save, Typed, TypeOK, Composers
<1>2. c # None /\ c.id \in Ids \cup {None}
  BY CallsAre
<1>3. PICK n \in Ids : n = made + 1
  BY DEF Typed, TypeOK, Ids
<1>4. PICK id \in Ids : id = IF c.id = None THEN n ELSE c.id
  BY <1>2
<1>5. PICK found \in BOOLEAN : found = (c.id # None => \E i \in DOMAIN drafts : drafts[i].id = c.id)
  OBVIOUS
<1>6. /\ made' = IF c.id = None THEN made + 1 ELSE made
      /\ drafts' = IF found THEN SaveIn(drafts, id, c.text) ELSE drafts
      /\ device' = IF found THEN Older(device, id) ELSE device
      /\ mount' = [l \in Mounts |->
              [mount[l] EXCEPT
                 !.local = IF found /\ mount[l].phase = "listing" THEN Older(@, id) ELSE @,
                 !.call = IF l # m THEN @ ELSE [@ EXCEPT !.at = IF found THEN "saved" ELSE "failed",
                                                         !.id = id]]]
  BY <1>1, <1>3, <1>4, <1>5 DEF Save
<1>7. ASSUME NEW l \in Mounts
      PROVE  /\ mount'[l] \in Composers /\ Sound(mount'[l])
             /\ Same(mount'[l], mount[l])
             /\ mount'[l].call = IF l = m THEN Answered(c, id, found) ELSE mount[l].call
             /\ mount'[l].local = IF found /\ mount[l].phase = "listing"
                                  THEN Older(mount[l].local, id) ELSE mount[l].local
  <2>1. PICK r \in Composers : r = mount[l] /\ Sound(r)
    BY Record
  <2>2. PICK local \in Copies \cup {None} : local = IF found /\ r.phase = "listing" THEN Older(r.local, id) ELSE r.local
    <3>1. r.local \in Copies \cup {None}
      BY DEF Composers
    <3>2. Older(r.local, id) \in Copies \cup {None}
      BY <3>1, OlderIs
    <3> QED
      BY <3>1, <3>2
  <2>3. PICK call \in Calls \cup {None} : call = IF l = m THEN Answered(c, id, found) ELSE r.call
    BY AnsweredIs DEF Composers
  <2>4. PICK s \in Composers : s = [r EXCEPT !.local = local, !.call = call]
    <3>1. [r EXCEPT !.local = local, !.call = call] \in Composers
      BY DEF Composers
    <3> QED
      BY <3>1
  <2>5. /\ s.phase = r.phase /\ s.list = r.list /\ s.field = r.field /\ s.work = r.work
        /\ s.current = r.current /\ s.pending = r.pending /\ s.sent = r.sent /\ s.chain = r.chain
        /\ s.localDue = r.localDue /\ s.serverDue = r.serverDue /\ s.emptyDue = r.emptyDue
        /\ s.local = local /\ s.call = call
    BY <2>4 DEF Composers
  <2>6. mount'[l] = s
    <3>1. mount'[l] = [r EXCEPT !.local = IF found /\ r.phase = "listing" THEN Older(r.local, id) ELSE r.local,
                                !.call = IF l # m THEN r.call
                                         ELSE [r.call EXCEPT !.at = IF found THEN "saved" ELSE "failed",
                                                             !.id = id]]
      BY <1>6, <2>1
    <3>2. l = m => r.call = c
      BY <1>1, <2>1
    <3>3. call = IF l # m THEN r.call
                 ELSE [r.call EXCEPT !.at = IF found THEN "saved" ELSE "failed", !.id = id]
      BY <2>3, <3>2 DEF Answered
    <3> QED
      BY <2>2, <2>4, <3>1, <3>3
  <2>7. Sound(s)
    <3>1. CASE l = m
      <4>1. r.call = c /\ s.call.text = r.call.text /\ s.call.forgotten = r.call.forgotten
        BY <1>1, <2>1, <2>3, <2>5, <3>1, AnsweredIs
      <4> QED
        BY <1>2, <2>1, <2>5, <4>1 DEF Sound, Saves
    <3>2. CASE l # m
      BY <2>1, <2>3, <2>5, <3>2 DEF Sound, Saves
    <3> QED
      BY <3>1, <3>2
  <2> QED
    BY <2>1, <2>2, <2>3, <2>5, <2>6, <2>7 DEF Same
<1>8. mount' \in [Mounts -> Composers] /\ AllSound'
  BY <1>6, <1>7 DEF AllSound
<1>9. c.id # None => (found <=> Stored(id))
  BY <1>4, <1>5 DEF Stored
<1>10. c.id = None => found
  BY <1>5
<1>11. /\ c.id = None => id = made + 1 /\ made' = made + 1 /\ found
       /\ c.id # None => id = c.id /\ made' = made /\ (found <=> Stored(id))
  BY <1>3, <1>4, <1>6, <1>9, <1>10
<1>12. \A l \in Mounts :
         /\ Same(mount'[l], mount[l])
         /\ mount'[l].call = IF l = m THEN Answered(c, id, found) ELSE mount[l].call
         /\ mount'[l].local = IF found /\ mount[l].phase = "listing"
                              THEN Older(mount[l].local, id) ELSE mount[l].local
  BY <1>7
<1>13. /\ drafts' = IF found THEN SaveIn(drafts, id, c.text) ELSE drafts
       /\ device' = IF found THEN Older(device, id) ELSE device
  BY <1>6
<1> QED
  BY <1>1, <1>8, <1>11, <1>12, <1>13

LEMMA CloseTabMoves ==
  ASSUME Typed, CloseTab
  PROVE  /\ mount' \in [Mounts -> Composers] /\ AllSound'
         /\ device' \in Copies \cup {None}
         /\ \A m \in Mounts : mount'[m] = mount[m] \/ (mount'[m].phase = "closed" /\ Blank(mount'[m]) /\ mount'[m].list = <<>> /\ mount'[m].local = None)
         /\ \A m \in Mounts : mount[m].phase = "none" => mount'[m] = mount[m]
         /\ \/ device' = device
            \/ \E r \in Composers, m \in Mounts :
                 /\ r = mount[m] /\ r.phase \in {"listing", "listed", "open"}
                 /\ r.field # None /\ device' = Copy(r.current, r.field, TRUE)
<1>1. PICK u \in Composers : /\ u = [Unopened EXCEPT !.phase = "closed"] /\ Blank(u) /\ u.list = <<>>
                             /\ u.phase = "closed" /\ u.local = None /\ Sound(u)
  <2>1. PICK u \in {[Unopened EXCEPT !.phase = "closed"]} : u = [Unopened EXCEPT !.phase = "closed"]
    OBVIOUS
  <2>2. u \in Composers /\ Blank(u) /\ u.list = <<>> /\ Sound(u)
    BY <2>1, UnopenedIs
  <2>3. u.phase = "closed" /\ u.local = None
    BY <2>1 DEF Unopened
  <2> QED
    BY <2>1, <2>2, <2>3
<1>2. mount' = [m \in Mounts |-> IF mount[m].phase = "none" THEN mount[m] ELSE u]
  BY <1>1 DEF CloseTab
<1>3. \A m \in Mounts : mount[m] \in Composers /\ Sound(mount[m])
  BY DEF Typed, TypeOK, AllSound
<1>4. PICK m \in Mounts :
        /\ mount[m].phase \in {"listing", "listed", "open"}
        /\ device' = IF mount[m].field = None THEN device
                     ELSE Copy(mount[m].current, mount[m].field, TRUE)
  BY DEF CloseTab
<1>5. PICK r \in Composers : r = mount[m] /\ Sound(r)
  BY Record
<1>6. device' = (IF r.field = None THEN device ELSE Copy(r.current, r.field, TRUE)) /\ r.phase \in {"listing", "listed", "open"}
  BY <1>4, <1>5
<1>7. r.field # None => Copy(r.current, r.field, TRUE) \in Copies
  BY CopyIs DEF Composers
<1>8. device \in Copies \cup {None}
  BY DEF Typed, TypeOK
<1>9. device' \in Copies \cup {None}
  BY <1>6, <1>7, <1>8
<1>10. mount' \in [Mounts -> Composers] /\ AllSound'
  BY <1>1, <1>2, <1>3 DEF AllSound
<1> QED
  BY <1>1, <1>2, <1>5, <1>6, <1>9, <1>10

LEMMA TypedTurn ==
  ASSUME Typed, NEW m \in Mounts, \E r, s \in Composers : Turns(m, r, s), RestOK'
  PROVE  Typed'
BY MountTyped DEF Turns

\* What comes in the way, or fails, is added to what has.
LEMMA TroubleGrows ==
  ASSUME NEW kinds, InTheWay(kinds)
  PROVE  /\ trouble \subseteq trouble' /\ kinds \subseteq trouble'
         /\ trouble \subseteq Troubles /\ kinds \subseteq Troubles => trouble' \subseteq Troubles
BY DEF InTheWay

LEMMA FailureGrows ==
  ASSUME NEW kind, Failure(kind)
  PROVE  /\ trouble \subseteq trouble' /\ trouble' # {}
         /\ trouble \subseteq Troubles => trouble' \subseteq Troubles
<1>1. kind \in Failures /\ InTheWay({kind}) /\ Failures \subseteq Troubles
  BY DEF Failure, Troubles
<1> QED
  BY <1>1, TroubleGrows

\* What the writer does in the way of the hook.
LEMMA WaysAre ==
  ASSUME NEW m
  PROVE  /\ Waits(m) \subseteq Troubles /\ Quick(m) \subseteq Troubles
         /\ Waits(m) \cup Quick(m) \subseteq Troubles
         /\ {} \subseteq Troubles /\ {"early"} \subseteq Troubles
BY DEF Waits, Quick, Troubles

LEMMA TypedStep == Typed /\ [Next]_vars => Typed'
<1> SUFFICES ASSUME Typed, [Next]_vars PROVE Typed'
  OBVIOUS
<1>1. /\ RestOK /\ mount \in [Mounts -> Composers]
      /\ drafts \in Seq(Listed) /\ made \in Nat /\ device \in Copies \cup {None} /\ deleting \subseteq Ids
      /\ typed \in 0..MaxTyped /\ wanted \in [1..MaxTyped -> Texts \cup {None}]
      /\ gone \subseteq 1..MaxTyped /\ trouble \subseteq Troubles
  BY DEF Typed, TypeOK, RestOK
<1> DEFINE Moved(m) == \E r, s \in Composers : Turns(m, r, s)
<1>2. CASE UNCHANGED vars
  BY <1>1, <1>2 DEF Typed, TypeOK, AllSound, vars, server, writer
<1>3. ASSUME NEW m \in Mounts, Open(m) PROVE Typed'
  <2>1. Moved(m)
    BY <1>3, OpenMoves
  <2>2. trouble' \subseteq Troubles
    BY <1>1, <1>3, WaysAre, TroubleGrows DEF Open
  <2>3. RestOK'
    BY <1>1, <1>3, <2>2 DEF RestOK, Open, server, writer
  <2> QED
    BY <2>1, <2>3, TypedTurn
<1>4. ASSUME NEW m \in Mounts, Type(m) PROVE Typed'
  <2>1. Moved(m)
    BY <1>4, TypeMoves
  <2>2. trouble' \subseteq Troubles
    BY <1>1, <1>4, WaysAre, TroubleGrows DEF Type
  <2>3. wanted' \in [1..MaxTyped -> Texts \cup {None}]
    <3>1. PICK r \in Composers, text \in Texts : wanted' = [wanted EXCEPT ![text.work] = text]
      BY <1>4, TypeMoves
    <3> QED
      BY <1>1, <3>1
  <2>4. typed' \in 0..MaxTyped
    BY <1>1, <1>4, DraftsAssumption DEF Type
  <2>5. RestOK'
    BY <1>1, <1>4, <2>2, <2>3, <2>4 DEF RestOK, Type, server
  <2> QED
    BY <2>1, <2>5, TypedTurn
<1>5. ASSUME NEW m \in Mounts, Empty(m) PROVE Typed'
  <2>1. Moved(m)
    BY <1>5, EmptyMoves
  <2>2. trouble' \subseteq Troubles
    BY <1>1, <1>5, WaysAre, TroubleGrows DEF Empty
  <2>3. wanted' \in [1..MaxTyped -> Texts \cup {None}]
    BY <1>1, <1>5 DEF Empty
  <2>4. RestOK'
    BY <1>1, <1>5, <2>2, <2>3 DEF RestOK, Empty, server
  <2> QED
    BY <2>1, <2>4, TypedTurn
<1>6. ASSUME NEW m \in Mounts, StartNew(m) PROVE Typed'
  <2>1. Moved(m)
    BY <1>6, StartNewMoves
  <2>2. trouble' \subseteq Troubles
    BY <1>1, <1>6, WaysAre, TroubleGrows DEF StartNew
  <2>3. RestOK'
    BY <1>1, <1>6, <2>2 DEF RestOK, StartNew, server, writer
  <2> QED
    BY <2>1, <2>3, TypedTurn
<1>7. ASSUME NEW m \in Mounts, Discard(m) PROVE Typed'
  <2>1. PICK r \in Composers, s \in Composers : Turns(m, r, s) /\ r.field # None
    BY <1>7, DiscardMoves
  <2>2. trouble' \subseteq Troubles
    BY <1>1, <1>7, WaysAre, TroubleGrows DEF Discard
  <2>3. r = mount[m] /\ r.field \in Texts /\ r.field.work \in 1..MaxTyped
    BY <2>1 DEF Composers, Texts, Turns
  <2>4. wanted' \in [1..MaxTyped -> Texts \cup {None}] /\ gone' \subseteq 1..MaxTyped
    BY <1>1, <1>7, <2>3 DEF Discard
  <2>5. RestOK'
    BY <1>1, <1>7, <2>2, <2>4 DEF RestOK, Discard, server
  <2> QED
    BY <2>1, <2>5, TypedTurn
<1>8. ASSUME NEW m \in Mounts, Close(m) PROVE Typed'
  <2>1. Moved(m)
    BY <1>8, CloseMoves
  <2>2. trouble' \subseteq Troubles
    BY <1>1, <1>8, WaysAre, TroubleGrows DEF Close
  <2>3. RestOK'
    BY <1>1, <1>8, <2>2 DEF RestOK, Close, server, writer
  <2> QED
    BY <2>1, <2>3, TypedTurn
<1>9. ASSUME NEW m \in Mounts, NEW d \in ToSet(mount[m].list), SwitchTo(m, d) PROVE Typed'
  <2>1. Moved(m)
    BY <1>9, SwitchToMoves
  <2>2. trouble' \subseteq Troubles
    BY <1>1, <1>9, WaysAre, TroubleGrows DEF SwitchTo
  <2>3. RestOK'
    BY <1>1, <1>9, <2>2 DEF RestOK, SwitchTo, server, writer
  <2> QED
    BY <2>1, <2>3, TypedTurn
<1>10. ASSUME NEW m \in Mounts, LocalTimer(m) PROVE Typed'
  <2>1. PICK r \in Composers, s \in Composers :
          Turns(m, r, s) /\ r.field # None /\ device' = Copy(r.current, r.field, TRUE)
    BY <1>10, LocalTimerMoves
  <2>2. device' \in Copies
    BY <2>1, CopyIs DEF Composers
  <2>3. RestOK'
    BY <1>1, <1>10, <2>2 DEF RestOK, LocalTimer, server, writer
  <2> QED
    BY <2>1, <2>3, TypedTurn
<1>11. ASSUME NEW m \in Mounts, ServerTimer(m) PROVE Typed'
  <2>1. Moved(m)
    BY <1>11, ServerTimerMoves
  <2>2. RestOK'
    BY <1>1, <1>11 DEF RestOK, ServerTimer, server, writer
  <2> QED
    BY <2>1, <2>2, TypedTurn
<1>12. ASSUME NEW m \in Mounts, EmptyTimer(m) PROVE Typed'
  <2>1. Moved(m)
    BY <1>12, EmptyTimerMoves
  <2>2. PICK w \in 0..MaxTyped : w = mount[m].work
    BY <1>1 DEF Composers
  <2>3. gone' \subseteq 1..MaxTyped
    <3>1. gone' = gone \cup ({w} \ {0})
      BY <1>12, <2>2 DEF EmptyTimer
    <3>2. {w} \ {0} \subseteq 1..MaxTyped
      BY DraftsAssumption
    <3> QED
      BY <1>1, <3>1, <3>2
  <2>4. RestOK'
    BY <1>1, <1>12, <2>3 DEF RestOK, EmptyTimer, server
  <2> QED
    BY <2>1, <2>4, TypedTurn
<1>13. ASSUME NEW m \in Mounts, List(m) PROVE Typed'
  <2>1. Moved(m) /\ (UNCHANGED trouble \/ Failure("signal"))
    BY <1>13, ListMoves
  <2>2. trouble' \subseteq Troubles
    BY <1>1, <2>1, FailureGrows
  <2>3. RestOK'
    BY <1>1, <1>13, <2>2 DEF RestOK, List, server, writer
  <2> QED
    BY <2>1, <2>3, TypedTurn
<1>14. ASSUME NEW m \in Mounts, Loaded(m) PROVE Typed'
  <2>1. Moved(m)
    BY <1>14, LoadedMoves
  <2>2. RestOK'
    BY <1>1, <1>14 DEF RestOK, Loaded, server, writer
  <2> QED
    BY <2>1, <2>2, TypedTurn
<1>15. ASSUME NEW m \in Mounts, StartSave(m) PROVE Typed'
  <2>1. Moved(m)
    BY <1>15, StartSaveMoves
  <2>2. RestOK'
    BY <1>1, <1>15 DEF RestOK, StartSave, server, writer
  <2> QED
    BY <2>1, <2>2, TypedTurn
<1>16. ASSUME NEW m \in Mounts, StartLoad(m) PROVE Typed'
  <2>1. Moved(m)
    BY <1>16, StartLoadMoves
  <2>2. RestOK'
    BY <1>1, <1>16 DEF RestOK, StartLoad, server, writer
  <2> QED
    BY <2>1, <2>2, TypedTurn
<1>17. ASSUME NEW m \in Mounts, StartDiscard(m) PROVE Typed'
  <2>1. PICK r \in Composers, s \in Composers, id \in Ids : Turns(m, r, s) /\ deleting' = deleting \cup {id}
    BY <1>17, StartDiscardMoves
  <2>2. deleting' \subseteq Ids
    BY <1>1, <2>1
  <2>3. RestOK'
    BY <1>1, <1>17, <2>2 DEF RestOK, StartDiscard, server, writer
  <2> QED
    BY <2>1, <2>3, TypedTurn
<1>18. ASSUME NEW m \in Mounts, Save(m) PROVE Typed'
  <2>1. PICK c \in Calls, id \in Ids, found \in BOOLEAN :
          /\ c.id = None => made' = made + 1
          /\ c.id # None => made' = made
          /\ drafts' = IF found THEN SaveIn(drafts, id, c.text) ELSE drafts
          /\ device' = IF found THEN Older(device, id) ELSE device
          /\ mount' \in [Mounts -> Composers] /\ AllSound'
    BY <1>18, SaveMoves
  <2>2. c.text \in Texts
    BY CallsAre
  <2>3. drafts' \in Seq(Listed)
    <3>1. SaveIn(drafts, id, c.text) \in Seq(Listed)
      BY <1>1, <2>2, ListTypes
    <3> QED
      BY <1>1, <2>1, <3>1
  <2>4. device' \in Copies \cup {None}
    <3>1. PICK copy \in Copies \cup {None} : copy = device
      BY <1>1
    <3>2. Older(copy, id) \in Copies \cup {None}
      BY OlderIs
    <3> QED
      BY <2>1, <3>1, <3>2
  <2>5. made' \in Nat
    BY <1>1, <2>1
  <2>6. /\ deleting' = deleting /\ typed' = typed /\ wanted' = wanted /\ gone' = gone
        /\ trouble' = trouble
    BY <1>18 DEF Save, writer
  <2> QED
    BY <1>1, <2>1, <2>3, <2>4, <2>5, <2>6 DEF Typed, TypeOK
<1>19. ASSUME NEW m \in Mounts, Fail(m) PROVE Typed'
  <2>1. Moved(m)
    BY <1>19, FailMoves
  <2>2. trouble' \subseteq Troubles
    BY <1>1, <1>19, FailureGrows DEF Fail
  <2>3. RestOK'
    BY <1>1, <1>19, <2>2 DEF RestOK, Fail, server, writer
  <2> QED
    BY <2>1, <2>3, TypedTurn
<1>20. ASSUME NEW m \in Mounts, Saved(m) PROVE Typed'
  <2>1. PICK r \in Composers, s \in Composers :
           /\ Turns(m, r, s) /\ r.call # None /\ r.call.at = "saved"
           /\ deleting' \in {deleting, deleting \cup {r.call.id}}
           /\ device' \in {device, Copy(r.call.id, r.call.text, FALSE)}
    BY <1>20, SavedMoves
  <2>2. r.call.id \in Ids /\ r.call.text \in Texts
    BY <2>1, CallsAre DEF Composers
  <2>3. Copy(r.call.id, r.call.text, FALSE) \in Copies
    BY <2>2, CopyIs
  <2>4. deleting' \subseteq Ids /\ device' \in Copies \cup {None}
    BY <1>1, <2>1, <2>2, <2>3
  <2>5. RestOK'
    BY <1>1, <1>20, <2>4 DEF RestOK, Saved, SavedAs, server, writer
  <2> QED
    BY <2>1, <2>5, TypedTurn
<1>21. ASSUME NEW m \in Mounts, Failed(m) PROVE Typed'
  <2>1. Moved(m)
    BY <1>21, FailedMoves
  <2>2. RestOK'
    BY <1>1, <1>21 DEF RestOK, Failed, server, writer
  <2> QED
    BY <2>1, <2>2, TypedTurn
<1>22. CASE CloseTab
  <2>1. mount' \in [Mounts -> Composers] /\ AllSound' /\ device' \in Copies \cup {None}
    BY <1>22, CloseTabMoves
  <2>2. trouble' \subseteq Troubles
    BY <1>1, <1>22, FailureGrows DEF CloseTab
  <2> QED
    BY <1>1, <1>22, <2>1, <2>2 DEF Typed, TypeOK, CloseTab, server, writer
<1>23. ASSUME NEW id \in deleting, Destroy(id) PROVE Typed'
  <2>1. drafts' \in Seq(Listed)
    BY <1>1, <1>23, ListTypes DEF Destroy
  <2>2. trouble' \subseteq Troubles /\ deleting' \subseteq Ids
    BY <1>1, <1>23, FailureGrows DEF Destroy
  <2> QED
    BY <1>1, <1>23, <2>1, <2>2 DEF Typed, TypeOK, AllSound, Destroy, writer
<1> QED
  BY <1>2, <1>3, <1>4, <1>5, <1>6, <1>7, <1>8, <1>9, <1>10, <1>11, <1>12, <1>13, <1>14, <1>15,
     <1>16, <1>17, <1>18, <1>19, <1>20, <1>21, <1>22, <1>23 DEF Next

\* Every variable has its type: each record in each chain, each draft and each copy.
THEOREM TypeCorrect == Spec => []TypeOK
<1>1. Typed => TypeOK
  BY DEF Typed
<1> QED
  BY <1>1, TypedInit, TypedStep, PTL DEF Spec

--------------------------------------------------------------------------------
(* No draft is saved over with another work's text. *)

\* The writer waited while a draft asked for waited.
Waited == Spared({"switch"})

\* Until its drafts are back, the hook has nothing of a mount but what is in its fields.
Unheard(r) ==
  /\ r.current = None /\ r.pending = None /\ r.sent = None /\ r.chain = <<>> /\ r.call = None
  /\ ~r.localDue /\ ~r.serverDue /\ ~r.emptyDue

\* What is to be saved is of the work in hand, and a load comes after every save.
InOrder(r) ==
  /\ r.phase \in {"none", "listing", "listed"} => Unheard(r)
  /\ r.phase = "closed" => r.field = None /\ r.pending = None
  /\ \A i \in Meant(r) : r.chain[i].text.work = r.work
  /\ \A i \in Saves(r), k \in Loads(r) : i < k
  /\ \A i, k \in Loads(r) : i = k
  /\ r.pending # None => r.pending.work = r.work /\ Loads(r) = {}
  /\ r.field # None => r.field.work = r.work
  /\ r.work = 0 => r.current = None
  /\ r.emptyDue => r.field = None

\* Draft id was made, and if the server has it, it is of this work.
Owner(id, work) ==
  id <= made /\ \A d \in ToSet(drafts) : d.id = id => d.text.work = work

\* Each id the mount holds goes with its own work.
Owned(r) ==
  /\ r.current # None => Owner(r.current, r.work)
  /\ r.call # None /\ r.call.id # None => Owner(r.call.id, r.call.text.work)
  /\ Single(r.list)
  /\ \A d \in ToSet(r.list) : Owner(d.id, d.text.work)
  /\ \A i \in Loads(r) : r.chain[i].draft # None =>
        Owner(r.chain[i].draft.id, r.chain[i].draft.text.work)
  /\ r.local # None /\ r.local.id # None => Owner(r.local.id, r.local.text.work)

DraftsOwned == Single(drafts) /\ \A d \in ToSet(drafts) : d.id <= made

DeviceOwned == device # None /\ device.id # None => Owner(device.id, device.text.work)

OwnInv ==
  /\ \A m \in Mounts : InOrder(mount[m]) /\ Owned(mount[m])
  /\ DraftsOwned /\ DeviceOwned

Apart == Waited => OwnInv

Good(r) == Sound(r) /\ InOrder(r) /\ Owned(r)

LEMMA UnheardIs ==
  ASSUME NEW r \in Composers, Unheard(r)
  PROVE  Saves(r) = {} /\ Loads(r) = {} /\ Discards(r) = {} /\ Meant(r) = {}
<1>1. r.chain = <<>>
  BY DEF Unheard
<1> QED
  BY <1>1 DEF Saves, Loads, Discards, Meant

\* The parts of r and s that InOrder and Owned tell apart are the same.
LEMMA OwnKept ==
  ASSUME NEW r \in Composers, NEW s \in Composers, InOrder(r), Owned(r), s.chain = r.chain,
         s.phase = r.phase, s.work = r.work, s.current = r.current, s.list = r.list,
         s.call = r.call \/ s.call = None, s.local = r.local,
         s.pending = r.pending, s.field = r.field \/ s.field = None,
         s.emptyDue => s.field = None,
         s.phase \in {"none", "listing", "listed"} => Unheard(s)
  PROVE  InOrder(s) /\ Owned(s)
<1>1. Saves(s) = Saves(r) /\ Loads(s) = Loads(r) /\ Meant(s) = Meant(r)
  BY DEF Saves, Loads, Meant
<1>2. InOrder(s)
  BY <1>1 DEF InOrder
<1>3. Owned(s)
  BY <1>1 DEF Owned
<1> QED
  BY <1>2, <1>3

\* A save of the work in hand joins the chain, or nothing does.
LEMMA OwnSaving ==
  ASSUME NEW r \in Composers, NEW s \in Composers, InOrder(r), Owned(r),
         NEW text \in Texts \cup {None},
         text # None => text.work = r.work /\ Loads(r) = {} /\ r.phase \notin {"none", "listing", "listed"},
         text = None => s.chain = r.chain,
         text # None => s.chain = Append(r.chain, Saving(text)),
         s.phase \in {"open", "closed"}, s.phase = "closed" => s.field = None,
         s.work = r.work, s.current = r.current, s.list = r.list, s.call = r.call, s.local = r.local,
         s.pending = None, s.field = r.field \/ s.field = None, s.emptyDue => s.field = None
  PROVE  InOrder(s) /\ Owned(s)
<1>1. CASE text = None
  <2>1. Saves(s) = Saves(r) /\ Loads(s) = Loads(r) /\ Meant(s) = Meant(r)
    BY <1>1 DEF Saves, Loads, Meant
  <2>2. InOrder(s)
    BY <1>1, <2>1 DEF InOrder
  <2>3. Owned(s)
    BY <1>1, <2>1 DEF Owned
  <2> QED
    BY <2>2, <2>3
<1>2. CASE text # None
  <2>1. PICK e \in Chained : e = Saving(text) /\ e.do = "save" /\ e.text = text /\ ~e.forgotten
    BY <1>2, ChainedAre
  <2>2. s.chain = Append(r.chain, e)
    BY <1>2, <2>1
  <2>3. LET n == Len(r.chain) + 1 IN
        /\ s.chain[n] = e
        /\ \A i \in Saves(r) \cup Loads(r) \cup Discards(r) : s.chain[i] = r.chain[i]
        /\ Saves(s) = Saves(r) \cup {n} /\ Loads(s) = Loads(r) /\ Meant(s) = Meant(r) \cup {n}
    BY <2>1, <2>2, Joined
  <2>4. Meant(r) \subseteq Saves(r) /\ Loads(s) = {}
    BY <1>2, <2>3 DEF Meant
  <2>5. \A i \in Meant(s) : s.chain[i].text.work = s.work
    BY <1>2, <2>1, <2>3, <2>4 DEF InOrder
  <2>6. InOrder(s)
    BY <2>4, <2>5 DEF InOrder
  <2>7. Owned(s)
    BY <2>4 DEF Owned
  <2> QED
    BY <2>6, <2>7
<1> QED
  BY <1>1, <1>2

LEMMA OwnFlushed ==
  ASSUME NEW r \in Composers, Sound(r), InOrder(r), Owned(r), r.phase \in {"open", "closed"} \/ r.pending # None
  PROVE  InOrder(Flushed(r)) /\ Owned(Flushed(r))
<1>1. PICK s \in Composers : s = Flushed(r)
  BY FlushedIs
<1>2. r.pending # None => r.pending.work = r.work /\ Loads(r) = {} /\ r.phase \notin {"none", "listing", "listed"}
  BY DEF InOrder, Unheard
<1>3. r.phase \in {"open", "closed"}
  BY <1>2 DEF Composers
<1>4. /\ r.pending = None => s.chain = r.chain
      /\ r.pending # None => s.chain = Append(r.chain, Saving(r.pending))
      /\ s.phase = r.phase /\ s.work = r.work /\ s.current = r.current /\ s.list = r.list
      /\ s.call = r.call /\ s.local = r.local /\ s.pending = None /\ s.field = r.field
      /\ s.emptyDue = r.emptyDue
  BY <1>1, FlushedIs
<1>5. (s.phase = "closed" => s.field = None) /\ (s.emptyDue => s.field = None)
  BY <1>4 DEF InOrder
<1>6. r.pending \in Texts \cup {None}
  BY DEF Composers
<1>7. InOrder(s) /\ Owned(s)
  BY <1>2, <1>3, <1>4, <1>5, <1>6, OwnSaving
<1> QED
  BY <1>1, <1>7

LEMMA OwnClosed ==
  ASSUME NEW r \in Composers, InOrder(r), Owned(r)
  PROVE  InOrder(Closed(r)) /\ Owned(Closed(r))
<1>1. PICK s \in Composers : s = Closed(r)
  BY ClosedIs
<1>2. r.pending # None => r.pending.work = r.work /\ Loads(r) = {} /\ r.phase \notin {"none", "listing", "listed"}
  BY DEF InOrder, Unheard
<1>3. /\ r.pending = None => s.chain = r.chain
      /\ r.pending # None => s.chain = Append(r.chain, Saving(r.pending))
      /\ s.phase = "closed" /\ s.work = r.work /\ s.current = r.current /\ s.list = r.list
      /\ s.call = r.call /\ s.local = r.local /\ s.pending = None /\ s.field = None
      /\ ~s.emptyDue
  BY <1>1, ClosedIs
<1>4. r.pending \in Texts \cup {None}
  BY DEF Composers
<1>5. InOrder(s) /\ Owned(s)
  BY <1>2, <1>3, <1>4, OwnSaving
<1> QED
  BY <1>1, <1>5

LEMMA OwnWritten ==
  ASSUME NEW r \in Composers, InOrder(r), Owned(r), r.phase = "open", NEW text \in Texts \cup {None},
         text # None => Loads(r) = {} /\ (r.work = 0 \/ r.work = text.work)
  PROVE  InOrder(Written(r, text)) /\ Owned(Written(r, text))
<1>1. PICK s \in Composers : s = Written(r, text)
  BY WrittenIs
<1>2. /\ s.phase = "open" /\ s.local = r.local /\ s.list = r.list /\ s.field = text
      /\ s.current = r.current /\ s.chain = r.chain /\ s.call = r.call
      /\ text = None => s.work = r.work /\ s.pending = r.pending
      /\ text # None => s.work = text.work /\ s.pending = text /\ ~s.emptyDue
  BY <1>1, WrittenIs
<1>3. Saves(s) = Saves(r) /\ Loads(s) = Loads(r) /\ Meant(s) = Meant(r)
  BY <1>2 DEF Saves, Loads, Meant
<1>4. CASE text = None
  BY <1>1, <1>2, <1>4, OwnKept
<1>5. CASE text # None
  <2>1. text.work # 0 /\ \A i \in Saves(r) : r.chain[i].text.work # 0
    <3>1. \A i \in Saves(r) : r.chain[i].text \in Texts
      <4>1. r.chain \in Seq(Chained)
        BY DEF Composers
      <4> QED
        BY <4>1, ChainParts DEF Saves
    <3> QED
      BY <1>5, <3>1 DEF Texts
  <2>2. \A i \in Meant(s) : s.chain[i].text.work = s.work
    <3>1. Meant(r) \subseteq Saves(r) /\ \A i \in Meant(r) : r.chain[i].text.work = r.work
      BY DEF Meant, InOrder
    <3> QED
      BY <1>2, <1>3, <1>5, <2>1, <3>1
  <2>3. InOrder(s)
    BY <1>2, <1>3, <1>5, <2>1, <2>2 DEF InOrder
  <2>4. Owned(s)
    <3>1. r.current # None => r.work = text.work
      BY <1>5 DEF InOrder
    <3> QED
      BY <1>2, <1>3, <1>5, <3>1 DEF Owned
  <2> QED
    BY <1>1, <2>3, <2>4
<1> QED
  BY <1>4, <1>5

\* What is written before the drafts are back is in the fields only.
LEMMA OwnScribbled ==
  ASSUME NEW r \in Composers, Sound(r), InOrder(r), Owned(r), r.phase \in {"listing", "listed"},
         NEW text \in Texts
  PROVE  InOrder(Scribbled(r, text)) /\ Owned(Scribbled(r, text))
<1>1. PICK s \in Composers : s = Scribbled(r, text)
  BY ScribbledIs
<1>2. /\ s.phase = r.phase /\ s.field = text /\ s.work = text.work /\ s.chain = r.chain
      /\ s.current = r.current /\ s.pending = r.pending /\ s.sent = r.sent /\ s.call = r.call
      /\ s.list = r.list /\ s.local = r.local /\ s.localDue = r.localDue
      /\ s.serverDue = r.serverDue /\ s.emptyDue = r.emptyDue
  BY <1>1 DEF Scribbled, Composers
<1>3. Unheard(r)
  BY DEF InOrder
<1>4. Unheard(s)
  BY <1>2, <1>3 DEF Unheard
<1>5. Saves(s) = {} /\ Loads(s) = {} /\ Meant(s) = {} /\ Loads(r) = {}
  BY <1>3, <1>4, UnheardIs
<1>6. InOrder(s)
  BY <1>2, <1>4, <1>5 DEF InOrder, Unheard
<1>7. Owned(s)
  BY <1>2, <1>4, <1>5 DEF Owned, Unheard
<1> QED
  BY <1>1, <1>6, <1>7

LEMMA OwnEmptied ==
  ASSUME NEW r \in Composers, InOrder(r), Owned(r), r.phase # "closed"
  PROVE  InOrder(Written(r, None)) /\ Owned(Written(r, None))
<1>1. PICK s \in Composers : s = Written(r, None)
  BY WrittenIs
<1>2. /\ s.phase = r.phase /\ s.local = r.local /\ s.list = r.list /\ s.field = None
      /\ s.current = r.current /\ s.chain = r.chain /\ s.call = r.call /\ s.sent = r.sent
      /\ s.work = r.work /\ s.pending = r.pending /\ ~s.localDue /\ ~s.serverDue
      /\ s.emptyDue = (r.current # None)
  BY <1>1, WrittenIs
<1>3. s.phase \in {"none", "listing", "listed"} => Unheard(s)
  BY <1>2 DEF InOrder, Unheard
<1>4. InOrder(s) /\ Owned(s)
  BY <1>2, <1>3, OwnKept
<1> QED
  BY <1>1, <1>4

LEMMA OwnQueued ==
  ASSUME NEW r \in Composers, InOrder(r), Owned(r), r.phase = "open", Loads(r) = {},
         NEW draft \in Listed \cup {None}, draft # None => Owner(draft.id, draft.text.work)
  PROVE  InOrder(Queued(r, draft)) /\ Owned(Queued(r, draft))
<1>1. PICK s \in Composers : s = Queued(r, draft)
  BY QueuedIs
<1> DEFINE text == Waiting(r)
           c == IF text = None THEN r.chain ELSE Append(r.chain, Saving(text))
<1>2. text \in Texts \cup {None} /\ (text # None => text.work = r.work)
  BY DEF Waiting, Composers, InOrder
<1>3. PICK e \in Chained : e = Loading(draft) /\ e.do = "load" /\ e.draft = draft
  BY ChainedAre
<1>4. /\ s.phase = r.phase /\ s.local = r.local /\ s.list = r.list
      /\ s.field = r.field /\ s.work = r.work /\ s.current = r.current
      /\ s.pending = None /\ s.call = r.call /\ s.emptyDue = r.emptyDue
      /\ text = None => s.chain = Append(r.chain, e)
      /\ text # None => s.chain = Append(Append(r.chain, Saving(text)), e)
  BY <1>1, <1>3, QueuedIs
<1>5. s.chain = Append(c, e)
  BY <1>4
<1>6. c \in Seq(Chained)
  <2>1. text # None => Saving(text) \in Chained
    BY <1>2, ChainedAre
  <2> QED
    BY <2>1 DEF Composers
<1>7. /\ text = None => c = r.chain
      /\ text # None => c = Append(r.chain, Saving(text))
  OBVIOUS
<1> HIDE DEF text, c
<1>8. PICK t \in Composers : t = [r EXCEPT !.chain = c, !.pending = None]
  <2>1. [r EXCEPT !.chain = c, !.pending = None] \in Composers
    BY <1>6 DEF Composers
  <2> QED
    BY <2>1
<1>9. /\ t.chain = c /\ t.phase = r.phase /\ t.local = r.local /\ t.list = r.list
      /\ t.field = r.field /\ t.work = r.work /\ t.current = r.current
      /\ t.pending = None /\ t.call = r.call /\ t.emptyDue = r.emptyDue
  BY <1>8 DEF Composers
<1>10. (t.phase = "closed" => t.field = None) /\ (t.emptyDue => t.field = None)
  BY <1>9 DEF InOrder
<1>11. /\ text = None => t.chain = r.chain
       /\ text # None => t.chain = Append(r.chain, Saving(text))
       /\ t.phase \in {"open", "closed"} /\ r.phase \notin {"none", "listing", "listed"}
  BY <1>7, <1>9
<1>12. InOrder(t) /\ Owned(t)
  BY <1>2, <1>11, <1>9, <1>10, OwnSaving
<1>13. Loads(t) = {}
  <2>1. CASE text = None
    <3>1. t.chain = r.chain
      BY <1>11, <2>1
    <3> QED
      BY <3>1 DEF Loads
  <2>2. CASE text # None
    <3>1. PICK f \in Chained : f = Saving(text) /\ f.do = "save"
      BY <1>2, <2>2, ChainedAre
    <3>2. t.chain = Append(r.chain, f)
      BY <1>11, <2>2, <3>1
    <3> QED
      BY <3>1, <3>2, Joined
  <2> QED
    BY <2>1, <2>2
<1>14. LET n == Len(t.chain) + 1 IN
       /\ n \in Nat /\ s.chain[n] = e
       /\ \A i \in Saves(t) \cup Loads(t) \cup Discards(t) : i < n /\ s.chain[i] = t.chain[i]
       /\ Saves(s) = Saves(t) /\ Loads(s) = {n} /\ Meant(s) = Meant(t)
  <2>1. s.chain = Append(t.chain, e)
    BY <1>5, <1>9
  <2> QED
    BY <1>3, <1>13, <2>1, Joined
<1>15. Meant(t) \subseteq Saves(t)
  BY DEF Meant
<1>16. InOrder(s)
  BY <1>4, <1>9, <1>12, <1>14, <1>15 DEF InOrder
<1>17. Owned(s)
  BY <1>3, <1>4, <1>9, <1>12, <1>14 DEF Owned
<1> QED
  BY <1>1, <1>16, <1>17

LEMMA OwnForgotten ==
  ASSUME NEW r \in Composers, NEW s \in Composers, InOrder(r), Owned(r),
         s.chain = Forget(r).chain, s.call = Forget(r).call, s.phase = r.phase,
         s.phase \in {"none", "listing", "listed"} => Unheard(s),
         s.list = Without(r.list, r.current), s.field = None,
         s.pending = None, s.current = None, s.work = 0, ~s.emptyDue, s.local = r.local
  PROVE  InOrder(s) /\ Owned(s)
<1>1. /\ Saves(s) = Saves(r) /\ Loads(s) = Loads(r) /\ Meant(s) = {}
      /\ \A i \in Loads(r) : s.chain[i] = r.chain[i]
  BY ForgetParts
<1>2. InOrder(s)
  BY <1>1 DEF InOrder
<1>3. s.call # None => r.call # None /\ s.call.id = r.call.id /\ s.call.text = r.call.text
  BY ForgetIs
<1>4. Single(s.list) /\ \A d \in ToSet(s.list) : d \in ToSet(r.list)
  <2>1. r.list \in Seq(Listed) /\ Single(r.list)
    BY DEF Composers, Owned
  <2>2. /\ Single(Without(r.list, r.current))
        /\ ToSet(Without(r.list, r.current)) = {d \in ToSet(r.list) : d.id # r.current}
    BY <2>1, WithoutIs
  <2> QED
    BY <2>2
<1>5. Owned(s)
  BY <1>1, <1>3, <1>4 DEF Owned
<1> QED
  BY <1>2, <1>5

LEMMA OwnForget ==
  ASSUME NEW r \in Composers, InOrder(r), Owned(r)
  PROVE  /\ InOrder(Blanked(r)) /\ Owned(Blanked(r))
         /\ r.emptyDue => InOrder(Forget(r)) /\ Owned(Forget(r))
<1>1. InOrder(Blanked(r)) /\ Owned(Blanked(r))
  <2>1. PICK s \in Composers : s = Blanked(r)
    BY BlankedIs
  <2>2. /\ s.phase = r.phase /\ s.local = r.local /\ s.field = None /\ s.sent = r.sent
        /\ s.pending = None /\ s.current = None /\ s.work = 0
        /\ s.list = Without(r.list, r.current) /\ ~s.localDue /\ ~s.serverDue /\ ~s.emptyDue
        /\ s.call = Forget(r).call /\ s.chain = Forget(r).chain
    BY <2>1, BlankedIs
  <2>3. ASSUME s.phase \in {"none", "listing", "listed"} PROVE Unheard(s)
    <3>1. Unheard(r)
      BY <2>2, <2>3 DEF InOrder
    <3>2. s.call = None /\ s.chain = Thrown(r.chain) /\ s.sent = None
      BY <2>2, <3>1, ForgetIs DEF Unheard
    <3>3. s.chain = <<>>
      BY <3>1, <3>2 DEF Thrown, Unheard
    <3> QED
      BY <2>2, <3>2, <3>3 DEF Unheard
  <2>4. InOrder(s) /\ Owned(s)
    BY <2>2, <2>3, OwnForgotten
  <2> QED
    BY <2>1, <2>4
<1>2. ASSUME r.emptyDue PROVE InOrder(Forget(r)) /\ Owned(Forget(r))
  <2>1. PICK s \in Composers : s = Forget(r)
    BY ForgetIs
  <2>2. /\ s.phase = r.phase /\ s.local = r.local /\ s.field = r.field
        /\ s.pending = None /\ s.current = None /\ s.work = 0
        /\ s.list = Without(r.list, r.current) /\ ~s.emptyDue
    BY <2>1, ForgetIs
  <2>3. s.phase \in {"open", "closed"} /\ s.field = None
    BY <1>2, <2>2 DEF InOrder, Unheard, Composers
  <2>4. InOrder(s) /\ Owned(s)
    BY <2>1, <2>2, <2>3, OwnForgotten
  <2> QED
    BY <2>1, <2>4
<1> QED
  BY <1>1, <1>2

\* The first of the chain goes.
LEMMA OwnTailed ==
  ASSUME NEW r \in Composers, NEW s \in Composers, InOrder(r), Owned(r), r.chain # <<>>,
         s.chain = Tail(r.chain), s.phase = r.phase, s.local = r.local, s.list = r.list,
         s.field = r.field, s.work = r.work, s.current = r.current, s.pending = r.pending,
         s.call = None, s.emptyDue = r.emptyDue
  PROVE  /\ InOrder(s) /\ Owned(s) /\ s.phase \in {"open", "closed"}
         /\ 1 \in Loads(r) => Saves(s) = {} /\ Loads(s) = {} /\ Meant(s) = {}
<1>1. r.chain \in Seq(Chained)
  BY DEF Composers
<1>2. /\ \A i \in DOMAIN s.chain : i \in Nat \ {0} /\ s.chain[i] = r.chain[i + 1]
      /\ s.chain \in Seq(Chained)
  BY <1>1, Tailed
<1>3. /\ \A i \in Saves(s) : i + 1 \in Saves(r)
      /\ \A i \in Loads(s) : i + 1 \in Loads(r)
      /\ \A i \in Meant(s) : i + 1 \in Meant(r)
  BY <1>1, TailedSaves
<1>4. \A i \in Saves(s) \cup Loads(s) \cup Meant(s) : i \in Nat \ {0} /\ s.chain[i] = r.chain[i + 1]
  BY <1>2 DEF Saves, Loads, Meant
<1>5. s.phase \in {"open", "closed"}
  BY DEF InOrder, Unheard, Composers
<1>6. InOrder(s)
  <2>1. \A i \in Meant(s) : s.chain[i].text.work = s.work
    BY ZenonT(40), <1>3, <1>4 DEF InOrder
  <2>2. \A i \in Saves(s), k \in Loads(s) : i < k
    <3> SUFFICES ASSUME NEW i \in Saves(s), NEW k \in Loads(s) PROVE i < k
      OBVIOUS
    <3>1. i + 1 < k + 1
      BY <1>3 DEF InOrder
    <3>2. i \in Nat /\ k \in Nat
      BY <1>4
    <3> QED
      BY <3>1, <3>2
  <2>3. \A i, k \in Loads(s) : i = k
    <3> SUFFICES ASSUME NEW i \in Loads(s), NEW k \in Loads(s) PROVE i = k
      OBVIOUS
    <3>1. i + 1 = k + 1
      BY <1>3 DEF InOrder
    <3>2. i \in Nat /\ k \in Nat
      BY <1>4
    <3> QED
      BY <3>1, <3>2
  <2>4. s.pending # None => s.pending.work = s.work /\ Loads(s) = {}
    BY <1>3 DEF InOrder
  <2>5. (s.phase = "closed" => s.field = None /\ s.pending = None) /\ (s.emptyDue => s.field = None)
    BY DEF InOrder
  <2> QED
    BY <1>5, <2>1, <2>2, <2>3, <2>4, <2>5 DEF InOrder
<1>7. Owned(s)
  BY <1>3, <1>4 DEF Owned
<1>8. ASSUME 1 \in Loads(r) PROVE Saves(s) = {} /\ Loads(s) = {} /\ Meant(s) = {}
  <2>1. \A i \in Saves(s) : FALSE
    <3> SUFFICES ASSUME NEW i \in Saves(s) PROVE FALSE
      OBVIOUS
    <3>1. i + 1 < 1 /\ i \in Nat
      BY <1>3, <1>4, <1>8 DEF InOrder
    <3> QED
      BY <3>1
  <2>2. \A i \in Loads(s) : FALSE
    <3> SUFFICES ASSUME NEW i \in Loads(s) PROVE FALSE
      OBVIOUS
    <3>1. i + 1 = 1 /\ i \in Nat \ {0}
      BY <1>3, <1>4, <1>8 DEF InOrder
    <3> QED
      BY <3>1
  <2>3. Meant(s) \subseteq Saves(s)
    BY DEF Meant
  <2> QED
    BY <2>1, <2>2, <2>3
<1> QED
  BY <1>5, <1>6, <1>7, <1>8

LEMMA OwnAdvanced ==
  ASSUME NEW r \in Composers, InOrder(r), Owned(r), r.chain # <<>>
  PROVE  /\ r.call = None => /\ InOrder(Advanced(r)) /\ Owned(Advanced(r))
                             /\ 1 \in Loads(r) => Saves(Advanced(r)) = {} /\ Loads(Advanced(r)) = {}
         /\ InOrder(Done(r)) /\ Owned(Done(r))
<1>1. ASSUME r.call = None
      PROVE  /\ InOrder(Advanced(r)) /\ Owned(Advanced(r))
             /\ 1 \in Loads(r) => Saves(Advanced(r)) = {} /\ Loads(Advanced(r)) = {}
  <2>1. PICK s \in Composers : s = Advanced(r)
    BY AdvancedIs
  <2>2. /\ s.chain = Tail(r.chain) /\ s.call = None /\ s.phase = r.phase /\ s.local = r.local
        /\ s.list = r.list /\ s.field = r.field /\ s.work = r.work /\ s.current = r.current
        /\ s.pending = r.pending /\ s.emptyDue = r.emptyDue
    BY <1>1, <2>1, AdvancedIs
  <2>3. InOrder(s) /\ Owned(s) /\ (1 \in Loads(r) => Saves(s) = {} /\ Loads(s) = {})
    BY <2>2, OwnTailed
  <2> QED
    BY <2>1, <2>3
<1>2. InOrder(Done(r)) /\ Owned(Done(r))
  <2>1. PICK s \in Composers : s = Done(r)
    BY DoneIs
  <2>2. /\ s.chain = Tail(r.chain) /\ s.call = None /\ s.phase = r.phase /\ s.local = r.local
        /\ s.list = r.list /\ s.field = r.field /\ s.work = r.work /\ s.current = r.current
        /\ s.pending = r.pending /\ s.emptyDue = r.emptyDue
    BY <2>1, DoneIs
  <2>3. InOrder(s) /\ Owned(s)
    BY <2>2, OwnTailed
  <2> QED
    BY <2>1, <2>3
<1> QED
  BY <1>1, <1>2

LEMMA OwnLoad ==
  ASSUME NEW r \in Composers, InOrder(r), Owned(r), r.phase \in {"open", "closed"},
         Saves(r) = {}, Loads(r) = {}, NEW draft \in Listed \cup {None}, draft # None => Owner(draft.id, draft.text.work)
  PROVE  InOrder(Load(r, draft)) /\ Owned(Load(r, draft))
<1> DEFINE text == TextOf(draft)
<1>1. PICK s \in Composers : s = Load(r, draft)
  BY LoadIs, ShutLoadIs
<1>2. /\ s.phase = r.phase /\ s.local = r.local /\ s.list = r.list
      /\ s.work = WorkOf(text) /\ s.current = IdOf(draft)
      /\ s.chain = r.chain /\ s.call = r.call
      /\ s.field \in {text, None} /\ s.pending \in {text, None}
      /\ s.emptyDue => s.field = None
      /\ r.phase = "closed" => s.field = None /\ s.pending = None
  <2>1. r.emptyDue => r.field = None
    BY DEF InOrder
  <2>2. CASE r.phase = "open"
    BY <1>1, <2>1, <2>2, LoadIs
  <2>3. CASE r.phase = "closed"
    <3>1. r.field = None
      BY <2>3 DEF InOrder
    <3> QED
      BY <1>1, <2>1, <2>3, <3>1, ShutLoadIs
  <2> QED
    BY <2>2, <2>3
<1>3. /\ text = None => WorkOf(text) = 0
      /\ text # None => WorkOf(text) = text.work
      /\ draft = None => text = None /\ IdOf(draft) = None
      /\ draft # None => text = draft.text /\ IdOf(draft) = draft.id /\ text # None
  BY TextsAre DEF WorkOf, TextOf, IdOf
<1> HIDE DEF text
<1>4. Saves(s) = {} /\ Loads(s) = {} /\ Meant(s) = {}
  BY <1>2 DEF Saves, Loads, Meant
<1>5. WorkOf(text) = 0 <=> text = None
  BY TextsAre DEF text
<1>6. InOrder(s)
  <2>1. s.emptyDue => s.field = None
    BY <1>2
  <2>2. s.pending # None => s.pending.work = s.work
    BY <1>2, <1>3
  <2>3. s.field # None => s.field.work = s.work
    BY <1>2, <1>3
  <2>4. s.work = 0 => s.current = None
    BY <1>2, <1>3, <1>5
  <2>5. s.phase \in {"open", "closed"} /\ (s.phase = "closed" => s.field = None /\ s.pending = None)
    BY <1>2
  <2> QED
    BY <1>4, <2>1, <2>2, <2>3, <2>4, <2>5 DEF InOrder
<1>7. Owned(s)
  <2>1. s.current # None => Owner(s.current, s.work)
    BY <1>2, <1>3
  <2> QED
    BY <1>2, <1>4, <2>1 DEF Owned
<1> QED
  BY <1>1, <1>6, <1>7

LEMMA OwnCalled ==
  ASSUME NEW r \in Composers, InOrder(r), Owned(r), r.chain # <<>>, Head(r.chain).do = "save",
         ~Head(r.chain).forgotten
  PROVE  InOrder(Called(r)) /\ Owned(Called(r))
<1>1. PICK s \in Composers : s = Called(r)
  BY CalledIs
<1>2. /\ s.call # None /\ s.call.id = r.current /\ s.call.text = r.chain[1].text /\ 1 \in Saves(r)
      /\ s.phase = r.phase /\ s.local = r.local /\ s.list = r.list
      /\ s.field = r.field /\ s.work = r.work /\ s.current = r.current
      /\ s.pending = r.pending /\ s.chain = r.chain /\ s.emptyDue = r.emptyDue
  BY <1>1, CalledIs
<1>3. Saves(s) = Saves(r) /\ Loads(s) = Loads(r) /\ Meant(s) = Meant(r)
  BY <1>2 DEF Saves, Loads, Meant
<1>4. s.call.text.work = r.work
  <2>1. ~r.chain[1].forgotten
    BY HeadIs
  <2> QED
    BY <1>2, <2>1 DEF InOrder, Meant
<1>5. InOrder(s)
  BY <1>2, <1>3 DEF InOrder, Unheard
<1>6. Owned(s)
  BY <1>2, <1>3, <1>4 DEF Owned
<1> QED
  BY <1>1, <1>5, <1>6

LEMMA OwnPut ==
  ASSUME NEW r \in Composers, Sound(r), InOrder(r), Owned(r), r.chain # <<>>, r.call # None,
         r.call.at = "saved", ~r.call.forgotten
  PROVE  InOrder(Put(r)) /\ Owned(Put(r))
<1>1. PICK s \in Composers : s = Put(r)
  BY PutIs
<1>2. PICK d \in Composers : d = Done(r)
  BY DoneIs
<1>3. InOrder(d) /\ Owned(d)
  BY <1>2, OwnAdvanced
<1>4. /\ d.chain = Tail(r.chain) /\ d.call = None /\ d.phase = r.phase /\ d.local = r.local
      /\ d.list = r.list /\ d.field = r.field /\ d.work = r.work /\ d.current = r.current
      /\ d.pending = r.pending /\ d.emptyDue = r.emptyDue
  BY <1>2, DoneIs
<1>5. /\ s.chain = Tail(r.chain) /\ s.call = None /\ s.list = SaveIn(r.list, r.call.id, r.call.text)
      /\ r.call.id \in Ids /\ s.current = r.call.id
      /\ s.phase = r.phase /\ s.local = r.local
      /\ s.field = r.field /\ s.work = r.work /\ s.pending = r.pending /\ s.emptyDue = r.emptyDue
  BY <1>1, PutIs
<1>6. Saves(s) = Saves(d) /\ Loads(s) = Loads(d) /\ Meant(s) = Meant(d) /\ s.chain = d.chain
  BY <1>4, <1>5 DEF Saves, Loads, Meant
<1>7. r.call.text \in Texts /\ r.call.text.work \in 1..MaxTyped /\ r.call.id # None
  <2>1. r.call \in Calls
    BY DEF Composers
  <2>2. r.call.text \in Texts
    BY <2>1, CallsAre
  <2> QED
    BY <1>5, <2>2, NoneAssumption DEF Texts
<1>8. r.call.text.work = r.work
  <2>1. 1 \in Meant(r) /\ r.chain[1].text = r.call.text
    BY DEF Sound, Meant
  <2> QED
    BY <2>1 DEF InOrder
<1>9. r.phase \notin {"none", "listing", "listed"}
  BY DEF InOrder, Unheard
<1>10. s.work # 0
  BY <1>5, <1>7, <1>8
<1>11. InOrder(s)
  BY ZenonT(40), <1>3, <1>4, <1>5, <1>6, <1>9, <1>10 DEF InOrder
<1>12. Owner(r.call.id, r.call.text.work)
  BY <1>7 DEF Owned
<1>13. Single(s.list) /\ \A e \in ToSet(s.list) : Owner(e.id, e.text.work)
  <2> DEFINE id == r.call.id
             text == r.call.text
             list == r.list
             e == [id |-> id, text |-> text]
  <2>1. list \in Seq(Listed) /\ Single(list) /\ id \in Ids /\ text \in Texts /\ s.list = SaveIn(list, id, text)
    BY <1>5, <1>7 DEF Composers, Owned
  <2>2. Owner(id, text.work) /\ \A x \in ToSet(list) : Owner(x.id, x.text.work)
    BY <1>12 DEF Owned
  <2>3. e.id = id /\ e.text = text
    OBVIOUS
  <2> HIDE DEF id, text, list
  <2>4. Single(s.list) /\ ToSet(s.list) = {e} \cup {x \in ToSet(list) : x.id # id}
    BY <2>1, SaveInIs
  <2> HIDE DEF e
  <2> QED
    BY <2>2, <2>3, <2>4
<1>14. Owned(s)
  BY <1>3, <1>4, <1>5, <1>6, <1>8, <1>12, <1>13 DEF Owned
<1> QED
  BY <1>1, <1>11, <1>14

LEMMA OwnOpened ==
  ASSUME NEW r \in Composers, InOrder(r), Owned(r), r.phase = "listed", NEW resume \in BOOLEAN
  PROVE  InOrder(Opened(r, resume)) /\ Owned(Opened(r, resume))
<1> DEFINE first == First(r, resume)
<1>1. PICK s \in Composers : s = Opened(r, resume)
  BY OpenedIs
<1>2. Unheard(r) /\ Saves(r) = {} /\ Loads(r) = {} /\ Meant(r) = {}
  BY UnheardIs DEF InOrder
<1>3. /\ s.phase = "open" /\ s.local = r.local /\ s.list = Without(Merged(r), None)
      /\ s.call = r.call /\ s.current = IdOf(first)
      /\ s.field = IF first = None THEN r.field ELSE first.text
      /\ Laid(r) /\ first # None => s.chain = Append(r.chain, Saving(first.text))
      /\ ~(Laid(r) /\ first # None) => s.chain = r.chain
      /\ s.field # None => s.work = s.field.work /\ s.pending = s.field /\ ~s.emptyDue
      /\ s.field = None => s.work = r.work /\ s.pending = r.pending /\ s.emptyDue = r.emptyDue
  BY <1>1, OpenedIs
<1>4. /\ Single(s.list)
      /\ ToSet(s.list) = IF Laid(r) /\ r.local.id # None
                         THEN {[id |-> r.local.id, text |-> r.local.text]} \cup {d \in ToSet(r.list) : d.id # r.local.id}
                         ELSE ToSet(r.list)
  BY <1>3, MergedIs DEF Owned
<1>5. /\ Laid(r) => r.local \in Copies
      /\ first # None => first.id \in Ids \cup {None} /\ first.text \in Texts
      /\ first # None /\ Laid(r) => first = [id |-> r.local.id, text |-> r.local.text]
      /\ first # None /\ ~Laid(r) => 1 \in DOMAIN r.list /\ first = r.list[1]
  BY MergedIs
<1> HIDE DEF first
<1>6. first # None => /\ s.current = first.id /\ s.field = first.text /\ s.field # None
                     /\ s.work = first.text.work /\ s.work # 0 /\ s.pending = s.field /\ ~s.emptyDue
  <2> SUFFICES ASSUME first # None
               PROVE  /\ s.current = first.id /\ s.field = first.text /\ s.field # None
                      /\ s.work = first.text.work /\ s.work # 0 /\ s.pending = s.field /\ ~s.emptyDue
    OBVIOUS
  <2>1. s.current = first.id /\ s.field = first.text
    BY <1>3 DEF IdOf
  <2>2. first.text # None /\ first.text.work \in 1..MaxTyped
    BY <1>5, NoneAssumption DEF Texts
  <2> QED
    BY <1>3, <2>1, <2>2
<1>7. first = None => /\ s.current = None
                      /\ s.field = None => s.pending = None /\ ~s.emptyDue
  BY <1>2, <1>3 DEF IdOf, Unheard
<1>8. \/ /\ first # None /\ Loads(s) = {} /\ \A i \in Meant(s) : s.chain[i].text = first.text
      \/ first = None /\ Loads(s) = {} /\ Meant(s) = {}
  <2>1. CASE Laid(r) /\ first # None
    <3>1. PICK e \in Chained : e = Saving(first.text) /\ e.do = "save" /\ e.text = first.text /\ ~e.forgotten
      BY <1>5, <2>1, ChainedAre
    <3>2. s.chain = Append(r.chain, e)
      BY <1>3, <2>1, <3>1
    <3>3. LET n == Len(r.chain) + 1 IN
          /\ s.chain[n] = e /\ Loads(s) = Loads(r) /\ Meant(s) = Meant(r) \cup {n}
      BY <3>1, <3>2, Joined
    <3> QED
      BY <1>2, <2>1, <3>1, <3>3
  <2>2. CASE ~(Laid(r) /\ first # None)
    <3>1. s.chain = r.chain
      BY <1>3, <2>2
    <3>2. Loads(s) = Loads(r) /\ Meant(s) = Meant(r)
      BY <3>1 DEF Loads, Meant, Saves
    <3> QED
      BY <1>2, <3>2
  <2> QED
    BY <2>1, <2>2
<1>9. InOrder(s)
  BY <1>3, <1>6, <1>7, <1>8 DEF InOrder
<1>10. Laid(r) /\ r.local.id # None => Owner(r.local.id, r.local.text.work)
  BY DEF Owned, Laid, Dirty
<1>11. first # None /\ first.id # None => Owner(first.id, first.text.work)
  <2>1. CASE Laid(r)
    BY <1>5, <1>10, <2>1
  <2>2. CASE ~Laid(r)
    BY <1>5, <2>2 DEF Owned, ToSet
  <2> QED
    BY <2>1, <2>2
<1>12. \A d \in ToSet(s.list) : Owner(d.id, d.text.work)
  <2>1. \A d \in ToSet(r.list) : Owner(d.id, d.text.work)
    BY DEF Owned
  <2> QED
    BY <1>4, <1>10, <2>1
<1>13. Owned(s)
  <2>1. s.current # None => Owner(s.current, s.work)
    BY <1>6, <1>7, <1>11
  <2>2. s.call = None
    BY <1>2, <1>3 DEF Unheard
  <2>3. Loads(s) = {}
    BY <1>8
  <2>4. s.local # None /\ s.local.id # None => Owner(s.local.id, s.local.text.work)
    BY <1>3 DEF Owned
  <2> QED
    BY <1>4, <1>12, <2>1, <2>2, <2>3, <2>4 DEF Owned
<1> QED
  BY <1>1, <1>9, <1>13

LEMMA OwnFresh ==
  ASSUME DeviceOwned, NEW s \in Composers, Blank(s), s.phase = "listing", s.list = <<>>, s.local = device
  PROVE  InOrder(s) /\ Owned(s)
<1>0. Unheard(s)
  BY DEF Blank, Unheard
<1>1. Saves(s) = {} /\ Loads(s) = {} /\ Meant(s) = {}
  BY <1>0, UnheardIs
<1>2. InOrder(s)
  BY <1>0, <1>1 DEF InOrder, Blank
<1>3. Single(s.list) /\ ToSet(s.list) = {}
  BY DEF Single, ToSet
<1>4. Owned(s)
  BY <1>1, <1>3 DEF Owned, Blank, DeviceOwned
<1> QED
  BY <1>2, <1>4

\* As long as ids keep their works, so does what the mounts hold.
OwnersStay == made <= made' /\ \A id \in Ids : \A work : Owner(id, work) => Owner(id, work)'

LEMMA OwnedStays ==
  ASSUME OwnersStay, NEW r \in Composers, Owned(r)
  PROVE  Owned(r)'
<1>1. /\ r.list \in Seq(Listed) /\ r.chain \in Seq(Chained) /\ r.current \in Ids \cup {None}
      /\ r.call \in Calls \cup {None} /\ r.local \in Copies \cup {None}
  BY DEF Composers
<1>2. \A d \in ToSet(r.list) : d.id \in Ids
  BY <1>1, ListedAre
<1>3. \A i \in Loads(r) : r.chain[i].draft # None => r.chain[i].draft.id \in Ids
  <2> SUFFICES ASSUME NEW i \in Loads(r), r.chain[i].draft # None PROVE r.chain[i].draft.id \in Ids
    OBVIOUS
  <2>1. r.chain[i].draft \in Listed
    BY <1>1, ChainParts DEF Loads
  <2> QED
    BY <2>1 DEF Listed
<1>4. r.call # None /\ r.call.id # None => r.call.id \in Ids
  BY <1>1, CallsAre
<1>5. r.local # None /\ r.local.id # None => r.local.id \in Ids
  BY <1>1 DEF Copies
<1> QED
  BY <1>1, <1>2, <1>3, <1>4, <1>5 DEF OwnersStay, Owned

LEMMA ServerStays ==
  ASSUME UNCHANGED server
  PROVE  /\ made \in Nat => OwnersStay
         /\ DraftsOwned => DraftsOwned'
BY DEF OwnersStay, Owner, DraftsOwned, server

\* One mount moves, and the rest hold what they held.
LEMMA OwnTurn ==
  ASSUME Typed, OwnInv, NEW m \in Mounts, NEW r \in Composers, NEW s \in Composers, Turns(m, r, s),
         InOrder(s), Owned(s), UNCHANGED server, DeviceOwned'
  PROVE  OwnInv' /\ OwnersStay
<1>1. OwnersStay /\ DraftsOwned'
  BY ServerStays DEF Typed, TypeOK, OwnInv
<1>2. mount'[m] = s /\ \A l \in Mounts : l # m => mount'[l] = mount[l]
  BY MountMoves DEF Turns
<1>3. ASSUME NEW l \in Mounts PROVE InOrder(mount'[l]) /\ Owned(mount[l])'
  <2>1. PICK q \in Composers : q = (IF l = m THEN s ELSE mount[l]) /\ InOrder(q) /\ Owned(q)
    <3>1. CASE l = m
      BY <3>1
    <3>2. CASE l # m
      BY <3>2, Record DEF OwnInv
    <3> QED
      BY <3>1, <3>2
  <2>2. mount'[l] = q
    BY <1>2, <2>1
  <2>3. Owned(q)'
    BY <1>1, <2>1, OwnedStays
  <2>4. Owned(mount[l])'
    BY <2>2, <2>3 DEF Owned
  <2> QED
    BY <2>1, <2>2, <2>4
<1> QED
  BY <1>1, <1>3 DEF OwnInv

\* What the device is given goes with the draft it is of.
LEMMA DeviceGiven ==
  ASSUME NEW id \in Ids \cup {None}, NEW text \in Texts, NEW newer \in BOOLEAN,
         id # None => Owner(id, text.work), UNCHANGED server, device' = Copy(id, text, newer)
  PROVE  DeviceOwned'
<1>1. PICK copy \in Copies : copy = device' /\ copy.id = id /\ copy.text = text
  BY CopyIs
<1>2. id # None => Owner(id, text.work)'
  BY DEF Owner, server
<1> QED
  BY <1>1, <1>2 DEF DeviceOwned

LEMMA DeviceStays ==
  ASSUME DeviceOwned, UNCHANGED server, device' = device \/ device' = None
  PROVE  DeviceOwned'
BY DEF DeviceOwned, Owner, server

LEMMA OwnSave ==
  ASSUME Typed, OwnInv, NEW m \in Mounts, Save(m)
  PROVE  OwnInv' /\ OwnersStay
<1>1. PICK c \in Calls, id \in Ids, found \in BOOLEAN :
           /\ mount[m].call = c /\ c.at = "sent"
           /\ c.id = None => id = made + 1 /\ made' = made + 1 /\ found
           /\ c.id # None => id = c.id /\ made' = made /\ (found <=> Stored(id))
           /\ drafts' = IF found THEN SaveIn(drafts, id, c.text) ELSE drafts
           /\ device' = IF found THEN Older(device, id) ELSE device
           /\ mount' \in [Mounts -> Composers] /\ AllSound'
           /\ \A l \in Mounts :
                /\ Same(mount'[l], mount[l])
                /\ mount'[l].call = IF l = m THEN Answered(c, id, found) ELSE mount[l].call
                /\ mount'[l].local = IF found /\ mount[l].phase = "listing"
                                     THEN Older(mount[l].local, id) ELSE mount[l].local
  BY SaveMoves
<1>2. /\ drafts \in Seq(Listed) /\ Single(drafts) /\ made \in Nat /\ id \in Nat /\ c.text \in Texts
      /\ c.id \in Ids \cup {None} /\ c # None
  BY CallsAre DEF Typed, TypeOK, OwnInv, DraftsOwned, Ids
<1>3. c.id # None => Owner(id, c.text.work)
  BY <1>1, <1>2 DEF OwnInv, Owned
<1> DEFINE e == [id |-> id, text |-> c.text]
<1>4. ToSet(drafts') = IF found THEN {e} \cup {d \in ToSet(drafts) : d.id # id} ELSE ToSet(drafts)
  BY <1>1, <1>2, SaveInIs
<1>5. Single(drafts')
  BY <1>1, <1>2, SaveInIs
<1>6. \A d \in ToSet(drafts) : d.id <= made /\ d.id \in Ids
  <2>1. \A d \in ToSet(drafts) : d.id \in Ids
    <3>1. PICK list \in Seq(Listed) : list = drafts
      BY <1>2
    <3> QED
      BY <3>1, ListedAre
  <2> QED
    BY <2>1 DEF OwnInv, DraftsOwned
<1>7. e.id = id /\ e.text = c.text
  OBVIOUS
<1> HIDE DEF e
<1>8. made' \in Nat /\ made <= made' /\ id <= made'
  <2>1. CASE c.id = None
    BY <1>1, <1>2, <2>1
  <2>2. CASE c.id # None
    BY <1>1, <1>2, <1>3, <2>2 DEF Owner
  <2> QED
    BY <2>1, <2>2
<1>9. Owner(id, c.text.work)'
  <2>1. \A d \in ToSet(drafts') : d.id = id => d.text.work = c.text.work
    <3>1. CASE found
      BY <1>4, <1>7, <3>1
    <3>2. CASE ~found
      BY <1>1, <1>3, <1>4, <3>2 DEF Owner
    <3> QED
      BY <3>1, <3>2
  <2> QED
    BY <1>8, <2>1 DEF Owner
<1>10. OwnersStay
  <2>1. ASSUME NEW x \in Ids, NEW work, Owner(x, work) PROVE Owner(x, work)'
    <3>1. x <= made /\ \A d \in ToSet(drafts) : d.id = x => d.text.work = work
      BY <2>1 DEF Owner
    <3>2. x = id /\ found => c.text.work = work
      <4> SUFFICES ASSUME x = id, found PROVE c.text.work = work
        OBVIOUS
      <4>1. c.id # None
        <5>1. ~(made + 1 <= made)
          BY <1>2
        <5> QED
          BY <1>1, <3>1, <5>1
      <4>2. PICK i \in DOMAIN drafts : drafts[i].id = id
        BY <1>1, <4>1 DEF Stored
      <4>3. drafts[i] \in ToSet(drafts)
        BY DEF ToSet
      <4> QED
        BY <1>3, <3>1, <4>1, <4>2, <4>3 DEF Owner
    <3>3. \A d \in ToSet(drafts') : d.id = x => d.text.work = work
      BY <1>4, <1>7, <3>1, <3>2
    <3>4. x <= made'
      <4>1. made' = made \/ made' = made + 1
        BY <1>1
      <4>2. CASE made' = made
        BY <3>1, <4>2
      <4>3. CASE made' = made + 1
        BY <1>2, <3>1, <4>3 DEF Ids
      <4> QED
        BY <4>1, <4>2, <4>3
    <3> QED
      BY <3>3, <3>4 DEF Owner
  <2> QED
    BY <1>8, <2>1 DEF OwnersStay
<1>11. DraftsOwned'
  <2>1. \A d \in ToSet(drafts') : d.id <= made'
    <3> SUFFICES ASSUME NEW d \in ToSet(drafts') PROVE d.id <= made'
      OBVIOUS
    <3>1. CASE d \in ToSet(drafts)
      <4>1. d.id \in Nat /\ d.id <= made
        BY <1>6, <3>1 DEF Ids
      <4> QED
        BY <1>2, <1>8, <4>1
    <3>2. CASE d = e
      BY <1>7, <1>8, <3>2
    <3> QED
      BY <1>4, <3>1, <3>2
  <2> QED
    BY <1>5, <2>1 DEF DraftsOwned
<1>12. DeviceOwned'
  <2>1. PICK copy \in Copies \cup {None} : copy = device
    BY DEF Typed, TypeOK
  <2>2. copy # None /\ copy.id # None => Owner(copy.id, copy.text.work)'
    BY <1>10, <2>1 DEF OwnersStay, OwnInv, DeviceOwned, Copies
  <2>3. PICK new \in Copies \cup {None} : new = device'
    BY <1>1, <2>1, OlderIs
  <2>4. new # None => copy # None /\ new.id = copy.id /\ new.text = copy.text
    BY <1>1, <2>1, <2>3, OlderIs
  <2> QED
    BY <2>2, <2>3, <2>4 DEF DeviceOwned
<1>13. ASSUME NEW l \in Mounts PROVE InOrder(mount'[l]) /\ Owned(mount[l])'
  <2>1. PICK r \in Composers : r = mount[l] /\ InOrder(r) /\ Owned(r)
    BY Record DEF OwnInv
  <2>2. PICK s \in Composers : s = mount'[l]
    BY <1>1
  <2>3. /\ Same(s, r)
        /\ s.call = IF l = m THEN Answered(c, id, found) ELSE r.call
        /\ s.local = IF found /\ r.phase = "listing" THEN Older(r.local, id) ELSE r.local
    BY <1>1, <2>1, <2>2
  <2>4. Saves(s) = Saves(r) /\ Loads(s) = Loads(r) /\ Meant(s) = Meant(r)
    BY <2>3 DEF Same, Saves, Loads, Meant
  <2>5. l = m => r.call = c
    BY <1>1, <2>1
  <2>6. InOrder(s)
    <3>1. Unheard(r) => Unheard(s)
      BY <1>2, <2>3, <2>5 DEF Same, Unheard
    <3> QED
      BY <2>1, <2>3, <2>4, <3>1 DEF Same, InOrder
  <2>7. Owned(r)'
    BY <1>10, <2>1, OwnedStays
  <2>8. s.call # None /\ s.call.id # None => Owner(s.call.id, s.call.text.work)'
    <3>1. CASE l = m
      BY <1>9, <2>3, <3>1, AnsweredIs
    <3>2. CASE l # m
      BY <2>3, <2>7, <3>2 DEF Owned
    <3> QED
      BY <3>1, <3>2
  <2>9. s.local # None /\ s.local.id # None => Owner(s.local.id, s.local.text.work)'
    <3>1. PICK copy \in Copies \cup {None} : copy = r.local
      BY DEF Composers
    <3>2. s.local # None => copy # None /\ s.local.id = copy.id /\ s.local.text = copy.text
      BY <2>3, <3>1, OlderIs
    <3> QED
      BY <2>7, <3>1, <3>2 DEF Owned
  <2>10. Owned(s)'
    BY <2>3, <2>4, <2>7, <2>8, <2>9 DEF Same, Owned
  <2>11. Owned(mount[l])'
    BY <2>2, <2>10 DEF Owned
  <2> QED
    BY <2>2, <2>6, <2>11
<1> QED
  BY <1>10, <1>11, <1>12, <1>13 DEF OwnInv

LEMMA OwnDestroy ==
  ASSUME Typed, OwnInv, NEW id \in deleting, Destroy(id)
  PROVE  OwnInv' /\ OwnersStay
<1>1. drafts \in Seq(Listed) /\ Single(drafts) /\ made \in Nat
  BY DEF Typed, TypeOK, OwnInv, DraftsOwned
<1>2. made' = made /\ device' = device /\ mount' = mount /\ drafts' \in {drafts, Without(drafts, id)}
  BY DEF Destroy
<1>3. Single(drafts') /\ ToSet(drafts') \subseteq ToSet(drafts)
  <2>1. /\ Single(Without(drafts, id))
        /\ ToSet(Without(drafts, id)) = {d \in ToSet(drafts) : d.id # id}
    BY <1>1, WithoutIs
  <2> QED
    BY <1>1, <1>2, <2>1
<1>4. OwnersStay
  BY <1>1, <1>2, <1>3 DEF OwnersStay, Owner
<1>5. DraftsOwned'
  BY <1>2, <1>3 DEF OwnInv, DraftsOwned
<1>6. DeviceOwned'
  <2>1. PICK copy \in Copies \cup {None} : copy = device /\ copy = device'
    BY <1>2 DEF Typed, TypeOK
  <2>2. copy # None /\ copy.id # None => Owner(copy.id, copy.text.work)'
    BY <1>4, <2>1 DEF OwnersStay, OwnInv, DeviceOwned, Copies
  <2> QED
    BY <2>1, <2>2 DEF DeviceOwned
<1>7. ASSUME NEW l \in Mounts PROVE InOrder(mount'[l]) /\ Owned(mount[l])'
  <2>1. PICK r \in Composers : r = mount[l] /\ r = mount'[l] /\ InOrder(r) /\ Owned(r)
    BY <1>2, Record DEF OwnInv
  <2>2. Owned(r)'
    BY <1>4, <2>1, OwnedStays
  <2>3. Owned(mount[l])'
    BY <2>1, <2>2 DEF Owned
  <2> QED
    BY <2>1, <2>3
<1> QED
  BY <1>4, <1>5, <1>6, <1>7 DEF OwnInv

LEMMA OwnCloseTab ==
  ASSUME Typed, OwnInv, CloseTab
  PROVE  OwnInv' /\ OwnersStay
<1>1. UNCHANGED server
  BY DEF CloseTab
<1>2. OwnersStay /\ DraftsOwned'
  BY <1>1, ServerStays DEF Typed, TypeOK, OwnInv
<1>3. DeviceOwned'
  <2>1. CASE device' = device
    BY <1>1, <2>1, DeviceStays DEF OwnInv
  <2>2. CASE device' # device
    <3>1. PICK r \in Composers, m \in Mounts : r = mount[m] /\ r.field # None /\ device' = Copy(r.current, r.field, TRUE)
      BY <2>2, CloseTabMoves
    <3>2. r.current \in Ids \cup {None} /\ r.field \in Texts
      BY <3>1 DEF Composers
    <3>3. r.current # None => Owner(r.current, r.field.work)
      BY <3>1 DEF OwnInv, Owned, InOrder
    <3> QED
      BY <1>1, <3>1, <3>2, <3>3, DeviceGiven
  <2> QED
    BY <2>1, <2>2
<1>4. ASSUME NEW l \in Mounts PROVE InOrder(mount'[l]) /\ Owned(mount[l])'
  <2>1. PICK r \in Composers : r = mount[l] /\ InOrder(r) /\ Owned(r)
    BY Record DEF OwnInv
  <2>2. PICK s \in Composers :
          /\ s = mount'[l]
          /\ s = r \/ (s.phase = "closed" /\ Blank(s) /\ s.list = <<>> /\ s.local = None)
    BY <2>1, CloseTabMoves
  <2>3. InOrder(s) /\ Owned(s)
    <3>1. CASE s = r
      BY <2>1, <3>1
    <3>2. CASE s.phase = "closed" /\ Blank(s) /\ s.list = <<>> /\ s.local = None
      <4>0. Unheard(s)
        BY <3>2 DEF Blank, Unheard
      <4>1. Saves(s) = {} /\ Loads(s) = {} /\ Meant(s) = {}
        BY <4>0, UnheardIs
      <4>2. InOrder(s)
        BY <3>2, <4>1 DEF InOrder, Blank
      <4>3. Single(s.list) /\ ToSet(s.list) = {}
        BY <3>2 DEF Single, ToSet
      <4>4. Owned(s)
        BY <3>2, <4>1, <4>3 DEF Owned, Blank
      <4> QED
        BY <4>2, <4>4
    <3> QED
      BY <2>2, <3>1, <3>2
  <2>4. Owned(s)'
    BY <1>2, <2>3, OwnedStays
  <2>5. Owned(mount[l])'
    BY <2>2, <2>4 DEF Owned
  <2> QED
    BY <2>2, <2>3, <2>5
<1> QED
  BY <1>2, <1>3, <1>4 DEF OwnInv

\* One mount's step but for Save.
LEMMA OwnMoves ==
  ASSUME Typed, OwnInv, Waited', NEW m \in Mounts,
         \/ Open(m) \/ Type(m) \/ Empty(m) \/ StartNew(m) \/ Discard(m) \/ Close(m)
         \/ \E d \in ToSet(mount[m].list) : SwitchTo(m, d)
         \/ LocalTimer(m) \/ ServerTimer(m) \/ EmptyTimer(m)
         \/ List(m) \/ Loaded(m) \/ StartSave(m) \/ StartLoad(m) \/ StartDiscard(m)
         \/ Fail(m) \/ Saved(m) \/ Failed(m)
  PROVE  OwnInv' /\ OwnersStay
<1> DEFINE Goes(r, s) == Turns(m, r, s) /\ InOrder(s) /\ Owned(s) /\ UNCHANGED server /\ DeviceOwned'
<1>1. PICK q \in Composers : q = mount[m] /\ Sound(q) /\ InOrder(q) /\ Owned(q)
  BY Record DEF OwnInv
<1>2. \A s : Turns(m, q, s) => \A r : Turns(m, r, s) => r = q
  BY <1>1 DEF Turns
<1>3. \A r, s : Turns(m, r, s) => r = q
  BY <1>1 DEF Turns
<1>4. DeviceOwned /\ DraftsOwned
  BY DEF OwnInv
<1>5. SUFFICES \E s \in Composers : Goes(q, s)
  BY OwnTurn
<1>6. ASSUME NEW kinds, InTheWay(Waits(m) \cup kinds) PROVE Loads(q) = {}
  <2>1. "switch" \notin Waits(m)
    BY <1>6, TroubleGrows DEF Waited, Spared
  <2> QED
    BY <1>1, <2>1 DEF Waits, AskedFor, Loads
<1>7. CASE Open(m)
  <2>1. PICK r \in Composers, s \in Composers :
           Turns(m, r, s) /\ Blank(s) /\ s.phase = "listing" /\ s.local = device /\ s.list = <<>>
    BY <1>7, OpenMoves
  <2>2. InOrder(s) /\ Owned(s)
    BY <1>4, <2>1, OwnFresh
  <2>3. UNCHANGED server /\ DeviceOwned'
    BY <1>4, <1>7, DeviceStays DEF Open
  <2> QED
    BY <1>3, <2>1, <2>2, <2>3
<1>8. CASE Type(m)
  <2>1. PICK r \in Composers, s \in Composers, text \in Texts :
           /\ Turns(m, r, s)
           /\ text.work = IF r.work = 0 THEN typed + 1 ELSE r.work
           /\ s = IF r.phase = "open" THEN Written(r, text) ELSE Scribbled(r, text)
    BY <1>8, TypeMoves
  <2>2. q.phase \in {"listing", "listed", "open"} /\ Loads(q) = {}
    <3>1. InTheWay(Waits(m) \cup {})
      BY <1>8 DEF Type
    <3> QED
      BY <1>1, <1>6, <1>8, <3>1 DEF Type, Here
  <2>3. InOrder(s) /\ Owned(s)
    <3>1. CASE q.phase = "open"
      BY <1>1, <1>3, <2>1, <2>2, <3>1, OwnWritten
    <3>2. CASE q.phase # "open"
      BY <1>1, <1>3, <2>1, <2>2, <3>2, OwnScribbled
    <3> QED
      BY <3>1, <3>2
  <2>4. UNCHANGED server /\ DeviceOwned'
    BY <1>4, <1>8, DeviceStays DEF Type
  <2> QED
    BY <1>3, <2>1, <2>3, <2>4
<1>9. CASE Empty(m)
  <2>1. PICK r \in Composers, s \in Composers : Turns(m, r, s) /\ s = Written(r, None)
    BY <1>9, EmptyMoves
  <2>2. InOrder(s) /\ Owned(s)
    <3>1. q.phase # "closed"
      BY <1>1, <1>9 DEF Empty, Here
    <3> QED
      BY <1>1, <1>3, <2>1, <3>1, OwnEmptied
  <2>3. UNCHANGED server /\ DeviceOwned'
    BY <1>4, <1>9, DeviceStays DEF Empty
  <2> QED
    BY <1>3, <2>1, <2>2, <2>3
<1>10. CASE StartNew(m)
  <2>1. PICK r \in Composers, s \in Composers : Turns(m, r, s) /\ s = Queued(r, None) /\ r.phase = "open"
    BY <1>10, StartNewMoves
  <2>2. Loads(q) = {}
    <3>1. InTheWay(Waits(m) \cup {})
      BY <1>10 DEF StartNew
    <3> QED
      BY <1>6, <3>1
  <2>3. InOrder(s) /\ Owned(s)
    BY <1>1, <1>3, <2>1, <2>2, OwnQueued
  <2>4. UNCHANGED server /\ DeviceOwned'
    BY <1>4, <1>10, DeviceStays DEF StartNew
  <2> QED
    BY <1>3, <2>1, <2>3, <2>4
<1>11. CASE Discard(m)
  <2>1. PICK r \in Composers, s \in Composers : Turns(m, r, s) /\ s = Blanked(r)
    BY <1>11, DiscardMoves
  <2>2. InOrder(s) /\ Owned(s)
    BY <1>1, <1>3, <2>1, OwnForget
  <2>3. UNCHANGED server /\ DeviceOwned'
    BY <1>4, <1>11, DeviceStays DEF Discard
  <2> QED
    BY <1>3, <2>1, <2>2, <2>3
<1>12. CASE Close(m)
  <2>1. PICK r \in Composers, s \in Composers : Turns(m, r, s) /\ s = Closed(r)
    BY <1>12, CloseMoves
  <2>2. InOrder(s) /\ Owned(s)
    BY <1>1, <1>3, <2>1, OwnClosed
  <2>3. UNCHANGED server /\ DeviceOwned'
    BY <1>4, <1>12, DeviceStays DEF Close
  <2> QED
    BY <1>3, <2>1, <2>2, <2>3
<1>13. ASSUME NEW d \in ToSet(mount[m].list), SwitchTo(m, d) PROVE \E s \in Composers : Goes(q, s)
  <2>1. PICK r \in Composers, s \in Composers :
           Turns(m, r, s) /\ s = Queued(r, d) /\ r.phase = "open" /\ d \in ToSet(r.list)
    BY <1>13, SwitchToMoves
  <2>2. d \in Listed /\ Loads(q) = {}
    <3>1. InTheWay(Waits(m) \cup {})
      BY <1>13 DEF SwitchTo
    <3> QED
      BY <1>6, <1>13, <3>1, SwitchToMoves
  <2>3. Owner(d.id, d.text.work)
    BY <1>1, <1>3, <2>1 DEF Owned
  <2>4. InOrder(s) /\ Owned(s)
    BY <1>1, <1>3, <2>1, <2>2, <2>3, OwnQueued
  <2>5. UNCHANGED server /\ DeviceOwned'
    BY <1>4, <1>13, DeviceStays DEF SwitchTo
  <2> QED
    BY <1>3, <2>1, <2>4, <2>5
<1>14. CASE LocalTimer(m)
  <2>1. PICK r \in Composers, s \in Composers :
           /\ Turns(m, r, s) /\ s = [r EXCEPT !.localDue = FALSE] /\ r.field # None
           /\ device' = Copy(r.current, r.field, TRUE) /\ r = q /\ r.localDue
    BY <1>3, <1>14, LocalTimerMoves
  <2>2. /\ s.chain = r.chain /\ s.phase = r.phase /\ s.work = r.work /\ s.current = r.current
        /\ s.list = r.list /\ s.call = r.call /\ s.local = r.local /\ s.pending = r.pending
        /\ s.field = r.field /\ s.emptyDue = r.emptyDue
    BY <2>1 DEF Composers
  <2>3. s.phase \notin {"none", "listing", "listed"} /\ (s.emptyDue => s.field = None)
    BY <1>1, <2>1, <2>2 DEF InOrder, Unheard
  <2>4. InOrder(s) /\ Owned(s)
    BY <1>1, <2>1, <2>2, <2>3, OwnKept
  <2>5. UNCHANGED server
    BY <1>14 DEF LocalTimer
  <2>6. r.current \in Ids \cup {None} /\ r.field \in Texts /\ (r.current # None => Owner(r.current, r.field.work))
    BY <1>1, <2>1 DEF Composers, Owned, InOrder
  <2>7. DeviceOwned'
    BY <2>1, <2>5, <2>6, DeviceGiven
  <2> QED
    BY <2>1, <2>4, <2>5, <2>7
<1>15. CASE ServerTimer(m)
  <2>1. PICK r \in Composers, s \in Composers : Turns(m, r, s) /\ s = Flushed(r) /\ r.serverDue
    BY <1>15, ServerTimerMoves
  <2>2. q.phase \in {"open", "closed"}
    BY <1>1, <1>3, <2>1 DEF InOrder, Unheard, Composers
  <2>3. InOrder(s) /\ Owned(s)
    BY <1>1, <1>3, <2>1, <2>2, OwnFlushed
  <2>4. UNCHANGED server /\ DeviceOwned'
    BY <1>4, <1>15, DeviceStays DEF ServerTimer
  <2> QED
    BY <1>3, <2>1, <2>3, <2>4
<1>16. CASE EmptyTimer(m)
  <2>1. PICK r \in Composers, s \in Composers : Turns(m, r, s) /\ s = Forget(r) /\ r.emptyDue
    BY <1>16, EmptyTimerMoves
  <2>2. InOrder(s) /\ Owned(s)
    BY <1>1, <1>3, <2>1, OwnForget
  <2>3. UNCHANGED server /\ DeviceOwned'
    BY <1>4, <1>16, DeviceStays DEF EmptyTimer
  <2> QED
    BY <1>3, <2>1, <2>2, <2>3
<1>17. CASE List(m)
  <2>1. PICK r \in Composers, s \in Composers :
           /\ Turns(m, r, s) /\ r.phase = "listing" /\ r = q
           /\ s = [r EXCEPT !.phase = "listed", !.list = drafts] \/ s = [r EXCEPT !.phase = "listed"]
    BY <1>3, <1>17, ListMoves
  <2>2. /\ s.phase = "listed" /\ s.chain = r.chain /\ s.work = r.work /\ s.current = r.current
        /\ s.list \in {r.list, drafts} /\ s.call = r.call /\ s.local = r.local /\ s.pending = r.pending
        /\ s.sent = r.sent /\ s.localDue = r.localDue /\ s.serverDue = r.serverDue
        /\ s.field = r.field /\ s.emptyDue = r.emptyDue
    BY <2>1 DEF Composers
  <2>3. Unheard(s)
    BY <1>1, <2>1, <2>2 DEF InOrder, Unheard
  <2>4. Saves(s) = {} /\ Loads(s) = {} /\ Meant(s) = {}
    BY <2>3, UnheardIs
  <2>5. InOrder(s)
    BY <1>1, <2>1, <2>2, <2>3, <2>4 DEF InOrder, Unheard
  <2>6. \A d \in ToSet(drafts) : Owner(d.id, d.text.work)
    BY <1>4 DEF DraftsOwned, Single, Owner, ToSet
  <2>7. Single(s.list) /\ \A d \in ToSet(s.list) : Owner(d.id, d.text.work)
    BY <1>1, <1>4, <2>1, <2>2, <2>6 DEF Owned, DraftsOwned
  <2>8. Owned(s)
    BY <1>1, <2>1, <2>2, <2>3, <2>4, <2>7 DEF Owned, Unheard
  <2>9. UNCHANGED server /\ DeviceOwned'
    BY <1>4, <1>17, DeviceStays DEF List
  <2> QED
    BY <2>1, <2>5, <2>8, <2>9
<1>18. CASE Loaded(m)
  <2>1. PICK r \in Composers, s \in Composers, resume \in BOOLEAN :
           Turns(m, r, s) /\ r.phase = "listed" /\ s = Opened(r, resume)
    BY <1>18, LoadedMoves
  <2>2. InOrder(s) /\ Owned(s)
    BY <1>1, <1>3, <2>1, OwnOpened
  <2>3. UNCHANGED server /\ DeviceOwned'
    BY <1>4, <1>18, DeviceStays DEF Loaded
  <2> QED
    BY <1>3, <2>1, <2>2, <2>3
<1>19. CASE StartSave(m)
  <2>1. PICK r \in Composers, s \in Composers :
           /\ Turns(m, r, s) /\ r.chain # <<>> /\ r.call = None /\ Head(r.chain).do = "save"
           /\ s = IF Head(r.chain).forgotten \/ (Head(r.chain).text = r.sent /\ r.current # None)
                  THEN Advanced(r) ELSE Called(r)
    BY <1>19, StartSaveMoves
  <2>2. InOrder(s) /\ Owned(s)
    BY <1>1, <1>3, <2>1, OwnAdvanced, OwnCalled
  <2>3. UNCHANGED server /\ DeviceOwned'
    BY <1>4, <1>19, DeviceStays DEF StartSave
  <2> QED
    BY <1>3, <2>1, <2>2, <2>3
<1>20. CASE StartLoad(m)
  <2>1. PICK r \in Composers, s \in Composers, draft \in Listed \cup {None} :
           /\ Turns(m, r, s) /\ r.chain # <<>> /\ r.call = None
           /\ Head(r.chain).do = "load" /\ Head(r.chain).draft = draft
           /\ s = Load(Advanced(r), draft) /\ r = q
    BY <1>3, <1>20, StartLoadMoves
  <2>2. 1 \in Loads(r) /\ Head(r.chain) = r.chain[1]
    BY <2>1, HeadIs
  <2>3. PICK a \in Composers : a = Advanced(r) /\ a.phase = r.phase
    BY <2>1, AdvancedIs
  <2>4. InOrder(a) /\ Owned(a) /\ Saves(a) = {} /\ Loads(a) = {} /\ a.phase \in {"open", "closed"}
    <3>1. r.phase \in {"open", "closed"}
      BY <1>1, <2>1 DEF InOrder, Unheard, Composers
    <3> QED
      BY <1>1, <2>1, <2>2, <2>3, <3>1, OwnAdvanced
  <2>5. draft # None => Owner(draft.id, draft.text.work)
    BY <1>1, <2>1, <2>2 DEF Owned
  <2>6. InOrder(s) /\ Owned(s)
    BY <2>1, <2>3, <2>4, <2>5, OwnLoad
  <2>7. UNCHANGED server /\ DeviceOwned'
    BY <1>4, <1>20, DeviceStays DEF StartLoad
  <2> QED
    BY <2>1, <2>6, <2>7
<1>21. CASE StartDiscard(m)
  <2>1. PICK r \in Composers, s \in Composers :
           Turns(m, r, s) /\ r.chain # <<>> /\ r.call = None /\ s = Advanced(r)
    BY <1>21, StartDiscardMoves
  <2>2. InOrder(s) /\ Owned(s)
    BY <1>1, <1>3, <2>1, OwnAdvanced
  <2>3. UNCHANGED server /\ DeviceOwned'
    BY <1>4, <1>21, DeviceStays DEF StartDiscard
  <2> QED
    BY <1>3, <2>1, <2>2, <2>3
<1>22. CASE Fail(m)
  <2>1. PICK r \in Composers, s \in Composers, c \in Calls :
           /\ Turns(m, r, s) /\ r.call # None /\ s = [r EXCEPT !.call = c]
           /\ c.id = r.call.id /\ c.text = r.call.text /\ r = q
    BY <1>3, <1>22, FailMoves
  <2>2. /\ s.chain = r.chain /\ s.phase = r.phase /\ s.work = r.work /\ s.current = r.current
        /\ s.list = r.list /\ s.call = c /\ s.local = r.local /\ s.pending = r.pending
        /\ s.field = r.field /\ s.emptyDue = r.emptyDue
    BY <2>1 DEF Composers
  <2>3. s.phase \notin {"none", "listing", "listed"}
    BY <1>1, <2>1, <2>2 DEF InOrder, Unheard
  <2>4. Saves(s) = Saves(r) /\ Loads(s) = Loads(r) /\ Meant(s) = Meant(r)
    BY <2>2 DEF Saves, Loads, Meant
  <2>5. InOrder(s)
    BY <1>1, <2>1, <2>2, <2>3, <2>4 DEF InOrder
  <2>6. Owned(s)
    BY <1>1, <2>1, <2>2, <2>4 DEF Owned
  <2>7. UNCHANGED server /\ DeviceOwned'
    BY <1>4, <1>22, DeviceStays DEF Fail
  <2> QED
    BY <2>1, <2>5, <2>6, <2>7
<1>23. CASE Saved(m)
  <2>1. PICK r \in Composers, s \in Composers :
           /\ Turns(m, r, s) /\ r.call # None /\ r.call.at = "saved" /\ r.chain # <<>> /\ r = q
           /\ \/ /\ r.call.forgotten /\ s = Done(r) /\ UNCHANGED device
              \/ /\ ~r.call.forgotten /\ s = Put(r)
                 /\ device' = IF device # None /\ device.text = r.call.text
                              THEN Copy(r.call.id, r.call.text, FALSE) ELSE device
    BY <1>3, <1>23, SavedMoves
  <2>2. InOrder(s) /\ Owned(s)
    BY <1>1, <2>1, OwnAdvanced, OwnPut
  <2>3. UNCHANGED server
    BY <1>23 DEF Saved, SavedAs
  <2>4. CASE device' = device
    <3>1. DeviceOwned'
      BY <1>4, <2>3, <2>4, DeviceStays
    <3> QED
      BY <2>1, <2>2, <2>3, <3>1
  <2>5. CASE device' # device
    <3>1. device' = Copy(r.call.id, r.call.text, FALSE)
      BY <2>1, <2>5
    <3>2. r.call.id \in Ids /\ r.call.text \in Texts
      BY <2>1, CallsAre DEF Composers
    <3>3. r.call.id # None => Owner(r.call.id, r.call.text.work)
      BY <1>1, <2>1 DEF Owned
    <3>4. DeviceOwned'
      BY <2>3, <3>1, <3>2, <3>3, DeviceGiven
    <3> QED
      BY <2>1, <2>2, <2>3, <3>4
  <2> QED
    BY <2>4, <2>5
<1>24. CASE Failed(m)
  <2>1. PICK r \in Composers, s \in Composers : Turns(m, r, s) /\ r.chain # <<>> /\ s = Done(r)
    BY <1>24, FailedMoves
  <2>2. InOrder(s) /\ Owned(s)
    BY <1>1, <1>3, <2>1, OwnAdvanced
  <2>3. UNCHANGED server /\ DeviceOwned'
    BY <1>4, <1>24, DeviceStays DEF Failed
  <2> QED
    BY <1>3, <2>1, <2>2, <2>3
<1> QED
  BY <1>7, <1>8, <1>9, <1>10, <1>11, <1>12, <1>13, <1>14, <1>15, <1>16, <1>17, <1>18, <1>19, <1>20,
     <1>21, <1>22, <1>23, <1>24

LEMMA OwnInit == Init => OwnInv
<1> SUFFICES ASSUME Init PROVE OwnInv
  OBVIOUS
<1>1. PICK u \in Composers : u = Unopened /\ Blank(u) /\ u.list = <<>>
  BY UnopenedIs
<1>2. \A m \in Mounts : mount[m] = u
  BY <1>1 DEF Init
<1>10. Unheard(u)
  BY <1>1 DEF Blank, Unheard
<1>3. Saves(u) = {} /\ Loads(u) = {} /\ Meant(u) = {}
  BY <1>10, UnheardIs
<1>4. u.phase = "none" /\ u.local = None
  BY <1>1 DEF Unopened
<1>5. InOrder(u)
  BY <1>1, <1>3, <1>4, <1>10 DEF InOrder, Blank
<1>6. Single(u.list) /\ ToSet(u.list) = {}
  BY <1>1 DEF Single, ToSet
<1>7. Owned(u)
  BY <1>1, <1>3, <1>4, <1>6 DEF Owned, Blank
<1>8. DraftsOwned /\ DeviceOwned
  BY DEF Init, DraftsOwned, DeviceOwned, Single, ToSet
<1>9. \A m \in Mounts : InOrder(mount[m]) /\ Owned(mount[m])
  BY <1>2, <1>5, <1>7 DEF Owned
<1> QED
  BY <1>8, <1>9 DEF OwnInv

\* What has gone wrong stays so.
LEMMA TroubleStays == ASSUME Typed, [Next]_vars PROVE trouble \subseteq trouble'
<1>1. CASE UNCHANGED vars
  BY <1>1 DEF vars
<1>2. ASSUME NEW m \in Mounts,
             \/ Open(m) \/ Type(m) \/ Empty(m) \/ StartNew(m) \/ Discard(m) \/ Close(m)
             \/ \E d \in ToSet(mount[m].list) : SwitchTo(m, d)
      PROVE  trouble \subseteq trouble'
  BY <1>2, TroubleGrows DEF Open, Type, Empty, StartNew, Discard, Close, SwitchTo
<1>3. ASSUME NEW m \in Mounts,
             \/ LocalTimer(m) \/ ServerTimer(m) \/ EmptyTimer(m) \/ Loaded(m)
             \/ StartSave(m) \/ StartLoad(m) \/ StartDiscard(m) \/ Save(m)
             \/ Saved(m) \/ Failed(m)
      PROVE  trouble \subseteq trouble'
  BY <1>3 DEF LocalTimer, ServerTimer, EmptyTimer, Loaded, StartSave, StartLoad, StartDiscard, Save,
              Saved, SavedAs, Failed
<1>4. ASSUME NEW m \in Mounts, List(m) \/ Fail(m)
      PROVE  trouble \subseteq trouble'
  BY <1>4, FailureGrows DEF List, Fail
<1>5. CASE CloseTab \/ \E id \in deleting : Destroy(id)
  BY <1>5, FailureGrows DEF CloseTab, Destroy
<1> QED
  BY <1>1, <1>2, <1>3, <1>4, <1>5 DEF Next

\* Whoever waited had waited before.
LEMMA WaitedBefore == ASSUME Typed, [Next]_vars, Waited' PROVE Waited
BY TroubleStays DEF Waited, Spared

LEMMA OwnNext == ASSUME Typed, OwnInv, Waited', Next PROVE OwnInv' /\ OwnersStay
<1>1. CASE CloseTab
  BY <1>1, OwnCloseTab
<1>2. CASE \E id \in deleting : Destroy(id)
  BY <1>2, OwnDestroy
<1>3. CASE \E m \in Mounts : Save(m)
  BY <1>3, OwnSave
<1>4. ASSUME NEW m \in Mounts,
         \/ Open(m) \/ Type(m) \/ Empty(m) \/ StartNew(m) \/ Discard(m) \/ Close(m)
         \/ \E d \in ToSet(mount[m].list) : SwitchTo(m, d)
         \/ LocalTimer(m) \/ ServerTimer(m) \/ EmptyTimer(m)
         \/ List(m) \/ Loaded(m) \/ StartSave(m) \/ StartLoad(m) \/ StartDiscard(m)
         \/ Fail(m) \/ Saved(m) \/ Failed(m)
      PROVE OwnInv' /\ OwnersStay
  BY <1>4, OwnMoves
<1> QED
  BY <1>1, <1>2, <1>3, <1>4 DEF Next

LEMMA OwnStep == Typed /\ Apart /\ [Next]_vars => Apart'
<1> SUFFICES ASSUME Typed, Apart, [Next]_vars, Waited' PROVE OwnInv'
  BY DEF Apart
<1>1. OwnInv
  BY WaitedBefore DEF Apart
<1>2. CASE Next
  BY <1>1, <1>2, OwnNext
<1>3. CASE UNCHANGED vars
  BY SMTT(30), <1>1, <1>3 DEF vars, server, OwnInv, InOrder, Owned, DraftsOwned, DeviceOwned, Owner
<1> QED
  BY <1>2, <1>3

\* A draft that was there before and is there after a step is of the same work.
WorksKept ==
  \A i \in DOMAIN drafts, j \in DOMAIN drafts' :
    drafts[i].id = drafts'[j].id => drafts[i].text.work = drafts'[j].text.work

LEMMA WorksStay == ASSUME Typed, Typed', OwnInv, OwnersStay PROVE WorksKept
<1> SUFFICES ASSUME NEW i \in DOMAIN drafts, NEW j \in DOMAIN drafts', drafts[i].id = drafts'[j].id
             PROVE  drafts[i].text.work = drafts'[j].text.work
  BY DEF WorksKept
<1>1. drafts \in Seq(Listed) /\ drafts' \in Seq(Listed)
  BY DEF Typed, TypeOK
<1>2. drafts[i] \in ToSet(drafts) /\ drafts'[j] \in ToSet(drafts)'
  BY DEF ToSet
<1>3. drafts[i].id \in Ids
  BY <1>1, <1>2, ListedAre
<1>4. Owner(drafts[i].id, drafts[i].text.work)
  <2>1. drafts[i].id <= made
    BY <1>2 DEF OwnInv, DraftsOwned
  <2>2. \A k \in DOMAIN drafts : drafts[k].id = drafts[i].id => k = i
    BY DEF OwnInv, DraftsOwned, Single
  <2> QED
    BY <2>1, <2>2 DEF Owner, ToSet
<1>5. PICK id \in Ids, work \in {drafts[i].text.work} : id = drafts[i].id /\ Owner(id, work)
  BY <1>3, <1>4
<1>6. Owner(id, work)'
  BY <1>5 DEF OwnersStay
<1>7. drafts'[j].text.work = work
  BY <1>2, <1>5, <1>6 DEF Owner
<1> QED
  BY <1>5, <1>7

\* As long as the writer does not go on while a draft asked for waits, none is saved over with
\* another work's text: saves run in order, each under the id of the work it is of.  Signals may
\* be lost, the tab closed, the composer opened anew before its saves are over, written in before
\* its drafts are back, or closed within LOCAL_DEBOUNCE of typing.
THEOREM DraftKeepsItsWork == Spec => OwnWork
<1>1. Init => Typed /\ Apart
  BY TypedInit, OwnInit DEF Apart
<1>2. Typed /\ Apart /\ [Next]_vars => (Typed /\ Apart)' /\ [Waited' => WorksKept]_drafts
  <2> SUFFICES ASSUME Typed, Apart, [Next]_vars
               PROVE  (Typed /\ Apart)' /\ [Waited' => WorksKept]_drafts
    OBVIOUS
  <2>1. Typed' /\ Apart'
    BY TypedStep, OwnStep
  <2>2. CASE Next
    <3>1. ASSUME Waited' PROVE WorksKept
      <4>1. OwnInv
        BY <3>1, WaitedBefore DEF Apart
      <4> QED
        BY <2>1, <2>2, <3>1, <4>1, OwnNext, WorksStay
    <3> QED
      BY <2>1, <3>1
  <2>3. CASE UNCHANGED vars
    BY <2>1, <2>3 DEF vars, server
  <2> QED
    BY <2>2, <2>3
<1>3. [Waited' => WorksKept]_drafts => [Spared({"switch"})' => WorksKept]_drafts
  BY DEF Waited
<1>4. [][Spared({"switch"})' => WorksKept]_drafts => OwnWork
  BY DEF WorksKept, OwnWork
<1> QED
  BY <1>1, <1>2, <1>3, <1>4, PTL DEF Spec

--------------------------------------------------------------------------------
(* Nothing is lost, doubled or back while nothing goes wrong. *)

\* The server has draft id with this text.
StoredAs(id, text) == \E d \in ToSet(drafts) : d.id = id /\ d.text = text

\* The server has no draft of this work.
NoneOf(work) == \A d \in ToSet(drafts) : d.text.work # work

IsSaved(r) == r.call # None /\ r.call.at = "saved"

Stopped(r) == r.phase = "closed" => ~r.localDue /\ ~r.serverDue /\ ~r.emptyDue

Idle(r) ==
  /\ r.phase \in {"none", "closed"} /\ r.chain = <<>>
  /\ ~r.localDue /\ ~r.serverDue /\ ~r.emptyDue

\* The work in hand has no draft, or one of which the id is known or about to be.
Hand(r) ==
  /\ r.work \notin gone /\ r.work <= typed
  /\ r.current = None => NoneOf(r.work) \/ (IsSaved(r) /\ ~r.call.forgotten)
  /\ r.current # None => Stored(r.current)

\* A call under way is of the draft in hand, or of one that was forgotten.
Asked(r) == r.call # None =>
  /\ r.call.at # "failed"
  /\ r.call.at = "sent" =>
       /\ ~r.call.forgotten => r.call.id = r.current
       /\ r.call.id = None => NoneOf(r.call.text.work)
       /\ r.call.id # None => Stored(r.call.id) /\ r.call.id \notin deleting
  /\ r.call.at = "saved" =>
       /\ r.call.id # None
       /\ ~r.call.forgotten => StoredAs(r.call.id, r.call.text) /\ r.current \in {None, r.call.id}
  /\ r.call.forgotten => r.current = None
  /\ r.call.id # r.current => \A d \in ToSet(r.list) : d.id # r.call.id

\* What is listed is on the server as it is listed, unless it has been saved just now.
Offered(r) ==
  \A d \in ToSet(r.list) :
    /\ d.text.work \notin gone
    /\ StoredAs(d.id, d.text) \/ (IsSaved(r) /\ r.call.id = d.id /\ Stored(d.id))

\* What is to be loaded is another draft, and on the server.
Awaited(r) ==
  \A i \in Loads(r) : r.chain[i].draft # None =>
    /\ r.chain[i].draft.text.work \notin gone \cup {r.work}
    /\ StoredAs(r.chain[i].draft.id, r.chain[i].draft.text)

\* A timer is set for what was typed, and what was emptied is not wanted.
Timed(r) ==
  /\ r.localDue /\ Loads(r) = {} =>
       r.pending = r.field /\ r.sent # r.field /\ \A i \in Saves(r) : r.chain[i].text # r.field
  /\ r.emptyDue /\ r.work # 0 => wanted[r.work] = None
  /\ r.pending # None => r.serverDue \/ wanted[r.work] = None

\* The text last sent is what the draft in hand is, or was until just now.
Heard(r) ==
  /\ r.sent # None => r.sent.n <= typed
  /\ r.sent # None /\ r.current # None => StoredAs(r.current, r.sent) \/ IsSaved(r)

\* What is about was typed; what is to be thrown away is of a work that is gone.
Worded(r) ==
  /\ r.field # None => r.field.n <= typed
  /\ r.pending # None => r.pending.n <= typed
  /\ \A i \in Saves(r) : /\ r.chain[i].text.n <= typed
                         /\ r.chain[i].forgotten => r.chain[i].text.work \in gone

\* The last of what is to be saved.
Final(r, text) ==
  \/ r.pending # None /\ r.pending = text
  \/ r.pending = None /\ \E i \in Meant(r) : r.chain[i].text = text /\ \A k \in Meant(r) : k <= i

\* What is in the fields, and what is to be saved last, is what the writer wants.
Newest(r) ==
  /\ r.field # None => wanted[r.work] \in {None, r.field}
  /\ \A t \in Texts : Final(r, t) => wanted[r.work] \in {None, t}

\* A composer opens on what was saved.
Begun(r) ==
  r.phase \in {"listing", "listed"} =>
    /\ deleting = {}
    /\ r.local # None => r.local.id # None /\ ~r.local.newer
    /\ r.field = None /\ r.work = 0

Held(r) ==
  /\ Hand(r) /\ Asked(r) /\ Offered(r) /\ Awaited(r) /\ Timed(r)
  /\ Heard(r) /\ Worded(r) /\ Newest(r) /\ Begun(r)

\* Draft id is about to be deleted.
Doomed(r, id) ==
  \/ id \in deleting
  \/ \E i \in Discards(r) : r.chain[i].id = id
  \/ IsSaved(r) /\ r.call.forgotten /\ r.call.id = id

\* The drafts about to be deleted are those of the works that are gone.
Doom(r) ==
  /\ \A d \in ToSet(drafts) : d.text.work \in gone => Doomed(r, d.id)
  /\ \A id \in Ids : Doomed(r, id) => \E w \in gone : Owner(id, w)

Ahead(r) == r.pending # None \/ Meant(r) # {}

\* The server has what is wanted, or is about to get it.
Latest(r) ==
  \A w \in 1..MaxTyped :
    wanted[w] # None /\ ~(r.work = w /\ Ahead(r)) => \E d \in ToSet(drafts) : d.text = wanted[w]

Unsent(r, text) ==
  text # r.sent /\ ((r.pending # None /\ r.pending = text) \/ \E i \in Meant(r) : r.chain[i].text = text)

\* The device's copy goes, or is of something saved, or about to be.
Left(r) ==
  device # None =>
    /\ device.text.work \notin gone
    /\ (device.id # None /\ ~device.newer) \/ r.localDue \/ Loads(r) # {} \/ Unsent(r, device.text)

World(r) == Doom(r) /\ Latest(r) /\ Left(r)

Bounds ==
  /\ \A d \in ToSet(drafts) : d.text.work <= typed /\ d.text.n <= typed
  /\ gone \subseteq 1..typed
  /\ \A w \in 1..MaxTyped : wanted[w] # None => w <= typed /\ wanted[w].work = w /\ w \notin gone

\* A composer is open, or has something under way, once at a time.
OneBusy ==
  \A l, m \in Mounts :
    l < m /\ mount[m].phase # "none" => mount[l].phase = "closed" /\ mount[l].chain = <<>>

AllElse(m) == \A l \in Mounts : l # m => Idle(mount[l])

AllCalm ==
  \A m \in Mounts : AllElse(m) => World(mount[m]) /\ (Idle(mount[m]) \/ Held(mount[m]))

CalmInv ==
  Bounds /\ NeverTwice /\ OneBusy /\ (\A m \in Mounts : Stopped(mount[m])) /\ AllCalm

Before == Typed /\ OwnInv /\ CalmInv /\ trouble = {}
After == Typed' /\ OwnInv' /\ OwnersStay /\ trouble' = {}

\* Nothing has come in the way.
LEMMA NoneInTheWay ==
  ASSUME After
  PROVE  /\ \A kinds : InTheWay(kinds) => kinds = {}
         /\ \A kind : ~Failure(kind)
BY TroubleGrows, FailureGrows DEF After

\* Of a mount that is idle, nothing counts.
LEMMA IdleIs ==
  ASSUME NEW r \in Composers, Sound(r), InOrder(r), Idle(r)
  PROVE  /\ r.call = None /\ r.pending = None
         /\ Saves(r) = {} /\ Loads(r) = {} /\ Discards(r) = {} /\ Meant(r) = {}
<1>1. Saves(r) = {} /\ Loads(r) = {} /\ Discards(r) = {} /\ Meant(r) = {}
  BY DEF Saves, Loads, Discards, Meant, Idle
<1>2. r.call = None
  BY <1>1 DEF Sound
<1>3. r.pending = None
  BY DEF InOrder, Unheard, Idle
<1> QED
  BY <1>1, <1>2, <1>3

\* What remains of World when all are idle.
Still ==
  /\ \A d \in ToSet(drafts) : d.text.work \in gone => d.id \in deleting
  /\ \A id \in Ids : id \in deleting => \E w \in gone : Owner(id, w)
  /\ \A w \in 1..MaxTyped : wanted[w] # None => \E d \in ToSet(drafts) : d.text = wanted[w]
  /\ device # None => device.text.work \notin gone /\ device.id # None /\ ~device.newer

LEMMA IdleWorld ==
  ASSUME NEW r \in Composers, Sound(r), InOrder(r), Idle(r)
  PROVE  (World(r) => Still) /\ (World(r)' => Still') /\ (Still => World(r)) /\ (Still' => World(r)')
<1>1. /\ r.call = None /\ r.pending = None /\ ~r.localDue
      /\ Saves(r) = {} /\ Loads(r) = {} /\ Discards(r) = {} /\ Meant(r) = {}
  BY IdleIs DEF Idle
<1>2. ~IsSaved(r) /\ ~Ahead(r) /\ \A text : ~Unsent(r, text)
  BY <1>1 DEF IsSaved, Ahead, Unsent
<1>3. World(r) => Still
  <2>1. \A id : Doomed(r, id) <=> id \in deleting
    BY <1>1, <1>2 DEF Doomed
  <2> QED
    BY <1>1, <1>2, <2>1 DEF World, Doom, Latest, Left, Still
<1>4. Still => World(r)
  <2>1. \A id : Doomed(r, id) <=> id \in deleting
    BY <1>1, <1>2 DEF Doomed
  <2> QED
    BY <1>1, <1>2, <2>1 DEF World, Doom, Latest, Left, Still
<1>5. World(r)' => Still'
  <2>1. \A id : Doomed(r, id)' <=> id \in deleting'
    BY <1>1, <1>2 DEF Doomed
  <2> QED
    BY <1>1, <1>2, <2>1 DEF World, Doom, Latest, Left, Still
<1>6. Still' => World(r)'
  <2>1. \A id : Doomed(r, id)' <=> id \in deleting'
    BY <1>1, <1>2 DEF Doomed
  <2> QED
    BY <1>1, <1>2, <2>1 DEF World, Doom, Latest, Left, Still
<1> QED
  BY <1>3, <1>4, <1>5, <1>6

\* Whoever is busy is alone.
LEMMA BusyAlone ==
  ASSUME Before, NEW m \in Mounts, mount[m].phase # "none", ~Idle(mount[m])
  PROVE  AllElse(m)
<1> SUFFICES ASSUME NEW l \in Mounts, l # m PROVE Idle(mount[l])
  BY DEF AllElse
<1>1. l \in Nat /\ m \in Nat
  BY DraftsAssumption
<1>2. CASE l < m
  BY <1>2 DEF Before, CalmInv, OneBusy, Stopped, Idle
<1>3. CASE m < l
  <2>1. mount[l].phase = "none"
    BY <1>3 DEF Before, CalmInv, OneBusy, Stopped, Idle
  <2>2. Unheard(mount[l])
    BY <2>1 DEF Before, OwnInv, InOrder
  <2> QED
    BY <2>1, <2>2 DEF Unheard, Idle
<1> QED
  BY <1>1, <1>2, <1>3

\* What is known of the busy mount.
Busy(m, r) == r = mount[m] /\ Good(r) /\ World(r) /\ Held(r) /\ AllElse(m)

LEMMA BusyIs ==
  ASSUME Before, NEW m \in Mounts, NEW r \in Composers, r = mount[m], ~Idle(r), r.phase # "none"
  PROVE  Busy(m, r)
<1>1. AllElse(m)
  BY BusyAlone
<1>2. Good(r)
  BY DEF Before, Typed, AllSound, OwnInv, Good
<1>3. World(r) /\ Held(r)
  BY <1>1 DEF Before, CalmInv, AllCalm
<1> QED
  BY <1>1, <1>2, <1>3 DEF Busy

\* The other mounts are as they were.
Others(m) ==
  \A l \in Mounts : l # m =>
    /\ mount'[l].phase = mount[l].phase /\ mount'[l].chain = mount[l].chain
    /\ mount'[l].localDue = mount[l].localDue /\ mount'[l].serverDue = mount[l].serverDue
    /\ mount'[l].emptyDue = mount[l].emptyDue

LEMMA CalmTurn ==
  ASSUME Before, After, NEW m \in Mounts, NEW s \in Composers, mount'[m] = s, AllElse(m), Others(m),
         s.phase # "none", Stopped(s), OneBusy' \/ (mount[m].phase # "none" /\ ~Idle(mount[m])),
         Bounds', NeverTwice', World(s)', Idle(s) \/ Held(s)'
  PROVE  CalmInv'
<1>1. \A l \in Mounts : l # m => Idle(mount'[l])
  BY DEF AllElse, Others, Idle
<1>2. \A l \in Mounts : Stopped(mount'[l])
  BY <1>1 DEF Stopped, Idle
<1>3. OneBusy'
  <2> SUFFICES ASSUME mount[m].phase # "none", ~Idle(mount[m]), NEW l \in Mounts, NEW k \in Mounts,
                      l < k, mount'[k].phase # "none"
               PROVE  mount'[l].phase = "closed" /\ mount'[l].chain = <<>>
    BY DEF OneBusy
  <2>1. l \in Nat /\ k \in Nat /\ m \in Nat
    BY DraftsAssumption
  <2>2. mount[k].phase # "none"
    BY DEF Others
  <2>3. mount[l].phase = "closed" /\ mount[l].chain = <<>>
    BY <2>2 DEF Before, CalmInv, OneBusy
  <2>4. l # m
    BY <2>3 DEF Before, CalmInv, Stopped, Idle
  <2> QED
    BY <2>3, <2>4 DEF Others
<1>4. ASSUME NEW l \in Mounts, \A k \in Mounts : k # l => Idle(mount'[k])
      PROVE  World(mount[l])' /\ (Idle(mount'[l]) \/ Held(mount[l])')
  <2>1. CASE l = m
    <3>1. World(mount[l])'
      BY <2>1 DEF World, Doom, Doomed, IsSaved, Latest, Ahead, Left, Unsent
    <3>2. Idle(s) \/ Held(mount[l])'
      BY <2>1 DEF Held, Hand, Asked, Offered, Awaited, Timed, Heard, Worded, Newest, Final, Begun, IsSaved
    <3> QED
      BY <2>1, <3>1, <3>2
  <2>2. CASE l # m
    <3>1. Idle(s) /\ Idle(mount'[l])
      BY <1>1, <1>4, <2>2
    <3>2. PICK q \in Composers : q = mount'[l] /\ Sound(q) /\ InOrder(q) /\ Idle(q)
      BY <3>1 DEF After, Typed, TypeOK, AllSound, OwnInv
    <3>3. Sound(s) /\ InOrder(s)
      BY DEF After, Typed, AllSound, OwnInv
    <3>4. World(q)'
      BY <3>1, <3>2, <3>3, IdleWorld
    <3>5. World(mount[l])'
      BY <3>2, <3>4 DEF World, Doom, Doomed, IsSaved, Latest, Ahead, Left, Unsent
    <3> QED
      BY <3>1, <3>5
  <2> QED
    BY <2>1, <2>2
<1>5. AllCalm'
  BY <1>4 DEF AllCalm, AllElse, Idle
<1> QED
  BY <1>2, <1>3, <1>5 DEF CalmInv

\* A step that leaves all but the mount alone.
LEMMA CalmQuiet ==
  ASSUME Before, After, NEW m \in Mounts, NEW r \in Composers, NEW s \in Composers,
         r.phase # "none", ~Idle(r), Busy(m, r), Turns(m, r, s), s.phase # "none", Stopped(s),
         UNCHANGED <<server, device, deleting, writer>>, World(s), Idle(s) \/ Held(s)
  PROVE  CalmInv'
<1>1. /\ drafts' = drafts /\ made' = made /\ device' = device /\ deleting' = deleting
      /\ typed' = typed /\ wanted' = wanted /\ gone' = gone
  BY DEF server, writer
<1>2. mount'[m] = s /\ Others(m)
  BY MountMoves DEF Turns, Others, Before
<1>3. Bounds' /\ NeverTwice'
  BY <1>1 DEF Before, CalmInv, Bounds, NeverTwice
<1>4. World(s)'
  BY <1>1 DEF World, Doom, Doomed, Owner, Latest, Left
<1>5. Idle(s) \/ Held(s)'
  BY <1>1 DEF Held, Hand, NoneOf, Stored, Asked, StoredAs, Offered, Awaited, Timed, Heard, Worded,
              Newest, Begun
<1>6. mount[m].phase # "none" /\ ~Idle(mount[m]) /\ AllElse(m)
  BY DEF Busy
<1> QED
  BY <1>2, <1>3, <1>4, <1>5, <1>6, CalmTurn

\* What depends on the mount's work, id, list, call and last text is as it was.
LEMMA CalmKept ==
  ASSUME NEW r, NEW s, Held(r), s.work = r.work, s.current = r.current, s.list = r.list,
         s.call = r.call, s.sent = r.sent
  PROVE  Hand(s) /\ Asked(s) /\ Offered(s) /\ Heard(s) /\ (IsSaved(s) <=> IsSaved(r))
<1>1. IsSaved(s) <=> IsSaved(r)
  BY DEF IsSaved
<1> QED
  BY <1>1 DEF Held, Hand, Asked, Offered, Heard

\* What was typed joins the chain, or nothing does.
LEMMA CalmSaving ==
  ASSUME NEW r \in Composers, NEW s \in Composers, Good(r), Doom(r), Latest(r), Held(r),
         NEW text \in {r.pending, r.field}, text = None => r.pending = None,
         text = None => s.chain = r.chain,
         text # None => s.chain = Append(r.chain, Saving(text)),
         s.phase \in {"open", "closed"}, s.work = r.work, s.current = r.current, s.list = r.list,
         s.call = r.call, s.sent = r.sent, s.pending = None, s.field = r.field \/ s.field = None
  PROVE  /\ Hand(s) /\ Asked(s) /\ Offered(s) /\ Awaited(s) /\ Heard(s) /\ Worded(s) /\ Newest(s)
         /\ Begun(s) /\ Doom(s) /\ Latest(s) /\ Loads(s) = Loads(r)
         /\ \A t : (\E i \in Meant(r) : r.chain[i].text = t) => \E i \in Meant(s) : s.chain[i].text = t
         /\ text # None => \E i \in Meant(s) : s.chain[i].text = text
<1>1. Hand(s) /\ Asked(s) /\ Offered(s) /\ Heard(s) /\ (IsSaved(s) <=> IsSaved(r))
  BY CalmKept
<1>2. Begun(s)
  BY DEF Begun
<1>3. CASE text = None
  <2>1. /\ Saves(s) = Saves(r) /\ Loads(s) = Loads(r) /\ Discards(s) = Discards(r)
        /\ Meant(s) = Meant(r) /\ s.chain = r.chain /\ r.pending = None /\ s.pending = None
    BY <1>3 DEF Saves, Loads, Discards, Meant
  <2>2. Awaited(s) /\ Worded(s)
    BY <2>1 DEF Held, Awaited, Worded
  <2>3. \A t : Final(s, t) => Final(r, t)
    BY <2>1 DEF Final
  <2>4. Newest(s)
    BY <2>3 DEF Held, Newest
  <2>5. Doom(s)
    BY <1>1, <2>1 DEF Doom, Doomed
  <2>6. Latest(s)
    BY <2>1 DEF Latest, Ahead
  <2> QED
    BY <1>1, <1>2, <1>3, <2>1, <2>2, <2>4, <2>5, <2>6
<1>4. CASE text # None
  <2>1. text \in Texts
    BY <1>4 DEF Composers
  <2>2. PICK e \in Chained : e = Saving(text) /\ e.do = "save" /\ e.text = text /\ ~e.forgotten
    BY <2>1, ChainedAre
  <2>3. s.chain = Append(r.chain, e)
    BY <1>4, <2>2
  <2>4. PICK n \in Nat \ {0} :
          /\ s.chain[n] = e
          /\ \A i \in Saves(r) \cup Loads(r) \cup Discards(r) : i \in Nat \ {0} /\ i < n /\ s.chain[i] = r.chain[i]
          /\ Saves(s) = Saves(r) \cup {n} /\ Loads(s) = Loads(r) /\ Discards(s) = Discards(r)
          /\ Meant(s) = Meant(r) \cup {n}
    BY <2>2, <2>3, Joined
  <2>5. Meant(r) \subseteq Saves(r)
    BY DEF Meant
  <2>6. Awaited(s)
    BY <2>4 DEF Held, Awaited
  <2>7. text.n <= typed
    BY <1>4, <2>1 DEF Held, Worded
  <2>8. Worded(s)
    <3>1. \A i \in Saves(s) : s.chain[i].text.n <= typed /\ (s.chain[i].forgotten => s.chain[i].text.work \in gone)
      BY <2>2, <2>4, <2>7 DEF Held, Worded
    <3> QED
      BY <3>1 DEF Held, Worded
  <2>9. text.work = r.work /\ wanted[r.work] \in {None, text}
    <3>1. CASE text = r.field
      BY <1>4, <3>1 DEF Good, InOrder, Held, Newest
    <3>2. CASE text = r.pending
      <4>1. Final(r, text)
        BY <1>4, <3>2 DEF Final
      <4> QED
        BY <1>4, <2>1, <3>2, <4>1 DEF Good, InOrder, Held, Newest
    <3> QED
      BY <3>1, <3>2
  <2>10. \A t : Final(s, t) => t = text
    <3> SUFFICES ASSUME NEW t, Final(s, t) PROVE t = text
      OBVIOUS
    <3>1. PICK i \in Meant(s) : s.chain[i].text = t /\ \A k \in Meant(s) : k <= i
      BY DEF Final
    <3>2. n <= i
      BY <2>4, <3>1
    <3>3. i \notin Meant(r)
      BY <2>4, <2>5, <3>2
    <3> QED
      BY <2>2, <2>4, <3>1, <3>3
  <2>11. Newest(s)
    BY <2>9, <2>10 DEF Held, Newest
  <2>12. Doom(s)
    BY <1>1, <2>4 DEF Doom, Doomed
  <2>13. Latest(s)
    <3>1. Ahead(s)
      BY <2>4 DEF Ahead
    <3> QED
      BY <3>1 DEF Latest
  <2>14. \A t : (\E i \in Meant(r) : r.chain[i].text = t) => \E i \in Meant(s) : s.chain[i].text = t
    BY <2>4, <2>5
  <2>15. \E i \in Meant(s) : s.chain[i].text = text
    BY <2>2, <2>4
  <2> QED
    BY <1>1, <1>2, <2>4, <2>6, <2>8, <2>11, <2>12, <2>13, <2>14, <2>15
<1> QED
  BY <1>3, <1>4

\* What is pending is flushed, and the device copy is of what waits still.
LEMMA CalmFlushed ==
  ASSUME Before, After, NEW m \in Mounts, NEW r \in Composers, NEW s \in Composers, Turns(m, r, s),
         r.phase # "none", ~Idle(r), ~r.localDue, UNCHANGED <<server, device, deleting, writer>>,
         r.pending = None => s.chain = r.chain,
         r.pending # None => s.chain = Append(r.chain, Saving(r.pending)),
         s.phase \in {"open", "closed"}, s.work = r.work, s.current = r.current, s.list = r.list,
         s.call = r.call, s.sent = r.sent, s.pending = None, s.field = r.field \/ s.field = None,
         ~s.localDue, s.emptyDue => r.emptyDue, Stopped(s)
  PROVE  CalmInv'
<1>1. Busy(m, r)
  BY BusyIs DEF Turns
<1>2. Good(r) /\ Doom(r) /\ Latest(r) /\ Left(r) /\ Held(r)
  BY <1>1 DEF Busy, World
<1>3. PICK text \in {r.pending} : text = r.pending
  OBVIOUS
<1>4. /\ Hand(s) /\ Asked(s) /\ Offered(s) /\ Awaited(s) /\ Heard(s) /\ Worded(s) /\ Newest(s)
      /\ Begun(s) /\ Doom(s) /\ Latest(s) /\ Loads(s) = Loads(r)
      /\ \A t : (\E i \in Meant(r) : r.chain[i].text = t) => \E i \in Meant(s) : s.chain[i].text = t
      /\ text # None => \E i \in Meant(s) : s.chain[i].text = text
  BY <1>2, <1>3, CalmSaving
<1>5. Timed(s)
  BY <1>2 DEF Held, Timed
<1>6. Left(s)
  <2>1. \A t : Unsent(r, t) => Unsent(s, t)
    BY <1>3, <1>4 DEF Unsent
  <2> QED
    BY <1>2, <1>4, <2>1 DEF Left
<1>7. World(s) /\ Held(s)
  BY <1>4, <1>5, <1>6 DEF World, Held
<1> QED
  BY <1>1, <1>7, CalmQuiet

LEMMA CalmClose ==
  ASSUME Before, After, NEW m \in Mounts, Close(m)
  PROVE  CalmInv'
<1>1. PICK r \in Composers, s \in Composers :
        Turns(m, r, s) /\ s = Closed(r) /\ r.phase \in {"listing", "listed", "open"}
  BY CloseMoves DEF Before
<1>2. ~r.localDue
  BY <1>1, NoneInTheWay DEF Close, Quick, Turns
<1>3. UNCHANGED <<server, device, deleting, writer>>
  BY DEF Close
<1>4. r.phase # "none" /\ ~Idle(r)
  BY <1>1 DEF Idle
<1>5. /\ s.phase = "closed" /\ s.list = r.list
      /\ s.field = None /\ s.work = r.work /\ s.current = r.current
      /\ s.pending = None /\ s.sent = r.sent /\ s.call = r.call
      /\ ~s.localDue /\ ~s.serverDue /\ ~s.emptyDue
      /\ r.pending = None => s.chain = r.chain
      /\ r.pending # None => s.chain = Append(r.chain, Saving(r.pending))
  BY <1>1, ClosedIs
<1>6. s.phase \in {"open", "closed"} /\ Stopped(s)
  BY <1>5 DEF Stopped
<1> QED
  BY <1>1, <1>2, <1>3, <1>4, <1>5, <1>6, CalmFlushed

\* A mount with a timer running is open.
LEMMA DueOpen ==
  ASSUME Before, NEW m \in Mounts, NEW r \in Composers, r = mount[m],
         r.localDue \/ r.serverDue \/ r.emptyDue
  PROVE  r.phase = "open" /\ ~Idle(r)
BY DEF Before, CalmInv, Stopped, OwnInv, InOrder, Unheard, Composers, Idle

LEMMA CalmServerTimer ==
  ASSUME Before, After, NEW m \in Mounts, ServerTimer(m)
  PROVE  CalmInv'
<1>1. PICK r \in Composers, s \in Composers : Turns(m, r, s) /\ s = Flushed(r) /\ r.serverDue /\ ~r.localDue
  BY ServerTimerMoves DEF Before
<1>2. UNCHANGED <<server, device, deleting, writer>>
  BY DEF ServerTimer
<1>3. r.phase = "open" /\ ~Idle(r)
  BY <1>1, DueOpen DEF Turns
<1>4. /\ s.phase = r.phase /\ s.list = r.list
      /\ s.field = r.field /\ s.work = r.work /\ s.current = r.current
      /\ s.pending = None /\ s.sent = r.sent /\ s.call = r.call
      /\ s.localDue = r.localDue /\ ~s.serverDue /\ s.emptyDue = r.emptyDue
      /\ r.pending = None => s.chain = r.chain
      /\ r.pending # None => s.chain = Append(r.chain, Saving(r.pending))
  BY <1>1, FlushedIs
<1>5. s.phase \in {"open", "closed"} /\ Stopped(s) /\ ~s.localDue /\ (s.emptyDue => r.emptyDue)
  BY <1>1, <1>3, <1>4 DEF Stopped
<1> QED
  BY <1>1, <1>2, <1>3, <1>4, <1>5, CalmFlushed

\* The server has one draft of a work.
LEMMA OneOf ==
  ASSUME NeverTwice, NEW d \in ToSet(drafts), NEW e \in ToSet(drafts), d.text.work = e.text.work
  PROVE  d = e
BY DEF NeverTwice, ToSet

\* A mount that did nothing yet holds nothing back.
LEMMA CalmBlank ==
  ASSUME Before, NEW s \in Composers, Blank(s)
  PROVE  /\ Hand(s) /\ Asked(s) /\ Awaited(s) /\ Timed(s) /\ Heard(s) /\ Worded(s) /\ Newest(s)
         /\ ~Ahead(s) /\ ~IsSaved(s) /\ (World(s) <=> Still)
<1>0. Unheard(s)
  BY DEF Blank, Unheard
<1>1. Saves(s) = {} /\ Loads(s) = {} /\ Discards(s) = {} /\ Meant(s) = {}
  BY <1>0, UnheardIs
<1>2. Hand(s)
  <2>1. 0 \notin gone /\ 0 <= typed
    BY DEF Before, Typed, TypeOK
  <2>2. NoneOf(0)
    <3>1. \A d \in ToSet(drafts) : d.text \in Texts
      <4>1. PICK list \in Seq(Listed) : list = drafts
        BY DEF Before, Typed, TypeOK
      <4> QED
        BY <4>1, ListedAre
    <3> QED
      BY <3>1 DEF NoneOf, Texts
  <2> QED
    BY <2>1, <2>2 DEF Hand, Blank
<1>3. Asked(s) /\ ~IsSaved(s)
  BY DEF Asked, Blank, IsSaved
<1>4. Awaited(s) /\ Timed(s) /\ Heard(s) /\ Worded(s)
  BY <1>1 DEF Awaited, Timed, Heard, Worded, Blank
<1>5. Newest(s) /\ ~Ahead(s)
  BY <1>1 DEF Newest, Final, Ahead, Blank
<1>6. \A t : ~Unsent(s, t)
  BY <1>1 DEF Unsent, Blank
<1>7. \A id : Doomed(s, id) <=> id \in deleting
  BY <1>1, <1>3 DEF Doomed
<1>8. World(s) <=> Still
  BY <1>1, <1>5, <1>6, <1>7 DEF World, Still, Doom, Latest, Left, Blank
<1> QED
  BY <1>2, <1>3, <1>4, <1>5, <1>8

LEMMA CalmOpen ==
  ASSUME Before, After, NEW m \in Mounts, Open(m)
  PROVE  CalmInv'
<1>1. PICK r \in Composers, s \in Composers :
        /\ Turns(m, r, s) /\ r.phase = "none"
        /\ Blank(s) /\ s.phase = "listing" /\ s.local = device /\ s.list = <<>>
  BY OpenMoves DEF Before
<1>2. /\ UNCHANGED <<server, device, deleting, writer>>
      /\ drafts' = drafts /\ made' = made /\ device' = device /\ deleting' = deleting
      /\ typed' = typed /\ wanted' = wanted /\ gone' = gone
  BY DEF Open, server, writer
<1>3. deleting = {} /\ \A l \in Mounts : mount[l].chain = <<>>
  BY NoneInTheWay DEF Open
<1>4. \A l \in Mounts : l < m => mount[l].phase = "closed"
  BY DEF Open
<1>5. mount[m].phase = "none" /\ Idle(r) /\ Sound(r) /\ InOrder(r) /\ r = mount[m]
  BY <1>1 DEF Turns, Before, OwnInv, InOrder, Unheard, Idle
<1>6. \A l \in Mounts : m < l => mount[l].phase = "none"
  BY <1>5 DEF Before, CalmInv, OneBusy
<1>7. AllElse(m)
  <2> SUFFICES ASSUME NEW l \in Mounts, l # m PROVE Idle(mount[l])
    BY DEF AllElse
  <2>1. l < m \/ m < l
    BY DraftsAssumption
  <2>2. CASE l < m
    BY <1>3, <1>4, <2>2 DEF Before, CalmInv, Stopped, Idle
  <2>3. CASE m < l
    BY <1>6, <2>3 DEF Before, OwnInv, InOrder, Unheard, Idle
  <2> QED
    BY <2>1, <2>2, <2>3
<1>8. mount'[m] = s /\ Others(m)
  BY <1>1, MountMoves DEF Turns, Others, Before
<1>9. OneBusy'
  <2> SUFFICES ASSUME NEW l \in Mounts, NEW k \in Mounts, l < k, mount'[k].phase # "none"
               PROVE  mount'[l].phase = "closed" /\ mount'[l].chain = <<>>
    BY DEF OneBusy
  <2>1. l \in Nat /\ k \in Nat /\ m \in Nat
    BY DraftsAssumption
  <2>2. k <= m
    BY <1>6, <1>8, <2>1 DEF Others
  <2>3. l < m /\ l # m
    BY <2>1, <2>2
  <2> QED
    BY <1>3, <1>4, <1>8, <2>3 DEF Others
<1>10. Bounds' /\ NeverTwice'
  BY <1>2 DEF Before, CalmInv, Bounds, NeverTwice
<1>11. Still
  <2>1. World(r)
    BY <1>5, <1>7 DEF Before, CalmInv, AllCalm
  <2> QED
    BY <1>5, <2>1, IdleWorld
<1>12. World(s) /\ Held(s)
  <2>1. Hand(s) /\ Asked(s) /\ Awaited(s) /\ Timed(s) /\ Heard(s) /\ Worded(s) /\ Newest(s) /\ World(s)
    BY <1>1, <1>11, CalmBlank
  <2>2. Offered(s)
    BY <1>1 DEF Offered, ToSet
  <2>3. Begun(s)
    BY <1>1, <1>3, <1>11 DEF Begun, Still, Blank
  <2> QED
    BY <2>1, <2>2, <2>3 DEF Held
<1>13. World(s)'
  BY <1>2, <1>12 DEF World, Doom, Doomed, Owner, Latest, Left
<1>14. Held(s)'
  BY <1>2, <1>12 DEF Held, Hand, NoneOf, Stored, Asked, StoredAs, Offered, Awaited, Timed, Heard, Worded,
              Newest, Begun
<1>15. s.phase # "none" /\ Stopped(s)
  BY <1>1 DEF Stopped
<1> QED
  BY <1>7, <1>8, <1>9, <1>10, <1>13, <1>14, <1>15, CalmTurn

LEMMA CalmList ==
  ASSUME Before, After, NEW m \in Mounts, List(m)
  PROVE  CalmInv'
<1>1. PICK r \in Composers, s \in Composers :
        /\ Turns(m, r, s) /\ r.phase = "listing"
        /\ \/ s = [r EXCEPT !.phase = "listed", !.list = drafts] /\ UNCHANGED trouble
           \/ s = [r EXCEPT !.phase = "listed"] /\ Failure("signal")
  BY ListMoves DEF Before
<1>2. s = [r EXCEPT !.phase = "listed", !.list = drafts]
  BY <1>1, NoneInTheWay
<1>3. r.phase # "none" /\ ~Idle(r)
  BY <1>1 DEF Idle
<1>4. Busy(m, r)
  BY <1>1, <1>3, BusyIs DEF Turns
<1>5. UNCHANGED <<server, device, deleting, writer>>
  BY DEF List
<1>6. Blank(r)
  BY <1>1, <1>4 DEF Busy, Good, InOrder, Unheard, Blank, Held, Begun
<1>7. s.phase = "listed" /\ s.list = drafts /\ s.local = r.local /\ Blank(s)
  BY <1>2, <1>6 DEF Composers, Blank
<1>8. Still /\ ~IsSaved(r)
  BY <1>4, <1>6, CalmBlank DEF Busy
<1>9. Hand(s) /\ Asked(s) /\ Awaited(s) /\ Timed(s) /\ Heard(s) /\ Worded(s) /\ Newest(s) /\ World(s)
  BY <1>7, <1>8, CalmBlank
<1>10. deleting = {} /\ Begun(s)
  BY <1>1, <1>4, <1>7 DEF Busy, Held, Begun, Blank
<1>11. Offered(s)
  BY <1>7, <1>8, <1>10 DEF Offered, Still, StoredAs
<1>12. Held(s) /\ s.phase # "none" /\ Stopped(s)
  BY <1>7, <1>9, <1>10, <1>11 DEF Held, Stopped
<1> QED
  BY <1>1, <1>3, <1>4, <1>5, <1>9, <1>12, CalmQuiet

\* What is wanted of a work is what the server has of it, when nothing else is to be saved.
LEMMA WantedIs ==
  ASSUME Before, NEW r, Latest(r), ~Ahead(r), NEW d \in ToSet(drafts)
  PROVE  /\ d.text \in Texts /\ d.id \in Ids /\ d.text.work <= typed /\ d.text.n <= typed
         /\ wanted[d.text.work] \in {None, d.text}
<1>1. d.text \in Texts /\ d.id \in Ids
  <2>1. PICK list \in Seq(Listed) : list = drafts
    BY DEF Before, Typed, TypeOK
  <2> QED
    BY <2>1, ListedAre
<1>2. d.text.work \in 1..MaxTyped
  BY <1>1 DEF Texts
<1>3. d.text.work <= typed /\ d.text.n <= typed
  BY DEF Before, CalmInv, Bounds
<1>4. ASSUME wanted[d.text.work] # None PROVE wanted[d.text.work] = d.text
  <2>1. PICK w \in 1..MaxTyped : w = d.text.work /\ wanted[w] # None
    BY <1>2, <1>4
  <2>2. PICK e \in ToSet(drafts) : e.text = wanted[w]
    BY <2>1 DEF Latest
  <2>3. e.text.work = w
    BY <2>1, <2>2 DEF Before, CalmInv, Bounds
  <2>4. e = d
    BY <2>1, <2>3, OneOf DEF Before, CalmInv
  <2> QED
    BY <2>1, <2>2, <2>4
<1> QED
  BY <1>1, <1>3, <1>4

\* A draft the server has is put into the composer.
LEMMA CalmFresh ==
  ASSUME Before, NEW r \in Composers, NEW s \in Composers, Latest(r), ~Ahead(r), Offered(r), ~IsSaved(r),
         NEW d \in ToSet(drafts), d.text.work \notin gone, s.phase = "open", s.list = r.list,
         s.field = d.text, s.work = d.text.work, s.current = d.id, s.pending = d.text, s.sent = None,
         s.call = None, s.serverDue, ~s.emptyDue, Saves(s) = {}, Loads(s) = {}, Meant(s) = {}
  PROVE  Held(s)
<1>1. /\ d.text \in Texts /\ d.id \in Ids /\ d.text.work <= typed /\ d.text.n <= typed
      /\ wanted[d.text.work] \in {None, d.text}
  BY WantedIs
<1>2. d.text # None /\ d.id # None
  BY <1>1, NoneAssumption
<1>3. Hand(s)
  <2>1. Stored(d.id)
    BY DEF Stored, ToSet
  <2> QED
    BY <1>1, <1>2, <2>1 DEF Hand
<1>4. Asked(s) /\ ~IsSaved(s)
  BY DEF Asked, IsSaved
<1>5. Offered(s)
  BY <1>4 DEF Offered
<1>6. Awaited(s) /\ Timed(s) /\ Heard(s) /\ Begun(s)
  BY <1>2 DEF Awaited, Timed, Heard, Begun
<1>7. Worded(s)
  BY <1>1 DEF Worded
<1>8. Newest(s)
  BY <1>1, <1>2 DEF Newest, Final
<1> QED
  BY <1>3, <1>4, <1>5, <1>6, <1>7, <1>8 DEF Held

LEMMA CalmLoaded ==
  ASSUME Before, After, NEW m \in Mounts, Loaded(m)
  PROVE  CalmInv'
<1>1. PICK r \in Composers, s \in Composers, resume \in BOOLEAN :
        Turns(m, r, s) /\ r.phase = "listed" /\ s = Opened(r, resume)
  BY LoadedMoves DEF Before
<1>2. UNCHANGED <<server, device, deleting, writer>>
  BY DEF Loaded
<1>3. r.phase # "none" /\ ~Idle(r)
  BY <1>1 DEF Idle
<1>4. Busy(m, r)
  BY <1>1, <1>3, BusyIs DEF Turns
<1>5. Blank(r)
  BY <1>1, <1>4 DEF Busy, Good, InOrder, Unheard, Blank, Held, Begun
<1>6. Still /\ ~IsSaved(r) /\ ~Ahead(r) /\ World(r)
  BY <1>4, <1>5, CalmBlank DEF Busy
<1>7. ~Laid(r)
  BY <1>1, <1>4 DEF Busy, Held, Begun, Laid, Dirty
<1> DEFINE first == First(r, resume)
<1>8. /\ s.phase = "open" /\ s.list = Without(Merged(r), None)
      /\ s.sent = r.sent /\ s.call = r.call /\ s.current = IdOf(first)
      /\ s.field = IF first = None THEN r.field ELSE first.text
      /\ s.chain = r.chain
      /\ s.field # None => /\ s.work = s.field.work /\ s.pending = s.field
                           /\ s.localDue /\ s.serverDue /\ ~s.emptyDue
      /\ s.field = None => /\ s.work = r.work /\ s.pending = r.pending /\ s.localDue = r.localDue
                           /\ s.serverDue = r.serverDue /\ s.emptyDue = r.emptyDue
  BY <1>1, <1>7, OpenedIs
<1>9. s.list = r.list
  <2>1. r.list \in Seq(Listed) /\ Merged(r) = r.list
    BY <1>7 DEF Merged, Composers
  <2> QED
    BY <1>8, <2>1, NamelessIs
<1>10. first # None => 1 \in DOMAIN r.list /\ first = r.list[1] /\ first.text \in Texts
  BY <1>7, MergedIs
<1> HIDE DEF first
<1>11. Stopped(s) /\ s.phase # "none"
  BY <1>8 DEF Stopped
<1>12. CASE first = None
  <2>1. Blank(s)
    BY <1>5, <1>8, <1>12 DEF Blank, IdOf
  <2>2. /\ Hand(s) /\ Asked(s) /\ Awaited(s) /\ Timed(s) /\ Heard(s) /\ Worded(s) /\ Newest(s) /\ World(s)
        /\ ~IsSaved(s)
    BY <1>6, <2>1, CalmBlank
  <2>3. Offered(s)
    BY <1>4, <1>6, <1>9, <2>2 DEF Busy, Held, Offered
  <2>4. Begun(s)
    BY <1>8 DEF Begun
  <2>5. Held(s)
    BY <2>2, <2>3, <2>4 DEF Held
  <2> QED
    BY <1>1, <1>2, <1>3, <1>4, <1>11, <2>2, <2>5, CalmQuiet
<1>13. CASE first # None
  <2>1. first \in ToSet(r.list)
    BY <1>10, <1>13 DEF ToSet
  <2>2. first.text.work \notin gone /\ StoredAs(first.id, first.text)
    BY <1>4, <1>6, <2>1 DEF Busy, Held, Offered
  <2>3. PICK d \in ToSet(drafts) : d.id = first.id /\ d.text = first.text
    BY <2>2 DEF StoredAs
  <2>4. d.text # None
    BY <1>10, <1>13, <2>3, NoneAssumption
  <2>5. Saves(s) = {} /\ Loads(s) = {} /\ Discards(s) = {} /\ Meant(s) = {}
    BY <1>5, <1>8 DEF Blank, Saves, Loads, Discards, Meant
  <2>6. /\ s.field = d.text /\ s.work = d.text.work /\ s.current = d.id /\ s.pending = d.text
        /\ s.sent = None /\ s.call = None /\ s.serverDue /\ ~s.emptyDue /\ s.localDue
    BY <1>5, <1>8, <1>13, <2>3, <2>4 DEF Blank, IdOf
  <2>7. Latest(r) /\ Offered(r)
    BY <1>4, <1>6 DEF World, Busy, Held
  <2>8. Held(s)
    BY <1>6, <1>8, <1>9, <2>2, <2>3, <2>5, <2>6, <2>7, CalmFresh
  <2>9. Doom(s)
    <3>1. \A id : Doomed(s, id) <=> id \in deleting
      BY <2>5, <2>6 DEF Doomed, IsSaved
    <3> QED
      BY <1>6, <3>1 DEF Doom, Still
  <2>10. Latest(s) /\ Left(s)
    BY <1>6, <2>6 DEF Latest, Left, Still
  <2> QED
    BY <1>1, <1>2, <1>3, <1>4, <1>11, <2>8, <2>9, <2>10, CalmQuiet DEF World
<1> QED
  BY <1>12, <1>13

\* The server and what is wanted of it stay as they are.
LEMMA CalmShift ==
  ASSUME Before, After, NEW m \in Mounts, NEW r \in Composers, NEW s \in Composers,
         r.phase # "none", ~Idle(r), Busy(m, r), Turns(m, r, s), s.phase # "none", Stopped(s),
         UNCHANGED <<server, writer>>, World(s)', Held(s)'
  PROVE  CalmInv'
<1>1. /\ drafts' = drafts /\ made' = made /\ typed' = typed /\ wanted' = wanted /\ gone' = gone
  BY DEF server, writer
<1>2. mount'[m] = s /\ Others(m)
  BY MountMoves DEF Turns, Others, Before
<1>3. Bounds' /\ NeverTwice'
  BY <1>1 DEF Before, CalmInv, Bounds, NeverTwice
<1>4. mount[m].phase # "none" /\ ~Idle(mount[m]) /\ AllElse(m)
  BY DEF Busy
<1> QED
  BY <1>2, <1>3, <1>4, CalmTurn

LEMMA HeldStays ==
  ASSUME NEW s, UNCHANGED <<server, writer, deleting>>, Held(s)
  PROVE  Held(s)'
<1>1. /\ drafts' = drafts /\ typed' = typed /\ wanted' = wanted /\ gone' = gone /\ deleting' = deleting
  BY DEF server, writer
<1> QED
  BY <1>1 DEF Held, Hand, NoneOf, Stored, Asked, StoredAs, Offered, Awaited, Timed, Heard, Worded,
              Newest, Begun

LEMMA CalmLocalTimer ==
  ASSUME Before, After, NEW m \in Mounts, LocalTimer(m)
  PROVE  CalmInv'
<1>1. PICK r \in Composers, s \in Composers :
        /\ Turns(m, r, s) /\ s = [r EXCEPT !.localDue = FALSE] /\ r.localDue /\ r.field # None
        /\ device' = Copy(r.current, r.field, TRUE)
  BY LocalTimerMoves DEF Before
<1>2. UNCHANGED <<server, writer, deleting>>
  BY DEF LocalTimer
<1>3. r.phase = "open" /\ ~Idle(r)
  BY <1>1, DueOpen DEF Turns
<1>4. Busy(m, r)
  BY <1>1, <1>3, BusyIs DEF Turns
<1>5. /\ s.phase = "open" /\ s.list = r.list /\ s.field = r.field /\ s.work = r.work /\ s.current = r.current
      /\ s.pending = r.pending /\ s.sent = r.sent /\ s.call = r.call /\ s.chain = r.chain
      /\ ~s.localDue /\ s.serverDue = r.serverDue /\ s.emptyDue = r.emptyDue
  BY <1>1, <1>3 DEF Composers
<1>6. Saves(s) = Saves(r) /\ Loads(s) = Loads(r) /\ Discards(s) = Discards(r) /\ Meant(s) = Meant(r)
  BY <1>5 DEF Saves, Loads, Discards, Meant
<1>7. Hand(s) /\ Asked(s) /\ Offered(s) /\ Heard(s) /\ (IsSaved(s) <=> IsSaved(r))
  BY <1>4, <1>5, CalmKept DEF Busy
<1>8. Held(s)
  <2>1. Awaited(s) /\ Timed(s) /\ Worded(s) /\ Begun(s)
    BY <1>4, <1>5, <1>6 DEF Busy, Held, Awaited, Timed, Worded, Begun
  <2>2. \A t : Final(s, t) <=> Final(r, t)
    BY <1>5, <1>6 DEF Final
  <2>3. Newest(s)
    BY <1>4, <1>5, <2>2 DEF Busy, Held, Newest
  <2> QED
    BY <1>7, <2>1, <2>3 DEF Held
<1>9. Doom(s) /\ Latest(s)
  <2>1. \A id : Doomed(s, id) <=> Doomed(r, id)
    BY <1>5, <1>6, <1>7 DEF Doomed
  <2> QED
    BY <1>4, <1>5, <1>6, <2>1 DEF Busy, World, Doom, Latest, Ahead
<1>10. Left(s)'
  <2>1. PICK copy \in Copies : copy = device' /\ copy.text = r.field
    <3>1. r.current \in Ids \cup {None} /\ r.field \in Texts
      BY <1>1 DEF Composers
    <3> QED
      BY <1>1, <3>1, CopyIs
  <2>2. r.field.work = r.work /\ r.work \notin gone
    BY <1>1, <1>4 DEF Busy, Good, InOrder, Held, Hand
  <2>3. Loads(s) # {} \/ Unsent(s, r.field)
    BY <1>1, <1>4, <1>5, <1>6 DEF Busy, Held, Timed, Unsent
  <2> QED
    BY <1>2, <2>1, <2>2, <2>3 DEF Left, writer
<1>11. World(s)'
  BY <1>2, <1>9, <1>10 DEF World, Doom, Doomed, Owner, Latest, server, writer
<1>12. Held(s)'
  BY <1>2, <1>8, HeldStays
<1>13. Stopped(s)
  BY <1>5 DEF Stopped
<1> QED
  BY <1>1, <1>2, <1>3, <1>4, <1>5, <1>11, <1>12, <1>13, CalmShift

\* The first of the chain, which loads nothing, goes.
LEMMA CalmTail ==
  ASSUME NEW r \in Composers, NEW s \in Composers, Good(r), Held(r), r.chain # <<>>, 1 \notin Loads(r),
         s.chain = Tail(r.chain), s.phase = r.phase, s.field = r.field, s.work = r.work,
         s.pending = r.pending, s.localDue = r.localDue, s.serverDue = r.serverDue,
         s.emptyDue = r.emptyDue, s.sent = r.sent \/ (1 \in Saves(r) /\ s.sent = r.chain[1].text)
  PROVE  /\ Awaited(s) /\ Timed(s) /\ Worded(s) /\ Newest(s) /\ Begun(s)
         /\ Loads(s) = {} <=> Loads(r) = {}
         /\ \A i \in Meant(s) : i + 1 \in Meant(r) /\ s.chain[i] = r.chain[i + 1]
         /\ \A i \in Meant(r) \ {1} : i - 1 \in Meant(s) /\ s.chain[i - 1] = r.chain[i]
         /\ \A i \in Discards(s) : i + 1 \in Discards(r) /\ s.chain[i] = r.chain[i + 1]
         /\ \A i \in Discards(r) \ {1} : i - 1 \in Discards(s) /\ s.chain[i - 1] = r.chain[i]
         /\ Ahead(r) /\ ~Ahead(s) => 1 \in Meant(r) /\ wanted[r.work] \in {None, r.chain[1].text}
<1>1. r.chain \in Seq(Chained)
  BY DEF Composers
<1>2. \A i \in DOMAIN s.chain : i \in Nat \ {0} /\ s.chain[i] = r.chain[i + 1]
  BY <1>1, Tailed
<1>3. \A i \in DOMAIN r.chain \ {1} : i \in Nat \ {0} /\ s.chain[i - 1] = r.chain[i]
  BY <1>1, Tailed
<1>4. /\ \A i \in Saves(s) : i + 1 \in Saves(r) /\ s.chain[i] = r.chain[i + 1]
      /\ \A i \in Loads(s) : i + 1 \in Loads(r) /\ s.chain[i] = r.chain[i + 1]
      /\ \A i \in Discards(s) : i + 1 \in Discards(r) /\ s.chain[i] = r.chain[i + 1]
      /\ \A i \in Meant(s) : i + 1 \in Meant(r) /\ s.chain[i] = r.chain[i + 1] /\ i \in Nat \ {0}
  <2>1. /\ \A i \in Saves(s) : i + 1 \in Saves(r)
        /\ \A i \in Loads(s) : i + 1 \in Loads(r)
        /\ \A i \in Discards(s) : i + 1 \in Discards(r)
        /\ \A i \in Meant(s) : i + 1 \in Meant(r)
    BY <1>1, TailedSaves
  <2>2. \A i \in Saves(s) \cup Loads(s) \cup Discards(s) \cup Meant(s) : i \in DOMAIN s.chain
    BY DEF Saves, Loads, Discards, Meant
  <2> QED
    BY <1>2, <2>1, <2>2
<1>5. /\ \A i \in Loads(r) \ {1} : i - 1 \in Loads(s)
      /\ \A i \in Discards(r) \ {1} : i - 1 \in Discards(s) /\ s.chain[i - 1] = r.chain[i]
      /\ \A i \in Meant(r) \ {1} : i - 1 \in Meant(s) /\ s.chain[i - 1] = r.chain[i] /\ i \in Nat \ {0}
  <2>1. /\ \A i \in Loads(r) \ {1} : i - 1 \in Loads(s)
        /\ \A i \in Discards(r) \ {1} : i - 1 \in Discards(s)
        /\ \A i \in Meant(r) \ {1} : i - 1 \in Meant(s)
    BY <1>1, TailedSaves
  <2>2. \A i \in Discards(r) \cup Meant(r) : i \in DOMAIN r.chain
    BY DEF Saves, Discards, Meant
  <2> QED
    BY <1>3, <2>1, <2>2
<1>6. Loads(s) = {} <=> Loads(r) = {}
  BY <1>4, <1>5
<1>7. Awaited(s)
  BY <1>4 DEF Held, Awaited
<1>8. Worded(s)
  BY <1>4 DEF Held, Worded
<1>9. Timed(s)
  <2>1. ASSUME s.localDue, Loads(s) = {}
        PROVE  s.pending = s.field /\ s.sent # s.field /\ \A i \in Saves(s) : s.chain[i].text # s.field
    <3>1. r.pending = r.field /\ r.sent # r.field /\ \A i \in Saves(r) : r.chain[i].text # r.field
      BY <1>6, <2>1 DEF Held, Timed
    <3> QED
      BY <1>4, <3>1
  <2> QED
    BY <2>1 DEF Held, Timed
<1>10. \A t : Final(s, t) => Final(r, t)
  <2> SUFFICES ASSUME NEW t, Final(s, t), r.pending = None PROVE Final(r, t)
    BY DEF Final
  <2>1. PICK i \in Meant(s) : s.chain[i].text = t /\ \A k \in Meant(s) : k <= i
    BY DEF Final
  <2>2. i \in Nat \ {0} /\ i + 1 \in Meant(r) /\ r.chain[i + 1].text = t
    BY <1>4, <2>1
  <2>3. ASSUME NEW k \in Meant(r) PROVE k <= i + 1
    <3>1. CASE k = 1
      BY <2>2, <3>1
    <3>2. CASE k # 1
      <4>1. k - 1 \in Meant(s) /\ k \in Nat \ {0}
        BY <1>5, <3>2
      <4>2. k - 1 <= i
        BY <2>1, <4>1
      <4> QED
        BY <2>2, <4>1, <4>2
    <3> QED
      BY <3>1, <3>2
  <2> QED
    BY <2>2, <2>3 DEF Final
<1>11. Newest(s)
  BY <1>10 DEF Held, Newest
<1>12. Begun(s)
  BY DEF Good, InOrder, Unheard, Begun
<1>13. ASSUME Ahead(r), ~Ahead(s) PROVE 1 \in Meant(r) /\ wanted[r.work] \in {None, r.chain[1].text}
  <2>1. r.pending = None /\ Meant(r) # {} /\ Meant(s) = {}
    BY <1>13 DEF Ahead
  <2>2. \A i \in Meant(r) : i = 1
    BY <1>5, <2>1
  <2>3. 1 \in Meant(r) /\ \A i \in Meant(r) : i <= 1
    BY <2>1, <2>2
  <2>4. r.chain[1].text \in Texts
    <3>1. 1 \in DOMAIN r.chain /\ r.chain[1].do = "save"
      BY <2>3 DEF Meant, Saves
    <3> QED
      BY <1>1, <3>1, ChainParts
  <2>5. Final(r, r.chain[1].text)
    BY <2>1, <2>3 DEF Final
  <2> QED
    BY <2>3, <2>4, <2>5 DEF Held, Newest
<1> QED
  BY <1>4, <1>5, <1>6, <1>7, <1>8, <1>9, <1>11, <1>12, <1>13

\* The draft in hand is not about to be deleted.
LEMMA HandSafe ==
  ASSUME Before, NEW m \in Mounts, NEW r \in Composers, Busy(m, r), r.current # None
  PROVE  r.current \in Ids /\ Stored(r.current) /\ ~Doomed(r, r.current)
<1>1. r.current \in Ids /\ Stored(r.current) /\ Owner(r.current, r.work)
  BY DEF Composers, Busy, Held, Hand, Good, Owned
<1>2. PICK i \in DOMAIN drafts : drafts[i].id = r.current
  BY <1>1 DEF Stored
<1>3. drafts[i] \in ToSet(drafts)
  BY DEF ToSet
<1>4. ~Doomed(r, r.current)
  <2> SUFFICES ASSUME Doomed(r, r.current) PROVE FALSE
    OBVIOUS
  <2>1. PICK w \in gone : Owner(r.current, w)
    BY <1>1 DEF Busy, World, Doom
  <2>2. w = r.work
    BY <1>1, <1>2, <1>3, <2>1 DEF Owner
  <2> QED
    BY <2>2 DEF Busy, Held, Hand
<1> QED
  BY <1>1, <1>4

LEMMA CalmStartSave ==
  ASSUME Before, After, NEW m \in Mounts, StartSave(m)
  PROVE  CalmInv'
<1>1. PICK r \in Composers, s \in Composers :
        /\ Turns(m, r, s) /\ r.chain # <<>> /\ r.call = None /\ Head(r.chain).do = "save"
        /\ s = IF Head(r.chain).forgotten \/ (Head(r.chain).text = r.sent /\ r.current # None)
               THEN Advanced(r) ELSE Called(r)
  BY StartSaveMoves DEF Before
<1>2. UNCHANGED <<server, device, deleting, writer>>
  BY DEF StartSave
<1>3. ~Idle(r) /\ r.phase # "none"
  BY <1>1 DEF Turns, Before, OwnInv, InOrder, Unheard, Idle
<1>4. Busy(m, r)
  BY <1>1, <1>3, BusyIs DEF Turns
<1>5. Good(r) /\ Held(r) /\ Doom(r) /\ Latest(r) /\ Left(r)
  BY <1>4 DEF Busy, World
<1>6. 1 \in DOMAIN r.chain /\ Head(r.chain) = r.chain[1] /\ 1 \in Saves(r) /\ 1 \notin Loads(r) /\ 1 \notin Discards(r)
  <2>1. 1 \in DOMAIN r.chain /\ Head(r.chain) = r.chain[1]
    BY <1>1, HeadIs
  <2> QED
    BY <1>1, <2>1 DEF Saves, Loads, Discards
<1>7. Stopped(r)
  BY <1>1 DEF Before, CalmInv, Turns
<1>8. CASE r.chain[1].forgotten \/ (r.chain[1].text = r.sent /\ r.current # None)
  <2>1. s = Advanced(r)
    BY <1>1, <1>6, <1>8
  <2>2. /\ s.chain = Tail(r.chain) /\ s.call = r.call
        /\ s.phase = r.phase /\ s.list = r.list
        /\ s.field = r.field /\ s.work = r.work /\ s.current = r.current
        /\ s.pending = r.pending /\ s.sent = r.sent
        /\ s.localDue = r.localDue /\ s.serverDue = r.serverDue /\ s.emptyDue = r.emptyDue
    BY <1>1, <2>1, AdvancedIs
  <2>3. /\ Awaited(s) /\ Timed(s) /\ Worded(s) /\ Newest(s) /\ Begun(s)
        /\ Loads(s) = {} <=> Loads(r) = {}
        /\ \A i \in Meant(s) : i + 1 \in Meant(r) /\ s.chain[i] = r.chain[i + 1]
        /\ \A i \in Meant(r) \ {1} : i - 1 \in Meant(s) /\ s.chain[i - 1] = r.chain[i]
        /\ \A i \in Discards(s) : i + 1 \in Discards(r) /\ s.chain[i] = r.chain[i + 1]
        /\ \A i \in Discards(r) \ {1} : i - 1 \in Discards(s) /\ s.chain[i - 1] = r.chain[i]
        /\ Ahead(r) /\ ~Ahead(s) => 1 \in Meant(r) /\ wanted[r.work] \in {None, r.chain[1].text}
    BY <1>1, <1>5, <1>6, <2>2, CalmTail
  <2>4. Hand(s) /\ Asked(s) /\ Offered(s) /\ Heard(s) /\ (IsSaved(s) <=> IsSaved(r))
    BY <1>5, <2>2, CalmKept
  <2>5. 1 \in Meant(r) => r.chain[1].text = r.sent /\ r.sent # None /\ StoredAs(r.current, r.sent)
    <3> SUFFICES ASSUME 1 \in Meant(r)
                 PROVE  r.chain[1].text = r.sent /\ r.sent # None /\ StoredAs(r.current, r.sent)
      OBVIOUS
    <3>1. r.chain[1].text = r.sent /\ r.current # None
      BY <1>8 DEF Meant
    <3>2. r.chain[1].text \in Texts
      <4>1. r.chain \in Seq(Chained) /\ r.chain[1].do = "save"
        BY <1>6 DEF Saves, Composers
      <4> QED
        BY <1>6, <4>1, ChainParts
    <3>3. r.sent # None
      BY <3>1, <3>2, NoneAssumption
    <3> QED
      BY <1>1, <1>5, <3>1, <3>3 DEF Held, Heard, IsSaved
  <2>6. Doom(s)
    <3>1. \A id : Doomed(s, id) <=> Doomed(r, id)
      <4>1. \A id : (\E i \in Discards(s) : s.chain[i].id = id) <=> \E i \in Discards(r) : r.chain[i].id = id
        BY <1>6, <2>3
      <4> QED
        BY <2>2, <2>4, <4>1 DEF Doomed
    <3> QED
      BY <1>5, <3>1 DEF Doom
  <2>7. Latest(s)
    <3> SUFFICES ASSUME NEW w \in 1..MaxTyped, wanted[w] # None, ~(s.work = w /\ Ahead(s)),
                        r.work = w /\ Ahead(r)
                 PROVE  \E d \in ToSet(drafts) : d.text = wanted[w]
      BY <1>5 DEF Latest
    <3>1. wanted[w] = r.chain[1].text /\ 1 \in Meant(r)
      BY <2>2, <2>3
    <3> QED
      BY <2>5, <3>1 DEF StoredAs
  <2>8. Left(s)
    <3>1. ASSUME NEW t, Unsent(r, t) PROVE Unsent(s, t)
      <4>1. t # s.sent
        BY <2>2, <3>1 DEF Unsent
      <4>2. CASE r.pending # None /\ r.pending = t
        BY <2>2, <4>1, <4>2 DEF Unsent
      <4>3. ASSUME NEW i \in Meant(r), r.chain[i].text = t PROVE Unsent(s, t)
        <5>1. i # 1
          BY <2>2, <2>5, <4>1, <4>3
        <5>2. i - 1 \in Meant(s) /\ s.chain[i - 1].text = t
          BY <2>3, <4>3, <5>1
        <5> QED
          BY <4>1, <5>2 DEF Unsent
      <4> QED
        BY <3>1, <4>2, <4>3 DEF Unsent
    <3> QED
      BY <1>5, <2>2, <2>3, <3>1 DEF Left
  <2>9. World(s) /\ Held(s) /\ Stopped(s) /\ s.phase # "none"
    BY <1>3, <1>7, <2>2, <2>3, <2>4, <2>6, <2>7, <2>8 DEF World, Held, Stopped
  <2> QED
    BY <1>1, <1>2, <1>3, <1>4, <2>9, CalmQuiet
<1>9. CASE ~(r.chain[1].forgotten \/ (r.chain[1].text = r.sent /\ r.current # None))
  <2>1. s = Called(r) /\ r.chain # <<>> /\ Head(r.chain).do = "save"
    BY <1>1, <1>6, <1>9
  <2>2. /\ s.call # None
        /\ s.call.id = r.current /\ s.call.text = r.chain[1].text /\ s.call.forgotten = FALSE
        /\ s.call.at = "sent"
        /\ s.phase = r.phase /\ s.list = r.list
        /\ s.field = r.field /\ s.work = r.work /\ s.current = r.current
        /\ s.pending = r.pending /\ s.sent = r.sent /\ s.chain = r.chain
        /\ s.localDue = r.localDue /\ s.serverDue = r.serverDue /\ s.emptyDue = r.emptyDue
    BY <2>1, CalledIs
  <2>3. Saves(s) = Saves(r) /\ Loads(s) = Loads(r) /\ Discards(s) = Discards(r) /\ Meant(s) = Meant(r)
    BY <2>2 DEF Saves, Loads, Discards, Meant
  <2>4. ~IsSaved(s) /\ ~IsSaved(r)
    BY <1>1, <2>2 DEF IsSaved
  <2>5. Hand(s)
    BY <1>5, <2>2, <2>4 DEF Held, Hand
  <2>6. Asked(s)
    <3>1. r.chain[1].text.work = r.work
      BY <1>5, <1>6, <1>9 DEF Good, InOrder, Meant
    <3>2. r.current = None => NoneOf(r.work)
      BY <1>5, <2>4 DEF Held, Hand
    <3>3. r.current # None => Stored(r.current) /\ r.current \notin deleting
      BY <1>4, HandSafe DEF Doomed
    <3> QED
      BY <2>2, <3>1, <3>2, <3>3 DEF Asked
  <2>7. Offered(s) /\ Heard(s)
    BY <1>5, <2>2, <2>4 DEF Held, Offered, Heard
  <2>8. Awaited(s) /\ Timed(s) /\ Worded(s) /\ Begun(s)
    <3>1. Begun(s)
      BY <1>5, <1>1, <2>2 DEF Good, InOrder, Unheard, Begun
    <3> QED
      BY <1>5, <2>2, <2>3, <3>1 DEF Held, Awaited, Timed, Worded
  <2>9. Newest(s)
    <3>1. \A t : Final(s, t) <=> Final(r, t)
      BY <2>2, <2>3 DEF Final
    <3> QED
      BY <1>5, <2>2, <3>1 DEF Held, Newest
  <2>10. Doom(s)
    <3>1. \A id : Doomed(s, id) <=> Doomed(r, id)
      BY <2>2, <2>3, <2>4 DEF Doomed
    <3> QED
      BY <1>5, <3>1 DEF Doom
  <2>11. Latest(s) /\ Left(s)
    <3>1. \A t : Unsent(s, t) <=> Unsent(r, t)
      BY <2>2, <2>3 DEF Unsent
    <3> QED
      BY <1>5, <2>2, <2>3, <3>1 DEF Latest, Ahead, Left
  <2>12. World(s) /\ Held(s) /\ Stopped(s) /\ s.phase # "none"
    BY <1>3, <1>7, <2>2, <2>5, <2>6, <2>7, <2>8, <2>9, <2>10, <2>11 DEF World, Held, Stopped
  <2> QED
    BY <1>1, <1>2, <1>3, <1>4, <2>12, CalmQuiet
<1> QED
  BY <1>8, <1>9

LEMMA CalmStartDiscard ==
  ASSUME Before, After, NEW m \in Mounts, StartDiscard(m)
  PROVE  CalmInv'
<1>1. PICK r \in Composers, s \in Composers, id \in Ids :
        /\ Turns(m, r, s) /\ r.chain # <<>> /\ r.call = None
        /\ Head(r.chain).do = "discard" /\ Head(r.chain).id = id
        /\ s = Advanced(r) /\ deleting' = deleting \cup {id}
  BY StartDiscardMoves DEF Before
<1>2. UNCHANGED <<server, device, writer>>
  BY DEF StartDiscard
<1>3. ~Idle(r) /\ r.phase # "none"
  BY <1>1 DEF Turns, Before, OwnInv, InOrder, Unheard, Idle
<1>4. Busy(m, r)
  BY <1>1, <1>3, BusyIs DEF Turns
<1>5. Good(r) /\ Held(r) /\ Doom(r) /\ Latest(r) /\ Left(r)
  BY <1>4 DEF Busy, World
<1>6. /\ 1 \notin Loads(r) /\ 1 \notin Saves(r) /\ 1 \notin Meant(r)
      /\ 1 \in Discards(r) /\ r.chain[1].id = id
  <2>1. 1 \in DOMAIN r.chain /\ Head(r.chain) = r.chain[1]
    BY <1>1, HeadIs
  <2> QED
    BY <1>1, <2>1 DEF Loads, Saves, Meant, Discards
<1>7. Stopped(r)
  BY <1>1 DEF Before, CalmInv, Turns
<1>8. /\ s.chain = Tail(r.chain) /\ s.call = r.call
      /\ s.phase = r.phase /\ s.list = r.list
      /\ s.field = r.field /\ s.work = r.work /\ s.current = r.current
      /\ s.pending = r.pending /\ s.sent = r.sent
      /\ s.localDue = r.localDue /\ s.serverDue = r.serverDue /\ s.emptyDue = r.emptyDue
  BY <1>1, AdvancedIs
<1>9. /\ Awaited(s) /\ Timed(s) /\ Worded(s) /\ Newest(s) /\ Begun(s)
      /\ Loads(s) = {} <=> Loads(r) = {}
      /\ \A i \in Meant(s) : i + 1 \in Meant(r) /\ s.chain[i] = r.chain[i + 1]
      /\ \A i \in Meant(r) \ {1} : i - 1 \in Meant(s) /\ s.chain[i - 1] = r.chain[i]
      /\ \A i \in Discards(s) : i + 1 \in Discards(r) /\ s.chain[i] = r.chain[i + 1]
      /\ \A i \in Discards(r) \ {1} : i - 1 \in Discards(s) /\ s.chain[i - 1] = r.chain[i]
      /\ Ahead(r) /\ ~Ahead(s) => 1 \in Meant(r)
  BY <1>1, <1>5, <1>6, <1>8, CalmTail
<1>10. Hand(s) /\ Asked(s) /\ Offered(s) /\ Heard(s) /\ (IsSaved(s) <=> IsSaved(r))
  BY <1>5, <1>8, CalmKept
<1>11. /\ drafts' = drafts /\ made' = made /\ device' = device
       /\ typed' = typed /\ wanted' = wanted /\ gone' = gone
  BY <1>2 DEF server, writer
<1>12. Doom(s)'
  <2>1. \A x : Doomed(s, x)' <=> Doomed(r, x)
    <3>1. \A x : (\E i \in Discards(s) : s.chain[i].id = x) => \E i \in Discards(r) : r.chain[i].id = x
      BY <1>9
    <3>2. \A x : (\E i \in Discards(r) : r.chain[i].id = x) => x = id \/ \E i \in Discards(s) : s.chain[i].id = x
      BY <1>6, <1>9
    <3>3. \E i \in Discards(r) : r.chain[i].id = id
      BY <1>6
    <3> QED
      BY <1>1, <1>8, <1>10, <3>1, <3>2, <3>3 DEF Doomed
  <2> QED
    BY <1>5, <1>11, <2>1 DEF Doom, Owner
<1>13. Latest(s)'
  BY <1>5, <1>6, <1>8, <1>9, <1>11 DEF Latest
<1>14. Left(s)'
  <2>1. ASSUME NEW t, Unsent(r, t) PROVE Unsent(s, t)
    <3>1. \A i \in Meant(r) : i # 1
      BY <1>6
    <3> QED
      BY <1>8, <1>9, <2>1, <3>1 DEF Unsent
  <2> QED
    BY <1>5, <1>8, <1>9, <1>11, <2>1 DEF Left
<1>15. World(s)'
  BY <1>12, <1>13, <1>14 DEF World
<1>16. Held(s)'
  <2>1. Asked(s)'
    BY <1>1, <1>8 DEF Asked
  <2>2. Begun(s)'
    BY <1>5, <1>1, <1>8 DEF Good, InOrder, Unheard, Begun
  <2>3. Hand(s)' /\ Offered(s)' /\ Awaited(s)' /\ Timed(s)' /\ Heard(s)' /\ Worded(s)' /\ Newest(s)'
    BY <1>9, <1>10, <1>11 DEF Hand, NoneOf, Stored, StoredAs, Offered, Awaited, Timed, Heard, Worded, Newest
  <2> QED
    BY <2>1, <2>2, <2>3 DEF Held
<1>17. Stopped(s) /\ s.phase # "none"
  BY <1>3, <1>7, <1>8 DEF Stopped
<1> QED
  BY <1>1, <1>2, <1>3, <1>4, <1>15, <1>16, <1>17, CalmShift

LEMMA ZeroNone == ASSUME Before PROVE 0 \notin gone /\ 0 <= typed /\ NoneOf(0)
<1>1. 0 \notin gone /\ 0 <= typed
  BY DEF Before, Typed, TypeOK
<1>2. \A d \in ToSet(drafts) : d.text \in Texts
  <2>1. PICK list \in Seq(Listed) : list = drafts
    BY DEF Before, Typed, TypeOK
  <2> QED
    BY <2>1, ListedAre
<1> QED
  BY <1>1, <1>2 DEF NoneOf, Texts

LEMMA CalmStartLoad ==
  ASSUME Before, After, NEW m \in Mounts, StartLoad(m)
  PROVE  CalmInv'
<1>1. PICK r \in Composers, s \in Composers, draft \in Listed \cup {None} :
        /\ Turns(m, r, s) /\ r.chain # <<>> /\ r.call = None
        /\ Head(r.chain).do = "load" /\ Head(r.chain).draft = draft
        /\ s = Load(Advanced(r), draft)
  BY StartLoadMoves DEF Before
<1>2. UNCHANGED <<server, deleting, writer>> /\ device' = None
  BY DEF StartLoad
<1>3. ~Idle(r) /\ r.phase # "none"
  BY <1>1 DEF Turns, Before, OwnInv, InOrder, Unheard, Idle
<1>4. Busy(m, r)
  BY <1>1, <1>3, BusyIs DEF Turns
<1>5. Good(r) /\ Held(r) /\ Doom(r) /\ Latest(r)
  BY <1>4 DEF Busy, World
<1>6. 1 \in Loads(r) /\ 1 \notin Discards(r) /\ r.chain[1].draft = draft
  <2>1. 1 \in DOMAIN r.chain /\ Head(r.chain) = r.chain[1]
    BY <1>1, HeadIs
  <2> QED
    BY <1>1, <2>1 DEF Loads, Discards
<1>7. Stopped(r)
  BY <1>1 DEF Before, CalmInv, Turns
<1>8. PICK a \in Composers :
        /\ a = Advanced(r) /\ a.chain = Tail(r.chain) /\ a.call = r.call
        /\ a.phase = r.phase /\ a.list = r.list /\ a.local = r.local
        /\ a.field = r.field /\ a.work = r.work /\ a.current = r.current
        /\ a.pending = r.pending /\ a.sent = r.sent
        /\ a.localDue = r.localDue /\ a.serverDue = r.serverDue /\ a.emptyDue = r.emptyDue
  BY <1>1, AdvancedIs
<1>9. InOrder(a) /\ Saves(a) = {} /\ Loads(a) = {} /\ Meant(a) = {} /\ a.phase \in {"open", "closed"}
  <2>1. a.call = None /\ a.emptyDue = r.emptyDue /\ InOrder(r) /\ Owned(r)
    BY <1>1, <1>5, <1>8 DEF Good
  <2> QED
    BY <1>1, <1>6, <1>8, <2>1, OwnTailed
<1>10. ~IsSaved(r) /\ r.pending = None /\ Meant(r) = {} /\ ~Ahead(r)
  <2>1. r.pending = None
    BY <1>5, <1>6 DEF Good, InOrder
  <2>2. \A i \in Meant(r) : FALSE
    <3> SUFFICES ASSUME NEW i \in Meant(r) PROVE FALSE
      OBVIOUS
    <3>1. i < 1 /\ i \in DOMAIN r.chain
      BY <1>5, <1>6 DEF Good, InOrder, Meant, Saves
    <3>2. i \in Nat \ {0}
      <4>1. r.chain \in Seq(Chained)
        BY DEF Composers
      <4> QED
        BY <3>1, <4>1
    <3> QED
      BY <3>1, <3>2
  <2> QED
    BY <1>1, <2>1, <2>2 DEF IsSaved, Ahead
<1>11. \A x : (\E i \in Discards(a) : a.chain[i].id = x) <=> \E i \in Discards(r) : r.chain[i].id = x
  <2>1. r.chain \in Seq(Chained)
    BY DEF Composers
  <2>2. \A i \in Discards(a) : i + 1 \in Discards(r) /\ a.chain[i] = r.chain[i + 1]
    <3>1. \A i \in Discards(a) : i + 1 \in Discards(r)
      BY <1>1, <1>8, <2>1, TailedSaves
    <3>2. \A i \in DOMAIN a.chain : a.chain[i] = r.chain[i + 1]
      BY <1>1, <1>8, <2>1, Tailed
    <3> QED
      BY <3>1, <3>2 DEF Discards
  <2>3. \A i \in Discards(r) : i - 1 \in Discards(a) /\ a.chain[i - 1] = r.chain[i]
    <3>1. \A i \in Discards(r) \ {1} : i - 1 \in Discards(a)
      BY <1>1, <1>8, <2>1, TailedSaves
    <3>2. \A i \in DOMAIN r.chain \ {1} : a.chain[i - 1] = r.chain[i]
      BY <1>1, <1>8, <2>1, Tailed
    <3> QED
      BY <1>6, <3>1, <3>2 DEF Discards
  <2> QED
    BY <2>2, <2>3
<1>12. /\ s.chain = a.chain /\ s.call = None /\ s.phase = r.phase /\ s.list = r.list
       /\ s = Load(a, draft)
  <2>1. s = Load(a, draft)
    BY <1>1, <1>8
  <2>2. s.chain = a.chain /\ s.call = a.call /\ s.phase = a.phase /\ s.list = a.list
    <3>1. CASE a.phase = "open"
      BY <2>1, <3>1, LoadIs
    <3>2. CASE a.phase # "open"
      BY <2>1, <3>2, ShutLoadIs
    <3> QED
      BY <3>1, <3>2
  <2> QED
    BY <1>1, <1>8, <2>1, <2>2
<1>13. Saves(s) = {} /\ Loads(s) = {} /\ Meant(s) = {} /\ Discards(s) = Discards(a) /\ ~IsSaved(s)
  BY <1>9, <1>12 DEF Saves, Loads, Meant, Discards, IsSaved
<1>14. Doom(s) /\ Latest(s)
  <2>1. \A x : Doomed(s, x) <=> Doomed(r, x)
    BY <1>10, <1>11, <1>12, <1>13 DEF Doomed
  <2> QED
    BY <1>5, <1>10, <2>1 DEF Doom, Latest
<1>15. World(s)'
  BY <1>2, <1>14 DEF World, Doom, Doomed, Owner, Latest, Left, server, writer
<1>16. Held(s) /\ Stopped(s) /\ s.phase # "none"
  <2>1. CASE r.phase # "open"
    <3>1. /\ s.phase = "closed" /\ s.pending = None /\ s.sent = None /\ s.field = None
          /\ s.work = WorkOf(TextOf(draft)) /\ s.current = IdOf(draft)
          /\ ~s.localDue /\ ~s.emptyDue /\ ~s.serverDue
      <4>1. a.phase = "closed" /\ a.phase # "open" /\ a.field = None /\ ~a.localDue /\ ~a.emptyDue /\ ~a.serverDue
        BY <1>7, <1>8, <1>9, <2>1 DEF InOrder, Stopped
      <4> QED
        BY <1>12, <4>1, ShutLoadIs
    <3>2. Hand(s)
      <4>1. CASE draft = None
        <5>1. s.work = 0 /\ s.current = None
          BY <3>1, <4>1 DEF TextOf, WorkOf, IdOf
        <5> QED
          BY <5>1, ZeroNone DEF Hand
      <4>2. CASE draft # None
        <5>1. draft.text.work \notin gone /\ StoredAs(draft.id, draft.text)
          BY <1>5, <1>6, <4>2 DEF Held, Awaited
        <5>2. PICK d \in ToSet(drafts) : d.id = draft.id /\ d.text = draft.text
          BY <5>1 DEF StoredAs
        <5>3. draft.text # None /\ draft.id # None
          BY <4>2, TextsAre DEF TextOf, IdOf
        <5>4. s.work = d.text.work /\ s.current = d.id /\ s.current # None
          BY <3>1, <4>2, <5>2, <5>3 DEF TextOf, WorkOf, IdOf
        <5>5. d.text.work <= typed
          BY DEF Before, CalmInv, Bounds
        <5>6. Stored(d.id)
          BY DEF Stored, ToSet
        <5> QED
          BY <5>1, <5>2, <5>4, <5>5, <5>6 DEF Hand
      <4> QED
        BY <4>1, <4>2
    <3>3. Asked(s) /\ Heard(s)
      BY <1>12, <3>1 DEF Asked, Heard
    <3>4. Offered(s)
      BY <1>5, <1>10, <1>12 DEF Held, Offered
    <3>5. Awaited(s) /\ Timed(s) /\ Worded(s) /\ Newest(s) /\ Begun(s)
      BY <1>13, <3>1 DEF Awaited, Timed, Worded, Newest, Final, Begun
    <3> QED
      BY <3>1, <3>2, <3>3, <3>4, <3>5 DEF Held, Stopped
  <2>2. CASE r.phase = "open" /\ draft = None
    <3>1. s = Load(a, draft) /\ TextOf(draft) = None /\ WorkOf(None) = 0 /\ IdOf(draft) = None
      BY <1>12, <2>2 DEF TextOf, WorkOf, IdOf
    <3>2. /\ s.field = None /\ s.work = 0 /\ s.current = None /\ s.sent = None
          /\ None = a.field => s.pending = None /\ s.localDue = a.localDue
          /\ None # a.field => s.pending = None /\ ~s.localDue
      BY <1>8, <2>2, <3>1, LoadIs
    <3>3. s.pending = None /\ ~s.localDue
      BY <1>5, <1>8, <3>2 DEF Good, Sound
    <3>4. Hand(s)
      BY <3>2, ZeroNone DEF Hand
    <3>5. Asked(s)
      BY <1>12 DEF Asked
    <3>6. Offered(s)
      BY <1>5, <1>10, <1>12 DEF Held, Offered
    <3>7. Awaited(s) /\ Timed(s) /\ Heard(s) /\ Worded(s) /\ Newest(s) /\ Begun(s)
      BY <1>12, <1>13, <2>2, <3>2, <3>3 DEF Awaited, Timed, Heard, Worded, Newest, Final, Begun
    <3> QED
      BY <1>12, <2>2, <3>4, <3>5, <3>6, <3>7 DEF Held, Stopped
  <2>3. CASE r.phase = "open" /\ draft # None
    <3>1. draft.text.work \notin gone \cup {r.work} /\ StoredAs(draft.id, draft.text)
      BY <1>5, <1>6, <2>3 DEF Held, Awaited
    <3>2. PICK d \in ToSet(drafts) : d.id = draft.id /\ d.text = draft.text
      BY <3>1 DEF StoredAs
    <3>3. draft.text # None /\ draft.text # r.field
      <4>1. draft.text \in Texts
        BY <2>3 DEF Listed
      <4>2. draft.text # None
        BY <4>1, NoneAssumption
      <4> QED
        BY <1>5, <3>1, <4>2 DEF Good, InOrder
    <3>4. s = Load(a, draft) /\ TextOf(draft) = d.text /\ WorkOf(d.text) = d.text.work /\ IdOf(draft) = d.id
      BY <1>12, <2>3, <3>2, <3>3 DEF TextOf, WorkOf, IdOf
    <3>5. d.text # a.field /\ d.text # None
      BY <1>8, <3>2, <3>3
    <3>6. /\ s.field = d.text /\ s.work = d.text.work /\ s.current = d.id /\ s.sent = None
          /\ s.pending = d.text /\ s.localDue /\ s.serverDue /\ ~s.emptyDue
      BY <1>8, <2>3, <3>4, <3>5, LoadIs
    <3>7. s.phase = "open" /\ Offered(r) /\ d.text.work \notin gone
      BY <1>5, <1>12, <2>3, <3>1, <3>2 DEF Held
    <3>8. Held(s)
      BY <1>5, <1>10, <1>12, <1>13, <3>6, <3>7, CalmFresh
    <3> QED
      BY <3>7, <3>8 DEF Stopped
  <2> QED
    BY <2>1, <2>2, <2>3
<1>17. Held(s)'
  BY <1>2, <1>16, HeldStays
<1> QED
  BY <1>1, <1>2, <1>3, <1>4, <1>15, <1>16, <1>17, CalmShift

LEMMA CalmSaved ==
  ASSUME Before, After, NEW m \in Mounts, Saved(m)
  PROVE  CalmInv'
<1>1. PICK r \in Composers, s \in Composers :
        /\ Turns(m, r, s) /\ r.call # None /\ r.call.at = "saved" /\ r.chain # <<>>
        /\ \/ /\ r.call.forgotten /\ s = Done(r)
              /\ deleting' = deleting \cup {r.call.id} /\ UNCHANGED device
           \/ /\ ~r.call.forgotten /\ s = Put(r) /\ UNCHANGED deleting
              /\ device' = IF device # None /\ device.text = r.call.text
                           THEN Copy(r.call.id, r.call.text, FALSE) ELSE device
  BY SavedMoves DEF Before
<1>2. UNCHANGED <<server, writer>>
  BY DEF Saved, SavedAs
<1>3. ~Idle(r) /\ r.phase # "none"
  BY <1>1 DEF Turns, Before, OwnInv, InOrder, Unheard, Idle
<1>4. Busy(m, r)
  BY <1>1, <1>3, BusyIs DEF Turns
<1>5. Good(r) /\ Held(r) /\ Doom(r) /\ Latest(r) /\ Left(r) /\ IsSaved(r)
  BY <1>1, <1>4 DEF Busy, World, IsSaved
<1>6. /\ 1 \in Saves(r) /\ 1 \notin Loads(r) /\ 1 \notin Discards(r)
      /\ r.chain[1].text = r.call.text /\ r.chain[1].forgotten = r.call.forgotten
  BY <1>1, <1>5 DEF Good, Sound, Saves, Loads, Discards
<1>7. Stopped(r)
  BY <1>1 DEF Before, CalmInv, Turns
<1>8. r.call.id \in Ids /\ r.call.text \in Texts /\ r.call.id # None /\ r.call.text # None
  <2>1. r.call.at = "saved" /\ r.call # None
    BY <1>1
  <2>2. r.call \in Calls
    BY <2>1 DEF Composers
  <2>3. r.call.id \in Ids /\ r.call.text \in Texts
    BY <2>1, <2>2, CallsAre
  <2> QED
    BY <2>3, NoneAssumption
<1>9. /\ drafts' = drafts /\ made' = made /\ typed' = typed /\ wanted' = wanted /\ gone' = gone
  BY <1>2 DEF server, writer
<1> DEFINE Shifts ==
      /\ Awaited(s) /\ Timed(s) /\ Worded(s) /\ Newest(s) /\ Begun(s)
      /\ Loads(s) = {} <=> Loads(r) = {}
      /\ \A i \in Meant(s) : i + 1 \in Meant(r) /\ s.chain[i] = r.chain[i + 1]
      /\ \A i \in Meant(r) \ {1} : i - 1 \in Meant(s) /\ s.chain[i - 1] = r.chain[i]
      /\ \A i \in Discards(s) : i + 1 \in Discards(r) /\ s.chain[i] = r.chain[i + 1]
      /\ \A i \in Discards(r) \ {1} : i - 1 \in Discards(s) /\ s.chain[i - 1] = r.chain[i]
      /\ Ahead(r) /\ ~Ahead(s) => 1 \in Meant(r) /\ wanted[r.work] \in {None, r.chain[1].text}
<1>10. Shifts => \A x : (\E i \in Discards(s) : s.chain[i].id = x) <=> \E i \in Discards(r) : r.chain[i].id = x
  BY <1>6
<1>11. CASE r.call.forgotten
  <2>1. s = Done(r) /\ deleting' = deleting \cup {r.call.id} /\ device' = device
    BY <1>1, <1>11
  <2>2. /\ s.call = None /\ s.chain = Tail(r.chain)
        /\ s.phase = r.phase /\ s.list = r.list
        /\ s.field = r.field /\ s.work = r.work /\ s.current = r.current
        /\ s.pending = r.pending /\ s.sent = r.sent
        /\ s.localDue = r.localDue /\ s.serverDue = r.serverDue /\ s.emptyDue = r.emptyDue
    BY <1>1, <2>1, DoneIs
  <2>3. Shifts
    BY <1>1, <1>5, <1>6, <2>2, CalmTail
  <2>4. 1 \notin Meant(r)
    BY <1>6, <1>11 DEF Meant
  <2>5. r.current = None /\ \A d \in ToSet(r.list) : d.id # r.call.id
    BY <1>1, <1>5, <1>8, <1>11 DEF Held, Asked
  <2>6. Hand(s) /\ Asked(s) /\ Offered(s) /\ Heard(s) /\ ~IsSaved(s)
    <3>1. Hand(s)
      BY <1>5, <1>11, <2>2, <2>5 DEF Held, Hand
    <3>2. Asked(s) /\ ~IsSaved(s)
      BY <2>2 DEF Asked, IsSaved
    <3>3. Offered(s)
      BY <1>5, <2>2, <2>5 DEF Held, Offered
    <3>4. Heard(s)
      BY <1>5, <2>2, <2>5 DEF Held, Heard
    <3> QED
      BY <3>1, <3>2, <3>3, <3>4
  <2>7. Doom(s)'
    <3>1. \A x : Doomed(r, x) <=>
                   x \in deleting \/ (\E i \in Discards(r) : r.chain[i].id = x) \/ x = r.call.id
      BY <1>5, <1>11 DEF Doomed
    <3>2. \A x : Doomed(s, x)' <=> x \in deleting' \/ \E i \in Discards(s) : s.chain[i].id = x
      BY <2>6 DEF Doomed, IsSaved
    <3>3. \A x : (\E i \in Discards(s) : s.chain[i].id = x) <=> \E i \in Discards(r) : r.chain[i].id = x
      BY <1>10, <2>3
    <3>4. \A x : Doomed(s, x)' <=> Doomed(r, x)
      BY <2>1, <3>1, <3>2, <3>3
    <3> QED
      BY <1>5, <1>9, <3>4 DEF Doom, Owner
  <2>8. Latest(s)'
    BY <1>5, <1>9, <2>2, <2>3, <2>4 DEF Latest
  <2>9. Left(s)'
    <3>1. ASSUME NEW t, Unsent(r, t) PROVE Unsent(s, t)
      <4>1. \A i \in Meant(r) : i # 1
        BY <2>4
      <4> QED
        BY <2>2, <2>3, <3>1, <4>1 DEF Unsent
    <3> QED
      BY <1>5, <1>9, <2>1, <2>2, <2>3, <3>1 DEF Left
  <2>10. Held(s)'
    <3>1. Asked(s)'
      BY <2>2 DEF Asked
    <3>2. Begun(s)'
      BY <1>1, <1>5, <2>2 DEF Good, InOrder, Unheard, Begun
    <3>3. Hand(s)' /\ Offered(s)' /\ Awaited(s)' /\ Timed(s)' /\ Heard(s)' /\ Worded(s)' /\ Newest(s)'
      BY <1>9, <2>3, <2>6 DEF Hand, NoneOf, Stored, StoredAs, Offered, Awaited, Timed, Heard, Worded, Newest
    <3> QED
      BY <3>1, <3>2, <3>3 DEF Held
  <2>11. World(s)' /\ Stopped(s) /\ s.phase # "none"
    BY <1>3, <1>7, <2>2, <2>7, <2>8, <2>9 DEF World, Stopped
  <2> QED
    BY <1>1, <1>2, <1>3, <1>4, <2>10, <2>11, CalmShift
<1>12. CASE ~r.call.forgotten
  <2>1. /\ s = Put(r) /\ deleting' = deleting
        /\ device' = IF device # None /\ device.text = r.call.text
                     THEN Copy(r.call.id, r.call.text, FALSE) ELSE device
    BY <1>1, <1>12
  <2>2. /\ s.call = None /\ s.chain = Tail(r.chain) /\ s.list = SaveIn(r.list, r.call.id, r.call.text)
        /\ s.current = r.call.id /\ s.sent = r.call.text /\ s.phase = r.phase
        /\ s.field = r.field /\ s.work = r.work /\ s.pending = r.pending
        /\ s.localDue = r.localDue /\ s.serverDue = r.serverDue /\ s.emptyDue = r.emptyDue
    BY <1>1, <2>1, PutIs
  <2>3. Shifts
    BY <1>1, <1>5, <1>6, <2>2, CalmTail
  <2>4. StoredAs(r.call.id, r.call.text)
    BY <1>1, <1>5, <1>12 DEF Held, Asked
  <2>5. r.call.text.work = r.work /\ r.work \notin gone /\ r.call.text.n <= typed
    <3>1. 1 \in Meant(r)
      BY <1>6, <1>12 DEF Meant
    <3> QED
      BY <1>5, <1>6, <3>1 DEF Good, InOrder, Held, Hand, Worded
  <2>6. Hand(s)
    <3>1. Stored(r.call.id)
      BY <2>4 DEF StoredAs, Stored, ToSet
    <3> QED
      BY <1>5, <1>8, <2>2, <3>1 DEF Held, Hand
  <2>7. Asked(s) /\ ~IsSaved(s)
    BY <2>2 DEF Asked, IsSaved
  <2>8. Heard(s)
    BY <2>2, <2>4, <2>5 DEF Heard
  <2>9. Offered(s)
    <3> DEFINE id == r.call.id
               text == r.call.text
               list == r.list
               e == [id |-> id, text |-> text]
    <3>1. list \in Seq(Listed) /\ Single(list) /\ id \in Ids /\ text \in Texts /\ s.list = SaveIn(list, id, text)
      BY <1>5, <1>8, <2>2 DEF Composers, Owned, Good
    <3>2. e.id = id /\ e.text = text /\ text.work \notin gone /\ StoredAs(id, text)
      BY <2>4, <2>5
    <3>3. \A d \in ToSet(list) : d.id # id => d.text.work \notin gone /\ StoredAs(d.id, d.text)
      BY <1>5 DEF Held, Offered
    <3> HIDE DEF id, text, list, e
    <3>4. ToSet(s.list) = {e} \cup {x \in ToSet(list) : x.id # id}
      <4> USE DEF e
      <4> QED
        BY <3>1, SaveInIs
    <3> QED
      BY <3>2, <3>3, <3>4 DEF Offered
  <2>10. Held(s)
    BY <2>3, <2>6, <2>7, <2>8, <2>9 DEF Held
  <2>11. Doom(s)
    <3>1. \A x : Doomed(s, x) <=> Doomed(r, x)
      BY <1>10, <1>12, <2>3, <2>7 DEF Doomed
    <3> QED
      BY <1>5, <3>1 DEF Doom
  <2>12. Latest(s)
    <3> SUFFICES ASSUME NEW w \in 1..MaxTyped, wanted[w] # None, ~(s.work = w /\ Ahead(s)),
                        r.work = w /\ Ahead(r)
                 PROVE  \E d \in ToSet(drafts) : d.text = wanted[w]
      BY <1>5 DEF Latest
    <3>1. wanted[w] = r.call.text
      BY <1>6, <2>2, <2>3
    <3> QED
      BY <2>4, <3>1 DEF StoredAs
  <2>13. Left(s)'
    <3>1. CASE device # None /\ device.text = r.call.text
      <4>1. PICK copy \in Copies : copy = device' /\ copy.id = r.call.id /\ copy.text = r.call.text /\ ~copy.newer
        <5>1. device' = Copy(r.call.id, r.call.text, FALSE)
          BY <2>1, <3>1
        <5>2. r.call.id \in Ids \cup {None} /\ r.call.text \in Texts /\ FALSE \in BOOLEAN
          BY <1>8
        <5> QED
          BY <5>1, <5>2, CopyIs
      <4> QED
        BY <1>8, <1>9, <2>5, <4>1 DEF Left
    <3>2. CASE ~(device # None /\ device.text = r.call.text)
      <4>1. device' = device
        BY <2>1, <3>2
      <4>2. ASSUME NEW t, t # r.call.text, Unsent(r, t) PROVE Unsent(s, t)
        <5>1. t # s.sent
          BY <2>2, <4>2
        <5>2. CASE r.pending # None /\ r.pending = t
          BY <2>2, <5>1, <5>2 DEF Unsent
        <5>3. ASSUME NEW i \in Meant(r), r.chain[i].text = t PROVE Unsent(s, t)
          <6>1. i # 1
            BY <1>6, <4>2, <5>3
          <6>2. i - 1 \in Meant(s) /\ s.chain[i - 1].text = t
            BY <2>3, <5>3, <6>1
          <6> QED
            BY <5>1, <6>2 DEF Unsent
        <5> QED
          BY <4>2, <5>2, <5>3 DEF Unsent
      <4>3. Left(s)
        BY <1>5, <2>2, <2>3, <3>2, <4>2 DEF Left
      <4> QED
        BY <1>9, <4>1, <4>3 DEF Left
    <3> QED
      BY <3>1, <3>2
  <2>14. World(s)'
    BY <1>9, <2>1, <2>11, <2>12, <2>13 DEF World, Doom, Doomed, Owner, Latest
  <2>15. Held(s)'
    BY <1>2, <2>1, <2>10, HeldStays
  <2>16. Stopped(s) /\ s.phase # "none"
    BY <1>3, <1>7, <2>2 DEF Stopped
  <2> QED
    BY <1>1, <1>2, <1>3, <1>4, <2>14, <2>15, <2>16, CalmShift
<1> QED
  BY <1>11, <1>12

\* What it takes to type.
LEMMA WriterWaits ==
  ASSUME Before, After, NEW m \in Mounts, NEW r \in Composers, Turns(m, r, mount'[m]),
         NEW kinds, InTheWay(Waits(m) \cup kinds)
  PROVE  r.phase = "open" /\ Loads(r) = {} /\ kinds = {} /\ ~Idle(r) /\ Busy(m, r)
<1>1. Waits(m) = {} /\ kinds = {} /\ r = mount[m]
  BY NoneInTheWay DEF Turns
<1>2. r.phase = "open" /\ Loads(r) = {}
  BY <1>1 DEF Waits, AskedFor, Loads
<1>3. ~Idle(r) /\ r.phase # "none"
  BY <1>2 DEF Idle
<1> QED
  BY <1>1, <1>2, <1>3, BusyIs

LEMMA CalmType ==
  ASSUME Before, After, NEW m \in Mounts, Type(m)
  PROVE  CalmInv'
<1>1. PICK r \in Composers, s \in Composers, text \in Texts :
           /\ Turns(m, r, s)
           /\ text.n = typed + 1 /\ text.work = IF r.work = 0 THEN typed + 1 ELSE r.work
           /\ typed' = typed + 1 /\ wanted' = [wanted EXCEPT ![text.work] = text]
           /\ s = IF r.phase = "open" THEN Written(r, text) ELSE Scribbled(r, text)
  BY TypeMoves DEF Before
<1>2. mount'[m] = s /\ Others(m)
  BY <1>1, MountMoves DEF Turns, Others, Before
<1>3. r.phase = "open" /\ Loads(r) = {} /\ ~Idle(r) /\ Busy(m, r)
  <2>1. InTheWay(Waits(m) \cup {})
    BY DEF Type
  <2> QED
    BY <1>1, <1>2, <2>1, WriterWaits
<1>4. Good(r) /\ Held(r) /\ Doom(r) /\ Latest(r) /\ Left(r)
  BY <1>3 DEF Busy, World
<1>5. drafts' = drafts /\ device' = device /\ deleting' = deleting /\ gone' = gone /\ made' = made
  BY DEF Type, server
<1>6. text # None
  BY NoneAssumption
<1>7. /\ s.phase = r.phase /\ s.list = r.list /\ s.field = text
      /\ s.current = r.current /\ s.sent = r.sent /\ s.chain = r.chain /\ s.call = r.call
      /\ s.work = text.work /\ s.pending = text /\ s.localDue /\ s.serverDue /\ ~s.emptyDue
  BY <1>1, <1>3, <1>6, WrittenIs
<1>8. Saves(s) = Saves(r) /\ Loads(s) = {} /\ Discards(s) = Discards(r) /\ Meant(s) = Meant(r)
  BY <1>3, <1>7 DEF Saves, Loads, Discards, Meant
<1>9. typed \in Nat /\ text.work \in Nat \ {0} /\ r.work \in Nat /\ wanted \in [1..MaxTyped -> Texts \cup {None}] /\ text.work \in 1..MaxTyped
  <2>1. text.work \in 1..MaxTyped
    BY DEF Texts
  <2>2. typed \in 0..MaxTyped /\ r.work \in 0..MaxTyped /\ wanted \in [1..MaxTyped -> Texts \cup {None}]
    BY DEF Before, Typed, TypeOK, Composers
  <2> QED
    BY <2>1, <2>2, DraftsAssumption
<1>10. \A d \in ToSet(drafts) : d.text.work \in Nat /\ d.text.n \in Nat /\ d.text.work <= typed /\ d.text.n <= typed
  <2>1. \A d \in ToSet(drafts) : d.text \in Texts
    <3>1. PICK list \in Seq(Listed) : list = drafts
      BY DEF Before, Typed, TypeOK
    <3> QED
      BY <3>1, ListedAre
  <2> QED
    BY <2>1 DEF Texts, Before, CalmInv, Bounds
<1>11. text.work \notin gone /\ text.work <= typed + 1
  <2>1. r.work \notin gone /\ r.work <= typed /\ gone \subseteq 1..typed
    BY <1>4 DEF Held, Hand, Before, CalmInv, Bounds
  <2> QED
    BY <1>1, <1>9, <2>1
<1>12. Bounds' /\ NeverTwice'
  <2>1. \A d \in ToSet(drafts)' : d.text.work <= typed' /\ d.text.n <= typed'
    BY <1>1, <1>5, <1>9, <1>10
  <2>2. gone' \subseteq 1..typed'
    BY <1>1, <1>5, <1>9 DEF Before, CalmInv, Bounds
  <2>3. ASSUME NEW w \in 1..MaxTyped, wanted'[w] # None
        PROVE  w <= typed' /\ wanted'[w].work = w /\ w \notin gone'
    <3>1. CASE w = text.work
      BY <1>1, <1>5, <1>9, <1>11, <3>1
    <3>2. CASE w # text.work
      <4>1. wanted'[w] = wanted[w] /\ w \in Nat
        BY <1>1, <1>9, <3>2
      <4>2. w <= typed /\ wanted[w].work = w /\ w \notin gone
        BY <2>3, <4>1 DEF Before, CalmInv, Bounds
      <4> QED
        BY <1>1, <1>5, <1>9, <4>1, <4>2
    <3> QED
      BY <3>1, <3>2
  <2>4. NeverTwice'
    BY <1>5 DEF Before, CalmInv, NeverTwice
  <2> QED
    BY <2>1, <2>2, <2>3, <2>4 DEF Bounds
<1>13. Hand(s)'
  <2>1. CASE r.work = 0
    <3>1. NoneOf(text.work)
      BY <1>1, <1>9, <1>10, <2>1 DEF NoneOf
    <3>2. r.current = None
      BY <1>4, <2>1 DEF Good, InOrder
    <3> QED
      BY <1>1, <1>5, <1>7, <1>11, <3>1, <3>2 DEF Hand, NoneOf
  <2>2. CASE r.work # 0
    <3>1. text.work = r.work
      BY <1>1, <2>2
    <3> QED
      BY <1>1, <1>4, <1>5, <1>7, <1>11, <3>1 DEF Held, Hand, NoneOf, Stored, IsSaved
  <2> QED
    BY <2>1, <2>2
<1>14. Asked(s)' /\ Offered(s)'
  BY <1>4, <1>5, <1>7 DEF Held, Asked, NoneOf, Stored, StoredAs, Offered, IsSaved
<1>15. /\ \A i \in Saves(r) : /\ r.chain[i].text.n \in Nat /\ r.chain[i].text.n <= typed
                              /\ r.chain[i].forgotten => r.chain[i].text.work \in gone
       /\ r.sent # None => r.sent.n \in Nat /\ r.sent.n <= typed
  <2>1. r.chain \in Seq(Chained) /\ r.sent \in Texts \cup {None}
    BY DEF Composers
  <2>2. \A i \in Saves(r) : r.chain[i].text \in Texts
    BY <2>1, ChainParts DEF Saves
  <2>3. \A t \in Texts : t.n \in Nat
    BY DraftsAssumption DEF Texts
  <2> QED
    BY <1>4, <2>1, <2>2, <2>3 DEF Held, Heard, Worded
<1>16. Awaited(s)' /\ Timed(s)' /\ Begun(s)'
  <2>1. s.sent # s.field
    BY <1>1, <1>6, <1>7, <1>9, <1>15
  <2>2. \A i \in Saves(s) : s.chain[i].text # s.field
    BY <1>1, <1>7, <1>8, <1>9, <1>15
  <2> QED
    BY <1>3, <1>7, <1>8, <2>1, <2>2 DEF Awaited, Timed, Begun
<1>17. Heard(s)'
  <2>1. r.sent # None => r.sent.n <= typed'
    BY <1>1, <1>9, <1>15
  <2> QED
    BY <1>4, <1>5, <1>7, <2>1 DEF Held, Heard, StoredAs, IsSaved
<1>18. Worded(s)'
  <2>1. \A i \in Saves(s) : s.chain[i].text.n <= typed' /\ (s.chain[i].forgotten => s.chain[i].text.work \in gone')
    BY <1>1, <1>5, <1>7, <1>8, <1>9, <1>15
  <2>2. text.n <= typed'
    BY <1>1, <1>9
  <2> QED
    BY <1>7, <2>1, <2>2 DEF Worded
<1>19. Newest(s)'
  <2>1. wanted'[s.work] = text
    BY <1>1, <1>7, <1>9
  <2>2. \A t : Final(s, t) => t = text
    BY <1>6, <1>7 DEF Final
  <2> QED
    BY <1>7, <2>1, <2>2 DEF Newest, Final
<1>20. Doom(s)'
  <2>1. \A x : Doomed(s, x)' <=> Doomed(r, x)
    BY <1>5, <1>7, <1>8 DEF Doomed, IsSaved
  <2> QED
    BY <1>4, <1>5, <2>1 DEF Doom, Owner
<1>21. Latest(s)'
  <2> SUFFICES ASSUME NEW w \in 1..MaxTyped, wanted'[w] # None, ~(s.work = w /\ Ahead(s))
               PROVE  \E d \in ToSet(drafts) : d.text = wanted'[w]
    BY <1>5 DEF Latest, Ahead
  <2>1. w # text.work
    BY <1>6, <1>7 DEF Ahead
  <2>2. wanted'[w] = wanted[w] /\ w # r.work
    BY <1>1, <1>9, <2>1
  <2> QED
    BY <1>4, <2>2 DEF Latest
<1>22. Left(s)'
  BY <1>4, <1>5, <1>7 DEF Left
<1>23. Held(s)' /\ World(s)' /\ Stopped(s) /\ s.phase # "none"
  BY <1>3, <1>7, <1>13, <1>14, <1>16, <1>17, <1>18, <1>19, <1>20, <1>21, <1>22 DEF Held, World, Stopped
<1>24. mount[m].phase # "none" /\ ~Idle(mount[m]) /\ AllElse(m)
  BY <1>3 DEF Busy
<1> QED
  BY <1>2, <1>12, <1>23, <1>24, CalmTurn

\* What is wanted of one work no more, is of no other.
LEMMA UnwantedStays ==
  ASSUME Before, NEW work \in 1..MaxTyped, wanted' = [wanted EXCEPT ![work] = None],
         drafts' = drafts, typed' = typed, gone' = gone
  PROVE  Bounds' /\ NeverTwice' /\ wanted'[work] = None
         /\ \A w \in 1..MaxTyped : wanted'[w] = (IF w = work THEN None ELSE wanted[w])
<1>1. wanted \in [1..MaxTyped -> Texts \cup {None}]
  BY DEF Before, Typed, TypeOK
<1>2. wanted'[work] = None /\ \A w \in 1..MaxTyped : wanted'[w] = (IF w = work THEN None ELSE wanted[w])
  BY <1>1
<1>3. NeverTwice'
  BY DEF Before, CalmInv, NeverTwice
<1>4. Bounds'
  BY <1>2 DEF Before, CalmInv, Bounds
<1> QED
  BY <1>2, <1>3, <1>4

LEMMA CalmEmpty ==
  ASSUME Before, After, NEW m \in Mounts, Empty(m)
  PROVE  CalmInv'
<1>1. PICK r \in Composers, s \in Composers : Turns(m, r, s) /\ s = Written(r, None) /\ r.field # None
  BY EmptyMoves DEF Before
<1>2. mount'[m] = s /\ Others(m)
  BY <1>1, MountMoves DEF Turns, Others, Before
<1>3. r.phase = "open" /\ Loads(r) = {} /\ ~r.localDue /\ ~Idle(r) /\ Busy(m, r)
  <2>1. InTheWay(Waits(m) \cup Quick(m))
    BY DEF Empty
  <2>2. r.phase = "open" /\ Loads(r) = {} /\ Quick(m) = {} /\ ~Idle(r) /\ Busy(m, r)
    BY <1>1, <1>2, <2>1, WriterWaits
  <2> QED
    BY <1>1, <2>2 DEF Quick, Turns
<1>4. Good(r) /\ Held(r) /\ Doom(r) /\ Latest(r) /\ Left(r)
  BY <1>3 DEF Busy, World
<1>5. r.field.work = r.work /\ r.work \in 1..MaxTyped /\ mount[m].field.work = r.work
  <2>1. r.field \in Texts
    BY <1>1 DEF Composers
  <2> QED
    BY <1>1, <1>4, <2>1 DEF Texts, Good, InOrder, Turns
<1>6. /\ drafts' = drafts /\ device' = device /\ deleting' = deleting /\ gone' = gone /\ made' = made /\ typed' = typed
      /\ wanted' = [wanted EXCEPT ![r.work] = None]
  BY <1>5 DEF Empty, server
<1>7. /\ Bounds' /\ NeverTwice' /\ wanted'[r.work] = None
      /\ \A w \in 1..MaxTyped : wanted'[w] = (IF w = r.work THEN None ELSE wanted[w])
  BY <1>5, <1>6, UnwantedStays
<1>8. /\ s.phase = r.phase /\ s.list = r.list /\ s.field = None
      /\ s.current = r.current /\ s.sent = r.sent /\ s.chain = r.chain /\ s.call = r.call
      /\ s.work = r.work /\ s.pending = r.pending /\ ~s.localDue /\ ~s.serverDue
  BY <1>1, WrittenIs
<1>9. Saves(s) = Saves(r) /\ Loads(s) = {} /\ Discards(s) = Discards(r) /\ Meant(s) = Meant(r)
  BY <1>3, <1>8 DEF Saves, Loads, Discards, Meant
<1>10. Hand(s) /\ Asked(s) /\ Offered(s) /\ Heard(s) /\ (IsSaved(s) <=> IsSaved(r))
  BY <1>4, <1>8, CalmKept
<1>11. Hand(s)' /\ Asked(s)' /\ Offered(s)' /\ Heard(s)'
  BY <1>6, <1>10 DEF Hand, NoneOf, Stored, Asked, StoredAs, Offered, Heard
<1>12. Awaited(s)' /\ Timed(s)' /\ Begun(s)'
  BY <1>3, <1>7, <1>8, <1>9 DEF Awaited, Timed, Begun
<1>13. Worded(s)'
  BY <1>4, <1>6, <1>8, <1>9 DEF Held, Worded
<1>14. Newest(s)'
  BY <1>7, <1>8 DEF Newest
<1>15. Doom(s)'
  <2>1. \A x : Doomed(s, x)' <=> Doomed(r, x)
    BY <1>6, <1>8, <1>9, <1>10 DEF Doomed
  <2> QED
    BY <1>4, <1>6, <2>1 DEF Doom, Owner
<1>16. Latest(s)'
  <2> SUFFICES ASSUME NEW w \in 1..MaxTyped, wanted'[w] # None
               PROVE  \E d \in ToSet(drafts) : d.text = wanted'[w]
    BY <1>6 DEF Latest
  <2>1. w # r.work /\ wanted'[w] = wanted[w]
    BY <1>7
  <2> QED
    BY <1>4, <2>1 DEF Latest
<1>17. Left(s)'
  <2>1. \A t : Unsent(r, t) => Unsent(s, t)
    BY <1>8, <1>9 DEF Unsent
  <2> QED
    BY <1>3, <1>4, <1>6, <2>1 DEF Left
<1>18. Held(s)' /\ World(s)' /\ Stopped(s) /\ s.phase # "none"
  BY <1>3, <1>8, <1>11, <1>12, <1>13, <1>14, <1>15, <1>16, <1>17 DEF Held, World, Stopped
<1>19. mount[m].phase # "none" /\ ~Idle(mount[m]) /\ AllElse(m)
  BY <1>1, <1>3 DEF Busy, Turns
<1> QED
  BY <1>2, <1>7, <1>18, <1>19, CalmTurn

\* A draft of the list that is not in hand is of another work.
LEMMA OtherWork ==
  ASSUME Before, NEW m \in Mounts, NEW r \in Composers, Busy(m, r), NEW d \in ToSet(r.list), d.id # r.current
  PROVE  d.text.work # r.work
<1> SUFFICES ASSUME d.text.work = r.work PROVE FALSE
  OBVIOUS
<1>1. Good(r) /\ Held(r) /\ NeverTwice
  BY DEF Busy, Before, CalmInv
<1>2. PICK e \in ToSet(drafts) : e.id = d.id
  <2>1. StoredAs(d.id, d.text) \/ Stored(d.id)
    BY <1>1 DEF Held, Offered
  <2> QED
    BY <2>1 DEF StoredAs, Stored, ToSet
<1>3. e.text.work = r.work
  BY <1>1, <1>2 DEF Good, Owned, Owner
<1>4. CASE r.current # None
  <2>1. PICK f \in ToSet(drafts) : f.id = r.current
    BY <1>1, <1>4 DEF Held, Hand, Stored, ToSet
  <2>2. f.text.work = r.work
    BY <1>1, <1>4, <2>1 DEF Good, Owned, Owner
  <2>3. e = f
    BY <1>1, <1>3, <2>2, OneOf
  <2> QED
    BY <1>2, <2>1, <2>3
<1>5. CASE r.current = None
  <2>1. ~NoneOf(r.work)
    BY <1>3 DEF NoneOf
  <2>2. IsSaved(r) /\ ~r.call.forgotten
    BY <1>1, <1>5, <2>1 DEF Held, Hand
  <2>3. r.call # None /\ r.call.id # None /\ StoredAs(r.call.id, r.call.text)
    BY <1>1, <2>2 DEF Held, Asked, IsSaved
  <2>4. \A x \in ToSet(r.list) : x.id # r.call.id
    BY <1>1, <1>5, <2>3 DEF Held, Asked
  <2>5. r.call.text.work = r.work
    <3>1. 1 \in Meant(r)
      BY <1>1, <2>2, <2>3 DEF Good, Sound, Meant
    <3> QED
      BY <1>1, <2>3, <3>1 DEF Good, Sound, InOrder
  <2>6. PICK f \in ToSet(drafts) : f.id = r.call.id /\ f.text = r.call.text
    BY <2>3 DEF StoredAs
  <2>7. e = f
    BY <1>1, <1>3, <2>5, <2>6, OneOf
  <2> QED
    BY <1>2, <2>4, <2>6, <2>7
<1> QED
  BY <1>4, <1>5

\* What is in the composer is to be saved, and then another draft to be loaded.
LEMMA CalmQueued ==
  ASSUME Before, After, NEW m \in Mounts, NEW r \in Composers, NEW s \in Composers, Turns(m, r, s),
         NEW draft \in Listed \cup {None}, s = Queued(r, draft),
         draft # None => draft \in ToSet(r.list) /\ draft.id # r.current,
         InTheWay(Waits(m)), UNCHANGED <<server, device, deleting, writer>>
  PROVE  CalmInv'
<1>1. mount'[m] = s /\ Others(m)
  BY MountMoves DEF Turns, Others, Before
<1>2. r.phase = "open" /\ Loads(r) = {} /\ ~Idle(r) /\ Busy(m, r)
  <2>1. InTheWay(Waits(m) \cup {})
    OBVIOUS
  <2> QED
    BY <1>1, <2>1, WriterWaits
<1>3. Good(r) /\ Held(r) /\ Doom(r) /\ Latest(r) /\ Left(r)
  BY <1>2 DEF Busy, World
<1>4. PICK text \in {r.pending, r.field} : text = Waiting(r) /\ (text = None => r.pending = None)
  BY DEF Waiting
<1>5. text \in Texts \cup {None}
  BY DEF Composers
<1> DEFINE c == IF text = None THEN r.chain ELSE Append(r.chain, Saving(text))
<1>6. PICK e \in Chained : e = Loading(draft) /\ e.do = "load" /\ e.draft = draft
  BY ChainedAre
<1>7. /\ s.phase = r.phase /\ s.list = r.list
      /\ s.field = r.field /\ s.work = r.work /\ s.current = r.current
      /\ s.pending = None /\ s.sent = r.sent /\ s.call = r.call
      /\ s.localDue = r.localDue /\ s.serverDue = r.serverDue /\ s.emptyDue = r.emptyDue
      /\ text = None => s.chain = Append(r.chain, e)
      /\ text # None => s.chain = Append(Append(r.chain, Saving(text)), e)
  BY <1>4, <1>6, QueuedIs
<1>8. s.chain = Append(c, e)
  BY <1>7
<1>9. c \in Seq(Chained)
  <2>1. text # None => Saving(text) \in Chained
    BY <1>5, ChainedAre
  <2> QED
    BY <2>1 DEF Composers
<1>10. /\ text = None => c = r.chain
       /\ text # None => c = Append(r.chain, Saving(text))
  OBVIOUS
<1> HIDE DEF c
<1>11. PICK t \in Composers : t = [r EXCEPT !.chain = c, !.pending = None]
  <2>1. [r EXCEPT !.chain = c, !.pending = None] \in Composers
    BY <1>9 DEF Composers
  <2> QED
    BY <2>1
<1>12. /\ t.chain = c /\ t.phase = r.phase /\ t.list = r.list
       /\ t.field = r.field /\ t.work = r.work /\ t.current = r.current
       /\ t.pending = None /\ t.call = r.call /\ t.sent = r.sent
  BY <1>11 DEF Composers
<1>13. /\ text = None => t.chain = r.chain
       /\ text # None => t.chain = Append(r.chain, Saving(text))
       /\ t.phase \in {"open", "closed"}
  BY <1>2, <1>10, <1>12
<1>14. /\ Awaited(t) /\ Worded(t) /\ Newest(t)
       /\ Doom(t) /\ Latest(t) /\ Loads(t) = Loads(r)
  BY <1>3, <1>4, <1>12, <1>13, CalmSaving
<1>15. PICK n \in Nat \ {0} :
         /\ s.chain[n] = e
         /\ \A i \in Saves(t) \cup Loads(t) \cup Discards(t) : s.chain[i] = t.chain[i]
         /\ Saves(s) = Saves(t) /\ Loads(s) = {n} /\ Meant(s) = Meant(t) /\ Discards(s) = Discards(t)
  <2>1. s.chain = Append(t.chain, e)
    BY <1>8, <1>12
  <2> QED
    BY <1>2, <1>6, <1>14, <2>1, Joined
<1>16. Meant(t) \subseteq Saves(t)
  BY DEF Meant
<1>17. Hand(s) /\ Asked(s) /\ Offered(s) /\ Heard(s) /\ (IsSaved(s) <=> IsSaved(t))
  <2>1. IsSaved(r) <=> IsSaved(t)
    BY <1>12 DEF IsSaved
  <2> QED
    BY <1>3, <1>7, <2>1, CalmKept
<1>18. Awaited(s)
  <2> SUFFICES ASSUME draft # None
               PROVE  draft.text.work \notin gone \cup {r.work} /\ StoredAs(draft.id, draft.text)
    BY <1>6, <1>7, <1>15 DEF Awaited
  <2>1. draft.text.work # r.work
    BY <1>2, OtherWork
  <2>2. draft.text.work \notin gone /\ (StoredAs(draft.id, draft.text) \/ (IsSaved(r) /\ r.call.id = draft.id))
    BY <1>3 DEF Held, Offered
  <2>3. ~(IsSaved(r) /\ r.call.id = draft.id)
    BY <1>3 DEF Held, Asked, IsSaved
  <2> QED
    BY <2>1, <2>2, <2>3
<1>19. Timed(s) /\ Begun(s)
  BY <1>2, <1>3, <1>7, <1>15 DEF Held, Timed, Begun
<1>20. Worded(s)
  BY <1>7, <1>12, <1>14, <1>15 DEF Worded
<1>21. Newest(s)
  <2>1. \A x : Final(s, x) => Final(t, x)
    BY <1>7, <1>12, <1>15, <1>16 DEF Final
  <2> QED
    BY <1>7, <1>12, <1>14, <2>1 DEF Newest
<1>22. Doom(s)
  <2>1. \A x : Doomed(s, x) <=> Doomed(t, x)
    BY <1>7, <1>12, <1>15, <1>17 DEF Doomed
  <2> QED
    BY <1>14, <2>1 DEF Doom
<1>23. Latest(s)
  BY <1>7, <1>12, <1>14, <1>15 DEF Latest, Ahead
<1>24. Left(s)
  BY <1>3, <1>15 DEF Left
<1>25. Held(s) /\ World(s) /\ Stopped(s) /\ s.phase # "none" /\ r.phase # "none"
  BY <1>2, <1>7, <1>17, <1>18, <1>19, <1>20, <1>21, <1>22, <1>23, <1>24 DEF Held, World, Stopped
<1> QED
  BY <1>2, <1>25, CalmQuiet

LEMMA CalmStartNew ==
  ASSUME Before, After, NEW m \in Mounts, StartNew(m)
  PROVE  CalmInv'
<1>1. PICK r \in Composers, s \in Composers : Turns(m, r, s) /\ s = Queued(r, None)
  BY StartNewMoves DEF Before
<1>2. PICK draft \in Listed \cup {None} : draft = None
  OBVIOUS
<1>3. InTheWay(Waits(m)) /\ UNCHANGED <<server, device, deleting, writer>>
  BY DEF StartNew
<1> QED
  BY <1>1, <1>2, <1>3, CalmQueued

LEMMA CalmSwitchTo ==
  ASSUME Before, After, NEW m \in Mounts, NEW d \in ToSet(mount[m].list), SwitchTo(m, d)
  PROVE  CalmInv'
<1>1. PICK r \in Composers, s \in Composers : /\ Turns(m, r, s) /\ s = Queued(r, d)
                                              /\ d \in ToSet(r.list) /\ d.id # r.current
  BY SwitchToMoves DEF Before
<1>2. PICK draft \in Listed \cup {None} : draft = d
  BY SwitchToMoves DEF Before
<1>3. InTheWay(Waits(m)) /\ UNCHANGED <<server, device, deleting, writer>>
  BY DEF SwitchTo
<1> QED
  BY <1>1, <1>2, <1>3, CalmQueued

\* The work in hand, if it is one, goes, with all that was to be saved of it.
LEMMA CalmForgotten ==
  ASSUME Before, After, NEW m \in Mounts, NEW r \in Composers, NEW s \in Composers, Turns(m, r, s),
         r.phase = "open",
         s.chain = Forget(r).chain, s.call = Forget(r).call, s.phase = r.phase,
         s.list = Without(r.list, r.current), s.field = None, s.pending = None, s.current = None,
         s.work = 0, s.sent = r.sent, ~s.localDue, ~s.serverDue, ~s.emptyDue,
         drafts' = drafts, deleting' = deleting, typed' = typed, made' = made, device' = None,
         gone' = gone \cup ({r.work} \ {0}),
         \A w \in 1..MaxTyped : wanted'[w] = (IF w = r.work THEN None ELSE wanted[w])
  PROVE  CalmInv'
<1>1. mount'[m] = s /\ Others(m)
  BY MountMoves DEF Turns, Others, Before
<1>2. ~Idle(r) /\ r.phase # "none"
  BY DEF Idle
<1>3. Busy(m, r)
  BY <1>2, BusyIs DEF Turns
<1>4. Good(r) /\ Held(r) /\ Doom(r) /\ Latest(r) /\ NeverTwice /\ Bounds
  BY <1>3 DEF Busy, World, Before, CalmInv
<1>5. /\ Saves(s) = Saves(r) /\ Loads(s) = Loads(r) /\ Meant(s) = {}
      /\ \A i \in Saves(r) : s.chain[i].text = r.chain[i].text /\ s.chain[i].forgotten
      /\ \A i \in Loads(r) \cup Discards(r) : s.chain[i] = r.chain[i]
      /\ r.current = None => Discards(s) = Discards(r)
  BY ForgetParts
<1>6. r.current # None => \E n : Discards(s) = Discards(r) \cup {n} /\ s.chain[n].id = r.current
  BY ForgetParts
<1>7. /\ r.call = None => s.call = None
      /\ r.call # None => /\ s.call # None /\ s.call.id = r.call.id /\ s.call.text = r.call.text
                          /\ s.call.at = r.call.at /\ s.call.forgotten
  BY ForgetIs
<1>8. ToSet(s.list) = {d \in ToSet(r.list) : d.id # r.current}
  <2>1. r.list \in Seq(Listed) /\ Single(r.list)
    BY <1>4 DEF Composers, Good, Owned
  <2> QED
    BY <2>1, WithoutIs
<1>9. \A text \in Texts : text.work \in 1..MaxTyped /\ text.work # 0
  BY DEF Texts
<1>10. /\ \A i \in Saves(r) : r.chain[i].text \in Texts
       /\ \A i \in Loads(r) : r.chain[i].draft # None => r.chain[i].draft.text \in Texts
       /\ \A d \in ToSet(drafts) : d.text \in Texts /\ d.id \in Ids
       /\ typed \in Nat /\ r.work \in Nat
  <2>1. r.chain \in Seq(Chained) /\ r.work \in 0..MaxTyped
    BY DEF Composers
  <2>2. \A i \in Saves(r) : r.chain[i].text \in Texts
    BY <2>1, ChainParts DEF Saves
  <2>3. \A i \in Loads(r) : r.chain[i].draft # None => r.chain[i].draft.text \in Texts
    <3> SUFFICES ASSUME NEW i \in Loads(r), r.chain[i].draft # None PROVE r.chain[i].draft.text \in Texts
      OBVIOUS
    <3>1. r.chain[i].draft \in Listed
      BY <2>1, ChainParts DEF Loads
    <3> QED
      BY <3>1 DEF Listed
  <2>4. \A d \in ToSet(drafts) : d.text \in Texts /\ d.id \in Ids
    <3>1. PICK list \in Seq(Listed) : list = drafts
      BY DEF Before, Typed, TypeOK
    <3> QED
      BY <3>1, ListedAre
  <2>5. typed \in 0..MaxTyped /\ r.work \in Nat
    BY <2>1, DraftsAssumption DEF Before, Typed, TypeOK
  <2> QED
    BY <2>2, <2>3, <2>4, <2>5, DraftsAssumption
<1>11. IsSaved(r) /\ ~r.call.forgotten =>
         r.call.text.work = r.work /\ r.work # 0 /\ StoredAs(r.call.id, r.call.text) /\ Owner(r.call.id, r.work)
  <2> SUFFICES ASSUME IsSaved(r), ~r.call.forgotten
               PROVE  r.call.text.work = r.work /\ r.work # 0 /\ StoredAs(r.call.id, r.call.text)
                        /\ Owner(r.call.id, r.work)
    OBVIOUS
  <2>1. 1 \in Meant(r) /\ 1 \in Saves(r) /\ r.chain[1].text = r.call.text
    BY <1>4 DEF IsSaved, Good, Sound, Meant
  <2>2. r.call.text.work = r.work /\ r.work # 0
    BY <1>4, <1>9, <1>10, <2>1 DEF Good, InOrder
  <2> QED
    BY <1>4, <2>2 DEF Held, Asked, IsSaved, Good, Owned
<1>12. Hand(s)'
  <2>1. 0 \notin gone /\ 0 <= typed /\ NoneOf(0)
    BY ZeroNone
  <2> QED
    BY <2>1 DEF Hand, NoneOf
<1>13. Asked(s)'
  <2> SUFFICES ASSUME r.call # None PROVE Asked(s)'
    BY <1>7 DEF Asked
  <2>1. \A d \in ToSet(s.list) : d.id # r.call.id
    BY <1>4, <1>8 DEF Held, Asked
  <2> QED
    BY <1>4, <1>7, <2>1 DEF Held, Asked, NoneOf, Stored
<1>14. Offered(s)'
  <2> SUFFICES ASSUME NEW d \in ToSet(s.list)
               PROVE  /\ d.text.work \notin gone'
                      /\ StoredAs(d.id, d.text) \/ (IsSaved(s) /\ s.call.id = d.id /\ Stored(d.id))
    BY DEF Offered, StoredAs, Stored, IsSaved
  <2>1. d \in ToSet(r.list) /\ d.id # r.current
    BY <1>8
  <2>2. d.text.work # r.work
    BY <1>3, <2>1, OtherWork
  <2> QED
    BY <1>4, <1>7, <2>1, <2>2 DEF Held, Offered, IsSaved
<1>15. Awaited(s)'
  <2>1. ASSUME NEW i \in Loads(r), r.chain[i].draft # None
        PROVE  /\ r.chain[i].draft.text.work \notin gone' \cup {0}
               /\ StoredAs(r.chain[i].draft.id, r.chain[i].draft.text)
    BY <1>4, <1>9, <1>10, <2>1 DEF Held, Awaited
  <2> QED
    BY <1>5, <2>1 DEF Awaited, StoredAs
<1>16. Timed(s)' /\ Newest(s)' /\ Begun(s)'
  BY <1>5 DEF Timed, Newest, Final, Begun
<1>17. Heard(s)'
  BY <1>4 DEF Held, Heard
<1>18. Worded(s)'
  <2>1. ASSUME NEW i \in Saves(r)
        PROVE  r.chain[i].text.n <= typed /\ r.chain[i].text.work \in gone'
    <3>1. r.chain[i].text.n <= typed /\ (r.chain[i].forgotten => r.chain[i].text.work \in gone)
      BY <1>4 DEF Held, Worded
    <3>2. ~r.chain[i].forgotten => r.chain[i].text.work = r.work
      BY <1>4 DEF Good, InOrder, Meant
    <3> QED
      BY <1>9, <1>10, <3>1, <3>2
  <2> QED
    BY <1>5, <2>1 DEF Worded
<1>19. Doom(s)'
  <2>1. ASSUME NEW d \in ToSet(drafts), d.text.work \in gone' PROVE Doomed(s, d.id)'
    <3>1. CASE d.text.work \in gone
      <4>1. Doomed(r, d.id)
        BY <1>4, <3>1 DEF Doom
      <4>2. \A i \in Discards(r) : i \in Discards(s) /\ s.chain[i] = r.chain[i]
        BY <1>5, <1>6
      <4> QED
        BY <1>7, <4>1, <4>2 DEF Doomed, IsSaved
    <3>2. CASE d.text.work = r.work /\ r.current # None
      <4>1. PICK f \in ToSet(drafts) : f.id = r.current
        BY <1>4, <3>2 DEF Held, Hand, Stored, ToSet
      <4>2. f.text.work = r.work
        BY <1>4, <3>2, <4>1 DEF Good, Owned, Owner
      <4>3. d = f
        BY <1>4, <3>2, <4>2, OneOf
      <4> QED
        BY <1>6, <3>2, <4>1, <4>3 DEF Doomed
    <3>3. CASE d.text.work = r.work /\ r.current = None
      <4>1. IsSaved(r) /\ ~r.call.forgotten
        BY <1>4, <3>3 DEF Held, Hand, NoneOf
      <4>2. PICK f \in ToSet(drafts) : f.id = r.call.id /\ f.text = r.call.text
        BY <1>11, <4>1 DEF StoredAs
      <4>3. d = f
        BY <1>4, <1>11, <3>3, <4>1, <4>2, OneOf
      <4> QED
        BY <1>7, <4>1, <4>2, <4>3 DEF Doomed, IsSaved
    <3> QED
      BY <2>1, <3>1, <3>2, <3>3
  <2>2. ASSUME NEW id \in Ids, Doomed(s, id)' PROVE \E w \in gone' : Owner(id, w)
    <3>1. CASE Doomed(r, id)
      BY <1>4, <3>1 DEF Doom
    <3>2. CASE r.current # None /\ id = r.current
      <4>1. Owner(id, r.work) /\ r.work # 0
        BY <1>4, <3>2 DEF Good, Owned, InOrder
      <4> QED
        BY <4>1
    <3>3. CASE IsSaved(r) /\ ~r.call.forgotten /\ r.call.id = id
      BY <1>11, <3>3
    <3>4. Doomed(r, id) \/ (r.current # None /\ id = r.current) \/ (IsSaved(r) /\ ~r.call.forgotten /\ r.call.id = id)
      <4>1. CASE id \in deleting
        BY <4>1 DEF Doomed
      <4>2. ASSUME NEW i \in Discards(s), s.chain[i].id = id
            PROVE  Doomed(r, id) \/ (r.current # None /\ id = r.current)
        <5>1. CASE i \in Discards(r)
          BY <1>5, <4>2, <5>1 DEF Doomed
        <5>2. CASE i \notin Discards(r)
          BY <1>5, <1>6, <4>2, <5>2
        <5> QED
          BY <5>1, <5>2
      <4>3. CASE IsSaved(s) /\ s.call.id = id
        BY <1>7, <4>3 DEF IsSaved, Doomed
      <4> QED
        BY <2>2, <4>1, <4>2, <4>3 DEF Doomed, IsSaved
    <3> QED
      BY <3>1, <3>2, <3>3, <3>4
  <2> QED
    BY <2>1, <2>2 DEF Doom, Owner
<1>20. Latest(s)' /\ Left(s)'
  <2> SUFFICES ASSUME NEW w \in 1..MaxTyped, wanted'[w] # None
               PROVE  \E d \in ToSet(drafts) : d.text = wanted'[w]
    BY DEF Latest, Left
  <2>1. w # r.work /\ wanted'[w] = wanted[w]
    OBVIOUS
  <2> QED
    BY <1>4, <2>1 DEF Latest
<1>21. Bounds' /\ NeverTwice'
  <2>1. gone' \subseteq 1..typed'
    <3>1. r.work <= typed /\ gone \subseteq 1..typed
      BY <1>4 DEF Held, Hand, Bounds
    <3>2. \A w \in {r.work} \ {0} : w \in 1..typed
      BY <1>10, <3>1
    <3> QED
      BY <3>1, <3>2
  <2>2. ASSUME NEW w \in 1..MaxTyped, wanted'[w] # None
        PROVE  w <= typed' /\ wanted'[w].work = w /\ w \notin gone'
    <3>1. w # r.work /\ wanted'[w] = wanted[w]
      BY <2>2
    <3> QED
      BY <1>4, <2>2, <3>1 DEF Bounds
  <2> QED
    BY <1>4, <2>1, <2>2 DEF Bounds, NeverTwice
<1>22. Held(s)' /\ World(s)' /\ Stopped(s) /\ s.phase # "none"
  BY <1>12, <1>13, <1>14, <1>15, <1>16, <1>17, <1>18, <1>19, <1>20 DEF Held, World, Stopped
<1>23. mount[m].phase # "none" /\ ~Idle(mount[m]) /\ AllElse(m)
  BY <1>2, <1>3 DEF Busy
<1> QED
  BY <1>1, <1>21, <1>22, <1>23, CalmTurn

LEMMA CalmDiscard ==
  ASSUME Before, After, NEW m \in Mounts, Discard(m)
  PROVE  CalmInv'
<1>1. PICK r \in Composers, s \in Composers :
        Turns(m, r, s) /\ s = Blanked(r) /\ r.phase = "open" /\ r.field # None
  <2>1. PICK r \in Composers, s \in Composers : Turns(m, r, s) /\ s = Blanked(r) /\ r.field # None
    BY DiscardMoves DEF Before
  <2>2. InTheWay(Waits(m) \cup {})
    BY DEF Discard
  <2>3. mount'[m] = s
    BY <2>1, MountMoves DEF Turns, Before
  <2>4. r.phase = "open"
    BY <2>1, <2>2, <2>3, WriterWaits
  <2> QED
    BY <2>1, <2>4
<1>2. r.field.work = r.work /\ r.work \in 1..MaxTyped /\ mount[m].field.work = r.work
  <2>1. r.field \in Texts
    BY <1>1 DEF Composers
  <2>2. r.field.work = r.work
    BY <1>1 DEF Before, OwnInv, InOrder, Turns
  <2> QED
    BY <1>1, <2>1, <2>2 DEF Texts, Turns
<1>3. /\ drafts' = drafts /\ deleting' = deleting /\ typed' = typed /\ made' = made /\ device' = None
      /\ gone' = gone \cup {r.work} /\ wanted' = [wanted EXCEPT ![r.work] = None]
  BY <1>2 DEF Discard, server
<1>4. gone' = gone \cup ({r.work} \ {0})
  BY <1>2, <1>3
<1>5. \A w \in 1..MaxTyped : wanted'[w] = (IF w = r.work THEN None ELSE wanted[w])
  <2>1. wanted \in [1..MaxTyped -> Texts \cup {None}]
    BY DEF Before, Typed, TypeOK
  <2> QED
    BY <1>3, <2>1
<1>6. /\ s.phase = r.phase /\ s.field = None /\ s.sent = r.sent
      /\ s.pending = None /\ s.current = None /\ s.work = 0
      /\ s.list = Without(r.list, r.current)
      /\ ~s.localDue /\ ~s.serverDue /\ ~s.emptyDue
      /\ s.call = Forget(r).call /\ s.chain = Forget(r).chain
  BY <1>1, BlankedIs
<1> QED
  BY <1>1, <1>3, <1>4, <1>5, <1>6, CalmForgotten

LEMMA CalmEmptyTimer ==
  ASSUME Before, After, NEW m \in Mounts, EmptyTimer(m)
  PROVE  CalmInv'
<1>1. PICK r \in Composers, s \in Composers : Turns(m, r, s) /\ s = Forget(r) /\ r.emptyDue
  BY EmptyTimerMoves DEF Before
<1>2. r.phase = "open" /\ ~Idle(r) /\ r = mount[m]
  BY <1>1, DueOpen DEF Turns
<1>3. Busy(m, r)
  BY <1>2, BusyIs
<1>4. r.field = None /\ (r.work # 0 => wanted[r.work] = None)
  BY <1>1, <1>3 DEF Busy, Good, InOrder, Held, Timed
<1>5. /\ drafts' = drafts /\ deleting' = deleting /\ typed' = typed /\ made' = made /\ device' = None
      /\ gone' = gone \cup ({r.work} \ {0}) /\ wanted' = wanted
  BY <1>2 DEF EmptyTimer, server
<1>6. \A w \in 1..MaxTyped : wanted'[w] = (IF w = r.work THEN None ELSE wanted[w])
  BY <1>4, <1>5
<1>7. /\ s.phase = r.phase /\ s.field = None /\ s.sent = r.sent
      /\ s.pending = None /\ s.current = None /\ s.work = 0
      /\ s.list = Without(r.list, r.current)
      /\ ~s.localDue /\ ~s.serverDue /\ ~s.emptyDue
      /\ s.call = Forget(r).call /\ s.chain = Forget(r).chain
  BY <1>1, <1>4, ForgetIs
<1> QED
  BY <1>1, <1>2, <1>5, <1>6, <1>7, CalmForgotten

LEMMA CalmSave ==
  ASSUME Before, After, NEW m \in Mounts, Save(m)
  PROVE  CalmInv'
<1>1. PICK c \in Calls, id \in Ids, found \in BOOLEAN :
           /\ mount[m].call = c /\ c.at = "sent"
           /\ c.id = None => id = made + 1 /\ made' = made + 1 /\ found
           /\ c.id # None => id = c.id /\ made' = made /\ (found <=> Stored(id))
           /\ drafts' = IF found THEN SaveIn(drafts, id, c.text) ELSE drafts
           /\ device' = IF found THEN Older(device, id) ELSE device
           /\ mount' \in [Mounts -> Composers] /\ AllSound'
           /\ \A l \in Mounts :
                /\ Same(mount'[l], mount[l])
                /\ mount'[l].call = IF l = m THEN Answered(c, id, found) ELSE mount[l].call
                /\ mount'[l].local = IF found /\ mount[l].phase = "listing"
                                     THEN Older(mount[l].local, id) ELSE mount[l].local
  BY SaveMoves DEF Before
<1>2. typed' = typed /\ wanted' = wanted /\ gone' = gone /\ deleting' = deleting
  BY DEF Save, writer
<1>3. PICK r \in Composers : r = mount[m] /\ Sound(r)
  BY Record DEF Before
<1>4. PICK s \in Composers : s = mount'[m]
  BY <1>1
<1>5. Same(s, r) /\ Others(m)
  BY <1>1, <1>3, <1>4 DEF Others, Same
<1>6. r.call = c /\ c # None /\ c.text \in Texts /\ c.id \in Ids \cup {None}
  BY <1>1, <1>3, CallsAre
<1>7. 1 \in Saves(r) /\ r.chain[1].text = c.text /\ r.chain[1].forgotten = c.forgotten
  BY <1>3, <1>6 DEF Sound
<1>8. r.chain # <<>>
  BY <1>7 DEF Saves
<1>9. ~Idle(r) /\ r.phase \notin {"none", "listing", "listed"}
  BY <1>3, <1>8 DEF Before, OwnInv, InOrder, Unheard, Idle
<1>10. Busy(m, r)
  BY <1>3, <1>9, BusyIs
<1>11. Good(r) /\ Held(r) /\ Doom(r) /\ Latest(r) /\ Left(r) /\ NeverTwice /\ Bounds
  BY <1>10 DEF Busy, World, Before, CalmInv
<1>12. Stopped(s) /\ s.phase # "none"
  <2>1. Stopped(r)
    BY <1>3 DEF Before, CalmInv
  <2> QED
    BY <1>5, <1>9, <2>1 DEF Stopped, Same
<1>13. found
  <2> SUFFICES ASSUME c.id # None PROVE found
    BY <1>1
  <2>1. Stored(c.id)
    BY <1>1, <1>6, <1>11 DEF Held, Asked
  <2> QED
    BY <1>1, <2>1
<1>14. drafts' = SaveIn(drafts, id, c.text) /\ device' = Older(device, id)
  BY <1>1, <1>13
<1>15. /\ s.call # None /\ s.call.id = id /\ s.call.text = c.text /\ s.call.forgotten = c.forgotten
       /\ s.call.at = "saved"
  <2>1. s.call = Answered(c, id, found)
    BY <1>1, <1>4
  <2>2. s.call = Answered(c, id, TRUE)
    BY <1>13, <2>1
  <2>3. PICK d \in Calls : d = Answered(c, id, TRUE) /\ d # None /\ d.id = id /\ d.text = c.text
                           /\ d.forgotten = c.forgotten /\ d.at = "saved"
    BY AnsweredIs
  <2> QED
    BY <2>2, <2>3
<1>16. IsSaved(s) /\ ~IsSaved(r)
  BY <1>1, <1>6, <1>15 DEF IsSaved
<1>17. id # None
  BY NoneAssumption
<1>18. /\ s.phase = r.phase /\ s.list = r.list /\ s.field = r.field /\ s.work = r.work
       /\ s.current = r.current /\ s.pending = r.pending /\ s.sent = r.sent /\ s.chain = r.chain
       /\ s.localDue = r.localDue /\ s.serverDue = r.serverDue /\ s.emptyDue = r.emptyDue
  BY <1>5 DEF Same
<1>19. Saves(s) = Saves(r) /\ Loads(s) = Loads(r) /\ Discards(s) = Discards(r) /\ Meant(s) = Meant(r)
  BY <1>18 DEF Saves, Loads, Discards, Meant
<1>20. /\ drafts \in Seq(Listed) /\ Single(drafts) /\ made \in Nat
       /\ \A d \in ToSet(drafts) : d.id \in Ids /\ d.text \in Texts /\ d.id <= made
  <2>1. drafts \in Seq(Listed) /\ made \in Nat
    BY DEF Before, Typed, TypeOK
  <2> QED
    BY <2>1, ListedAre DEF Before, OwnInv, DraftsOwned
<1> DEFINE e == [id |-> id, text |-> c.text]
<1>21. e.id = id /\ e.text = c.text
  OBVIOUS
<1>22. ToSet(drafts') = {e} \cup {d \in ToSet(drafts) : d.id # id}
  <2>1. PICK list \in Seq(Listed) : list = drafts /\ Single(list)
    BY <1>20
  <2> QED
    BY <1>6, <1>14, <2>1, SaveInIs
<1> HIDE DEF e
<1>23. /\ c.forgotten => c.text.work \in gone
       /\ ~c.forgotten => c.text.work = r.work /\ 1 \in Meant(r)
       /\ r.work \notin gone /\ c.text.n <= typed
  BY <1>7, <1>11 DEF Good, InOrder, Held, Hand, Worded, Meant
<1>24. \A d \in ToSet(drafts) : d.id = id => d.text.work = c.text.work
  <2> SUFFICES ASSUME NEW d \in ToSet(drafts), d.id = id PROVE d.text.work = c.text.work
    OBVIOUS
  <2>1. c.id # None
    BY <1>1, <1>20
  <2> QED
    BY <1>1, <1>6, <1>11, <2>1 DEF Good, Owned, Owner
<1>25. \A d \in ToSet(drafts) : d.text.work = c.text.work => d.id = id
  <2> SUFFICES ASSUME NEW d \in ToSet(drafts), d.text.work = c.text.work PROVE d.id = id
    OBVIOUS
  <2>1. c.id # None
    BY <1>1, <1>6, <1>11 DEF Held, Asked, NoneOf
  <2>2. PICK f \in ToSet(drafts) : f.id = id
    BY <1>1, <1>13, <2>1 DEF Stored, ToSet
  <2>3. f.text.work = c.text.work
    BY <1>24, <2>2
  <2> QED
    BY <1>11, <2>2, <2>3, OneOf
<1>26. \A x : Stored(x) => Stored(x)'
  <2> SUFFICES ASSUME NEW x, Stored(x) PROVE \E d \in ToSet(drafts') : d.id = x
    BY DEF Stored, ToSet
  <2>1. PICK d \in ToSet(drafts) : d.id = x
    BY DEF Stored, ToSet
  <2> QED
    BY <1>21, <1>22, <2>1
<1>27. StoredAs(id, c.text)' /\ Stored(id)'
  <2>1. e \in ToSet(drafts')
    BY <1>22
  <2> QED
    BY <1>21, <2>1 DEF StoredAs, Stored, ToSet
<1>28. \A x : \A t : x # id /\ StoredAs(x, t) => StoredAs(x, t)'
  BY <1>22 DEF StoredAs
<1>29. \A w : w # c.text.work /\ NoneOf(w) => NoneOf(w)'
  BY <1>21, <1>22 DEF NoneOf
<1>30. Bounds'
  <2>1. c.text.work <= typed
    <3>1. CASE c.forgotten
      <4>1. c.text.work \in gone /\ gone \subseteq 1..typed
        BY <1>11, <1>23, <3>1 DEF Bounds
      <4>2. c.text.work \in 1..typed
        BY <4>1
      <4> QED
        BY <4>2
    <3>2. CASE ~c.forgotten
      BY <1>11, <1>23, <3>2 DEF Held, Hand
    <3> QED
      BY <3>1, <3>2
  <2>2. \A d \in ToSet(drafts') : d.text.work <= typed /\ d.text.n <= typed
    BY <1>11, <1>21, <1>22, <1>23, <2>1 DEF Bounds
  <2> QED
    BY <1>2, <1>11, <2>2 DEF Bounds
<1>31. NeverTwice'
  <2> SUFFICES ASSUME NEW i \in DOMAIN drafts', NEW j \in DOMAIN drafts',
                      drafts'[i].text.work = drafts'[j].text.work
               PROVE  i = j
    BY DEF NeverTwice
  <2>1. drafts'[i] \in ToSet(drafts') /\ drafts'[j] \in ToSet(drafts')
    BY DEF ToSet
  <2>2. PICK a \in ToSet(drafts'), b \in ToSet(drafts') : a = drafts'[i] /\ b = drafts'[j]
    BY <2>1
  <2>3. a.text.work = b.text.work
    BY <2>2
  <2>4. a = b
    <3>1. CASE a = e
      BY <1>21, <1>22, <1>25, <2>3, <3>1
    <3>2. CASE b = e
      BY <1>21, <1>22, <1>25, <2>3, <3>2
    <3>3. CASE a # e /\ b # e
      <4>1. a \in ToSet(drafts) /\ b \in ToSet(drafts)
        BY <1>22, <3>3
      <4> QED
        BY <1>11, <2>3, <4>1, OneOf
    <3> QED
      BY <3>1, <3>2, <3>3
  <2>5. drafts'[i].id = drafts'[j].id
    BY <2>2, <2>4
  <2> QED
    BY <2>5 DEF After, OwnInv, DraftsOwned, Single
<1>32. Hand(s)'
  <2>1. r.work <= typed /\ (r.current # None => Stored(r.current)')
    BY <1>11, <1>26 DEF Held, Hand
  <2>2. r.current = None => NoneOf(r.work)' \/ ~c.forgotten
    <3> SUFFICES ASSUME r.current = None, c.forgotten PROVE NoneOf(r.work)'
      OBVIOUS
    <3>1. NoneOf(r.work) /\ r.work # c.text.work
      BY <1>11, <1>16, <1>23 DEF Held, Hand
    <3> QED
      BY <1>29, <3>1
  <2>3. IsSaved(s)' /\ s.call.forgotten = c.forgotten
    BY <1>15 DEF IsSaved
  <2> QED
    BY <1>2, <1>18, <1>23, <2>1, <2>2, <2>3 DEF Hand, NoneOf, Stored
<1>33. Asked(s)'
  <2>1. ~c.forgotten => r.current \in {None, id}
    BY <1>1, <1>6, <1>11 DEF Held, Asked
  <2>2. c.forgotten => r.current = None
    BY <1>6, <1>11 DEF Held, Asked
  <2>3. id # r.current => \A d \in ToSet(r.list) : d.id # id
    <3>1. CASE c.id = None
      <4>1. \A d \in ToSet(r.list) : d.id <= made
        BY <1>11 DEF Good, Owned, Owner
      <4>2. PICK list \in Seq(Listed) : list = r.list
        BY DEF Composers
      <4>3. \A d \in ToSet(r.list) : d.id \in Nat
        <5>1. \A d \in ToSet(list) : d.id \in Ids
          BY ListedAre
        <5> QED
          BY <4>2, <5>1 DEF Ids
      <4> QED
        BY <1>1, <1>20, <3>1, <4>1, <4>3
    <3>2. CASE c.id # None
      BY <1>1, <1>6, <1>11, <3>2 DEF Held, Asked
    <3> QED
      BY <3>1, <3>2
  <2> QED
    BY <1>15, <1>17, <1>18, <1>27, <2>1, <2>2, <2>3 DEF Asked, StoredAs
<1>34. Offered(s)'
  <2> SUFFICES ASSUME NEW d \in ToSet(r.list)
               PROVE  d.text.work \notin gone /\ (StoredAs(d.id, d.text)' \/ (d.id = id /\ Stored(d.id)'))
    BY <1>2, <1>15, <1>16, <1>18 DEF Offered, StoredAs, Stored, IsSaved
  <2>1. d.text.work \notin gone /\ StoredAs(d.id, d.text)
    BY <1>11, <1>16 DEF Held, Offered
  <2> QED
    BY <1>27, <1>28, <2>1
<1>35. Awaited(s)'
  <2> SUFFICES ASSUME NEW i \in Loads(r), r.chain[i].draft # None
               PROVE  /\ r.chain[i].draft.text.work \notin gone \cup {r.work}
                      /\ StoredAs(r.chain[i].draft.id, r.chain[i].draft.text)'
    BY <1>2, <1>18, <1>19 DEF Awaited, StoredAs
  <2>1. PICK d \in {r.chain[i].draft} : d = r.chain[i].draft
    OBVIOUS
  <2>2. d.text.work \notin gone \cup {r.work} /\ StoredAs(d.id, d.text)
    BY <1>11, <2>1 DEF Held, Awaited
  <2>3. d.id # id
    <3>1. PICK f \in ToSet(drafts) : f.id = d.id /\ f.text = d.text
      BY <2>2 DEF StoredAs
    <3> QED
      BY <1>23, <1>24, <2>2, <3>1
  <2>4. StoredAs(d.id, d.text)'
    BY <1>28, <2>2, <2>3
  <2> QED
    BY <2>1, <2>2, <2>4 DEF StoredAs
<1>36. Timed(s)' /\ Worded(s)' /\ Newest(s)' /\ Begun(s)'
  <2>1. Timed(s)' /\ Worded(s)' /\ Begun(s)'
    BY <1>2, <1>9, <1>11, <1>18, <1>19 DEF Held, Timed, Worded, Begun
  <2>2. \A t : Final(s, t) => Final(r, t)
    BY <1>18, <1>19 DEF Final
  <2>3. Newest(s)
    BY <1>11, <1>18, <2>2 DEF Held, Newest
  <2>4. Newest(s)'
    BY <1>2, <2>3 DEF Newest
  <2> QED
    BY <2>1, <2>4
<1>37. Heard(s)'
  <2>1. IsSaved(s)'
    BY <1>15 DEF IsSaved
  <2> QED
    BY <1>2, <1>11, <1>18, <2>1 DEF Held, Heard
<1>38. Doom(s)'
  <2>1. ASSUME NEW d \in ToSet(drafts'), d.text.work \in gone PROVE Doomed(s, d.id)
    <3>1. CASE d = e
      BY <1>15, <1>16, <1>21, <1>23, <2>1, <3>1 DEF Doomed
    <3>2. CASE d # e
      <4>1. Doomed(r, d.id)
        BY <1>11, <1>22, <2>1, <3>2 DEF Doom
      <4> QED
        BY <1>16, <1>18, <1>19, <4>1 DEF Doomed
    <3> QED
      BY <3>1, <3>2
  <2>2. ASSUME NEW x \in Ids, Doomed(s, x) PROVE \E w \in gone : Owner(x, w)'
    <3>1. CASE Doomed(r, x)
      <4>1. PICK w \in gone : Owner(x, w)
        BY <1>11, <3>1 DEF Doom
      <4>2. Owner(x, w)'
        BY <4>1 DEF After, OwnersStay
      <4> QED
        BY <4>2
    <3>2. CASE c.forgotten /\ x = id
      <4>1. Owner(id, c.text.work)'
        <5>1. Owned(mount[m])'
          BY DEF After, OwnInv
        <5>2. Owner(s.call.id, s.call.text.work)'
          BY <1>4, <1>15, <1>17, <5>1 DEF Owned, Owner
        <5> QED
          BY <1>15, <5>2 DEF Owner
      <4> QED
        BY <1>23, <3>2, <4>1
    <3> QED
      BY <1>15, <1>18, <1>19, <2>2, <3>1, <3>2 DEF Doomed
  <2>3. \A x : Doomed(s, x)' <=> Doomed(s, x)
    BY <1>2 DEF Doomed, IsSaved
  <2> QED
    BY <1>2, <2>1, <2>2, <2>3 DEF Doom
<1>39. Latest(s)'
  <2> SUFFICES ASSUME NEW w \in 1..MaxTyped, wanted[w] # None, ~(r.work = w /\ Ahead(r))
               PROVE  \E d \in ToSet(drafts') : d.text = wanted[w]
    BY <1>2, <1>18, <1>19 DEF Latest, Ahead
  <2>1. PICK d \in ToSet(drafts) : d.text = wanted[w]
    BY <1>11 DEF Latest
  <2>2. d.id # id
    <3> SUFFICES ASSUME d.id = id PROVE FALSE
      OBVIOUS
    <3>1. c.text.work = w /\ w \notin gone
      BY <1>11, <1>24, <2>1 DEF Bounds
    <3>2. ~c.forgotten /\ r.work = w /\ 1 \in Meant(r)
      BY <1>23, <3>1
    <3> QED
      BY <3>2 DEF Ahead
  <2> QED
    BY <1>22, <2>1, <2>2
<1>40. Left(s)'
  <2> SUFFICES ASSUME device' # None
               PROVE  /\ device'.text.work \notin gone
                      /\ (device'.id # None /\ ~device'.newer) \/ r.localDue \/ Loads(r) # {}
                           \/ Unsent(r, device'.text)
    BY <1>2, <1>18, <1>19 DEF Left, Unsent
  <2>1. device \in Copies \cup {None}
    BY DEF Before, Typed, TypeOK
  <2>2. /\ device # None /\ device'.id = device.id /\ device'.text = device.text
        /\ ~device.newer => ~device'.newer
    BY <1>14, <2>1, OlderIs
  <2> QED
    BY <1>11, <2>2 DEF Left
<1>41. Held(s)' /\ World(s)'
  BY <1>32, <1>33, <1>34, <1>35, <1>36, <1>37, <1>38, <1>39, <1>40 DEF Held, World
<1>42. mount[m].phase # "none" /\ ~Idle(mount[m]) /\ AllElse(m)
  BY <1>3, <1>9, <1>10 DEF Busy
<1> QED
  BY <1>4, <1>5, <1>12, <1>30, <1>31, <1>41, <1>42, CalmTurn

\* What the server loses was of a work that is gone.
LEMMA CalmDestroy ==
  ASSUME Before, After, NEW id \in deleting, Destroy(id)
  PROVE  CalmInv'
<1>1. /\ deleting' = deleting \ {id} /\ drafts' = Without(drafts, id)
      /\ made' = made /\ device' = device /\ mount' = mount
      /\ typed' = typed /\ wanted' = wanted /\ gone' = gone
  BY NoneInTheWay DEF Destroy, writer
<1>2. Bounds /\ NeverTwice /\ OneBusy /\ AllCalm /\ (\A m \in Mounts : Stopped(mount[m]))
  BY DEF Before, CalmInv
<1>3. ToSet(drafts') = {d \in ToSet(drafts) : d.id # id}
  <2>1. PICK list \in Seq(Listed) : list = drafts /\ Single(list)
    BY DEF Before, Typed, TypeOK, OwnInv, DraftsOwned
  <2> QED
    BY <1>1, <2>1, WithoutIs
<1>4. NeverTwice'
  <2> SUFFICES ASSUME NEW i \in DOMAIN drafts', NEW j \in DOMAIN drafts',
                      drafts'[i].text.work = drafts'[j].text.work
               PROVE  i = j
    BY DEF NeverTwice
  <2>1. drafts'[i] \in ToSet(drafts') /\ drafts'[j] \in ToSet(drafts')
    BY DEF ToSet
  <2>2. PICK a \in ToSet(drafts), b \in ToSet(drafts) : a = drafts'[i] /\ b = drafts'[j]
    BY <1>3, <2>1
  <2>3. a.text.work = b.text.work
    BY <2>2
  <2>4. a = b
    BY <1>2, <2>3, OneOf
  <2>5. drafts'[i].id = drafts'[j].id
    BY <2>2, <2>4
  <2> QED
    BY <2>5 DEF After, OwnInv, DraftsOwned, Single
<1>5. Bounds'
  BY <1>1, <1>2, <1>3 DEF Bounds
<1>6. OneBusy' /\ \A m \in Mounts : Stopped(mount'[m])
  BY <1>1, <1>2 DEF OneBusy
<1>7. ASSUME NEW m \in Mounts, AllElse(m) PROVE World(mount[m])' /\ (Idle(mount[m]) \/ Held(mount[m])')
  <2>1. PICK r \in Composers : r = mount[m] /\ Sound(r)
    BY Record DEF Before
  <2>2. World(r) /\ (Idle(r) \/ Held(r)) /\ Good(r)
    BY <1>2, <1>7, <2>1 DEF AllCalm, Before, OwnInv, Good
  <2>3. \A d \in ToSet(drafts) : d.text.work \notin gone => d \in ToSet(drafts')
    <3>1. id \in Ids
      BY DEF Before, Typed, TypeOK
    <3>2. PICK w \in gone : Owner(id, w)
      BY <2>2, <3>1 DEF World, Doom, Doomed
    <3> QED
      BY <1>3, <3>2 DEF Owner
  <2>4. Doom(r)'
    <3>1. \A x : Doomed(r, x)' => Doomed(r, x)
      BY <1>1 DEF Doomed, IsSaved
    <3>2. \A x : x # id /\ Doomed(r, x) => Doomed(r, x)'
      BY <1>1 DEF Doomed, IsSaved
    <3>3. ASSUME NEW x \in Ids, Doomed(r, x)' PROVE \E w \in gone' : Owner(x, w)'
      <4>1. PICK w \in gone : Owner(x, w)
        BY <2>2, <3>1, <3>3 DEF World, Doom
      <4>2. Owner(x, w)'
        BY <4>1 DEF After, OwnersStay
      <4> QED
        BY <1>1, <4>2
    <3>4. ASSUME NEW d \in ToSet(drafts'), d.text.work \in gone' PROVE Doomed(r, d.id)'
      BY <1>1, <1>3, <2>2, <3>2, <3>4 DEF World, Doom
    <3> QED
      BY <3>3, <3>4 DEF Doom
  <2>5. Latest(r)'
    <3> SUFFICES ASSUME NEW w \in 1..MaxTyped, wanted[w] # None, ~(r.work = w /\ Ahead(r))
                 PROVE  \E d \in ToSet(drafts') : d.text = wanted[w]
      BY <1>1 DEF Latest, Ahead
    <3>1. PICK d \in ToSet(drafts) : d.text = wanted[w]
      BY <2>2 DEF World, Latest
    <3>2. d.text.work \notin gone
      BY <1>2, <3>1 DEF Bounds
    <3> QED
      BY <2>3, <3>1, <3>2
  <2>6. Left(r)'
    BY <1>1, <2>2 DEF World, Left, Unsent
  <2>7. ASSUME Held(r) PROVE Held(r)'
    <3>1. \A x : \A t : StoredAs(x, t) /\ t.work \notin gone => StoredAs(x, t)'
      BY <2>3 DEF StoredAs
    <3>2. \A x : \A w : Stored(x) /\ Owner(x, w) /\ w \notin gone => Stored(x)'
      <4> SUFFICES ASSUME NEW x, NEW w, Stored(x), Owner(x, w), w \notin gone
                   PROVE  \E d \in ToSet(drafts') : d.id = x
        BY DEF Stored, ToSet
      <4>1. PICK d \in ToSet(drafts) : d.id = x
        BY DEF Stored, ToSet
      <4> QED
        BY <2>3, <4>1 DEF Owner
    <3>3. \A w : NoneOf(w) => NoneOf(w)'
      BY <1>3 DEF NoneOf
    <3>4. Hand(r)'
      <4>1. r.work \notin gone /\ r.work <= typed
        BY <2>7 DEF Held, Hand
      <4>2. r.current # None => Stored(r.current)'
        BY <2>2, <2>7, <3>2, <4>1 DEF Held, Hand, Good, Owned
      <4>3. r.current = None => NoneOf(r.work)' \/ (IsSaved(r) /\ ~r.call.forgotten)
        BY <2>7, <3>3 DEF Held, Hand
      <4> QED
        BY <1>1, <4>1, <4>2, <4>3 DEF Hand, NoneOf, Stored, IsSaved
    <3>5. Asked(r)'
      <4> SUFFICES ASSUME r.call # None PROVE Asked(r)'
        BY DEF Asked
      <4>1. r.call.at = "sent" /\ r.call.id # None => Stored(r.call.id)'
        <5> SUFFICES ASSUME r.call.at = "sent", r.call.id # None PROVE Stored(r.call.id)'
          OBVIOUS
        <5>1. Stored(r.call.id) /\ r.call.id # id
          BY <2>7 DEF Held, Asked
        <5>2. PICK d \in ToSet(drafts) : d.id = r.call.id
          BY <5>1 DEF Stored, ToSet
        <5>3. d \in ToSet(drafts')
          BY <1>3, <5>1, <5>2
        <5> QED
          BY <5>2, <5>3 DEF Stored, ToSet
      <4>2. r.call.at = "saved" /\ ~r.call.forgotten => StoredAs(r.call.id, r.call.text)'
        <5> SUFFICES ASSUME r.call.at = "saved", ~r.call.forgotten PROVE StoredAs(r.call.id, r.call.text)'
          OBVIOUS
        <5>1. 1 \in Meant(r) /\ r.chain[1].text = r.call.text
          BY <2>2 DEF Good, Sound, Meant
        <5>2. r.call.text.work \notin gone
          BY <2>2, <2>7, <5>1 DEF Good, InOrder, Held, Hand
        <5>3. StoredAs(r.call.id, r.call.text)
          BY <2>7 DEF Held, Asked
        <5> QED
          BY <3>1, <5>2, <5>3
      <4>3. r.call.at = "sent" /\ r.call.id = None => NoneOf(r.call.text.work)'
        BY <2>7, <3>3 DEF Held, Asked
      <4> QED
        BY <1>1, <2>7, <4>1, <4>2, <4>3 DEF Held, Asked, NoneOf, Stored, StoredAs
    <3>6. Offered(r)'
      <4> SUFFICES ASSUME NEW d \in ToSet(r.list)
                   PROVE  /\ d.text.work \notin gone
                          /\ StoredAs(d.id, d.text)' \/ (IsSaved(r) /\ r.call.id = d.id /\ Stored(d.id)')
        BY <1>1 DEF Offered, StoredAs, Stored, IsSaved
      <4>1. d.text.work \notin gone /\ Owner(d.id, d.text.work)
        BY <2>2, <2>7 DEF Held, Offered, Good, Owned
      <4>2. StoredAs(d.id, d.text) \/ (IsSaved(r) /\ r.call.id = d.id /\ Stored(d.id))
        BY <2>7 DEF Held, Offered
      <4> QED
        BY <3>1, <3>2, <4>1, <4>2
    <3>7. Awaited(r)'
      <4>1. ASSUME NEW i \in Loads(r), r.chain[i].draft # None
            PROVE  /\ r.chain[i].draft.text.work \notin gone \cup {r.work}
                   /\ StoredAs(r.chain[i].draft.id, r.chain[i].draft.text)'
        <5>1. /\ r.chain[i].draft.text.work \notin gone \cup {r.work}
              /\ StoredAs(r.chain[i].draft.id, r.chain[i].draft.text)
          BY <2>7, <4>1 DEF Held, Awaited
        <5> QED
          BY <3>1, <5>1
      <4> QED
        BY <1>1, <4>1 DEF Awaited, StoredAs
    <3>8. Heard(r)'
      <4>1. r.sent # None /\ r.current # None => StoredAs(r.current, r.sent)' \/ IsSaved(r)
        <5> SUFFICES ASSUME r.current # None, StoredAs(r.current, r.sent) PROVE StoredAs(r.current, r.sent)'
          BY <2>7 DEF Held, Heard
        <5>1. PICK d \in ToSet(drafts) : d.id = r.current /\ d.text = r.sent
          BY DEF StoredAs
        <5>2. d.text.work \notin gone
          BY <2>2, <2>7, <5>1 DEF Good, Owned, Owner, Held, Hand
        <5> QED
          BY <3>1, <5>1, <5>2
      <4> QED
        BY <1>1, <2>7, <4>1 DEF Held, Heard, StoredAs, IsSaved
    <3>9. Timed(r)' /\ Worded(r)' /\ Newest(r)' /\ Begun(r)'
      BY <1>1, <2>7 DEF Held, Timed, Worded, Newest, Final, Begun
    <3> QED
      BY <3>4, <3>5, <3>6, <3>7, <3>8, <3>9 DEF Held
  <2>8. World(r)' /\ (Idle(r) \/ Held(r)')
    BY <2>2, <2>4, <2>5, <2>6, <2>7 DEF World
  <2>9. mount'[m] = r
    BY <1>1, <2>1
  <2>10. World(mount[m])'
    BY <2>8, <2>9 DEF World, Doom, Doomed, IsSaved, Latest, Ahead, Left, Unsent
  <2>11. Held(r)' => Held(mount[m])'
    BY <2>9 DEF Held, Hand, Asked, Offered, Awaited, Timed, Heard, Worded, Newest, Final, Begun, IsSaved
  <2> QED
    BY <2>1, <2>8, <2>10, <2>11
<1>8. AllCalm'
  BY <1>1, <1>7 DEF AllCalm, AllElse
<1> QED
  BY <1>4, <1>5, <1>6, <1>8 DEF CalmInv

\* Nothing has gone wrong, or no more is said.
Calm == trouble = {} => CalmInv

LEMMA CalmInit == Init => Calm
<1> SUFFICES ASSUME Init PROVE CalmInv
  BY DEF Calm
<1>1. PICK u \in Composers : u = Unopened /\ Blank(u) /\ Sound(u)
  BY UnopenedIs
<1>2. \A m \in Mounts : mount[m] = u
  BY <1>1 DEF Init
<1>3. u.phase = "none"
  BY <1>1 DEF Unopened
<1>4. Idle(u) /\ Stopped(u)
  BY <1>1, <1>3 DEF Idle, Stopped, Blank
<1>5. InOrder(u)
  <2>1. Unheard(u)
    BY <1>1 DEF Blank, Unheard
  <2>2. Saves(u) = {} /\ Loads(u) = {} /\ Meant(u) = {}
    BY <2>1, UnheardIs
  <2> QED
    BY <1>1, <1>3, <2>1, <2>2 DEF InOrder, Blank
<1>6. drafts = <<>> /\ ToSet(drafts) = {} /\ gone = {} /\ deleting = {} /\ device = None /\ typed = 0
  BY DEF Init, ToSet
<1>7. \A w \in 1..MaxTyped : wanted[w] = None
  BY DEF Init
<1>8. Bounds /\ NeverTwice
  BY <1>6, <1>7 DEF Bounds, NeverTwice
<1>9. Still
  BY <1>6, <1>7 DEF Still
<1>10. World(u)
  BY <1>1, <1>4, <1>5, <1>9, IdleWorld
<1>11. OneBusy /\ \A m \in Mounts : Stopped(mount[m])
  BY <1>2, <1>3, <1>4 DEF OneBusy
<1>12. AllCalm
  BY <1>2, <1>4, <1>10 DEF AllCalm
<1> QED
  BY <1>8, <1>11, <1>12 DEF CalmInv

LEMMA CalmNext == ASSUME Before, After, Next PROVE CalmInv'
<1>1. CASE CloseTab
  BY <1>1, NoneInTheWay DEF CloseTab
<1>2. ASSUME NEW id \in deleting, Destroy(id) PROVE CalmInv'
  BY <1>2, CalmDestroy
<1>3. ASSUME NEW m \in Mounts, Fail(m) PROVE CalmInv'
  BY <1>3, NoneInTheWay DEF Fail
<1>4. ASSUME NEW m \in Mounts, Failed(m) PROVE CalmInv'
  <2>1. PICK r \in Composers : r = mount[m] /\ Sound(r)
    BY Record DEF Before
  <2>2. r.call # None /\ r.call.at = "failed"
    BY <1>4, <2>1 DEF Failed
  <2>3. r.chain # <<>>
    BY <2>1, <2>2 DEF Sound, Saves
  <2>4. ~Idle(r) /\ r.phase # "none"
    BY <2>1, <2>3 DEF Before, OwnInv, InOrder, Unheard, Idle
  <2>5. Busy(m, r)
    BY <2>1, <2>4, BusyIs
  <2> QED
    BY <2>2, <2>5 DEF Busy, Held, Asked
<1>5. ASSUME NEW m \in Mounts,
             \/ Open(m) \/ Type(m) \/ Empty(m) \/ StartNew(m) \/ Discard(m) \/ Close(m)
             \/ \E d \in ToSet(mount[m].list) : SwitchTo(m, d)
      PROVE CalmInv'
  BY <1>5, CalmOpen, CalmType, CalmEmpty, CalmStartNew, CalmDiscard, CalmClose, CalmSwitchTo
<1>6. ASSUME NEW m \in Mounts,
             \/ LocalTimer(m) \/ ServerTimer(m) \/ EmptyTimer(m) \/ List(m) \/ Loaded(m)
             \/ StartSave(m) \/ StartLoad(m) \/ StartDiscard(m) \/ Save(m) \/ Saved(m)
      PROVE CalmInv'
  BY <1>6, CalmLocalTimer, CalmServerTimer, CalmEmptyTimer, CalmList, CalmLoaded, CalmStartSave,
     CalmStartLoad, CalmStartDiscard, CalmSave, CalmSaved
<1> QED
  BY <1>1, <1>2, <1>3, <1>4, <1>5, <1>6 DEF Next

LEMMA CalmUnchanged == ASSUME CalmInv, UNCHANGED vars PROVE CalmInv'
<1>1. /\ drafts' = drafts /\ made' = made /\ device' = device /\ mount' = mount /\ deleting' = deleting
      /\ typed' = typed /\ wanted' = wanted /\ gone' = gone
  BY DEF vars, server, writer
<1>2. Bounds' /\ NeverTwice' /\ OneBusy' /\ (\A m \in Mounts : Stopped(mount'[m]))
  BY <1>1 DEF CalmInv, Bounds, NeverTwice, OneBusy
<1>3. \A m \in Mounts : World(mount[m]) => World(mount[m])'
  BY <1>1 DEF World, Doom, Doomed, Owner, IsSaved, Latest, Ahead, Left, Unsent
<1>4. \A m \in Mounts : Held(mount[m]) => Held(mount[m])'
  BY <1>1 DEF Held, Hand, NoneOf, Stored, Asked, StoredAs, Offered, Awaited, Timed, Heard, Worded,
              Newest, Final, Begun, IsSaved
<1>5. AllCalm'
  BY <1>1, <1>3, <1>4 DEF CalmInv, AllCalm, AllElse
<1> QED
  BY <1>2, <1>5 DEF CalmInv

LEMMA CalmStep == Typed /\ Apart /\ Calm /\ [Next]_vars => Calm'
<1> SUFFICES ASSUME Typed, Apart, Calm, [Next]_vars, trouble' = {} PROVE CalmInv'
  BY DEF Calm
<1>1. trouble = {}
  BY TroubleStays
<1>2. Waited /\ Waited'
  BY <1>1 DEF Waited, Spared
<1>3. OwnInv /\ CalmInv
  BY <1>1, <1>2 DEF Apart, Calm
<1>4. CASE Next
  <2>1. Before
    BY <1>1, <1>3 DEF Before
  <2>2. After
    BY <1>2, <1>3, <1>4, TypedStep, OwnNext DEF After
  <2> QED
    BY <1>4, <2>1, <2>2, CalmNext
<1>5. CASE UNCHANGED vars
  BY <1>3, <1>5, CalmUnchanged
<1> QED
  BY <1>4, <1>5

LEMMA CalmAlways == Spec => [](Typed /\ Apart /\ Calm)
<1>1. Init => Typed /\ Apart /\ Calm
  BY TypedInit, OwnInit, CalmInit DEF Apart
<1>2. Typed /\ Apart /\ Calm /\ [Next]_vars => (Typed /\ Apart /\ Calm)'
  BY TypedStep, OwnStep, CalmStep
<1> QED
  BY <1>1, <1>2, PTL DEF Spec

LEMMA SparedIs == ASSUME Typed, Apart, Calm, Spared(Troubles) PROVE Before
<1>1. trouble = {}
  BY DEF Typed, TypeOK, Spared
<1> QED
  BY <1>1 DEF Before, Apart, Waited, Calm, Spared

\* Once nothing is under way, all are idle but the one that is open, if one is.
LEMMA QuietIs ==
  ASSUME Before, Quiet
  PROVE  \E m \in Mounts, r \in Composers :
           /\ World(r) /\ (Idle(r) \/ Held(r)) /\ Sound(r) /\ InOrder(r)
           /\ r.chain = <<>> /\ r.call = None /\ ~r.localDue /\ ~r.serverDue
<1>1. PICK m \in Mounts : \A l \in Mounts : mount[l].phase = "open" => l = m
  <2>1. CASE \E l \in Mounts : mount[l].phase = "open"
    <3>1. PICK m \in Mounts : mount[m].phase = "open"
      BY <2>1
    <3>2. ASSUME NEW l \in Mounts, mount[l].phase = "open" PROVE l = m
      <4>1. ~(l < m) /\ ~(m < l)
        BY <3>1, <3>2 DEF Before, CalmInv, OneBusy
      <4> QED
        BY <4>1, DraftsAssumption
    <3> QED
      BY <3>2
  <2>2. CASE ~\E l \in Mounts : mount[l].phase = "open"
    BY <2>2, DraftsAssumption
  <2> QED
    BY <2>1, <2>2
<1>2. AllElse(m)
  <2> SUFFICES ASSUME NEW l \in Mounts, l # m PROVE Idle(mount[l])
    BY DEF AllElse
  <2>1. PICK q \in Composers : q = mount[l]
    BY Record DEF Before
  <2>2. q.phase \in {"none", "closed"}
    BY <1>1, <2>1 DEF Quiet, Composers
  <2> QED
    BY <2>1, <2>2 DEF Quiet, Idle
<1>3. PICK r \in Composers : r = mount[m] /\ Sound(r)
  BY Record DEF Before
<1>4. World(r) /\ (Idle(r) \/ Held(r)) /\ InOrder(r)
  BY <1>2, <1>3 DEF Before, CalmInv, AllCalm, OwnInv
<1>5. r.chain = <<>> /\ ~r.localDue /\ ~r.serverDue
  BY <1>3 DEF Quiet
<1>6. r.call = None
  BY <1>3, <1>5 DEF Sound, Saves
<1> QED
  BY <1>3, <1>4, <1>5, <1>6

LEMMA QuietGone == ASSUME Before PROVE GoneForGood
<1> SUFFICES ASSUME Quiet, NEW w \in gone
             PROVE  /\ \A i \in DOMAIN drafts : drafts[i].text.work # w
                    /\ device # None => device.text.work # w
  BY DEF GoneForGood
<1>1. PICK r \in Composers : World(r) /\ r.chain = <<>> /\ r.call = None
  BY QuietIs
<1>2. \A id : ~Doomed(r, id)
  BY <1>1 DEF Doomed, Discards, IsSaved, Quiet
<1>3. \A d \in ToSet(drafts) : d.text.work # w
  BY <1>1, <1>2 DEF World, Doom
<1>4. device # None => device.text.work # w
  BY <1>1 DEF World, Left
<1> QED
  BY <1>3, <1>4 DEF ToSet

LEMMA QuietKept == ASSUME Before PROVE NothingLost
<1> SUFFICES ASSUME Quiet, NEW w \in 1..MaxTyped, wanted[w] # None
             PROVE  \E i \in DOMAIN drafts : drafts[i].text = wanted[w]
  BY DEF NothingLost, Kept
<1>1. PICK r \in Composers : /\ World(r) /\ (Idle(r) \/ Held(r)) /\ Sound(r) /\ InOrder(r)
                             /\ r.chain = <<>> /\ ~r.serverDue
  BY QuietIs
<1>2. ~(r.work = w /\ Ahead(r))
  <2> SUFFICES ASSUME r.work = w, Ahead(r) PROVE FALSE
    OBVIOUS
  <2>1. r.pending # None
    BY <1>1 DEF Ahead, Meant, Saves
  <2>2. Held(r)
    BY <1>1, <2>1, IdleIs
  <2> QED
    BY <1>1, <2>1, <2>2 DEF Held, Timed
<1>3. \E d \in ToSet(drafts) : d.text = wanted[w]
  BY <1>1, <1>2 DEF World, Latest
<1> QED
  BY <1>3 DEF ToSet

\* "A draft is never created twice": while nothing has failed and nothing has come in the way
\* (Troubles), the server never has two drafts of one work, in whatever order the timers, the
\* answers and what the writer does come.
THEOREM NoDraftTwice == Spec => []OnceUntroubled
<1>1. Typed /\ Apart /\ Calm => OnceUntroubled
  BY SparedIs DEF OnceUntroubled, Before, CalmInv
<1> QED
  BY <1>1, CalmAlways, PTL

\* While nothing has failed or come in the way, a work that was discarded, posted or left empty is
\* neither on the server nor on the device once nothing is under way: a save already sent when it
\* was discarded is deleted after its answer.
THEOREM GoneStaysGone == Spec => []GoneUntroubled
<1>1. Typed /\ Apart /\ Calm => GoneUntroubled
  BY SparedIs, QuietGone DEF GoneUntroubled
<1> QED
  BY <1>1, CalmAlways, PTL

\* "Nothing is lost by closing": while nothing has failed or come in the way, the server has what
\* was written last of each work that was not discarded, posted or emptied, once nothing is under
\* way.
THEOREM WrittenIsKept == Spec => []NothingLostUntroubled
<1>1. Typed /\ Apart /\ Calm => NothingLostUntroubled
  BY SparedIs, QuietKept DEF NothingLostUntroubled
<1> QED
  BY <1>1, CalmAlways, PTL

================================================================================
