------------------------------ MODULE SumTheorems ------------------------------
(***************************************************************************)
(* What adding up a function over a finite set gives, for the ledgers of   *)
(* Kommons and TokenSettlement: SumOver there is SumOf here.               *)
(*                                                                         *)
(* The sum is the community modules' fold, a function defined by recursion *)
(* on the subsets of a set.  Induction is by a smallest counterexample:    *)
(* of any subsets of a finite set, one has no other of them inside it.     *)
(***************************************************************************)
EXTENDS Integers, FiniteSetsExt, FiniteSetTheorems, WellFoundedInduction, TLAPS

SumOf(S, f) == MapThenSumSet(LAMBDA x : f[x], S)

\* The element the fold takes first, and what it requires of the partial sums.
Pick(s) == CHOOSE x \in s : TRUE
Adds(h, D, f) ==
  h = [s \in D |-> IF s = {} THEN 0 ELSE f[Pick(s)] + h[s \ {Pick(s)}]]

\* The partial sums of f over the subsets of S.
Partial(S, f) == CHOOSE h : Adds(h, SUBSET S, f)

\* The sum is the partial sum over the whole set.
LEMMA SumIs ==
  ASSUME NEW S, NEW f
  PROVE  SumOf(S, f) = Partial(S, f)[S]
BY DEF SumOf, MapThenSumSet, MapThenFoldSet, Adds, Pick, Partial

\* Of some subsets of a finite set, one has no other of them inside it.
LEMMA Smallest ==
  ASSUME NEW S, IsFiniteSet(S), NEW T, T \subseteq SUBSET S, T # {}
  PROVE  \E s \in T : \A u \in T : u \subseteq s => u = s
<1>1. IsWellFoundedOn(StrictSubsetOrdering(S), SUBSET S)
  BY FS_StrictSubsetOrderingWellFounded, FS_FiniteSubsetsOfFinite
<1>2. PICK s \in T : \A u \in T : ~(<<u, s>> \in StrictSubsetOrdering(S))
  BY <1>1, WFMin, Zenon
<1>3. \A u \in T : u \subseteq s => u = s
  BY <1>2 DEF StrictSubsetOrdering
<1> QED
  BY <1>3

\* A finite set of numbers has a least.
LEMMA Least ==
  ASSUME NEW S, IsFiniteSet(S), \A x \in S : x \in Nat, S # {}
  PROVE  \E y \in S : \A z \in S : y <= z
<1> DEFINE Upto(y) == {x \in S : x <= y}
           Heads == {Upto(y) : y \in S}
<1>1. Heads \subseteq SUBSET S /\ Heads # {}
  OBVIOUS
<1>2. PICK s \in Heads : \A u \in Heads : u \subseteq s => u = s
  <2> HIDE DEF Heads
  <2> QED
    BY <1>1, Smallest
<1>3. PICK y \in S : s = Upto(y)
  OBVIOUS
<1>4. ASSUME NEW z \in S PROVE y <= z
  <2> SUFFICES ASSUME z < y PROVE FALSE
    OBVIOUS
  <2>1. \A x \in S : x <= z => x <= y
    OBVIOUS
  <2>2. Upto(z) \in Heads /\ Upto(z) \subseteq Upto(y)
    BY <2>1
  <2>4. Upto(z) = Upto(y)
    BY <1>2, <1>3, <2>2
  <2>3. y \in Upto(y) /\ y \notin Upto(z)
    OBVIOUS
  <2> QED
    BY <2>3, <2>4
<1> QED
  BY <1>4

LEMMA PickIn ==
  ASSUME NEW s, s # {}
  PROVE  Pick(s) \in s
BY DEF Pick

\* What Adds says of one set.
LEMMA AddsAt ==
  ASSUME NEW h, NEW D, NEW f, Adds(h, D, f), NEW s \in D
  PROVE  h[s] = (IF s = {} THEN 0 ELSE f[Pick(s)] + h[s \ {Pick(s)}])
BY DEF Adds

\* Partial sums do not depend on how far they go.
LEMMA Agree ==
  ASSUME NEW S, IsFiniteSet(S), NEW f, NEW s \in SUBSET S, NEW t \in SUBSET S,
         NEW h, NEW g, Adds(h, SUBSET s, f), Adds(g, SUBSET t, f),
         NEW u, u \subseteq s, u \subseteq t
  PROVE  h[u] = g[u]
<1> DEFINE Bad == {v \in SUBSET S : v \subseteq s /\ v \subseteq t /\ h[v] # g[v]}
<1>1. Bad = {}
  <2> SUFFICES ASSUME Bad # {} PROVE FALSE
    OBVIOUS
  <2>0. Bad \subseteq SUBSET S
    OBVIOUS
  <2>1. PICK v \in Bad : \A w \in Bad : w \subseteq v => w = v
    <3> HIDE DEF Bad
    <3> QED
      BY <2>0, Smallest
  <2>2. h[v] = (IF v = {} THEN 0 ELSE f[Pick(v)] + h[v \ {Pick(v)}])
    BY AddsAt
  <2>3. g[v] = (IF v = {} THEN 0 ELSE f[Pick(v)] + g[v \ {Pick(v)}])
    BY AddsAt
  <2>4. v # {}
    BY <2>2, <2>3
  <2>5. v \ {Pick(v)} \notin Bad
    BY <2>1, <2>4, PickIn
  <2> QED
    BY <2>2, <2>3, <2>4, <2>5
<1> QED
  BY <1>1

\* The partial sums exist.
LEMMA PartialAdds ==
  ASSUME NEW S, IsFiniteSet(S), NEW f
  PROVE  Adds(Partial(S, f), SUBSET S, f)
<1> DEFINE Bad == {s \in SUBSET S : ~Adds(Partial(s, f), SUBSET s, f)}
<1>1. Bad = {}
  <2> SUFFICES ASSUME Bad # {} PROVE FALSE
    OBVIOUS
  <2>0. Bad \subseteq SUBSET S
    OBVIOUS
  <2>1. PICK s \in Bad : \A u \in Bad : u \subseteq s => u = s
    <3> HIDE DEF Bad
    <3> QED
      BY <2>0, Smallest
  <2>2. \A u \in SUBSET s : u # s => Adds(Partial(u, f), SUBSET u, f)
    BY <2>1
  <2> DEFINE P == [u \in SUBSET s |-> Partial(u, f)[u]]
  <2> DEFINE H == [u \in SUBSET s |-> IF u = {} THEN 0 ELSE f[Pick(u)] + P[u \ {Pick(u)}]]
  <2>3. ASSUME NEW u \in SUBSET s, u # s
        PROVE  H[u] = P[u]
    <3>0. Adds(Partial(u, f), SUBSET u, f) /\ u \in SUBSET u
      BY <2>2, <2>3
    <3>1. Partial(u, f)[u] = (IF u = {} THEN 0 ELSE f[Pick(u)] + Partial(u, f)[u \ {Pick(u)}])
      <4> DEFINE h == Partial(u, f)
      <4>1. Adds(h, SUBSET u, f)
        BY <3>0
      <4> HIDE DEF h
      <4>2. h[u] = (IF u = {} THEN 0 ELSE f[Pick(u)] + h[u \ {Pick(u)}])
        BY <3>0, <4>1, AddsAt
      <4> QED
        BY <4>2 DEF h
    <3>2. CASE u = {}
      BY <3>1, <3>2
    <3>3. CASE u # {}
      <4> DEFINE w == u \ {Pick(u)}
      <4>1. Pick(u) \in u
        BY <3>3, PickIn
      <4>2. w \in SUBSET s /\ w # s /\ u \in SUBSET S /\ w \in SUBSET S
        BY <4>1
      <4>3. Adds(Partial(w, f), SUBSET w, f) /\ Adds(Partial(u, f), SUBSET u, f)
        BY <4>2, <2>2, <2>3
      <4>4. w \subseteq u
        OBVIOUS
      <4> HIDE DEF w
      <4>5. Partial(u, f)[w] = Partial(w, f)[w]
        BY <4>2, <4>3, <4>4, Agree
      <4> QED
        BY <3>1, <3>3, <4>2, <4>5 DEF w
    <3> QED
      BY <3>2, <3>3
  <2>4. ASSUME NEW u \in SUBSET s, u # {}
        PROVE  H[u \ {Pick(u)}] = P[u \ {Pick(u)}]
    <3>1. u \ {Pick(u)} \in SUBSET s /\ u \ {Pick(u)} # s
      BY <2>4, PickIn
    <3> HIDE DEF H, P
    <3> QED
      BY <3>1, <2>3
  <2>5. \A u \in SUBSET s : (IF u = {} THEN 0 ELSE f[Pick(u)] + P[u \ {Pick(u)}])
                          = (IF u = {} THEN 0 ELSE f[Pick(u)] + H[u \ {Pick(u)}])
    <3> HIDE DEF H, P
    <3> QED
      BY <2>4
  <2>6. Adds(H, SUBSET s, f)
    <3>1. H = [u \in SUBSET s |-> IF u = {} THEN 0 ELSE f[Pick(u)] + H[u \ {Pick(u)}]]
      <4> HIDE DEF P
      <4>1. H = [u \in SUBSET s |-> IF u = {} THEN 0 ELSE f[Pick(u)] + P[u \ {Pick(u)}]]
        OBVIOUS
      <4> HIDE DEF H
      <4> QED
        BY <4>1, <2>5
    <3> HIDE DEF H
    <3> QED
      BY <3>1 DEF Adds
  <2> HIDE DEF H
  <2>7. Adds(Partial(s, f), SUBSET s, f)
    BY <2>6 DEF Partial
  <2> QED
    BY <2>1, <2>7
<1>2. S \notin Bad
  BY <1>1
<1> QED
  BY <1>2

\* A sum takes its elements one by one, in the order of CHOOSE.
LEMMA SumStep ==
  ASSUME NEW S, IsFiniteSet(S), NEW f
  PROVE  SumOf(S, f) = (IF S = {} THEN 0 ELSE f[Pick(S)] + SumOf(S \ {Pick(S)}, f))
<1>0. Adds(Partial(S, f), SUBSET S, f) /\ S \in SUBSET S
  BY PartialAdds
<1>1. Partial(S, f)[S] = (IF S = {} THEN 0 ELSE f[Pick(S)] + Partial(S, f)[S \ {Pick(S)}])
  <2> DEFINE h == Partial(S, f)
  <2>1. Adds(h, SUBSET S, f)
    BY <1>0
  <2> HIDE DEF h
  <2>2. h[S] = (IF S = {} THEN 0 ELSE f[Pick(S)] + h[S \ {Pick(S)}])
    BY <1>0, <2>1, AddsAt
  <2> QED
    BY <2>2 DEF h
<1>2. SumOf(S, f) = Partial(S, f)[S]
  BY SumIs
<1> DEFINE R == S \ {Pick(S)}
<1>3. SumOf(R, f) = Partial(R, f)[R]
  BY SumIs
<1>4. IsFiniteSet(R)
  BY FS_Subset
<1>5. Adds(Partial(S, f), SUBSET S, f) /\ Adds(Partial(R, f), SUBSET R, f)
  BY <1>4, PartialAdds
<1>6. R \subseteq S
  OBVIOUS
<1>7. Partial(S, f)[R] = Partial(R, f)[R]
  <2> HIDE DEF R
  <2> QED
    BY <1>5, <1>6, Agree
<1> QED
  BY <1>1, <1>2, <1>3, <1>7

--------------------------------------------------------------------------------
(* What the ledgers' proofs use. *)

\* The empty sum.
LEMMA SumNothing ==
  ASSUME NEW f
  PROVE  SumOf({}, f) = 0
BY SumStep, FS_EmptySet

\* A sum of integers is an integer.
LEMMA SumInt ==
  ASSUME NEW S, IsFiniteSet(S), NEW f, \A x \in S : f[x] \in Int
  PROVE  SumOf(S, f) \in Int
<1> DEFINE Bad == {s \in SUBSET S : SumOf(s, f) \notin Int}
<1>1. Bad \subseteq SUBSET S
  OBVIOUS
<1>2. Bad = {}
  <2> SUFFICES ASSUME Bad # {} PROVE FALSE
    OBVIOUS
  <2>1. PICK s \in Bad : \A u \in Bad : u \subseteq s => u = s
    <3> HIDE DEF Bad
    <3> QED
      BY <1>1, Smallest
  <2>2. IsFiniteSet(s)
    BY FS_Subset
  <2>3. SumOf(s, f) = (IF s = {} THEN 0 ELSE f[Pick(s)] + SumOf(s \ {Pick(s)}, f))
    BY <2>2, SumStep
  <2>4. s # {}
    BY <2>1, <2>3
  <2>5. Pick(s) \in s
    BY <2>4, PickIn
  <2>6. s \ {Pick(s)} \notin Bad /\ s \ {Pick(s)} \in SUBSET S
    BY <2>1, <2>5
  <2> QED
    BY <2>1, <2>3, <2>4, <2>5, <2>6
<1> QED
  BY <1>2

\* A sum of naturals is a natural.
LEMMA SumNat ==
  ASSUME NEW S, IsFiniteSet(S), NEW f, \A x \in S : f[x] \in Nat
  PROVE  SumOf(S, f) \in Nat
<1> DEFINE Bad == {s \in SUBSET S : SumOf(s, f) \notin Nat}
<1>1. Bad \subseteq SUBSET S
  OBVIOUS
<1>2. Bad = {}
  <2> SUFFICES ASSUME Bad # {} PROVE FALSE
    OBVIOUS
  <2>1. PICK s \in Bad : \A u \in Bad : u \subseteq s => u = s
    <3> HIDE DEF Bad
    <3> QED
      BY <1>1, Smallest
  <2>2. IsFiniteSet(s)
    BY FS_Subset
  <2>3. SumOf(s, f) = (IF s = {} THEN 0 ELSE f[Pick(s)] + SumOf(s \ {Pick(s)}, f))
    BY <2>2, SumStep
  <2>4. s # {}
    BY <2>1, <2>3
  <2>5. Pick(s) \in s
    BY <2>4, PickIn
  <2>6. s \ {Pick(s)} \notin Bad /\ s \ {Pick(s)} \in SUBSET S
    BY <2>1, <2>5
  <2> QED
    BY <2>1, <2>3, <2>4, <2>5, <2>6
<1> QED
  BY <1>2

\* A sum depends on the values in the set alone.
LEMMA SumSame ==
  ASSUME NEW S, IsFiniteSet(S), NEW f, NEW g, \A x \in S : f[x] = g[x]
  PROVE  SumOf(S, f) = SumOf(S, g)
<1> DEFINE Bad == {s \in SUBSET S : SumOf(s, f) # SumOf(s, g)}
<1>1. Bad \subseteq SUBSET S
  OBVIOUS
<1>2. Bad = {}
  <2> SUFFICES ASSUME Bad # {} PROVE FALSE
    OBVIOUS
  <2>1. PICK s \in Bad : \A u \in Bad : u \subseteq s => u = s
    <3> HIDE DEF Bad
    <3> QED
      BY <1>1, Smallest
  <2>2. IsFiniteSet(s)
    BY FS_Subset
  <2>3. /\ SumOf(s, f) = (IF s = {} THEN 0 ELSE f[Pick(s)] + SumOf(s \ {Pick(s)}, f))
        /\ SumOf(s, g) = (IF s = {} THEN 0 ELSE g[Pick(s)] + SumOf(s \ {Pick(s)}, g))
    BY <2>2, SumStep
  <2>4. s # {}
    BY <2>1, <2>3
  <2>5. Pick(s) \in s
    BY <2>4, PickIn
  <2>6. s \ {Pick(s)} \notin Bad /\ s \ {Pick(s)} \in SUBSET S
    BY <2>1, <2>5
  <2> QED
    BY <2>1, <2>3, <2>4, <2>5, <2>6
<1> QED
  BY <1>2

\* Any element can be taken out first.
LEMMA SumWithout ==
  ASSUME NEW S, IsFiniteSet(S), NEW f, \A y \in S : f[y] \in Int, NEW x \in S
  PROVE  SumOf(S, f) = f[x] + SumOf(S \ {x}, f)
<1> DEFINE Bad == {s \in SUBSET S : \E y \in s : SumOf(s, f) # f[y] + SumOf(s \ {y}, f)}
<1>1. Bad \subseteq SUBSET S
  OBVIOUS
<1>2. Bad = {}
  <2> SUFFICES ASSUME Bad # {} PROVE FALSE
    OBVIOUS
  <2>1. PICK s \in Bad : \A u \in Bad : u \subseteq s => u = s
    <3> HIDE DEF Bad
    <3> QED
      BY <1>1, Smallest
  <2>2. PICK y \in s : SumOf(s, f) # f[y] + SumOf(s \ {y}, f)
    OBVIOUS
  <2> DEFINE p == Pick(s)
  <2>3. p \in s /\ s # {}
    BY <2>2, PickIn
  <2>4. \A u \in SUBSET s : IsFiniteSet(u) /\ SumOf(u, f) \in Int
    <3> SUFFICES ASSUME NEW u \in SUBSET s PROVE IsFiniteSet(u) /\ SumOf(u, f) \in Int
      OBVIOUS
    <3>1. IsFiniteSet(u) /\ \A z \in u : f[z] \in Int
      BY FS_Subset
    <3> QED
      BY <3>1, SumInt
  <2>5. SumOf(s, f) = f[p] + SumOf(s \ {p}, f)
    BY <2>3, <2>4, SumStep
  <2>6. y # p
    BY <2>2, <2>5
  <2> HIDE DEF p
  <2>7. s \ {p} \notin Bad /\ s \ {y} \notin Bad
    BY <2>1, <2>2, <2>3
  <2>8. SumOf(s \ {p}, f) = f[y] + SumOf((s \ {p}) \ {y}, f)
    BY <2>2, <2>3, <2>6, <2>7
  <2>9. SumOf(s \ {y}, f) = f[p] + SumOf((s \ {y}) \ {p}, f)
    BY <2>2, <2>3, <2>6, <2>7
  <2>10. (s \ {p}) \ {y} = (s \ {y}) \ {p}
    OBVIOUS
  <2>11. f[y] \in Int /\ f[p] \in Int /\ SumOf((s \ {y}) \ {p}, f) \in Int
    BY <2>3, <2>4
  <2>12. SumOf(s, f) = f[p] + (f[y] + SumOf((s \ {y}) \ {p}, f))
    BY <2>5, <2>8, <2>10
  <2>13. f[y] + SumOf(s \ {y}, f) = f[y] + (f[p] + SumOf((s \ {y}) \ {p}, f))
    BY <2>9
  <2>14. \A a, b, c \in Int : a + (b + c) = b + (a + c)
    OBVIOUS
  <2> QED
    BY <2>2, <2>11, <2>12, <2>13, <2>14
<1> QED
  BY <1>2

\* When one term changes, the sum changes by as much.
LEMMA SumChange ==
  ASSUME NEW S, IsFiniteSet(S), NEW x \in S, NEW f, NEW g,
         \A y \in S : f[y] \in Int, \A y \in S : g[y] \in Int,
         \A y \in S \ {x} : f[y] = g[y]
  PROVE  SumOf(S, g) = SumOf(S, f) + (g[x] - f[x])
<1> DEFINE R == S \ {x}
<1>1. IsFiniteSet(R)
  BY FS_Subset
<1>2. SumOf(R, f) = SumOf(R, g) /\ SumOf(R, f) \in Int
  <2> HIDE DEF R
  <2>1. (\A y \in R : f[y] = g[y]) /\ \A y \in R : f[y] \in Int
    BY DEF R
  <2> QED
    BY <1>1, <2>1, SumSame, SumInt
<1>3. SumOf(S, f) = f[x] + SumOf(R, f) /\ SumOf(S, g) = g[x] + SumOf(R, g)
  BY SumWithout
<1> QED
  BY <1>2, <1>3

\* Terms that are zero can be left out.
LEMMA SumZeroOutside ==
  ASSUME NEW S, IsFiniteSet(S), NEW f, \A x \in S : f[x] \in Int,
         NEW T \in SUBSET S, \A x \in S \ T : f[x] = 0
  PROVE  SumOf(S, f) = SumOf(T, f)
<1> DEFINE Bad == {s \in SUBSET S : T \subseteq s /\ SumOf(s, f) # SumOf(T, f)}
<1>1. Bad \subseteq SUBSET S
  OBVIOUS
<1>2. Bad = {}
  <2> SUFFICES ASSUME Bad # {} PROVE FALSE
    OBVIOUS
  <2>1. PICK s \in Bad : \A u \in Bad : u \subseteq s => u = s
    <3> HIDE DEF Bad
    <3> QED
      BY <1>1, Smallest
  <2>2. PICK x \in s : x \notin T
    OBVIOUS
  <2>3. IsFiniteSet(s) /\ \A y \in s : f[y] \in Int
    BY FS_Subset
  <2>4. SumOf(s, f) = f[x] + SumOf(s \ {x}, f)
    BY <2>3, SumWithout
  <2>5. SumOf(s \ {x}, f) = SumOf(T, f)
    BY <2>1, <2>2
  <2>6. SumOf(T, f) \in Int
    BY FS_Subset, SumInt
  <2> QED
    BY <2>2, <2>4, <2>5, <2>6
<1> QED
  BY <1>2

\* A sum of zeros is zero.
LEMMA SumZero ==
  ASSUME NEW S, IsFiniteSet(S), NEW f, \A x \in S : f[x] = 0
  PROVE  SumOf(S, f) = 0
<1>1. {} \in SUBSET S /\ (\A x \in S : f[x] \in Int) /\ \A x \in S \ {} : f[x] = 0
  OBVIOUS
<1>2. SumOf(S, f) = SumOf({}, f)
  BY <1>1, SumZeroOutside
<1> QED
  BY <1>2, SumNothing
================================================================================
