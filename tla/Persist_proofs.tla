---------------------------- MODULE Persist_proofs ----------------------------
(***************************************************************************)
(* Theorems about Persist: whose the watches in memory are, what is kept of *)
(* them in the files, and what comes back.                                  *)
(***************************************************************************)
EXTENDS Persist, FiniteSetTheorems, SequenceTheorems, WellFoundedInduction, TLAPS

-----------------------------------------------------------------------------
(* Numbers                                                                  *)

\* A set of natural numbers that is not empty has a least one.
LEMMA Least ==
  ASSUME NEW T, T \subseteq Nat, T # {}
  PROVE  \E n \in T : \A m \in T : n <= m
<1> DEFINE R == OpToRel(<, Nat)
<1>1. IsWellFoundedOn(R, Nat)
  BY NatLessThanWellFounded
<1>2. \A x, y \in Nat : <<x, y>> \in R <=> x < y
  BY DEF OpToRel
<1> HIDE DEF R
<1>3. PICK n \in T : \A m \in T : <<m, n>> \notin R
  BY <1>1, WFMin
<1>4. \A m \in T : ~(m < n)
  BY <1>2, <1>3
<1> QED BY <1>4

\* A set that has 0, and with a number the next one, has all the numbers up to N.
LEMMA Upwards ==
  ASSUME NEW N \in Nat, NEW T, 0 \in T, \A n \in 0 .. N - 1 : n \in T => n + 1 \in T
  PROVE  \A n \in 0 .. N : n \in T
<1> DEFINE U == {n \in 0 .. N : n \notin T}
<1> SUFFICES ASSUME U # {} PROVE FALSE
  OBVIOUS
<1> U \subseteq Nat
  OBVIOUS
<1>1. PICK n \in U : \A m \in U : n <= m
  <2> HIDE DEF U
  <2> QED BY Least
<1>2. n \in 0 .. N /\ n # 0 /\ n \notin T
  OBVIOUS
<1>3. n - 1 \in 0 .. N - 1 /\ n - 1 \notin U
  BY <1>1, <1>2
<1>4. n - 1 \in T
  BY <1>3
<1>5. (n - 1) + 1 \in T
  BY <1>3, <1>4
<1> QED BY <1>2, <1>5

\* What f does to base and the numbers from 1 to N, one after the other.
Loops(g, N, base, f) ==
  g = [n \in 0 .. N |-> IF n = 0 THEN base ELSE f[n][g[n - 1]]]

\* There is such a function, whatever is done in each step.
LEMMA LoopExists ==
  ASSUME NEW N \in Nat, NEW S, NEW base \in S, NEW f \in [1 .. N -> [S -> S]]
  PROVE  \E g \in [0 .. N -> S] : Loops(g, N, base, f)
<1> DEFINE T == {n \in Nat : n <= N => \E g \in [0 .. n -> S] : Loops(g, n, base, f)}
<1>1. 0 \in T
  <2> DEFINE g == [n \in 0 .. 0 |-> base]
  <2>1. g \in [0 .. 0 -> S]
    OBVIOUS
  <2>2. Loops(g, 0, base, f)
    BY DEF Loops
  <2> HIDE DEF g
  <2> QED BY <2>1, <2>2
<1>2. \A n \in 0 .. N - 1 : n \in T => n + 1 \in T
  <2> SUFFICES ASSUME NEW n \in 0 .. N - 1, n \in T
               PROVE  \E g \in [0 .. n + 1 -> S] : Loops(g, n + 1, base, f)
    OBVIOUS
  <2>1. PICK h \in [0 .. n -> S] : Loops(h, n, base, f)
    OBVIOUS
  <2> DEFINE g == [i \in 0 .. n + 1 |-> IF i = n + 1 THEN f[n + 1][h[n]] ELSE h[i]]
  <2>2. f[n + 1][h[n]] \in S
    OBVIOUS
  <2>3. g \in [0 .. n + 1 -> S]
    BY <2>2
  <2>4. \A i \in 0 .. n + 1 : g[i] = IF i = 0 THEN base ELSE f[i][g[i - 1]]
    <3> SUFFICES ASSUME NEW i \in 0 .. n + 1
                 PROVE  g[i] = IF i = 0 THEN base ELSE f[i][g[i - 1]]
      OBVIOUS
    <3>1. CASE i = n + 1
      <4>1. g[i] = f[n + 1][h[n]] /\ g[n] = h[n]
        BY <3>1
      <4> QED BY <3>1, <4>1
    <3>2. CASE i # n + 1 /\ i # 0
      <4>1. i \in 0 .. n /\ i - 1 \in 0 .. n /\ i - 1 # n + 1
        BY <3>2
      <4>2. h[i] = f[i][h[i - 1]]
        BY <2>1, <3>2, <4>1 DEF Loops
      <4>3. g[i] = h[i] /\ g[i - 1] = h[i - 1]
        BY <3>2, <4>1
      <4> QED BY <3>2, <4>2, <4>3
    <3>3. CASE i # n + 1 /\ i = 0
      <4>1. h[0] = base
        BY <2>1, <3>3 DEF Loops
      <4> QED BY <3>3, <4>1
    <3> QED BY <3>1, <3>2, <3>3
  <2> HIDE DEF g
  <2>5. Loops(g, n + 1, base, f)
    BY <2>3, <2>4 DEF Loops
  <2> QED BY <2>3, <2>5
<1> HIDE DEF T
<1>3. \A n \in 0 .. N : n \in T
  BY <1>1, <1>2, Upwards
<1>4. N \in T
  BY <1>3
<1> QED BY <1>4 DEF T

-----------------------------------------------------------------------------
(* The elements at some places of a sequence                                *)

Picks(s, I, p) ==
  p = [n \in 0 .. Len(s) |-> IF n = 0 THEN <<>>
                             ELSE IF n \in I THEN Append(p[n - 1], s[n]) ELSE p[n - 1]]

\* The function by which Picked is defined exists.
LEMMA PickedUnfolds ==
  ASSUME NEW S, NEW s \in Seq(S), NEW I
  PROVE  \E p : Picks(s, I, p) /\ Picked(s, I) = p[Len(s)]
<1> DEFINE f == [n \in 1 .. Len(s) |->
                  [x \in Seq(S) |-> IF n \in I THEN Append(x, s[n]) ELSE x]]
<1>1. Len(s) \in Nat /\ <<>> \in Seq(S)
  OBVIOUS
<1>2. \A n \in 1 .. Len(s), x \in Seq(S) : Append(x, s[n]) \in Seq(S)
  OBVIOUS
<1>3. f \in [1 .. Len(s) -> [Seq(S) -> Seq(S)]]
  BY <1>2
<1>4. \A n \in 1 .. Len(s), x \in Seq(S) :
        f[n][x] = IF n \in I THEN Append(x, s[n]) ELSE x
  OBVIOUS
<1> HIDE DEF f
<1>5. PICK g \in [0 .. Len(s) -> Seq(S)] : Loops(g, Len(s), <<>>, f)
  BY <1>1, <1>3, LoopExists
<1>6. \A n \in 0 .. Len(s) : g[n] = IF n = 0 THEN <<>>
                             ELSE IF n \in I THEN Append(g[n - 1], s[n]) ELSE g[n - 1]
  <2> SUFFICES ASSUME NEW n \in 0 .. Len(s), n # 0
               PROVE  g[n] = IF n \in I THEN Append(g[n - 1], s[n]) ELSE g[n - 1]
    BY <1>5 DEF Loops
  <2>1. n \in 1 .. Len(s) /\ g[n - 1] \in Seq(S)
    BY <1>1, <1>5
  <2>2. g[n] = f[n][g[n - 1]]
    BY <1>5 DEF Loops
  <2> QED BY <1>4, <2>1, <2>2
<1>7. Picks(s, I, g)
  BY <1>5, <1>6 DEF Picks
<1> DEFINE p == CHOOSE q : Picks(s, I, q)
<1>8. Picks(s, I, p)
  BY <1>7
<1>9. Picked(s, I) = p[Len(s)]
  BY DEF Picked, Picks
<1> HIDE DEF p
<1> QED BY <1>8, <1>9

\* q is a list of elements of s, m says at which places, no place twice.
TakenFrom(q, s, I, m) ==
  /\ m \in [1 .. Len(q) -> I]
  /\ \A k \in 1 .. Len(q) : q[k] = s[m[k]]
  /\ \A k, l \in 1 .. Len(q) : m[k] = m[l] => k = l

\* One more element.
LEMMA TakenAppend ==
  ASSUME NEW S, NEW q \in Seq(S), NEW s \in Seq(S), NEW n \in 1 .. Len(s), NEW J, NEW m,
         TakenFrom(q, s, J, m), n \notin J
  PROVE  \E l : TakenFrom(Append(q, s[n]), s, J \cup {n}, l)
<1> DEFINE N == Len(q) + 1
           a == Append(q, s[n])
           l == [k \in 1 .. N |-> IF k = N THEN n ELSE m[k]]
<1>1. Len(a) = N /\ a[N] = s[n] /\ \A k \in 1 .. Len(q) : a[k] = q[k]
  OBVIOUS
<1> HIDE DEF a
<1>2. N \in Nat /\ \A k \in 1 .. N : k # N => k \in 1 .. Len(q)
  OBVIOUS
<1>3. \A k \in 1 .. Len(q) : m[k] \in J
  BY DEF TakenFrom
<1>4. l \in [1 .. N -> J \cup {n}]
  BY <1>2, <1>3
<1>5. \A k \in 1 .. N : a[k] = s[l[k]]
  BY <1>1, <1>2 DEF TakenFrom
<1>6. \A k, i \in 1 .. N : l[k] = l[i] => k = i
  BY <1>2, <1>3 DEF TakenFrom
<1> HIDE DEF l
<1>7. TakenFrom(a, s, J \cup {n}, l)
  BY <1>1, <1>4, <1>5, <1>6 DEF TakenFrom
<1> QED BY <1>7 DEF a

\* What Picked returns are elements at those places, each place once.
LEMMA PickedFacts ==
  ASSUME NEW S, NEW s \in Seq(S), NEW I
  PROVE  Picked(s, I) \in Seq(S) /\ \E m : TakenFrom(Picked(s, I), s, I \cap DOMAIN s, m)
<1>1. PICK p : Picks(s, I, p) /\ Picked(s, I) = p[Len(s)]
  BY PickedUnfolds
<1> DEFINE J(n) == I \cap 1 .. n
           T == {n \in 0 .. Len(s) : p[n] \in Seq(S) /\ \E m : TakenFrom(p[n], s, J(n), m)}
<1>2. Len(s) \in Nat /\ DOMAIN s = 1 .. Len(s)
  OBVIOUS
<1>3. 0 \in T
  <2>1. p[0] = <<>>
    BY <1>1, <1>2 DEF Picks
  <2> DEFINE m == [k \in 1 .. 0 |-> 0]
  <2>2. m \in [1 .. 0 -> J(0)]
    OBVIOUS
  <2> HIDE DEF m, J
  <2>3. TakenFrom(<<>>, s, J(0), m)
    BY <2>2 DEF TakenFrom
  <2>4. p[0] \in Seq(S) /\ \E k : TakenFrom(p[0], s, J(0), k)
    BY <2>1, <2>3
  <2> QED BY <1>2, <2>4
<1>4. \A n \in 0 .. Len(s) - 1 : n \in T => n + 1 \in T
  <2> SUFFICES ASSUME NEW n \in 0 .. Len(s) - 1, n \in T PROVE n + 1 \in T
    OBVIOUS
  <2>1. n + 1 \in 1 .. Len(s) /\ n + 1 \in 0 .. Len(s) /\ n + 1 # 0 /\ (n + 1) - 1 = n
    BY <1>2
  <2>2. PICK m : TakenFrom(p[n], s, J(n), m)
    OBVIOUS
  <2>3. p[n] \in Seq(S)
    OBVIOUS
  <2>4. p[n + 1] = IF n + 1 \in I THEN Append(p[n], s[n + 1]) ELSE p[n]
    BY <1>1, <2>1 DEF Picks
  <2>5. CASE n + 1 \in I
    <3>1. n + 1 \notin J(n) /\ J(n + 1) = J(n) \cup {n + 1}
      BY <2>1, <2>5
    <3> HIDE DEF J
    <3>2. p[n + 1] \in Seq(S)
      BY <2>1, <2>3, <2>4, <2>5
    <3>3. \E l : TakenFrom(Append(p[n], s[n + 1]), s, J(n) \cup {n + 1}, l)
      BY <2>1, <2>2, <2>3, <3>1, TakenAppend
    <3>4. \E l : TakenFrom(p[n + 1], s, J(n + 1), l)
      BY <2>4, <2>5, <3>1, <3>3
    <3> QED BY <2>1, <3>2, <3>4
  <2>6. CASE n + 1 \notin I
    <3>1. J(n + 1) = J(n)
      BY <2>1, <2>6
    <3> HIDE DEF J
    <3> QED BY <2>1, <2>2, <2>3, <2>4, <2>6, <3>1
  <2> QED BY <2>5, <2>6
<1> HIDE DEF T
<1>5. \A n \in 0 .. Len(s) : n \in T
  BY <1>2, <1>3, <1>4, Upwards
<1>6. Len(s) \in T
  BY <1>2, <1>5
<1> QED BY <1>1, <1>2, <1>6 DEF T

-----------------------------------------------------------------------------
(* A watch that is loaded                                                   *)

\* Those that AddWatch takes for the same.
Alike(v, w) == v.symbol = w.symbol /\ v.project = w.project /\ v.type = w.type

\* q is list without its element at j and with w at the end.
Replaced(q, list, j, w) ==
  /\ Len(q) = Len(list)
  /\ \A k \in 1 .. Len(list) :
       q[k] = IF k < j THEN list[k] ELSE IF k < Len(list) THEN list[k + 1] ELSE w

\* RemoveAt in terms of places.
LEMMA RemoveAtFacts ==
  ASSUME NEW S, NEW list \in Seq(S), NEW j \in 1 .. Len(list)
  PROVE  /\ RemoveAt(list, j) \in Seq(S) /\ Len(RemoveAt(list, j)) = Len(list) - 1
         /\ \A k \in 1 .. Len(RemoveAt(list, j)) :
              RemoveAt(list, j)[k] = IF k < j THEN list[k] ELSE list[k + 1]
<1> DEFINE a == SubSeq(list, 1, j - 1)
           b == SubSeq(list, j + 1, Len(list))
<1>1. Len(list) \in Nat /\ j \in Int
  OBVIOUS
<1>2. a \in Seq(S) /\ Len(a) = j - 1 /\ \A k \in 1 .. j - 1 : a[k] = list[k]
  OBVIOUS
<1>3. /\ b \in Seq(S) /\ Len(b) = Len(list) - j
      /\ \A k \in 1 .. Len(list) - j : b[k] = list[k + j]
  OBVIOUS
<1>4. RemoveAt(list, j) = a \o b
  BY DEF RemoveAt
<1> HIDE DEF a, b
<1> DEFINE r == a \o b
<1>5. /\ r \in Seq(S) /\ Len(r) = Len(list) - 1
      /\ \A k \in 1 .. Len(r) : r[k] = IF k < j THEN list[k] ELSE list[k + 1]
  <2>1. /\ r \in Seq(S) /\ Len(r) = Len(a) + Len(b)
        /\ \A k \in 1 .. Len(r) : r[k] = IF k <= Len(a) THEN a[k] ELSE b[k - Len(a)]
    <3>1. a \in Seq(S) /\ b \in Seq(S)
      BY <1>2, <1>3
    <3>2. a \o b \in Seq(S) /\ Len(a \o b) = Len(a) + Len(b)
      BY <3>1, ConcatProperties, Zenon
    <3>3. \A k \in 1 .. Len(a) + Len(b) :
            (a \o b)[k] = IF k <= Len(a) THEN a[k] ELSE b[k - Len(a)]
      BY <3>1, ConcatProperties, Zenon
    <3> QED BY <3>2, <3>3
  <2> HIDE DEF r
  <2>2. Len(r) = Len(list) - 1
    BY <1>1, <1>2, <1>3, <2>1
  <2>3. ASSUME NEW k \in 1 .. Len(r), k < j PROVE r[k] = list[k]
    <3>1. k <= Len(a) /\ k \in 1 .. j - 1
      BY <1>1, <1>2, <2>2, <2>3
    <3> QED BY <1>2, <2>1, <3>1
  <2>4. ASSUME NEW k \in 1 .. Len(r), ~(k < j) PROVE r[k] = list[k + 1]
    <3>1. ~(k <= Len(a)) /\ k - Len(a) \in 1 .. Len(list) - j /\ (k - Len(a)) + j = k + 1
      BY <1>1, <1>2, <2>2, <2>4
    <3>2. r[k] = b[k - Len(a)]
      BY <2>1, <3>1
    <3> QED BY <1>3, <3>1, <3>2
  <2> QED BY <2>1, <2>2, <2>3, <2>4
<1> QED BY <1>4, <1>5

\* And with something appended.
LEMMA ReplacedFacts ==
  ASSUME NEW S, NEW list \in Seq(S), NEW w \in S, NEW j \in 1 .. Len(list)
  PROVE  /\ Append(RemoveAt(list, j), w) \in Seq(S)
         /\ Replaced(Append(RemoveAt(list, j), w), list, j, w)
<1> DEFINE r == RemoveAt(list, j)
<1>1. Len(list) \in Nat /\ j \in Int
  OBVIOUS
<1>2. /\ r \in Seq(S) /\ Len(r) = Len(list) - 1
      /\ \A k \in 1 .. Len(r) : r[k] = IF k < j THEN list[k] ELSE list[k + 1]
  BY RemoveAtFacts
<1> HIDE DEF r
<1> DEFINE q == Append(r, w)
<1>3. q \in Seq(S) /\ Len(q) = Len(list) /\ q[Len(list)] = w
  BY <1>1, <1>2
<1>4. \A k \in 1 .. Len(r) : q[k] = r[k]
  BY <1>2
<1> HIDE DEF q
<1>5. Replaced(q, list, j, w)
  BY <1>1, <1>2, <1>3, <1>4 DEF Replaced
<1> QED BY <1>3, <1>5 DEF q, r

\* AddWatch appends the watch, or replaces one that is alike.
LEMMA AddLoadedFacts ==
  ASSUME NEW S, NEW list \in Seq(S), NEW w \in S
  PROVE  /\ AddLoaded(list, w) \in Seq(S)
         /\ \/ /\ \A i \in 1 .. Len(list) : ~Alike(list[i], w)
               /\ AddLoaded(list, w) = Append(list, w)
            \/ \E j \in 1 .. Len(list) :
                 Alike(list[j], w) /\ Replaced(AddLoaded(list, w), list, j, w)
<1> DEFINE I == {i \in 1 .. Len(list) : Alike(list[i], w)}
<1>1. CASE I = {}
  <2>1. \A i \in 1 .. Len(list) : ~Alike(list[i], w)
    BY <1>1
  <2>2. AddLoaded(list, w) = Append(list, w)
    BY <2>1 DEF AddLoaded, RemoveFirstMatch, Alike
  <2> QED BY <2>1, <2>2
<1>2. CASE I # {}
  <2>1. AddLoaded(list, w) = Append(RemoveAt(list, Min(I)), w)
    BY <1>2 DEF AddLoaded, RemoveFirstMatch, SelectInSeq, Alike
  <2>2. Min(I) \in I
    <3>1. I \subseteq Nat
      OBVIOUS
    <3> HIDE DEF I
    <3>2. \E n \in I : \A m \in I : n <= m
      BY <1>2, <3>1, Least
    <3> QED BY <3>2 DEF Min
  <2>3. Min(I) \in 1 .. Len(list) /\ Alike(list[Min(I)], w)
    BY <2>2
  <2> HIDE DEF I
  <2> QED BY <2>1, <2>3, ReplacedFacts
<1> QED BY <1>1, <1>2

\* What was true of every watch, and of w, is true of every watch afterwards.
LEMMA AddLoadedElements ==
  ASSUME NEW S, NEW list \in Seq(S), NEW w \in S
  PROVE  \A k \in 1 .. Len(AddLoaded(list, w)) :
           AddLoaded(list, w)[k] = w \/ \E i \in 1 .. Len(list) : AddLoaded(list, w)[k] = list[i]
<1> DEFINE q == AddLoaded(list, w)
           Old(k) == q[k] = w \/ \E i \in 1 .. Len(list) : q[k] = list[i]
<1>1. Len(list) \in Nat
  OBVIOUS
<1>2. ASSUME q = Append(list, w), NEW k \in 1 .. Len(q) PROVE Old(k)
  <2>1. Len(q) = Len(list) + 1 /\ q[Len(list) + 1] = w /\ \A i \in 1 .. Len(list) : q[i] = list[i]
    BY <1>2
  <2> HIDE DEF q
  <2>2. k = Len(list) + 1 \/ k \in 1 .. Len(list)
    BY <1>1, <2>1
  <2> QED BY <2>1, <2>2
<1> HIDE DEF q
<1>3. ASSUME NEW j \in 1 .. Len(list), Replaced(q, list, j, w), NEW k \in 1 .. Len(q) PROVE Old(k)
  <2>1. k \in 1 .. Len(list) /\ (k < Len(list) => k + 1 \in 1 .. Len(list))
    BY <1>1, <1>3 DEF Replaced
  <2>2. q[k] = IF k < j THEN list[k] ELSE IF k < Len(list) THEN list[k + 1] ELSE w
    BY <1>3, <2>1 DEF Replaced
  <2> QED BY <2>1, <2>2
<1>4. q = Append(list, w) \/ \E j \in 1 .. Len(list) : Alike(list[j], w) /\ Replaced(q, list, j, w)
  BY AddLoadedFacts DEF q
<1>5. \A k \in 1 .. Len(q) : Old(k)
  BY <1>2, <1>3, <1>4
<1>6. q = AddLoaded(list, w)
  BY DEF q
<1> QED BY <1>5, <1>6, Zenon

Has(list, v) == \E k \in 1 .. Len(list) : list[k] = v

\* What is not like w stays in the list, and w is in it.
LEMMA AddLoadedKeeps ==
  ASSUME NEW S, NEW list \in Seq(S), NEW w \in S
  PROVE  /\ \A v : Has(list, v) /\ ~Alike(v, w) => Has(AddLoaded(list, w), v)
         /\ Has(AddLoaded(list, w), w)
<1> DEFINE q == AddLoaded(list, w)
<1>1. ASSUME q = Append(list, w)
      PROVE  /\ \A i \in 1 .. Len(list) : ~Alike(list[i], w) => \E k \in 1 .. Len(q) : q[k] = list[i]
             /\ \E k \in 1 .. Len(q) : q[k] = w
  <2>1. /\ Len(q) = Len(list) + 1 /\ q[Len(list) + 1] = w
        /\ \A i \in 1 .. Len(list) : q[i] = list[i]
    BY <1>1
  <2>2. Len(list) \in Nat
    OBVIOUS
  <2> HIDE DEF q
  <2>3. \A i \in 1 .. Len(list) : i \in 1 .. Len(q)
    BY <2>1, <2>2
  <2>4. Len(list) + 1 \in 1 .. Len(q)
    BY <2>1, <2>2
  <2> QED BY <2>1, <2>3, <2>4
<1>2. ASSUME NEW j \in 1 .. Len(list), Alike(list[j], w), Replaced(q, list, j, w)
      PROVE  /\ \A i \in 1 .. Len(list) : ~Alike(list[i], w) => \E k \in 1 .. Len(q) : q[k] = list[i]
             /\ \E k \in 1 .. Len(q) : q[k] = w
  <2> HIDE DEF q
  <2>1. Len(list) \in Nat /\ Len(q) = Len(list)
    BY <1>2 DEF Replaced
  <2>2. ASSUME NEW i \in 1 .. Len(list), ~Alike(list[i], w)
        PROVE  \E k \in 1 .. Len(q) : q[k] = list[i]
    <3>1. CASE i < j
      <4>1. q[i] = list[i]
        BY <1>2, <3>1 DEF Replaced
      <4> QED BY <2>1, <4>1
    <3>2. CASE i > j
      <4>1. i - 1 \in 1 .. Len(list) /\ ~(i - 1 < j) /\ i - 1 < Len(list) /\ (i - 1) + 1 = i
        BY <2>1, <3>2
      <4>2. q[i - 1] = list[i]
        BY <1>2, <4>1 DEF Replaced
      <4> QED BY <2>1, <4>1, <4>2
    <3>3. i # j
      BY <1>2, <2>2
    <3> QED BY <3>1, <3>2, <3>3
  <2>3. q[Len(list)] = w /\ Len(list) \in 1 .. Len(q)
    BY <1>2, <2>1 DEF Replaced
  <2> QED BY <2>2, <2>3
<1> HIDE DEF q
<1>3. q = Append(list, w) \/ \E j \in 1 .. Len(list) : Alike(list[j], w) /\ Replaced(q, list, j, w)
  BY AddLoadedFacts DEF q
<1>4. /\ \A i \in 1 .. Len(list) : ~Alike(list[i], w) => \E k \in 1 .. Len(q) : q[k] = list[i]
      /\ \E k \in 1 .. Len(q) : q[k] = w
  BY <1>1, <1>2, <1>3
<1>5. \A v : Has(list, v) /\ ~Alike(v, w) => Has(q, v)
  BY <1>4 DEF Has
<1>6. Has(q, w)
  BY <1>4 DEF Has
<1>7. q = AddLoaded(list, w)
  BY DEF q
<1> QED BY <1>5, <1>6, <1>7, Zenon

-----------------------------------------------------------------------------
(* What is written and read                                                 *)

\* A format comes back.
LEMMA FormatComesBack ==
  ASSUME NEW f \in 0 .. 8
  PROVE  TextFormat(FormatText(f)) = f
<1>1. DOMAIN FormatNames = 1 .. 9
  BY DEF FormatNames
<1>2. \A i, j \in 1 .. 9 : FormatNames[i] = FormatNames[j] => i = j
  <2> SUFFICES ASSUME NEW i \in 1 .. 9, NEW j \in 1 .. 9, FormatNames[i] = FormatNames[j]
               PROVE  i = j
    OBVIOUS
  <2>1. /\ FormatNames[1] = "Undefined" /\ FormatNames[2] = "Decimal"
        /\ FormatNames[3] = "Unsigned" /\ FormatNames[4] = "Hex" /\ FormatNames[5] = "Binary"
        /\ FormatNames[6] = "Char" /\ FormatNames[7] = "Float" /\ FormatNames[8] = "Last"
        /\ FormatNames[9] = "Any"
    BY DEF FormatNames
  <2>2. \A k \in 1 .. 9 : \/ k = 1 \/ k = 2 \/ k = 3 \/ k = 4 \/ k = 5
                          \/ k = 6 \/ k = 7 \/ k = 8 \/ k = 9
    OBVIOUS
  <2> QED BY <2>1, <2>2
<1>3. FormatText(f) = Word(FormatNames[f + 1]) /\ f + 1 \in 1 .. 9
  BY <1>1 DEF FormatText
<1> DEFINE text == Word(FormatNames[f + 1])
<1>4. \A i \in 1 .. 9 : text = Word(FormatNames[i]) => i = f + 1
  BY <1>2, <1>3 DEF Word
<1>5. Places(text) = {f + 1}
  BY <1>1, <1>3, <1>4 DEF Places
<1> HIDE DEF text
<1> DEFINE c == CHOOSE i \in Places(text) : TRUE
<1>6. c = f + 1
  BY <1>5
<1>7. Places(text) # {}
  BY <1>5
<1>8. TextFormat(text) = c - 1
  BY <1>7 DEF TextFormat
<1> HIDE DEF c
<1>9. TextFormat(text) = f
  BY <1>3, <1>6, <1>8
<1> QED BY <1>3, <1>9 DEF text

\* The formats and the ranges of watches.
LEMMA WatchFields ==
  ASSUME NEW w \in Watch
  PROVE  /\ w.project \in Addresses \cup {Null} /\ w.symbol \in Symbols \cup {""}
         /\ w.type \in Types \cup {""}
         /\ w.format \in 0 .. 5 /\ w.array \in BOOLEAN
         /\ w.range = <<w.range[1], w.range[2]>>
         /\ w = [project |-> w.project, symbol |-> w.symbol, type |-> w.type,
                 format |-> w.format, array |-> w.array, range |-> w.range]
<1> DEFINE F == {e.format : e \in Edits} \cup {0}
           R == {e.range : e \in Edits} \cup {<<-1, -1>>}
<1>1. \A e \in Edits : e.format \in 0 .. 5 /\ e.range \in Int \X Int
  BY PersistAssumption
<1>2. F \subseteq 0 .. 5
  BY <1>1
<1>3. R \subseteq Int \X Int
  <2>1. <<-1, -1>> \in Int \X Int
    OBVIOUS
  <2> QED BY <1>1, <2>1
<1> HIDE DEF F, R
<1>4. w \in [project : Addresses \cup {Null}, symbol : Symbols \cup {""}, type : Types \cup {""},
             format : F, array : BOOLEAN, range : R]
  BY DEF Watch, F, R
<1>5. w.format \in F /\ w.range \in R
  BY <1>4
<1>6. w.range = <<w.range[1], w.range[2]>>
  BY <1>3, <1>5
<1>7. w = [project |-> w.project, symbol |-> w.symbol, type |-> w.type,
           format |-> w.format, array |-> w.array, range |-> w.range]
  BY <1>4
<1>8. /\ w.project \in Addresses \cup {Null} /\ w.symbol \in Symbols \cup {""}
      /\ w.type \in Types \cup {""}
  BY <1>4
<1>9. w.array \in BOOLEAN
  BY <1>4
<1> QED BY <1>2, <1>5, <1>6, <1>7, <1>8, <1>9

\* So does a watch, but for the question whether it is an array.
LEMMA WatchComesBack ==
  ASSUME NEW w \in Watch, NEW project, NEW junk
  PROVE  LoadWatch(WatchNode(w), project, junk)
           = [project |-> project, symbol |-> w.symbol, type |-> w.type, format |-> w.format,
              array |-> junk # 0, range |-> w.range]
<1> DEFINE node == WatchNode(w)
<1>1. /\ ReadText(node, "symbol") = Word(w.symbol) /\ ReadText(node, "type") = Word(w.type)
      /\ ReadText(node, "format") = FormatText(w.format)
      /\ ReadText(node, "is_array") = BoolText(w.array)
      /\ ReadText(node, "array_start") = Number(w.range[1])
      /\ ReadText(node, "array_end") = Number(w.range[2])
  BY DEF ReadText, WatchNode
<1> HIDE DEF node
<1>2. Word(w.symbol).word = w.symbol /\ Word(w.type).word = w.type
  BY DEF Word
<1>3. "number" \notin DOMAIN BoolText(w.array)
  BY DEF BoolText, Word
<1>4. \A n : "number" \in DOMAIN Number(n) /\ Number(n).number = n
  BY DEF Number
<1>5. /\ ReadLong(node, "is_array", junk) = junk
      /\ ReadLong(node, "array_start", junk) = w.range[1]
      /\ ReadLong(node, "array_end", junk) = w.range[2]
  BY <1>1, <1>3, <1>4 DEF ReadLong
<1>6. w.format \in 0 .. 8
  <2>1. w.format \in 0 .. 5
    BY WatchFields
  <2> QED BY <2>1
<1>7. TextFormat(ReadText(node, "format")) = w.format
  BY <1>1, <1>6, FormatComesBack
<1>8. LoadWatch(node, project, junk)
        = [project |-> project, symbol |-> w.symbol, type |-> w.type, format |-> w.format,
           array |-> junk # 0, range |-> w.range]
  BY <1>1, <1>2, <1>5, <1>7, WatchFields DEF LoadWatch
<1> QED BY <1>8 DEF node

-----------------------------------------------------------------------------
(* Loading a file                                                           *)

\* The watch that is made of what was written of w.
LoadedWatch(w, project, junk) ==
  [project |-> project, symbol |-> w.symbol, type |-> w.type, format |-> w.format,
   array |-> junk # 0, range |-> w.range]

\* It is a watch of that project.
LEMMA LoadedWatchType ==
  ASSUME NEW w \in Watch, NEW project \in Addresses, NEW junk
  PROVE  LoadedWatch(w, project, junk) \in Watch
<1> DEFINE F == {e.format : e \in Edits} \cup {0}
           R == {e.range : e \in Edits} \cup {<<-1, -1>>}
           b == junk # 0
<1>1. b \in BOOLEAN
  OBVIOUS
<1> HIDE DEF F, R, b
<1>2. Watch = [project : Addresses \cup {Null}, symbol : Symbols \cup {""}, type : Types \cup {""},
               format : F, array : BOOLEAN, range : R]
  BY DEF Watch, F, R
<1>3. w.symbol \in Symbols \cup {""} /\ w.type \in Types \cup {""} /\ w.format \in F /\ w.range \in R
  BY <1>2
<1>4. [project |-> project, symbol |-> w.symbol, type |-> w.type, format |-> w.format,
       array |-> b, range |-> w.range] \in Watch
  BY <1>1, <1>2, <1>3
<1> QED BY <1>4 DEF LoadedWatch, b

\* The turns of the loop: l[n] is the list after the first n elements of the file.
LoadsTo(l, list, ws, project, junk) ==
  /\ l[0] = list
  /\ \A n \in 1 .. Len(ws) :
       l[n] = IF ws[n].symbol = "" THEN l[n - 1]
              ELSE AddLoaded(l[n - 1], LoadedWatch(ws[n], project, junk[n]))

\* The file in which the watches of ws were written.
FileOf(bps, ws) == Document(bps, Nodes(ws, WatchNode))

\* It is one that can be read.
LEMMA FileOfFacts ==
  ASSUME NEW bps, NEW ws
  PROVE  /\ Readable(FileOf(bps, ws))
         /\ FileOf(bps, ws).breakpoints = bps
         /\ FileOf(bps, ws).watches = [i \in DOMAIN ws |-> WatchNode(ws[i])]
BY DEF FileOf, Document, Readable, Nodes

Loading(l, list, ws, bps, project, junk) ==
  /\ LoadsTo(l, list, ws, project, junk)
  /\ \A n \in 0 .. Len(ws) : l[n] \in Seq(Watch)
  /\ LoadWatches(list, FileOf(bps, ws), project, junk) = l[Len(ws)]

\* Such turns there are, and LoadWatches is the last of them.
LEMMA LoadUnfolds ==
  ASSUME NEW list \in Seq(Watch), NEW ws \in Seq(Watch), NEW bps,
         NEW project \in Addresses, NEW junk
  PROVE  \E l : Loading(l, list, ws, bps, project, junk)
<1> DEFINE N == Len(ws)
           W(n) == LoadedWatch(ws[n], project, junk[n])
           Turn(x, n) == IF ws[n].symbol = "" THEN x ELSE AddLoaded(x, W(n))
           Turns(g) == g = [n \in 0 .. N |-> IF n = 0 THEN list ELSE Turn(g[n - 1], n)]
           f == [n \in 1 .. N |-> [x \in Seq(Watch) |-> Turn(x, n)]]
<1>1. N \in Nat /\ DOMAIN ws = 1 .. N /\ \A n \in 1 .. N : ws[n] \in Watch
  OBVIOUS
<1>2. \A n \in 1 .. N : W(n) \in Watch
  BY <1>1, LoadedWatchType
<1> HIDE DEF W
<1>3. \A n \in 1 .. N, x \in Seq(Watch) : Turn(x, n) \in Seq(Watch)
  BY <1>2, AddLoadedFacts
<1> HIDE DEF Turn, N
<1>4. f \in [1 .. N -> [Seq(Watch) -> Seq(Watch)]]
  BY <1>3
<1>5. \A n \in 1 .. N, x \in Seq(Watch) : f[n][x] = Turn(x, n)
  OBVIOUS
<1> HIDE DEF f
<1>6. PICK g \in [0 .. N -> Seq(Watch)] : Loops(g, N, list, f)
  BY <1>1, <1>4, LoopExists
<1>7. Turns(g)
  <2>1. \A n \in 0 .. N : g[n] = IF n = 0 THEN list ELSE Turn(g[n - 1], n)
    <3> SUFFICES ASSUME NEW n \in 0 .. N, n # 0 PROVE g[n] = Turn(g[n - 1], n)
      BY <1>6 DEF Loops
    <3>1. n \in 1 .. N /\ g[n - 1] \in Seq(Watch)
      BY <1>1, <1>6
    <3>2. g[n] = f[n][g[n - 1]]
      BY <1>6 DEF Loops
    <3> QED BY <1>5, <3>1, <3>2
  <2> QED BY <1>6, <2>1
<1> DEFINE l == CHOOSE h : Turns(h)
<1>8. Turns(l)
  BY <1>7
<1>9. LoadWatches(list, FileOf(bps, ws), project, junk) = l[N]
  <2> DEFINE nodes == FileOf(bps, ws).watches
             Read(x, n) == LET w == LoadWatch(nodes[n], project, junk[n])
                           IN  IF w.symbol = "" THEN x ELSE AddLoaded(x, w)
             k == CHOOSE h : h = [n \in 0 .. Len(nodes) |-> IF n = 0 THEN list ELSE Read(h[n - 1], n)]
  <2>1. Len(nodes) = N /\ \A n \in 1 .. N : nodes[n] = WatchNode(ws[n])
    <3>1. nodes = [i \in DOMAIN ws |-> WatchNode(ws[i])]
      BY FileOfFacts
    <3> HIDE DEF nodes
    <3> QED BY <1>1, <3>1 DEF N
  <2>2. LoadWatches(list, FileOf(bps, ws), project, junk) = k[Len(nodes)]
    BY FileOfFacts DEF LoadWatches
  <2> HIDE DEF nodes
  <2>3. \A n \in 1 .. N : LoadWatch(nodes[n], project, junk[n]) = W(n)
    BY <1>1, <2>1, WatchComesBack DEF LoadedWatch, W
  <2>4. \A n \in 1 .. N : W(n).symbol = ws[n].symbol
    BY DEF W, LoadedWatch
  <2>5. \A n \in 1 .. N : \A x : Read(x, n) = Turn(x, n)
    BY <2>3, <2>4 DEF Turn
  <2> HIDE DEF Read
  <2>6. \A h : [n \in 0 .. N |-> IF n = 0 THEN list ELSE Read(h[n - 1], n)]
                 = [n \in 0 .. N |-> IF n = 0 THEN list ELSE Turn(h[n - 1], n)]
    BY <1>1, <2>5
  <2>7. k = l
    BY <2>1, <2>6
  <2> QED BY <2>1, <2>2, <2>7
<1> HIDE DEF l
<1>10. LoadsTo(l, list, ws, project, junk)
  <2>1. l[0] = list
    BY <1>1, <1>8
  <2>2. \A n \in 1 .. N : l[n] = Turn(l[n - 1], n)
    BY <1>1, <1>8
  <2> QED BY <2>1, <2>2 DEF LoadsTo, Turn, W, N
<1>11. \A n \in 0 .. N : l[n] \in Seq(Watch)
  <2> DEFINE T == {n \in 0 .. N : l[n] \in Seq(Watch)}
  <2>1. 0 \in T
    BY <1>1, <1>8
  <2>2. \A n \in 0 .. N - 1 : n \in T => n + 1 \in T
    <3> SUFFICES ASSUME NEW n \in 0 .. N - 1, l[n] \in Seq(Watch)
                 PROVE  n + 1 \in 0 .. N /\ l[n + 1] \in Seq(Watch)
      OBVIOUS
    <3>1. n + 1 \in 1 .. N /\ n + 1 \in 0 .. N /\ n + 1 # 0 /\ (n + 1) - 1 = n
      BY <1>1
    <3>2. l[n + 1] = Turn(l[n], n + 1)
      BY <1>8, <3>1
    <3> QED BY <1>3, <3>1, <3>2
  <2> HIDE DEF T
  <2>3. \A n \in 0 .. N : n \in T
    BY <1>1, <2>1, <2>2, Upwards
  <2> QED BY <2>3 DEF T
<1>12. Loading(l, list, ws, bps, project, junk)
  BY <1>9, <1>10, <1>11 DEF Loading, N
<1> QED BY <1>12

\* What AddWatch preserves, the loading of a file preserves.
LEMMA LoadKeeps ==
  ASSUME NEW list \in Seq(Watch), NEW ws \in Seq(Watch), NEW bps,
         NEW project \in Addresses, NEW junk, NEW T, list \in T,
         \A q \in Seq(Watch), w \in Watch : q \in T /\ w.project = project => AddLoaded(q, w) \in T
  PROVE  LoadWatches(list, FileOf(bps, ws), project, junk) \in T \cap Seq(Watch)
<1> PICK l : Loading(l, list, ws, bps, project, junk)
  BY LoadUnfolds
<1>1. /\ LoadsTo(l, list, ws, project, junk)
      /\ \A n \in 0 .. Len(ws) : l[n] \in Seq(Watch)
      /\ LoadWatches(list, FileOf(bps, ws), project, junk) = l[Len(ws)]
  BY DEF Loading
<1>2. Len(ws) \in Nat /\ \A n \in 1 .. Len(ws) : ws[n] \in Watch
  OBVIOUS
<1> DEFINE U == {n \in 0 .. Len(ws) : l[n] \in T}
<1>3. 0 \in U
  <2>1. l[0] = list
    BY <1>1 DEF LoadsTo
  <2>2. l[0] \in T
    BY <2>1
  <2> QED BY <1>2, <2>2
<1>4. \A n \in 0 .. Len(ws) - 1 : n \in U => n + 1 \in U
  <2> SUFFICES ASSUME NEW n \in 0 .. Len(ws) - 1, l[n] \in T
               PROVE  n + 1 \in 0 .. Len(ws) /\ l[n + 1] \in T
    OBVIOUS
  <2>1. n + 1 \in 1 .. Len(ws) /\ n + 1 \in 0 .. Len(ws) /\ (n + 1) - 1 = n /\ n \in 0 .. Len(ws)
    BY <1>2
  <2> DEFINE w == LoadedWatch(ws[n + 1], project, junk[n + 1])
  <2>2. w \in Watch /\ w.project = project
    <3>1. w \in Watch
      BY <1>2, <2>1, LoadedWatchType
    <3> QED BY <3>1 DEF LoadedWatch
  <2>3. l[n + 1] = IF ws[n + 1].symbol = "" THEN l[n] ELSE AddLoaded(l[n], w)
    BY <1>1, <2>1 DEF LoadsTo
  <2> HIDE DEF w
  <2>4. l[n] \in Seq(Watch)
    BY <1>1, <2>1
  <2> QED BY <2>1, <2>2, <2>3, <2>4
<1> HIDE DEF U
<1>5. \A n \in 0 .. Len(ws) : n \in U
  BY <1>2, <1>3, <1>4, Upwards
<1>6. Len(ws) \in U /\ Len(ws) \in 0 .. Len(ws)
  BY <1>2, <1>5
<1> QED BY <1>1, <1>6 DEF U

\* The last watch of a symbol and a type.
LastOfKind(ws, i) ==
  /\ ws[i].symbol # ""
  /\ \A j \in i + 1 .. Len(ws) : ws[j].symbol # ws[i].symbol \/ ws[j].type # ws[i].type

\* It is there when the file has been loaded.
LEMMA LoadRestores ==
  ASSUME NEW list \in Seq(Watch), NEW ws \in Seq(Watch), NEW bps,
         NEW project \in Addresses, NEW junk, NEW i \in 1 .. Len(ws), LastOfKind(ws, i)
  PROVE  Restored(ws[i], project, LoadWatches(list, FileOf(bps, ws), project, junk))
<1> PICK l : Loading(l, list, ws, bps, project, junk)
  BY LoadUnfolds
<1>1. /\ LoadsTo(l, list, ws, project, junk)
      /\ \A n \in 0 .. Len(ws) : l[n] \in Seq(Watch)
      /\ LoadWatches(list, FileOf(bps, ws), project, junk) = l[Len(ws)]
  BY DEF Loading
<1>2. /\ Len(ws) \in Nat /\ DOMAIN ws = 1 .. Len(ws)
      /\ \A n \in 1 .. Len(ws) : ws[n] \in Watch
  OBVIOUS
<1> DEFINE W(n) == LoadedWatch(ws[n], project, junk[n])
           T == {n \in 0 .. Len(ws) : n >= i => Has(l[n], W(i))}
<1>4. \A n \in 1 .. Len(ws) : W(n) \in Watch
  BY <1>2, LoadedWatchType
<1>5. \A n \in 1 .. Len(ws) : l[n] = IF ws[n].symbol = "" THEN l[n - 1] ELSE AddLoaded(l[n - 1], W(n))
  BY <1>1 DEF LoadsTo
<1>6. \A n \in 1 .. Len(ws) : W(n).symbol = ws[n].symbol /\ W(n).type = ws[n].type
  BY DEF LoadedWatch
<1> HIDE DEF W
<1>7. 0 \in T
  BY <1>2
<1>8. \A n \in 0 .. Len(ws) - 1 : n \in T => n + 1 \in T
  <2> SUFFICES ASSUME NEW n \in 0 .. Len(ws) - 1, n \in T, n + 1 >= i
               PROVE  n + 1 \in 0 .. Len(ws) /\ Has(l[n + 1], W(i))
    OBVIOUS
  <2>1. n + 1 \in 1 .. Len(ws) /\ n + 1 \in 0 .. Len(ws) /\ (n + 1) - 1 = n /\ n \in 0 .. Len(ws)
    BY <1>2
  <2>2. l[n] \in Seq(Watch) /\ W(n + 1) \in Watch /\ W(i) \in Watch
    BY <1>1, <1>4, <2>1
  <2>3. l[n + 1] = IF ws[n + 1].symbol = "" THEN l[n] ELSE AddLoaded(l[n], W(n + 1))
    BY <1>5, <2>1
  <2>4. CASE n + 1 = i
    <3>1. l[n + 1] = AddLoaded(l[n], W(i))
      BY <2>3, <2>4 DEF LastOfKind
    <3>2. Has(AddLoaded(l[n], W(i)), W(i))
      BY <2>2, AddLoadedKeeps
    <3> QED BY <2>1, <3>1, <3>2
  <2>5. CASE n + 1 # i
    <3>1. n >= i /\ n + 1 \in i + 1 .. Len(ws)
      BY <1>2, <2>1, <2>5
    <3>2. Has(l[n], W(i))
      BY <3>1
    <3>3. ~Alike(W(i), W(n + 1))
      BY <1>6, <2>1, <3>1 DEF Alike, LastOfKind
    <3>4. Has(AddLoaded(l[n], W(n + 1)), W(i))
      BY <2>2, <3>2, <3>3, AddLoadedKeeps
    <3> QED BY <2>1, <2>3, <3>2, <3>4
  <2> QED BY <2>4, <2>5
<1> HIDE DEF T
<1>9. \A n \in 0 .. Len(ws) : n \in T
  BY <1>2, <1>7, <1>8, Upwards
<1>10. Len(ws) \in T /\ Len(ws) >= i
  BY <1>2, <1>9
<1>11. Has(l[Len(ws)], W(i))
  BY <1>10 DEF T
<1>12. W(i) \in ToSet(l[Len(ws)])
  <2>1. l[Len(ws)] \in Seq(Watch)
    BY <1>1, <1>2
  <2> QED BY <1>11, <2>1 DEF ToSet, Has
<1>13. /\ W(i).project = project /\ W(i).symbol = ws[i].symbol /\ W(i).type = ws[i].type
       /\ W(i).format = ws[i].format /\ W(i).range = ws[i].range
  BY DEF W, LoadedWatch
<1> QED BY <1>1, <1>12, <1>13 DEF Restored

-----------------------------------------------------------------------------
(* How many are alike                                                       *)

Same(list, w) == {i \in DOMAIN list : Alike(list[i], w)}

\* Twins counts them.
LEMMA TwinsFacts ==
  ASSUME NEW S, NEW list \in Seq(S), NEW w
  PROVE  /\ IsFiniteSet(Same(list, w))
         /\ Twins(list, w) = Cardinality(Same(list, w)) /\ Twins(list, w) \in Nat
<1>1. Twins(list, w) = Cardinality(Same(list, w))
  BY DEF Twins, Same, Alike
<1>2. IsFiniteSet(1 .. Len(list))
  <2>1. Len(list) \in Int /\ 1 \in Int
    OBVIOUS
  <2> QED BY <2>1, FS_Interval
<1>3. Same(list, w) \in SUBSET (1 .. Len(list))
  BY DEF Same
<1>4. IsFiniteSet(Same(list, w))
  BY <1>2, <1>3, FS_Subset
<1> QED BY <1>1, <1>4, FS_CardinalityType

\* If those of q can be mapped into those of p, there are not more of them.
LEMMA TwinsMap ==
  ASSUME NEW S, NEW p \in Seq(S), NEW q \in Seq(S), NEW w, NEW m,
         m \in [Same(q, w) -> Same(p, w)],
         \A i, j \in Same(q, w) : m[i] = m[j] => i = j
  PROVE  Twins(q, w) <= Twins(p, w)
<1>1. m \in Injection(Same(q, w), Same(p, w))
  BY DEF Injection, IsInjective
<1>2. IsFiniteSet(Same(p, w))
  BY TwinsFacts
<1>3. Cardinality(Same(q, w)) <= Cardinality(Same(p, w))
  BY <1>1, <1>2, FS_Injection
<1> QED BY <1>3, TwinsFacts

\* AddWatch makes at most a first one of its kind.
LEMMA AddLoadedTwins ==
  ASSUME NEW S, NEW list \in Seq(S), NEW v \in S, NEW w
  PROVE  Twins(AddLoaded(list, v), w) <= 1 \/ Twins(AddLoaded(list, v), w) <= Twins(list, w)
<1> DEFINE q == AddLoaded(list, v)
<1>1. /\ q \in Seq(S)
      /\ \/ (\A i \in 1 .. Len(list) : ~Alike(list[i], v)) /\ q = Append(list, v)
         \/ \E j \in 1 .. Len(list) : Alike(list[j], v) /\ Replaced(q, list, j, v)
  BY AddLoadedFacts
<1>2. Len(list) \in Nat /\ DOMAIN list = 1 .. Len(list) /\ DOMAIN q = 1 .. Len(q)
  BY <1>1
<1> HIDE DEF q
<1>3. CASE (\A i \in 1 .. Len(list) : ~Alike(list[i], v)) /\ q = Append(list, v)
  <2>1. /\ Len(q) = Len(list) + 1 /\ q[Len(list) + 1] = v
        /\ \A i \in 1 .. Len(list) : q[i] = list[i]
    BY <1>3
  <2>2. CASE Alike(v, w)
    <3>1. Same(q, w) \subseteq {Len(list) + 1}
      <4> SUFFICES ASSUME NEW i \in Same(q, w), i # Len(list) + 1 PROVE FALSE
        OBVIOUS
      <4>1. i \in 1 .. Len(list) /\ Alike(list[i], w)
        BY <1>2, <2>1 DEF Same
      <4> QED BY <1>3, <2>2, <4>1 DEF Alike
    <3>2. Cardinality(Same(q, w)) <= 1
      <4> DEFINE one == {Len(list) + 1}
      <4>1. IsFiniteSet(one) /\ Cardinality(one) = 1
        BY FS_Singleton
      <4>2. Same(q, w) \in SUBSET one
        BY <3>1
      <4> HIDE DEF one
      <4>3. Cardinality(Same(q, w)) <= Cardinality(one)
        BY <4>1, <4>2, FS_Subset
      <4> QED BY <4>1, <4>3
    <3> QED BY <1>1, <3>2, TwinsFacts DEF q
  <2>3. CASE ~Alike(v, w)
    <3> DEFINE m == [i \in Same(q, w) |-> i]
    <3>1. \A i \in Same(q, w) : i \in Same(list, w)
      BY <1>2, <2>1, <2>3 DEF Same
    <3>2. m \in [Same(q, w) -> Same(list, w)]
      BY <3>1
    <3>3. \A i, j \in Same(q, w) : m[i] = m[j] => i = j
      OBVIOUS
    <3> HIDE DEF m
    <3> QED BY <1>1, <3>2, <3>3, TwinsMap DEF q
  <2> QED BY <2>2, <2>3
<1>4. ASSUME NEW j \in 1 .. Len(list), Alike(list[j], v), Replaced(q, list, j, v)
      PROVE  Twins(q, w) <= Twins(list, w)
  <2> DEFINE M(i) == IF i < j THEN i ELSE IF i < Len(list) THEN i + 1 ELSE j
             m == [i \in Same(q, w) |-> M(i)]
  <2>1. /\ Len(q) = Len(list)
        /\ \A i \in 1 .. Len(list) :
             q[i] = IF i < j THEN list[i] ELSE IF i < Len(list) THEN list[i + 1] ELSE v
    BY <1>4 DEF Replaced
  <2>2. \A i \in Same(q, w) : i \in 1 .. Len(list) /\ Alike(q[i], w)
    BY <1>2, <2>1 DEF Same
  <2>3. ASSUME NEW i \in Same(q, w) PROVE M(i) \in Same(list, w)
    <3>1. CASE i < j
      <4>1. M(i) = i /\ q[i] = list[i] /\ i \in 1 .. Len(list)
        BY <2>1, <2>2, <3>1
      <4> QED BY <1>2, <2>2, <4>1 DEF Same
    <3>2. CASE ~(i < j) /\ i < Len(list)
      <4>1. M(i) = i + 1 /\ q[i] = list[i + 1] /\ i + 1 \in 1 .. Len(list)
        BY <1>2, <2>1, <2>2, <3>2
      <4> QED BY <1>2, <2>2, <4>1 DEF Same
    <3>3. CASE ~(i < j) /\ ~(i < Len(list))
      <4>1. M(i) = j /\ q[i] = v /\ j \in 1 .. Len(list)
        BY <1>2, <2>1, <2>2, <3>3
      <4>2. Alike(list[j], w)
        BY <1>4, <2>2, <4>1 DEF Alike
      <4> QED BY <1>2, <4>1, <4>2 DEF Same
    <3> QED BY <3>1, <3>2, <3>3
  <2>4. \A i, k \in Same(q, w) : M(i) = M(k) => i = k
    BY <1>2, <2>2
  <2> HIDE DEF M
  <2>5. m \in [Same(q, w) -> Same(list, w)] /\ \A i, k \in Same(q, w) : m[i] = m[k] => i = k
    BY <2>3, <2>4
  <2> HIDE DEF m
  <2> QED BY <1>1, <2>5, TwinsMap DEF q
<1> QED BY <1>1, <1>3, <1>4 DEF q

\* Nor does the loading of a file.
LEMMA LoadTwins ==
  ASSUME NEW list \in Seq(Watch), NEW ws \in Seq(Watch), NEW bps,
         NEW project \in Addresses, NEW junk, NEW w
  PROVE  LET q == LoadWatches(list, FileOf(bps, ws), project, junk)
         IN  Twins(q, w) <= 1 \/ Twins(q, w) <= Twins(list, w)
<1> DEFINE T == {q \in Seq(Watch) : Twins(q, w) <= 1 \/ Twins(q, w) <= Twins(list, w)}
<1>1. list \in T
  BY TwinsFacts
<1>2. \A q \in Seq(Watch), v \in Watch : q \in T /\ v.project = project => AddLoaded(q, v) \in T
  <2> SUFFICES ASSUME NEW q \in Seq(Watch), NEW v \in Watch, q \in T
               PROVE  AddLoaded(q, v) \in T
    OBVIOUS
  <2>1. AddLoaded(q, v) \in Seq(Watch)
    BY AddLoadedFacts
  <2>2. Twins(AddLoaded(q, v), w) <= 1 \/ Twins(AddLoaded(q, v), w) <= Twins(q, w)
    BY AddLoadedTwins
  <2>3. Twins(AddLoaded(q, v), w) \in Nat /\ Twins(q, w) \in Nat /\ Twins(list, w) \in Nat
    BY <2>1, TwinsFacts
  <2> QED BY <2>1, <2>2, <2>3
<1> HIDE DEF T
<1>3. LoadWatches(list, FileOf(bps, ws), project, junk) \in T \cap Seq(Watch)
  BY <1>1, <1>2, LoadKeeps
<1> QED BY <1>3 DEF T

-----------------------------------------------------------------------------
(* What a load does                                                         *)

\* The projects of the watches are those of the list and the one that is loaded.
LEMMA LoadProjects ==
  ASSUME NEW list \in Seq(Watch), NEW ws \in Seq(Watch), NEW bps,
         NEW project \in Addresses, NEW junk, NEW X, project \in X,
         \A i \in 1 .. Len(list) : list[i].project \in X
  PROVE  LET q == LoadWatches(list, FileOf(bps, ws), project, junk)
         IN  \A i \in 1 .. Len(q) : q[i].project \in X
<1> DEFINE T == {q \in Seq(Watch) : \A i \in 1 .. Len(q) : q[i].project \in X}
<1>1. list \in T
  OBVIOUS
<1>2. \A q \in Seq(Watch), w \in Watch : q \in T /\ w.project = project => AddLoaded(q, w) \in T
  <2> SUFFICES ASSUME NEW q \in Seq(Watch), NEW w \in Watch, q \in T, w.project = project
               PROVE  AddLoaded(q, w) \in T
    OBVIOUS
  <2> DEFINE r == AddLoaded(q, w)
  <2>1. r \in Seq(Watch)
    BY AddLoadedFacts
  <2>2. \A k \in 1 .. Len(r) : r[k] = w \/ \E i \in 1 .. Len(q) : r[k] = q[i]
    BY AddLoadedElements
  <2> HIDE DEF r
  <2>3. \A k \in 1 .. Len(r) : r[k].project \in X
    BY <2>2
  <2>4. r \in T
    BY <2>1, <2>3
  <2> QED BY <2>4 DEF r
<1> HIDE DEF T
<1>3. LoadWatches(list, FileOf(bps, ws), project, junk) \in T \cap Seq(Watch)
  BY <1>1, <1>2, LoadKeeps
<1> QED BY <1>3 DEF T

\* The file f of a project whose watches were ws when it was last written: died says that
\* the program died at that.
FileIs(f, ws, died) ==
  \/ f = Missing /\ ws = <<>>
  \/ f = FileOf(<<>>, ws)
  \/ died /\ f = Broken
  \/ died /\ \E bps : f = FileOf(bps, <<>>)

\* What cannot be read.
LEMMA NotReadable == ~Readable(Missing) /\ ~Readable(Broken)
BY DEF Readable, Missing, Broken

\* Nothing is loaded from a file without watches.
LEMMA LoadNone ==
  ASSUME NEW list \in Seq(Watch), NEW bps, NEW project \in Addresses, NEW junk
  PROVE  LoadWatches(list, FileOf(bps, <<>>), project, junk) = list
<1>1. <<>> \in Seq(Watch) /\ Len(<<>>) = 0
  OBVIOUS
<1>2. \A ws \in Seq(Watch) :
        Len(ws) = 0 => LoadWatches(list, FileOf(bps, ws), project, junk) = list
  <2> SUFFICES ASSUME NEW ws \in Seq(Watch), Len(ws) = 0
               PROVE  LoadWatches(list, FileOf(bps, ws), project, junk) = list
    OBVIOUS
  <2> PICK l : Loading(l, list, ws, bps, project, junk)
    BY LoadUnfolds
  <2>1. l[0] = list /\ LoadWatches(list, FileOf(bps, ws), project, junk) = l[Len(ws)]
    BY DEF Loading, LoadsTo
  <2> QED BY <2>1
<1> QED BY <1>1, <1>2, Zenon

\* A load leaves the watches, if there is nothing in the file or the program died at the
\* closing, or loads what was written.
LEMMA LoadCases ==
  ASSUME watches \in Seq(Watch), NEW ws \in Seq(Watch), NEW f, NEW died, FileIs(f, ws, died),
         NEW project \in Addresses, Load(f, project)
  PROVE  \/ watches' = watches /\ (ws = <<>> \/ died)
         \/ \E junk : watches' = LoadWatches(watches, FileOf(<<>>, ws), project, junk)
<1>1. PICK junk : watches' = LoadWatches(watches, f, project, junk)
  BY DEF Load
<1>2. CASE f = Missing /\ ws = <<>>
  <2>1. LoadWatches(watches, f, project, junk) = watches
    BY <1>2, NotReadable DEF LoadWatches
  <2> QED BY <1>1, <1>2, <2>1
<1>3. CASE f = FileOf(<<>>, ws)
  BY <1>1, <1>3
<1>4. CASE died /\ f = Broken
  <2>1. LoadWatches(watches, f, project, junk) = watches
    BY <1>4, NotReadable DEF LoadWatches
  <2> QED BY <1>1, <1>4, <2>1
<1>5. CASE died /\ \E bps : f = FileOf(bps, <<>>)
  <2>1. PICK bps : f = FileOf(bps, <<>>)
    BY <1>5
  <2>2. watches' = watches
    <3>1. LoadWatches(watches, FileOf(bps, <<>>), project, junk) = watches
      BY LoadNone
    <3> QED BY <1>1, <2>1, <3>1
  <2> QED BY <1>5, <2>2
<1> QED BY <1>2, <1>3, <1>4, <1>5 DEF FileIs

\* In either case they are watches, those of the project loaded and those there were.
LEMMA LoadTypes ==
  ASSUME watches \in Seq(Watch), NEW ws \in Seq(Watch), NEW f, NEW died, FileIs(f, ws, died),
         NEW project \in Addresses, Load(f, project), NEW X, project \in X,
         \A i \in 1 .. Len(watches) : watches[i].project \in X
  PROVE  watches' \in Seq(Watch) /\ \A i \in 1 .. Len(watches') : watches'[i].project \in X
<1>1. CASE watches' = watches
  BY <1>1
<1>2. ASSUME NEW junk, watches' = LoadWatches(watches, FileOf(<<>>, ws), project, junk)
      PROVE  watches' \in Seq(Watch) /\ \A i \in 1 .. Len(watches') : watches'[i].project \in X
  <2> DEFINE T == Seq(Watch)
  <2>1. \A q \in Seq(Watch), w \in Watch : q \in T /\ w.project = project => AddLoaded(q, w) \in T
    BY AddLoadedFacts
  <2>2. watches \in T
    OBVIOUS
  <2> HIDE DEF T
  <2>3. LoadWatches(watches, FileOf(<<>>, ws), project, junk) \in T \cap Seq(Watch)
    BY <2>1, <2>2, LoadKeeps
  <2>4. LET q == LoadWatches(watches, FileOf(<<>>, ws), project, junk)
        IN  \A i \in 1 .. Len(q) : q[i].project \in X
    BY LoadProjects
  <2> QED BY <1>2, <2>3, <2>4
<1> QED BY <1>1, <1>2, LoadCases

-----------------------------------------------------------------------------
(* The invariant                                                            *)

\* What the objects of projects and the lists are.
MemoryInv ==
  /\ at \in [Projects -> Addresses \cup {Null}]
  /\ \A p, q \in Projects : at[p] = at[q] /\ p # q => at[p] = Null
  /\ current \in Addresses \cup {Null}
  /\ running \in BOOLEAN /\ persist \in BOOLEAN
  /\ watches \in Seq(Watch) /\ breakpoints \in Seq(Breakpoint)
  /\ acts \in 0 .. MaxActs
  /\ strays \subseteq Addresses

\* The addresses that a watch can have.
Known == Open \cup {Null} \cup strays

\* Those of the watches, and the one that the next watch gets.
OwnersInv ==
  /\ current \in Known
  /\ \A i \in 1 .. Len(watches) : watches[i].project \in Known

\* The files are what the history says.
FilesInv ==
  /\ saved \in [Projects -> Seq(Watch)]
  /\ DOMAIN file = Projects
  /\ interrupted \subseteq Projects
  /\ \A p \in Projects : FileIs(file[p], saved[p], p \in interrupted)

IInv == MemoryInv /\ OwnersInv /\ FilesInv

\* It holds at the start.
LEMMA InvInit == ASSUME Init PROVE IInv
<1>1. MemoryInv
  <2>1. watches \in Seq(Watch) /\ breakpoints \in Seq(Breakpoint)
    BY DEF Init
  <2>2. acts \in 0 .. MaxActs
    <3>1. MaxActs \in Nat
      BY PersistAssumption
    <3>2. acts = 0
      BY DEF Init
    <3> QED BY <3>1, <3>2
  <2>3. at \in [Projects -> Addresses \cup {Null}] /\ \A p \in Projects : at[p] = Null
    BY DEF Init
  <2>4. current = Null /\ strays = {}
    BY DEF Init
  <2>5. running \in BOOLEAN /\ persist \in BOOLEAN
    BY DEF Init
  <2> QED BY <2>1, <2>2, <2>3, <2>4, <2>5 DEF MemoryInv
<1>2. OwnersInv
  BY DEF Init, OwnersInv, Known
<1>3. FilesInv
  <2>1. <<>> \in Seq(Watch)
    OBVIOUS
  <2> QED BY <2>1 DEF Init, FilesInv, FileIs
<1> QED BY <1>1, <1>2, <1>3 DEF IInv

-----------------------------------------------------------------------------
(* Changes of a watch and of a breakpoint                                   *)

\* A watch with another type is a watch.
LEMMA RetypedWatch ==
  ASSUME NEW w \in Watch, NEW type \in Types
  PROVE  [w EXCEPT !.type = type] \in Watch /\ [w EXCEPT !.type = type].project = w.project
<1> DEFINE F == {e.format : e \in Edits} \cup {0}
           R == {e.range : e \in Edits} \cup {<<-1, -1>>}
           S == [project : Addresses \cup {Null}, symbol : Symbols \cup {""},
                 type : Types \cup {""}, format : F, array : BOOLEAN, range : R]
<1> HIDE DEF F, R
<1>1. Watch = S
  BY DEF Watch, F, R
<1>2. w \in S
  BY <1>1
<1> DEFINE v == [w EXCEPT !.type = type]
<1>3. v \in S /\ v.project = w.project
  BY <1>2
<1> QED BY <1>1, <1>3

\* So is one that was edited.
LEMMA EditedWatch ==
  ASSUME NEW w \in Watch, NEW e \in Edits
  PROVE  Edited(w, e) \in Watch /\ Edited(w, e).project = w.project
<1> DEFINE F == {d.format : d \in Edits} \cup {0}
           R == {d.range : d \in Edits} \cup {<<-1, -1>>}
<1>1. e.format \in F /\ e.range \in R
  OBVIOUS
<1>2. e.symbol \in Symbols \cup {""} /\ e.array \in BOOLEAN
  BY PersistAssumption
<1> HIDE DEF F, R
<1>3. Watch = [project : Addresses \cup {Null}, symbol : Symbols \cup {""},
               type : Types \cup {""}, format : F, array : BOOLEAN, range : R]
  BY DEF Watch, F, R
<1>4. w.project \in Addresses \cup {Null} /\ w.type \in Types \cup {""}
  BY <1>3
<1>5. [project |-> w.project, symbol |-> e.symbol, type |-> w.type,
       format |-> e.format, array |-> e.array, range |-> e.range] \in Watch
  BY <1>1, <1>2, <1>3, <1>4
<1> QED BY <1>5 DEF Edited

\* And one that was added.
LEMMA NewWatch ==
  ASSUME NEW project \in Addresses \cup {Null}, NEW symbol \in Symbols, NEW type \in Types \cup {""}
  PROVE  [project |-> project, symbol |-> symbol, type |-> type,
          format |-> 0, array |-> FALSE, range |-> <<-1, -1>>] \in Watch
<1> DEFINE F == {d.format : d \in Edits} \cup {0}
           R == {d.range : d \in Edits} \cup {<<-1, -1>>}
           range == <<-1, -1>>
<1>1. 0 \in F /\ range \in R
  OBVIOUS
<1> HIDE DEF F, R, range
<1>2. Watch = [project : Addresses \cup {Null}, symbol : Symbols \cup {""},
               type : Types \cup {""}, format : F, array : BOOLEAN, range : R]
  BY DEF Watch, F, R
<1>3. [project |-> project, symbol |-> symbol, type |-> type,
       format |-> 0, array |-> FALSE, range |-> range] \in Watch
  BY <1>1, <1>2
<1> QED BY <1>3 DEF range

\* A breakpoint that was enabled or disabled is a breakpoint.
LEMMA EnabledBreakpoint ==
  ASSUME NEW b \in Breakpoint, NEW enabled \in BOOLEAN
  PROVE  [b EXCEPT !.enabled = enabled] \in Breakpoint
BY DEF Breakpoint

\* The breakpoints after a file was read are breakpoints.
LEMMA LoadBreakpointsType ==
  ASSUME breakpoints \in Seq(Breakpoint), NEW f, NEW project
  PROVE  LoadBreakpoints(breakpoints, f, project) \in Seq(Breakpoint)
<1>1. \A i \in 1 .. Len(breakpoints) :
        breakpoints[i] \in Breakpoint /\ [breakpoints[i] EXCEPT !.enabled = TRUE] \in Breakpoint
  <2>1. \A i \in 1 .. Len(breakpoints) : breakpoints[i] \in Breakpoint
    OBVIOUS
  <2> QED BY <2>1, EnabledBreakpoint
<1>2. DOMAIN breakpoints = 1 .. Len(breakpoints) /\ Len(breakpoints) \in Nat
  OBVIOUS
<1> DEFINE q == [i \in DOMAIN breakpoints |->
                   IF breakpoints[i].project = project /\ breakpoints[i].line = -1
                   THEN [breakpoints[i] EXCEPT !.enabled = TRUE] ELSE breakpoints[i]]
<1>3. q \in [1 .. Len(breakpoints) -> Breakpoint]
  BY <1>1, <1>2
<1> HIDE DEF q
<1>4. q \in Seq(Breakpoint)
  BY <1>2, <1>3
<1> QED BY <1>4 DEF LoadBreakpoints, q

-----------------------------------------------------------------------------
(* The steps of projects and sessions                                       *)

\* What leaves the files alone.
LEMMA FilesStay ==
  ASSUME FilesInv, UNCHANGED <<file, saved, interrupted>>
  PROVE  FilesInv'
BY DEF FilesInv

\* A project is activated.
LEMMA ActivateInv ==
  ASSUME IInv, NEW p \in Projects, NEW a \in Addresses, Activate(p, a)
  PROVE  IInv'
<1>1. /\ IF at[p] # Null THEN a = at[p] ELSE a \notin Open
      /\ at' = [at EXCEPT ![p] = a]
      /\ UNCHANGED <<current, running, persist, file, acts, saved, interrupted, strays>>
  BY DEF Activate
<1>2. a # Null
  BY PersistAssumption
<1>3. at' \in [Projects -> Addresses \cup {Null}] /\ at'[p] = a
      /\ \A q \in Projects : q # p => at'[q] = at[q]
  BY <1>1 DEF IInv, MemoryInv
<1>4. \A q, r \in Projects : at'[q] = at'[r] /\ q # r => at'[q] = Null
  <2> SUFFICES ASSUME NEW q \in Projects, NEW r \in Projects, at'[q] = at'[r], q # r
               PROVE  at'[q] = Null
    OBVIOUS
  <2>1. \A s \in Projects : s # p => at[s] # a
    <3> SUFFICES ASSUME NEW s \in Projects, s # p, at[s] = a PROVE FALSE
      OBVIOUS
    <3>1. a \in Open
      BY <1>2 DEF Open
    <3> QED BY <1>1, <1>2, <3>1 DEF IInv, MemoryInv
  <2> QED BY <1>3, <2>1 DEF IInv, MemoryInv
<1>5. Known \subseteq Known' /\ a \in Known'
  <2>1. \A q \in Projects : at[q] # Null => at'[q] = at[q]
    BY <1>1, <1>3
  <2> QED BY <1>1, <1>2, <1>3, <2>1 DEF Known, Open
<1>6. watches' \in Seq(Watch) /\ \A i \in 1 .. Len(watches') : watches'[i].project \in Known'
  <2>1. watches \in Seq(Watch) /\ \A i \in 1 .. Len(watches) : watches[i].project \in Known'
    BY <1>5 DEF IInv, MemoryInv, OwnersInv
  <2>2. CASE persist
    <3>1. Load(file[p], a)
      BY <2>2 DEF Activate
    <3>2. saved[p] \in Seq(Watch) /\ FileIs(file[p], saved[p], p \in interrupted)
      BY DEF IInv, FilesInv
    <3> QED BY <1>5, <2>1, <3>1, <3>2, LoadTypes
  <2>3. CASE ~persist
    BY <2>1, <2>3 DEF Activate
  <2> QED BY <2>2, <2>3
<1>7. breakpoints' \in Seq(Breakpoint)
  BY LoadBreakpointsType DEF Activate, IInv, MemoryInv
<1>8. MemoryInv'
  BY <1>1, <1>3, <1>4, <1>6, <1>7 DEF IInv, MemoryInv
<1>9. OwnersInv'
  BY <1>1, <1>5, <1>6 DEF IInv, OwnersInv
<1>10. FilesInv'
  BY <1>1, FilesStay DEF IInv
<1> QED BY <1>8, <1>9, <1>10 DEF IInv

\* The lists that are taken out of the watches.
LEMMA PickedWatches ==
  ASSUME watches \in Seq(Watch), NEW project
  PROVE  /\ Own(watches, project) \in Seq(Watch)
         /\ Others(project) \in Seq(Watch)
         /\ \A k \in 1 .. Len(Others(project)) :
              /\ Others(project)[k].project # project
              /\ \E i \in 1 .. Len(watches) : Others(project)[k] = watches[i]
<1> DEFINE I == {i \in DOMAIN watches : watches[i].project # project}
           q == Picked(watches, I)
<1>1. Own(watches, project) \in Seq(Watch)
  BY PickedFacts DEF Own
<1>2. q \in Seq(Watch) /\ \E m : TakenFrom(q, watches, I \cap DOMAIN watches, m)
  BY PickedFacts
<1>3. DOMAIN watches = 1 .. Len(watches)
  OBVIOUS
<1>4. I \cap DOMAIN watches = I
  OBVIOUS
<1>5. \A i \in I : i \in 1 .. Len(watches) /\ watches[i].project # project
  BY <1>3
<1> HIDE DEF I, q
<1>6. PICK m : TakenFrom(q, watches, I, m)
  BY <1>2, <1>4
<1>7. \A k \in 1 .. Len(q) : m[k] \in I /\ q[k] = watches[m[k]]
  BY <1>6 DEF TakenFrom
<1>8. \A k \in 1 .. Len(q) :
        q[k].project # project /\ \E i \in 1 .. Len(watches) : q[k] = watches[i]
  BY <1>5, <1>7
<1>9. q = Others(project)
  BY DEF Others, q, I
<1> QED BY <1>1, <1>2, <1>8, <1>9

\* What is written.
LEMMA WritesFacts ==
  ASSUME NEW p \in Projects
  PROVE  /\ \E bps : BreakpointsDocument(p) = FileOf(bps, <<>>)
         /\ WatchesDocument(p) = FileOf(<<>>, Own(watches, at[p]))
         /\ CompilerDocument = FileOf(<<>>, <<>>)
<1>1. Nodes(<<>>, WatchNode) = <<>>
  BY DEF Nodes
<1>2. \A bps : FileOf(bps, <<>>) = Document(bps, <<>>)
  BY <1>1 DEF FileOf
<1>3. BreakpointsDocument(p) = FileOf(Nodes(Own(breakpoints, at[p]), BreakpointNode), <<>>)
  BY <1>2 DEF BreakpointsDocument
<1>4. WatchesDocument(p) = FileOf(<<>>, Own(watches, at[p]))
  BY DEF WatchesDocument, FileOf
<1>5. CompilerDocument = FileOf(<<>>, <<>>)
  BY <1>2 DEF CompilerDocument
<1> QED BY <1>3, <1>4, <1>5

\* And in which order.
LEMMA ClosingFacts ==
  ASSUME NEW p \in Projects
  PROVE  /\ Last(ClosingWrites(p)) = WatchesDocument(p)
         /\ \A f \in ToSet(ClosingWrites(p)) :
              f \in {BreakpointsDocument(p), WatchesDocument(p), CompilerDocument}
<1> DEFINE b == BreakpointsDocument(p)
           w == WatchesDocument(p)
           c == CompilerDocument
           s == <<b, w, c>> \o <<b, w>>
<1>1. ClosingWrites(p) = s
  BY DEF ClosingWrites, SaveState
<1> HIDE DEF b, w, c
<1>2. s \in Seq({b, w, c}) /\ Len(s) = 5 /\ s[5] = w
  OBVIOUS
<1> HIDE DEF s
<1>3. Last(s) = w
  BY <1>2 DEF Last
<1>4. \A f \in ToSet(s) : f \in {b, w, c}
  <2> DEFINE T == {b, w, c}
  <2>1. s \in Seq(T)
    BY <1>2
  <2> HIDE DEF T
  <2>2. \A i \in DOMAIN s : s[i] \in T
    BY <2>1
  <2> QED BY <2>2 DEF ToSet, T
<1> QED BY <1>1, <1>3, <1>4 DEF b, w, c

\* A project is closed.
LEMMA CloseInv ==
  ASSUME IInv, NEW p \in Projects, CloseProject(p)
  PROVE  IInv'
<1>1. /\ at[p] # Null /\ at' = [at EXCEPT ![p] = Null]
      /\ breakpoints' = <<>> /\ watches' = Others(at[p])
      /\ strays' = IF current = at[p] THEN strays \cup {current} ELSE strays \ {at[p]}
      /\ UNCHANGED <<current, running, persist, acts>>
  BY DEF CloseProject
<1>2. /\ at' \in [Projects -> Addresses \cup {Null}] /\ at'[p] = Null
      /\ \A q \in Projects : q # p => at'[q] = at[q] /\ at'[q] # at[p]
      /\ at[p] \in Addresses
  <2>1. \A q \in Projects : q # p => at[q] # at[p]
    BY <1>1 DEF IInv, MemoryInv
  <2> QED BY <1>1, <2>1 DEF IInv, MemoryInv
<1>3. /\ watches' \in Seq(Watch)
      /\ \A k \in 1 .. Len(watches') :
           /\ watches'[k].project # at[p]
           /\ \E i \in 1 .. Len(watches) : watches'[k] = watches[i]
  <2>1. watches \in Seq(Watch)
    BY DEF IInv, MemoryInv
  <2> QED BY <1>1, <2>1, PickedWatches
<1>4. \A a \in Known : a # at[p] => a \in Known'
  BY <1>1, <1>2 DEF Known, Open
<1>5. current' \in Known'
  <2>1. CASE current = at[p]
    BY <1>1, <2>1 DEF Known
  <2>2. CASE current # at[p]
    BY <1>1, <1>4, <2>2 DEF IInv, OwnersInv
  <2> QED BY <2>1, <2>2
<1>6. \A k \in 1 .. Len(watches') : watches'[k].project \in Known'
  BY <1>3, <1>4 DEF IInv, OwnersInv
<1>7. OwnersInv'
  BY <1>5, <1>6 DEF OwnersInv
<1>8. MemoryInv'
  <2>1. strays' \subseteq Addresses
    BY <1>1, <1>2 DEF IInv, MemoryInv
  <2>2. \A q, r \in Projects : at'[q] = at'[r] /\ q # r => at'[q] = Null
    BY <1>2 DEF IInv, MemoryInv
  <2>3. breakpoints' \in Seq(Breakpoint)
    BY <1>1
  <2> QED BY <1>1, <1>2, <1>3, <2>1, <2>2, <2>3 DEF IInv, MemoryInv
<1>9. FilesInv'
  <2>1. CASE ~persist
    BY <2>1, FilesStay DEF CloseProject, IInv
  <2>2. CASE persist
    <3> DEFINE own == Own(watches, at[p])
    <3>1. own \in Seq(Watch)
      BY PickedWatches DEF IInv, MemoryInv
    <3>2. /\ file' = [file EXCEPT ![p] = FileOf(<<>>, own)]
          /\ saved' = [saved EXCEPT ![p] = own]
          /\ interrupted' = interrupted \ {p}
      BY <2>2, WritesFacts, ClosingFacts DEF CloseProject
    <3> HIDE DEF own
    <3>3. saved' \in [Projects -> Seq(Watch)] /\ DOMAIN file' = Projects /\ interrupted' \subseteq Projects
      BY <3>1, <3>2 DEF IInv, FilesInv
    <3>4. ASSUME NEW q \in Projects PROVE FileIs(file'[q], saved'[q], q \in interrupted')
      <4>1. CASE q = p
        <5>1. file'[p] = FileOf(<<>>, own) /\ saved'[p] = own
          BY <3>2 DEF IInv, FilesInv
        <5> QED BY <4>1, <5>1 DEF FileIs
      <4>2. CASE q # p
        <5>1. file'[q] = file[q] /\ saved'[q] = saved[q] /\ (q \in interrupted' <=> q \in interrupted)
          BY <3>2, <4>2 DEF IInv, FilesInv
        <5>2. FileIs(file[q], saved[q], q \in interrupted)
          BY DEF IInv, FilesInv
        <5> QED BY <5>1, <5>2 DEF FileIs
      <4> QED BY <4>1, <4>2
    <3> QED BY <3>3, <3>4 DEF FilesInv
  <2> QED BY <2>1, <2>2
<1> QED BY <1>7, <1>8, <1>9 DEF IInv

\* What is left when the program has died.
LEMMA DeadInv ==
  ASSUME IInv, Dead
  PROVE  MemoryInv' /\ OwnersInv'
<1>1. /\ at' = [q \in Projects |-> Null] /\ current' = Null /\ running' = FALSE
      /\ watches' = <<>> /\ breakpoints' = <<>> /\ strays' = {}
      /\ persist' = persist /\ acts' = acts
  BY DEF Dead
<1>2. watches' \in Seq(Watch) /\ breakpoints' \in Seq(Breakpoint) /\ Len(watches') = 0
  BY <1>1
<1>3. at' \in [Projects -> Addresses \cup {Null}] /\ \A q \in Projects : at'[q] = Null
  BY <1>1
<1>4. MemoryInv'
  BY <1>1, <1>2, <1>3 DEF IInv, MemoryInv
<1>5. OwnersInv'
  BY <1>1, <1>2 DEF OwnersInv, Known
<1> QED BY <1>4, <1>5

\* It dies while a project is closed.
LEMMA CrashWhileClosingInv ==
  ASSUME IInv, NEW p \in Projects, CrashWhileClosing(p)
  PROVE  IInv'
<1> DEFINE own == Own(watches, at[p])
<1>1. own \in Seq(Watch)
  BY PickedWatches DEF IInv, MemoryInv
<1>2. PICK f \in ToSet(ClosingWrites(p)) \cup {Broken} : file' = [file EXCEPT ![p] = f]
  BY DEF CrashWhileClosing
<1>3. Dead /\ saved' = [saved EXCEPT ![p] = own] /\ interrupted' = interrupted \cup {p}
  BY DEF CrashWhileClosing
<1>4. \/ f = Broken
      \/ \E bps : f = FileOf(bps, <<>>)
      \/ f = FileOf(<<>>, own)
  <2>1. CASE f = BreakpointsDocument(p)
    BY <2>1, WritesFacts
  <2>2. CASE f = WatchesDocument(p)
    BY <2>2, WritesFacts
  <2>3. CASE f = CompilerDocument
    BY <2>3, WritesFacts
  <2> QED BY <2>1, <2>2, <2>3, ClosingFacts
<1> HIDE DEF own
<1>5. saved' \in [Projects -> Seq(Watch)] /\ DOMAIN file' = Projects /\ interrupted' \subseteq Projects
  BY <1>1, <1>2, <1>3 DEF IInv, FilesInv
<1>6. ASSUME NEW q \in Projects PROVE FileIs(file'[q], saved'[q], q \in interrupted')
  <2>1. CASE q = p
    <3>1. file'[p] = f /\ saved'[p] = own /\ p \in interrupted'
      BY <1>2, <1>3 DEF IInv, FilesInv
    <3> QED BY <1>4, <2>1, <3>1 DEF FileIs
  <2>2. CASE q # p
    <3>1. file'[q] = file[q] /\ saved'[q] = saved[q] /\ (q \in interrupted' <=> q \in interrupted)
      BY <1>2, <1>3, <2>2 DEF IInv, FilesInv
    <3>2. FileIs(file[q], saved[q], q \in interrupted)
      BY DEF IInv, FilesInv
    <3> QED BY <3>1, <3>2 DEF FileIs
  <2> QED BY <2>1, <2>2
<1>7. FilesInv'
  BY <1>5, <1>6 DEF FilesInv
<1> QED BY <1>3, <1>7, DeadInv DEF IInv

\* A session begins.
LEMMA StartInv ==
  ASSUME IInv, NEW p \in Projects, StartDebugger(p)
  PROVE  IInv'
<1>1. /\ at[p] # Null /\ running' = TRUE /\ current' = at[p] /\ Load(file[p], at[p])
      /\ UNCHANGED <<at, persist, breakpoints, file, acts, saved, interrupted, strays>>
  BY DEF StartDebugger
<1>2. at[p] \in Addresses /\ at[p] \in Known
  BY <1>1 DEF IInv, MemoryInv, Known, Open
<1>3. Known' = Known
  BY <1>1 DEF Known, Open
<1>4. watches' \in Seq(Watch) /\ \A i \in 1 .. Len(watches') : watches'[i].project \in Known
  <2>1. watches \in Seq(Watch) /\ \A i \in 1 .. Len(watches) : watches[i].project \in Known
    BY DEF IInv, MemoryInv, OwnersInv
  <2>2. saved[p] \in Seq(Watch) /\ FileIs(file[p], saved[p], p \in interrupted)
    BY DEF IInv, FilesInv
  <2> QED BY <1>1, <1>2, <2>1, <2>2, LoadTypes
<1>5. MemoryInv'
  BY <1>1, <1>2, <1>4 DEF IInv, MemoryInv
<1>6. OwnersInv'
  BY <1>1, <1>2, <1>3, <1>4 DEF OwnersInv
<1>7. FilesInv'
  BY <1>1, FilesStay DEF IInv
<1> QED BY <1>5, <1>6, <1>7 DEF IInv

\* What leaves the projects, the files and the project of the session alone.
LEMMA ListsInv ==
  ASSUME IInv, UNCHANGED <<at, current, file, saved, interrupted, strays>>,
         running' \in BOOLEAN, persist' \in BOOLEAN, acts' \in 0 .. MaxActs,
         watches' \in Seq(Watch), breakpoints' \in Seq(Breakpoint),
         \A i \in 1 .. Len(watches') : watches'[i].project \in Known
  PROVE  IInv'
<1>1. Known' = Known
  BY DEF Known, Open
<1>2. MemoryInv'
  BY DEF IInv, MemoryInv
<1>3. OwnersInv'
  BY <1>1 DEF IInv, OwnersInv
<1>4. FilesInv'
  BY FilesStay DEF IInv
<1> QED BY <1>2, <1>3, <1>4 DEF IInv

\* The plugin attaches, and a session ends.
LEMMA SessionsInv ==
  ASSUME IInv, AttachToProcess \/ EndSession
  PROVE  IInv'
<1>1. CASE AttachToProcess
  <2>1. /\ running' = TRUE /\ current' = Null
        /\ UNCHANGED <<at, persist, watches, breakpoints, file, acts, saved, interrupted, strays>>
    BY <1>1 DEF AttachToProcess
  <2>2. MemoryInv'
    BY <2>1 DEF IInv, MemoryInv
  <2>3. OwnersInv'
    BY <2>1 DEF IInv, OwnersInv, Known, Open
  <2>4. FilesInv'
    BY <2>1, FilesStay DEF IInv
  <2> QED BY <2>2, <2>3, <2>4 DEF IInv
<1>2. CASE EndSession
  BY <1>2, ListsInv DEF EndSession, IInv, MemoryInv, OwnersInv
<1> QED BY <1>1, <1>2

\* The watches after an answer with types.
LEMMA RetypedFacts ==
  ASSUME IInv, NEW symbol \in Symbols, NEW type \in Types, OnVariablesCheck(symbol, type)
  PROVE  /\ watches' \in Seq(Watch) /\ Len(watches') = Len(watches)
         /\ \A i \in 1 .. Len(watches) :
              watches'[i] = IF watches[i].symbol = symbol THEN [watches[i] EXCEPT !.type = type]
                            ELSE watches[i]
<1>1. watches' = [i \in DOMAIN watches |->
                    IF watches[i].symbol = symbol THEN [watches[i] EXCEPT !.type = type]
                    ELSE watches[i]]
  BY DEF OnVariablesCheck
<1>2. /\ DOMAIN watches = 1 .. Len(watches) /\ Len(watches) \in Nat
      /\ \A i \in 1 .. Len(watches) : watches[i] \in Watch
  BY DEF IInv, MemoryInv
<1>3. \A i \in 1 .. Len(watches) : [watches[i] EXCEPT !.type = type] \in Watch
  BY <1>2, RetypedWatch
<1>4. watches' \in [1 .. Len(watches) -> Watch]
  BY <1>1, <1>2, <1>3
<1>5. watches' \in Seq(Watch) /\ Len(watches') = Len(watches)
  BY <1>2, <1>4
<1> QED BY <1>1, <1>2, <1>5

\* They are as before but for the types.
LEMMA VariablesCheckInv ==
  ASSUME IInv, NEW symbol \in Symbols, NEW type \in Types, OnVariablesCheck(symbol, type)
  PROVE  IInv'
<1>1. /\ watches' \in Seq(Watch) /\ Len(watches') = Len(watches)
      /\ \A i \in 1 .. Len(watches) :
           watches'[i] = IF watches[i].symbol = symbol THEN [watches[i] EXCEPT !.type = type]
                         ELSE watches[i]
  BY RetypedFacts
<1>2. ASSUME NEW i \in 1 .. Len(watches') PROVE watches'[i].project \in Known
  <2>1. i \in 1 .. Len(watches) /\ watches[i] \in Watch /\ watches[i].project \in Known
    BY <1>1 DEF IInv, MemoryInv, OwnersInv
  <2>2. [watches[i] EXCEPT !.type = type].project = watches[i].project
    BY <2>1, RetypedWatch
  <2> QED BY <1>1, <2>1, <2>2
<1>3. UNCHANGED <<at, current, running, persist, breakpoints, file, acts, saved,
                  interrupted, strays>>
  BY DEF OnVariablesCheck
<1> QED BY <1>1, <1>2, <1>3, ListsInv DEF IInv, MemoryInv

-----------------------------------------------------------------------------
(* The steps of the user                                                    *)

\* The count of what the user does.
LEMMA ActCounts == ASSUME IInv, Act PROVE acts' \in 0 .. MaxActs /\ acts' # acts
<1>1. MaxActs \in Nat
  BY PersistAssumption
<1>2. acts \in 0 .. MaxActs /\ acts < MaxActs /\ acts' = acts + 1
  BY DEF IInv, MemoryInv, Act
<1> QED BY <1>1, <1>2

\* What Append makes of a list.
LEMMA Appended ==
  ASSUME NEW S, NEW list \in Seq(S), NEW w \in S
  PROVE  /\ Append(list, w) \in Seq(S) /\ Len(Append(list, w)) = Len(list) + 1
         /\ Append(list, w)[Len(list) + 1] = w
         /\ \A i \in 1 .. Len(list) : Append(list, w)[i] = list[i]
OBVIOUS

\* A watch of the current project at the end of the list.
LEMMA AddedInv ==
  ASSUME IInv, Act, NEW w \in Watch, w.project = current, watches' = Append(watches, w),
         UNCHANGED <<at, current, running, persist, breakpoints, file, saved, interrupted, strays>>
  PROVE  IInv'
<1>1. watches \in Seq(Watch) /\ Len(watches) \in Nat
  BY DEF IInv, MemoryInv
<1>2. /\ watches' \in Seq(Watch) /\ Len(watches') = Len(watches) + 1
      /\ watches'[Len(watches) + 1] = w /\ \A i \in 1 .. Len(watches) : watches'[i] = watches[i]
  BY <1>1, Appended
<1>3. ASSUME NEW i \in 1 .. Len(watches') PROVE watches'[i].project \in Known
  <2>1. i = Len(watches) + 1 \/ i \in 1 .. Len(watches)
    BY <1>1, <1>2
  <2> QED BY <1>2, <2>1 DEF IInv, OwnersInv
<1>4. acts' \in 0 .. MaxActs
  BY ActCounts
<1> QED BY <1>2, <1>3, <1>4, ListsInv DEF IInv, MemoryInv

\* A watch is added.
LEMMA AddWatchInv ==
  ASSUME IInv, NEW symbol \in Symbols, NEW type \in Types \cup {""}, AddWatch(symbol, type)
  PROVE  IInv'
<1> DEFINE w == [project |-> current, symbol |-> symbol, type |-> type,
                 format |-> 0, array |-> FALSE, range |-> <<-1, -1>>]
<1>1. w \in Watch
  BY NewWatch DEF IInv, MemoryInv
<1>2. w.project = current
  OBVIOUS
<1>3. /\ Act /\ watches' = Append(watches, w)
      /\ UNCHANGED <<at, current, running, persist, breakpoints, file, saved, interrupted, strays>>
  BY DEF AddWatch
<1> HIDE DEF w
<1> QED BY <1>1, <1>2, <1>3, AddedInv

\* One is deleted.
LEMMA DeleteWatchInv ==
  ASSUME IInv, NEW j \in DOMAIN watches, DeleteWatch(j)
  PROVE  IInv'
<1>1. watches \in Seq(Watch) /\ j \in 1 .. Len(watches) /\ Len(watches) \in Nat
  BY DEF IInv, MemoryInv
<1>2. watches' = RemoveAt(watches, j)
  BY DEF DeleteWatch
<1>3. /\ watches' \in Seq(Watch) /\ Len(watches') = Len(watches) - 1
      /\ \A k \in 1 .. Len(watches') :
           watches'[k] = IF k < j THEN watches[k] ELSE watches[k + 1]
  BY <1>1, <1>2, RemoveAtFacts
<1>4. ASSUME NEW k \in 1 .. Len(watches') PROVE watches'[k].project \in Known
  <2>1. k \in 1 .. Len(watches) /\ k + 1 \in 1 .. Len(watches)
    BY <1>1, <1>3
  <2> QED BY <1>3, <2>1 DEF IInv, OwnersInv
<1>5. UNCHANGED <<at, current, running, persist, breakpoints, file, saved, interrupted, strays>>
  BY DEF DeleteWatch
<1>6. acts' \in 0 .. MaxActs
  BY ActCounts DEF DeleteWatch
<1> QED BY <1>3, <1>4, <1>5, <1>6, ListsInv DEF IInv, MemoryInv

\* One is edited.
LEMMA EditWatchInv ==
  ASSUME IInv, NEW j \in DOMAIN watches, NEW e \in Edits, EditWatch(j, e)
  PROVE  IInv'
<1>1. watches \in Seq(Watch) /\ j \in 1 .. Len(watches) /\ watches[j] \in Watch
  BY DEF IInv, MemoryInv
<1> DEFINE w == Edited(watches[j], e)
<1>2. w \in Watch /\ w.project = watches[j].project
  BY <1>1, EditedWatch
<1>3. watches' = [watches EXCEPT ![j] = w]
  BY DEF EditWatch
<1> HIDE DEF w
<1>4. watches' \in Seq(Watch) /\ Len(watches') = Len(watches)
      /\ \A k \in 1 .. Len(watches) : watches'[k] = IF k = j THEN w ELSE watches[k]
  BY <1>1, <1>2, <1>3
<1>5. \A k \in 1 .. Len(watches') : watches'[k].project \in Known
  BY <1>1, <1>2, <1>4 DEF IInv, OwnersInv
<1>6. UNCHANGED <<at, current, running, persist, breakpoints, file, saved, interrupted, strays>>
  BY DEF EditWatch
<1>7. acts' \in 0 .. MaxActs
  BY ActCounts DEF EditWatch
<1> QED BY <1>4, <1>5, <1>6, <1>7, ListsInv DEF IInv, MemoryInv

\* What changes only the breakpoints or the setting.
LEMMA BreakpointsInv ==
  ASSUME IInv, Act, breakpoints' \in Seq(Breakpoint), persist' \in BOOLEAN,
         UNCHANGED <<at, current, running, watches, file, saved, interrupted, strays>>
  PROVE  IInv'
<1>1. acts' \in 0 .. MaxActs
  BY ActCounts
<1>2. watches' \in Seq(Watch) /\ \A i \in 1 .. Len(watches') : watches'[i].project \in Known
  BY DEF IInv, MemoryInv, OwnersInv
<1> QED BY <1>1, <1>2, ListsInv DEF IInv, MemoryInv

\* A breakpoint of the list is enabled or disabled.
LEMMA EnabledList ==
  ASSUME breakpoints \in Seq(Breakpoint), NEW j \in DOMAIN breakpoints, NEW enabled \in BOOLEAN
  PROVE  [breakpoints EXCEPT ![j] = [breakpoints[j] EXCEPT !.enabled = enabled]] \in Seq(Breakpoint)
<1>1. breakpoints[j] \in Breakpoint
  OBVIOUS
<1> DEFINE b == [breakpoints[j] EXCEPT !.enabled = enabled]
<1>2. b \in Breakpoint
  BY <1>1, EnabledBreakpoint
<1> HIDE DEF b
<1>3. [breakpoints EXCEPT ![j] = b] \in Seq(Breakpoint)
  BY <1>2
<1> QED BY <1>3 DEF b

\* A breakpoint is added or enabled, or the setting is changed.
LEMMA UserInv ==
  ASSUME IInv,
         \/ \E p \in Projects, n \in Lines \cup {-1} : AddBreakpoint(p, n)
         \/ \E i \in DOMAIN breakpoints : EnableBreakpoint(i)
         \/ SaveChanges
  PROVE  IInv'
<1>1. breakpoints \in Seq(Breakpoint) /\ persist \in BOOLEAN
  BY DEF IInv, MemoryInv
<1>2. ASSUME NEW p \in Projects, NEW n \in Lines \cup {-1}, AddBreakpoint(p, n) PROVE IInv'
  <2> DEFINE project == IF n = -1 THEN Null ELSE at[p]
             S == {i \in DOMAIN breakpoints :
                     breakpoints[i].project = project /\ breakpoints[i].line = n}
  <2>1. breakpoints' = IF S # {} THEN [breakpoints EXCEPT ![CHOOSE i \in S : TRUE].enabled = TRUE]
                       ELSE Append(breakpoints, [project |-> project, line |-> n, enabled |-> TRUE])
    BY <1>2 DEF AddBreakpoint
  <2>2. CASE S # {}
    <3> DEFINE i == CHOOSE i \in S : TRUE
    <3>1. i \in S
      BY <2>2
    <3>2. i \in DOMAIN breakpoints
      BY <3>1
    <3>3. breakpoints' = [breakpoints EXCEPT ![i] = [breakpoints[i] EXCEPT !.enabled = TRUE]]
      BY <2>1, <2>2
    <3> HIDE DEF i, S
    <3>4. breakpoints' \in Seq(Breakpoint)
      BY <1>1, <3>2, <3>3, EnabledList
    <3> QED BY <1>1, <1>2, <3>4, BreakpointsInv DEF AddBreakpoint
  <2>3. CASE S = {}
    <3> DEFINE b == [project |-> project, line |-> n, enabled |-> TRUE]
    <3>1. project \in Addresses \cup {Null}
      BY DEF IInv, MemoryInv
    <3> HIDE DEF project
    <3>2. b \in Breakpoint
      BY <3>1 DEF Breakpoint
    <3>3. breakpoints' = Append(breakpoints, b)
      BY <2>1, <2>3
    <3> HIDE DEF b, S
    <3>4. breakpoints' \in Seq(Breakpoint)
      BY <1>1, <3>2, <3>3
    <3> QED BY <1>1, <1>2, <3>4, BreakpointsInv DEF AddBreakpoint
  <2> QED BY <2>2, <2>3
<1>3. ASSUME NEW i \in DOMAIN breakpoints, EnableBreakpoint(i) PROVE IInv'
  <2>1. breakpoints' = [breakpoints EXCEPT ![i] = [breakpoints[i] EXCEPT !.enabled = ~breakpoints[i].enabled]]
    BY <1>3 DEF EnableBreakpoint
  <2>2. breakpoints' \in Seq(Breakpoint)
    BY <1>1, <2>1, EnabledList
  <2> QED BY <1>1, <1>3, <2>2, BreakpointsInv DEF EnableBreakpoint
<1>4. CASE SaveChanges
  BY <1>1, <1>4, BreakpointsInv DEF SaveChanges
<1> QED BY <1>2, <1>3, <1>4

-----------------------------------------------------------------------------
(* Every step                                                               *)

\* The invariant is kept.
LEMMA InvStep == ASSUME IInv, [Next]_vars PROVE IInv'
<1>1. ASSUME NEW p \in Projects, NEW a \in Addresses, Activate(p, a) PROVE IInv'
  BY <1>1, ActivateInv
<1>2. ASSUME NEW p \in Projects, CloseProject(p) PROVE IInv'
  BY <1>2, CloseInv
<1>3. ASSUME NEW p \in Projects, CrashWhileClosing(p) PROVE IInv'
  BY <1>3, CrashWhileClosingInv
<1>4. ASSUME NEW p \in Projects, StartDebugger(p) PROVE IInv'
  BY <1>4, StartInv
<1>5. CASE Crash
  <2>1. FilesInv'
    BY <1>5, FilesStay DEF Crash, IInv
  <2> QED BY <1>5, <2>1, DeadInv DEF Crash, IInv
<1>6. CASE AttachToProcess \/ EndSession
  BY <1>6, SessionsInv
<1>7. ASSUME NEW s \in Symbols, NEW t \in Types, OnVariablesCheck(s, t) PROVE IInv'
  BY <1>7, VariablesCheckInv
<1>8. ASSUME NEW s \in Symbols, NEW t \in Types \cup {""}, AddWatch(s, t) PROVE IInv'
  BY <1>8, AddWatchInv
<1>9. ASSUME NEW i \in DOMAIN watches, DeleteWatch(i) PROVE IInv'
  BY <1>9, DeleteWatchInv
<1>10. ASSUME NEW i \in DOMAIN watches, NEW e \in Edits, EditWatch(i, e) PROVE IInv'
  BY <1>10, EditWatchInv
<1>11. CASE \/ \E p \in Projects, n \in Lines \cup {-1} : AddBreakpoint(p, n)
            \/ \E i \in DOMAIN breakpoints : EnableBreakpoint(i)
            \/ SaveChanges
  BY <1>11, UserInv
<1>12. CASE UNCHANGED vars
  <2>1. UNCHANGED <<at, current, running, persist, watches, breakpoints, file, acts, saved,
                    interrupted, strays>>
    BY <1>12 DEF vars
  <2> QED BY <2>1, ListsInv DEF IInv, MemoryInv, OwnersInv
<1> QED BY <1>1, <1>2, <1>3, <1>4, <1>5, <1>6, <1>7, <1>8, <1>9, <1>10, <1>11, <1>12 DEF Next

\* The invariant holds.
LEMMA Invariant == Spec => []IInv
<1>1. Init => IInv
  BY InvInit
<1>2. IInv /\ [Next]_vars => IInv'
  BY InvStep
<1> QED BY <1>1, <1>2, PTL DEF Spec

-----------------------------------------------------------------------------
(* What the invariant says of a state                                       *)

\* A file that can be read holds breakpoints or watches, never both.
LEMMA FilesApart ==
  ASSUME NEW f, NEW ws, NEW died, FileIs(f, ws, died), Readable(f)
  PROVE  f.breakpoints = <<>> \/ f.watches = <<>>
<1>1. CASE f = Missing \/ f = Broken
  BY <1>1, NotReadable
<1>2. CASE f = FileOf(<<>>, ws)
  BY <1>2, FileOfFacts
<1>3. ASSUME NEW bps, f = FileOf(bps, <<>>) PROVE f.watches = <<>>
  <2>1. Nodes(<<>>, WatchNode) = <<>>
    BY DEF Nodes
  <2>2. f.watches = Nodes(<<>>, WatchNode)
    BY <1>3 DEF FileOf, Document
  <2> QED BY <2>1, <2>2
<1> QED BY <1>1, <1>2, <1>3 DEF FileIs

\* The invariant implies the types.
LEMMA TypesFollow == ASSUME IInv PROVE TypeOK
<1>1. \A S : \A list \in Seq(S) : ToSet(list) \subseteq S
  BY DEF ToSet
<1>2. ToSet(watches) \subseteq Watch /\ ToSet(breakpoints) \subseteq Breakpoint
  BY <1>1 DEF IInv, MemoryInv
<1>3. ASSUME NEW p \in Projects
      PROVE  /\ Readable(file[p]) => file[p].breakpoints = <<>> \/ file[p].watches = <<>>
             /\ ToSet(saved[p]) \subseteq Watch
  <2>1. saved[p] \in Seq(Watch) /\ FileIs(file[p], saved[p], p \in interrupted)
    BY DEF IInv, FilesInv
  <2> QED BY <1>1, <2>1, FilesApart
<1>4. interrupted \subseteq Projects
  BY DEF IInv, FilesInv
<1>5. /\ at \in [Projects -> Addresses \cup {Null}]
      /\ \A p, q \in Projects : at[p] = at[q] /\ p # q => at[p] = Null
      /\ current \in Addresses \cup {Null}
      /\ running \in BOOLEAN /\ persist \in BOOLEAN
      /\ acts \in 0 .. MaxActs /\ strays \subseteq Addresses
  BY DEF IInv, MemoryInv
<1> QED BY <1>2, <1>3, <1>4, <1>5 DEF TypeOK

\* Every watch has an owner.
LEMMA OwnersFollow == ASSUME IInv PROVE NoneLeftBehind
<1>1. DOMAIN watches = 1 .. Len(watches)
  BY DEF IInv, MemoryInv
<1> QED BY <1>1 DEF NoneLeftBehind, IInv, OwnersInv, Known

-----------------------------------------------------------------------------
(* What the invariant says of a step                                        *)

\* A project becomes open by being activated, and by nothing else.
LEMMA OpenedByActivate ==
  ASSUME IInv, [Next]_vars, NEW p \in Projects, at[p] = Null, at'[p] # Null
  PROVE  \E a \in Addresses : Activate(p, a) /\ at'[p] = a
<1>1. at \in [Projects -> Addresses \cup {Null}]
  BY DEF IInv, MemoryInv
<1>2. ASSUME NEW q \in Projects, NEW a \in Addresses, Activate(q, a)
      PROVE  \E b \in Addresses : Activate(p, b) /\ at'[p] = b
  <2>1. at' = [at EXCEPT ![q] = a]
    BY <1>2 DEF Activate
  <2>2. q = p
    BY <1>1, <2>1
  <2> QED BY <1>1, <1>2, <2>1, <2>2
<1>3. ASSUME at' # at, ~\E q \in Projects, a \in Addresses : Activate(q, a) PROVE FALSE
  <2>1. \/ \E q \in Projects : CloseProject(q) \/ CrashWhileClosing(q)
        \/ Crash
    BY <1>3 DEF Next, vars, StartDebugger, AttachToProcess, EndSession, OnVariablesCheck, AddWatch,
                DeleteWatch, EditWatch, AddBreakpoint, EnableBreakpoint, SaveChanges
  <2>2. (\E q \in Projects : at' = [at EXCEPT ![q] = Null]) \/ at' = [q \in Projects |-> Null]
    BY <2>1 DEF CloseProject, CrashWhileClosing, Crash, Dead
  <2> QED BY <1>1, <2>2
<1>4. at' # at
  OBVIOUS
<1> QED BY <1>2, <1>3, <1>4

\* What a project had at its last closing is there when it is opened.
LEMMA SurviveStep ==
  ASSUME IInv, [Next]_vars, NEW p \in Projects, at[p] = Null, at'[p] # Null, persist
  PROVE  \/ \A w \in Lasting(saved[p]) : w.symbol # "" => Restored(w, at'[p], watches')
         \/ p \in interrupted /\ watches' = watches
<1>1. PICK a \in Addresses : Activate(p, a) /\ at'[p] = a
  BY OpenedByActivate
<1>2. Load(file[p], a)
  BY <1>1 DEF Activate
<1>3. watches \in Seq(Watch) /\ saved[p] \in Seq(Watch) /\ FileIs(file[p], saved[p], p \in interrupted)
  BY DEF IInv, MemoryInv, FilesInv
<1> DEFINE ws == saved[p]
<1>4. CASE ws = <<>>
  <2>1. Lasting(<<>>) = {}
    BY DEF Lasting
  <2> QED BY <1>4, <2>1
<1>5. ASSUME NEW junk, watches' = LoadWatches(watches, FileOf(<<>>, ws), a, junk),
             NEW w \in Lasting(ws), w.symbol # ""
      PROVE  Restored(w, a, watches')
  <2>1. PICK i \in 1 .. Len(ws) : w = ws[i] /\ LastOfKind(ws, i)
    <3>1. PICK i \in DOMAIN ws :
                 /\ w = ws[i]
                 /\ \A j \in (i + 1) .. Len(ws) : ws[j].symbol # ws[i].symbol \/ ws[j].type # ws[i].type
      BY <1>5 DEF Lasting
    <3>2. i \in 1 .. Len(ws)
      BY <1>3
    <3> QED BY <1>5, <3>1, <3>2 DEF LastOfKind
  <2>2. Restored(ws[i], a, LoadWatches(watches, FileOf(<<>>, ws), a, junk))
    BY <1>3, <2>1, LoadRestores
  <2> QED BY <1>5, <2>1, <2>2
<1>6. \/ watches' = watches /\ (ws = <<>> \/ p \in interrupted)
      \/ \E junk : watches' = LoadWatches(watches, FileOf(<<>>, ws), a, junk)
  <2> DEFINE died == p \in interrupted
             f == file[p]
  <2>1. Load(f, a) /\ FileIs(f, ws, died) /\ watches \in Seq(Watch) /\ ws \in Seq(Watch)
    BY <1>2, <1>3
  <2> HIDE DEF died, f, ws
  <2>2. \/ watches' = watches /\ (ws = <<>> \/ died)
        \/ \E junk : watches' = LoadWatches(watches, FileOf(<<>>, ws), a, junk)
    BY <2>1, LoadCases
  <2> QED BY <2>2 DEF died
<1> QED BY <1>1, <1>4, <1>5, <1>6

\* There are as many as before if the watches are as before.
LEMMA TwinsStay ==
  ASSUME watches \in Seq(Watch), watches' = watches, NEW w
  PROVE  Twins(watches', w) <= Twins(watches, w)
<1>1. Twins(watches, w) \in Nat
  BY TwinsFacts
<1>2. \A q : q = watches => Twins(q, w) = Twins(watches, w)
  OBVIOUS
<1>3. Twins(watches', w) = Twins(watches, w)
  BY <1>2
<1> QED BY <1>1, <1>3

\* To load the file of a project adds to none that are there.
LEMMA LoadTwinsStep ==
  ASSUME IInv, NEW p \in Projects, NEW a \in Addresses, Load(file[p], a), NEW w
  PROVE  Twins(watches', w) <= 1 \/ Twins(watches', w) <= Twins(watches, w)
<1>1. watches \in Seq(Watch) /\ saved[p] \in Seq(Watch) /\ FileIs(file[p], saved[p], p \in interrupted)
  BY DEF IInv, MemoryInv, FilesInv
<1> DEFINE died == p \in interrupted
           f == file[p]
           ws == saved[p]
<1>2. Load(f, a) /\ FileIs(f, ws, died) /\ ws \in Seq(Watch)
  BY <1>1
<1> HIDE DEF died, f, ws
<1>3. CASE watches' = watches
  BY <1>1, <1>3, TwinsStay
<1>4. ASSUME NEW junk, watches' = LoadWatches(watches, FileOf(<<>>, ws), a, junk)
      PROVE  Twins(watches', w) <= 1 \/ Twins(watches', w) <= Twins(watches, w)
  <2> DEFINE q == LoadWatches(watches, FileOf(<<>>, ws), a, junk)
  <2>1. Twins(q, w) <= 1 \/ Twins(q, w) <= Twins(watches, w)
    BY <1>1, <1>2, LoadTwins
  <2> HIDE DEF q
  <2>2. watches' = q
    BY <1>4 DEF q
  <2> QED BY <2>1, <2>2
<1> QED BY <1>1, <1>2, <1>3, <1>4, LoadCases

\* Nor does the closing of a project.
LEMMA CloseTwins ==
  ASSUME IInv, NEW p \in Projects, CloseProject(p), NEW w
  PROVE  Twins(watches', w) <= Twins(watches, w)
<1> DEFINE I == {i \in DOMAIN watches : watches[i].project # at[p]}
           q == Picked(watches, I)
<1>1. watches' = q /\ watches \in Seq(Watch)
  BY DEF CloseProject, Others, IInv, MemoryInv
<1>2. q \in Seq(Watch) /\ \E m : TakenFrom(q, watches, I \cap DOMAIN watches, m)
  BY <1>1, PickedFacts
<1>3. DOMAIN watches = 1 .. Len(watches) /\ I \cap DOMAIN watches \subseteq DOMAIN watches
  BY <1>1
<1> HIDE DEF I, q
<1>4. PICK m : TakenFrom(q, watches, I \cap DOMAIN watches, m)
  BY <1>2
<1> DEFINE n == [k \in Same(q, w) |-> m[k]]
<1>5. \A k \in Same(q, w) : k \in 1 .. Len(q) /\ Alike(q[k], w)
  BY <1>2 DEF Same
<1>6. \A k \in Same(q, w) : m[k] \in Same(watches, w)
  BY <1>3, <1>4, <1>5 DEF TakenFrom, Same
<1>7. \A k, l \in Same(q, w) : m[k] = m[l] => k = l
  BY <1>4, <1>5 DEF TakenFrom
<1>8. n \in [Same(q, w) -> Same(watches, w)] /\ \A k, l \in Same(q, w) : n[k] = n[l] => k = l
  BY <1>6, <1>7
<1> HIDE DEF n
<1>9. Twins(q, w) <= Twins(watches, w)
  BY <1>1, <1>2, <1>8, TwinsMap
<1> QED BY <1>1, <1>9

\* The check of the variables changes only types.
LEMMA CheckRetypes ==
  ASSUME IInv, NEW symbol \in Symbols, NEW type \in Types, OnVariablesCheck(symbol, type)
  PROVE  Retyped
<1>1. /\ watches \in Seq(Watch) /\ watches' \in Seq(Watch) /\ Len(watches') = Len(watches)
      /\ \A i \in 1 .. Len(watches) :
           watches'[i] = IF watches[i].symbol = symbol THEN [watches[i] EXCEPT !.type = type]
                         ELSE watches[i]
  BY RetypedFacts DEF IInv, MemoryInv
<1>2. /\ DOMAIN watches = 1 .. Len(watches) /\ DOMAIN watches' = DOMAIN watches
      /\ \A i \in 1 .. Len(watches) : watches[i] \in Watch
  BY <1>1
<1>3. \A v \in Watch : \A t : [v EXCEPT !.type = [v EXCEPT !.type = t].type] = [v EXCEPT !.type = t]
                              /\ [v EXCEPT !.type = v.type] = v
  BY DEF Watch
<1>4. \A i \in 1 .. Len(watches) : watches'[i] = [watches[i] EXCEPT !.type = watches'[i].type]
  BY <1>1, <1>2, <1>3
<1> QED BY <1>2, <1>4 DEF Retyped

\* Only what the user does, and the check of the variables, can make twins of watches.
LEMMA TwinsStep ==
  ASSUME IInv, [Next]_vars, acts' = acts, ~Retyped, NEW w \in ToSet(watches')
  PROVE  Twins(watches', w) <= 1 \/ Twins(watches', w) <= Twins(watches, w)
<1>1. watches \in Seq(Watch)
  BY DEF IInv, MemoryInv
<1>2. ASSUME NEW p \in Projects, NEW a \in Addresses, Activate(p, a)
      PROVE  Twins(watches', w) <= 1 \/ Twins(watches', w) <= Twins(watches, w)
  <2>1. CASE persist
    BY <1>2, <2>1, LoadTwinsStep DEF Activate
  <2>2. CASE ~persist
    BY <1>1, <1>2, <2>2, TwinsStay DEF Activate
  <2> QED BY <2>1, <2>2
<1>3. ASSUME NEW p \in Projects, StartDebugger(p)
      PROVE  Twins(watches', w) <= 1 \/ Twins(watches', w) <= Twins(watches, w)
  <2>1. at[p] \in Addresses /\ Load(file[p], at[p])
    BY <1>3 DEF StartDebugger, IInv, MemoryInv
  <2> QED BY <2>1, LoadTwinsStep
<1>4. ASSUME NEW p \in Projects, CloseProject(p)
      PROVE  Twins(watches', w) <= Twins(watches, w)
  BY <1>4, CloseTwins
<1>5. CASE Crash \/ \E p \in Projects : CrashWhileClosing(p)
  <2>1. watches' = <<>>
    BY <1>5 DEF Crash, CrashWhileClosing, Dead
  <2> QED BY <2>1 DEF ToSet
<1>6. ASSUME NEW s \in Symbols, NEW t \in Types, OnVariablesCheck(s, t) PROVE FALSE
  BY <1>6, CheckRetypes
<1>7. ~Act
  BY ActCounts
<1>8. CASE AttachToProcess \/ EndSession \/ UNCHANGED vars
  <2>1. watches' = watches
    BY <1>8 DEF AttachToProcess, EndSession, vars
  <2> QED BY <1>1, <2>1, TwinsStay
<1> QED BY <1>2, <1>3, <1>4, <1>5, <1>6, <1>7, <1>8
        DEF Next, AddWatch, DeleteWatch, EditWatch, AddBreakpoint, EnableBreakpoint, SaveChanges

-----------------------------------------------------------------------------
(* The theorems                                                             *)

\* Every variable has the values it should have: no two open projects have one object, a
\* file that can be read holds breakpoints or watches, and the watches that go through the
\* file have the symbols, types, formats and ranges that watches can have
\* (DAPWatch::SaveWatchToXML, DAPWatch::LoadWatchFromXML).
THEOREM TypeCorrect == Spec => []TypeOK
<1>1. IInv => TypeOK
  BY TypesFollow
<1> QED BY <1>1, Invariant, PTL

\* A watch is of an open project, or of none, or of a closed one that m_pProject has kept:
\* closing a project leaves none of its watches behind, however the projects were opened,
\* closed and loaded before (DBG_DAP_Watches::CleanupWhenProjectClosed).
THEOREM NoneLeftBehindTheorem == Spec => []NoneLeftBehind
<1>1. IInv => NoneLeftBehind
  BY OwnersFollow
<1> QED BY <1>1, Invariant, PTL

\* When a project is opened, the watches it had when it was closed last are there with
\* their types, formats and ranges, whatever its file was through; all or none of them, if
\* the program died at that closing (DBG_DAP_Watches::LoadStateFromFile).
THEOREM WatchesSurviveTheorem == Spec => WatchesSurvive
<1> DEFINE A == \A p \in Projects : at[p] = Null /\ at'[p] # Null /\ persist =>
                  \/ \A w \in Lasting(saved[p]) : w.symbol # "" => Restored(w, at'[p], watches')
                  \/ p \in interrupted /\ watches' = watches
<1>1. IInv /\ [Next]_vars => [A]_vars
  <2> SUFFICES ASSUME IInv, [Next]_vars PROVE A
    OBVIOUS
  <2> QED BY SurviveStep
<1>2. Spec => [][A]_vars
  BY <1>1, Invariant, PTL DEF Spec
<1> QED BY <1>2 DEF WatchesSurvive

\* To load the file, to close a project or to begin a session never adds to watches of one
\* project, symbol and type of which there are some already
\* (DBG_DAP_Watches::AddWatch, "don't add duplicate watch").
THEOREM LoadAddsNoTwinTheorem == Spec => LoadAddsNoTwin
<1> DEFINE A == acts' = acts /\ ~Retyped =>
                  \A w \in ToSet(watches') : Twins(watches', w) <= 1 \/
                                              Twins(watches', w) <= Twins(watches, w)
<1>1. IInv /\ [Next]_vars => [A]_vars
  <2> SUFFICES ASSUME IInv, [Next]_vars PROVE A
    OBVIOUS
  <2> QED BY TwinsStep
<1>2. Spec => [][A]_vars
  BY <1>1, Invariant, PTL DEF Spec
<1> QED BY <1>2 DEF LoadAddsNoTwin
=============================================================================
