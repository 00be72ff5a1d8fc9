---------------------------- MODULE JsonRpc_proofs ----------------------------
(***************************************************************************)
(* Theorems about JsonRpc: what is delivered, and in which order, whatever *)
(* the adapter writes and however its bytes are cut into chunks.           *)
(***************************************************************************)
EXTENDS JsonRpc, SequenceTheorems, WellFoundedInduction, TLAPS

-----------------------------------------------------------------------------
(* Numbers                                                                  *)

\* A set of natural numbers that is not empty has a least one.
LEMMA Least ==
  ASSUME NEW T, T \subseteq Nat, T # {}
  PROVE  \E n \in T : \A m \in T : n <= m
<1> DEFINE R == OpToRel(<, Nat)
<1>1. IsWellFoundedOn(R, Nat)
  BY NatLessThanWellFounded
<1>2. \A x, y \in Nat : <<x, y>> \in R <=> x < y
  BY DEF OpToRel
<1> HIDE DEF R
<1>3. PICK n \in T : \A m \in T : <<m, n>> \notin R
  BY <1>1, WFMin
<1>4. \A m \in T : ~(m < n)
  BY <1>2, <1>3
<1> QED BY <1>4

-----------------------------------------------------------------------------
(* The characters of a string of bytes                                      *)

\* The function by which CharsOf is defined: the characters among the first i bytes.
CharsStep(bytes, f, i) ==
  IF i = 0 THEN <<>>
  ELSE IF bytes[i].part = "cont" THEN f[i - 1] ELSE Append(f[i - 1], bytes[i])

Counts(bytes, f, n) == f = [i \in 0 .. n |-> CharsStep(bytes, f, i)]

\* There is such a function.
LEMMA CharsExist ==
  ASSUME NEW bytes, NEW n \in Nat
  PROVE  \E f : Counts(bytes, f, n)
<1> DEFINE T == {m \in Nat : ~ \E f : Counts(bytes, f, m)}
<1> SUFFICES ASSUME T # {} PROVE FALSE
  OBVIOUS
<1>1. PICK m \in T : \A k \in T : m <= k
  BY Least
<1>2. m \in Nat /\ ~ \E f : Counts(bytes, f, m)
  OBVIOUS
<1>3. CASE m = 0
  <2> DEFINE f == [i \in 0 .. 0 |-> <<>>]
  <2>1. Counts(bytes, f, 0)
    <3>1. \A i \in 0 .. 0 : CharsStep(bytes, f, i) = <<>>
      BY DEF CharsStep
    <3> QED BY <3>1 DEF Counts
  <2> QED BY <1>2, <1>3, <2>1
<1>4. CASE m # 0
  <2>1. m - 1 \in Nat /\ m - 1 \notin T
    BY <1>1, <1>2, <1>4
  <2>2. PICK g : Counts(bytes, g, m - 1)
    BY <2>1
  <2> DEFINE f == [i \in 0 .. m |-> IF i = m THEN CharsStep(bytes, g, m) ELSE g[i]]
  <2>3. \A i \in 0 .. m : f[i] = CharsStep(bytes, f, i)
    <3> SUFFICES ASSUME NEW i \in 0 .. m PROVE f[i] = CharsStep(bytes, f, i)
      OBVIOUS
    <3>1. i # 0 => i - 1 \in 0 .. m - 1 /\ f[i - 1] = g[i - 1]
      BY <1>2
    <3>2. CharsStep(bytes, f, i) = CharsStep(bytes, g, i)
      BY <3>1 DEF CharsStep
    <3>3. i # m => g[i] = CharsStep(bytes, g, i)
      <4> SUFFICES ASSUME i # m PROVE g[i] = CharsStep(bytes, g, i)
        OBVIOUS
      <4>1. i \in 0 .. m - 1
        BY <1>2
      <4> QED BY <2>2, <4>1 DEF Counts
    <3> QED BY <3>2, <3>3
  <2>4. Counts(bytes, f, m)
    BY <2>3 DEF Counts
  <2> QED BY <1>2, <2>4
<1> QED BY <1>3, <1>4

\* CharsOf is its last value.
LEMMA CharsUnfold ==
  ASSUME NEW bytes, Len(bytes) \in Nat
  PROVE  \E f : Counts(bytes, f, Len(bytes)) /\ CharsOf(bytes) = f[Len(bytes)]
<1> DEFINE f == CHOOSE g : Counts(bytes, g, Len(bytes))
<1>1. Counts(bytes, f, Len(bytes))
  BY CharsExist
<1>2. CharsOf(bytes) = f[Len(bytes)]
  BY DEF CharsOf, Counts, CharsStep
<1> QED BY <1>1, <1>2

\* The bytes in a string, and the order in which the adapters write bytes.
In(s) == {s[i] : i \in 1 .. Len(s)}

Before(a, b) ==
  \/ a.conn < b.conn
  \/ /\ a.conn = b.conn
     /\ a.msg < b.msg \/ (a.msg = b.msg /\ (a.pos < b.pos \/ (a.pos = 0 /\ b.pos = 0)))

Ordered(s) == \A i, j \in 1 .. Len(s) : i < j => Before(s[i], s[j])

Ahead(A, B) == \A a \in A, b \in B : Before(a, b)

\* CharsOf leaves bytes out, and keeps the order of the others.
LEMMA CharsFacts ==
  ASSUME NEW bytes \in Seq(Byte)
  PROVE  /\ CharsOf(bytes) \in Seq(Char)
         /\ In(CharsOf(bytes)) \subseteq In(bytes)
         /\ Ordered(bytes) => Ordered(CharsOf(bytes))
<1> DEFINE N == Len(bytes)
<1>1. N \in Nat /\ \A i \in 1 .. N : bytes[i] \in Byte
  OBVIOUS
<1>2. PICK f : Counts(bytes, f, N) /\ CharsOf(bytes) = f[N]
  BY <1>1, CharsUnfold
<1>3. \A i \in 0 .. N : f[i] = CharsStep(bytes, f, i)
  BY <1>1, <1>2 DEF Counts
<1> DEFINE Upto(n) == {bytes[i] : i \in 1 .. n}
           Good(n) == /\ f[n] \in Seq(Char) /\ In(f[n]) \subseteq Upto(n)
                      /\ Ordered(bytes) => Ordered(f[n])
           T == {n \in 0 .. N : ~Good(n)}
<1>4. T = {}
  <2> SUFFICES ASSUME T # {} PROVE FALSE
    OBVIOUS
  <2>1. T \subseteq Nat
    BY <1>1
  <2>2. PICK n \in T : \A m \in T : n <= m
    BY <2>1, Least
  <2>3. n \in 0 .. N /\ ~Good(n)
    OBVIOUS
  <2>4. n # 0
    <3> SUFFICES ASSUME n = 0 PROVE FALSE
      OBVIOUS
    <3>1. f[0] = <<>>
      BY <1>3, <2>3 DEF CharsStep
    <3> DEFINE e == <<>>
    <3>2. e \in Seq(Char) /\ Len(e) = 0
      OBVIOUS
    <3> HIDE DEF e
    <3>3. In(e) = {} /\ Ordered(e)
      BY <3>2 DEF In, Ordered
    <3>4. Good(0)
      BY <3>1, <3>2, <3>3 DEF e
    <3> QED BY <2>3, <3>4
  <2> HIDE DEF Good
  <2>5. n - 1 \in 0 .. N /\ n \in 1 .. N /\ ~(n <= n - 1)
    BY <1>1, <2>3, <2>4
  <2>6. Good(n - 1)
    BY <2>2, <2>5
  <2> USE DEF Good
  <2> DEFINE g == f[n - 1]
  <2>7. g \in Seq(Char) /\ In(g) \subseteq Upto(n - 1) /\ (Ordered(bytes) => Ordered(g))
    BY <2>6
  <2>8. Upto(n - 1) \subseteq Upto(n) /\ bytes[n] \in Upto(n)
    BY <2>5
  <2>9. f[n] = IF bytes[n].part = "cont" THEN g ELSE Append(g, bytes[n])
    BY <1>3, <2>3, <2>4 DEF CharsStep
  <2> HIDE DEF g, Upto
  <2>10. CASE bytes[n].part = "cont"
    <3>1. Good(n)
      BY <2>7, <2>8, <2>9, <2>10
    <3> QED BY <2>3, <3>1
  <2>11. CASE bytes[n].part # "cont"
    <3> DEFINE h == Append(g, bytes[n])
    <3>1. bytes[n] \in Char
      BY <1>1, <2>5, <2>11 DEF Char
    <3>2. /\ h \in Seq(Char) /\ Len(h) = Len(g) + 1 /\ h[Len(g) + 1] = bytes[n]
          /\ Len(g) \in Nat /\ \A i \in 1 .. Len(g) : h[i] = g[i]
      BY <2>7, <3>1
    <3> HIDE DEF h
    <3>3. \A i \in 1 .. Len(h) : i \in 1 .. Len(g) \/ i = Len(g) + 1
      BY <3>2
    <3>4. In(h) \subseteq Upto(n)
      BY <2>7, <2>8, <3>2, <3>3 DEF In
    <3>5. ASSUME Ordered(bytes) PROVE Ordered(h)
      <4> SUFFICES ASSUME NEW i \in 1 .. Len(h), NEW j \in 1 .. Len(h), i < j
                   PROVE  Before(h[i], h[j])
        BY DEF Ordered
      <4>1. i \in 1 .. Len(g) /\ h[i] = g[i]
        BY <3>2, <3>3
      <4>2. CASE j \in 1 .. Len(g)
        BY <2>7, <3>2, <3>5, <4>1, <4>2 DEF Ordered
      <4>3. CASE j = Len(g) + 1
        <5>1. g[i] \in Upto(n - 1)
          BY <2>7, <4>1 DEF In
        <5>2. PICK k \in 1 .. n - 1 : g[i] = bytes[k]
          BY <5>1 DEF Upto
        <5>3. k \in 1 .. N /\ n \in 1 .. N /\ k < n
          BY <2>5
        <5>4. Before(bytes[k], bytes[n])
          BY <3>5, <5>3 DEF Ordered
        <5> QED BY <3>2, <4>1, <4>3, <5>2, <5>4
      <4> QED BY <3>3, <4>2, <4>3
    <3>6. f[n] = h
      BY <2>9, <2>11 DEF h
    <3>7. Good(n)
      BY <3>2, <3>4, <3>5, <3>6
    <3> QED BY <2>3, <3>7
  <2> QED BY <2>10, <2>11
<1>5. Good(N)
  <2> HIDE DEF Good
  <2>1. N \in 0 .. N
    BY <1>1
  <2> QED BY <1>4, <2>1
<1> QED BY <1>2, <1>5 DEF In

-----------------------------------------------------------------------------
(* Pieces of strings                                                        *)

\* A part of a string.
LEMMA PieceFacts ==
  ASSUME NEW S, NEW s \in Seq(S), NEW m \in Nat \ {0}, NEW n \in Nat, n <= Len(s)
  PROVE  /\ SubSeq(s, m, n) \in Seq(S)
         /\ \A i \in 1 .. Len(SubSeq(s, m, n)) :
              i + m - 1 \in m .. n /\ SubSeq(s, m, n)[i] = s[i + m - 1]
         /\ In(SubSeq(s, m, n)) \subseteq In(s)
         /\ Ordered(s) => Ordered(SubSeq(s, m, n))
<1>1. \A i \in m .. n : i \in 1 .. Len(s) /\ s[i] \in S
  OBVIOUS
<1> DEFINE t == SubSeq(s, m, n)
<1>2. /\ t \in Seq(S)
      /\ Len(t) = IF m <= n THEN n - m + 1 ELSE 0
      /\ \A i \in 1 .. n - m + 1 : t[i] = s[m + i - 1]
  BY <1>1, SubSeqProperties
<1> HIDE DEF t
<1>3. \A i \in 1 .. Len(t) : i + m - 1 \in m .. n /\ t[i] = s[i + m - 1]
  BY <1>2
<1>4. In(t) \subseteq In(s)
  BY <1>1, <1>3 DEF In
<1>5. Ordered(s) => Ordered(t)
  <2> SUFFICES ASSUME Ordered(s), NEW i \in 1 .. Len(t), NEW j \in 1 .. Len(t), i < j
               PROVE  Before(t[i], t[j])
    BY DEF Ordered
  <2>1. i + m - 1 < j + m - 1
    BY <1>2
  <2> QED BY <1>1, <1>3, <2>1 DEF Ordered
<1> QED BY <1>2, <1>3, <1>4, <1>5 DEF t

\* Two strings in a row.
LEMMA JoinFacts ==
  ASSUME NEW S, NEW s \in Seq(S), NEW t \in Seq(S)
  PROVE  /\ s \o t \in Seq(S)
         /\ In(s \o t) = In(s) \cup In(t)
         /\ Ordered(s) /\ Ordered(t) /\ Ahead(In(s), In(t)) => Ordered(s \o t)
<1> DEFINE u == s \o t
<1>1. /\ Len(s) \in Nat /\ Len(t) \in Nat /\ u \in Seq(S) /\ Len(u) = Len(s) + Len(t)
      /\ \A i \in 1 .. Len(s) : i \in 1 .. Len(u) /\ u[i] = s[i]
      /\ \A i \in 1 .. Len(u) : i \notin 1 .. Len(s) =>
           i - Len(s) \in 1 .. Len(t) /\ u[i] = t[i - Len(s)]
      /\ \A i \in 1 .. Len(t) : i + Len(s) \in 1 .. Len(u) /\ u[i + Len(s)] = t[i]
  OBVIOUS
<1> HIDE DEF u
<1>2. In(u) = In(s) \cup In(t)
  <2>1. In(u) \subseteq In(s) \cup In(t)
    BY <1>1 DEF In
  <2>2. ASSUME NEW i \in 1 .. Len(s) PROVE s[i] \in In(u)
    BY <1>1 DEF In
  <2>3. ASSUME NEW i \in 1 .. Len(t) PROVE t[i] \in In(u)
    BY <1>1 DEF In
  <2> QED BY <2>1, <2>2, <2>3 DEF In
<1>3. ASSUME Ordered(s), Ordered(t), Ahead(In(s), In(t)) PROVE Ordered(u)
  <2> SUFFICES ASSUME NEW i \in 1 .. Len(u), NEW j \in 1 .. Len(u), i < j
               PROVE  Before(u[i], u[j])
    BY DEF Ordered
  <2>1. CASE i \in 1 .. Len(s) /\ j \in 1 .. Len(s)
    BY <1>1, <1>3, <2>1 DEF Ordered
  <2>2. CASE i \in 1 .. Len(s) /\ j \notin 1 .. Len(s)
    <3>1. u[i] \in In(s) /\ u[j] \in In(t)
      BY <1>1, <2>2 DEF In
    <3> QED BY <1>3, <3>1 DEF Ahead
  <2>3. CASE i \notin 1 .. Len(s)
    <3>1. j \notin 1 .. Len(s) /\ i - Len(s) < j - Len(s)
      BY <1>1, <2>3
    <3> QED BY <1>1, <1>3, <2>3, <3>1 DEF Ordered
  <2> QED BY <2>1, <2>2, <2>3
<1> QED BY <1>1, <1>2, <1>3 DEF u

-----------------------------------------------------------------------------
(* The header section                                                       *)

\* ReadHeaders finds the first end of a header section, if there is one.
LEMMA HeaderFacts ==
  ASSUME NEW buf, Len(buf) \in Nat
  PROVE  /\ HeaderSize(buf) \in 0 .. Len(buf)
         /\ HeaderSize(buf) # 0 => buf[HeaderSize(buf)].part = "end"
         /\ \A i \in 1 .. Len(buf) : buf[i].part = "end" => HeaderSize(buf) \in 1 .. i
<1> DEFINE Ends == {i \in 1 .. Len(buf) : buf[i].part = "end"}
           First(i) == buf[i].part = "end" /\ \A j \in 1 .. i - 1 : buf[j].part # "end"
           size == HeaderSize(buf)
<1>1. CASE Ends = {}
  BY <1>1 DEF HeaderSize
<1>2. CASE Ends # {}
  <2> Ends \subseteq Nat
    OBVIOUS
  <2>1. PICK n \in Ends : \A m \in Ends : n <= m
    BY <1>2, Least
  <2>2. n \in 1 .. Len(buf) /\ buf[n].part = "end"
    OBVIOUS
  <2>3. \A j \in 1 .. n - 1 : j \in 1 .. Len(buf) /\ ~(n <= j)
    BY <2>2
  <2>4. First(n)
    BY <2>1, <2>2, <2>3
  <2>5. size = CHOOSE i \in 1 .. Len(buf) : First(i)
    BY <2>2 DEF HeaderSize
  <2> HIDE DEF size, First
  <2>6. size \in 1 .. Len(buf) /\ First(size)
    BY <2>2, <2>4, <2>5
  <2>7. ASSUME NEW i \in 1 .. Len(buf), buf[i].part = "end" PROVE size \in 1 .. i
    BY <2>6, <2>7 DEF First
  <2> QED BY <2>6, <2>7 DEF size, First
<1> QED BY <1>1, <1>2

\* A body is a sequence of bytes.
LEMMA BodyType ==
  ASSUME NEW i \in 1 .. Len(Script)
  PROVE  /\ Len(Script[i].body) \in Nat
         /\ \A p \in 1 .. Len(Script[i].body) : Script[i].body[p] \in {"n", "lead", "cont"}
<1> DEFINE Bodies == Seq({"n", "lead", "cont"})
           Messages == [header : BOOLEAN, json : BOOLEAN, body : Bodies]
<1>1. Script \in Seq(Messages)
  BY ScriptAssumption
<1> HIDE DEF Bodies
<1>2. Script[i] \in Messages
  <2> HIDE DEF Messages
  <2> QED BY <1>1
<1>3. Script[i].body \in Bodies
  BY <1>2
<1> QED BY <1>3 DEF Bodies

\* A part of the buffer is left.  When a payload is found, all that is left comes after
\* the payload's first character.
Cuts(buf, r) ==
  /\ r.rest \in Seq(Char) /\ In(r.rest) \subseteq In(buf)
  /\ Ordered(buf) => Ordered(r.rest)
  /\ r.found \in BOOLEAN
  /\ r.found => /\ r.payload[1] \in In(buf)
                /\ Ordered(buf) => Ahead({r.payload[1]}, In(r.rest))

\* When none is found.
LEMMA NothingFacts ==
  ASSUME NEW buf, NEW rest \in Seq(Char), In(rest) \subseteq In(buf), Ordered(buf) => Ordered(rest)
  PROVE  Cuts(buf, Nothing(rest))
<1> DEFINE r == Nothing(rest)
<1>1. r.rest = rest /\ r.found = FALSE
  BY DEF Nothing
<1> HIDE DEF r
<1>2. Cuts(buf, r)
  BY <1>1 DEF Cuts
<1> QED BY <1>2 DEF r

\* When one is found.
LEMMA FoundFacts ==
  ASSUME NEW buf \in Seq(Char), NEW size \in Nat, NEW msglen \in Nat \ {0},
         size + msglen <= Len(buf)
  PROVE  Cuts(buf, [rest |-> SubSeq(buf, size + msglen + 1, Len(buf)), found |-> TRUE,
                    payload |-> SubSeq(buf, size + 1, size + msglen)])
<1> DEFINE t == SubSeq(buf, size + msglen + 1, Len(buf))
           u == SubSeq(buf, size + 1, size + msglen)
           r == [rest |-> t, found |-> TRUE, payload |-> u]
<1>1. /\ size + msglen + 1 \in Nat \ {0} /\ Len(buf) \in Nat
      /\ size + 1 \in 1 .. Len(buf) /\ size + 1 <= size + msglen
  OBVIOUS
<1>2. /\ t \in Seq(Char) /\ In(t) \subseteq In(buf) /\ (Ordered(buf) => Ordered(t))
      /\ \A i \in 1 .. Len(t) : /\ i + (size + msglen + 1) - 1 \in size + msglen + 1 .. Len(buf)
                                /\ t[i] = buf[i + (size + msglen + 1) - 1]
  BY <1>1, PieceFacts
<1>3. u[1] = buf[size + 1]
  <2>1. \A i \in size + 1 .. size + msglen : buf[i] \in Char
    OBVIOUS
  <2>2. \A i \in 1 .. (size + msglen) - (size + 1) + 1 : u[i] = buf[(size + 1) + i - 1]
    BY <2>1, SubSeqProperties
  <2>3. 1 \in 1 .. (size + msglen) - (size + 1) + 1 /\ (size + 1) + 1 - 1 = size + 1
    OBVIOUS
  <2> QED BY <2>2, <2>3
<1> HIDE DEF t, u
<1>4. r.rest = t /\ r.found = TRUE /\ r.payload = u
  OBVIOUS
<1> HIDE DEF r
<1>5. u[1] \in In(buf)
  BY <1>1, <1>3 DEF In
<1>6. ASSUME Ordered(buf), NEW b \in In(t) PROVE Before(u[1], b)
  <2>1. PICK i \in 1 .. Len(t) : b = t[i]
    BY DEF In
  <2>2. PICK j \in size + msglen + 1 .. Len(buf) : b = buf[j]
    BY <1>2, <2>1
  <2>3. size + 1 \in 1 .. Len(buf) /\ j \in 1 .. Len(buf) /\ size + 1 < j
    BY <1>1
  <2>4. Before(buf[size + 1], buf[j])
    BY <1>6, <2>3 DEF Ordered
  <2> QED BY <1>3, <2>2, <2>4
<1>7. Cuts(buf, r)
  BY <1>2, <1>4, <1>5, <1>6 DEF Cuts, Ahead
<1> QED BY <1>7 DEF r, t, u

\* DoProcessBuffer cuts so.
LEMMA DoProcessFacts ==
  ASSUME NEW buf \in Seq(Char)
  PROVE  Cuts(buf, DoProcessBuffer(buf))
<1> DEFINE size == HeaderSize(buf)
           msglen == Len(Script[buf[1].msg].body)
           has == HasContentLength(buf)
<1>1. Len(buf) \in Nat /\ size \in 0 .. Len(buf)
  BY HeaderFacts
<1>2. size > 0 => msglen \in Nat
  <2> SUFFICES ASSUME size > 0 PROVE msglen \in Nat
    OBVIOUS
  <2>1. 1 \in 1 .. Len(buf)
    BY <1>1
  <2>2. buf[1].msg \in 1 .. Len(Script)
    BY <2>1 DEF Char, Byte
  <2> QED BY <2>2, BodyType
<1>3. DoProcessBuffer(buf) =
        CASE size = 0 -> Nothing(buf)
          [] size > 0 /\ ~has -> Nothing(SubSeq(buf, 1, size))
          [] size > 0 /\ has /\ (msglen = 0 \/ size + msglen > Len(buf)) -> Nothing(buf)
          [] OTHER -> [rest |-> SubSeq(buf, size + msglen + 1, Len(buf)), found |-> TRUE,
                       payload |-> SubSeq(buf, size + 1, size + msglen)]
  BY DEF DoProcessBuffer
<1> HIDE DEF size, msglen, has
<1>4. Cuts(buf, Nothing(buf))
  BY NothingFacts
<1>5. CASE size = 0
  BY <1>3, <1>4, <1>5
<1>6. CASE size > 0 /\ ~has
  <2>1. 1 \in Nat \ {0} /\ size \in Nat /\ size <= Len(buf)
    BY <1>1
  <2>2. Cuts(buf, Nothing(SubSeq(buf, 1, size)))
    BY <2>1, PieceFacts, NothingFacts
  <2>3. size # 0
    BY <1>1, <1>6
  <2> QED BY <1>3, <1>6, <2>2, <2>3
<1>7. CASE size > 0 /\ has /\ (msglen = 0 \/ size + msglen > Len(buf))
  <2>1. size # 0
    BY <1>1, <1>7
  <2> QED BY <1>3, <1>4, <1>7, <2>1
<1>8. CASE size > 0 /\ has /\ ~(msglen = 0 \/ size + msglen > Len(buf))
  <2>1. size # 0 /\ size \in Nat /\ msglen \in Nat \ {0} /\ size + msglen <= Len(buf)
    BY <1>1, <1>2, <1>8
  <2>2. DoProcessBuffer(buf) =
          [rest |-> SubSeq(buf, size + msglen + 1, Len(buf)), found |-> TRUE,
           payload |-> SubSeq(buf, size + 1, size + msglen)]
    BY <1>3, <1>8, <2>1
  <2>3. Cuts(buf, [rest |-> SubSeq(buf, size + msglen + 1, Len(buf)), found |-> TRUE,
                   payload |-> SubSeq(buf, size + 1, size + msglen)])
    BY <2>1, FoundFacts
  <2> QED BY <2>2, <2>3
<1> QED BY <1>1, <1>5, <1>6, <1>7, <1>8

-----------------------------------------------------------------------------
(* The invariant                                                            *)

\* The characters that are queued, and all that has not been cut out of the buffer.
Queued == UNION {In(chunks[k]) : k \in 1 .. Len(chunks)}
Ahead3 == Ahead(In(buffer), Queued) /\ Ahead(In(buffer), In(wire)) /\ Ahead(Queued, In(wire))
Unread == In(buffer) \cup Queued \cup In(wire)

\* What is on its way is in the order in which it was written.
InOrder ==
  /\ Ordered(buffer) /\ Ordered(wire) /\ \A k \in 1 .. Len(chunks) : Ordered(chunks[k])
  /\ Ahead3
  /\ \A k, l \in 1 .. Len(chunks) : k < l => Ahead(In(chunks[k]), In(chunks[l]))

\* It was written on this connection or on an earlier one.
Known(b) ==
  /\ b.conn \in Nat /\ b.msg \in Nat
  /\ b.conn < conn \/ (b.conn = conn /\ b.msg <= written)

\* A message that was delivered is one before, or its first character is no more on its way.
Passed(d, b) ==
  \/ d.conn < b.conn
  \/ d.conn = b.conn /\ (d.msg < b.msg \/ (d.msg = b.msg /\ b.pos > 1))

OrderInv ==
  /\ TypeOK /\ InOrder
  /\ \A b \in Unread : Known(b)
  /\ \A d \in In(delivered) : Known(d) /\ \A b \in Unread : Passed(d, b)
  /\ DeliveredInOrder

-----------------------------------------------------------------------------
(* The steps                                                                *)

\* The bytes of a message.
LEMMA BytesFacts ==
  ASSUME NEW c \in 1 .. MaxResets + 1, NEW i \in 1 .. Len(Script)
  PROVE  /\ BytesOf(c, i) \in Seq(Byte) /\ Ordered(BytesOf(c, i))
         /\ \A b \in In(BytesOf(c, i)) : b.conn = c /\ b.msg = i
<1> DEFINE body == Script[i].body
           byte(part, pos) == [conn |-> c, msg |-> i, part |-> part, pos |-> pos]
           h == <<byte("name", 0), byte("end", 0)>>
           t == [p \in 1 .. Len(body) |-> byte(body[p], p)]
<1>1. Len(body) \in Nat /\ \A p \in 1 .. Len(body) : body[p] \in {"n", "lead", "cont"}
  BY BodyType
<1>2. /\ byte("name", 0) \in Byte /\ byte("end", 0) \in Byte
      /\ \A p \in 1 .. Len(body) : byte(body[p], p) \in Byte
  <2>1. \A part \in Part, pos \in Nat : byte(part, pos) \in Byte
    BY DEF Byte
  <2> HIDE DEF byte
  <2> QED BY <1>1, <2>1 DEF Part
<1>3. h \in Seq(Byte) /\ t \in Seq(Byte)
  <2> HIDE DEF byte
  <2>1. t \in [1 .. Len(body) -> Byte]
    BY <1>2
  <2> HIDE DEF body, t
  <2>2. t \in Seq(Byte)
    BY <1>1, <2>1
  <2> QED BY <1>2, <2>2
<1>4. Len(h) = 2 /\ h[1] = byte("name", 0) /\ h[2] = byte("end", 0)
  OBVIOUS
<1>5. Len(t) = Len(body) /\ \A p \in 1 .. Len(body) : t[p] = byte(body[p], p)
  <2> HIDE DEF byte, body
  <2>1. DOMAIN t = 1 .. Len(body) /\ \A p \in 1 .. Len(body) : t[p] = byte(body[p], p)
    OBVIOUS
  <2> HIDE DEF t
  <2> QED BY <1>1, <1>3, <2>1
<1> HIDE DEF h, t
<1>6. /\ \A b \in In(h) : b.conn = c /\ b.msg = i /\ b.pos = 0
      /\ \A b \in In(t) : b.conn = c /\ b.msg = i /\ b.pos \in Nat \ {0}
  <2>1. \A j \in 1 .. 2 : j = 1 \/ j = 2
    OBVIOUS
  <2>2. ASSUME NEW b \in In(h) PROVE b.conn = c /\ b.msg = i /\ b.pos = 0
    BY <1>4, <2>1 DEF In
  <2>3. ASSUME NEW b \in In(t) PROVE b.conn = c /\ b.msg = i /\ b.pos \in Nat \ {0}
    <3>1. PICK p \in 1 .. Len(body) : b = byte(body[p], p)
      <4> HIDE DEF byte, body
      <4> QED BY <1>5 DEF In
    <3>2. p \in Nat \ {0}
      BY <1>1
    <3> QED BY <3>1, <3>2
  <2> QED BY <2>2, <2>3
<1>7. Ordered(h)
  <2>1. \A j \in 1 .. Len(h) : h[j] \in In(h)
    BY DEF In
  <2> QED BY <1>6, <2>1 DEF Ordered, Before
<1>8. Ordered(t)
  <2> SUFFICES ASSUME NEW p \in 1 .. Len(body), NEW q \in 1 .. Len(body), p < q
               PROVE  Before(t[p], t[q])
    BY <1>5 DEF Ordered
  <2>1. t[p] = byte(body[p], p) /\ t[q] = byte(body[q], q)
    BY <1>5
  <2>2. Before(byte(body[p], p), byte(body[q], q))
    BY DEF Before
  <2> QED BY <2>1, <2>2
<1>9. Ahead(In(h), In(t))
  <2> SUFFICES ASSUME NEW a \in In(h), NEW b \in In(t) PROVE Before(a, b)
    BY DEF Ahead
  <2>1. a.conn = c /\ a.msg = i /\ a.pos = 0 /\ b.conn = c /\ b.msg = i /\ b.pos \in Nat \ {0}
    BY <1>6
  <2>2. a.pos < b.pos
    BY <2>1
  <2> QED BY <2>1, <2>2 DEF Before
<1>10. h \o t \in Seq(Byte) /\ In(h \o t) = In(h) \cup In(t) /\ Ordered(h \o t)
  BY <1>3, <1>7, <1>8, <1>9, JoinFacts
<1>11. BytesOf(c, i) = h \o t
  BY DEF BytesOf, h, t
<1> HIDE DEF byte
<1> QED BY <1>6, <1>10, <1>11

\* The adapter writes behind all that it has written.
LEMMA AdapterWritesStep == OrderInv /\ AdapterWrites => OrderInv'
<1> SUFFICES ASSUME OrderInv, AdapterWrites PROVE OrderInv'
  OBVIOUS
<1> USE DEF OrderInv
<1> DEFINE s == BytesOf(conn, written + 1)
<1>1. /\ written' = written + 1 /\ wire' = wire \o s
      /\ conn' = conn /\ chunks' = chunks /\ buffer' = buffer /\ delivered' = delivered
      /\ UNCHANGED <<loops, inCallback>>
  BY DEF AdapterWrites
<1>2. /\ conn \in 1 .. MaxResets + 1 /\ written \in Nat /\ written + 1 \in 1 .. Len(Script)
      /\ written + 1 \in 0 .. Len(Script)
  BY DEF TypeOK, AdapterWrites
<1>3. /\ s \in Seq(Byte) /\ Ordered(s)
      /\ \A b \in In(s) : b.conn = conn /\ b.msg = written + 1
  BY <1>2, BytesFacts
<1> HIDE DEF s
<1>4. Queued' = Queued
  BY <1>1 DEF Queued
<1>5. ASSUME NEW a, Known(a), NEW b \in In(s) PROVE Before(a, b) /\ Passed(a, b)
  BY <1>2, <1>3, <1>5 DEF Known, Before, Passed
<1>6. Ahead(In(buffer), In(s)) /\ Ahead(Queued, In(s)) /\ Ahead(In(wire), In(s))
  BY <1>5 DEF Ahead, Unread
<1>7. /\ wire' \in Seq(Byte) /\ In(wire') = In(wire) \cup In(s) /\ Ordered(wire')
  BY <1>1, <1>3, <1>6, JoinFacts DEF TypeOK, InOrder
<1>8. TypeOK'
  BY <1>1, <1>2, <1>7 DEF TypeOK
<1>9. InOrder'
  BY <1>1, <1>4, <1>6, <1>7 DEF InOrder, Ahead3, Ahead
<1>10. Unread' = Unread \cup In(s)
  BY <1>1, <1>4, <1>7 DEF Unread
<1>11. \A b : Known(b) => Known(b)'
  <2> SUFFICES ASSUME NEW b, Known(b) PROVE b.conn < conn' \/ (b.conn = conn' /\ b.msg <= written')
    BY DEF Known
  <2> QED BY <1>1, <1>2 DEF Known
<1>12. \A b \in In(s) : Known(b)'
  BY <1>1, <1>2, <1>3 DEF Known
<1>13. \A d \in In(delivered)' : Known(d)' /\ \A b \in Unread' : Passed(d, b)
  BY <1>1, <1>5, <1>10, <1>11
<1>14. DeliveredInOrder'
  BY <1>1 DEF DeliveredInOrder
<1> QED BY <1>8, <1>9, <1>10, <1>11, <1>12, <1>13, <1>14 DEF Passed

\* A chunk of bytes becomes a string.
LEMMA DecodeFacts ==
  ASSUME NEW bytes \in Seq(Byte)
  PROVE  /\ Decode(bytes) \in Seq(Char)
         /\ In(Decode(bytes)) \subseteq In(bytes)
         /\ Ordered(bytes) => Ordered(Decode(bytes))
<1> DEFINE e == <<>>
<1>1. e \in Seq(Char) /\ Len(e) = 0
  OBVIOUS
<1> HIDE DEF e
<1>2. In(e) = {} /\ Ordered(e)
  BY <1>1 DEF In, Ordered
<1>3. Decode(bytes) = e \/ Decode(bytes) = CharsOf(bytes)
  BY DEF Decode, e
<1>4. CASE Decode(bytes) = e
  BY <1>1, <1>2, <1>4
<1>5. CASE Decode(bytes) = CharsOf(bytes)
  BY <1>5, CharsFacts
<1> QED BY <1>3, <1>4, <1>5

\* What is cut off the front of a string comes before the rest.
LEMMA SplitFacts ==
  ASSUME NEW S, NEW s \in Seq(S), NEW k \in 1 .. Len(s), Ordered(s)
  PROVE  Ahead(In(SubSeq(s, 1, k)), In(SubSeq(s, k + 1, Len(s))))
<1> DEFINE t == SubSeq(s, 1, k)
           u == SubSeq(s, k + 1, Len(s))
<1>1. /\ 1 \in Nat \ {0} /\ k \in Nat /\ k <= Len(s) /\ k + 1 \in Nat \ {0} /\ Len(s) \in Nat
  OBVIOUS
<1>2. \A i \in 1 .. Len(t) : i + 1 - 1 \in 1 .. k /\ t[i] = s[i + 1 - 1]
  BY <1>1, PieceFacts
<1>3. \A i \in 1 .. Len(u) : i + (k + 1) - 1 \in k + 1 .. Len(s) /\ u[i] = s[i + (k + 1) - 1]
  BY <1>1, PieceFacts
<1> HIDE DEF t, u
<1>4. SUFFICES ASSUME NEW a \in In(t), NEW b \in In(u) PROVE Before(a, b)
  BY DEF Ahead, t, u
<1>5. PICK i \in 1 .. k : a = s[i]
  BY <1>2 DEF In
<1>6. PICK j \in k + 1 .. Len(s) : b = s[j]
  BY <1>3 DEF In
<1>7. i \in 1 .. Len(s) /\ j \in 1 .. Len(s) /\ i < j
  BY <1>1
<1>8. Before(s[i], s[j])
  BY <1>7 DEF Ordered
<1> QED BY <1>5, <1>6, <1>8

\* OrderInv only grows weaker when less is on its way.
LEMMA FewerStep ==
  ASSUME OrderInv, TypeOK', InOrder', Unread' \subseteq Unread,
         UNCHANGED <<conn, written, delivered>>
  PROVE  OrderInv'
<1>1. \A b : Known(b)' <=> Known(b)
  BY DEF Known
<1>2. \A d \in In(delivered)' : Known(d)' /\ \A b \in Unread' : Passed(d, b)
  BY <1>1 DEF OrderInv
<1>3. DeliveredInOrder'
  BY DEF OrderInv, DeliveredInOrder
<1> QED BY <1>1, <1>2, <1>3 DEF OrderInv, Passed

\* The reader thread queues a part of what it reads, behind all that is queued.
LEMMA ReaderReadsStep == OrderInv /\ ReaderReads => OrderInv'
<1> SUFFICES ASSUME OrderInv, ReaderReads PROVE OrderInv'
  OBVIOUS
<1>1. PICK k \in 1 .. MaxChunk :
        /\ k <= Len(wire) /\ wire' = SubSeq(wire, k + 1, Len(wire))
        /\ chunks' = IF Decode(SubSeq(wire, 1, k)) = <<>> THEN chunks
                     ELSE Append(chunks, Decode(SubSeq(wire, 1, k)))
  BY DEF ReaderReads
<1>2. UNCHANGED <<conn, written, buffer, loops, inCallback, delivered>>
  BY DEF ReaderReads
<1>3. /\ wire \in Seq(Byte) /\ chunks \in Seq(Seq(Char)) /\ Len(wire) \in Nat
      /\ k \in 1 .. Len(wire) /\ k \in Nat /\ k + 1 \in Nat \ {0} /\ 1 \in Nat \ {0}
  BY <1>1 DEF OrderInv, TypeOK
<1> DEFINE head == SubSeq(wire, 1, k)
           string == Decode(head)
<1>4. Ordered(wire)
  BY DEF OrderInv, InOrder
<1>5. head \in Seq(Byte) /\ In(head) \subseteq In(wire) /\ Ordered(head)
  BY <1>1, <1>3, <1>4, PieceFacts
<1>6. wire' \in Seq(Byte) /\ In(wire') \subseteq In(wire) /\ Ordered(wire')
  BY <1>1, <1>3, <1>4, PieceFacts
<1>7. Ahead(In(head), In(wire'))
  BY <1>1, <1>3, <1>4, SplitFacts
<1> HIDE DEF head
<1>8. string \in Seq(Char) /\ In(string) \subseteq In(head) /\ Ordered(string)
  BY <1>5, DecodeFacts
<1>9. chunks' = chunks \/ chunks' = Append(chunks, string)
  BY <1>1 DEF head
<1> HIDE DEF string
<1>10. Ahead(In(buffer), In(wire)) /\ Ahead(Queued, In(wire)) /\ Ahead(In(buffer), Queued)
  BY DEF OrderInv, InOrder, Ahead3
<1>11. CASE chunks' = chunks
  <2>1. Queued' = Queued
    BY <1>11 DEF Queued
  <2>2. InOrder'
    BY <1>2, <1>6, <1>10, <1>11, <2>1 DEF OrderInv, InOrder, Ahead3, Ahead
  <2>3. TypeOK'
    BY <1>2, <1>6, <1>11 DEF OrderInv, TypeOK
  <2>4. Unread' \subseteq Unread
    BY <1>2, <1>6, <2>1 DEF Unread
  <2> QED BY <1>2, <2>2, <2>3, <2>4, FewerStep
<1>12. CASE chunks' = Append(chunks, string)
  <2>1. /\ chunks' \in Seq(Seq(Char)) /\ Len(chunks) \in Nat /\ Len(chunks') = Len(chunks) + 1
        /\ chunks'[Len(chunks) + 1] = string
        /\ \A l \in 1 .. Len(chunks) : chunks'[l] = chunks[l]
    BY <1>3, <1>8, <1>12
  <2>2. \A l \in 1 .. Len(chunks') : l \in 1 .. Len(chunks) \/ l = Len(chunks) + 1
    BY <2>1
  <2>3. \A l \in 1 .. Len(chunks) : In(chunks[l]) \subseteq Queued
    BY DEF Queued
  <2>4. Queued' \subseteq Queued \cup In(string)
    BY <2>1, <2>2, <2>3 DEF Queued
  <2>5. Ahead(Queued, In(string)) /\ Ahead(In(buffer), In(string)) /\ Ahead(In(string), In(wire'))
    BY <1>5, <1>7, <1>8, <1>10 DEF Ahead
  <2>6. Ahead3'
    BY <1>2, <1>6, <1>10, <2>4, <2>5 DEF Ahead3, Ahead
  <2>7. \A l \in 1 .. Len(chunks') : Ordered(chunks'[l])
    BY <1>8, <2>1, <2>2 DEF OrderInv, InOrder
  <2>8. ASSUME NEW l \in 1 .. Len(chunks'), NEW m \in 1 .. Len(chunks'), l < m
        PROVE  Ahead(In(chunks'[l]), In(chunks'[m]))
    <3>1. l \in 1 .. Len(chunks)
      BY <2>1, <2>8
    <3>2. CASE m \in 1 .. Len(chunks)
      BY <2>1, <2>8, <3>1, <3>2 DEF OrderInv, InOrder
    <3>3. CASE m = Len(chunks) + 1
      BY <2>1, <2>3, <2>5, <3>1, <3>3 DEF Ahead
    <3> QED BY <2>2, <3>2, <3>3
  <2>9. InOrder'
    BY <1>2, <1>6, <2>6, <2>7, <2>8 DEF OrderInv, InOrder
  <2>10. TypeOK'
    BY <1>2, <1>6, <2>1 DEF OrderInv, TypeOK
  <2>11. Unread' \subseteq Unread
    BY <1>2, <1>5, <1>6, <1>8, <2>4 DEF Unread
  <2> QED BY <1>2, <2>9, <2>10, <2>11, FewerStep
<1> QED BY <1>9, <1>11, <1>12

\* The first of the strings that are queued is appended to the buffer.
LEMMA OnDataReadStep == OrderInv /\ OnDataRead => OrderInv'
<1> SUFFICES ASSUME OrderInv, OnDataRead PROVE OrderInv'
  OBVIOUS
<1> DEFINE string == Head(chunks)
<1>1. /\ chunks # <<>> /\ chunks' = Tail(chunks) /\ buffer' = buffer \o string
      /\ loops' = loops + 1 /\ inCallback' = FALSE
      /\ UNCHANGED <<conn, written, wire, delivered>>
  BY DEF OnDataRead
<1>2. chunks \in Seq(Seq(Char)) /\ buffer \in Seq(Char) /\ loops \in Nat
  BY DEF OrderInv, TypeOK
<1>3. /\ string = chunks[1] /\ Len(chunks) \in Nat /\ 1 \in 1 .. Len(chunks)
      /\ string \in Seq(Char)
  BY <1>1, <1>2
<1>4. /\ chunks' \in Seq(Seq(Char)) /\ Len(chunks') = Len(chunks) - 1
      /\ \A l \in 1 .. Len(chunks') : chunks'[l] = chunks[l + 1]
  BY <1>1, <1>2, HeadTailProperties
<1> HIDE DEF string
<1>5. \A l \in 1 .. Len(chunks') : l + 1 \in 1 .. Len(chunks) /\ 1 < l + 1
  BY <1>3, <1>4
<1>6. In(string) \subseteq Queued /\ Queued' \subseteq Queued
  BY <1>3, <1>4, <1>5 DEF Queued
<1>7. Ahead(In(buffer), Queued) /\ Ahead(In(buffer), In(wire)) /\ Ahead(Queued, In(wire))
  BY DEF OrderInv, InOrder, Ahead3
<1>8. Ordered(string) /\ Ordered(buffer) /\ Ordered(wire)
  BY <1>3 DEF OrderInv, InOrder
<1>9. Ahead(In(buffer), In(string))
  BY <1>6, <1>7 DEF Ahead
<1>10. buffer' \in Seq(Char) /\ In(buffer') = In(buffer) \cup In(string) /\ Ordered(buffer')
  BY <1>1, <1>2, <1>3, <1>8, <1>9, JoinFacts
<1>11. Ahead(In(string), Queued')
  <2> SUFFICES ASSUME NEW a \in In(string), NEW b \in Queued' PROVE Before(a, b)
    BY DEF Ahead
  <2>1. PICK l \in 1 .. Len(chunks') : b \in In(chunks'[l])
    BY DEF Queued
  <2>2. Ahead(In(chunks[1]), In(chunks[l + 1]))
    BY <1>3, <1>5 DEF OrderInv, InOrder
  <2> QED BY <1>3, <1>4, <2>1, <2>2 DEF Ahead
<1>12. Ahead3'
  BY <1>1, <1>6, <1>7, <1>10, <1>11 DEF Ahead3, Ahead
<1>13. \A l \in 1 .. Len(chunks') : Ordered(chunks'[l])
  BY <1>4, <1>5 DEF OrderInv, InOrder
<1>14. ASSUME NEW l \in 1 .. Len(chunks'), NEW m \in 1 .. Len(chunks'), l < m
       PROVE  Ahead(In(chunks'[l]), In(chunks'[m]))
  <2>1. l + 1 < m + 1
    BY <1>4, <1>14
  <2> QED BY <1>4, <1>5, <2>1 DEF OrderInv, InOrder
<1>15. InOrder'
  BY <1>1, <1>8, <1>10, <1>12, <1>13, <1>14 DEF InOrder
<1>16. TypeOK'
  <2>1. loops' \in Nat
    BY <1>1, <1>2
  <2>2. inCallback' \in BOOLEAN
    BY <1>1
  <2> QED BY <1>1, <1>4, <1>10, <2>1, <2>2 DEF OrderInv, TypeOK
<1>17. Unread' \subseteq Unread
  BY <1>1, <1>6, <1>10 DEF Unread
<1> QED BY <1>1, <1>15, <1>16, <1>17, FewerStep

\* A message that is delivered was not delivered before, nor one after it.
LEMMA ProcessBufferStep == OrderInv /\ ProcessBuffer => OrderInv'
<1> SUFFICES ASSUME OrderInv, ProcessBuffer PROVE OrderInv'
  OBVIOUS
<1> DEFINE result == DoProcessBuffer(buffer)
           first == result.payload[1]
           isOK == result.found /\ first.pos = 1 /\ Parses(result.payload, first.conn, first.msg)
           message == [conn |-> first.conn, msg |-> first.msg]
<1>1. /\ loops > 0 /\ buffer' = result.rest
      /\ loops' = IF isOK THEN loops ELSE loops - 1
      /\ inCallback' = (isOK \/ loops > 1)
      /\ delivered' = IF isOK THEN Append(delivered, message) ELSE delivered
      /\ UNCHANGED <<conn, written, wire, chunks>>
  BY DEF ProcessBuffer
<1>2. /\ buffer \in Seq(Char) /\ loops \in Nat /\ Ordered(buffer)
      /\ Ahead(In(buffer), Queued) /\ Ahead(In(buffer), In(wire)) /\ Ahead(Queued, In(wire))
  BY DEF OrderInv, TypeOK, InOrder, Ahead3
<1>3. Cuts(buffer, result)
  BY <1>2, DoProcessFacts
<1>4. isOK => result.found /\ first.pos = 1
  OBVIOUS
<1> HIDE DEF isOK, result
<1>5. /\ buffer' \in Seq(Char) /\ In(buffer') \subseteq In(buffer) /\ Ordered(buffer')
      /\ result.found => first \in In(buffer) /\ Ahead({first}, In(buffer'))
  BY <1>1, <1>2, <1>3 DEF Cuts
<1>6. Queued' = Queued /\ Unread' \subseteq Unread
  BY <1>1, <1>5 DEF Queued, Unread
<1>7. InOrder'
  BY <1>1, <1>2, <1>5, <1>6 DEF OrderInv, InOrder, Ahead3, Ahead
<1>8. loops' \in Nat /\ inCallback' \in BOOLEAN
  <2>1. inCallback' \in BOOLEAN
    BY <1>1
  <2>2. loops' \in Nat
    BY <1>1, <1>2
  <2> QED BY <2>1, <2>2
<1>9. CASE ~isOK
  <2>1. TypeOK'
    BY <1>1, <1>5, <1>8, <1>9 DEF OrderInv, TypeOK
  <2> QED BY <1>1, <1>6, <1>7, <1>9, <2>1, FewerStep
<1>10. CASE isOK
  <2>1. /\ first \in In(buffer) /\ first.pos = 1 /\ Ahead({first}, In(buffer'))
        /\ delivered' = Append(delivered, message)
    BY <1>1, <1>4, <1>5, <1>10
  <2>2. first \in Byte
    BY <1>2, <2>1 DEF In, Char
  <2> HIDE DEF first
  <2>3. first.conn \in 1 .. MaxResets + 1 /\ first.msg \in 1 .. Len(Script)
    BY <2>2 DEF Byte
  <2>4. message \in [conn : 1 .. MaxResets + 1, msg : 1 .. Len(Script)]
    BY <2>3
  <2>5. message.conn = first.conn /\ message.msg = first.msg
    OBVIOUS
  <2> HIDE DEF message
  <2>6. /\ delivered' \in Seq([conn : 1 .. MaxResets + 1, msg : 1 .. Len(Script)])
        /\ Len(delivered) \in Nat /\ Len(delivered') = Len(delivered) + 1
        /\ delivered'[Len(delivered) + 1] = message
        /\ \A i \in 1 .. Len(delivered) : delivered'[i] = delivered[i]
    BY <2>1, <2>4 DEF OrderInv, TypeOK
  <2>7. \A i \in 1 .. Len(delivered') : i \in 1 .. Len(delivered) \/ i = Len(delivered) + 1
    BY <2>6
  <2>8. first \in Unread /\ Known(first)
    BY <2>1 DEF OrderInv, Unread
  <2>9. ASSUME NEW b \in Unread' PROVE Passed(message, b)
    <3>1. Before(first, b)
      BY <1>1, <1>2, <1>6, <2>1 DEF Unread, Ahead
    <3> QED BY <2>1, <2>5, <3>1 DEF Before, Passed
  <2>10. ASSUME NEW d \in In(delivered)
         PROVE  d.conn < message.conn \/ (d.conn = message.conn /\ d.msg < message.msg)
    <3>1. Passed(d, first)
      BY <2>8 DEF OrderInv
    <3> QED BY <2>1, <2>5, <3>1 DEF Passed
  <2>11. Known(message)
    BY <2>5, <2>8 DEF Known
  <2>12. \A b : Known(b)' <=> Known(b)
    BY <1>1 DEF Known
  <2>13. ASSUME NEW d \in In(delivered') PROVE d \in In(delivered) \/ d = message
    BY <2>6, <2>7 DEF In
  <2>14. \A d \in In(delivered') : Known(d)' /\ \A b \in Unread' : Passed(d, b)
    BY <1>6, <2>9, <2>11, <2>12, <2>13 DEF OrderInv
  <2>15. \A b \in Unread' : Known(b)'
    BY <1>6, <2>12 DEF OrderInv
  <2>16. DeliveredInOrder'
    <3> SUFFICES ASSUME NEW i \in 1 .. Len(delivered'), NEW j \in 1 .. Len(delivered'), i < j
                 PROVE  \/ delivered'[i].conn < delivered'[j].conn
                        \/ /\ delivered'[i].conn = delivered'[j].conn
                           /\ delivered'[i].msg < delivered'[j].msg
      BY DEF DeliveredInOrder
    <3>1. i \in 1 .. Len(delivered) /\ delivered'[i] = delivered[i]
      BY <2>6, <2>7
    <3>2. CASE j \in 1 .. Len(delivered)
      <4>1. delivered'[j] = delivered[j]
        BY <2>6, <3>2
      <4>2. \/ delivered[i].conn < delivered[j].conn
            \/ /\ delivered[i].conn = delivered[j].conn
               /\ delivered[i].msg < delivered[j].msg
        <5>1. DeliveredInOrder
          BY DEF OrderInv
        <5> QED BY <3>1, <3>2, <5>1 DEF DeliveredInOrder
      <4> QED BY <3>1, <4>1, <4>2
    <3>3. CASE j = Len(delivered) + 1
      <4>1. delivered[i] \in In(delivered)
        BY <3>1 DEF In
      <4> QED BY <2>6, <2>10, <3>1, <3>3, <4>1
    <3> QED BY <2>7, <3>2, <3>3
  <2>17. TypeOK'
    BY <1>1, <1>5, <1>8, <2>6 DEF OrderInv, TypeOK
  <2> QED BY <1>7, <2>14, <2>15, <2>16, <2>17 DEF OrderInv, Passed
<1> QED BY <1>9, <1>10

\* The strings that outlive a reset are of an earlier connection.
LEMMA ResetStep == OrderInv /\ Reset => OrderInv'
<1> SUFFICES ASSUME OrderInv, Reset PROVE OrderInv'
  OBVIOUS
<1> DEFINE e == <<>>
<1>1. /\ conn <= MaxResets /\ conn' = conn + 1 /\ written' = 0 /\ wire' = e /\ buffer' = e
      /\ UNCHANGED <<chunks, loops, inCallback, delivered>>
  BY DEF Reset
<1>2. e \in Seq(Byte) /\ e \in Seq(Char) /\ Len(e) = 0
  OBVIOUS
<1> HIDE DEF e
<1>3. conn \in Nat /\ conn' \in 1 .. MaxResets + 1 /\ written' \in 0 .. Len(Script)
  BY <1>1, ScriptAssumption DEF OrderInv, TypeOK
<1>4. In(e) = {} /\ Ordered(e)
  BY <1>2 DEF In, Ordered
<1>5. Queued' = Queued /\ Unread' \subseteq Unread
  BY <1>1, <1>4 DEF Queued, Unread
<1>6. TypeOK'
  BY <1>1, <1>2, <1>3 DEF OrderInv, TypeOK
<1>7. InOrder'
  BY <1>1, <1>4, <1>5 DEF OrderInv, InOrder, Ahead3, Ahead
<1>8. ASSUME NEW b, Known(b) PROVE Known(b)'
  BY <1>1, <1>3, <1>8 DEF Known
<1>9. \A d \in In(delivered)' : Known(d)' /\ \A b \in Unread' : Passed(d, b)
  BY <1>1, <1>5, <1>8 DEF OrderInv
<1>10. DeliveredInOrder'
  BY <1>1 DEF OrderInv, DeliveredInOrder
<1>11. \A b \in Unread' : Known(b)'
  BY <1>5, <1>8 DEF OrderInv
<1> QED BY <1>6, <1>7, <1>9, <1>10, <1>11 DEF OrderInv, Passed

\* Nothing is on its way at first.
LEMMA OrderInit == Init => OrderInv
<1> SUFFICES ASSUME Init PROVE OrderInv
  OBVIOUS
<1> DEFINE e == <<>>
<1>1. /\ conn = 1 /\ written = 0 /\ loops = 0 /\ inCallback = FALSE
      /\ wire = e /\ chunks = e /\ buffer = e /\ delivered = e
  BY DEF Init
<1>2. \A S : e \in Seq(S)
  OBVIOUS
<1>3. Len(e) = 0
  OBVIOUS
<1> HIDE DEF e
<1>4. In(e) = {} /\ Ordered(e) /\ 1 .. 0 = {}
  BY <1>3 DEF In, Ordered
<1>5. Queued = {} /\ Unread = {}
  BY <1>1, <1>3, <1>4 DEF Queued, Unread
<1>6. TypeOK
  <2>1. conn \in 1 .. MaxResets + 1 /\ written \in 0 .. Len(Script)
    BY <1>1, ScriptAssumption
  <2> QED BY <1>1, <1>2, <2>1 DEF TypeOK
<1>7. InOrder
  BY <1>1, <1>3, <1>4, <1>5 DEF InOrder, Ahead3, Ahead
<1>8. DeliveredInOrder
  BY <1>1, <1>3 DEF DeliveredInOrder
<1> QED BY <1>1, <1>4, <1>5, <1>6, <1>7, <1>8 DEF OrderInv

\* Every step keeps the order.
LEMMA OrderStep == OrderInv /\ [Next]_vars => OrderInv'
<1> SUFFICES ASSUME OrderInv, [Next]_vars PROVE OrderInv'
  OBVIOUS
<1>1. CASE UNCHANGED vars
  <2>1. UNCHANGED <<conn, written, wire, chunks, buffer, loops, inCallback, delivered>>
    BY <1>1 DEF vars
  <2> QED BY <2>1 DEF OrderInv, TypeOK, InOrder, Ahead3, Queued, Unread, Known, Passed,
                      DeliveredInOrder
<1> QED BY <1>1, AdapterWritesStep, ReaderReadsStep, OnDataReadStep, ProcessBufferStep, ResetStep
        DEF Next

\* The types.
THEOREM TypeCorrect == Spec => []TypeOK
BY OrderInit, OrderStep, PTL DEF Spec, OrderInv

\* OnMessage is called at most once for a message and in the order in which they were
\* written: for every script of an adapter, however its bytes are cut into chunks,
\* decoded and cut into messages again, through loops of ProcessBuffer within loops
\* and through any number of resets that leave strings of earlier connections queued.
THEOREM InOrderTheorem == Spec => []DeliveredInOrder
BY OrderInit, OrderStep, PTL DEF Spec, OrderInv

-----------------------------------------------------------------------------
(***************************************************************************)
(* When all goes well: on a connection that is not reset, with an adapter  *)
(* that writes what the client can read, every message that was read is    *)
(* delivered, and OnMessage sees the channel of MessageChannel.            *)
(***************************************************************************)

\* The adapter counts the bytes of every body, writes JSON, and writes every character
\* in one byte.
Conforming ==
  \A i \in 1 .. Len(Script) :
    /\ Script[i].header /\ Script[i].json
    /\ Len(Script[i].body) > 0
    /\ \A p \in 1 .. Len(Script[i].body) : Script[i].body[p] = "n"

-----------------------------------------------------------------------------
(* Where a message begins in the stream of all bytes                        *)

Size(i) == Len(Script[i].body) + 2

Offsets(f, n) ==
  /\ f \in [1 .. n + 1 -> Nat]
  /\ f[1] = 0
  /\ \A i \in 1 .. n : f[i + 1] = f[i] + Size(i)

\* The bytes before message i.
Offset == CHOOSE f : Offsets(f, Len(Script))

\* A message has a header and perhaps a body.
LEMMA SizeFacts == \A i \in 1 .. Len(Script) : Size(i) \in Nat /\ Size(i) >= 2
BY BodyType DEF Size

\* The script is a sequence.
LEMMA ScriptLength == Len(Script) \in Nat
BY ScriptAssumption

\* There are such numbers.
LEMMA OffsetsExist == \A n \in 0 .. Len(Script) : \E f : Offsets(f, n)
<1> DEFINE Has(n) == \E f : Offsets(f, n)
           T == {n \in 0 .. Len(Script) : ~Has(n)}
<1> SUFFICES ASSUME T # {} PROVE FALSE
  OBVIOUS
<1> HIDE DEF Has
<1>1. T \subseteq Nat
  BY ScriptLength
<1>2. PICK n \in T : \A m \in T : n <= m
  BY <1>1, Least
<1>3. n \in 0 .. Len(Script) /\ n \in Nat /\ ~Has(n)
  BY <1>1
<1>4. CASE n = 0
  <2> DEFINE f == [i \in 1 .. 1 |-> 0]
  <2>1. Offsets(f, 0)
    BY DEF Offsets
  <2> QED BY <1>3, <1>4, <2>1 DEF Has
<1>5. CASE n # 0
  <2>1. n - 1 \in 0 .. Len(Script) /\ ~(n <= n - 1) /\ n \in 1 .. Len(Script)
    BY <1>3, <1>5, ScriptLength
  <2>2. Has(n - 1)
    BY <1>2, <2>1
  <2>3. PICK g : Offsets(g, n - 1)
    BY <2>2 DEF Has
  <2> DEFINE f == [i \in 1 .. n + 1 |-> IF i = n + 1 THEN g[n] + Size(n) ELSE g[i]]
  <2>4. g \in [1 .. n -> Nat] /\ g[1] = 0 /\ \A i \in 1 .. n - 1 : g[i + 1] = g[i] + Size(i)
    BY <1>3, <2>3 DEF Offsets
  <2>5. Size(n) \in Nat
    BY <2>1, SizeFacts
  <2>6. f \in [1 .. n + 1 -> Nat] /\ f[1] = 0
    BY <1>3, <2>1, <2>4, <2>5
  <2>7. ASSUME NEW i \in 1 .. n PROVE f[i + 1] = f[i] + Size(i)
    <3>1. i # n + 1 /\ i \in 1 .. n + 1 /\ i + 1 \in 1 .. n + 1
      BY <1>3
    <3>2. CASE i = n
      BY <3>1, <3>2
    <3>3. CASE i # n
      BY <1>3, <2>4, <3>1, <3>3
    <3> QED BY <3>2, <3>3
  <2> HIDE DEF f
  <2>8. Offsets(f, n)
    BY <2>6, <2>7 DEF Offsets
  <2> QED BY <1>3, <2>8 DEF Has
<1> QED BY <1>4, <1>5

\* The offsets, one after the other.
LEMMA OffsetFacts ==
  /\ Offset \in [1 .. Len(Script) + 1 -> Nat] /\ Offset[1] = 0
  /\ \A i \in 1 .. Len(Script) :
       i + 1 \in 1 .. Len(Script) + 1 /\ Offset[i + 1] = Offset[i] + Size(i)
<1>1. Len(Script) \in 0 .. Len(Script)
  BY ScriptLength
<1>2. \E f : Offsets(f, Len(Script))
  BY <1>1, OffsetsExist
<1>3. Offsets(Offset, Len(Script))
  BY <1>2 DEF Offset
<1> QED BY <1>3, ScriptLength DEF Offsets

\* A message ends before the next one begins.
LEMMA OffsetsGrow ==
  ASSUME NEW i \in 1 .. Len(Script), NEW j \in 1 .. Len(Script) + 1, i < j
  PROVE  Offset[i + 1] <= Offset[j]
<1> DEFINE Bad(k) == ~(Offset[i + 1] <= Offset[k])
           T == {k \in i + 1 .. Len(Script) + 1 : Bad(k)}
<1> SUFFICES ASSUME T # {} PROVE FALSE
  <2>1. j \in i + 1 .. Len(Script) + 1
    BY ScriptLength
  <2> QED BY <2>1
<1> HIDE DEF Bad
<1>1. T \subseteq Nat
  BY ScriptLength
<1>2. PICK k \in T : \A m \in T : k <= m
  BY <1>1, Least
<1>3. k \in i + 1 .. Len(Script) + 1 /\ k \in Nat /\ Bad(k)
  BY <1>1
<1>4. i + 1 \in 1 .. Len(Script) + 1 /\ Offset[i + 1] \in Nat
  BY OffsetFacts
<1>5. CASE k = i + 1
  BY <1>3, <1>4, <1>5 DEF Bad
<1>6. CASE k # i + 1
  <2>1. k - 1 \in i + 1 .. Len(Script) + 1 /\ ~(k <= k - 1) /\ k - 1 \in 1 .. Len(Script)
    BY <1>3, <1>6, ScriptLength
  <2>2. ~Bad(k - 1)
    BY <1>2, <2>1
  <2>3. Offset[k] = Offset[k - 1] + Size(k - 1) /\ Size(k - 1) \in Nat
    <3>1. k - 1 + 1 = k
      BY <1>3
    <3> QED BY <2>1, <3>1, OffsetFacts, SizeFacts
  <2>4. Offset[k - 1] \in Nat
    <3>1. k - 1 \in 1 .. Len(Script) + 1
      BY <2>1, ScriptLength
    <3> QED BY <3>1, OffsetFacts
  <2> QED BY <1>3, <1>4, <2>2, <2>3, <2>4 DEF Bad
<1> QED BY <1>5, <1>6

-----------------------------------------------------------------------------
(* The number of a byte in the stream                                       *)

Place(b) == IF b.part = "name" THEN 1 ELSE IF b.part = "end" THEN 2 ELSE b.pos + 2

Index(b) == Offset[b.msg] + Place(b)

\* A byte that a conforming adapter writes on the first connection.
Genuine(b) ==
  /\ b \in Byte /\ b.conn = 1
  /\ \/ b.part \in {"name", "end"} /\ b.pos = 0
     \/ b.part = "n" /\ b.pos \in 1 .. Len(Script[b.msg].body)

\* It lies between the offsets of its message and of the next.
LEMMA IndexFacts ==
  ASSUME NEW b, Genuine(b)
  PROVE  /\ b.msg \in 1 .. Len(Script) /\ Place(b) \in 1 .. Size(b.msg)
         /\ Index(b) \in Nat /\ Offset[b.msg] \in Nat
         /\ Offset[b.msg] < Index(b) /\ Index(b) <= Offset[b.msg + 1]
<1>1. b.msg \in 1 .. Len(Script) /\ b.pos \in Nat
  BY DEF Genuine, Byte
<1>2. Place(b) \in 1 .. Size(b.msg)
  <2>1. Len(Script[b.msg].body) \in Nat
    BY <1>1, BodyType
  <2> QED BY <1>1, <2>1 DEF Genuine, Place, Size
<1>3. Offset[b.msg] \in Nat /\ Offset[b.msg + 1] = Offset[b.msg] + Size(b.msg)
  BY <1>1, OffsetFacts, ScriptLength
<1>4. Size(b.msg) \in Nat
  BY <1>1, SizeFacts
<1> QED BY <1>1, <1>2, <1>3, <1>4 DEF Index

\* So the number tells the message,
LEMMA MessageAt ==
  ASSUME NEW b, Genuine(b), NEW i \in 1 .. Len(Script),
         Offset[i] < Index(b), Index(b) <= Offset[i + 1]
  PROVE  b.msg = i
<1>1. /\ b.msg \in 1 .. Len(Script) /\ Index(b) \in Nat
      /\ Offset[b.msg] < Index(b) /\ Index(b) <= Offset[b.msg + 1]
  BY IndexFacts
<1>2. /\ i \in Nat /\ b.msg \in Nat /\ i + 1 \in Nat
      /\ i \in 1 .. Len(Script) + 1 /\ b.msg \in 1 .. Len(Script) + 1
      /\ i + 1 \in 1 .. Len(Script) + 1 /\ b.msg + 1 \in 1 .. Len(Script) + 1
  BY <1>1, ScriptLength
<1>3. /\ Offset[i] \in Nat /\ Offset[i + 1] \in Nat
      /\ Offset[b.msg] \in Nat /\ Offset[b.msg + 1] \in Nat
  BY <1>2, OffsetFacts
<1>4. ~(i < b.msg)
  <2> SUFFICES ASSUME i < b.msg PROVE FALSE
    OBVIOUS
  <2>1. Offset[i + 1] <= Offset[b.msg]
    BY <1>2, OffsetsGrow
  <2> QED BY <1>1, <1>3, <2>1
<1>5. ~(b.msg < i)
  <2> SUFFICES ASSUME b.msg < i PROVE FALSE
    OBVIOUS
  <2>1. Offset[b.msg + 1] <= Offset[i]
    BY <1>1, <1>2, OffsetsGrow
  <2> QED BY <1>1, <1>3, <2>1
<1> QED BY <1>2, <1>4, <1>5

\* and the byte.
LEMMA ByteAt ==
  ASSUME NEW a, NEW b, Genuine(a), Genuine(b), Index(a) = Index(b)
  PROVE  a = b
<1>1. /\ b.msg \in 1 .. Len(Script) /\ Index(b) \in Nat /\ Offset[b.msg] \in Nat
      /\ Offset[b.msg] < Index(b) /\ Index(b) <= Offset[b.msg + 1]
  BY IndexFacts
<1>2. a.msg = b.msg
  BY <1>1, MessageAt
<1>3. Place(a) = Place(b)
  <2>1. Place(a) \in Nat /\ Place(b) \in Nat
    <3>1. Place(a) \in 1 .. Size(a.msg) /\ Place(b) \in 1 .. Size(b.msg)
      BY IndexFacts
    <3> QED BY <1>1, <1>2, <3>1, SizeFacts
  <2> QED BY <1>1, <1>2, <2>1 DEF Index
<1>4. /\ a \in Byte /\ b \in Byte /\ a.pos \in Nat /\ b.pos \in Nat /\ a.conn = b.conn
  BY DEF Genuine, Byte
<1>5. a.part = b.part /\ a.pos = b.pos
  <2>1. \/ (a.part = "name" /\ a.pos = 0) \/ (a.part = "end" /\ a.pos = 0)
        \/ (a.part = "n" /\ a.pos > 0)
    BY <1>4 DEF Genuine
  <2>2. \/ (b.part = "name" /\ b.pos = 0) \/ (b.part = "end" /\ b.pos = 0)
        \/ (b.part = "n" /\ b.pos > 0)
    BY <1>4 DEF Genuine
  <2> QED BY <1>3, <1>4, <2>1, <2>2 DEF Place
<1> QED BY <1>2, <1>4, <1>5 DEF Byte

-----------------------------------------------------------------------------
(* Parts of the stream                                                      *)

\* The bytes of s are those after the first a ones.
Segment(s, a) ==
  /\ s \in Seq(Byte) /\ a \in Nat
  /\ \A k \in 1 .. Len(s) : Genuine(s[k]) /\ Index(s[k]) = a + k

\* A part of a part.
LEMMA SegmentPart ==
  ASSUME NEW s, NEW a, Segment(s, a), NEW m \in Nat \ {0}, NEW n \in Nat, n <= Len(s), m <= n + 1
  PROVE  Segment(SubSeq(s, m, n), a + m - 1) /\ Len(SubSeq(s, m, n)) = n - m + 1
<1> DEFINE t == SubSeq(s, m, n)
<1>1. s \in Seq(Byte) /\ a \in Nat /\ Len(s) \in Nat
  BY DEF Segment
<1>2. \A i \in m .. n : i \in 1 .. Len(s) /\ s[i] \in Byte
  BY <1>1
<1>3. /\ t \in Seq(Byte) /\ Len(t) = n - m + 1
      /\ \A i \in 1 .. n - m + 1 : t[i] = s[m + i - 1]
  BY <1>1, <1>2, SubSeqProperties
<1> HIDE DEF t
<1>4. ASSUME NEW k \in 1 .. Len(t) PROVE Genuine(t[k]) /\ Index(t[k]) = (a + m - 1) + k
  <2>1. m + k - 1 \in 1 .. Len(s) /\ t[k] = s[m + k - 1]
    BY <1>1, <1>3
  <2>2. Genuine(s[m + k - 1]) /\ Index(s[m + k - 1]) = a + (m + k - 1)
    BY <2>1 DEF Segment
  <2> QED BY <1>1, <1>3, <2>1, <2>2
<1>5. a + m - 1 \in Nat
  BY <1>1
<1>6. Segment(t, a + m - 1)
  BY <1>3, <1>4, <1>5 DEF Segment
<1> QED BY <1>3, <1>6 DEF t

\* Two parts that follow each other.
LEMMA SegmentJoin ==
  ASSUME NEW s, NEW t, NEW a, Segment(s, a), Segment(t, a + Len(s))
  PROVE  Segment(s \o t, a) /\ Len(s \o t) = Len(s) + Len(t)
<1> DEFINE u == s \o t
<1>1. s \in Seq(Byte) /\ t \in Seq(Byte) /\ a \in Nat
  BY DEF Segment
<1>2. /\ Len(s) \in Nat /\ Len(t) \in Nat /\ u \in Seq(Byte) /\ Len(u) = Len(s) + Len(t)
      /\ \A i \in 1 .. Len(s) : u[i] = s[i]
      /\ \A i \in 1 .. Len(u) : i \notin 1 .. Len(s) =>
           i - Len(s) \in 1 .. Len(t) /\ u[i] = t[i - Len(s)]
  BY <1>1
<1> HIDE DEF u
<1>3. ASSUME NEW k \in 1 .. Len(u) PROVE Genuine(u[k]) /\ Index(u[k]) = a + k
  <2>1. CASE k \in 1 .. Len(s)
    BY <1>2, <2>1 DEF Segment
  <2>2. CASE k \notin 1 .. Len(s)
    <3>1. k - Len(s) \in 1 .. Len(t) /\ u[k] = t[k - Len(s)]
      BY <1>2, <2>2
    <3>2. Genuine(t[k - Len(s)]) /\ Index(t[k - Len(s)]) = a + Len(s) + (k - Len(s))
      BY <3>1 DEF Segment
    <3>3. a + Len(s) + (k - Len(s)) = a + k
      BY <1>1, <1>2
    <3> QED BY <3>1, <3>2, <3>3
  <2> QED BY <2>1, <2>2
<1>4. Segment(u, a)
  BY <1>1, <1>2, <1>3 DEF Segment
<1> QED BY <1>2, <1>4 DEF u

\* Nothing is a part.
LEMMA SegmentEmpty == ASSUME NEW a \in Nat PROVE Segment(<<>>, a)
<1> DEFINE e == <<>>
<1>1. e \in Seq(Byte) /\ Len(e) = 0 /\ 1 .. 0 = {}
  OBVIOUS
<1> HIDE DEF e
<1>2. Segment(e, a)
  BY <1>1 DEF Segment
<1> QED BY <1>2 DEF e

\* A message is a part.
LEMMA SegmentMessage ==
  ASSUME Conforming, NEW i \in 1 .. Len(Script)
  PROVE  Segment(BytesOf(1, i), Offset[i]) /\ Len(BytesOf(1, i)) = Size(i)
<1> DEFINE body == Script[i].body
           byte(part, pos) == [conn |-> 1, msg |-> i, part |-> part, pos |-> pos]
           h == <<byte("name", 0), byte("end", 0)>>
           t == [p \in 1 .. Len(body) |-> byte(body[p], p)]
<1>1. Len(body) \in Nat /\ \A p \in 1 .. Len(body) : body[p] = "n"
  BY BodyType DEF Conforming
<1>2. 1 \in 1 .. MaxResets + 1
  BY ScriptAssumption
<1>3. \A part \in Part, pos \in Nat :
        /\ byte(part, pos) \in Byte
        /\ byte(part, pos).conn = 1 /\ byte(part, pos).msg = i
        /\ byte(part, pos).part = part /\ byte(part, pos).pos = pos
  BY <1>2 DEF Byte
<1> HIDE DEF byte, body
<1>4. /\ Genuine(byte("name", 0)) /\ Index(byte("name", 0)) = Offset[i] + 1
      /\ Genuine(byte("end", 0)) /\ Index(byte("end", 0)) = Offset[i] + 2
  BY <1>3 DEF Genuine, Index, Place, Part
<1>5. ASSUME NEW p \in 1 .. Len(body)
      PROVE  Genuine(byte(body[p], p)) /\ Index(byte(body[p], p)) = Offset[i] + (p + 2)
  <2>1. body[p] = "n" /\ "n" \in Part /\ p \in Nat
    BY <1>1 DEF Part
  <2> QED BY <1>3, <2>1 DEF Genuine, Index, Place, body
<1>6. Offset[i] \in Nat
  BY OffsetFacts, ScriptLength
<1>7. /\ h \in Seq(Byte) /\ Len(h) = 2 /\ h[1] = byte("name", 0) /\ h[2] = byte("end", 0)
  BY <1>3 DEF Part
<1>8. /\ t \in Seq(Byte) /\ Len(t) = Len(body)
      /\ \A p \in 1 .. Len(body) : t[p] = byte(body[p], p)
  <2>1. \A p \in 1 .. Len(body) : byte(body[p], p) \in Byte
    BY <1>5 DEF Genuine
  <2>2. t \in [1 .. Len(body) -> Byte] /\ \A p \in 1 .. Len(body) : t[p] = byte(body[p], p)
    BY <2>1
  <2> HIDE DEF t
  <2> QED BY <1>1, <2>2
<1> HIDE DEF h, t
<1>9. Segment(h, Offset[i])
  <2>1. \A k \in 1 .. 2 : k = 1 \/ k = 2
    OBVIOUS
  <2> QED BY <1>4, <1>6, <1>7, <2>1 DEF Segment
<1>10. Segment(t, Offset[i] + Len(h))
  <2>1. Offset[i] + Len(h) \in Nat
    BY <1>6, <1>7
  <2>2. ASSUME NEW p \in 1 .. Len(t) PROVE Genuine(t[p]) /\ Index(t[p]) = Offset[i] + Len(h) + p
    <3>1. p \in 1 .. Len(body) /\ t[p] = byte(body[p], p) /\ p \in Nat
      BY <1>1, <1>8
    <3>2. Genuine(t[p]) /\ Index(t[p]) = Offset[i] + (p + 2)
      BY <1>5, <3>1
    <3>3. Offset[i] + (p + 2) = Offset[i] + Len(h) + p
      BY <1>6, <1>7, <3>1
    <3> QED BY <3>2, <3>3
  <2> QED BY <1>8, <2>1, <2>2 DEF Segment
<1>11. Segment(h \o t, Offset[i]) /\ Len(h \o t) = Len(h) + Len(t)
  BY <1>9, <1>10, SegmentJoin
<1>12. BytesOf(1, i) = h \o t
  BY DEF BytesOf, h, t, byte, body
<1>13. Len(h) + Len(t) = Size(i)
  BY <1>1, <1>7, <1>8 DEF Size, body
<1> QED BY <1>11, <1>12, <1>13

\* CharsOf leaves nothing out where every character is one byte.
LEMMA CharsSame ==
  ASSUME NEW bytes \in Seq(Byte), \A i \in 1 .. Len(bytes) : bytes[i].part # "cont"
  PROVE  CharsOf(bytes) = bytes
<1> DEFINE N == Len(bytes)
<1>1. N \in Nat /\ \A i \in 1 .. N : bytes[i] \in Byte
  OBVIOUS
<1>2. PICK f : Counts(bytes, f, N) /\ CharsOf(bytes) = f[N]
  BY <1>1, CharsUnfold
<1>3. \A i \in 0 .. N : f[i] = CharsStep(bytes, f, i)
  BY <1>1, <1>2 DEF Counts
<1> DEFINE Same(n) == /\ f[n] \in Seq(Byte) /\ Len(f[n]) = n
                      /\ \A i \in 1 .. n : f[n][i] = bytes[i]
           T == {n \in 0 .. N : ~Same(n)}
<1>4. T = {}
  <2> SUFFICES ASSUME T # {} PROVE FALSE
    OBVIOUS
  <2> HIDE DEF Same
  <2>1. T \subseteq Nat
    BY <1>1
  <2>2. PICK n \in T : \A m \in T : n <= m
    BY <2>1, Least
  <2>3. n \in 0 .. N /\ n \in Nat /\ ~Same(n)
    BY <2>1
  <2>4. CASE n = 0
    <3> DEFINE e == <<>>
    <3>1. f[0] = e
      BY <1>3, <2>3, <2>4 DEF CharsStep
    <3>2. e \in Seq(Byte) /\ Len(e) = 0 /\ 1 .. 0 = {}
      OBVIOUS
    <3> HIDE DEF e
    <3>3. Same(0)
      BY <3>1, <3>2 DEF Same
    <3> QED BY <2>3, <2>4, <3>3
  <2>5. CASE n # 0
    <3>1. n - 1 \in 0 .. N /\ n \in 1 .. N /\ ~(n <= n - 1)
      BY <1>1, <2>3, <2>5
    <3>2. Same(n - 1)
      BY <2>2, <3>1
    <3> DEFINE g == f[n - 1]
    <3>3. g \in Seq(Byte) /\ Len(g) = n - 1 /\ \A i \in 1 .. n - 1 : g[i] = bytes[i]
      BY <3>2 DEF Same
    <3>4. f[n] = Append(g, bytes[n]) /\ bytes[n] \in Byte
      BY <1>1, <1>3, <2>3, <2>5, <3>1 DEF CharsStep
    <3> HIDE DEF g
    <3> DEFINE h == Append(g, bytes[n])
    <3>5. /\ h \in Seq(Byte) /\ Len(h) = Len(g) + 1 /\ h[Len(g) + 1] = bytes[n]
          /\ \A i \in 1 .. Len(g) : h[i] = g[i]
      BY <3>3, <3>4
    <3> HIDE DEF h
    <3>6. Len(h) = n /\ h[n] = bytes[n] /\ \A i \in 1 .. n - 1 : h[i] = bytes[i]
      BY <2>3, <3>3, <3>5
    <3>7. \A i \in 1 .. n : i = n \/ i \in 1 .. n - 1
      BY <2>3
    <3>8. f[n] = h
      BY <3>4 DEF h
    <3>9. Same(n)
      BY <3>5, <3>6, <3>7, <3>8 DEF Same
    <3> QED BY <2>3, <3>9
  <2> QED BY <2>4, <2>5
<1>5. Same(N)
  <2> HIDE DEF Same
  <2>1. N \in 0 .. N
    BY <1>1
  <2> QED BY <1>4, <2>1
<1> DEFINE g == f[N]
<1>6. g \in Seq(Byte) /\ Len(g) = Len(bytes) /\ \A i \in 1 .. Len(g) : g[i] = bytes[i]
  BY <1>5
<1> HIDE DEF g
<1>7. g = bytes
  BY <1>6, SeqEqual
<1> QED BY <1>2, <1>7 DEF g

\* A part is decoded as it is.
LEMMA SegmentDecode ==
  ASSUME NEW s, NEW a, Segment(s, a), s # <<>>
  PROVE  Decode(s) = s /\ CharsOf(s) = s
<1>1. s \in Seq(Byte) /\ 1 \in 1 .. Len(s) /\ Len(s) \in 1 .. Len(s)
  BY DEF Segment
<1>2. \A k \in 1 .. Len(s) : s[k].part \in {"name", "end", "n"}
  BY DEF Segment, Genuine
<1>3. CharsOf(s) = s
  BY <1>1, <1>2, CharsSame
<1> QED BY <1>1, <1>2, <1>3 DEF Decode

-----------------------------------------------------------------------------
(* A message in the buffer                                                  *)

\* Two parts of the same place and length are the same.
LEMMA SegmentSame ==
  ASSUME NEW s, NEW t, NEW a, Segment(s, a), Segment(t, a), Len(s) = Len(t)
  PROVE  s = t
<1>1. s \in Seq(Byte) /\ t \in Seq(Byte)
  BY DEF Segment
<1>2. \A k \in 1 .. Len(s) : s[k] = t[k]
  BY ByteAt DEF Segment
<1> QED BY <1>1, <1>2, SeqEqual

\* The first bytes of what begins with message i.
LEMMA FrontFacts ==
  ASSUME NEW s, NEW i \in 1 .. Len(Script), Segment(s, Offset[i]),
         NEW k \in 1 .. Len(s), k <= Size(i)
  PROVE  /\ s[k] \in Byte /\ s[k].conn = 1 /\ s[k].msg = i
         /\ k = 1 => s[k].part = "name"
         /\ k = 2 => s[k].part = "end"
         /\ k > 2 => s[k].part = "n" /\ s[k].pos = k - 2
<1>1. Genuine(s[k]) /\ Index(s[k]) = Offset[i] + k /\ k \in Nat
  BY DEF Segment
<1>2. Offset[i] \in Nat /\ Offset[i + 1] = Offset[i] + Size(i) /\ Size(i) \in Nat
  BY OffsetFacts, SizeFacts, ScriptLength
<1>3. s[k].msg = i
  BY <1>1, <1>2, MessageAt
<1>4. Place(s[k]) = k
  <2>1. Place(s[k]) \in 1 .. Size(i)
    BY <1>1, <1>3, IndexFacts
  <2>2. Offset[i] + Place(s[k]) = Offset[i] + k
    BY <1>1, <1>3 DEF Index
  <2> QED BY <1>1, <1>2, <2>1, <2>2
<1>5. s[k] \in Byte /\ s[k].conn = 1 /\ s[k].pos \in Nat
  BY <1>1 DEF Genuine, Byte
<1>6. \/ s[k].part = "name" \/ s[k].part = "end"
      \/ (s[k].part = "n" /\ s[k].pos > 0)
  BY <1>1, <1>5 DEF Genuine
<1> QED BY <1>1, <1>3, <1>4, <1>5, <1>6 DEF Place

\* The header section is whole when its end is there.
LEMMA FrontHeader ==
  ASSUME Conforming, NEW s, NEW i \in 1 .. Len(Script), Segment(s, Offset[i])
  PROVE  /\ Len(s) < 2 => HeaderSize(s) = 0
         /\ Len(s) >= 2 => HeaderSize(s) = 2 /\ HasContentLength(s) /\ s[1].msg = i
<1>1. Len(s) \in Nat /\ Size(i) \in Nat /\ Size(i) >= 2
  BY SizeFacts DEF Segment
<1>2. /\ HeaderSize(s) \in 0 .. Len(s)
      /\ HeaderSize(s) # 0 => s[HeaderSize(s)].part = "end"
      /\ \A k \in 1 .. Len(s) : s[k].part = "end" => HeaderSize(s) \in 1 .. k
  BY <1>1, HeaderFacts
<1>3. 1 \in 1 .. Len(s) => s[1].part = "name" /\ s[1].conn = 1 /\ s[1].msg = i
  BY <1>1, FrontFacts
<1>4. CASE Len(s) < 2
  BY <1>1, <1>2, <1>3, <1>4
<1>5. CASE Len(s) >= 2
  <2>1. 1 \in 1 .. Len(s) /\ 2 \in 1 .. Len(s)
    BY <1>1, <1>5
  <2>2. s[2].part = "end" /\ s[2].conn = 1 /\ s[2].msg = i
    BY <1>1, <2>1, FrontFacts
  <2>3. HeaderSize(s) \in 1 .. 2
    BY <1>2, <2>1, <2>2
  <2>4. HeaderSize(s) = 2
    BY <1>2, <1>3, <2>1, <2>3
  <2>5. HasContentLength(s)
    BY <1>3, <2>1, <2>2, <2>4 DEF HasContentLength, Conforming
  <2> QED BY <1>1, <1>3, <1>5, <2>1, <2>4, <2>5
<1> QED BY <1>1, <1>4, <1>5

\* A message that is not whole stays in the buffer.
LEMMA PartStays ==
  ASSUME Conforming, NEW s, NEW i \in 1 .. Len(Script), Segment(s, Offset[i]), Len(s) < Size(i)
  PROVE  DoProcessBuffer(s) = Nothing(s)
<1>1. Len(s) \in Nat /\ Len(Script[i].body) \in Nat
  BY BodyType DEF Segment
<1>2. CASE Len(s) < 2
  <2>1. HeaderSize(s) = 0
    BY <1>2, FrontHeader
  <2> QED BY <2>1 DEF DoProcessBuffer
<1>3. CASE Len(s) >= 2
  <2>1. HeaderSize(s) = 2 /\ HasContentLength(s) /\ s[1].msg = i
    BY <1>3, FrontHeader
  <2>2. 2 + Len(Script[i].body) > Len(s)
    BY <1>1 DEF Size
  <2>3. 2 > 0 /\ ~(2 = 0)
    OBVIOUS
  <2> QED BY <2>1, <2>2, <2>3 DEF DoProcessBuffer
<1> QED BY <1>1, <1>2, <1>3

\* One that is whole is cut out of it, and is read as the message it is.
LEMMA WholeIsCut ==
  ASSUME Conforming, NEW s, NEW i \in 1 .. Len(Script), Segment(s, Offset[i]), Len(s) >= Size(i)
  PROVE  LET r == DoProcessBuffer(s)
         IN  /\ r.rest = SubSeq(s, Size(i) + 1, Len(s)) /\ r.found
             /\ r.payload[1].pos = 1 /\ r.payload[1].conn = 1 /\ r.payload[1].msg = i
             /\ Parses(r.payload, 1, i)
<1> DEFINE msglen == Len(Script[i].body)
           rest == SubSeq(s, Size(i) + 1, Len(s))
           payload == SubSeq(s, 3, Size(i))
           message == BytesOf(1, i)
           body == BodyOf(1, i)
<1>1. /\ Len(s) \in Nat /\ msglen \in Nat /\ msglen > 0 /\ Size(i) = msglen + 2
      /\ Size(i) \in Nat /\ Len(s) >= 2 /\ 3 <= Size(i)
  BY BodyType DEF Segment, Size, Conforming
<1>2. HeaderSize(s) = 2 /\ HasContentLength(s) /\ s[1].msg = i
  BY <1>1, FrontHeader
<1>3. DoProcessBuffer(s) = [rest |-> rest, found |-> TRUE, payload |-> payload]
  <2>1. /\ 2 + msglen + 1 = Size(i) + 1 /\ 2 + msglen = Size(i) /\ 2 + 1 = 3
        /\ ~(2 = 0) /\ 2 > 0 /\ ~(msglen = 0) /\ ~(2 + msglen > Len(s))
    BY <1>1
  <2> HIDE DEF msglen
  <2>2. DoProcessBuffer(s) =
          [rest |-> SubSeq(s, 2 + msglen + 1, Len(s)), found |-> TRUE,
           payload |-> SubSeq(s, 2 + 1, 2 + msglen)]
    BY <1>2, <2>1 DEF DoProcessBuffer, msglen
  <2> QED BY <2>1, <2>2
<1>4. Offset[i] \in Nat
  BY OffsetFacts, ScriptLength
<1>5. Segment(payload, Offset[i] + 3 - 1) /\ Len(payload) = Size(i) - 3 + 1
  <2>1. 3 \in Nat \ {0} /\ Size(i) <= Len(s) /\ 3 <= Size(i) + 1
    BY <1>1
  <2> QED BY <1>1, <2>1, SegmentPart
<1>6. /\ payload[1] \in Byte /\ payload[1].conn = 1 /\ payload[1].msg = i
      /\ payload[1].part = "n" /\ payload[1].pos = 1
  <2>1. 3 \in 1 .. Len(s) /\ 3 > 2 /\ 3 - 2 = 1
    BY <1>1
  <2>2. s[3] \in Byte /\ s[3].conn = 1 /\ s[3].msg = i /\ s[3].part = "n" /\ s[3].pos = 1
    BY <1>1, <2>1, FrontFacts
  <2>3. payload[1] = s[3]
    <3>1. \A k \in 3 .. Size(i) : s[k] \in Byte
      BY <1>1 DEF Segment
    <3>2. 3 \in Int /\ Size(i) \in Int /\ 1 \in 1 .. Size(i) - 3 + 1 /\ 3 + 1 - 1 = 3
      BY <1>1
    <3>3. \A k \in 1 .. Size(i) - 3 + 1 : payload[k] = s[3 + k - 1]
      BY <3>1, <3>2, SubSeqProperties
    <3> QED BY <3>2, <3>3
  <2> QED BY <2>2, <2>3
<1>7. Segment(message, Offset[i]) /\ Len(message) = Size(i)
  BY SegmentMessage
<1>8. message # <<>>
  <2>1. Len(message) # 0
    BY <1>1, <1>7
  <2>2. Len(<<>>) = 0
    OBVIOUS
  <2> HIDE DEF message
  <2> QED BY <2>1, <2>2
<1>9. CharsOf(message) = message
  BY <1>7, <1>8, SegmentDecode
<1>10. body = SubSeq(message, 3, Size(i))
  BY <1>7, <1>9 DEF BodyOf
<1> HIDE DEF message, payload, rest, body
<1>11. Segment(body, Offset[i] + 3 - 1) /\ Len(body) = Size(i) - 3 + 1
  <2>1. 3 \in Nat \ {0} /\ Size(i) <= Len(message) /\ 3 <= Size(i) + 1
    BY <1>1, <1>7
  <2> QED BY <1>1, <1>7, <1>10, <2>1, SegmentPart
<1>12. payload = body
  BY <1>5, <1>11, SegmentSame
<1>13. Parses(payload, 1, i)
  <2>1. payload \in Seq(Byte)
    BY <1>5 DEF Segment
  <2>2. SubSeq(payload, 1, Len(payload)) = payload
    BY <2>1, SubSeqFull
  <2>3. Len(body) > 0 /\ Len(body) <= Len(payload)
    BY <1>1, <1>11, <1>12
  <2> QED BY <1>12, <2>2, <2>3 DEF Parses, Conforming, body
<1> DEFINE r == DoProcessBuffer(s)
<1>14. r.rest = rest /\ r.found = TRUE /\ r.payload = payload
  BY <1>3
<1> HIDE DEF r
<1>15. r.payload[1].pos = 1 /\ r.payload[1].conn = 1 /\ r.payload[1].msg = i /\ Parses(r.payload, 1, i)
  BY <1>6, <1>13, <1>14
<1> QED BY <1>14, <1>15 DEF rest, r

-----------------------------------------------------------------------------
(* The invariant                                                            *)

\* The bytes before a string, and those that were read.
Start(s) == Index(s[1]) - 1
Reached == Offset[written + 1] - Len(wire)

\* The queued strings follow each other up to the bytes that were not read.
ChunksFollow ==
  \A k \in 1 .. Len(chunks) :
    /\ chunks[k] # <<>> /\ Segment(chunks[k], Start(chunks[k]))
    /\ Start(chunks[k]) + Len(chunks[k]) <= Reached
    /\ Start(chunks[k]) + Len(chunks[k]) =
         IF k = Len(chunks) THEN Reached ELSE Start(chunks[k + 1])

\* The buffer goes from the end of the last message delivered to the first of them.
BufferFollows ==
  /\ Segment(buffer, Offset[Len(delivered) + 1])
  /\ Offset[Len(delivered) + 1] + Len(buffer) <= Reached
  /\ Offset[Len(delivered) + 1] + Len(buffer) =
       IF chunks = <<>> THEN Reached ELSE Start(chunks[1])

\* The messages delivered are the first ones.
FirstDelivered ==
  /\ Len(delivered) <= written
  /\ \A k \in 1 .. Len(delivered) : delivered[k].msg = k

\* When no loop runs the buffer has no whole message.
NoneWhole == loops = 0 /\ Len(delivered) < Len(Script) => Len(buffer) < Size(Len(delivered) + 1)

\* The buffer, the strings that are queued and the bytes that were not read follow each
\* other in the stream, from the end of the last message delivered to the end of the
\* last one written.
FlowInv ==
  /\ TypeOK
  /\ FirstDelivered
  /\ Segment(wire, Reached)
  /\ BufferFollows
  /\ ChunksFollow
  /\ NoneWhole

\* The numbers in it.
LEMMA FlowTypes ==
  ASSUME FlowInv
  PROVE  /\ Len(Script) \in Nat
         /\ written \in Nat /\ written <= Len(Script) /\ written + 1 \in 1 .. Len(Script) + 1
         /\ Len(delivered) \in Nat /\ Len(delivered) + 1 \in 1 .. Len(Script) + 1
         /\ Len(wire) \in Nat /\ Len(buffer) \in Nat /\ Len(chunks) \in Nat /\ loops \in Nat
         /\ Offset[written + 1] \in Nat /\ Offset[Len(delivered) + 1] \in Nat
         /\ Reached \in Nat /\ Reached + Len(wire) = Offset[written + 1]
<1>1. /\ Len(Script) \in Nat /\ written \in 0 .. Len(Script) /\ Len(delivered) \in Nat
      /\ Len(wire) \in Nat /\ Len(buffer) \in Nat /\ Len(chunks) \in Nat /\ loops \in Nat
      /\ Len(delivered) <= written
  BY ScriptLength DEF FlowInv, FirstDelivered, TypeOK
<1>2. written + 1 \in 1 .. Len(Script) + 1 /\ Len(delivered) + 1 \in 1 .. Len(Script) + 1
  BY <1>1
<1>3. Offset[written + 1] \in Nat /\ Offset[Len(delivered) + 1] \in Nat
  BY <1>2, OffsetFacts
<1>4. Reached \in Nat
  BY DEF FlowInv, Segment
<1>5. Reached + Len(wire) = Offset[written + 1]
  BY <1>1, <1>3 DEF Reached
<1> QED BY <1>1, <1>2, <1>3, <1>4, <1>5

\* The first connection is the only one.
LEMMA OneConnection ==
  ASSUME MaxResets = 0, TypeOK PROVE conn = 1 /\ ~Reset
BY DEF TypeOK, Reset

\* Where nothing is queued or unqueued the strings follow each other as before,
LEMMA ChunksKept ==
  ASSUME ChunksFollow, chunks' = chunks, Reached' = Reached PROVE ChunksFollow'
<1> SUFFICES ASSUME NEW k \in 1 .. Len(chunks')
             PROVE  (/\ chunks[k] # <<>> /\ Segment(chunks[k], Start(chunks[k]))
                     /\ Start(chunks[k]) + Len(chunks[k]) <= Reached
                     /\ Start(chunks[k]) + Len(chunks[k]) =
                          IF k = Len(chunks) THEN Reached ELSE Start(chunks[k + 1]))'
  BY DEF ChunksFollow
<1>1. k \in 1 .. Len(chunks)
  OBVIOUS
<1>2. /\ chunks[k] # <<>> /\ Segment(chunks[k], Start(chunks[k]))
      /\ Start(chunks[k]) + Len(chunks[k]) <= Reached
      /\ Start(chunks[k]) + Len(chunks[k]) =
           IF k = Len(chunks) THEN Reached ELSE Start(chunks[k + 1])
  BY <1>1 DEF ChunksFollow
<1>3. Segment(chunks[k], Start(chunks[k]))'
  BY <1>2 DEF Segment, Genuine, Start, Index
<1>4. (Start(chunks[k]) + Len(chunks[k]) <= Reached)'
  BY <1>2 DEF Start, Index
<1>5. (Start(chunks[k]) + Len(chunks[k]) =
         IF k = Len(chunks) THEN Reached ELSE Start(chunks[k + 1]))'
  BY <1>2 DEF Start, Index
<1>6. chunks'[k] # <<>>
  BY <1>2
<1> QED BY <1>3, <1>4, <1>5, <1>6

\* and where the buffer is left alone too, so does it.
LEMMA BufferKept ==
  ASSUME BufferFollows, chunks' = chunks, Reached' = Reached, buffer' = buffer,
         delivered' = delivered
  PROVE  BufferFollows'
<1> DEFINE o == Offset[Len(delivered) + 1]
<1>1. o' = o
  OBVIOUS
<1>2. Segment(buffer, o) /\ o + Len(buffer) <= Reached
  BY DEF BufferFollows
<1>3. o + Len(buffer) = IF chunks = <<>> THEN Reached ELSE Start(chunks[1])
  BY DEF BufferFollows
<1> HIDE DEF o
<1>4. Segment(buffer, o)'
  BY <1>1, <1>2 DEF Segment, Genuine, Index
<1>5. (o + Len(buffer) = IF chunks = <<>> THEN Reached ELSE Start(chunks[1]))'
  BY <1>1, <1>3 DEF Start, Index
<1>6. (o + Len(buffer) <= Reached)'
  BY <1>1, <1>2
<1> QED BY <1>4, <1>5, <1>6 DEF BufferFollows, o

\* The adapter writes.
LEMMA WritesFlow ==
  ASSUME Conforming, MaxResets = 0, FlowInv, TypeOK', AdapterWrites PROVE FlowInv'
<1> DEFINE i == written + 1
           s == BytesOf(1, i)
<1>1. conn = 1
  BY OneConnection DEF FlowInv
<1>2. /\ written < Len(Script) /\ written' = written + 1 /\ wire' = wire \o s
      /\ UNCHANGED <<chunks, buffer, loops, inCallback, delivered>>
  BY <1>1 DEF AdapterWrites
<1>3. /\ i \in 1 .. Len(Script) /\ Len(wire) \in Nat /\ Reached \in Nat
      /\ Reached + Len(wire) = Offset[i] /\ Offset[i] \in Nat
      /\ Len(delivered) \in Nat /\ written \in Nat
  BY <1>2, FlowTypes
<1>4. Segment(s, Offset[i]) /\ Len(s) = Size(i) /\ Size(i) \in Nat
  BY <1>3, SegmentMessage, SizeFacts
<1>5. Offset[i + 1] = Offset[i] + Size(i)
  BY <1>3, OffsetFacts
<1> HIDE DEF s
<1>6. Segment(wire', Reached) /\ Len(wire') = Len(wire) + Size(i)
  <2>1. Segment(wire, Reached)
    BY DEF FlowInv
  <2>2. Segment(s, Reached + Len(wire))
    BY <1>3, <1>4
  <2> QED BY <1>2, <1>4, <2>1, <2>2, SegmentJoin
<1>7. Reached' = Reached
  <2>1. written' + 1 = i + 1
    BY <1>2
  <2> QED BY <1>3, <1>4, <1>5, <1>6, <2>1 DEF Reached
<1>8. Len(delivered') <= written'
  BY <1>2, <1>3 DEF FlowInv, FirstDelivered
<1>11. FirstDelivered'
  BY <1>2, <1>8 DEF FlowInv, FirstDelivered
<1>12. ChunksFollow'
  BY <1>2, <1>7, ChunksKept DEF FlowInv
<1>13. BufferFollows'
  BY <1>2, <1>7, BufferKept DEF FlowInv
<1>14. NoneWhole'
  BY <1>2 DEF FlowInv, NoneWhole
<1>15. Segment(wire, Reached)'
  BY <1>6, <1>7 DEF Segment, Genuine, Index
<1> QED BY <1>11, <1>12, <1>13, <1>14, <1>15 DEF FlowInv

\* A string that is queued begins where the reader had come to.
LEMMA StartFacts ==
  ASSUME NEW s, NEW a, Segment(s, a), s # <<>>
  PROVE  Start(s) = a
<1>1. 1 \in 1 .. Len(s) /\ a \in Nat
  BY DEF Segment
<1>2. Index(s[1]) = a + 1
  BY <1>1 DEF Segment
<1> QED BY <1>1, <1>2 DEF Start

\* The reader thread reads.
LEMMA ReadsFlow ==
  ASSUME FlowInv, TypeOK', ReaderReads PROVE FlowInv'
<1>1. PICK k \in 1 .. MaxChunk :
        /\ k <= Len(wire) /\ wire' = SubSeq(wire, k + 1, Len(wire))
        /\ chunks' = IF Decode(SubSeq(wire, 1, k)) = <<>> THEN chunks
                     ELSE Append(chunks, Decode(SubSeq(wire, 1, k)))
  BY DEF ReaderReads
<1>2. UNCHANGED <<conn, written, buffer, loops, inCallback, delivered>>
  BY DEF ReaderReads
<1> DEFINE s == SubSeq(wire, 1, k)
<1>3. /\ Len(wire) \in Nat /\ k \in Nat /\ k >= 1 /\ Reached \in Nat
      /\ Len(chunks) \in Nat /\ Len(buffer) \in Nat
      /\ Offset[written + 1] \in Nat /\ Reached + Len(wire) = Offset[written + 1]
      /\ Offset[Len(delivered) + 1] \in Nat
  BY <1>1, FlowTypes, ScriptAssumption
<1>4. Segment(s, Reached) /\ Len(s) = k
  <2>1. 1 \in Nat \ {0} /\ 1 <= k + 1 /\ Segment(wire, Reached)
    BY <1>3 DEF FlowInv
  <2>2. Segment(s, Reached + 1 - 1) /\ Len(s) = k - 1 + 1
    BY <1>1, <1>3, <2>1, SegmentPart
  <2>3. Reached + 1 - 1 = Reached /\ k - 1 + 1 = k
    BY <1>3
  <2> QED BY <2>2, <2>3
<1>5. Segment(wire', Reached + k) /\ Len(wire') = Len(wire) - k
  <2>1. k + 1 \in Nat \ {0} /\ k + 1 <= Len(wire) + 1 /\ Segment(wire, Reached)
    BY <1>1, <1>3 DEF FlowInv
  <2>2. /\ Segment(wire', Reached + (k + 1) - 1)
        /\ Len(wire') = Len(wire) - (k + 1) + 1
    BY <1>1, <1>3, <2>1, SegmentPart
  <2>3. Reached + (k + 1) - 1 = Reached + k /\ Len(wire) - (k + 1) + 1 = Len(wire) - k
    BY <1>3
  <2> QED BY <2>2, <2>3
<1> HIDE DEF s
<1>6. s # <<>>
  <2>1. Len(<<>>) = 0
    OBVIOUS
  <2> QED BY <1>3, <1>4, <2>1
<1>7. Start(s) = Reached /\ Decode(s) = s
  BY <1>4, <1>6, StartFacts, SegmentDecode
<1>8. chunks' = Append(chunks, s)
  BY <1>1, <1>6, <1>7 DEF s
<1>9. Reached' = Reached + k
  BY <1>2, <1>3, <1>5 DEF Reached
<1> DEFINE n == Len(chunks)
<1>10. /\ Len(chunks') = n + 1 /\ chunks'[n + 1] = s
       /\ \A l \in 1 .. n : chunks'[l] = chunks[l]
       /\ chunks' # <<>>
  <2>1. chunks \in Seq(Seq(Char)) /\ s \in Seq(Byte)
    BY <1>4 DEF FlowInv, TypeOK, Segment
  <2>2. chunks \in Seq(Seq(Char) \cup {s})
    BY <2>1
  <2> QED BY <1>8, <2>2
<1> HIDE DEF n
<1>11. ASSUME NEW l \in 1 .. Len(chunks')
       PROVE  /\ chunks'[l] # <<>> /\ Segment(chunks'[l], Start(chunks'[l]))
              /\ Start(chunks'[l]) + Len(chunks'[l]) <= Reached'
              /\ Start(chunks'[l]) + Len(chunks'[l]) =
                   IF l = Len(chunks') THEN Reached' ELSE Start(chunks'[l + 1])
  <2>1. CASE l = n + 1
    BY <1>3, <1>4, <1>6, <1>7, <1>9, <1>10, <2>1
  <2>2. CASE l # n + 1
    <3>1. l \in 1 .. n /\ chunks'[l] = chunks[l] /\ l # Len(chunks')
      BY <1>3, <1>10, <2>2 DEF n
    <3>2. /\ chunks[l] # <<>> /\ Segment(chunks[l], Start(chunks[l]))
          /\ Start(chunks[l]) + Len(chunks[l]) <= Reached
          /\ Start(chunks[l]) + Len(chunks[l]) =
               IF l = n THEN Reached ELSE Start(chunks[l + 1])
      BY <3>1 DEF FlowInv, ChunksFollow, n
    <3>3. Start(chunks[l]) + Len(chunks[l]) \in Nat
      BY <3>2 DEF Segment
    <3>4. Start(chunks'[l]) + Len(chunks'[l]) <= Reached'
      BY <1>3, <1>9, <3>1, <3>2, <3>3
    <3>5. l # n => l + 1 \in 1 .. n
      BY <1>3, <3>1 DEF n
    <3>6. Start(chunks[l]) + Len(chunks[l]) = Start(chunks'[l + 1])
      BY <1>7, <1>10, <3>2, <3>5
    <3> QED BY <3>1, <3>2, <3>4, <3>6
  <2> QED BY <2>1, <2>2
<1>12. /\ Offset[Len(delivered') + 1] + Len(buffer') <= Reached'
       /\ Offset[Len(delivered') + 1] + Len(buffer') =
            IF chunks' = <<>> THEN Reached' ELSE Start(chunks'[1])
  <2>1. Offset[Len(delivered) + 1] + Len(buffer) <= Reached
    BY DEF FlowInv, BufferFollows
  <2>2. Offset[Len(delivered) + 1] + Len(buffer) = IF chunks = <<>> THEN Reached ELSE Start(chunks[1])
    BY DEF FlowInv, BufferFollows
  <2>3. CASE chunks = <<>>
    <3>1. n = 0
      BY <2>3 DEF n
    <3> QED BY <1>2, <1>3, <1>7, <1>9, <1>10, <2>1, <2>2, <2>3, <3>1
  <2>4. CASE chunks # <<>>
    <3>1. 1 \in 1 .. n
      <4>1. chunks \in Seq(Seq(Char))
        BY DEF FlowInv, TypeOK
      <4> QED BY <2>4, <4>1 DEF n
    <3> QED BY <1>2, <1>3, <1>9, <1>10, <2>1, <2>2, <2>4, <3>1
  <2> QED BY <2>3, <2>4
<1>13. Segment(wire', Reached')
  BY <1>5, <1>9
<1>14. FirstDelivered' /\ NoneWhole'
  BY <1>2 DEF FlowInv, FirstDelivered, NoneWhole
<1>15. ChunksFollow'
  BY <1>11 DEF ChunksFollow, Start, Index, Segment, Genuine
<1>16. BufferFollows'
  <2>1. Segment(buffer, Offset[Len(delivered) + 1])
    BY DEF FlowInv, BufferFollows
  <2>2. Segment(buffer', Offset[Len(delivered') + 1])
    BY <1>2, <2>1
  <2> QED BY <1>12, <2>2 DEF BufferFollows, Start, Index, Segment, Genuine
<1>17. Segment(wire, Reached)'
  BY <1>13 DEF Segment, Genuine, Index
<1> QED BY <1>14, <1>15, <1>16, <1>17 DEF FlowInv

\* A string is appended to the buffer.
LEMMA OnDataReadFlow ==
  ASSUME FlowInv, TypeOK', OnDataRead PROVE FlowInv'
<1> DEFINE s == chunks[1]
           n == Len(chunks)
           o == Offset[Len(delivered) + 1]
<1>1. /\ chunks # <<>> /\ chunks' = Tail(chunks) /\ buffer' = buffer \o Head(chunks)
      /\ loops' = loops + 1
      /\ UNCHANGED <<conn, written, wire, delivered>>
  BY DEF OnDataRead
<1>2. chunks \in Seq(Seq(Char))
  BY DEF FlowInv, TypeOK
<1>3. /\ n \in Nat /\ n >= 1 /\ Head(chunks) = s
      /\ Len(chunks') = n - 1
      /\ \A k \in 1 .. n - 1 : chunks'[k] = chunks[k + 1]
  BY <1>1, <1>2, HeadTailProperties
<1>4. /\ Reached \in Nat /\ Reached' = Reached /\ o \in Nat /\ Len(buffer) \in Nat /\ loops \in Nat
      /\ Offset[Len(delivered') + 1] = o
  BY <1>1, FlowTypes DEF Reached
<1> HIDE DEF n, s, o
<1>5. \A k \in 1 .. n :
        /\ chunks[k] # <<>> /\ Segment(chunks[k], Start(chunks[k]))
        /\ Start(chunks[k]) + Len(chunks[k]) <= Reached
        /\ Start(chunks[k]) + Len(chunks[k]) = IF k = n THEN Reached ELSE Start(chunks[k + 1])
  BY DEF FlowInv, ChunksFollow, n
<1>6. /\ Segment(buffer, o) /\ Start(s) = o + Len(buffer)
  BY <1>1 DEF FlowInv, BufferFollows, s, o
<1>7. /\ s # <<>> /\ Segment(s, o + Len(buffer))
      /\ Start(s) + Len(s) <= Reached
      /\ Start(s) + Len(s) = IF 1 = n THEN Reached ELSE Start(chunks[2])
  <2>1. 1 \in 1 .. n /\ 1 + 1 = 2
    BY <1>3
  <2> QED BY <1>5, <1>6, <2>1 DEF s
<1>8. Segment(buffer', o) /\ Len(buffer') = Len(buffer) + Len(s)
  BY <1>1, <1>3, <1>6, <1>7, SegmentJoin
<1>9. Len(s) \in Nat
  BY <1>7 DEF Segment
<1>10. o + Len(buffer') = Start(s) + Len(s)
  BY <1>4, <1>6, <1>8, <1>9
<1>11. /\ o + Len(buffer') <= Reached
       /\ o + Len(buffer') = IF chunks' = <<>> THEN Reached ELSE Start(chunks'[1])
  <2>1. chunks' \in Seq(Seq(Char))
    BY DEF TypeOK
  <2>2. CASE n = 1
    <3>1. chunks' = <<>>
      BY <1>3, <2>1, <2>2
    <3> QED BY <1>7, <1>10, <2>2, <3>1
  <2>3. CASE n # 1
    <3>1. chunks' # <<>>
      BY <1>3, <2>1, <2>3
    <3>2. chunks'[1] = chunks[2]
      BY <1>3, <2>3
    <3> QED BY <1>7, <1>10, <2>3, <3>1, <3>2
  <2> QED BY <2>2, <2>3
<1>12. ASSUME NEW k \in 1 .. Len(chunks')
       PROVE  /\ chunks'[k] # <<>> /\ Segment(chunks'[k], Start(chunks'[k]))
              /\ Start(chunks'[k]) + Len(chunks'[k]) <= Reached
              /\ Start(chunks'[k]) + Len(chunks'[k]) =
                   IF k = Len(chunks') THEN Reached ELSE Start(chunks'[k + 1])
  <2>1. k \in 1 .. n - 1 /\ k + 1 \in 1 .. n /\ (k + 1 = n <=> k = Len(chunks'))
    BY <1>3
  <2>2. chunks'[k] = chunks[k + 1]
    BY <1>3, <2>1
  <2>3. CASE k + 1 = n
    BY <1>5, <2>1, <2>2, <2>3
  <2>4. CASE k + 1 # n
    <3>1. k + 1 \in 1 .. n - 1
      BY <1>3, <2>1, <2>4
    <3>2. chunks'[k + 1] = chunks[k + 1 + 1]
      BY <1>3, <3>1
    <3> QED BY <1>5, <2>1, <2>2, <2>4, <3>2
  <2> QED BY <2>3, <2>4
<1>13. loops' # 0
  BY <1>1, <1>4
<1>14. /\ Segment(wire, Reached) /\ Len(delivered) <= written
       /\ \A k \in 1 .. Len(delivered) : delivered[k].msg = k
  BY DEF FlowInv, FirstDelivered
<1>15. FirstDelivered' /\ NoneWhole'
  BY <1>1, <1>13, <1>14 DEF FirstDelivered, NoneWhole
<1>16. ChunksFollow'
  BY <1>4, <1>12 DEF ChunksFollow, Start, Index, Segment, Genuine
<1>17. BufferFollows'
  BY <1>1, <1>4, <1>8, <1>11 DEF BufferFollows, Start, Index, Segment, Genuine
<1>18. Segment(wire, Reached)'
  BY <1>1, <1>4, <1>14 DEF Segment, Genuine, Index
<1> QED BY <1>15, <1>16, <1>17, <1>18 DEF FlowInv

\* After the last message there is nothing.
LEMMA NothingLeft ==
  ASSUME FlowInv, Len(delivered) = Len(Script)
  PROVE  Len(buffer) = 0
<1> SUFFICES ASSUME Len(buffer) # 0 PROVE FALSE
  OBVIOUS
<1> DEFINE b == buffer[1]
           N == Len(Script)
<1>1. /\ Len(buffer) \in Nat /\ N \in Nat /\ N + 1 \in 1 .. N + 1
      /\ Offset[N + 1] \in Nat /\ Segment(buffer, Offset[N + 1])
  BY FlowTypes DEF FlowInv, BufferFollows
<1>2. Genuine(b) /\ Index(b) = Offset[N + 1] + 1
  BY <1>1 DEF Segment
<1>3. b.msg \in 1 .. N /\ Index(b) \in Nat /\ Index(b) <= Offset[b.msg + 1]
  BY <1>2, IndexFacts
<1>4. b.msg < N + 1 /\ b.msg + 1 \in 1 .. N + 1
  BY <1>1, <1>3
<1>5. Offset[b.msg + 1] <= Offset[N + 1]
  BY <1>1, <1>3, <1>4, OffsetsGrow
<1>6. Offset[b.msg + 1] \in Nat
  BY <1>4, OffsetFacts
<1> QED BY <1>1, <1>2, <1>3, <1>5, <1>6

\* A turn of the loop of ProcessBuffer, if there is no whole message,
LEMMA NoMessageFlow ==
  ASSUME FlowInv, TypeOK', ProcessBuffer, DoProcessBuffer(buffer) = Nothing(buffer),
         Len(delivered) < Len(Script) => Len(buffer) < Size(Len(delivered) + 1)
  PROVE  FlowInv'
<1>1. DoProcessBuffer(buffer).rest = buffer /\ DoProcessBuffer(buffer).found = FALSE
  BY DEF Nothing
<1>2. /\ buffer' = buffer /\ delivered' = delivered
      /\ UNCHANGED <<conn, written, wire, chunks>>
  BY <1>1 DEF ProcessBuffer
<1>3. Reached' = Reached
  BY <1>2 DEF Reached
<1>4. FirstDelivered'
  BY <1>2 DEF FlowInv, FirstDelivered
<1>5. NoneWhole'
  BY <1>2 DEF NoneWhole
<1>6. ChunksFollow'
  BY <1>2, <1>3, ChunksKept DEF FlowInv
<1>7. BufferFollows'
  BY <1>2, <1>3, BufferKept DEF FlowInv
<1>8. Segment(wire, Reached)'
  BY <1>2, <1>3 DEF FlowInv, Segment, Genuine, Index
<1> QED BY <1>4, <1>5, <1>6, <1>7, <1>8 DEF FlowInv

\* and if there is one.
LEMMA MessageFlow ==
  ASSUME Conforming, FlowInv, TypeOK', ProcessBuffer,
         Len(delivered) < Len(Script), Len(buffer) >= Size(Len(delivered) + 1)
  PROVE  FlowInv'
<1> DEFINE i == Len(delivered) + 1
           r == DoProcessBuffer(buffer)
           message == [conn |-> 1, msg |-> i]
<1>1. /\ i \in 1 .. Len(Script) /\ Len(buffer) \in Nat /\ loops \in Nat
      /\ written \in Nat /\ Reached \in Nat /\ Len(delivered) \in Nat
      /\ Offset[i] \in Nat /\ Size(i) \in Nat /\ Size(i) >= 2
      /\ Offset[i + 1] = Offset[i] + Size(i)
      /\ Offset[written + 1] \in Nat /\ Reached <= Offset[written + 1]
  <2>1. /\ Len(delivered) \in Nat /\ Len(Script) \in Nat /\ Len(buffer) \in Nat /\ loops \in Nat
        /\ written \in Nat /\ Reached \in Nat /\ Offset[i] \in Nat
        /\ Offset[written + 1] \in Nat /\ Len(wire) \in Nat
        /\ Reached + Len(wire) = Offset[written + 1]
    BY FlowTypes
  <2>2. i \in 1 .. Len(Script) /\ Reached <= Offset[written + 1]
    BY <2>1
  <2>3. /\ Size(i) \in Nat /\ Size(i) >= 2 /\ Offset[i + 1] = Offset[i] + Size(i)
    BY <2>2, SizeFacts, OffsetFacts
  <2> QED BY <2>1, <2>2, <2>3
<1>2. Segment(buffer, Offset[i])
  BY DEF FlowInv, BufferFollows
<1>3. /\ r.rest = SubSeq(buffer, Size(i) + 1, Len(buffer)) /\ r.found
      /\ r.payload[1].pos = 1 /\ r.payload[1].conn = 1 /\ r.payload[1].msg = i
      /\ Parses(r.payload, 1, i)
  BY <1>1, <1>2, WholeIsCut
<1>4. /\ loops > 0 /\ buffer' = r.rest /\ loops' = loops
      /\ delivered' = Append(delivered, message)
      /\ UNCHANGED <<conn, written, wire, chunks>>
  BY <1>3 DEF ProcessBuffer
<1> HIDE DEF r
<1>5. /\ Segment(buffer', Offset[i + 1]) /\ Len(buffer') = Len(buffer) - Size(i)
  <2>1. Size(i) + 1 \in Nat \ {0} /\ Size(i) + 1 <= Len(buffer) + 1 /\ Len(buffer) <= Len(buffer)
    BY <1>1
  <2>2. /\ Segment(buffer', Offset[i] + (Size(i) + 1) - 1)
        /\ Len(buffer') = Len(buffer) - (Size(i) + 1) + 1
    <3>1. buffer' = SubSeq(buffer, Size(i) + 1, Len(buffer))
      BY <1>3, <1>4
    <3> DEFINE m == Size(i) + 1
               n == Len(buffer)
    <3>2. m \in Nat \ {0} /\ n \in Nat /\ n <= Len(buffer) /\ m <= n + 1
      BY <1>1, <2>1
    <3> HIDE DEF m, n
    <3>3. /\ Segment(SubSeq(buffer, m, n), Offset[i] + m - 1)
          /\ Len(SubSeq(buffer, m, n)) = n - m + 1
      BY <1>2, <3>2, SegmentPart
    <3> QED BY <3>1, <3>3 DEF m, n
  <2>3. /\ Offset[i] + (Size(i) + 1) - 1 = Offset[i + 1]
        /\ Len(buffer) - (Size(i) + 1) + 1 = Len(buffer) - Size(i)
    BY <1>1
  <2> QED BY <2>2, <2>3
<1>6. Offset[i + 1] + Len(buffer') = Offset[i] + Len(buffer)
  BY <1>1, <1>5
<1> HIDE DEF message, i
<1>7. /\ Len(delivered') = i
      /\ \A k \in 1 .. i : delivered'[k].msg = k
  <2>1. /\ delivered \in Seq([conn : 1 .. MaxResets + 1, msg : 1 .. Len(Script)])
        /\ \A k \in 1 .. Len(delivered) : delivered[k].msg = k
    BY DEF FlowInv, FirstDelivered, TypeOK
  <2>2. message \in [conn : 1 .. MaxResets + 1, msg : 1 .. Len(Script)] /\ message.msg = i
    BY <1>1, ScriptAssumption DEF message
  <2> DEFINE M == [conn : 1 .. MaxResets + 1, msg : 1 .. Len(Script)]
  <2> HIDE DEF M
  <2>3. /\ Len(delivered') = Len(delivered) + 1 /\ delivered'[Len(delivered) + 1] = message
        /\ \A k \in 1 .. Len(delivered) : delivered'[k] = delivered[k]
    BY <1>4, <2>1, <2>2
  <2>4. ASSUME NEW k \in 1 .. i PROVE delivered'[k].msg = k
    <3>1. CASE k = i
      BY <2>2, <2>3, <3>1 DEF i
    <3>2. CASE k # i
      <4>1. k \in 1 .. Len(delivered)
        BY <1>1, <3>2 DEF i
      <4> QED BY <2>1, <2>3, <4>1
    <3> QED BY <3>1, <3>2
  <2> QED BY <2>3, <2>4 DEF i
<1>8. /\ Offset[i] + Len(buffer) <= Reached
      /\ Offset[i] + Len(buffer) = IF chunks = <<>> THEN Reached ELSE Start(chunks[1])
      /\ Len(delivered) <= written
  BY DEF FlowInv, FirstDelivered, BufferFollows, i
<1>9. i <= written
  <2> SUFFICES ASSUME i = written + 1 PROVE FALSE
    BY <1>1, <1>8 DEF i
  <2>1. Offset[written + 1] = Offset[i]
    OBVIOUS
  <2>2. Len(buffer) >= Size(i)
    BY DEF i
  <2> QED BY <1>1, <1>8, <2>1, <2>2
<1>10. loops' # 0
  BY <1>1, <1>4
<1>11. Reached' = Reached
  BY <1>4 DEF Reached
<1>12. /\ Offset[Len(delivered') + 1] + Len(buffer') <= Reached'
       /\ Offset[Len(delivered') + 1] + Len(buffer') =
            IF chunks' = <<>> THEN Reached' ELSE Start(chunks'[1])
  BY <1>4, <1>6, <1>7, <1>8, <1>11
<1>13. FirstDelivered'
  BY <1>4, <1>7, <1>9 DEF FirstDelivered
<1>14. ChunksFollow' /\ NoneWhole'
  <2>1. NoneWhole'
    BY <1>10 DEF NoneWhole
  <2> QED BY <1>4, <1>11, <2>1, ChunksKept DEF FlowInv
<1>15. BufferFollows'
  BY <1>5, <1>7, <1>12 DEF BufferFollows, Start, Index, Segment, Genuine, i
<1>16. Segment(wire, Reached)'
  BY <1>4, <1>11 DEF FlowInv, Segment, Genuine, Index
<1> QED BY <1>13, <1>14, <1>15, <1>16 DEF FlowInv

\* Every turn of the loop.
LEMMA ProcessBufferFlow ==
  ASSUME Conforming, FlowInv, TypeOK', ProcessBuffer PROVE FlowInv'
<1> DEFINE i == Len(delivered) + 1
<1>1. /\ Len(delivered) \in Nat /\ Len(Script) \in Nat /\ Len(buffer) \in Nat
      /\ Len(delivered) <= Len(Script)
  BY FlowTypes DEF FlowInv, FirstDelivered
<1>2. CASE Len(delivered) = Len(Script)
  <2>1. Len(buffer) = 0
    BY <1>2, NothingLeft
  <2>2. HeaderSize(buffer) = 0
    BY <2>1, HeaderFacts
  <2>3. DoProcessBuffer(buffer) = Nothing(buffer)
    BY <2>2 DEF DoProcessBuffer
  <2> QED BY <1>1, <1>2, <2>3, NoMessageFlow
<1>3. CASE Len(delivered) < Len(Script)
  <2>1. i \in 1 .. Len(Script) /\ Segment(buffer, Offset[i]) /\ Size(i) \in Nat
    BY <1>1, <1>3, SizeFacts DEF FlowInv, BufferFollows
  <2>2. CASE Len(buffer) < Size(i)
    <3>1. DoProcessBuffer(buffer) = Nothing(buffer)
      BY <2>1, <2>2, PartStays
    <3> QED BY <2>2, <3>1, NoMessageFlow
  <2>3. CASE Len(buffer) >= Size(i)
    BY <1>3, <2>3, MessageFlow
  <2> QED BY <1>1, <2>1, <2>2, <2>3
<1> QED BY <1>1, <1>2, <1>3

\* Nothing was written in the beginning.
LEMMA FlowInit == ASSUME Init, TypeOK PROVE FlowInv
<1> DEFINE e == <<>>
<1>1. /\ written = 0 /\ wire = e /\ chunks = e /\ buffer = e /\ delivered = e /\ loops = 0
  BY DEF Init
<1>2. Len(e) = 0 /\ 1 .. 0 = {}
  OBVIOUS
<1>3. Offset[0 + 1] = 0 /\ 0 - 0 = 0
  BY OffsetFacts
<1>4. Segment(e, 0)
  BY SegmentEmpty
<1> HIDE DEF e
<1>5. Len(Script) \in Nat /\ (Len(Script) > 0 => 1 \in 1 .. Len(Script))
  BY ScriptLength
<1>6. Reached = 0
  BY <1>1, <1>2, <1>3 DEF Reached
<1>7. 0 < Len(Script) => Size(0 + 1) \in Nat /\ Size(0 + 1) >= 2
  BY <1>5, SizeFacts
<1>8. chunks = <<>>
  BY <1>1 DEF e
<1> QED BY <1>1, <1>2, <1>3, <1>4, <1>5, <1>6, <1>7, <1>8
        DEF FlowInv, FirstDelivered, BufferFollows, ChunksFollow, NoneWhole

\* Every step.
LEMMA FlowStep ==
  ASSUME Conforming, MaxResets = 0, FlowInv, TypeOK', [Next]_vars PROVE FlowInv'
<1>1. ~Reset
  BY OneConnection DEF FlowInv
<1>2. CASE AdapterWrites
  BY <1>2, WritesFlow
<1>3. CASE ReaderReads
  BY <1>3, ReadsFlow
<1>4. CASE OnDataRead
  BY <1>4, OnDataReadFlow
<1>5. CASE ProcessBuffer
  BY <1>5, ProcessBufferFlow
<1>6. CASE UNCHANGED vars
  <2>1. UNCHANGED <<written, wire, chunks, buffer, loops, delivered>>
    BY <1>6 DEF vars
  <2>2. Reached' = Reached
    BY <2>1 DEF Reached
  <2>3. FirstDelivered' /\ NoneWhole'
    BY <2>1 DEF FlowInv, FirstDelivered, NoneWhole
  <2>4. ChunksFollow' /\ BufferFollows'
    BY <2>1, <2>2, ChunksKept, BufferKept DEF FlowInv
  <2>5. Segment(wire, Reached)'
    BY <2>1, <2>2 DEF FlowInv, Segment, Genuine, Index
  <2> QED BY <2>3, <2>4, <2>5 DEF FlowInv
<1> QED BY <1>1, <1>2, <1>3, <1>4, <1>5, <1>6 DEF Next

-----------------------------------------------------------------------------
(* What follows from the invariant                                          *)

\* A byte after the beginning of message j is none of an earlier one.
LEMMA LaterByte ==
  ASSUME NEW b, Genuine(b), NEW j \in 1 .. Len(Script) + 1, Offset[j] < Index(b)
  PROVE  ~(b.msg < j)
<1> SUFFICES ASSUME b.msg < j PROVE FALSE
  OBVIOUS
<1>1. b.msg \in 1 .. Len(Script) /\ Index(b) \in Nat /\ Index(b) <= Offset[b.msg + 1]
  BY IndexFacts
<1>2. Offset[b.msg + 1] <= Offset[j]
  BY <1>1, OffsetsGrow
<1>3. b.msg + 1 \in 1 .. Len(Script) + 1
  BY <1>1, ScriptLength
<1>4. Offset[b.msg + 1] \in Nat /\ Offset[j] \in Nat
  BY <1>3, OffsetFacts
<1> QED BY <1>1, <1>2, <1>4

\* The last byte of the message after the last one delivered was not read when nothing
\* is left to do, nor that of a later one.
LEMMA NotRead ==
  ASSUME FlowInv, chunks = <<>>, loops = 0,
         NEW i \in 1 .. written, Len(delivered) < i
  PROVE  i \notin Read
<1> DEFINE d == Len(delivered)
           k == Offset[i + 1] - Reached
<1>1. /\ Len(Script) \in Nat /\ written \in Nat /\ written <= Len(Script)
      /\ d \in Nat /\ i \in Nat /\ Len(wire) \in Nat /\ Len(buffer) \in Nat
      /\ Offset[written + 1] \in Nat /\ Offset[d + 1] \in Nat /\ Reached \in Nat
      /\ Reached + Len(wire) = Offset[written + 1]
  BY FlowTypes
<1>2. /\ d + 1 \in 1 .. Len(Script) /\ i \in 1 .. Len(Script)
      /\ i + 1 \in 1 .. Len(Script) + 1 /\ d + 1 < i + 1
      /\ written + 1 \in 1 .. Len(Script) + 1 /\ i < written + 1
      /\ d + 1 + 1 \in 1 .. Len(Script) + 1
  BY <1>1
<1>3. /\ Size(d + 1) \in Nat /\ Offset[d + 1 + 1] = Offset[d + 1] + Size(d + 1)
      /\ Size(i) \in Nat /\ Size(i) >= 2 /\ Offset[i + 1] = Offset[i] + Size(i)
      /\ Offset[i] \in Nat /\ Offset[i + 1] \in Nat
  <2>1. i \in 1 .. Len(Script) + 1
    BY <1>1, <1>2
  <2> QED BY <1>2, <2>1, SizeFacts, OffsetFacts
<1>4. Offset[d + 1] + Len(buffer) = Reached /\ Len(buffer) < Size(d + 1)
  BY <1>1, <1>2 DEF FlowInv, BufferFollows, NoneWhole
<1>5. Offset[d + 1 + 1] <= Offset[i + 1]
  BY <1>2, OffsetsGrow
<1>6. Offset[i + 1] <= Offset[written + 1]
  BY <1>2, OffsetsGrow
<1> HIDE DEF d
<1>7. k \in 1 .. Len(wire) /\ Reached + k = Offset[i + 1]
  <2> DEFINE top == Offset[i + 1]
             front == Offset[d + 1]
             last == Offset[written + 1]
             size == Size(d + 1)
  <2>1. front + size <= top /\ top <= last
    BY <1>3, <1>5, <1>6
  <2>2. front + Len(buffer) = Reached /\ Len(buffer) < size /\ Reached + Len(wire) = last
    BY <1>1, <1>4
  <2>3. /\ front \in Nat /\ size \in Nat /\ top \in Nat /\ last \in Nat /\ Reached \in Nat
        /\ Len(buffer) \in Nat /\ Len(wire) \in Nat
    BY <1>1, <1>3
  <2> HIDE DEF top, front, last, size
  <2>4. top - Reached \in 1 .. Len(wire) /\ Reached + (top - Reached) = top
    BY <2>1, <2>2, <2>3
  <2> QED BY <2>4 DEF top
<1> HIDE DEF k
<1>8. Genuine(wire[k]) /\ Index(wire[k]) = Offset[i + 1]
  BY <1>7 DEF FlowInv, Segment
<1>9. wire[k].msg = i
  <2>1. Offset[i] < Index(wire[k]) /\ Index(wire[k]) <= Offset[i + 1]
    BY <1>3, <1>8
  <2> QED BY <1>2, <1>8, <2>1, MessageAt
<1> QED BY <1>7, <1>9 DEF Read

\* When nothing is left to do, what was read is what was delivered.
LEMMA FlowDelivered == ASSUME FlowInv PROVE ReadIsDelivered
<1> SUFFICES ASSUME chunks = <<>>, loops = 0
             PROVE  /\ {delivered[k].msg : k \in 1 .. Len(delivered)} = Read
                    /\ \A k \in 1 .. Len(buffer) : buffer[k].msg \notin Read
  BY DEF ReadIsDelivered
<1> DEFINE d == Len(delivered)
<1>1. /\ Len(Script) \in Nat /\ written \in Nat /\ d \in Nat /\ d <= written
      /\ Reached \in Nat /\ Len(buffer) \in Nat /\ Offset[d + 1] \in Nat
      /\ d + 1 \in 1 .. Len(Script) + 1
  BY FlowTypes DEF FlowInv, FirstDelivered
<1>2. \A k \in 1 .. d : delivered[k].msg = k
  BY DEF FlowInv, FirstDelivered
<1>3. Offset[d + 1] <= Reached
  BY <1>1 DEF FlowInv, BufferFollows
<1> HIDE DEF d
<1>4. {delivered[k].msg : k \in 1 .. d} = 1 .. d
  BY <1>2
<1>5. ASSUME NEW i \in Read PROVE i \in 1 .. d
  <2>1. i \in 1 .. written
    BY DEF Read
  <2>2. ~(d < i)
    BY <2>1, NotRead DEF d
  <2> QED BY <1>1, <2>1, <2>2
<1>6. ASSUME NEW i \in 1 .. d PROVE i \in Read
  <2>1. ASSUME NEW k \in 1 .. Len(wire) PROVE wire[k].msg # i
    <3>1. Genuine(wire[k]) /\ Index(wire[k]) = Reached + k
      BY DEF FlowInv, Segment
    <3>2. Offset[d + 1] < Index(wire[k])
      BY <1>1, <1>3, <3>1
    <3>3. ~(wire[k].msg < d + 1)
      BY <1>1, <3>1, <3>2, LaterByte
    <3> QED BY <1>1, <3>3
  <2>2. i \in 1 .. written
    BY <1>1
  <2> QED BY <2>1, <2>2 DEF Read
<1>7. ASSUME NEW k \in 1 .. Len(buffer) PROVE buffer[k].msg \notin Read
  <2>1. Genuine(buffer[k]) /\ Index(buffer[k]) = Offset[d + 1] + k
    BY DEF FlowInv, BufferFollows, Segment, d
  <2>2. Offset[d + 1] < Index(buffer[k])
    BY <1>1, <2>1
  <2>3. ~(buffer[k].msg < d + 1)
    BY <1>1, <2>1, <2>2, LaterByte
  <2> QED BY <1>1, <1>5, <2>3
<1> QED BY <1>4, <1>5, <1>6, <1>7 DEF d

-----------------------------------------------------------------------------
(* The channel                                                              *)

\* What OnMessage sees.
Seen == [k \in 1 .. Len(delivered) |-> delivered[k].msg]

\* Where every delivered message is the one after the last.
LEMMA SeenIs == ASSUME FlowInv PROVE Seen = [k \in 1 .. Len(delivered) |-> k]
BY DEF FlowInv, FirstDelivered, Seen

\* A turn of the loop delivers nothing or the next message.
LEMMA ProcessBufferDelivers ==
  ASSUME FlowInv, FlowInv', ProcessBuffer
  PROVE  Channel!Deliver \/ UNCHANGED <<written, Seen>>
<1> DEFINE d == Len(delivered)
<1>1. PICK m : delivered' = Append(delivered, m) \/ delivered' = delivered
  BY DEF ProcessBuffer
<1>2. UNCHANGED written
  BY DEF ProcessBuffer
<1>3. CASE delivered' = delivered
  BY <1>2, <1>3 DEF Seen
<1>4. CASE delivered' = Append(delivered, m)
  <2>1. d \in Nat /\ \E S : delivered \in Seq(S)
    BY DEF FlowInv, TypeOK
  <2>2. Len(delivered') = d + 1
    <3>1. PICK S : delivered \in Seq(S)
      BY <2>1
    <3>2. delivered \in Seq(S \cup {m})
      BY <3>1
    <3> QED BY <1>4, <3>2
  <2>3. d < written
    BY <1>2, <2>1, <2>2 DEF FlowInv, FirstDelivered, TypeOK
  <2>4. Seen = [k \in 1 .. d |-> k] /\ Seen' = [k \in 1 .. d + 1 |-> k]
    <3>1. \A k \in 1 .. Len(delivered') : delivered'[k].msg = k
      BY DEF FlowInv, FirstDelivered
    <3> QED BY <2>2, <3>1, SeenIs DEF Seen
  <2> HIDE DEF d
  <2>5. Seen \in Seq(Nat) /\ Len(Seen) = d
    BY <2>1, <2>4
  <2> DEFINE t == Append(Seen, d + 1)
  <2>6. Seen' = t
    <3>1. /\ t \in Seq(Nat) /\ Len(t) = d + 1 /\ t[d + 1] = d + 1
          /\ \A k \in 1 .. d : t[k] = Seen[k]
      BY <2>1, <2>5
    <3>2. Seen' \in Seq(Nat) /\ Len(Seen') = d + 1
      BY <2>1, <2>4
    <3> HIDE DEF t
    <3>3. ASSUME NEW k \in 1 .. d + 1 PROVE Seen'[k] = t[k]
      <4>1. CASE k = d + 1
        BY <2>1, <2>4, <3>1, <4>1
      <4>2. CASE k # d + 1
        <5>1. k \in 1 .. d
          BY <2>1, <4>2
        <5> QED BY <2>4, <3>1, <5>1
      <4> QED BY <4>1, <4>2
    <3> QED BY <3>1, <3>2, <3>3, SeqEqual
  <2>7. Len(Seen) < written /\ Seen' = Append(Seen, Len(Seen) + 1)
    BY <2>3, <2>5, <2>6
  <2> QED BY <1>2, <2>7 DEF Channel!Deliver, Seen
<1> QED BY <1>1, <1>3, <1>4

\* Every step of the program is one of the channel, or none.
LEMMA ChannelStep ==
  ASSUME Conforming, MaxResets = 0, FlowInv, FlowInv', [Next]_vars
  PROVE  [Channel!Next]_<<written, Seen>>
<1>1. ~Reset
  BY OneConnection DEF FlowInv
<1>2. CASE AdapterWrites
  BY <1>2 DEF AdapterWrites, Channel!Next, Channel!Write, Seen
<1>3. CASE ReaderReads
  BY <1>3 DEF ReaderReads, Seen
<1>4. CASE OnDataRead
  BY <1>4 DEF OnDataRead, Seen
<1>5. CASE ProcessBuffer
  BY <1>5, ProcessBufferDelivers DEF Channel!Next
<1>6. CASE UNCHANGED vars
  BY <1>6 DEF vars, Seen
<1> QED BY <1>1, <1>2, <1>3, <1>4, <1>5, <1>6 DEF Next

-----------------------------------------------------------------------------
(* The theorems                                                             *)

\* The invariant holds.
LEMMA FlowTheorem == ASSUME Conforming, MaxResets = 0 PROVE Spec => []FlowInv
<1>1. TypeOK /\ Init => FlowInv
  BY FlowInit
<1>2. FlowInv /\ TypeOK' /\ [Next]_vars => FlowInv'
  BY FlowStep
<1>3. Spec => []TypeOK
  BY TypeCorrect
<1> QED BY <1>1, <1>2, <1>3, PTL DEF Spec

\* Whatever the chunks are in which the bytes arrive, and whichever loops of ProcessBuffer
\* run within others: with an adapter that counts its bytes and writes one-byte characters,
\* on a connection that is not reset, the messages that were read are those that
\* OnMessage was called for when the main thread has nothing left to do.
THEOREM ReadDelivered == ASSUME Conforming, MaxResets = 0 PROVE Spec => []ReadIsDelivered
<1>1. FlowInv => ReadIsDelivered
  BY FlowDelivered
<1> QED BY <1>1, FlowTheorem, PTL

\* Under the same conditions OnMessage sees the channel of MessageChannel: the program
\* delivers the next message, one that was written, or none.  (That it does so in the
\* end is the fairness part of ImplementsChannel.)
THEOREM ChannelTheorem ==
  ASSUME Conforming, MaxResets = 0
  PROVE  Spec => Channel!Init /\ [][Channel!Next]_<<written, Seen>>
<1>1. Init => Channel!Init
  <2> SUFFICES ASSUME Init PROVE written = 0 /\ Seen = <<>>
    BY DEF Channel!Init, Seen
  <2>1. written = 0 /\ delivered = <<>>
    BY DEF Init
  <2> QED BY <2>1 DEF Seen
<1>2. FlowInv /\ FlowInv' /\ [Next]_vars => [Channel!Next]_<<written, Seen>>
  BY ChannelStep
<1> QED BY <1>1, <1>2, FlowTheorem, PTL DEF Spec

=============================================================================
