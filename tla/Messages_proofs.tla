--------------------------- MODULE Messages_proofs ---------------------------
(***************************************************************************)
(* Theorems about Messages: what was shown of every row alone holds of     *)
(* messages in which any number of fields were set and of keys left out,   *)
(* since no field of a class disturbs another one.                         *)
(***************************************************************************)
EXTENDS Messages, TLAPS

-----------------------------------------------------------------------------
(* What is written                                                          *)

\* An object o on the fields of a table.
Fits(table, o) == DOMAIN o = DOMAIN table /\ \A f \in DOMAIN table : table[f].field = f

\* A row is found by its field.
LEMMA RowsByField ==
  ASSUME NEW c \in Class, NEW f \in DOMAIN Table[c]
  PROVE  Table[c][f].field = f
<1> DEFINE rows == RowsOf(c)
<1>1. Table[c] = [g \in {r.field : r \in rows} |-> CHOOSE r \in rows : r.field = g]
  BY DEF Table, ByField
<1> HIDE DEF rows
<1>2. f \in {r.field : r \in rows} /\ Table[c][f] = CHOOSE r \in rows : r.field = f
  BY <1>1
<1>3. PICK r \in rows : r.field = f
  BY <1>2
<1> QED BY <1>2, <1>3

\* At every key that is written there is the leaf of a row that is written there.
LEMMA WrittenFacts ==
  ASSUME NEW table, NEW o, NEW who, Fits(table, o)
  PROVE  LET w == Written(table, o, who)
         IN  /\ \A k \in DOMAIN w : \E f \in DOMAIN table :
                  Writes(table[f], o, who) /\ KeyOf(table[f], who) = k /\ w[k] = Leaf(table[f], o[f])
             /\ \A f \in DOMAIN table :
                  Writes(table[f], o, who) => KeyOf(table[f], who) \in DOMAIN w
<1> DEFINE w == Written(table, o, who)
           leaves == Leaves({table[f] : f \in DOMAIN o}, o, who)
           L(f) == <<KeyOf(table[f], who), Leaf(table[f], o[f])>>
<1>1. DOMAIN o = DOMAIN table /\ \A f \in DOMAIN table : table[f].field = f
  BY DEF Fits
<1>2. \A x : x \in leaves <=> \E f \in DOMAIN table : Writes(table[f], o, who) /\ x = L(f)
  BY <1>1 DEF Leaves
<1>3. \A f : L(f)[1] = KeyOf(table[f], who) /\ L(f)[2] = Leaf(table[f], o[f])
  OBVIOUS
<1>4. w = [k \in {x[1] : x \in leaves} |-> (CHOOSE x \in leaves : x[1] = k)[2]]
  BY DEF Written, ByKey
<1> HIDE DEF w, leaves, L
<1>5. ASSUME NEW k \in DOMAIN w
      PROVE  \E f \in DOMAIN table :
               Writes(table[f], o, who) /\ KeyOf(table[f], who) = k /\ w[k] = Leaf(table[f], o[f])
  <2> DEFINE x == CHOOSE x \in leaves : x[1] = k
  <2>1. \E y \in leaves : y[1] = k
    BY <1>4
  <2>2. x \in leaves /\ x[1] = k
    BY <2>1
  <2>3. w[k] = x[2]
    BY <1>4
  <2> HIDE DEF x
  <2> QED BY <1>2, <1>3, <2>2, <2>3
<1>6. ASSUME NEW f \in DOMAIN table, Writes(table[f], o, who)
      PROVE  KeyOf(table[f], who) \in DOMAIN w
  <2>1. L(f) \in leaves
    BY <1>2, <1>6
  <2> QED BY <1>3, <1>4, <2>1
<1> QED BY <1>5, <1>6 DEF w

\* At a key where nothing but f is written there is the leaf of f, if it is written.
LEMMA OwnKey ==
  ASSUME NEW table, NEW o, NEW who, Fits(table, o), NEW f \in DOMAIN table, NEW key,
         Owns(table, f, key, who)
  PROVE  LET w == Written(table, o, who)
         IN  /\ key \in DOMAIN w <=> KeyOf(table[f], who) = key /\ Writes(table[f], o, who)
             /\ key \in DOMAIN w => w[key] = Leaf(table[f], o[f])
<1> DEFINE w == Written(table, o, who)
<1>1. /\ \A k \in DOMAIN w : \E g \in DOMAIN table :
           Writes(table[g], o, who) /\ KeyOf(table[g], who) = k /\ w[k] = Leaf(table[g], o[g])
      /\ \A g \in DOMAIN table : Writes(table[g], o, who) => KeyOf(table[g], who) \in DOMAIN w
  BY WrittenFacts
<1> HIDE DEF w
<1>2. /\ key \in DOMAIN w <=> KeyOf(table[f], who) = key /\ Writes(table[f], o, who)
      /\ key \in DOMAIN w => w[key] = Leaf(table[f], o[f])
  BY <1>1 DEF Owns
<1> QED BY <1>2 DEF w

\* v and w have the same at a key.
Agree(v, w, key) == (key \in DOMAIN v <=> key \in DOMAIN w) /\ (key \in DOMAIN w => v[key] = w[key])

\* The field is read as if it were alone in the message.
LEMMA ReadAlone ==
  ASSUME NEW table, NEW o, NEW who, Fits(table, o), NEW f \in DOMAIN table, table[f].in # NoPath,
         Live(table[f], o), Carried(table, table[f], who),
         NEW v, Agree(v, Written(table, o, who), table[f].in),
         \A l \in table[f].lists : Agree(v, Written(table, o, who), l.in)
  PROVE  Field(table[f], v) = Alone(table[f], o[f], who)
<1> DEFINE r == table[f]
           w == Written(table, o, who)
<1>1. r.field = f /\ Owns(table, f, r.in, who)
  BY DEF Fits, Carried
<1>2. /\ r.in \in DOMAIN w <=> KeyOf(r, who) = r.in /\ Writes(r, o, who)
      /\ r.in \in DOMAIN w => w[r.in] = Leaf(r, o[f])
  BY <1>1, OwnKey
<1>3. ASSUME NEW l \in r.lists PROVE Reaches(Length(l.in, v), l.least)
  <2> DEFINE q == table[l.field]
  <2>1. /\ l.field \in DOMAIN table /\ l.least \in {"1", "2"}
        /\ Owns(table, l.field, l.in, who)
        /\ KeyOf(q, who) = l.in /\ l.in # NoPath
        /\ q.when = "always" /\ q.lists \subseteq r.lists
    BY DEF Carried
  <2>2. q.field = l.field
    BY <2>1 DEF Fits
  <2>3. Reaches(o[l.field], l.least)
    BY DEF Live
  <2>4. o[l.field] # "unset"
    BY <2>1, <2>3 DEF Reaches
  <2>5. Live(q, o)
    BY <2>1 DEF Live
  <2>6. Emits(q, o[l.field])
    BY <2>1 DEF Emits
  <2>7. Writes(q, o, who)
    BY <2>1, <2>2, <2>4, <2>5, <2>6 DEF Writes
  <2>8. l.in \in DOMAIN w /\ w[l.in] = Leaf(q, o[l.field])
    BY <2>1, <2>7, OwnKey
  <2>9. Length(l.in, v) = o[l.field]
    BY <2>8 DEF Length, Leaf, Agree
  <2> QED BY <2>3, <2>9
<1>4. Field(r, v) = IF r.in \in DOMAIN v THEN Read(r, v[r.in]) ELSE r.miss
  BY <1>3 DEF Field
<1>5. Writes(r, o, who) <=> KeyOf(r, who) # NoPath /\ o[f] # "unset" /\ Emits(r, o[f])
  BY <1>1 DEF Writes
<1> HIDE DEF r
<1>6. Agree(v, w, r.in) /\ r.in # NoPath
  BY DEF r
<1> HIDE DEF w
<1>7. Field(r, v) = Alone(r, o[f], who)
  BY <1>2, <1>4, <1>5, <1>6 DEF Agree, Alone
<1> QED BY <1>7 DEF r

-----------------------------------------------------------------------------
(* What is on the wire                                                      *)

\* What was written of an object, by whom it was, and the header.
Sent(c, o, who, head) == Below(head, Written(Table[c], o, who))

\* What is left of it without some keys.
Rest(w, keys) == [k \in DOMAIN w \ keys |-> w[k]]

\* An object of a class with values that were set.
Objects(c, o) == DOMAIN o = DOMAIN Table[c] /\ \A f \in DOMAIN Table[c] : o[f] \in Values(Table[c][f])

\* The wire has what was written of the object but for what was left out, and what was
\* received is what the wire says.
WireInv ==
  /\ class \in Class /\ Objects(class, object)
  /\ stage \in {"built", "sent", "read"} /\ author \in {"library", "adapter"}
  /\ author = "adapter" => Declared[class].kind # "request"
  /\ stage = "built" => author = "library" /\ wire = <<>> /\ omitted = {}
  /\ stage # "built" =>
       \E head \in Heads(class) : /\ omitted \subseteq DOMAIN Sent(class, object, author, head)
                                  /\ wire = Rest(Sent(class, object, author, head), omitted)
  /\ got = IF stage = "read" THEN FromJSON(wire) ELSE Nothing

\* An object of a class fits its table.
LEMMA ObjectFits ==
  ASSUME NEW c \in Class, NEW o, Objects(c, o)
  PROVE  Fits(Table[c], o)
BY RowsByField DEF Objects, Fits

\* No key of the header is one of the rest.
LEMMA KeysApart ==
  ASSUME NEW c \in Class, NEW o, NEW who, Objects(c, o)
  PROVE  LET w == Written(Table[c], o, who)
         IN  /\ DOMAIN w \cap HeaderKeys = {} /\ NoPath \notin DOMAIN w
             /\ \A k \in DOMAIN w : DOMAIN w[k] = {"t", "v"}
<1> DEFINE w == Written(Table[c], o, who)
<1>1. \A k \in DOMAIN w : \E f \in DOMAIN Table[c] :
        Writes(Table[c][f], o, who) /\ KeyOf(Table[c][f], who) = k /\ w[k] = Leaf(Table[c][f], o[f])
  BY ObjectFits, WrittenFacts
<1> HIDE DEF w
<1> SUFFICES ASSUME NEW k \in DOMAIN w
             PROVE  k \notin HeaderKeys /\ k # NoPath /\ DOMAIN w[k] = {"t", "v"}
  BY DEF w
<1>2. PICK f \in DOMAIN Table[c] :
        Writes(Table[c][f], o, who) /\ KeyOf(Table[c][f], who) = k /\ w[k] = Leaf(Table[c][f], o[f])
  BY <1>1
<1> DEFINE r == Table[c][f]
<1>3. {r.key, r.in, r.out} \cap HeaderKeys = {}
  BY HeaderIsApart
<1>4. k = r.key \/ k = r.out
  BY <1>2 DEF KeyOf
<1>5. k # NoPath
  BY <1>2 DEF Writes
<1>6. DOMAIN w[k] = {"t", "v"}
  BY <1>2 DEF Leaf
<1> QED BY <1>3, <1>4, <1>5, <1>6

\* The headers of a class: all have its kind and its name.
LEMMA HeaderFacts ==
  ASSUME NEW c \in Class, NEW head \in Heads(c)
  PROVE  /\ {<<"type">>, NameKey(c)} \subseteq DOMAIN head /\ DOMAIN head \subseteq HeaderKeys
         /\ NameKey(c) # <<"type">>
         /\ head[<<"type">>].v = Declared[c].kind /\ head[NameKey(c)].v = Declared[c].name
         /\ \A k \in DOMAIN head : DOMAIN head[k] = {"t", "v"}
<1>1. <<"type">> # <<"event">> /\ <<"type">> # <<"command">>
  <2>1. <<"type">>[1] = "type" /\ <<"event">>[1] = "event" /\ <<"command">>[1] = "command"
    OBVIOUS
  <2> QED BY <2>1
<1> DEFINE n == NameKey(c)
           t == <<"type">>
           e == <<"event">>
           m == <<"command">>
           h == Header(c)
           stray == Stray(c)
<1>2. /\ n \in {e, m} /\ t # e /\ t # m /\ HeaderKeys = {t, e, m}
      /\ h = [k \in {t, n} |->
                [t |-> "string", v |-> IF k = t THEN Declared[c].kind ELSE Declared[c].name]]
  BY <1>1 DEF NameKey, HeaderKeys, Header
<1>3. /\ DOMAIN stray = {e, m} \ {n}
      /\ \A k \in DOMAIN stray : DOMAIN stray[k] = {"t", "v"}
  BY DEF Stray
<1>4. head \in {h, Below(stray, h)}
  BY DEF Heads
<1> HIDE DEF n, t, e, m, h, stray
<1>5. /\ DOMAIN h = {t, n} /\ n # t
      /\ h[t].v = Declared[c].kind /\ h[n].v = Declared[c].name
      /\ \A k \in DOMAIN h : DOMAIN h[k] = {"t", "v"}
  BY <1>2
<1>6. CASE head = h
  BY <1>2, <1>5, <1>6 DEF n, t
<1>7. CASE head = Below(stray, h)
  <2>1. head = [k \in DOMAIN stray \cup DOMAIN h |-> IF k \in DOMAIN stray THEN stray[k] ELSE h[k]]
    BY <1>7 DEF Below
  <2>2. t \notin DOMAIN stray /\ n \notin DOMAIN stray
    BY <1>2, <1>3
  <2>3. DOMAIN head = {t, e, m}
    BY <1>2, <1>3, <1>5, <2>1
  <2>4. head[t] = h[t] /\ head[n] = h[n]
    BY <1>5, <2>1, <2>2
  <2>5. \A k \in DOMAIN head : DOMAIN head[k] = {"t", "v"}
    BY <1>3, <1>5, <2>1
  <2>6. t \in DOMAIN head /\ n \in DOMAIN head /\ DOMAIN head \subseteq HeaderKeys
    BY <1>2, <2>3
  <2> QED BY <1>5, <2>4, <2>5, <2>6 DEF n, t
<1> QED BY <1>4, <1>6, <1>7

\* The wire has the header, and outside of its keys what was written of the object.
LEMMA SentFacts ==
  ASSUME NEW c \in Class, NEW o, NEW who, Objects(c, o), NEW keys, NEW head \in Heads(c)
  PROVE  LET w == Rest(Sent(c, o, who, head), keys)
             body == Written(Table[c], o, who)
         IN  /\ \A k \in HeaderKeys :
                  /\ k \in DOMAIN w <=> k \in DOMAIN head \ keys
                  /\ k \in DOMAIN w => w[k] = head[k]
             /\ \A k : k \notin HeaderKeys \cup keys => Agree(w, body, k)
             /\ \A k \in DOMAIN w : DOMAIN w[k] = {"t", "v"}
             /\ keys \cap DOMAIN w = {} /\ NoPath \notin DOMAIN Sent(c, o, who, head)
<1> DEFINE body == Written(Table[c], o, who)
           full == Sent(c, o, who, head)
           w == Rest(full, keys)
<1>1. /\ DOMAIN body \cap HeaderKeys = {} /\ NoPath \notin DOMAIN body
      /\ \A k \in DOMAIN body : DOMAIN body[k] = {"t", "v"}
  BY KeysApart
<1>2. /\ DOMAIN head \subseteq HeaderKeys
      /\ \A k \in DOMAIN head : DOMAIN head[k] = {"t", "v"}
  BY HeaderFacts
<1>3. full = [k \in DOMAIN head \cup DOMAIN body |-> IF k \in DOMAIN head THEN head[k] ELSE body[k]]
  BY DEF Sent, Below
<1>4. w = [k \in DOMAIN full \ keys |-> full[k]]
  BY DEF Rest
<1>5. NoPath \notin HeaderKeys
  BY HeaderIsApart
<1> HIDE DEF body, full, w
<1>6. /\ \A k \in HeaderKeys :
           /\ k \in DOMAIN w <=> k \in DOMAIN head \ keys
           /\ k \in DOMAIN w => w[k] = head[k]
      /\ \A k : k \notin HeaderKeys \cup keys => Agree(w, body, k)
      /\ \A k \in DOMAIN w : DOMAIN w[k] = {"t", "v"}
      /\ keys \cap DOMAIN w = {} /\ NoPath \notin DOMAIN full
  BY <1>1, <1>2, <1>3, <1>4, <1>5 DEF Agree
<1> QED BY <1>6 DEF body, full, w

-----------------------------------------------------------------------------
(* Which class a message is taken for                                       *)

\* A class that was found, or none.
LEMMA LookupFacts ==
  ASSUME NEW kind, NEW name
  PROVE  LET c == Lookup(kind, name)
         IN  \/ c = NoClass /\ ~\E d \in Registered : Declared[d].kind = kind /\ Declared[d].name = name
             \/ c \in Registered /\ Declared[c].kind = kind /\ Declared[c].name = name
<1> DEFINE found == {d \in Registered : Declared[d].kind = kind /\ Declared[d].name = name}
           c == OneOf(found)
<1>1. Lookup(kind, name) = c
  BY DEF Lookup
<1>2. (found = {} /\ c = NoClass) \/ c \in found
  BY DEF OneOf
<1> QED BY <1>1, <1>2

\* The kind and the name that the wire says.
Kind(w) == Text(<<"type">>, w)
Name(w) == Text(IF Kind(w) = "event" THEN <<"event">> ELSE <<"command">>, w)

\* A message without a type is dropped, one without a name is taken for a class without a
\* name, every other one for its own class.
LEMMA Dispatch ==
  ASSUME NEW c \in Class, NEW o, NEW who, Objects(c, o), NEW keys, NEW head \in Heads(c)
  PROVE  LET d == Lookup(Kind(Rest(Sent(c, o, who, head), keys)), Name(Rest(Sent(c, o, who, head), keys)))
         IN  /\ d \in Registered \cup {NoClass}
             /\ d \in {c, NoClass, "EmptyAckResponse", "DebugpyWaitingForServerEvent"}
             /\ d # NoClass => Declared[d].kind = Declared[c].kind
             /\ c \in Registered /\ keys \cap HeaderKeys = {} => d = c
<1> DEFINE w == Rest(Sent(c, o, who, head), keys)
           d == Lookup(Kind(w), Name(w))
           type == <<"type">>
           n == NameKey(c)
<1>1. \A k \in HeaderKeys :
        /\ k \in DOMAIN w <=> k \in DOMAIN head \ keys
        /\ k \in DOMAIN w => w[k] = head[k]
  BY SentFacts
<1>2. /\ type \in DOMAIN head /\ n \in DOMAIN head /\ DOMAIN head \subseteq HeaderKeys
      /\ head[type].v = Declared[c].kind /\ head[n].v = Declared[c].name
  BY HeaderFacts
<1>3. \/ d = NoClass /\ ~\E e \in Registered : Declared[e].kind = Kind(w) /\ Declared[e].name = Name(w)
      \/ d \in Registered /\ Declared[d].kind = Kind(w) /\ Declared[d].name = Name(w)
  BY LookupFacts
<1>4. n = IF Declared[c].kind = "event" THEN <<"event">> ELSE <<"command">>
  BY DEF NameKey
<1>5. /\ NoClass \notin Class /\ Registered \subseteq Class
      /\ \A e \in Class : /\ Declared[e].kind \in {"request", "event", "response"}
                          /\ Declared[e].name = "" =>
                               e \in {"EmptyAckResponse", "DebugpyWaitingForServerEvent"}
      /\ \A e \in Class : Declared[e].kind = Declared[c].kind /\ Declared[e].name = Declared[c].name
                            => e = c
  BY ClassesAreTold DEF Registered
<1>10. NoClass \notin Registered
  BY <1>5
<1>6. Kind(w) = IF type \in DOMAIN w THEN w[type].v ELSE ""
  BY DEF Kind, Text
<1>7. Kind(w) = Declared[c].kind => Name(w) = IF n \in DOMAIN w THEN w[n].v ELSE ""
  BY <1>4 DEF Name, Text
<1> HIDE DEF w, d, type, n
<1>8. CASE type \in keys
  <2>1. Kind(w) = ""
    BY <1>1, <1>2, <1>6, <1>8
  <2>2. d = NoClass
    BY <1>3, <1>5, <2>1
  <2>3. type \in HeaderKeys
    BY <1>2
  <2> QED BY <1>8, <2>2, <2>3 DEF d, w
<1>9. CASE type \notin keys
  <2>1. Kind(w) = Declared[c].kind
    BY <1>1, <1>2, <1>6, <1>9
  <2>2. CASE n \in keys
    <3>1. Name(w) = ""
      BY <1>1, <1>2, <1>7, <2>1, <2>2
    <3>2. d # NoClass => d \in {"EmptyAckResponse", "DebugpyWaitingForServerEvent"}
      BY <1>3, <1>5, <3>1
    <3>3. n \in HeaderKeys
      BY <1>2
    <3> QED BY <1>3, <2>1, <2>2, <3>2, <3>3 DEF d, w
  <2>3. CASE n \notin keys
    <3>1. Name(w) = Declared[c].name
      BY <1>1, <1>2, <1>7, <2>1, <2>3
    <3>2. d # NoClass => d = c /\ d \in Registered
      BY <1>3, <1>5, <2>1, <3>1
    <3>3. ASSUME c \in Registered PROVE d # NoClass
      <4>1. \E e \in Registered : Declared[e].kind = Kind(w) /\ Declared[e].name = Name(w)
        BY <2>1, <3>1, <3>3
      <4>2. d \in Registered
        BY <1>3, <4>1
      <4> QED BY <1>10, <4>2
    <3> QED BY <3>2, <3>3 DEF d, w
  <2> QED BY <2>2, <2>3
<1> QED BY <1>8, <1>9

-----------------------------------------------------------------------------
(* The invariant                                                            *)

\* Each writer writes what Sent says.
LEMMA SentByBoth ==
  ASSUME NEW c, NEW o
  PROVE  /\ Header(c) \in Heads(c) /\ To(c, o) = Sent(c, o, "library", Header(c))
         /\ \A head : AdapterWrites(c, o, head) = Sent(c, o, "adapter", head)
BY DEF To, AdapterWrites, Sent, Heads

\* Nothing is left out at first.
LEMMA RestOfAll ==
  ASSUME NEW c, NEW o, NEW who, NEW head
  PROVE  Rest(Sent(c, o, who, head), {}) = Sent(c, o, who, head)
<1> DEFINE b == Written(Table[c], o, who)
<1>1. Sent(c, o, who, head) =
        [k \in DOMAIN head \cup DOMAIN b |-> IF k \in DOMAIN head THEN head[k] ELSE b[k]]
  BY DEF Sent, Below
<1> HIDE DEF b
<1> QED BY <1>1 DEF Rest

\* A new object has the declared values, and anything where none is declared.
LEMMA WireInit == ASSUME Init PROVE WireInv
<1>1. PICK x \in SomeValues["number"] : object = New(class, x)
  BY DEF Init
<1>2. class \in Class
  BY DEF Init
<1>3. Defaults[class] = [f \in DOMAIN Table[class] |-> Default(Table[class][f])]
  BY <1>2 DEF Defaults, DefaultObject
<1>4. DOMAIN object = DOMAIN Table[class]
  BY <1>1, <1>3 DEF New
<1>5. ASSUME NEW f \in DOMAIN Table[class] PROVE object[f] \in Values(Table[class][f])
  <2> DEFINE d == Default(Table[class][f])
  <2>1. object[f] = IF d = Indeterminate THEN x ELSE d
    BY <1>1, <1>3, <1>5 DEF New
  <2>2. d = Indeterminate => Table[class][f].json = "number"
    BY <1>2, <1>5, IntsAreIndeterminate
  <2> HIDE DEF d
  <2>3. CASE d = Indeterminate
    BY <1>1, <2>1, <2>2, <2>3 DEF Values
  <2>4. CASE d # Indeterminate
    BY <2>1, <2>4 DEF Values, d
  <2> QED BY <2>3, <2>4
<1>6. Objects(class, object)
  BY <1>4, <1>5 DEF Objects
<1> QED BY <1>2, <1>6 DEF Init, WireInv

\* A value is set.
LEMMA SetInv ==
  ASSUME WireInv, NEW f \in DOMAIN object, NEW v \in SomeValues[Table[class][f].json], Set(f, v)
  PROVE  WireInv'
<1>1. /\ stage = "built" /\ object' = [object EXCEPT ![f] = v]
      /\ UNCHANGED <<class, stage, author, wire, omitted, got>>
  BY DEF Set
<1>2. class \in Class /\ Objects(class, object)
  BY DEF WireInv
<1>3. Objects(class, object')
  <2>1. DOMAIN object' = DOMAIN Table[class]
    BY <1>1, <1>2 DEF Objects
  <2>2. ASSUME NEW g \in DOMAIN Table[class] PROVE object'[g] \in Values(Table[class][g])
    BY <1>1, <1>2 DEF Objects, Values
  <2> QED BY <2>1, <2>2 DEF Objects
<1>4. Objects(class', object')
  BY <1>1, <1>3
<1> QED BY <1>1, <1>4 DEF WireInv

\* The object is sent.
LEMMA SendInv ==
  ASSUME WireInv, LibrarySends \/ AdapterSends
  PROVE  WireInv'
<1>1. /\ stage = "built" /\ stage' = "sent" /\ UNCHANGED <<class, object, omitted, got>>
      /\ author' \in {"library", "adapter"}
      /\ author' = "adapter" => Declared[class].kind # "request"
  BY DEF LibrarySends, AdapterSends, WireInv
<1>2. \E head \in Heads(class) : wire' = Sent(class, object, author', head)
  <2>1. CASE AdapterSends
    BY <2>1, SentByBoth DEF AdapterSends
  <2>2. CASE LibrarySends
    BY <2>2, SentByBoth DEF LibrarySends, WireInv
  <2> QED BY <2>1, <2>2
<1>3. omitted = {} /\ class \in Class /\ Objects(class, object) /\ got = Nothing
  BY <1>1 DEF WireInv
<1>4. omitted' = {} /\ \E head \in Heads(class') :
                         wire' = Rest(Sent(class', object', author', head), omitted')
  BY <1>1, <1>2, <1>3, RestOfAll
<1>5. /\ class' \in Class /\ Objects(class', object') /\ stage' = "sent" /\ got' = Nothing
      /\ author' \in {"library", "adapter"}
      /\ author' = "adapter" => Declared[class'].kind # "request"
  BY <1>1, <1>3
<1>6. \E head \in Heads(class') : /\ omitted' \subseteq DOMAIN Sent(class', object', author', head)
                                  /\ wire' = Rest(Sent(class', object', author', head), omitted')
  BY <1>4
<1> QED BY <1>5, <1>6 DEF WireInv

\* A key is left out.
LEMMA OmitInv ==
  ASSUME WireInv, NEW k \in DOMAIN wire, Omit(k)
  PROVE  WireInv'
<1>1. /\ stage = "sent" /\ omitted' = omitted \cup {k}
      /\ wire' = [q \in DOMAIN wire \ {k} |-> wire[q]]
      /\ UNCHANGED <<class, object, stage, author, got>>
  BY DEF Omit
<1>2. PICK head \in Heads(class) : /\ omitted \subseteq DOMAIN Sent(class, object, author, head)
                                   /\ wire = Rest(Sent(class, object, author, head), omitted)
  BY <1>1 DEF WireInv
<1> DEFINE full == Sent(class, object, author, head)
<1>3. omitted \subseteq DOMAIN full /\ wire = [q \in DOMAIN full \ omitted |-> full[q]]
  BY <1>2 DEF Rest
<1> HIDE DEF full
<1>4. omitted' \subseteq DOMAIN full /\ wire' = [q \in DOMAIN full \ omitted' |-> full[q]]
  BY <1>1, <1>3
<1>5. omitted' \subseteq DOMAIN full /\ wire' = Rest(full, omitted')
  BY <1>4 DEF Rest
<1>6. \E h \in Heads(class') : /\ omitted' \subseteq DOMAIN Sent(class', object', author', h)
                               /\ wire' = Rest(Sent(class', object', author', h), omitted')
  BY <1>1, <1>5 DEF full
<1> QED BY <1>1, <1>6 DEF WireInv

\* The message is read.
LEMMA ReceiveInv ==
  ASSUME WireInv, Receive
  PROVE  WireInv'
<1>1. /\ stage = "sent" /\ stage' = "read" /\ got' = FromJSON(wire)
      /\ UNCHANGED <<class, object, author, wire, omitted>>
  BY DEF Receive
<1>2. got' = IF stage' = "read" THEN FromJSON(wire') ELSE Nothing
  BY <1>1
<1>3. /\ class' \in Class /\ Objects(class', object') /\ author' \in {"library", "adapter"}
      /\ author' = "adapter" => Declared[class'].kind # "request"
      /\ \E head \in Heads(class') :
           /\ omitted' \subseteq DOMAIN Sent(class', object', author', head)
           /\ wire' = Rest(Sent(class', object', author', head), omitted')
  BY <1>1 DEF WireInv
<1> HIDE DEF Nothing
<1> QED BY <1>1, <1>2, <1>3 DEF WireInv

\* Every step keeps the invariant.
LEMMA WireStep == ASSUME WireInv, [Next]_vars PROVE WireInv'
<1>1. CASE \E f \in DOMAIN object : \E v \in SomeValues[Table[class][f].json] : Set(f, v)
  BY <1>1, SetInv
<1>2. CASE LibrarySends \/ AdapterSends
  BY <1>2, SendInv
<1>3. CASE \E k \in DOMAIN wire : Omit(k)
  BY <1>3, OmitInv
<1>4. CASE Receive
  BY <1>4, ReceiveInv
<1>5. CASE UNCHANGED vars
  BY <1>5 DEF WireInv, vars
<1> QED BY <1>1, <1>2, <1>3, <1>4, <1>5 DEF Next

\* The invariant of the path from the sender to the reader.
LEMMA Invariant == Spec => []WireInv
<1>1. Init => WireInv
  BY WireInit
<1>2. WireInv /\ [Next]_vars => WireInv'
  BY WireStep
<1> QED BY <1>1, <1>2, PTL DEF Spec

-----------------------------------------------------------------------------
(* What is read                                                             *)

\* What was received has the class that the wire tells, and its fields are read from the wire.
LEMMA GotFacts ==
  ASSUME WireInv, stage = "read"
  PROVE  LET c == Lookup(Kind(wire), Name(wire))
         IN  /\ got.class = c
             /\ c # NoClass => got.object = [f \in DOMAIN Table[c] |-> Field(Table[c][f], wire)]
<1> DEFINE c == Lookup(Kind(wire), Name(wire))
<1>1. got = FromJSON(wire)
  BY DEF WireInv
<1>2. got = ReadAs(c, wire)
  BY <1>1 DEF FromJSON, Kind, Name
<1> HIDE DEF c
<1>3. got.class = c /\ (c # NoClass => got.object = From(c, wire))
  BY <1>2 DEF ReadAs
<1> QED BY <1>3 DEF From, Object, c

\* What is known of a message that was read.
LEMMA ReadFacts ==
  ASSUME WireInv, stage = "read"
  PROVE  /\ class \in Class /\ Objects(class, object)
         /\ author \in {"library", "adapter"}
         /\ author = "adapter" => Declared[class].kind # "request"
         /\ \E head \in Heads(class) : /\ wire = Rest(Sent(class, object, author, head), omitted)
                                       /\ omitted \subseteq DOMAIN Sent(class, object, author, head)
         /\ got.class \in Registered \cup {NoClass}
         /\ got.class \in {class, NoClass, "EmptyAckResponse", "DebugpyWaitingForServerEvent"}
         /\ got.class # NoClass => Declared[got.class].kind = Declared[class].kind
         /\ class \in Registered /\ omitted \cap HeaderKeys = {} => got.class = class
<1>1. /\ class \in Class /\ Objects(class, object) /\ author \in {"library", "adapter"}
      /\ author = "adapter" => Declared[class].kind # "request"
  BY DEF WireInv
<1>2. PICK head \in Heads(class) : /\ wire = Rest(Sent(class, object, author, head), omitted)
                                   /\ omitted \subseteq DOMAIN Sent(class, object, author, head)
  BY DEF WireInv
<1> DEFINE d == Lookup(Kind(wire), Name(wire))
<1>3. /\ d \in Registered \cup {NoClass}
      /\ d \in {class, NoClass, "EmptyAckResponse", "DebugpyWaitingForServerEvent"}
      /\ d # NoClass => Declared[d].kind = Declared[class].kind
      /\ class \in Registered /\ omitted \cap HeaderKeys = {} => d = class
  BY <1>1, <1>2, Dispatch
<1>4. got.class = d
  BY GotFacts
<1> HIDE DEF d
<1> QED BY <1>1, <1>2, <1>3, <1>4

\* A kept field is read with the value that was sent, up to the exceptions of the rows: the
\* other fields of the message, set or not, and the other keys, left out or not, are of no
\* matter to it.
LEMMA KeptIsRead ==
  ASSUME WireInv, stage = "read", omitted \cap HeaderKeys = {}, class \in Registered,
         NEW f \in DOMAIN object, Live(Table[class][f], object), Kept(Table[class][f])
  PROVE  got.object[f] = object[f] \/ Excused(class, Table[class][f], object[f], author)
<1> DEFINE table == Table[class]
           r == table[f]
           w == Written(table, object, author)
<1>1. /\ class \in Class /\ Objects(class, object) /\ author \in {"library", "adapter"}
      /\ author = "adapter" => Declared[class].kind # "request"
      /\ got.class = class
  BY ReadFacts
<1>0. PICK head \in Heads(class) : wire = Rest(Sent(class, object, author, head), omitted)
  BY ReadFacts
<1>2. f \in DOMAIN table /\ object[f] \in Values(r) /\ Fits(table, object)
  BY <1>1, ObjectFits DEF Objects
<1>3. author \in Writers(class)
  BY <1>1 DEF Writers
<1>4. \/ Excused(class, r, object[f], author)
      \/ /\ Alone(r, object[f], author) = object[f]
         /\ r.in = NoPath \/ Carried(table, r, author)
  BY <1>1, <1>2, <1>3, RowsAreRead
<1>5. got.object[f] = Field(r, wire)
  <2>1. class # NoClass
    BY <1>1, ClassesAreTold
  <2> QED BY <1>1, <1>2, <2>1, GotFacts
<1>6. CASE r.in = NoPath
  <2>1. Field(r, wire) = Default(r) /\ Alone(r, object[f], author) = Default(r)
    BY <1>6 DEF Field, Alone
  <2> QED BY <1>4, <1>5, <2>1
<1>7. ASSUME r.in # NoPath, Carried(table, r, author)
      PROVE  Field(r, wire) = Alone(r, object[f], author)
  <2>1. \A k : k \notin HeaderKeys \cup omitted => Agree(wire, w, k)
    <3>1. class \in Class /\ Objects(class, object)
      BY <1>1
    <3> DEFINE rest == Rest(Sent(class, object, author, head), omitted)
    <3>2. \A k : k \notin HeaderKeys \cup omitted => Agree(rest, w, k)
      BY <3>1, SentFacts
    <3> HIDE DEF w, rest
    <3>3. wire = rest
      BY <1>0 DEF rest
    <3> QED BY <3>2, <3>3
  <2>2. r.in \notin HeaderKeys \cup omitted
    BY <1>1, <1>2, HeaderIsApart DEF Kept
  <2>3. ASSUME NEW l \in r.lists PROVE l.in \notin HeaderKeys \cup omitted
    <3>1. l.field \in DOMAIN table /\ KeyOf(table[l.field], author) = l.in
      BY <1>7 DEF Carried
    <3>2. {table[l.field].key, table[l.field].out} \cap HeaderKeys = {}
      BY <1>1, <3>1, HeaderIsApart
    <3> QED BY <3>1, <3>2 DEF Kept, KeyOf
  <2>4. Agree(wire, w, r.in) /\ \A l \in r.lists : Agree(wire, w, l.in)
    BY <2>1, <2>2, <2>3
  <2> QED BY <1>2, <1>7, <2>4, ReadAlone
<1> QED BY <1>4, <1>5, <1>6, <1>7

-----------------------------------------------------------------------------
(* The theorems                                                             *)

\* What Init and every step of Set, To(), an adapter's text, Omit and FromJSON leave is
\* an object of its class, a text of leaves, and an object of a registered class or none.
THEOREM TypeCorrect == Spec => []TypeOK
<1>1. ASSUME WireInv PROVE TypeOK
  <2>1. /\ class \in Class /\ DOMAIN object = DOMAIN Table[class]
        /\ stage \in {"built", "sent", "read"} /\ author \in {"library", "adapter"}
    BY <1>1 DEF WireInv, Objects
  <2>2. \A k \in DOMAIN wire : DOMAIN wire[k] = {"t", "v"}
    <3>1. CASE stage = "built"
      BY <1>1, <3>1 DEF WireInv
    <3>2. CASE stage # "built"
      BY <1>1, <3>2, SentFacts DEF WireInv
    <3> QED BY <3>1, <3>2
  <2>3. stage # "read" => got = Nothing
    BY <1>1 DEF WireInv
  <2>4. CASE stage = "read"
    <3> DEFINE c == Lookup(Kind(wire), Name(wire))
    <3>1. /\ got.class = c
          /\ c # NoClass => got.object = [f \in DOMAIN Table[c] |-> Field(Table[c][f], wire)]
      BY <1>1, <2>4, GotFacts
    <3>2. got.class \in Registered \cup {NoClass}
      BY <1>1, <2>4, ReadFacts
    <3>3. NoClass \notin Class /\ Registered \subseteq Class
      BY ClassesAreTold DEF Registered
    <3> HIDE DEF c
    <3>4. got.class \in Class \cup {NoClass}
      BY <3>2, <3>3
    <3>5. got.class \in Class => DOMAIN got.object = DOMAIN Table[got.class]
      BY <3>1, <3>3
    <3> QED BY <2>1, <2>2, <2>3, <3>4, <3>5 DEF TypeOK
  <2>5. CASE stage # "read"
    <3>1. got.class = NoClass
      BY <2>3, <2>5 DEF Nothing
    <3>2. got.class \in Class \cup {NoClass} /\ got.class \notin Class
      BY <3>1, ClassesAreTold
    <3> QED BY <2>1, <2>2, <2>3, <3>2 DEF TypeOK
  <2> QED BY <2>4, <2>5
<1> QED BY <1>1, Invariant, PTL

\* What the library writes with the To() of a class and reads again with its From() is the
\* same object of the same class, field by field, up to Lost: for any number of fields set
\* and of keys left out (dap.cpp, ObjGenerator::FromJSON).
THEOREM ReadBackTheorem == Spec => []ReadBack
<1>1. ASSUME WireInv PROVE ReadBack
  <2> SUFFICES ASSUME stage = "read", author = "library", omitted \cap HeaderKeys = {},
                      class \in Registered
               PROVE  /\ got.class = class
                      /\ \A f \in DOMAIN object :
                           Live(Table[class][f], object) /\ Kept(Table[class][f])
                             /\ got.object[f] # object[f] =>
                             Lost(class, Table[class][f], object[f])
    BY DEF ReadBack
  <2>1. got.class = class
    BY <1>1, ReadFacts
  <2>2. ASSUME NEW f \in DOMAIN object, Live(Table[class][f], object), Kept(Table[class][f]),
               got.object[f] # object[f]
        PROVE  Lost(class, Table[class][f], object[f])
    <3>1. Excused(class, Table[class][f], object[f], author)
      BY <1>1, <2>2, KeptIsRead
    <3> QED BY <3>1 DEF Excused
  <2> QED BY <2>1, <2>2
<1> QED BY <1>1, Invariant, PTL

\* A value that an adapter sends at the key of the protocol, in an event or a response of a
\* class that Initialize() registers, is the value that the From() of its class gives to the
\* plugin, up to Unheard, whatever else of the message is set or is left out (dap.cpp).
THEOREM AdapterIsHeardTheorem == Spec => []AdapterIsHeard
<1>1. ASSUME WireInv PROVE AdapterIsHeard
  <2> SUFFICES ASSUME stage = "read", author = "adapter", omitted \cap HeaderKeys = {},
                      class \in Registered
               PROVE  /\ got.class = class
                      /\ \A f \in DOMAIN object :
                           Live(Table[class][f], object) /\ Kept(Table[class][f])
                             /\ got.object[f] # object[f] =>
                             Unheard(Table[class][f], object[f])
    BY DEF AdapterIsHeard
  <2>1. got.class = class
    BY <1>1, ReadFacts
  <2>2. ASSUME NEW f \in DOMAIN object, Live(Table[class][f], object), Kept(Table[class][f]),
               got.object[f] # object[f]
        PROVE  Unheard(Table[class][f], object[f])
    <3>1. Excused(class, Table[class][f], object[f], author)
      BY <1>1, <2>2, KeptIsRead
    <3> QED BY <3>1 DEF Excused
  <2> QED BY <2>1, <2>2
<1> QED BY <1>1, Invariant, PTL

\* A key that the peer leaves out leaves its field as dap.hpp declares it, up to
\* NotAsDeclared, whatever else of the message is set or is left out (dap.cpp: From()).
THEOREM OmittedIsDefaultTheorem == Spec => []OmittedIsDefault
<1>1. ASSUME WireInv PROVE OmittedIsDefault
  <2> SUFFICES ASSUME stage = "read", got.class = class, NEW f \in DOMAIN object,
                      Table[class][f].in \in omitted,
                      <<Table[class][f].owner, Table[class][f].name>> \notin NotAsDeclared
               PROVE  got.object[f] = Default(Table[class][f])
    BY DEF OmittedIsDefault
  <2> DEFINE r == Table[class][f]
  <2>1. /\ class \in Class /\ Objects(class, object)
        /\ got.class \in Registered \cup {NoClass}
    BY <1>1, ReadFacts
  <2>0. PICK head \in Heads(class) : /\ wire = Rest(Sent(class, object, author, head), omitted)
                                     /\ omitted \subseteq DOMAIN Sent(class, object, author, head)
    BY <1>1, ReadFacts
  <2>2. class \in Registered /\ class # NoClass
    BY <2>1, ClassesAreTold
  <2>3. omitted \cap DOMAIN wire = {} /\ NoPath \notin DOMAIN Sent(class, object, author, head)
    BY <2>0, <2>1, SentFacts
  <2>4. r.in \notin DOMAIN wire /\ r.in # NoPath
    BY <2>0, <2>3
  <2>5. f \in DOMAIN Table[class]
    BY <2>1 DEF Objects
  <2>6. r.miss = Default(r)
    BY <2>2, <2>4, <2>5, MissingIsDeclared
  <2>7. got.object[f] = Field(r, wire)
    BY <1>1, <2>2, <2>5, GotFacts
  <2>8. Field(r, wire) = Default(r)
    BY <2>4, <2>6 DEF Field
  <2> QED BY <2>7, <2>8
<1> QED BY <1>1, Invariant, PTL

\* A message that lost its type or its name is dropped, or taken for one of the two classes
\* without a name, and never for a message of another kind (ObjGenerator::FromJSON and New).
THEOREM NeverMistakenTheorem == Spec => []NeverMistaken
<1>1. WireInv => NeverMistaken
  BY ReadFacts DEF NeverMistaken
<1> QED BY <1>1, Invariant, PTL
=============================================================================
