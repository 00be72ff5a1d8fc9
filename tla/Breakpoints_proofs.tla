-------------------------- MODULE Breakpoints_proofs --------------------------
(***************************************************************************)
(* Proofs about Breakpoints: whatever the edits, answers, hits and         *)
(* sessions, the list and the map hold breakpoints that exist, an id and a *)
(* place name one breakpoint.                                              *)
(***************************************************************************)
EXTENDS Breakpoints, TLAPS

\* The breakpoints, between handlers and within one: what is referred to is a
\* breakpoint, and is in the file the map has it under.
Sound(b) ==
  /\ b \in Brk
  /\ \A o \in Exist(b) : b.info[o] \in Info
  /\ \A f \in File : \A o \in b.byFile[f] : b.info[o].file = f

Good(b) == b \in Brk /\ Whole(b)

UniqueIn(b) ==
  \A o, p \in b.list : b.info[o].id = b.info[p].id /\ b.info[o].id # NoId => o = p

Together(b, o, p) == b.info[o].file = b.info[p].file /\ b.info[o].line = b.info[p].line

NoTwinsIn(b) == \A o, p \in b.list : Together(b, o, p) => o = p

\* The same breakpoints, whatever was requested of them.
Same(b, c) == c \in Brk /\ c.list = b.list /\ c.info = b.info /\ c.byFile = b.byFile

\* The same breakpoints at the same places, with other ids or enabled otherwise.
Alike(b, c) ==
  /\ c.list = b.list /\ c.byFile = b.byFile
  /\ \A o \in b.list : c.info[o].file = b.info[o].file /\ c.info[o].line = b.info[o].line

-----------------------------------------------------------------------------
(* The operators on the breakpoints                                        *)

\* What does not exist is not a breakpoint.
LEMMA UnsetIsNone == Unset \notin Info
<1>1. "file" \notin DOMAIN Unset
  BY DEF Unset
<1>2. \A i \in Info : "file" \in DOMAIN i
  BY DEF Info
<1> QED  BY <1>1, <1>2

\* Breakpoints that are good are sound; those that are sound are good when what
\* nothing refers to is unset.
LEMMA GoodIsSound ==
  ASSUME NEW b
  PROVE  Good(b) <=> Sound(b) /\ \A o \in Unused(b) : b.info[o] = Unset
<1>1. b \in Brk => Exist(b) \subseteq Object /\ b.info \in [Object -> Info \cup {Unset}]
  BY DEF Brk, Exist
<1> QED  BY <1>1, UnsetIsNone DEF Good, Sound, Whole, Unused

\* Freed unsets what nothing refers to, and nothing else.
LEMMA FreedFacts ==
  ASSUME NEW b, Sound(b)
  PROVE  /\ Good(Freed(b))
         /\ Freed(b).list = b.list /\ Freed(b).byFile = b.byFile
         /\ \A o \in Exist(b) : Freed(b).info[o] = b.info[o]
<1> DEFINE c == Freed(b)
<1>1. b \in Brk /\ Exist(b) \subseteq Object
  BY DEF Sound, Brk, Exist
<1>2. /\ c.list = b.list /\ c.byFile = b.byFile
      /\ c.info = [o \in Object |-> IF o \in Exist(b) THEN b.info[o] ELSE Unset]
  BY <1>1 DEF Freed, Brk
<1>3. c.info \in [Object -> Info \cup {Unset}]
  BY <1>1, <1>2 DEF Sound
<1>4. c \in Brk
  BY <1>1, <1>3 DEF Freed, Brk
<1>5. Exist(c) = Exist(b)
  BY <1>2 DEF Exist
<1>6. \A o \in Exist(b) : c.info[o] = b.info[o]
  BY <1>1, <1>2
<1>7. \A f \in File : \A o \in b.byFile[f] : o \in Exist(b)
  BY DEF Exist
<1>8. Sound(c)
  BY <1>2, <1>4, <1>5, <1>6, <1>7 DEF Sound
<1>9. \A o \in Unused(c) : c.info[o] = Unset
  BY <1>2, <1>5 DEF Unused
<1> QED  BY <1>2, <1>6, <1>8, <1>9, GoodIsSound

\* A request for a file changes no breakpoint.
LEMMA TellSame ==
  ASSUME NEW b \in Brk, NEW f \in File, NEW lines \in SUBSET Line
  PROVE  Same(b, Tell(b, f, lines))
<1>1. Append(b.requests[f], lines) \in Seq(SUBSET Line)
  BY DEF Brk
<1> QED  BY <1>1 DEF Tell, Brk, Same

\* A change that is not sent changes no breakpoint.
LEMMA BehindSame ==
  ASSUME NEW b \in Brk, NEW files \in SUBSET File
  PROVE  Same(b, Behind(b, files))
BY DEF Behind, Brk, Same

\* The lines asked for are lines.
LEMMA LinesType ==
  ASSUME NEW b, Sound(b), NEW objects \in SUBSET Exist(b)
  PROVE  EnabledLines(b, objects) \in SUBSET Line
BY DEF EnabledLines, Sound, Info

\* UpdateDAPSetBreakpointsByFileName changes no breakpoint.
LEMMA UpdateSame ==
  ASSUME NEW b, Sound(b), NEW f \in File, NEW c \in Update(b, f)
  PROVE  Same(b, c)
<1>1. b.byFile[f] \in SUBSET Exist(b) /\ b \in Brk
  BY DEF Exist, Sound
<1>2. CASE c = Behind(b, {f})
  BY <1>1, <1>2, BehindSame
<1>3. CASE \E lines \in SUBSET Line : c = Behind(Tell(b, f, lines), {f})
  <2>1. PICK lines \in SUBSET Line : c = Behind(Tell(b, f, lines), {f})
    BY <1>3
  <2>2. Same(b, Tell(b, f, lines))
    BY <1>1, TellSame
  <2>3. Same(Tell(b, f, lines), c)
    BY <2>1, <2>2, BehindSame DEF Same
  <2> QED  BY <2>2, <2>3 DEF Same
<1>4. CASE c = Tell(b, f, EnabledLines(b, b.byFile[f]))
  BY <1>1, <1>4, LinesType, TellSame
<1> QED  BY <1>2, <1>3, <1>4 DEF Update

\* What is said of the breakpoints holds of the same ones.
LEMMA SameFacts ==
  ASSUME NEW b, NEW c, Same(b, c)
  PROVE  /\ Sound(b) => Sound(c)
         /\ Good(b) => Good(c)
         /\ UniqueIn(b) => UniqueIn(c)
         /\ NoTwinsIn(b) => NoTwinsIn(c)
         /\ Alike(b, c)
BY DEF Same, Sound, Good, Whole, Unused, Exist, UniqueIn, NoTwinsIn, Together, Alike

\* Enabling a breakpoint of the list leaves it where it is, with its id.
LEMMA EnableFacts ==
  ASSUME NEW b, Good(b), NEW o \in b.list, NEW on \in BOOLEAN, NEW f \in File
  PROVE  /\ Good(SetEnabled(b, o, on)) /\ Alike(b, SetEnabled(b, o, on))
         /\ \A p \in b.list : SetEnabled(b, o, on).info[p].id = b.info[p].id
         /\ \A e \in Enable(b, o, on, f) :
              Good(e) /\ Alike(b, e) /\ \A p \in b.list : e.info[p].id = b.info[p].id
<1> DEFINE c == [b EXCEPT !.info[o].enabled = on]
           d == SetEnabled(b, o, on)
<1>1. b \in Brk /\ Sound(b) /\ o \in Object /\ o \in Exist(b) /\ b.info[o] \in Info
  BY GoodIsSound DEF Good, Sound, Brk, Exist
<1>2. [b.info[o] EXCEPT !.enabled = on] \in Info
  BY <1>1 DEF Info
<1>3. /\ c.info = [b.info EXCEPT ![o] = [b.info[o] EXCEPT !.enabled = on]]
      /\ c.list = b.list /\ c.byFile = b.byFile
  BY <1>1 DEF Brk
<1>4. /\ c.info[o].id = b.info[o].id /\ c.info[o].file = b.info[o].file
      /\ c.info[o].line = b.info[o].line /\ c.info[o] \in Info
      /\ \A p \in Object : p # o => c.info[p] = b.info[p]
  BY <1>1, <1>2, <1>3 DEF Brk, Info
<1>5. c \in Brk
  BY <1>1, <1>2 DEF Brk
<1>6. Exist(c) = Exist(b) /\ Exist(b) \subseteq Object /\ \A g \in File : b.byFile[g] \subseteq Object
  BY <1>1, <1>3 DEF Exist, Brk
<1>7. Good(c)
  <2>1. Sound(c)
    BY <1>1, <1>3, <1>4, <1>5, <1>6 DEF Sound
  <2>2. \A p \in Unused(c) : c.info[p] = Unset
    BY <1>1, <1>4, <1>6, GoodIsSound DEF Unused
  <2> QED  BY <2>1, <2>2, GoodIsSound
<1>8. Alike(b, c) /\ \A p \in b.list : c.info[p].id = b.info[p].id
  BY <1>1, <1>3, <1>4 DEF Alike, Brk
<1>9. {b.info[o].file} \in SUBSET File
  BY <1>1 DEF Info
<1>10. Same(c, d)
  BY <1>5, <1>9, BehindSame DEF SetEnabled
<1> HIDE DEF c, d
<1>11. Good(d) /\ Sound(d) /\ d.info = c.info /\ Alike(b, d)
  <2>1. Good(d) /\ Sound(d)
    BY <1>7, <1>10, SameFacts, GoodIsSound
  <2> QED  BY <2>1, <1>8, <1>10 DEF Same, Alike
<1>12. \A e \in Update(d, f) : Same(d, e)
  BY <1>11, UpdateSame
<1>13. \A e \in Update(d, f) : Good(e) /\ e.info = c.info /\ Alike(b, e)
  BY <1>11, <1>12, SameFacts DEF Same, Alike
<1>14. \A e \in Enable(b, o, on, f) : e = b \/ e \in Update(d, f)
  BY DEF Enable, d
<1> USE DEF d
<1> QED  BY <1>8, <1>11, <1>13, <1>14 DEF Alike

\* A breakpoint may be given an id that no breakpoint has.
LEMMA SetIdFacts ==
  ASSUME NEW b, Good(b), NEW o \in b.list, NEW id \in Id, Holders(b, id) = {}
  PROVE  LET c == [b EXCEPT !.info[o].id = id]
         IN  Good(c) /\ Alike(b, c) /\ (UniqueIn(b) => UniqueIn(c))
<1> DEFINE c == [b EXCEPT !.info[o].id = id]
<1>1. b \in Brk /\ Sound(b) /\ o \in Object /\ o \in Exist(b) /\ b.info[o] \in Info
  BY GoodIsSound DEF Good, Sound, Brk, Exist
<1>2. [b.info[o] EXCEPT !.id = id] \in Info
  BY <1>1 DEF Info
<1>3. /\ c.info = [b.info EXCEPT ![o] = [b.info[o] EXCEPT !.id = id]]
      /\ c.list = b.list /\ c.byFile = b.byFile
  BY <1>1 DEF Brk
<1>4. /\ c.info[o].id = id /\ c.info[o].file = b.info[o].file
      /\ c.info[o].line = b.info[o].line /\ c.info[o] \in Info
      /\ \A p \in Object : p # o => c.info[p] = b.info[p]
  BY <1>1, <1>2, <1>3 DEF Brk, Info
<1>5. c \in Brk
  BY <1>1, <1>2 DEF Brk
<1>6. Exist(c) = Exist(b) /\ Exist(b) \subseteq Object /\ b.list \subseteq Object
      /\ \A g \in File : b.byFile[g] \subseteq Object
  BY <1>1, <1>3 DEF Exist, Brk
<1>7. Good(c)
  <2>1. Sound(c)
    BY <1>1, <1>3, <1>4, <1>5, <1>6 DEF Sound
  <2>2. \A p \in Unused(c) : c.info[p] = Unset
    BY <1>1, <1>4, <1>6, GoodIsSound DEF Unused
  <2> QED  BY <2>1, <2>2, GoodIsSound
<1>8. Alike(b, c)
  BY <1>3, <1>4, <1>6 DEF Alike
<1>9. UniqueIn(b) => UniqueIn(c)
  BY <1>3, <1>4, <1>6 DEF UniqueIn, Holders
<1> QED  BY <1>7, <1>8, <1>9

\* A new breakpoint is an object of its own.
LEMMA AddFacts ==
  ASSUME NEW b, Good(b), NEW f \in File, NEW l \in Line, NEW id \in Id \cup {NoId},
         NEW o \in Unused(b),
         id = NoId \/ Holders(b, id) = {}, At(b, f, l) = {}
  PROVE  \A c \in Add(b, f, l, id, o) : /\ Good(c)
                                        /\ UniqueIn(b) => UniqueIn(c)
                                        /\ NoTwinsIn(b) => NoTwinsIn(c)
<1> DEFINE new == [file |-> f, line |-> l, enabled |-> TRUE, id |-> id, temporary |-> FALSE]
           made == [b EXCEPT !.info[o] = new, !.list = @ \cup {o}]
           c == MapAdd(made, f, o)
<1>1. b \in Brk /\ Sound(b) /\ o \in Object /\ o \notin Exist(b)
  BY GoodIsSound DEF Good, Unused
<1>2. new \in Info /\ new.file = f /\ new.line = l /\ new.id = id
  BY DEF Info
<1>3. made \in Brk
  BY <1>1, <1>2 DEF Brk
<1>4. /\ made.list = b.list \cup {o} /\ made.byFile = b.byFile
      /\ made.info[o] = new
      /\ \A p \in Object : p # o => made.info[p] = b.info[p]
  BY <1>1 DEF Brk
<1>5. /\ c \in Brk /\ c.list = made.list /\ c.info = made.info
      /\ \A g \in File : c.byFile[g] = b.byFile[g] \/ (g = f /\ c.byFile[g] = b.byFile[g] \cup {o})
  <2>1. b.byFile \in [File -> SUBSET Object]
    BY <1>1 DEF Brk
  <2>2. [made EXCEPT !.mixed = @ \cup {f}] \in Brk
    BY <1>3 DEF Brk
  <2>3. [made EXCEPT !.byFile[f] = @ \cup {o}] \in Brk
    BY <1>1, <1>3 DEF Brk
  <2>4. /\ [made EXCEPT !.mixed = @ \cup {f}].list = made.list
        /\ [made EXCEPT !.mixed = @ \cup {f}].info = made.info
        /\ [made EXCEPT !.mixed = @ \cup {f}].byFile = b.byFile
    BY <1>3, <1>4 DEF Brk
  <2>5. /\ [made EXCEPT !.byFile[f] = @ \cup {o}].list = made.list
        /\ [made EXCEPT !.byFile[f] = @ \cup {o}].info = made.info
        /\ [made EXCEPT !.byFile[f] = @ \cup {o}].byFile = [b.byFile EXCEPT ![f] = @ \cup {o}]
    BY <1>3, <1>4 DEF Brk
  <2> QED  BY <2>1, <2>2, <2>3, <2>4, <2>5 DEF MapAdd
<1> HIDE DEF made, c
<1>6. Exist(c) = Exist(b) \cup {o} /\ Exist(b) \subseteq Object /\ b.list \subseteq Exist(b)
      /\ \A g \in File : b.byFile[g] \subseteq Exist(b)
  <2>1. \A p : p \in Exist(c) <=> p \in Exist(b) \/ p = o
    BY <1>4, <1>5 DEF Exist
  <2>2. Exist(c) = Exist(b) \cup {o}
    BY <2>1
  <2>3. Exist(b) \subseteq Object
    BY <1>1 DEF Exist, Brk
  <2>4. b.list \subseteq Exist(b) /\ \A g \in File : b.byFile[g] \subseteq Exist(b)
    BY DEF Exist
  <2> QED  BY <2>2, <2>3, <2>4
<1>a. /\ c.list = b.list \cup {o} /\ c.info[o] = new
      /\ \A p \in Exist(b) : p # o /\ c.info[p] = b.info[p]
  BY <1>1, <1>4, <1>5, <1>6
<1> HIDE DEF new
<1>7. Sound(c)
  <2>1. \A p \in Exist(c) : c.info[p] \in Info
    BY <1>1, <1>2, <1>a, <1>6 DEF Sound
  <2>2. \A g \in File : \A p \in c.byFile[g] : c.info[p].file = g
    BY <1>1, <1>2, <1>a, <1>5, <1>6 DEF Sound
  <2> QED  BY <1>5, <2>1, <2>2 DEF Sound
<1>8. Good(c)
  BY <1>1, <1>4, <1>5, <1>6, <1>7, GoodIsSound DEF Unused
<1>9. UniqueIn(b) => UniqueIn(c)
  BY <1>2, <1>a, <1>6 DEF UniqueIn, Holders
<1>10. NoTwinsIn(b) => NoTwinsIn(c)
  BY <1>2, <1>a, <1>6 DEF NoTwinsIn, Together, At
<1>11. \A e \in Update(c, f) : Same(c, e)
  BY <1>7, UpdateSame
<1>12. Add(b, f, l, id, o) = Update(c, f)
  BY DEF Add, c, made, new
<1> QED  BY <1>8, <1>9, <1>10, <1>11, <1>12, SameFacts

\* Breakpoints alike have the same twins, and, with the same ids, as many of each.
LEMMA AlikeFacts ==
  ASSUME NEW b, NEW c, Alike(b, c)
  PROVE  /\ NoTwinsIn(b) => NoTwinsIn(c)
         /\ (\A o \in b.list : c.info[o].id = b.info[o].id) /\ UniqueIn(b) => UniqueIn(c)
BY DEF Alike, NoTwinsIn, UniqueIn, Together

\* UpdateOrAddBreakpoint makes no twin, and gives no id twice.
LEMMA UpdateOrAddFacts ==
  ASSUME NEW b, Good(b), NEW f \in File, NEW l \in Line, NEW on \in BOOLEAN,
         NEW id \in Id \cup {NoId}, NEW c \in UpdateOrAdd(b, f, l, on, id)
  PROVE  /\ Good(c)
         /\ UniqueIn(b) => UniqueIn(c)
         /\ NoTwinsIn(b) => NoTwinsIn(c)
<1>1. CASE id # NoId /\ Holders(b, id) # {}
  <2>1. PICK o \in Holders(b, id) : c \in Enable(b, o, on, f)
    BY <1>1 DEF UpdateOrAdd
  <2>2. o \in b.list
    BY DEF Holders
  <2>3. Good(c) /\ Alike(b, c) /\ \A p \in b.list : c.info[p].id = b.info[p].id
    BY <2>1, <2>2, EnableFacts
  <2> QED  BY <2>3, AlikeFacts
<1>2. CASE ~(id # NoId /\ Holders(b, id) # {}) /\ At(b, f, l) # {}
  <2>1. PICK o \in At(b, f, l) :
          c \in Enable(IF id = NoId THEN b ELSE [b EXCEPT !.info[o].id = id], o, on, f)
    BY <1>2 DEF UpdateOrAdd
  <2> DEFINE d == IF id = NoId THEN b ELSE [b EXCEPT !.info[o].id = id]
  <2>2. o \in b.list
    BY DEF At
  <2>3. Good(d) /\ Alike(b, d) /\ (UniqueIn(b) => UniqueIn(d))
    <3>1. CASE id = NoId
      BY <3>1 DEF Alike
    <3>2. CASE id # NoId
      BY <1>2, <2>2, <3>2, SetIdFacts
    <3> QED  BY <3>1, <3>2
  <2>4. c \in Enable(d, o, on, f)
    BY <2>1
  <2> HIDE DEF d
  <2>5. o \in d.list
    BY <2>2, <2>3 DEF Alike
  <2>6. Good(c) /\ Alike(d, c) /\ \A p \in d.list : c.info[p].id = d.info[p].id
    BY <2>3, <2>4, <2>5, EnableFacts
  <2> QED  BY <2>3, <2>6, AlikeFacts
<1>3. CASE ~(id # NoId /\ Holders(b, id) # {}) /\ At(b, f, l) = {}
  <2>1. PICK o \in Unused(b) : c \in Add(b, f, l, id, o)
    BY <1>3 DEF UpdateOrAdd
  <2> QED  BY <1>3, <2>1, AddFacts
<1> QED  BY <1>1, <1>2, <1>3

\* Fewer breakpoints, each as it was, of which what nothing refers to may have
\* ceased to exist.
Fewer(b, c) ==
  /\ c.list \subseteq b.list
  /\ \A o \in c.list : c.info[o] = b.info[o]

\* Fewer breakpoints have no more twins.
LEMMA FewerFacts ==
  ASSUME NEW b, NEW c, Fewer(b, c)
  PROVE  (UniqueIn(b) => UniqueIn(c)) /\ (NoTwinsIn(b) => NoTwinsIn(c))
BY DEF Fewer, UniqueIn, NoTwinsIn, Together

\* DeleteBreakpoint takes one breakpoint off the list and leaves the others.
LEMMA DeletedFacts ==
  ASSUME NEW b, Good(b), NEW o \in Object, b.info[o].file \in File, NEW c \in Deleted(b, o)
  PROVE  Good(c) /\ Fewer(b, c) /\ c.list = b.list \ {o}
<1> DEFINE f == b.info[o].file
<1>1. PICK e \in MapErase(b, f, o) :
        \E u \in Update([e EXCEPT !.list = @ \ {o}], f) : c = Freed(u)
  BY DEF Deleted
<1>u. PICK u \in Update([e EXCEPT !.list = @ \ {o}], f) : c = Freed(u)
  BY <1>1
<1>2. b \in Brk /\ Sound(b)
  BY GoodIsSound DEF Good
<1>3. /\ e \in Brk /\ e.list = b.list /\ e.info = b.info
      /\ \A g \in File : e.byFile[g] \subseteq b.byFile[g]
  <2> DEFINE same == {p \in b.byFile[f] : b.info[p].line = b.info[o].line}
             less(p) == [b EXCEPT !.byFile[f] = @ \ {p},
                                  !.mixed = IF p = o THEN @ ELSE @ \cup {f}]
  <2>1. e = b \/ \E p \in same : e = less(p)
    BY <1>1 DEF MapErase
  <2>2. ASSUME NEW p \in same PROVE
          /\ less(p) \in Brk /\ less(p).list = b.list /\ less(p).info = b.info
          /\ less(p).byFile = [b.byFile EXCEPT ![f] = @ \ {p}]
    BY <1>2 DEF Brk
  <2>3. b.byFile \in [File -> SUBSET Object]
    BY <1>2 DEF Brk
  <2> HIDE DEF same, less
  <2>4. CASE e = b
    BY <1>2, <2>4
  <2>5. CASE \E p \in same : e = less(p)
    <3>1. PICK p \in same : e = less(p)
      BY <2>5
    <3>2. /\ e \in Brk /\ e.list = b.list /\ e.info = b.info
          /\ e.byFile = [b.byFile EXCEPT ![f] = @ \ {p}]
      BY <2>2, <3>1
    <3> QED BY <2>3, <3>2
  <2> QED  BY <2>1, <2>4, <2>5
<1> DEFINE d == [e EXCEPT !.list = @ \ {o}]
<1>4. /\ d \in Brk /\ d.list = b.list \ {o} /\ d.info = b.info
      /\ \A g \in File : d.byFile[g] \subseteq b.byFile[g]
  BY <1>3 DEF Brk
<1> HIDE DEF d
<1>5. Exist(d) \subseteq Exist(b)
  BY <1>4 DEF Exist
<1>6. Sound(d)
  BY <1>2, <1>4, <1>5 DEF Sound
<1>7. Same(d, u) /\ Sound(u)
  BY <1>u, <1>6, UpdateSame, SameFacts DEF d
<1>8. /\ Good(c) /\ c.list = u.list
      /\ \A p \in Exist(u) : c.info[p] = u.info[p]
  BY <1>u, <1>7, FreedFacts
<1> QED  BY <1>4, <1>7, <1>8 DEF Same, Exist, Fewer

\* The end of a connection changes no breakpoint.
LEMMA DisconnectedFacts ==
  ASSUME NEW b \in Brk, NEW c \in Disconnected(b)
  PROVE  Same(b, c)
<1> DEFINE all == UNION {Prefixes(b.requests[f]) : f \in File}
<1>1. PICK q \in [File -> all] : c = [Behind(b, File) EXCEPT !.requests = q]
  BY DEF Disconnected
<1>2. \A f \in File : b.requests[f] \in Seq(SUBSET Line)
  BY DEF Brk
<1>3. \A s \in Seq(SUBSET Line) : Prefixes(s) \subseteq Seq(SUBSET Line)
  BY DEF Prefixes
<1>4. all \subseteq Seq(SUBSET Line)
  BY <1>2, <1>3
<1> HIDE DEF all
<1>5. q \in [File -> Seq(SUBSET Line)]
  BY <1>4
<1>6. Same(b, Behind(b, File))
  BY BehindSame
<1> QED  BY <1>1, <1>5, <1>6 DEF Same, Brk

\* A breakpoint may become temporary.
LEMMA TemporaryFacts ==
  ASSUME NEW b, Good(b), NEW o \in b.list
  PROVE  LET c == [b EXCEPT !.info[o].temporary = TRUE]
         IN  /\ Good(c)
             /\ UniqueIn(b) => UniqueIn(c)
             /\ NoTwinsIn(b) => NoTwinsIn(c)
<1> DEFINE c == [b EXCEPT !.info[o].temporary = TRUE]
<1>1. b \in Brk /\ Sound(b) /\ o \in Object /\ o \in Exist(b) /\ b.info[o] \in Info
  BY GoodIsSound DEF Good, Sound, Brk, Exist
<1>2. [b.info[o] EXCEPT !.temporary = TRUE] \in Info
  BY <1>1 DEF Info
<1>3. /\ c.info = [b.info EXCEPT ![o] = [b.info[o] EXCEPT !.temporary = TRUE]]
      /\ c.list = b.list /\ c.byFile = b.byFile
  BY <1>1 DEF Brk
<1>4. /\ c.info[o].id = b.info[o].id /\ c.info[o].file = b.info[o].file
      /\ c.info[o].line = b.info[o].line /\ c.info[o] \in Info
      /\ \A p \in Object : p # o => c.info[p] = b.info[p]
  BY <1>1, <1>2, <1>3 DEF Brk, Info
<1>5. c \in Brk
  BY <1>1, <1>2 DEF Brk
<1>6. Exist(c) = Exist(b) /\ Exist(b) \subseteq Object /\ b.list \subseteq Object
      /\ \A g \in File : b.byFile[g] \subseteq Object
  BY <1>1, <1>3 DEF Exist, Brk
<1>7. Good(c)
  <2>1. Sound(c)
    <3>1. ASSUME NEW p \in Exist(c) PROVE c.info[p] \in Info /\ c.info[p].file = b.info[p].file
      <4>1. p \in Exist(b) /\ b.info[p] \in Info
        BY <1>1, <1>6 DEF Sound
      <4> QED BY <1>4, <4>1
    <3>2. ASSUME NEW g \in File, NEW p \in c.byFile[g] PROVE c.info[p].file = g
      <4>1. p \in b.byFile[g] /\ b.info[p].file = g
        BY <1>1, <1>3 DEF Sound
      <4> QED BY <1>4, <4>1
    <3> QED BY <1>5, <3>1, <3>2 DEF Sound
  <2>2. \A p \in Unused(c) : c.info[p] = Unset
    BY <1>1, <1>4, <1>6, GoodIsSound DEF Unused
  <2> QED  BY <2>1, <2>2, GoodIsSound
<1>8. Alike(b, c) /\ \A p \in b.list : c.info[p].id = b.info[p].id
  BY <1>3, <1>4, <1>6 DEF Alike
<1> QED  BY <1>7, <1>8, AlikeFacts

-----------------------------------------------------------------------------
(* The invariant                                                           *)

\* While the lines of an edit are deleted, of two breakpoints at a place one is
\* still to be deleted.
LostTwins ==
  \A o, p \in brk.list :
    Together(brk, o, p) /\ o # p => \E t \in todo : t.do = "delete" /\ t.object \in {o, p}

\* A handler confirms or deletes, not both.
OneLoop == todo \subseteq Confirmation \/ todo \subseteq Deletion

\* What the next turns of a loop delete is in a file.
LostAreSet == \A t \in todo : t.do = "delete" => t.object \in brk.list

IInv == TypeOK /\ UniqueIds /\ OneLoop /\ LostAreSet /\ LostTwins

Session ==
  /\ flags \subseteq Flag
  /\ due \subseteq {"launch", "attach", "initialized"}
  /\ connected \in BOOLEAN /\ built \in BOOLEAN

\* Between handlers the invariant says that there are no twins.
LEMMA IdleFacts ==
  ASSUME IInv
  PROVE  /\ Good(brk) /\ Sound(brk) /\ brk \in Brk /\ UniqueIn(brk) /\ Session
         /\ \A o \in brk.list : o \in Object /\ brk.info[o] \in Info
         /\ Idle \/ todo \subseteq Confirmation => NoTwinsIn(brk)
<1>1. Good(brk) /\ Sound(brk) /\ brk \in Brk /\ UniqueIn(brk) /\ Session
  BY GoodIsSound DEF IInv, TypeOK, Good, UniqueIds, UniqueIn, Session
<1>2. \A o \in brk.list : o \in Object /\ brk.info[o] \in Info
  BY <1>1 DEF Sound, Exist, Brk
<1>3. \A t \in Confirmation : t.do # "delete"
  BY DEF Confirmation
<1>4. Idle \/ todo \subseteq Confirmation => NoTwinsIn(brk)
  BY <1>3 DEF IInv, LostTwins, NoTwinsIn, Idle
<1> QED  BY <1>1, <1>2, <1>4

\* A step that makes no twin and gives no id twice keeps the invariant, when what
\* is left to do is to confirm.
LEMMA KeptStep ==
  ASSUME IInv, todo \subseteq Confirmation, todo' \subseteq Confirmation,
         Good(brk'),
         UniqueIn(brk) => UniqueIn(brk'), NoTwinsIn(brk) => NoTwinsIn(brk'),
         Session'
  PROVE  IInv'
<1>1. UniqueIn(brk') /\ NoTwinsIn(brk')
  BY IdleFacts
<1>2. TypeOK'
  BY DEF TypeOK, Good, Session
<1>3. OneLoop' /\ UniqueIds' /\ LostTwins'
  BY <1>1 DEF OneLoop, UniqueIds, UniqueIn, LostTwins, NoTwinsIn
<1>4. \A t \in Confirmation : t.do # "delete"
  BY DEF Confirmation
<1>5. LostAreSet'
  BY <1>4 DEF LostAreSet
<1> QED  BY <1>2, <1>3, <1>5 DEF IInv

\* An action of the user, of the session or of a hit.
LEMMA IdleStep ==
  ASSUME IInv, Idle, UNCHANGED todo, Good(brk'),
         UniqueIn(brk) => UniqueIn(brk'), NoTwinsIn(brk) => NoTwinsIn(brk'),
         Session'
  PROVE  IInv'
BY KeptStep DEF Idle

\* The invariant holds at the start,
LEMMA IInvInit == Init => IInv
<1> SUFFICES ASSUME Init PROVE IInv
  OBVIOUS
<1>1. brk \in Brk
  <2>1. <<>> \in Seq(SUBSET Line)
    OBVIOUS
  <2> QED  BY <2>1 DEF Init, Nothing, Brk
<1>2. /\ brk.list = {} /\ brk.byFile = [f \in File |-> {}]
      /\ brk.info = [o \in Object |-> Unset]
  BY DEF Init, Nothing
<1>3. Exist(brk) = {}
  BY <1>2 DEF Exist
<1>4. Whole(brk)
  BY <1>2, <1>3 DEF Whole, Unused
<1>5. flags \subseteq Flag
  BY DEF Init, InitialState, RemoveState, Flag
<1>6. TypeOK
  BY <1>1, <1>4, <1>5 DEF Init, TypeOK
<1> QED  BY <1>2, <1>6 DEF IInv, Init, Nothing, UniqueIds, OneLoop, LostAreSet, LostTwins

\* A program that is started again begins as it first did.
LEMMA RestartInit == Restart => Init'
BY DEF Restart, Init

\* The actions of the user that add, delete or enable one breakpoint.
LEMMA UserSteps ==
  ASSUME IInv
  PROVE  /\ \A f \in File, l \in Line : AddBreakpoint(f, l) => IInv'
         /\ \A f \in File, l \in Line : RunToCursor(f, l) => IInv'
         /\ \A o \in brk.list : DeleteBreakpoint(o) => IInv'
         /\ \A o \in brk.list : UpdateBreakpoint(o) => IInv'
         /\ \A o \in brk.list, on \in BOOLEAN : EnableBreakpoint(o, on) => IInv'
<1>1. UNCHANGED session => Session'
  BY IdleFacts DEF session, Session
<1>2. ASSUME NEW f \in File, NEW l \in Line, AddBreakpoint(f, l) PROVE IInv'
  <2>1. brk' \in UpdateOrAdd(brk, f, l, TRUE, NoId) /\ Idle /\ UNCHANGED <<todo, session>>
    BY <1>2 DEF AddBreakpoint
  <2>2. /\ Good(brk')
        /\ (UniqueIn(brk) => UniqueIn(brk')) /\ (NoTwinsIn(brk) => NoTwinsIn(brk'))
    BY <2>1, IdleFacts, UpdateOrAddFacts
  <2> QED  BY <1>1, <2>1, <2>2, IdleStep
<1>3. ASSUME NEW f \in File, NEW l \in Line, RunToCursor(f, l) PROVE IInv'
  <2>1. PICK b \in UpdateOrAdd(brk, f, l, TRUE, NoId) :
          \E o \in At(b, f, l) : brk' = [b EXCEPT !.info[o].temporary = TRUE]
    BY <1>3 DEF RunToCursor
  <2>2. PICK o \in At(b, f, l) : brk' = [b EXCEPT !.info[o].temporary = TRUE]
    BY <2>1
  <2>3. Good(b) /\ (UniqueIn(brk) => UniqueIn(b)) /\ (NoTwinsIn(brk) => NoTwinsIn(b))
    BY IdleFacts, UpdateOrAddFacts
  <2>4. /\ Good(brk')
        /\ (UniqueIn(b) => UniqueIn(brk')) /\ (NoTwinsIn(b) => NoTwinsIn(brk'))
    BY <2>2, <2>3, TemporaryFacts DEF At
  <2>5. Idle /\ UNCHANGED <<todo, session>>
    BY <1>3 DEF RunToCursor
  <2> QED  BY <1>1, <2>3, <2>4, <2>5, IdleStep
<1>4. ASSUME NEW o \in brk.list, DeleteBreakpoint(o) PROVE IInv'
  <2>1. brk' \in Deleted(brk, o) /\ Idle /\ UNCHANGED <<todo, session>>
    BY <1>4 DEF DeleteBreakpoint
  <2>2. o \in Object /\ brk.info[o].file \in File
    BY IdleFacts DEF Info
  <2>3. Good(brk') /\ Fewer(brk, brk')
    BY <2>1, <2>2, IdleFacts, DeletedFacts
  <2> QED  BY <1>1, <2>1, <2>3, FewerFacts, IdleStep
<1>5. ASSUME NEW o \in brk.list, UpdateBreakpoint(o) PROVE IInv'
  <2>1. PICK b \in Deleted(brk, o) :
          brk' \in UpdateOrAdd(b, brk.info[o].file, brk.info[o].line, TRUE, NoId)
    BY <1>5 DEF UpdateBreakpoint
  <2>2. o \in Object /\ brk.info[o].file \in File /\ brk.info[o].line \in Line
    BY IdleFacts DEF Info
  <2>3. Good(b) /\ Fewer(brk, b)
    BY <2>2, IdleFacts, DeletedFacts
  <2>4. /\ Good(brk')
        /\ (UniqueIn(b) => UniqueIn(brk')) /\ (NoTwinsIn(b) => NoTwinsIn(brk'))
    BY <2>1, <2>2, <2>3, UpdateOrAddFacts
  <2>5. Idle /\ UNCHANGED <<todo, session>>
    BY <1>5 DEF UpdateBreakpoint
  <2> QED  BY <1>1, <2>3, <2>4, <2>5, FewerFacts, IdleStep
<1>6. ASSUME NEW o \in brk.list, NEW on \in BOOLEAN, EnableBreakpoint(o, on) PROVE IInv'
  <2> DEFINE i == brk.info[o]
  <2>1. i.file \in File /\ i.line \in Line /\ i.id \in Id \cup {NoId}
    BY IdleFacts DEF Info
  <2>2. \/ brk' \in UpdateOrAdd(brk, i.file, i.line, on, i.id)
        \/ brk' = SetEnabled(brk, o, on)
    BY <1>6 DEF EnableBreakpoint
  <2>3. ASSUME brk' \in UpdateOrAdd(brk, i.file, i.line, on, i.id)
        PROVE  /\ Good(brk')
               /\ (UniqueIn(brk) => UniqueIn(brk')) /\ (NoTwinsIn(brk) => NoTwinsIn(brk'))
    BY <2>1, <2>3, IdleFacts, UpdateOrAddFacts
  <2>4. ASSUME brk' = SetEnabled(brk, o, on)
        PROVE  /\ Good(brk')
               /\ (UniqueIn(brk) => UniqueIn(brk')) /\ (NoTwinsIn(brk) => NoTwinsIn(brk'))
    BY <2>1, <2>4, IdleFacts, EnableFacts, AlikeFacts
  <2>5. Idle /\ UNCHANGED <<todo, session>>
    BY <1>6 DEF EnableBreakpoint
  <2> QED  BY <1>1, <2>2, <2>3, <2>4, <2>5, IdleStep
<1> QED  BY <1>2, <1>3, <1>4, <1>5, <1>6

\* The actions that clear the map: the objects that only it held cease to exist.
LEMMA ClearedFacts ==
  ASSUME NEW b, Good(b), NEW d \in Brk, d.list \in {b.list, {}}, d.info = b.info,
         d.byFile = [f \in File |-> {}]
  PROVE  Good(Freed(d)) /\ Fewer(b, Freed(d))
<1>1. Exist(d) = d.list
  BY DEF Exist
<1>2. b.list \subseteq Exist(b)
  BY DEF Exist
<1>3. Sound(b)
  BY GoodIsSound
<1>4. Sound(d)
  BY <1>1, <1>2, <1>3 DEF Sound
<1> QED  BY <1>1, <1>4, FreedFacts DEF Fewer

\* DeleteAllBreakpoints keeps the invariant,
LEMMA DeleteAllStep == ASSUME IInv, DeleteAllBreakpoints PROVE IInv'
<1> DEFINE told(f) == IsRunning(flags) /\ brk.byFile[f] # {}
           queues == [f \in File |-> IF told(f) THEN Append(brk.requests[f], {}) ELSE brk.requests[f]]
           left == {f \in File : ~told(f) /\ (f \in brk.behind \/ brk.byFile[f] # {})}
           latest == [f \in File |-> IF brk.byFile[f] # {} THEN {} ELSE brk.told[f]]
           d == [brk EXCEPT !.list = {}, !.byFile = [f \in File |-> {}], !.requests = queues,
                            !.told = latest, !.behind = left, !.mixed = {}]
<1>1. brk' = Freed(d) /\ Idle /\ UNCHANGED <<todo, session>>
  BY DEF DeleteAllBreakpoints
<1>2. brk \in Brk
  BY IdleFacts
<1>3. \A f \in File : brk.requests[f] \in Seq(SUBSET Line)
                     /\ Append(brk.requests[f], {}) \in Seq(SUBSET Line)
  BY <1>2 DEF Brk
<1>4. queues \in [File -> Seq(SUBSET Line)] /\ latest \in [File -> SUBSET Line]
      /\ left \in SUBSET File
  BY <1>2, <1>3 DEF Brk
<1> HIDE DEF queues, left, latest
<1>5. /\ d \in Brk /\ d.list = {} /\ d.info = brk.info
      /\ d.byFile = [f \in File |-> {}]
  BY <1>2, <1>4 DEF Brk
<1>6. Good(brk') /\ Fewer(brk, brk')
  BY <1>1, <1>5, IdleFacts, ClearedFacts
<1>7. Session'
  BY <1>1, IdleFacts DEF session, Session
<1> QED  BY <1>1, <1>6, <1>7, FewerFacts, IdleStep

\* and so does CleanupWhenProjectClosed.
LEMMA CleanupStep == ASSUME IInv, CleanupWhenProjectClosed PROVE IInv'
<1> DEFINE files == {f \in File : brk.byFile[f] # {}}
           c == Behind(brk, files)
           d == [c EXCEPT !.list = {}, !.byFile = [f \in File |-> {}], !.mixed = {}]
<1>1. brk' = Freed(d) /\ Idle /\ UNCHANGED <<todo, session>>
  BY DEF CleanupWhenProjectClosed
<1>2. Same(brk, c)
  BY IdleFacts, BehindSame
<1> HIDE DEF c
<1>3. /\ d \in Brk /\ d.list = {} /\ d.info = brk.info
      /\ d.byFile = [f \in File |-> {}]
  BY <1>2 DEF Brk, Same
<1>4. Good(brk') /\ Fewer(brk, brk')
  BY <1>1, <1>3, IdleFacts, ClearedFacts
<1>5. Session'
  BY <1>1, IdleFacts DEF session, Session
<1> QED  BY <1>1, <1>4, <1>5, FewerFacts, IdleStep

\* An edit moves breakpoints apart, but for those onto whose lines it moves others,
\* which it will delete.
LEMMA ShiftStep ==
  ASSUME IInv, NEW f \in File, NEW first \in Line, NEW n \in Shifts,
         Shiftable(f, first, n), ShiftAllFileBreakpoints(f, first, n)
  PROVE  IInv'
<1> DEFINE below == Below(f, first)
           lost == Lost(f, first, n)
           moved == below \ lost
           infos == [o \in Object |-> IF o \in moved THEN [brk.info[o] EXCEPT !.line = @ + n]
                                                    ELSE brk.info[o]]
           c == [brk EXCEPT !.info = infos]
           files == IF moved = {} THEN {} ELSE {f}
<1>1. /\ Idle /\ UNCHANGED session
      /\ brk' = Behind(c, files)
      /\ todo' = [do: {"delete"}, object: lost]
  BY DEF ShiftAllFileBreakpoints
<1>2. /\ brk \in Brk /\ Sound(brk) /\ NoTwinsIn(brk) /\ UniqueIn(brk)
      /\ \A o \in brk.list : o \in Object /\ brk.info[o] \in Info
  BY <1>1, IdleFacts
<1>3. below \subseteq brk.list /\ lost \subseteq below
  BY DEF Below, Lost
<1>4. \A o \in moved : [brk.info[o] EXCEPT !.line = @ + n] \in Info
  <2>1. \A o \in moved : brk.info[o] \in Info /\ brk.info[o].line + n \in Line
    BY <1>2, <1>3 DEF Shiftable
  <2> QED  BY <2>1 DEF Info
<1>5. /\ \A o \in Object \ moved : infos[o] = brk.info[o]
      /\ \A o \in moved : /\ infos[o] \in Info
                          /\ infos[o].file = brk.info[o].file /\ infos[o].id = brk.info[o].id
                          /\ infos[o].line = brk.info[o].line + n
  <2>1. \A o \in moved : o \in Object /\ brk.info[o] \in Info
    BY <1>2, <1>3
  <2> QED  BY <1>4, <2>1 DEF Info
<1>6. infos \in [Object -> Info \cup {Unset}]
  BY <1>2, <1>4 DEF Brk
<1>7. c \in Brk /\ c.list = brk.list /\ c.byFile = brk.byFile /\ c.info = infos
  BY <1>2, <1>6 DEF Brk
<1> HIDE DEF infos, c, moved, lost, below
<1>8. Exist(c) = Exist(brk) /\ Exist(c) \subseteq Object /\ moved \subseteq Exist(c)
      /\ \A g \in File : c.byFile[g] \subseteq Exist(c)
  <2>1. Exist(c) = Exist(brk)
    BY <1>7 DEF Exist
  <2>2. Exist(c) \subseteq Object
    BY <1>7 DEF Exist, Brk
  <2>3. moved \subseteq Exist(c) /\ \A g \in File : c.byFile[g] \subseteq Exist(c)
    BY <1>3, <1>7 DEF Exist, moved
  <2> QED  BY <2>1, <2>2, <2>3
<1>9. Good(c)
  <2>1. \A o \in Exist(c) : c.info[o] \in Info /\ c.info[o].file = brk.info[o].file
    BY <1>2, <1>5, <1>7, <1>8 DEF Sound
  <2>2. Sound(c)
    BY <1>2, <1>7, <1>8, <2>1 DEF Sound
  <2>3. \A o \in Unused(c) : c.info[o] = Unset
    BY <1>5, <1>7, <1>8, IdleFacts, GoodIsSound DEF Unused
  <2> QED  BY <2>2, <2>3, GoodIsSound
<1>10. UniqueIn(c)
  BY <1>2, <1>5, <1>7 DEF UniqueIn
<1>11. \A o, p \in c.list : Together(c, o, p) /\ o # p => o \in lost \/ p \in lost
  <2> SUFFICES ASSUME NEW o \in c.list, NEW p \in c.list, Together(c, o, p),
                      o \notin lost, p \notin lost
               PROVE  o = p
    OBVIOUS
  <2> DEFINE at(q) == brk.info[q].line
  <2>1. /\ o \in brk.list /\ p \in brk.list /\ o \in Object /\ p \in Object
        /\ brk.info[o] \in Info /\ brk.info[p] \in Info
        /\ c.info[o].file = brk.info[o].file /\ c.info[p].file = brk.info[p].file
    BY <1>2, <1>5, <1>7
  <2>2. at(o) \in Int /\ at(p) \in Int /\ first \in Int /\ n \in Int
    BY <2>1, BreakpointsAssumption DEF Info
  <2>3. brk.info[o].file = brk.info[p].file
    BY <2>1 DEF Together
  <2>4. \A q \in brk.list : q \in moved => at(q) + n >= first
    <3> SUFFICES ASSUME NEW q \in brk.list, q \in moved PROVE at(q) + n >= first
      OBVIOUS
    <3>1. at(q) \in Int
      <4>1. brk.info[q] \in Info
        BY <1>2
      <4>2. brk.info[q].line \in Line
        BY <4>1 DEF Info
      <4>3. \A l \in Line : l \in Int
        BY BreakpointsAssumption
      <4> QED  BY <4>2, <4>3
    <3>2. at(q) >= first /\ ~(n < 0 /\ at(q) <= first - n - 1)
      BY DEF moved, below, lost, Below, Lost
    <3> QED  BY <2>2, <3>1, <3>2
  <2>5. \A q \in brk.list : q \notin moved /\ q \notin lost /\ brk.info[q].file = f => ~(at(q) >= first)
    BY DEF moved, below, Below
  <2>6. \A q \in moved : brk.info[q].file = f
    BY DEF moved, below, Below
  <2>7. CASE o \in moved /\ p \in moved
    <3>1. at(o) + n = at(p) + n
      BY <1>5, <1>7, <2>7 DEF Together
    <3>2. at(o) = at(p)
      <4>1. \A i, j, k \in Int : i + k = j + k => i = j
        OBVIOUS
      <4> QED  BY <2>2, <3>1, <4>1
    <3> QED  BY <1>2, <2>1, <2>3, <3>2 DEF NoTwinsIn, Together
  <2>8. CASE o \notin moved /\ p \notin moved
    BY <1>2, <1>5, <1>7, <2>1, <2>8 DEF NoTwinsIn, Together
  <2>9. CASE o \in moved /\ p \notin moved
    <3>1. at(o) + n = at(p)
      BY <1>5, <1>7, <2>1, <2>9 DEF Together
    <3> QED  BY <2>1, <2>3, <2>4, <2>5, <2>6, <2>9, <3>1
  <2>10. CASE o \notin moved /\ p \in moved
    <3>1. at(p) + n = at(o)
      BY <1>5, <1>7, <2>1, <2>10 DEF Together
    <3> QED  BY <2>1, <2>3, <2>4, <2>5, <2>6, <2>10, <3>1
  <2> QED  BY <2>7, <2>8, <2>9, <2>10
<1>12. Same(c, brk')
  BY <1>1, <1>7, BehindSame
<1>13. Good(brk') /\ UniqueIn(brk') /\ brk'.list = brk.list /\ brk'.info = c.info
  BY <1>7, <1>9, <1>10, <1>12, SameFacts DEF Same
<1>14. todo' \subseteq Deletion /\ \A t \in todo' : t.object \in brk'.list
  BY <1>1, <1>2, <1>3, <1>13 DEF Deletion
<1>15. \A o \in lost : \E t \in todo' : t.do = "delete" /\ t.object = o
  <2> TAKE o \in lost
  <2>1. [do |-> "delete", object |-> o] \in todo'
    BY <1>1
  <2> QED  BY <2>1
<1>16. LostTwins'
  BY <1>7, <1>11, <1>13, <1>15 DEF LostTwins, Together
<1>17. Session'
  BY <1>1, IdleFacts DEF session, Session
<1>18. TypeOK'
  BY <1>13, <1>14, <1>17 DEF TypeOK, Good, Session
<1> QED  BY <1>13, <1>14, <1>16, <1>18 DEF IInv, UniqueIds, UniqueIn, OneLoop, LostAreSet

-----------------------------------------------------------------------------
(* The steps of the session                                                *)

\* The mask keeps to its flags.
LEMMA FlagsType ==
  ASSUME NEW s \in SUBSET Flag, NEW f \in Flag
  PROVE  AddState(s, f) \subseteq Flag /\ RemoveState(s, f) \subseteq Flag
BY DEF AddState, Linked, RemoveState, IsBusy, IsConnected, Flag

\* LaunchDebugger keeps the invariant,
LEMMA LaunchStep ==
  ASSUME IInv, NEW how \in {"launch", "attach"}, NEW connects \in BOOLEAN,
         LaunchDebugger(how, connects)
  PROVE  IInv'
<1>1. PICK b \in Disconnected(brk) :
        brk' = Freed([b EXCEPT !.byFile = [f \in File |-> {}], !.told = [f \in File |-> {}],
                               !.behind = {}, !.mixed = {}])
  BY DEF LaunchDebugger
<1> DEFINE d == [b EXCEPT !.byFile = [f \in File |-> {}], !.told = [f \in File |-> {}],
                          !.behind = {}, !.mixed = {}]
<1>2. Same(brk, b)
  BY IdleFacts, DisconnectedFacts
<1>3. /\ d \in Brk /\ d.list = brk.list /\ d.info = brk.info
      /\ d.byFile = [f \in File |-> {}]
  BY <1>2 DEF Brk, Same
<1> HIDE DEF d
<1>4. Good(brk') /\ Fewer(brk, brk')
  BY <1>1, <1>3, IdleFacts, ClearedFacts DEF d
<1>5. flags' \subseteq Flag
  BY FlagsType, IdleFacts DEF LaunchDebugger, Session, Flag
<1>6. Session' /\ Idle /\ UNCHANGED todo
  BY <1>5, IdleFacts DEF LaunchDebugger, Session
<1> QED  BY <1>4, <1>6, FewerFacts, IdleStep

\* and so do the other steps of the session,
LEMMA SessionSteps ==
  ASSUME IInv
  PROVE  /\ BeginRun => IInv'
         /\ OnExited => IInv'
         /\ DAPDebuggerResetData => IInv'
<1>1. Session /\ Good(brk)
  BY IdleFacts
<1>2. ASSUME BeginRun PROVE IInv'
  <2>1. Session' /\ Idle /\ UNCHANGED <<todo, brk>>
    BY <1>1, <1>2, FlagsType DEF BeginRun, Session, Flag
  <2> QED  BY <1>1, <2>1, IdleStep
<1>3. ASSUME OnExited PROVE IInv'
  <2>1. Session' /\ Idle /\ UNCHANGED <<todo, brk>>
    BY <1>1, <1>3, FlagsType DEF OnExited, Session, Flag
  <2> QED  BY <1>1, <2>1, IdleStep
<1>4. ASSUME DAPDebuggerResetData PROVE IInv'
  <2>1. Session' /\ Idle /\ UNCHANGED todo
    BY <1>1, <1>4, FlagsType DEF DAPDebuggerResetData, Session, Flag
  <2>2. Same(brk, brk')
    BY <1>4, IdleFacts, DisconnectedFacts DEF DAPDebuggerResetData
  <2> QED  BY <1>1, <2>1, <2>2, SameFacts, IdleStep
<1> QED  BY <1>2, <1>3, <1>4

\* of which OnInitializedEvent fills the map.
LEMMA InitializedStep == ASSUME IInv, OnInitializedEvent PROVE IInv'
<1> DEFINE map == [f \in File |-> brk.byFile[f] \cup
                     {o \in brk.list : /\ brk.info[o].file = f
                                       /\ \A p \in brk.byFile[f] : brk.info[p].line # brk.info[o].line}]
           files == {f \in File : map[f] # {}}
           lines == [f \in File |-> EnabledLines(brk, map[f])]
           queues == [f \in File |-> IF f \in files THEN Append(brk.requests[f], lines[f])
                                                   ELSE brk.requests[f]]
           latest == [f \in File |-> IF f \in files THEN lines[f] ELSE brk.told[f]]
           c == [brk EXCEPT !.byFile = map]
<1>1. Good(brk) /\ Sound(brk) /\ brk \in Brk /\ Session
  BY IdleFacts
<1>2. \/ brk' = [brk EXCEPT !.byFile = map, !.requests = queues, !.told = latest,
                            !.behind = @ \ files]
      \/ brk' = Behind(c, files)
  BY DEF OnInitializedEvent
<1>3. /\ map \in [File -> SUBSET Object]
      /\ \A f \in File : /\ map[f] \in SUBSET Exist(brk) /\ brk.byFile[f] \subseteq map[f]
                         /\ \A o \in map[f] : brk.info[o].file = f
  <2>1. brk.list \subseteq Exist(brk) /\ \A f \in File : brk.byFile[f] \subseteq Exist(brk)
    BY DEF Exist
  <2>2. Exist(brk) \subseteq Object
    BY <1>1 DEF Exist, Brk
  <2> QED  BY <1>1, <2>1, <2>2 DEF Sound
<1>4. lines \in [File -> SUBSET Line]
  BY <1>1, <1>3, LinesType
<1> HIDE DEF map, lines
<1>5. \A f \in File : brk.requests[f] \in Seq(SUBSET Line) /\ lines[f] \in SUBSET Line
                     /\ Append(brk.requests[f], lines[f]) \in Seq(SUBSET Line)
  BY <1>1, <1>4 DEF Brk
<1>6. queues \in [File -> Seq(SUBSET Line)] /\ latest \in [File -> SUBSET Line]
  BY <1>1, <1>5 DEF Brk
<1> HIDE DEF queues, latest
<1>7. files \in SUBSET File
  OBVIOUS
<1>8. c \in Brk /\ c.list = brk.list /\ c.info = brk.info /\ c.byFile = map
  BY <1>1, <1>3 DEF Brk
<1> HIDE DEF files
<1>9. /\ brk' \in Brk /\ brk'.list = brk.list /\ brk'.info = brk.info /\ brk'.byFile = map
  <2>1. CASE brk' = Behind(c, files)
    BY <1>7, <1>8, <2>1, BehindSame DEF Same
  <2>2. CASE brk' = [brk EXCEPT !.byFile = map, !.requests = queues, !.told = latest,
                                !.behind = @ \ files]
    BY <1>1, <1>3, <1>6, <1>7, <2>2 DEF Brk
  <2> QED  BY <1>2, <2>1, <2>2
<1>10. Exist(brk') = Exist(brk)
  <2>1. \A o : o \in UNION {map[f] : f \in File} <=> \E f \in File : o \in map[f]
    OBVIOUS
  <2>2. \A o : o \in Exist(brk') <=> o \in Exist(brk)
    BY <1>3, <1>9 DEF Exist
  <2> QED  BY <2>2
<1>11. Good(brk')
  BY <1>1, <1>3, <1>9, <1>10 DEF Good, Whole, Unused
<1>12. Session' /\ Idle /\ UNCHANGED todo
  BY <1>1 DEF OnInitializedEvent, Session
<1> QED  BY <1>9, <1>11, <1>12, IdleStep DEF UniqueIn, NoTwinsIn, Together

-----------------------------------------------------------------------------
(* The steps of the answers                                                *)

\* OnBreakpointDataSet leaves the breakpoints to its turns,
LEMMA AnswerStep ==
  ASSUME IInv, NEW f \in File, OnBreakpointDataSet(f)
  PROVE  IInv'
<1>1. Good(brk) /\ brk \in Brk /\ Session /\ Idle /\ UNCHANGED session
      /\ brk.requests[f] # <<>>
      /\ brk' = [brk EXCEPT !.requests[f] = Tail(@)]
  BY IdleFacts DEF OnBreakpointDataSet
<1>2. brk.requests[f] \in Seq(SUBSET Line)
  BY <1>1 DEF Brk
<1>3. Tail(brk.requests[f]) \in Seq(SUBSET Line) /\ Head(brk.requests[f]) \in SUBSET Line
  BY <1>1, <1>2
<1>4. Same(brk, brk')
  BY <1>1, <1>3 DEF Brk, Same
<1>5. todo' \subseteq Confirmation
  <2>1. PICK verified \in SUBSET Head(brk.requests[f]), path \in BOOLEAN :
          \E id \in [verified -> Id], drift \in [verified -> Drift] :
            /\ \A l \in verified : l + drift[l] \in Line
            /\ todo' = {[do |-> "confirm", file |-> f, path |-> path, id |-> id[l],
                         line |-> l + drift[l]] : l \in verified}
    BY DEF OnBreakpointDataSet
  <2> QED  BY <2>1 DEF Confirmation
<1>6. todo \subseteq Confirmation /\ Session'
  BY <1>1 DEF Idle, session, Session
<1> QED  BY <1>1, <1>4, <1>5, <1>6, SameFacts, KeptStep

\* each of which sets one.
LEMMA ConfirmStep ==
  ASSUME IInv, NEW t \in todo, Confirm(t)
  PROVE  IInv'
<1>1. t \in Confirmation /\ todo \subseteq Confirmation
  <2>1. \A d \in Deletion : d.do = "delete"
    BY DEF Deletion
  <2>2. t.do = "confirm"
    BY DEF Confirm
  <2> QED  BY <2>1, <2>2 DEF IInv, OneLoop
<1>2. t.file \in File /\ t.line \in Line /\ t.id \in Id
  BY <1>1 DEF Confirmation
<1>3. todo' \subseteq Confirmation /\ UNCHANGED session
  BY <1>1 DEF Confirm
<1>4. \/ \E g \in File : brk' \in UpdateOrAdd(brk, g, t.line, TRUE, t.id)
      \/ brk' = brk
  <2>1. \A o \in brk.list : brk.info[o].file \in File
    BY IdleFacts DEF Info
  <2> QED  BY <1>2, <2>1 DEF Confirm
<1>5. /\ Good(brk')
      /\ (UniqueIn(brk) => UniqueIn(brk')) /\ (NoTwinsIn(brk) => NoTwinsIn(brk'))
  BY <1>2, <1>4, IdleFacts, UpdateOrAddFacts
<1>6. Session'
  BY <1>3, IdleFacts DEF session, Session
<1> QED  BY <1>1, <1>3, <1>5, <1>6, KeptStep

\* A turn of the deletion after an edit leaves the other lost ones to be deleted.
LEMMA DeleteLostStep ==
  ASSUME IInv, NEW t \in todo, DeleteLost(t)
  PROVE  IInv'
<1>1. /\ t.do = "delete" /\ brk' \in Deleted(brk, t.object) /\ todo' = todo \ {t}
      /\ UNCHANGED session
  BY DEF DeleteLost
<1>2. todo \subseteq Deletion
  <2>1. \A c \in Confirmation : c.do = "confirm"
    BY DEF Confirmation
  <2> QED  BY <1>1, <2>1 DEF IInv, OneLoop
<1>3. t.object \in brk.list
  BY <1>1 DEF IInv, LostAreSet
<1>4. t.object \in Object /\ brk.info[t.object].file \in File
  BY <1>3, IdleFacts DEF Info
<1>5. Good(brk') /\ Fewer(brk, brk') /\ brk'.list = brk.list \ {t.object}
  BY <1>1, <1>4, IdleFacts, DeletedFacts
<1>6. \A u \in todo' : u.object # t.object
  <2>1. \A u \in Deletion, v \in Deletion : u.object = v.object => u = v
    BY DEF Deletion
  <2> QED  BY <1>1, <1>2, <2>1
<1>7. LostAreSet'
  BY <1>1, <1>5, <1>6 DEF IInv, LostAreSet
<1>8. LostTwins'
  <2> SUFFICES ASSUME NEW o \in brk'.list, NEW p \in brk'.list, Together(brk', o, p), o # p
               PROVE  \E u \in todo' : u.do = "delete" /\ u.object \in {o, p}
    BY DEF LostTwins, Together
  <2>1. o \in brk.list /\ p \in brk.list /\ o # t.object /\ p # t.object /\ Together(brk, o, p)
    BY <1>5 DEF Fewer, Together
  <2>2. PICK u \in todo : u.do = "delete" /\ u.object \in {o, p}
    BY <2>1 DEF IInv, LostTwins
  <2> QED  BY <1>1, <2>1, <2>2
<1>9. UniqueIn(brk')
  BY <1>5, FewerFacts, IdleFacts
<1>10. Session'
  BY <1>1, IdleFacts DEF session, Session
<1>11. TypeOK' /\ OneLoop'
  BY <1>1, <1>2, <1>5, <1>10 DEF TypeOK, Good, Session, OneLoop
<1> QED  BY <1>7, <1>8, <1>9, <1>11 DEF IInv, UniqueIds, UniqueIn

\* A hit may delete a breakpoint.
LEMMA HitStep ==
  ASSUME IInv, NEW id \in Id, OnProcessBreakpointData(id)
  PROVE  IInv'
<1>1. PICK o \in Holders(brk, id) : brk' \in Deleted(brk, o)
  BY DEF OnProcessBreakpointData
<1>2. o \in Object /\ brk.info[o].file \in File
  BY IdleFacts DEF Holders, Info
<1>3. Good(brk') /\ Fewer(brk, brk')
  BY <1>1, <1>2, IdleFacts, DeletedFacts
<1>4. Session' /\ Idle /\ UNCHANGED todo
  BY IdleFacts DEF OnProcessBreakpointData, session, Session
<1> QED  BY <1>3, <1>4, FewerFacts, IdleStep

-----------------------------------------------------------------------------
(* The theorems                                                            *)

\* Every step keeps the invariant.
LEMMA IInvNext == IInv /\ [Next]_vars => IInv'
<1> SUFFICES ASSUME IInv, [Next]_vars PROVE IInv'
  OBVIOUS
<1>1. CASE UserNext
  <2>1. CASE \E f \in File, l \in Line : AddBreakpoint(f, l) \/ RunToCursor(f, l)
    BY <2>1, UserSteps
  <2>2. CASE \E o \in brk.list : \/ DeleteBreakpoint(o) \/ UpdateBreakpoint(o)
                                \/ \E on \in BOOLEAN : EnableBreakpoint(o, on)
    BY <2>2, UserSteps
  <2>3. CASE \E f \in File, first \in Line, n \in Shifts :
               Shiftable(f, first, n) /\ ShiftAllFileBreakpoints(f, first, n)
    BY <2>3, ShiftStep
  <2> QED  BY <1>1, <2>1, <2>2, <2>3, DeleteAllStep, CleanupStep DEF UserNext
<1>2. CASE SessionNext
  BY <1>2, LaunchStep, SessionSteps, InitializedStep DEF SessionNext
<1>3. CASE AdapterNext
  BY <1>3, AnswerStep, ConfirmStep, DeleteLostStep, HitStep DEF AdapterNext
<1>4. CASE UNCHANGED vars
  BY <1>4 DEF vars, IInv, TypeOK, UniqueIds, OneLoop, LostAreSet, LostTwins
<1>5. CASE Restart
  <2>1. Init' => IInv'
    BY IInvInit, PTL
  <2> QED  BY <1>5, <2>1, RestartInit
<1> QED  BY <1>1, <1>2, <1>3, <1>4, <1>5 DEF Next

\* The variables have their types, and what the list and the map hold exists: the
\* order of edits, answers, hits and sessions never leaves them an object that is
\* no breakpoint, nor one under another file.
THEOREM TypeCorrect == Spec => []TypeOK
<1>1. IInv => TypeOK
  BY DEF IInv
<1> QED  BY <1>1, IInvInit, IInvNext, PTL DEF Spec

\* An id names one breakpoint, in spite of adapters that count again from the
\* start: UpdateOrAddBreakpoint looks for the id before it gives it.
THEOREM UniqueIdsTheorem == Spec => []UniqueIds
<1>1. IInv => UniqueIds
  BY DEF IInv
<1> QED  BY <1>1, IInvInit, IInvNext, PTL DEF Spec

\* Between handlers a place has one breakpoint, in spite of edits that move
\* breakpoints and adapters that put them elsewhere.
THEOREM NoTwinsTheorem == Spec => []NoTwins
<1>1. IInv => NoTwins
  BY DEF IInv, LostTwins, Together, NoTwins, Idle
<1> QED  BY <1>1, IInvInit, IInvNext, PTL DEF Spec

-----------------------------------------------------------------------------
(***************************************************************************)
(* The map and the adapter: the map has the breakpoints of the list, and the *)
(* adapter was asked for those of the map, but for the files that the code *)
(* leaves behind.                                                          *)
(***************************************************************************)

InFile(b, f) == {o \in b.list : b.info[o].file = f}

\* What was asked for is what the map has, within a session or without.
ToldIsMap(b) == \A f \in File : f \notin b.behind => b.told[f] = EnabledLines(b, b.byFile[f])

MapWithin(b) == \A f \in File : f \notin b.mixed => b.byFile[f] \subseteq InFile(b, f)

MapWhole(b) == \A f \in File : f \notin b.mixed => InFile(b, f) \subseteq b.byFile[f]

\* A change that the map and the requests follow.
Follows(b, c) ==
  /\ ToldIsMap(b) => ToldIsMap(c)
  /\ MapWithin(b) => MapWithin(c)
  /\ MapWhole(b) => MapWhole(c)

-----------------------------------------------------------------------------
(* The operators on the breakpoints                                        *)

\* The same objects, in the same file, at the same line, both enabled or both not,
\* make the same request.
LEMMA LinesFacts ==
  ASSUME NEW b, NEW c, NEW objects,
         \A o \in objects : /\ c.info[o].line = b.info[o].line
                            /\ c.info[o].enabled = b.info[o].enabled
  PROVE  EnabledLines(c, objects) = EnabledLines(b, objects)
<1>1. {p \in objects : b.info[p].enabled} = {p \in objects : c.info[p].enabled}
  OBVIOUS
<1> DEFINE on == {p \in objects : b.info[p].enabled}
<1>2. {b.info[o].line : o \in on} = {c.info[o].line : o \in on}
  OBVIOUS
<1> QED  BY <1>1, <1>2 DEF EnabledLines

\* A request for the objects of the map, where the breakpoints followed but for
\* that file.
LEMMA UpdateFollows ==
  ASSUME NEW b, Sound(b), NEW f \in File, NEW c \in Update(b, f)
  PROVE  /\ (\A g \in File : g \notin b.behind /\ g # f => b.told[g] = EnabledLines(b, b.byFile[g]))
              => ToldIsMap(c)
         /\ c.mixed = b.mixed
         /\ Follows(b, c)
<1>1. b \in Brk /\ b.told \in [File -> SUBSET Line]
  BY DEF Sound, Brk
<1>2. Same(b, c)
  BY UpdateSame
<1> DEFINE sent   == /\ c.told = [b.told EXCEPT ![f] = EnabledLines(b, b.byFile[f])]
                     /\ c.behind = b.behind \ {f}
           unsent == /\ c.told = [g \in File |-> IF g \in {f} THEN {} ELSE b.told[g]]
                     /\ c.behind = b.behind \cup {f}
<1>4. c.mixed = b.mixed /\ (sent \/ unsent)
  <2>1. CASE c = Behind(b, {f})
    BY <1>1, <2>1 DEF Behind, Brk
  <2>2. CASE \E lines \in SUBSET Line : c = Behind(Tell(b, f, lines), {f})
    <3>1. PICK lines \in SUBSET Line : c = Behind(Tell(b, f, lines), {f})
      BY <2>2
    <3> DEFINE t == Tell(b, f, lines)
    <3>2. /\ t \in Brk /\ t.mixed = b.mixed
          /\ t.told = [b.told EXCEPT ![f] = lines] /\ t.behind = b.behind \ {f}
      BY <1>1, TellSame DEF Tell, Brk, Same
    <3> HIDE DEF t
    <3>3. /\ c.told = [g \in File |-> IF g \in {f} THEN {} ELSE t.told[g]]
          /\ c.behind = t.behind \cup {f} /\ c.mixed = t.mixed
      BY <3>1, <3>2 DEF Behind, Brk, t
    <3>4. \A g \in File : g \notin {f} => t.told[g] = b.told[g]
      BY <1>1, <3>2
    <3> QED  BY <3>2, <3>3, <3>4
  <2>3. CASE c = Tell(b, f, EnabledLines(b, b.byFile[f]))
    BY <1>1, <2>3 DEF Tell, Brk
  <2> QED  BY <2>1, <2>2, <2>3 DEF Update
<1>5. \A g \in File : EnabledLines(c, c.byFile[g]) = EnabledLines(b, b.byFile[g])
  BY <1>2 DEF Same, EnabledLines
<1>6. (\A g \in File : g \notin b.behind /\ g # f => b.told[g] = EnabledLines(b, b.byFile[g]))
        => ToldIsMap(c)
  BY <1>1, <1>4, <1>5 DEF ToldIsMap
<1>7. Follows(b, c)
  BY <1>2, <1>4, <1>6 DEF Follows, ToldIsMap, MapWithin, MapWhole, InFile, Same
<1> QED  BY <1>4, <1>6, <1>7

\* What changes neither lines nor whether they are enabled changes no request.
LEMMA SameLinesFollow ==
  ASSUME NEW b, NEW c, Good(b), Alike(b, c),
         c.told = b.told, c.behind = b.behind, c.mixed = b.mixed,
         \A o \in Object : /\ c.info[o].line = b.info[o].line
                          /\ c.info[o].enabled = b.info[o].enabled
  PROVE  Follows(b, c)
<1>1. \A f \in File : b.byFile[f] \subseteq Object
  BY DEF Good, Brk
<1>2. \A f \in File : EnabledLines(c, c.byFile[f]) = EnabledLines(b, b.byFile[f])
  <2> TAKE f \in File
  <2>1. \A o \in b.byFile[f] : /\ c.info[o].line = b.info[o].line
                              /\ c.info[o].enabled = b.info[o].enabled
    BY <1>1
  <2> QED  BY <2>1, LinesFacts DEF Alike
<1>3. \A f \in File : InFile(b, f) = InFile(c, f)
  BY DEF InFile, Alike
<1> QED  BY <1>2, <1>3 DEF Follows, ToldIsMap, MapWithin, MapWhole, Alike

\* A breakpoint that is enabled where it is leaves its file behind, unless the
\* request is for that file.
LEMMA EnableFollows ==
  ASSUME NEW b, Good(b), NEW o \in b.list, NEW on \in BOOLEAN, NEW f \in File
  PROVE  /\ Follows(b, SetEnabled(b, o, on))
         /\ \A e \in Enable(b, o, on, f) : Follows(b, e)
<1> DEFINE c == [b EXCEPT !.info[o].enabled = on]
           d == SetEnabled(b, o, on)
           h == b.info[o].file
<1>1. b \in Brk /\ Sound(b) /\ o \in Object /\ o \in Exist(b) /\ b.info[o] \in Info
  BY GoodIsSound DEF Good, Sound, Brk, Exist
<1>2. h \in File
  BY <1>1 DEF Info
<1>3. /\ d.told = [g \in File |-> IF g \in {h} THEN {} ELSE b.told[g]]
      /\ d.behind = b.behind \cup {h} /\ d.mixed = b.mixed
      /\ d.byFile = b.byFile
      /\ \A p \in Object : p # o => d.info[p] = b.info[p]
  BY <1>1 DEF SetEnabled, Behind, Brk
<1> HIDE DEF d
<1>4. Good(d) /\ Alike(b, d) /\ Sound(d)
  BY EnableFacts, GoodIsSound DEF d
<1>5. ASSUME NEW g \in File, g # h PROVE EnabledLines(d, d.byFile[g]) = EnabledLines(b, b.byFile[g])
  <2>1. \A p \in b.byFile[g] : p \in Object /\ p # o
    BY <1>1, <1>5 DEF Sound, Brk
  <2>2. \A p \in b.byFile[g] : d.info[p] = b.info[p]
    BY <1>3, <2>1
  <2> QED  BY <1>3, <2>2, LinesFacts
<1>6. ToldIsMap(b) => ToldIsMap(d)
  BY <1>2, <1>3, <1>5 DEF ToldIsMap
<1>7. \A g \in File : InFile(b, g) = InFile(d, g)
  BY <1>4 DEF InFile, Alike
<1>8. Follows(b, d)
  BY <1>3, <1>6, <1>7 DEF Follows, MapWithin, MapWhole
<1>9. \A e \in Update(d, f) : Follows(d, e)
  BY <1>4, UpdateFollows
<1>10. \A e \in Enable(b, o, on, f) : e = b \/ e \in Update(d, f)
  BY DEF Enable, d
<1> QED  BY <1>8, <1>9, <1>10 DEF Follows, d

\* A new breakpoint is added to the map, unless the file is mixed.
LEMMA AddFollows ==
  ASSUME NEW b, Good(b), NEW f \in File, NEW l \in Line, NEW id \in Id \cup {NoId},
         NEW o \in Unused(b)
  PROVE  \A c \in Add(b, f, l, id, o) : Follows(b, c)
<1> DEFINE new == [file |-> f, line |-> l, enabled |-> TRUE, id |-> id, temporary |-> FALSE]
           made == [b EXCEPT !.info[o] = new, !.list = @ \cup {o}]
           c == MapAdd(made, f, o)
<1>1. b \in Brk /\ Sound(b) /\ o \in Object /\ o \notin Exist(b)
  BY GoodIsSound DEF Good, Unused
<1>2. new \in Info /\ new.file = f
  BY DEF Info
<1>3. made \in Brk
  BY <1>1, <1>2 DEF Brk
<1>4. /\ made.list = b.list \cup {o} /\ made.byFile = b.byFile /\ made.told = b.told
      /\ made.behind = b.behind /\ made.mixed = b.mixed
      /\ made.info[o] = new
      /\ \A p \in Object : p # o => made.info[p] = b.info[p]
  BY <1>1 DEF Brk
<1> HIDE DEF made, new
<1>5. /\ c \in Brk /\ c.list = made.list /\ c.info = made.info
      /\ c.told = b.told /\ c.behind = b.behind
      /\ \/ c.byFile = b.byFile /\ c.mixed = b.mixed \cup {f}
         \/ c.byFile = [b.byFile EXCEPT ![f] = @ \cup {o}] /\ c.mixed = b.mixed
  <2>1. [made EXCEPT !.mixed = @ \cup {f}] \in Brk
    BY <1>3 DEF Brk
  <2>2. [made EXCEPT !.byFile[f] = @ \cup {o}] \in Brk
    BY <1>1, <1>3 DEF Brk
  <2> QED  BY <1>3, <1>4, <2>1, <2>2 DEF MapAdd, Brk
<1> HIDE DEF c
<1>6. b.byFile \in [File -> SUBSET Object] /\ \A g \in File : o \notin b.byFile[g] /\ b.byFile[g] \subseteq Object
  BY <1>1 DEF Brk, Exist
<1>7. /\ InFile(c, f) = InFile(b, f) \cup {o}
      /\ \A g \in File : g # f => InFile(c, g) = InFile(b, g) /\ c.byFile[g] = b.byFile[g]
      /\ f \notin c.mixed => f \notin b.mixed /\ c.byFile[f] = b.byFile[f] \cup {o}
      /\ \A g \in File : g # f /\ g \notin c.mixed => g \notin b.mixed
  <2>1. b.list \subseteq Object /\ o \notin b.list
    BY <1>1 DEF Brk, Exist
  <2>2. c.info[o].file = f /\ \A p \in b.list : c.info[p] = b.info[p]
    BY <1>2, <1>4, <1>5, <2>1
  <2>3. \A g \in File : \A p : p \in InFile(c, g) <=> p \in InFile(b, g) \/ (g = f /\ p = o)
    BY <1>4, <1>5, <2>1, <2>2 DEF InFile
  <2>4. /\ InFile(c, f) = InFile(b, f) \cup {o}
        /\ \A g \in File : g # f => InFile(c, g) = InFile(b, g)
    BY <2>3
  <2> QED  BY <1>5, <1>6, <2>4
<1>8. (MapWithin(b) => MapWithin(c)) /\ (MapWhole(b) => MapWhole(c))
  BY <1>7 DEF MapWithin, MapWhole
<1>9. ASSUME NEW g \in File, g # f PROVE EnabledLines(c, c.byFile[g]) = EnabledLines(b, b.byFile[g])
  <2>1. \A p \in b.byFile[g] : c.info[p] = b.info[p]
    BY <1>4, <1>5, <1>6
  <2> QED  BY <1>7, <1>9, <2>1, LinesFacts
<1>10. Sound(c)
  <2>1. \A p \in Exist(c) : c.info[p] \in Info
    <3>1. \A p \in Exist(c) : p = o \/ p \in Exist(b)
      <4>1. \A g \in File : c.byFile[g] \subseteq b.byFile[g] \cup {o}
        BY <1>5, <1>6
      <4> QED  BY <1>4, <1>5, <4>1 DEF Exist
    <3>2. Exist(b) \subseteq Object
      BY <1>1 DEF Exist, Brk
    <3> QED  BY <1>1, <1>2, <1>4, <1>5, <3>1, <3>2 DEF Sound
  <2>2. \A g \in File : \A p \in c.byFile[g] : c.info[p].file = g
    BY <1>1, <1>2, <1>4, <1>5, <1>6 DEF Sound
  <2> QED  BY <1>5, <2>1, <2>2 DEF Sound
<1>11. \A e \in Update(c, f) : ToldIsMap(b) => ToldIsMap(e)
  BY <1>5, <1>9, <1>10, UpdateFollows DEF ToldIsMap
<1>12. \A e \in Update(c, f) : Follows(c, e)
  BY <1>10, UpdateFollows
<1>13. Add(b, f, l, id, o) = Update(c, f)
  BY DEF Add, c, made, new
<1> QED  BY <1>8, <1>11, <1>12, <1>13 DEF Follows

\* UpdateOrAddBreakpoint is followed, found or not.
LEMMA UpdateOrAddFollows ==
  ASSUME NEW b, Good(b), NEW f \in File, NEW l \in Line, NEW on \in BOOLEAN,
         NEW id \in Id \cup {NoId}, NEW c \in UpdateOrAdd(b, f, l, on, id)
  PROVE  Follows(b, c)
<1>1. CASE id # NoId /\ Holders(b, id) # {}
  <2>1. PICK o \in Holders(b, id) : c \in Enable(b, o, on, f)
    BY <1>1 DEF UpdateOrAdd
  <2>2. o \in b.list
    BY DEF Holders
  <2> QED  BY <2>1, <2>2, EnableFollows
<1>2. CASE ~(id # NoId /\ Holders(b, id) # {}) /\ At(b, f, l) # {}
  <2>1. PICK o \in At(b, f, l) :
          c \in Enable(IF id = NoId THEN b ELSE [b EXCEPT !.info[o].id = id], o, on, f)
    BY <1>2 DEF UpdateOrAdd
  <2> DEFINE e == [b EXCEPT !.info[o].id = id]
             d == IF id = NoId THEN b ELSE e
  <2>2. o \in b.list
    BY DEF At
  <2>3. Good(d) /\ Alike(b, d) /\ Follows(b, d)
    <3>1. CASE id = NoId
      BY <3>1 DEF Alike, Follows
    <3>2. CASE id # NoId
      <4>1. Good(e) /\ Alike(b, e)
        BY <1>2, <2>2, <3>2, SetIdFacts
      <4>2. /\ e.told = b.told /\ e.behind = b.behind /\ e.mixed = b.mixed
            /\ \A p \in Object : /\ e.info[p].line = b.info[p].line
                                /\ e.info[p].enabled = b.info[p].enabled
        <5>1. b \in Brk /\ Sound(b) /\ o \in Object /\ b.info[o] \in Info
          BY <2>2, GoodIsSound DEF Good, Sound, Brk, Exist
        <5>2. e.info = [b.info EXCEPT ![o] = [b.info[o] EXCEPT !.id = id]]
          BY <5>1 DEF Brk
        <5>3. /\ e.info[o].line = b.info[o].line /\ e.info[o].enabled = b.info[o].enabled
              /\ \A p \in Object : p # o => e.info[p] = b.info[p]
          BY <5>1, <5>2 DEF Brk, Info
        <5> QED  BY <5>1, <5>3 DEF Brk
      <4> QED  BY <3>2, <4>1, <4>2, SameLinesFollow
    <3> QED  BY <3>1, <3>2
  <2>4. c \in Enable(d, o, on, f)
    BY <2>1
  <2> HIDE DEF d
  <2>5. o \in d.list
    BY <2>2, <2>3 DEF Alike
  <2>6. Follows(d, c)
    BY <2>3, <2>4, <2>5, EnableFollows
  <2> QED  BY <2>3, <2>6 DEF Follows
<1>3. CASE ~(id # NoId /\ Holders(b, id) # {}) /\ At(b, f, l) = {}
  <2>1. PICK o \in Unused(b) : c \in Add(b, f, l, id, o)
    BY <1>3 DEF UpdateOrAdd
  <2> QED  BY <2>1, AddFollows
<1> QED  BY <1>1, <1>2, <1>3

\* Objects that cease to exist are missed by nobody.
LEMMA FreedFollows ==
  ASSUME NEW b, Sound(b)
  PROVE  Follows(b, Freed(b))
<1> DEFINE c == Freed(b)
<1>1. /\ c.list = b.list /\ c.byFile = b.byFile
      /\ \A o \in Exist(b) : c.info[o] = b.info[o]
  BY FreedFacts
<1>2. c.told = b.told /\ c.behind = b.behind /\ c.mixed = b.mixed
  BY DEF Freed, Sound, Brk
<1> HIDE DEF c
<1>3. b.list \subseteq Exist(b) /\ \A f \in File : b.byFile[f] \subseteq Exist(b)
  BY DEF Exist
<1>4. \A f \in File : EnabledLines(c, c.byFile[f]) = EnabledLines(b, b.byFile[f])
  <2> TAKE f \in File
  <2>1. \A o \in b.byFile[f] : c.info[o] = b.info[o]
    BY <1>1, <1>3
  <2> QED  BY <1>1, <2>1, LinesFacts
<1>5. \A f \in File : InFile(c, f) = InFile(b, f)
  BY <1>1, <1>3 DEF InFile
<1>6. Follows(b, c)
  BY <1>1, <1>2, <1>4, <1>5 DEF Follows, ToldIsMap, MapWithin, MapWhole
<1> QED  BY <1>6 DEF c

\* The breakpoint that is deleted leaves the map too, unless it takes another's
\* place there, and the file is mixed.
LEMMA DeletedFollows ==
  ASSUME NEW b, Good(b), NEW o \in b.list, NEW c \in Deleted(b, o)
  PROVE  Follows(b, c)
<1> DEFINE f == b.info[o].file
           same == {p \in b.byFile[f] : b.info[p].line = b.info[o].line}
           less(p) == [b EXCEPT !.byFile[f] = @ \ {p},
                                !.mixed = IF p = o THEN @ ELSE @ \cup {f}]
<1>1. b \in Brk /\ Sound(b) /\ f \in File
  <2>1. b \in Brk /\ Sound(b) /\ b.info[o] \in Info
    BY GoodIsSound DEF Good, Sound, Exist
  <2> QED  BY <2>1 DEF Info
<1>2. PICK e \in MapErase(b, f, o) :
        \E u \in Update([e EXCEPT !.list = @ \ {o}], f) : c = Freed(u)
  BY DEF Deleted
<1>u. PICK u \in Update([e EXCEPT !.list = @ \ {o}], f) : c = Freed(u)
  BY <1>2
<1>3. (e = b /\ same = {}) \/ \E p \in same : e = less(p)
  BY <1>2 DEF MapErase
<1>4. b.byFile \in [File -> SUBSET Object]
  BY <1>1 DEF Brk
<1>5. ASSUME NEW p \in same PROVE
        /\ less(p) \in Brk /\ less(p).list = b.list /\ less(p).info = b.info
        /\ less(p).told = b.told /\ less(p).behind = b.behind
        /\ less(p).mixed = (IF p = o THEN b.mixed ELSE b.mixed \cup {f})
        /\ less(p).byFile = [b.byFile EXCEPT ![f] = @ \ {p}]
  BY <1>1 DEF Brk
<1>6. o \in b.byFile[f] => o \in same
  OBVIOUS
<1> HIDE DEF same, less
<1>7. /\ e \in Brk /\ e.list = b.list /\ e.info = b.info
      /\ e.told = b.told /\ e.behind = b.behind
      /\ \A g \in File : e.byFile[g] \subseteq b.byFile[g] /\ (g # f => e.byFile[g] = b.byFile[g])
      /\ \A g \in File : g \notin e.mixed => g \notin b.mixed
      /\ f \notin e.mixed => e.byFile[f] = b.byFile[f] \ {o}
  <2>1. CASE e = b /\ same = {}
    BY <1>1, <1>6, <2>1
  <2>2. CASE \E p \in same : e = less(p)
    <3>1. PICK p \in same : e = less(p)
      BY <2>2
    <3>2. e.mixed = (IF p = o THEN b.mixed ELSE b.mixed \cup {f})
          /\ e.byFile = [b.byFile EXCEPT ![f] = @ \ {p}]
      BY <1>5, <3>1
    <3>3. e \in Brk /\ e.list = b.list /\ e.info = b.info /\ e.told = b.told /\ e.behind = b.behind
      BY <1>5, <3>1
    <3>4. f \notin e.mixed => p = o /\ e.mixed = b.mixed
      BY <3>2
    <3> HIDE DEF f
    <3> QED  BY <1>1, <1>4, <3>2, <3>3, <3>4
  <2> QED  BY <1>3, <2>1, <2>2
<1> DEFINE d == [e EXCEPT !.list = @ \ {o}]
<1>8. /\ d \in Brk /\ d.list = b.list \ {o} /\ d.info = b.info /\ d.byFile = e.byFile
      /\ d.told = b.told /\ d.behind = b.behind /\ d.mixed = e.mixed
  BY <1>7 DEF Brk
<1> HIDE DEF d
<1>9. \A g \in File : \A p : p \in InFile(d, g) <=> p \in InFile(b, g) /\ p # o
  BY <1>8 DEF InFile
<1>10. \A g \in File : g # f => o \notin InFile(b, g) /\ o \notin b.byFile[g]
  BY <1>1 DEF InFile, Sound
<1>11. (MapWithin(b) => MapWithin(d)) /\ (MapWhole(b) => MapWhole(d))
  BY <1>1, <1>7, <1>8, <1>9, <1>10 DEF MapWithin, MapWhole
<1>12. Sound(d)
  <2>1. Exist(d) \subseteq Exist(b)
    BY <1>7, <1>8 DEF Exist
  <2> QED  BY <1>1, <1>7, <1>8, <2>1 DEF Sound
<1>13. \A g \in File : g # f => EnabledLines(d, d.byFile[g]) = EnabledLines(b, b.byFile[g])
  BY <1>7, <1>8 DEF EnabledLines
<1>14. (ToldIsMap(b) => ToldIsMap(u)) /\ Follows(d, u)
  <2>1. u \in Update(d, f)
    BY <1>u DEF d
  <2>2. ToldIsMap(b) => \A g \in File : g \notin d.behind /\ g # f
                                      => d.told[g] = EnabledLines(d, d.byFile[g])
    BY <1>8, <1>13 DEF ToldIsMap
  <2> QED  BY <1>1, <1>12, <2>1, <2>2, UpdateFollows
<1>15. Follows(u, c)
  <2>1. Sound(u)
    BY <1>u, <1>1, <1>12, UpdateSame, SameFacts DEF d
  <2> QED  BY <1>u, <2>1, FreedFollows
<1> QED  BY <1>11, <1>14, <1>15 DEF Follows

\* A temporary breakpoint is asked for like another.
LEMMA TemporaryFollows ==
  ASSUME NEW b, Good(b), NEW o \in b.list
  PROVE  Follows(b, [b EXCEPT !.info[o].temporary = TRUE])
<1> DEFINE c == [b EXCEPT !.info[o].temporary = TRUE]
<1>1. b \in Brk /\ Sound(b) /\ o \in Object /\ b.info[o] \in Info
  BY GoodIsSound DEF Good, Sound, Brk, Exist
<1>2. /\ c.info = [b.info EXCEPT ![o] = [b.info[o] EXCEPT !.temporary = TRUE]]
      /\ c.list = b.list /\ c.byFile = b.byFile
      /\ c.told = b.told /\ c.behind = b.behind /\ c.mixed = b.mixed
  BY <1>1 DEF Brk
<1>3. /\ c.info[o].line = b.info[o].line /\ c.info[o].enabled = b.info[o].enabled
      /\ c.info[o].file = b.info[o].file
      /\ \A p \in Object : p # o => c.info[p] = b.info[p]
  BY <1>1, <1>2 DEF Brk, Info
<1> HIDE DEF c
<1>4. Alike(b, c)
  BY <1>1, <1>2, <1>3 DEF Alike, Brk
<1>5. Follows(b, c)
  BY <1>2, <1>3, <1>4, SameLinesFollow
<1> QED  BY <1>5 DEF c

-----------------------------------------------------------------------------
(* The invariant                                                           *)

MInv == ToldIsMap(brk) /\ MapWithin(brk) /\ (built => MapWhole(brk))

\* The steps of the user and of the answers that the map and the requests follow.
LEMMA FollowedSteps ==
  ASSUME IInv
  PROVE  /\ \A f \in File, l \in Line : AddBreakpoint(f, l) \/ RunToCursor(f, l) => Follows(brk, brk')
         /\ \A o \in brk.list : DeleteBreakpoint(o) \/ UpdateBreakpoint(o) => Follows(brk, brk')
         /\ \A o \in brk.list, on \in BOOLEAN : EnableBreakpoint(o, on) => Follows(brk, brk')
         /\ \A t \in todo : Confirm(t) \/ DeleteLost(t) => Follows(brk, brk')
         /\ \A id \in Id : OnProcessBreakpointData(id) => Follows(brk, brk')
<1>1. Good(brk) /\ \A o \in brk.list : o \in Object /\ brk.info[o] \in Info
  BY IdleFacts
<1>2. ASSUME NEW f \in File, NEW l \in Line, AddBreakpoint(f, l) PROVE Follows(brk, brk')
  BY <1>1, <1>2, UpdateOrAddFollows DEF AddBreakpoint
<1>3. ASSUME NEW f \in File, NEW l \in Line, RunToCursor(f, l) PROVE Follows(brk, brk')
  <2>1. PICK b \in UpdateOrAdd(brk, f, l, TRUE, NoId) :
          \E o \in At(b, f, l) : brk' = [b EXCEPT !.info[o].temporary = TRUE]
    BY <1>3 DEF RunToCursor
  <2>2. PICK o \in At(b, f, l) : brk' = [b EXCEPT !.info[o].temporary = TRUE]
    BY <2>1
  <2>3. Good(b) /\ Follows(brk, b)
    BY <1>1, UpdateOrAddFacts, UpdateOrAddFollows
  <2>4. Follows(b, brk')
    BY <2>2, <2>3, TemporaryFollows DEF At
  <2> QED  BY <2>3, <2>4 DEF Follows
<1>4. ASSUME NEW o \in brk.list, DeleteBreakpoint(o) PROVE Follows(brk, brk')
  BY <1>1, <1>4, DeletedFollows DEF DeleteBreakpoint
<1>5. ASSUME NEW o \in brk.list, UpdateBreakpoint(o) PROVE Follows(brk, brk')
  <2>1. PICK b \in Deleted(brk, o) :
          brk' \in UpdateOrAdd(b, brk.info[o].file, brk.info[o].line, TRUE, NoId)
    BY <1>5 DEF UpdateBreakpoint
  <2>2. o \in Object /\ brk.info[o].file \in File /\ brk.info[o].line \in Line
    BY <1>1 DEF Info
  <2>3. Good(b) /\ Follows(brk, b)
    BY <1>1, <2>2, DeletedFacts, DeletedFollows
  <2>4. Follows(b, brk')
    BY <2>1, <2>2, <2>3, UpdateOrAddFollows
  <2> QED  BY <2>3, <2>4 DEF Follows
<1>6. ASSUME NEW o \in brk.list, NEW on \in BOOLEAN, EnableBreakpoint(o, on)
      PROVE  Follows(brk, brk')
  <2> DEFINE i == brk.info[o]
  <2>1. i.file \in File /\ i.line \in Line /\ i.id \in Id \cup {NoId}
    BY <1>1 DEF Info
  <2>2. \/ brk' \in UpdateOrAdd(brk, i.file, i.line, on, i.id)
        \/ brk' = SetEnabled(brk, o, on)
    BY <1>6 DEF EnableBreakpoint
  <2> QED  BY <1>1, <2>1, <2>2, UpdateOrAddFollows, EnableFollows
<1>7. ASSUME NEW t \in todo, Confirm(t) PROVE Follows(brk, brk')
  <2>1. t \in Confirmation
    <3>1. \A d \in Deletion : d.do = "delete"
      BY DEF Deletion
    <3>2. t.do = "confirm"
      BY <1>7 DEF Confirm
    <3> QED  BY <3>1, <3>2 DEF IInv, OneLoop
  <2>2. t.file \in File /\ t.line \in Line /\ t.id \in Id
    BY <2>1 DEF Confirmation
  <2>3. \A o \in brk.list : brk.info[o].file \in File
    BY <1>1 DEF Info
  <2>4. \/ \E g \in File : brk' \in UpdateOrAdd(brk, g, t.line, TRUE, t.id)
        \/ brk' = brk
    BY <1>7, <2>2, <2>3 DEF Confirm
  <2> QED  BY <1>1, <2>2, <2>4, UpdateOrAddFollows DEF Follows
<1>8. ASSUME NEW t \in todo, DeleteLost(t) PROVE Follows(brk, brk')
  <2>1. t.object \in brk.list /\ brk' \in Deleted(brk, t.object)
    BY <1>8 DEF DeleteLost, IInv, LostAreSet
  <2> QED  BY <1>1, <2>1, DeletedFollows
<1>9. ASSUME NEW id \in Id, OnProcessBreakpointData(id) PROVE Follows(brk, brk')
  <2>1. PICK o \in Holders(brk, id) : brk' \in Deleted(brk, o)
    BY <1>9 DEF OnProcessBreakpointData
  <2> QED  BY <1>1, <2>1, DeletedFollows DEF Holders
<1> QED  BY <1>2, <1>3, <1>4, <1>5, <1>6, <1>7, <1>8, <1>9

\* None of them fills or clears the map.
LEMMA FollowedStep ==
  ASSUME MInv, Follows(brk, brk'), built' = built
  PROVE  MInv'
BY DEF MInv, Follows

\* A map that has been emptied: the files that had breakpoints in it were sent
\* none, or are behind.
LEMMA EmptiedFollows ==
  ASSUME NEW d, Sound(d), d.byFile = [f \in File |-> {}],
         \A f \in File : f \notin d.behind => d.told[f] = {}
  PROVE  ToldIsMap(Freed(d)) /\ MapWithin(Freed(d))
<1>1. \A f \in File : EnabledLines(d, d.byFile[f]) = {}
  BY DEF EnabledLines
<1>2. ToldIsMap(d) /\ MapWithin(d)
  BY <1>1 DEF ToldIsMap, MapWithin
<1> QED  BY <1>2, FreedFollows DEF Follows

\* DeleteAllBreakpoints keeps the invariant,
LEMMA DeleteAllMap == ASSUME IInv, MInv, DeleteAllBreakpoints PROVE MInv'
<1> DEFINE told(f) == IsRunning(flags) /\ brk.byFile[f] # {}
           queues == [f \in File |-> IF told(f) THEN Append(brk.requests[f], {}) ELSE brk.requests[f]]
           left == {f \in File : ~told(f) /\ (f \in brk.behind \/ brk.byFile[f] # {})}
           latest == [f \in File |-> IF brk.byFile[f] # {} THEN {} ELSE brk.told[f]]
           d == [brk EXCEPT !.list = {}, !.byFile = [f \in File |-> {}], !.requests = queues,
                            !.told = latest, !.behind = left, !.mixed = {}]
<1>1. brk' = Freed(d) /\ UNCHANGED session
  BY DEF DeleteAllBreakpoints
<1>2. brk \in Brk /\ Good(brk)
  BY IdleFacts
<1>3. \A f \in File : brk.requests[f] \in Seq(SUBSET Line)
                     /\ Append(brk.requests[f], {}) \in Seq(SUBSET Line)
  BY <1>2 DEF Brk
<1>4. queues \in [File -> Seq(SUBSET Line)] /\ latest \in [File -> SUBSET Line]
      /\ left \in SUBSET File
  BY <1>2, <1>3 DEF Brk
<1>5. \A f \in File : f \notin left => latest[f] = {}
  <2>1. \A f \in File : brk.byFile[f] = {} => EnabledLines(brk, brk.byFile[f]) = {}
    BY DEF EnabledLines
  <2> QED  BY <2>1 DEF MInv, ToldIsMap
<1> HIDE DEF queues, left, latest
<1>6. /\ d \in Brk /\ d.list = {} /\ d.info = brk.info
      /\ d.byFile = [f \in File |-> {}] /\ d.told = latest /\ d.behind = left
  BY <1>2, <1>4 DEF Brk
<1> HIDE DEF d
<1>7. Sound(d)
  BY <1>6 DEF Sound, Exist
<1>8. ToldIsMap(brk') /\ MapWithin(brk')
  BY <1>1, <1>5, <1>6, <1>7, EmptiedFollows
<1>9. brk'.list = {}
  BY <1>1, <1>6, <1>7, FreedFacts
<1> QED  BY <1>8, <1>9 DEF MInv, MapWhole, InFile

\* and so does CleanupWhenProjectClosed.
LEMMA CleanupMap == ASSUME IInv, MInv, CleanupWhenProjectClosed PROVE MInv'
<1> DEFINE files == {f \in File : brk.byFile[f] # {}}
           c == Behind(brk, files)
           d == [c EXCEPT !.list = {}, !.byFile = [f \in File |-> {}], !.mixed = {}]
<1>1. brk' = Freed(d)
  BY DEF CleanupWhenProjectClosed
<1>2. brk \in Brk
  BY IdleFacts
<1>3. Same(brk, c) /\ c.behind = brk.behind \cup files
      /\ c.told = [f \in File |-> IF f \in files THEN {} ELSE brk.told[f]]
  <2>1. Same(brk, c)
    BY <1>2, BehindSame
  <2> QED  BY <1>2, <2>1 DEF Behind, Brk
<1>4. \A f \in File : f \notin c.behind => c.told[f] = {}
  <2>1. \A f \in File : brk.byFile[f] = {} => EnabledLines(brk, brk.byFile[f]) = {}
    BY DEF EnabledLines
  <2> QED  BY <1>3, <2>1 DEF MInv, ToldIsMap
<1> HIDE DEF c
<1>5. /\ d \in Brk /\ d.list = {} /\ d.byFile = [f \in File |-> {}]
      /\ d.told = c.told /\ d.behind = c.behind
  BY <1>3 DEF Brk, Same
<1> HIDE DEF d
<1>6. Sound(d)
  BY <1>5 DEF Sound, Exist
<1>7. ToldIsMap(brk') /\ MapWithin(brk')
  BY <1>1, <1>4, <1>5, <1>6, EmptiedFollows
<1>8. brk'.list = {}
  BY <1>1, <1>5, <1>6, FreedFacts
<1> QED  BY <1>7, <1>8 DEF MInv, MapWhole, InFile

\* The breakpoints that an edit moves are all in the file that is then behind.
LEMMA ShiftMap ==
  ASSUME IInv, MInv, NEW f \in File, NEW first \in Line, NEW n \in Shifts,
         ShiftAllFileBreakpoints(f, first, n)
  PROVE  MInv'
<1> DEFINE moved == Below(f, first) \ Lost(f, first, n)
           infos == [o \in Object |-> IF o \in moved THEN [brk.info[o] EXCEPT !.line = @ + n]
                                                    ELSE brk.info[o]]
           c == [brk EXCEPT !.info = infos]
           files == IF moved = {} THEN {} ELSE {f}
<1>1. brk' = Behind(c, files) /\ built' = built
  BY DEF ShiftAllFileBreakpoints, session
<1>2. /\ brk \in Brk /\ Sound(brk)
      /\ \A o \in brk.list : o \in Object /\ brk.info[o] \in Info
  BY IdleFacts
<1>3. \A o \in moved : o \in brk.list /\ brk.info[o].file = f
  BY DEF Below
<1>4. /\ \A o \in Object : o \notin moved => infos[o] = brk.info[o]
      /\ \A o \in moved : infos[o].file = brk.info[o].file
  <2>1. \A o \in moved : o \in Object /\ brk.info[o] \in Info
    BY <1>2, <1>3
  <2> QED  BY <2>1 DEF Info
<1> HIDE DEF infos, moved
<1>5. /\ brk'.list = brk.list /\ brk'.byFile = brk.byFile /\ brk'.info = infos
      /\ brk'.mixed = brk.mixed /\ brk'.behind = brk.behind \cup files
      /\ brk'.told = [g \in File |-> IF g \in files THEN {} ELSE brk.told[g]]
  BY <1>1, <1>2 DEF Behind, Brk
<1>6. \A g \in File : InFile(brk', g) = InFile(brk, g)
  BY <1>2, <1>4, <1>5 DEF InFile
<1>7. ASSUME NEW g \in File, g \notin files
      PROVE  EnabledLines(brk', brk'.byFile[g]) = EnabledLines(brk, brk.byFile[g])
  <2>1. \A o \in brk.byFile[g] : o \in Object /\ o \notin moved
    BY <1>2, <1>3, <1>7 DEF Sound, Brk
  <2>2. \A o \in brk.byFile[g] : brk'.info[o] = brk.info[o]
    BY <1>4, <1>5, <2>1
  <2> QED  BY <1>5, <2>2, LinesFacts
<1>8. ToldIsMap(brk) => ToldIsMap(brk')
  BY <1>5, <1>7 DEF ToldIsMap
<1> QED  BY <1>1, <1>5, <1>6, <1>8 DEF MInv, MapWithin, MapWhole

\* The map is cleared, and nothing has been asked of the new adapter.
LEMMA LaunchMap ==
  ASSUME IInv, MInv, NEW how \in {"launch", "attach"}, NEW connects \in BOOLEAN,
         LaunchDebugger(how, connects)
  PROVE  MInv'
<1>1. PICK b \in Disconnected(brk) :
        brk' = Freed([b EXCEPT !.byFile = [f \in File |-> {}], !.told = [f \in File |-> {}],
                               !.behind = {}, !.mixed = {}])
  BY DEF LaunchDebugger
<1> DEFINE d == [b EXCEPT !.byFile = [f \in File |-> {}], !.told = [f \in File |-> {}],
                          !.behind = {}, !.mixed = {}]
<1>2. Same(brk, b) /\ Sound(brk)
  BY IdleFacts, DisconnectedFacts
<1>3. /\ d \in Brk /\ d.list = brk.list /\ d.info = brk.info
      /\ d.byFile = [f \in File |-> {}] /\ d.told = [f \in File |-> {}]
  BY <1>2 DEF Brk, Same
<1> HIDE DEF d
<1>4. Exist(d) \subseteq Exist(brk)
  BY <1>3 DEF Exist
<1>5. Sound(d)
  BY <1>2, <1>3, <1>4 DEF Sound
<1>6. ToldIsMap(brk') /\ MapWithin(brk')
  BY <1>1, <1>3, <1>5, EmptiedFollows DEF d
<1> QED  BY <1>6 DEF MInv, LaunchDebugger

\* What is lost with a connection is behind.
LEMMA ResetMap == ASSUME IInv, MInv, DAPDebuggerResetData PROVE MInv'
<1>1. brk' \in Disconnected(brk) /\ built' = built
  BY DEF DAPDebuggerResetData
<1>2. brk \in Brk
  BY IdleFacts
<1>3. PICK q : brk' = [Behind(brk, File) EXCEPT !.requests = q]
  BY <1>1 DEF Disconnected
<1>4. brk'.behind = brk.behind \cup File /\ brk'.mixed = brk.mixed
  BY <1>2, <1>3 DEF Behind, Brk
<1>5. Same(brk, brk')
  BY <1>1, <1>2, DisconnectedFacts
<1> QED  BY <1>1, <1>4, <1>5 DEF MInv, ToldIsMap, MapWithin, MapWhole, InFile, Same

\* The map is filled: of the breakpoints of the list those that are not in it find
\* their lines free, there being no twins.
LEMMA InitializedMap == ASSUME IInv, MInv, OnInitializedEvent PROVE MInv'
<1> DEFINE absent(f) == {o \in brk.list : /\ brk.info[o].file = f
                                         /\ \A p \in brk.byFile[f] : brk.info[p].line # brk.info[o].line}
           map == [f \in File |-> brk.byFile[f] \cup absent(f)]
           files == {f \in File : map[f] # {}}
           lines == [f \in File |-> EnabledLines(brk, map[f])]
           queues == [f \in File |-> IF f \in files THEN Append(brk.requests[f], lines[f])
                                                   ELSE brk.requests[f]]
           latest == [f \in File |-> IF f \in files THEN lines[f] ELSE brk.told[f]]
           c == [brk EXCEPT !.byFile = map]
<1>1. brk \in Brk /\ NoTwinsIn(brk) /\ built'
  BY IdleFacts DEF OnInitializedEvent
<1>2. \/ brk' = [brk EXCEPT !.byFile = map, !.requests = queues, !.told = latest,
                            !.behind = @ \ files]
      \/ brk' = Behind(c, files)
  BY DEF OnInitializedEvent
<1>3. \A f \in File : f \notin brk.mixed => map[f] = InFile(brk, f)
  <2> SUFFICES ASSUME NEW f \in File, f \notin brk.mixed PROVE map[f] = InFile(brk, f)
    OBVIOUS
  <2>1. brk.byFile[f] \subseteq InFile(brk, f) /\ absent(f) \subseteq InFile(brk, f)
    BY DEF MInv, MapWithin, InFile
  <2>2. ASSUME NEW o \in InFile(brk, f), o \notin brk.byFile[f] PROVE o \in absent(f)
    BY <1>1, <2>1, <2>2 DEF InFile, NoTwinsIn, Together
  <2> HIDE DEF absent
  <2> QED  BY <2>1, <2>2
<1>4. \A f \in File : f \notin files => map[f] = {} /\ brk.byFile[f] = {}
  OBVIOUS
<1>5. \A f \in File : lines[f] = EnabledLines(brk, map[f])
  OBVIOUS
<1> HIDE DEF map, lines
<1>6. /\ brk'.list = brk.list /\ brk'.info = brk.info /\ brk'.byFile = map /\ brk'.mixed = brk.mixed
      /\ \/ brk'.told = latest /\ brk'.behind = brk.behind \ files
         \/ /\ brk'.told = [f \in File |-> IF f \in files THEN {} ELSE brk.told[f]]
            /\ brk'.behind = brk.behind \cup files
  <2>1. c.list = brk.list /\ c.info = brk.info /\ c.byFile = map /\ c.mixed = brk.mixed
        /\ c.told = brk.told /\ c.behind = brk.behind
    BY <1>1 DEF Brk
  <2> HIDE DEF files, queues, latest
  <2>2. CASE brk' = [brk EXCEPT !.byFile = map, !.requests = queues, !.told = latest,
                                !.behind = @ \ files]
    BY <1>1, <2>2 DEF Brk
  <2>3. CASE brk' = Behind(c, files)
    BY <1>1, <2>1, <2>3 DEF Behind, Brk
  <2> QED  BY <1>2, <2>2, <2>3
<1>7. \A f \in File : InFile(brk', f) = InFile(brk, f)
  BY <1>6 DEF InFile
<1>8. \A f \in File : EnabledLines(brk', brk'.byFile[f]) = EnabledLines(brk, map[f])
  BY <1>6 DEF EnabledLines
<1> HIDE DEF files
<1>9. \A f \in File : f \notin files => EnabledLines(brk, map[f]) = EnabledLines(brk, brk.byFile[f])
  BY <1>4
<1>10. ToldIsMap(brk')
  BY <1>5, <1>6, <1>8, <1>9 DEF MInv, ToldIsMap
<1> QED  BY <1>3, <1>6, <1>7, <1>10 DEF MInv, MapWithin, MapWhole

\* The steps that leave the map and what was asked alone.
LEMMA OtherMap ==
  ASSUME IInv, MInv,
         \/ BeginRun \/ OnExited \/ UNCHANGED vars
         \/ \E f \in File : OnBreakpointDataSet(f)
  PROVE  MInv'
<1>1. brk \in Brk
  BY IdleFacts
<1>2. /\ built' = built
      /\ \/ brk' = brk
         \/ \E f \in File : brk' = [brk EXCEPT !.requests[f] = Tail(@)]
  BY DEF BeginRun, OnExited, vars, OnBreakpointDataSet, session
<1>3. /\ brk'.list = brk.list /\ brk'.info = brk.info /\ brk'.byFile = brk.byFile
      /\ brk'.told = brk.told /\ brk'.behind = brk.behind /\ brk'.mixed = brk.mixed
  BY <1>1, <1>2 DEF Brk
<1> QED  BY <1>2, <1>3 DEF MInv, ToldIsMap, MapWithin, MapWhole, InFile, EnabledLines

-----------------------------------------------------------------------------
(* The theorems                                                            *)

\* Nothing has been asked, and there is nothing in the map.
LEMMA MInvInit == Init => MInv
<1> SUFFICES ASSUME Init PROVE MInv
  OBVIOUS
<1>1. /\ brk.list = {} /\ brk.byFile = [f \in File |-> {}]
      /\ brk.told = [f \in File |-> {}]
  BY DEF Init, Nothing
<1>2. \A f \in File : EnabledLines(brk, brk.byFile[f]) = {}
  BY <1>1 DEF EnabledLines
<1> QED  BY <1>1, <1>2 DEF MInv, ToldIsMap, MapWithin, MapWhole, InFile

\* Every step keeps the invariant.
LEMMA MInvNext == IInv /\ MInv /\ [Next]_vars => MInv'
<1> SUFFICES ASSUME IInv, MInv, [Next]_vars PROVE MInv'
  OBVIOUS
<1>1. CASE UserNext
  <2>1. CASE \E f \in File, l \in Line : AddBreakpoint(f, l) \/ RunToCursor(f, l)
    <3>1. built' = built
      BY <2>1 DEF AddBreakpoint, RunToCursor, session
    <3> QED  BY <2>1, <3>1, FollowedSteps, FollowedStep
  <2>2. CASE \E o \in brk.list : \/ DeleteBreakpoint(o) \/ UpdateBreakpoint(o)
                                \/ \E on \in BOOLEAN : EnableBreakpoint(o, on)
    <3>1. built' = built
      BY <2>2 DEF DeleteBreakpoint, UpdateBreakpoint, EnableBreakpoint, session
    <3> QED  BY <2>2, <3>1, FollowedSteps, FollowedStep
  <2>3. CASE \E f \in File, first \in Line, n \in Shifts :
               Shiftable(f, first, n) /\ ShiftAllFileBreakpoints(f, first, n)
    BY <2>3, ShiftMap
  <2> QED  BY <1>1, <2>1, <2>2, <2>3, DeleteAllMap, CleanupMap DEF UserNext
<1>2. CASE SessionNext
  BY <1>2, LaunchMap, OtherMap, InitializedMap, ResetMap DEF SessionNext
<1>3. CASE AdapterNext
  <2>1. CASE \E t \in todo : Confirm(t) \/ DeleteLost(t)
    <3>1. built' = built
      BY <2>1 DEF Confirm, DeleteLost, session
    <3> QED  BY <2>1, <3>1, FollowedSteps, FollowedStep
  <2>2. CASE \E id \in Id : OnProcessBreakpointData(id)
    <3>1. built' = built
      BY <2>2 DEF OnProcessBreakpointData, session
    <3> QED  BY <2>2, <3>1, FollowedSteps, FollowedStep
  <2> QED  BY <1>3, <2>1, <2>2, OtherMap DEF AdapterNext
<1>4. CASE UNCHANGED vars
  BY <1>4, OtherMap
<1>5. CASE Restart
  <2>1. Init' => MInv'
    BY MInvInit, PTL
  <2> QED  BY <1>5, <2>1, RestartInit
<1> QED  BY <1>1, <1>2, <1>3, <1>4, <1>5 DEF Next

\* Once it is filled the map has the breakpoints of the list, but for the files
\* where an erasure by line has taken another object.
THEOREM MapMirrorsListTheorem == Spec => []MapMirrorsList
<1>1. MInv => MapMirrorsList
  BY DEF MInv, MapWithin, MapWhole, InFile, MapMirrorsList
<1> QED  BY <1>1, IInvInit, IInvNext, MInvInit, MInvNext, PTL DEF Spec

\* While a program is debugged, what was last asked of the adapter for a file is
\* what the list says, but for the files that the code leaves behind.
THEOREM AdapterFollowsListTheorem == Spec => []AdapterFollowsList
<1>1. MInv => AdapterFollowsList
  <2> SUFFICES ASSUME MInv, built, NEW f \in File, f \notin brk.behind, f \notin brk.mixed
               PROVE  brk.told[f] = EnabledLines(brk, {o \in brk.list : brk.info[o].file = f})
    BY DEF AdapterFollowsList
  <2>1. brk.byFile[f] = {o \in brk.list : brk.info[o].file = f}
    BY DEF MInv, MapWithin, MapWhole, InFile
  <2> QED  BY <2>1 DEF MInv, ToldIsMap
<1> QED  BY <1>1, IInvInit, IInvNext, MInvInit, MInvNext, PTL DEF Spec

=============================================================================
