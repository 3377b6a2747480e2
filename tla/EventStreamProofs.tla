-------------------------- MODULE EventStreamProofs --------------------------
(***************************************************************************)
(* Proofs about EventStream, for any threads that publish, any wanted      *)
(* events, any sizes of the channel, the queue, the replay and the pages,  *)
(* and any reads that fail.  The inductive invariant says, part by part,   *)
(* in which order events may leave (OrderInv), where every wanted event is *)
(* until it is sent (CoverInv), which deleted events a read has marked     *)
(* (GapInv), and what the client knows (KnownInv).                         *)
(***************************************************************************)
EXTENDS EventStream, TLAPS

USE ConstantsAssumption

-----------------------------------------------------------------------------
(* Sequences as sets. *)

LEMMA SetOfNone == ToSet(<<>>) = {}
BY DEF ToSet

LEMMA SetOfOne ==
  ASSUME NEW e
  PROVE  ToSet(<<e>>) = {e} /\ Head(<<e>>) = e /\ Tail(<<e>>) = <<>> /\ <<e>> # <<>>
BY DEF ToSet

LEMMA SetOfSome ==
  ASSUME NEW T, NEW s \in Seq(T)
  PROVE  /\ ToSet(s) \subseteq T /\ Len(s) \in Nat
         /\ \A e : e \in ToSet(s) <=> \E i \in 1..Len(s) : s[i] = e
         /\ \A i \in 1..Len(s) : s[i] \in ToSet(s)
         /\ s = <<>> <=> Len(s) = 0
         /\ s = <<>> <=> ToSet(s) = {}
<1>1. \A e : e \in ToSet(s) <=> \E i \in 1..Len(s) : s[i] = e
  BY DEF ToSet
<1>2. Len(s) \in Nat /\ \A i \in 1..Len(s) : s[i] \in T
  OBVIOUS
<1>3. s = <<>> <=> Len(s) = 0
  OBVIOUS
<1>4. s # <<>> => s[1] \in ToSet(s)
  BY <1>1, <1>2, <1>3
<1>. QED  BY <1>1, <1>2, <1>3, <1>4

LEMMA SetOfMore ==
  ASSUME NEW T, NEW s \in Seq(T), NEW e \in T
  PROVE  Append(s, e) \in Seq(T) /\ ToSet(Append(s, e)) = ToSet(s) \cup {e} /\ Len(Append(s, e)) = Len(s) + 1
<1>1. Append(s, e) \in Seq(T) /\ Len(Append(s, e)) = Len(s) + 1 /\ Len(s) \in Nat
  OBVIOUS
<1>2. \A i \in 1..Len(s) : Append(s, e)[i] = s[i]
  OBVIOUS
<1>3. Append(s, e)[Len(s) + 1] = e
  OBVIOUS
<1>. DEFINE t == Append(s, e)
<1>. HIDE DEF t
<1>4. \A x : x \in ToSet(t) <=> \E i \in 1..Len(t) : t[i] = x
  BY <1>1, SetOfSome DEF t
<1>5. \A x : x \in ToSet(s) <=> \E i \in 1..Len(s) : s[i] = x
  BY SetOfSome
<1>6. t \in Seq(T) /\ Len(t) = Len(s) + 1 /\ t[Len(s) + 1] = e /\ \A i \in 1..Len(s) : t[i] = s[i]
  BY <1>1, <1>2, <1>3 DEF t
<1>7. ToSet(t) = ToSet(s) \cup {e}
  <2>1. ASSUME NEW x \in ToSet(t) PROVE x \in ToSet(s) \cup {e}
    <3>1. PICK i \in 1..Len(t) : t[i] = x
      BY <1>4, <2>1
    <3>2. i = Len(s) + 1 \/ i \in 1..Len(s)
      BY <1>1, <1>6
    <3>. QED  BY <1>5, <1>6, <3>1, <3>2
  <2>2. ASSUME NEW x \in ToSet(s) PROVE x \in ToSet(t)
    <3>1. PICK i \in 1..Len(s) : s[i] = x
      BY <1>5, <2>2
    <3>2. i \in 1..Len(t) /\ t[i] = x
      BY <1>1, <1>6, <3>1
    <3>. QED  BY <1>4, <3>2
  <2>3. e \in ToSet(t)
    <3>1. Len(s) + 1 \in 1..Len(t)
      BY <1>1, <1>6
    <3>. QED  BY <1>4, <1>6, <3>1
  <2>. QED  BY <2>1, <2>2, <2>3
<1>. QED  BY <1>6, <1>7 DEF t

LEMMA SetOfRest ==
  ASSUME NEW T, NEW s \in Seq(T), s # <<>>
  PROVE  /\ Head(s) \in ToSet(s) /\ Head(s) = s[1] /\ Head(s) \in T
         /\ Tail(s) \in Seq(T) /\ Len(Tail(s)) = Len(s) - 1 /\ Len(s) \in Nat \ {0}
         /\ \A i \in 1..Len(Tail(s)) : Tail(s)[i] = s[i + 1]
         /\ ToSet(s) = {Head(s)} \cup ToSet(Tail(s))
<1>1. /\ Head(s) = s[1] /\ Tail(s) \in Seq(T) /\ Len(Tail(s)) = Len(s) - 1
      /\ Len(s) \in Nat \ {0} /\ \A i \in 1..Len(Tail(s)) : Tail(s)[i] = s[i + 1]
  OBVIOUS
<1>. DEFINE t == Tail(s)
<1>. HIDE DEF t
<1>2. /\ t \in Seq(T) /\ Len(t) = Len(s) - 1 /\ \A i \in 1..Len(t) : t[i] = s[i + 1]
  BY <1>1 DEF t
<1>3. \A x : x \in ToSet(t) <=> \E i \in 1..Len(t) : t[i] = x
  BY <1>2, SetOfSome
<1>4. \A x : x \in ToSet(s) <=> \E i \in 1..Len(s) : s[i] = x
  BY SetOfSome
<1>5. s[1] \in ToSet(s) /\ s[1] \in T
  BY <1>1, <1>4
<1>6. ToSet(s) = {s[1]} \cup ToSet(t)
  <2>1. ASSUME NEW x \in ToSet(s) PROVE x \in {s[1]} \cup ToSet(t)
    <3>1. PICK i \in 1..Len(s) : s[i] = x
      BY <1>4, <2>1
    <3>2. CASE i = 1
      BY <3>1, <3>2
    <3>3. CASE i # 1
      <4>1. i - 1 \in 1..Len(t) /\ (i - 1) + 1 = i
        BY <1>1, <1>2, <3>3
      <4>2. t[i - 1] = x
        BY <1>2, <3>1, <4>1
      <4>. QED  BY <1>3, <4>1, <4>2
    <3>. QED  BY <3>2, <3>3
  <2>2. ASSUME NEW x \in ToSet(t) PROVE x \in ToSet(s)
    <3>1. PICK i \in 1..Len(t) : t[i] = x
      BY <1>3, <2>2
    <3>2. i + 1 \in 1..Len(s) /\ s[i + 1] = x
      BY <1>1, <1>2, <3>1
    <3>. QED  BY <1>4, <3>2
  <2>. QED  BY <1>5, <2>1, <2>2
<1>. QED  BY <1>1, <1>5, <1>6 DEF t

\* Orders.

\* e may be sent after the events of S: it is a new one, and a later one unless
\* the channel had overtaken it.
Follows(S, e, late) == \A x \in S : x # e /\ (x < e \/ e \in late)

Orderly(s, late) ==
    \A i, j \in 1..Len(s) : j < i => s[j] # s[i] /\ (s[j] < s[i] \/ s[i] \in late)

LEMMA OrderlyMore ==
  ASSUME NEW s \in Seq(Event), NEW late, NEW e \in Event, Orderly(s, late), Follows(ToSet(s), e, late)
  PROVE  Orderly(Append(s, e), late)
<1>. DEFINE t == Append(s, e)
<1>1. /\ Len(t) = Len(s) + 1 /\ Len(s) \in Nat /\ t[Len(s) + 1] = e
      /\ \A i \in 1..Len(s) : t[i] = s[i] /\ s[i] \in ToSet(s)
  BY SetOfSome
<1>. HIDE DEF t
<1>2. SUFFICES ASSUME NEW i \in 1..Len(t), NEW j \in 1..Len(t), j < i
               PROVE  t[j] # t[i] /\ (t[j] < t[i] \/ t[i] \in late)
  BY DEF Orderly, t
<1>3. j \in 1..Len(s) /\ (i \in 1..Len(s) \/ i = Len(s) + 1)
  BY <1>1, <1>2
<1>4. CASE i \in 1..Len(s)
  BY <1>1, <1>2, <1>3, <1>4 DEF Orderly
<1>5. CASE i = Len(s) + 1
  BY <1>1, <1>3, <1>5 DEF Follows
<1>. QED  BY <1>3, <1>4, <1>5

LEMMA OrderlyRest ==
  ASSUME NEW s \in Seq(Event), NEW late, s # <<>>, Orderly(s, late)
  PROVE  Orderly(Tail(s), late) /\ \A e \in ToSet(Tail(s)) : Follows({Head(s)}, e, late)
<1>. DEFINE t == Tail(s)
<1>0. t \in Seq(Event) /\ Len(t) = Len(s) - 1 /\ Len(s) \in Nat \ {0} /\ Head(s) = s[1]
      /\ \A i \in 1..Len(t) : t[i] = s[i + 1]
  BY SetOfRest
<1>. HIDE DEF t
<1>1. /\ \A i \in 1..Len(t) : i + 1 \in 1..Len(s) /\ t[i] = s[i + 1]
      /\ \A x \in ToSet(t) : \E i \in 1..Len(t) : t[i] = x
      /\ Len(s) \in Nat \ {0} /\ Head(s) = s[1]
  BY <1>0, SetOfSome
<1>2. Orderly(t, late)
  <2> SUFFICES ASSUME NEW i \in 1..Len(t), NEW j \in 1..Len(t), j < i
               PROVE  t[j] # t[i] /\ (t[j] < t[i] \/ t[i] \in late)
    BY DEF Orderly
  <2>1. i + 1 \in 1..Len(s) /\ j + 1 \in 1..Len(s) /\ j + 1 < i + 1
    BY <1>1
  <2>2. t[i] = s[i + 1] /\ t[j] = s[j + 1]
    BY <1>1
  <2>. QED  BY <2>1, <2>2 DEF Orderly
<1>3. ASSUME NEW e \in ToSet(t) PROVE Follows({Head(s)}, e, late)
  <2>1. PICK i \in 1..Len(t) : t[i] = e
    BY <1>1
  <2>2. e = s[i + 1] /\ i + 1 \in 1..Len(s) /\ 1 \in 1..Len(s) /\ 1 < i + 1
    BY <1>1, <2>1
  <2>. QED  BY <1>1, <2>2 DEF Orderly, Follows
<1>. QED  BY <1>2, <1>3 DEF t

\* Later marks do no harm.
LEMMA OrderlyMarked ==
  ASSUME NEW late, NEW more, late \subseteq more
  PROVE  /\ \A s : Orderly(s, late) => Orderly(s, more)
         /\ \A S, e : Follows(S, e, late) => Follows(S, e, more)
BY DEF Orderly, Follows

-----------------------------------------------------------------------------
(* A read of the journal. *)

LEMMA Constants ==
  /\ Capacity \in Nat \ {0} /\ Queue \in Nat \ {0} /\ Window \in Nat \ {0} /\ Page \in Nat \ {0}
  /\ MaxEvents \in Nat /\ MaxDrops \in Nat /\ Event = 1..MaxEvents
  /\ Wanted \subseteq Nat \ {0}
BY DEF Event

Later(a) == {e \in Event : a < e /\ floor < e /\ e <= latest}

LEMMA ReadFacts ==
  ASSUME floor \in 0..latest, latest \in 0..MaxEvents, NEW a \in 0..MaxEvents, NEW n \in Nat
  PROVE  LET read == EventsAfter(a, n) IN
         /\ read \in Seq(Event) /\ Len(read) \in Nat
         /\ \A i, j \in 1..Len(read) : j < i => read[j] < read[i]
         /\ ToSet(read) \subseteq Later(a)
         /\ Len(read) < n => ToSet(read) = Later(a) /\ (read # <<>> => LastOr(read, a) = latest)
         /\ LastOr(read, a) \in Nat /\ a <= LastOr(read, a)
         /\ LastOr(read, a) <= latest \/ LastOr(read, a) = a
         /\ \A e \in Later(a) : e <= LastOr(read, a) <=> e \in ToSet(read)
         /\ n = MaxEvents => ToSet(read) = Later(a)
<1>. DEFINE read == EventsAfter(a, n)
            from == IF a > floor THEN a ELSE floor
            to == IF latest < from + n THEN latest ELSE from + n
            len == IF to > from THEN to - from ELSE 0
<1>1. /\ floor \in Nat /\ latest \in Nat /\ a \in Nat /\ latest <= MaxEvents /\ MaxEvents \in Nat
      /\ floor <= latest
  BY Constants
<1>2. /\ from \in Nat /\ from >= a /\ from >= floor /\ from \in {a, floor} /\ to \in Nat /\ to <= latest
      /\ to <= from + n /\ to \in {latest, from + n} /\ len \in Nat
  BY <1>1
<1>3. read = [i \in 1..len |-> from + i]
  BY DEF EventsAfter
<1>4. len > 0 => from + len = to
  BY <1>2
<1>5. len = 0 => to <= from
  BY <1>2
<1>6. len < n => (to = latest)
  BY <1>1, <1>2, <1>4, <1>5
<1>7. n = MaxEvents => to = latest
  BY <1>1, <1>2
<1>8. from + len <= latest \/ len = 0
  BY <1>2, <1>4
<1>. HIDE DEF from, to, len
<1>9. \A i \in 1..len : from + i \in Event
  BY <1>1, <1>2, <1>8, Constants
<1>10. read \in Seq(Event) /\ Len(read) = len /\ \A i \in 1..len : read[i] = from + i
  BY <1>2, <1>3, <1>9
<1>. HIDE DEF read
<1>11. \A e : e \in ToSet(read) <=> \E i \in 1..len : e = from + i
  BY <1>10, SetOfSome
<1>12. \A e \in Later(a) : e \in Nat /\ from < e /\ e <= latest
  BY <1>1, <1>2, Constants DEF Later
<1>13. ToSet(read) \subseteq Later(a)
  <2> SUFFICES ASSUME NEW e \in ToSet(read) PROVE e \in Later(a)
    OBVIOUS
  <2>1. PICK i \in 1..len : e = from + i
    BY <1>11
  <2>2. e \in Event
    BY <1>9, <2>1
  <2>3. a < e /\ floor < e /\ e <= latest
    BY <1>1, <1>2, <1>8, <2>1
  <2>. QED  BY <2>2, <2>3 DEF Later
<1>14. ASSUME NEW e \in Later(a) PROVE e <= from + len <=> e \in ToSet(read)
  <2>1. e \in Nat /\ from < e
    BY <1>12
  <2>2. e <= from + len <=> e - from \in 1..len
    BY <1>2, <2>1
  <2>3. e = from + (e - from)
    BY <1>2, <2>1
  <2>4. ASSUME NEW i \in 1..len, e = from + i PROVE e <= from + len
    BY <1>2, <2>4
  <2>. QED  BY <1>11, <2>2, <2>3, <2>4
<1>15. to = latest => ToSet(read) = Later(a)
  <2> SUFFICES ASSUME to = latest, NEW e \in Later(a) PROVE e \in ToSet(read)
    BY <1>13
  <2>1. e \in Nat /\ from < e /\ e <= to
    BY <1>12
  <2>2. len # 0 /\ len > 0
    BY <1>2, <1>5, <2>1
  <2>. QED  BY <1>4, <1>14, <2>1, <2>2
<1>16. read # <<>> => len > 0 /\ LastOr(read, a) = from + len
  <2> SUFFICES ASSUME read # <<>> PROVE len > 0 /\ LastOr(read, a) = from + len
    OBVIOUS
  <2>1. len \in 1..len
    BY <1>2, <1>10, SetOfSome
  <2>. QED  BY <1>2, <1>10, <2>1 DEF LastOr, Last
<1>17. read = <<>> => len = 0 /\ LastOr(read, a) = a
  BY <1>10, SetOfSome DEF LastOr
<1>18. \A e \in Later(a) : e <= LastOr(read, a) <=> e \in ToSet(read)
  <2>1. CASE read # <<>>
    BY <1>14, <1>16, <2>1
  <2>2. CASE read = <<>>
    <3>1. ToSet(read) = {}
      BY <2>2, SetOfNone
    <3>2. \A e \in Later(a) : ~(e <= a)
      BY <1>1, <1>2, <1>12
    <3>. QED  BY <1>17, <2>2, <3>1, <3>2
  <2>. QED  BY <2>1, <2>2
<1>19. LastOr(read, a) \in Nat /\ a <= LastOr(read, a) /\ (LastOr(read, a) <= latest \/ LastOr(read, a) = a)
  BY <1>1, <1>2, <1>8, <1>16, <1>17
<1>20. \A i, j \in 1..Len(read) : j < i => read[j] < read[i]
  BY <1>2, <1>10
<1>21. Len(read) < n => ToSet(read) = Later(a) /\ (read # <<>> => LastOr(read, a) = latest)
  BY <1>4, <1>6, <1>10, <1>15, <1>16
<1>. QED  BY <1>7, <1>10, <1>13, <1>15, <1>18, <1>19, <1>20, <1>21, <1>2 DEF read

-----------------------------------------------------------------------------
(* Types. *)

LEMMA TypeInit == Init => TypeOK
<1> SUFFICES ASSUME Init PROVE TypeOK
  OBVIOUS
<1>1. <<>> \in Seq(Event) /\ Len(<<>>) = 0
  OBVIOUS
<1>2. 0 \in 0..MaxEvents /\ 0 \in 0..MaxDrops /\ 0 \in 0..0 /\ 0 <= Capacity /\ 0 <= Queue
  BY Constants
<1>3. /\ buffer \in Seq(Event) /\ Len(buffer) <= Capacity /\ queue \in Seq(Event) /\ Len(queue) <= Queue
      /\ unsent \in Seq(Event) /\ wire \in Seq(Event) /\ sent \in Seq(Event)
      /\ pending \in [Publisher -> Seq(Event)]
  BY <1>1, <1>2 DEF Init
<1>4. {after, top, base, cursor} \subseteq 0..MaxEvents
  BY <1>2 DEF Init
<1>5. floor \in 0..latest /\ latest \in 0..MaxEvents /\ drops \in 0..MaxDrops /\ pc \in Place
      /\ lagged \in BOOLEAN /\ overflow \in BOOLEAN /\ transport \in Transports
  BY <1>2 DEF Init, Place
<1>6. known \subseteq Event /\ overtaken \subseteq Event /\ skipped \subseteq Event
  BY DEF Init
<1>. QED  BY <1>3, <1>4, <1>5, <1>6 DEF TypeOK

LEMMA EndTypes ==
  ASSUME TypeOK, NEW place \in {"off", "told"}, End(place)
  PROVE  /\ pc' \in Place /\ {after', top', base'} \subseteq 0..MaxEvents
         /\ sent' \in Seq(Event) /\ unsent' \in Seq(Event) /\ queue' \in Seq(Event) /\ Len(queue') <= Queue
         /\ buffer' \in Seq(Event) /\ Len(buffer') <= Capacity /\ lagged' \in BOOLEAN
         /\ overflow' \in BOOLEAN
<1>1. <<>> \in Seq(Event) /\ Len(<<>>) = 0
  OBVIOUS
<1>2. 0 \in 0..MaxEvents /\ 0 <= Capacity /\ 0 <= Queue
  BY Constants
<1>3. /\ buffer' \in Seq(Event) /\ Len(buffer') <= Capacity /\ queue' \in Seq(Event)
      /\ Len(queue') <= Queue /\ unsent' \in Seq(Event) /\ sent' \in Seq(Event)
  BY <1>1, <1>2 DEF End
<1>4. {after', top', base'} \subseteq 0..MaxEvents /\ pc' \in Place /\ lagged' \in BOOLEAN
      /\ overflow' \in BOOLEAN
  BY <1>2 DEF End, Place
<1>. QED  BY <1>3, <1>4

LEMMA GoneSkips == Gone(after) \subseteq Event /\ Gone(cursor) \subseteq Event
BY DEF Gone

LEMMA TypeStep == TypeOK /\ [Next]_vars => TypeOK'
<1> SUFFICES ASSUME TypeOK, [Next]_vars PROVE TypeOK'
  OBVIOUS
<1>. USE DEF journal, channel, session, client, history
<1>0. /\ latest \in Nat /\ floor \in Nat /\ floor <= latest /\ latest <= MaxEvents /\ drops \in Nat
      /\ after \in Nat /\ cursor \in Nat /\ top \in Nat /\ base \in Nat
      /\ after \in 0..MaxEvents /\ cursor \in 0..MaxEvents /\ latest \in 0..MaxEvents
      /\ floor \in 0..latest /\ MaxEvents \in Nat
  BY Constants DEF TypeOK
<1>a. <<>> \in Seq(Event) /\ Len(<<>>) = 0
  OBVIOUS
<1>1. ASSUME NEW p \in Publisher, Commit(p) PROVE TypeOK'
  <2>1. latest' = latest + 1 /\ latest' \in Event /\ latest' \in 0..MaxEvents /\ floor \in 0..latest'
    BY <1>0, <1>1 DEF Commit, Event
  <2>2. pending' \in [Publisher -> Seq(Event)]
    BY <1>1, <2>1 DEF Commit, TypeOK
  <2>. QED  BY <1>1, <2>1, <2>2 DEF Commit, TypeOK
<1>2. ASSUME NEW p \in Publisher, Publish(p) PROVE TypeOK'
  <2>1. pending[p] \in Seq(Event) /\ pending[p] # <<>>
    BY <1>2 DEF Publish, TypeOK
  <2>2. Head(pending[p]) \in Event /\ Tail(pending[p]) \in Seq(Event)
    BY <2>1
  <2>3. pending' \in [Publisher -> Seq(Event)]
    BY <1>2, <2>2 DEF Publish, TypeOK
  <2>4. Overtakes(Head(pending[p])) \subseteq Event
    BY DEF Overtakes
  <2>5. /\ buffer' \in Seq(Event) /\ Len(buffer') <= Capacity /\ lagged' \in BOOLEAN
        /\ overtaken' \subseteq Event
    <3>1. CASE UNCHANGED <<buffer, lagged, overtaken>>
      BY <3>1 DEF TypeOK
    <3>2. CASE /\ overtaken' = overtaken \cup Overtakes(Head(pending[p]))
               /\ buffer' = Append(IF Len(buffer) < Capacity THEN buffer ELSE Tail(buffer),
                                   Head(pending[p]))
               /\ lagged' = (lagged \/ Len(buffer) = Capacity)
      <4>1. buffer \in Seq(Event) /\ Len(buffer) \in Nat /\ Len(buffer) <= Capacity
        BY DEF TypeOK
      <4>2. CASE Len(buffer) < Capacity
        <5>1. buffer' = Append(buffer, Head(pending[p]))
          BY <3>2, <4>2
        <5>2. buffer' \in Seq(Event) /\ Len(buffer') = Len(buffer) + 1
          BY <2>2, <4>1, <5>1
        <5>3. Len(buffer') <= Capacity
          BY <4>1, <4>2, <5>2, Constants
        <5>4. overtaken' \subseteq Event /\ lagged' \in BOOLEAN
          BY <2>4, <3>2 DEF TypeOK
        <5>. QED  BY <5>2, <5>3, <5>4
      <4>3. CASE ~(Len(buffer) < Capacity)
        <5>0. buffer # <<>>
          BY <4>1, <4>3, Constants
        <5>1. buffer' = Append(Tail(buffer), Head(pending[p]))
          BY <3>2, <4>3
        <5>2. Tail(buffer) \in Seq(Event) /\ Len(Tail(buffer)) = Len(buffer) - 1
          BY <4>1, <5>0
        <5>3. buffer' \in Seq(Event) /\ Len(buffer') = Len(buffer)
          BY <2>2, <4>1, <5>1, <5>2
        <5>. QED  BY <2>4, <3>2, <4>1, <5>3 DEF TypeOK
      <4>. QED  BY <4>2, <4>3
    <3>. QED  BY <1>2, <3>1, <3>2 DEF Publish
  <2>. QED  BY <1>2, <2>3, <2>5 DEF Publish, TypeOK
<1>3. CASE Prune
  <2>1. floor' = floor + 1 /\ floor' \in 0..latest /\ floor + 1 \in Event
    BY <1>0, <1>3 DEF Prune, Event
  <2>2. skipped' \subseteq Event
    BY <1>3, <2>1 DEF Prune, TypeOK
  <2>. QED  BY <1>3, <2>1, <2>2 DEF Prune, TypeOK
<1>4. CASE Subscribe
  BY <1>4 DEF Subscribe, TypeOK, Place, Listening
<1>5. CASE ReadLatest
  <2>1. top' \in 0..MaxEvents
    BY <1>0, <1>5 DEF ReadLatest, Latest
  <2>. QED  BY <1>5, <2>1 DEF ReadLatest, TypeOK, Place, Listening
<1>6. CASE CheckCursor
  <2>1. skipped' \subseteq Event
    BY <1>6, GoneSkips DEF CheckCursor, TypeOK
  <2>2. CASE End("told")
    BY <1>6, <2>1, <2>2, EndTypes DEF CheckCursor, TypeOK
  <2>3. CASE pc' = "ready" /\ top' = 0 /\ UNCHANGED <<buffer, lagged, after, base, unsent, sent, queue, overflow>>
    BY <1>0, <1>6, <2>1, <2>3 DEF CheckCursor, TypeOK, Place, Listening
  <2>. QED  BY <1>6, <2>2, <2>3 DEF CheckCursor
<1>7. CASE Replay
  <2>1. PICK read \in {EventsAfter(after, Window + 1)} \cup (IF "replay" \in Faults THEN {<<>>} ELSE {}) :
          IF Len(read) > Window
          THEN End("told") /\ UNCHANGED skipped
          ELSE /\ pc' = "replaying" /\ base' = LastOr(read, after) /\ unsent' = read
               /\ skipped' = IF read # <<>> THEN skipped
                             ELSE skipped \cup ToSet(EventsAfter(after, MaxEvents))
               /\ UNCHANGED <<buffer, lagged, after, top, queue, overflow, sent>>
    BY <1>7 DEF Replay
  <2>2. Window + 1 \in Nat
    BY Constants
  <2>3. read \in Seq(Event) /\ LastOr(read, after) \in 0..MaxEvents
    <3>1. CASE read = <<>>
      BY <1>0, <1>a, <3>1 DEF LastOr
    <3>2. CASE read = EventsAfter(after, Window + 1)
      <4>1. EventsAfter(after, Window + 1) \in Seq(Event)
        BY <1>0, <2>2, ReadFacts
      <4>2. /\ LastOr(EventsAfter(after, Window + 1), after) \in Nat
            /\ \/ LastOr(EventsAfter(after, Window + 1), after) <= latest
               \/ LastOr(EventsAfter(after, Window + 1), after) = after
        BY <1>0, <2>2, ReadFacts
      <4>. QED  BY <1>0, <3>2, <4>1, <4>2
    <3>. QED  BY <2>1, <3>1, <3>2
  <2>4. ToSet(EventsAfter(after, MaxEvents)) \subseteq Event
    BY <1>0, ReadFacts DEF Later
  <2>5. skipped' \subseteq Event
    BY <2>1, <2>4 DEF TypeOK
  <2>6. CASE End("told")
    BY <1>7, <2>5, <2>6, EndTypes DEF Replay, TypeOK
  <2>7. CASE ~End("told")
    BY <1>7, <2>1, <2>3, <2>5, <2>7 DEF Replay, TypeOK, Place, Listening, Following
  <2>. QED  BY <2>6, <2>7
<1>8. CASE SendReplayed
  <2>1. CASE unsent = <<>>
    BY <1>8, <2>1 DEF SendReplayed, TypeOK, Place, Listening, Following
  <2>2. CASE unsent # <<>>
    <3>1. unsent \in Seq(Event) /\ sent \in Seq(Event)
      BY DEF TypeOK
    <3>2. Head(unsent) \in Event /\ Tail(unsent) \in Seq(Event)
      BY <2>2, <3>1
    <3>3. <<Head(unsent)>> \in Seq(Event) /\ Append(sent, Head(unsent)) \in Seq(Event)
      BY <3>1, <3>2
    <3>. QED  BY <1>8, <2>2, <3>2, <3>3 DEF SendReplayed, TypeOK
  <2>. QED  BY <2>1, <2>2
<1>9. CASE Produce
  <2>1. CASE lagged
    BY <1>9, <2>1 DEF Produce, GiveUp, TypeOK
  <2>2. CASE ~lagged
    <3>1. buffer \in Seq(Event) /\ queue \in Seq(Event) /\ buffer # <<>> /\ Len(buffer) <= Capacity
      BY <1>9, <2>2 DEF Produce, TypeOK
    <3>2. /\ Head(buffer) \in Event /\ Tail(buffer) \in Seq(Event) /\ Len(buffer) \in Nat
          /\ Len(Tail(buffer)) = Len(buffer) - 1
      BY <3>1
    <3>3. /\ Append(queue, Head(buffer)) \in Seq(Event) /\ Len(queue) \in Nat
          /\ Len(Append(queue, Head(buffer))) = Len(queue) + 1
      BY <3>1, <3>2
    <3>4. queue' \in Seq(Event) /\ Len(queue') <= Queue /\ overflow' \in BOOLEAN
      <4>1. CASE UNCHANGED <<queue, overflow>>
        BY <4>1 DEF TypeOK
      <4>2. CASE HasRoom /\ queue' = Append(queue, Head(buffer)) /\ UNCHANGED overflow
        <5>1. Len(queue) + 1 <= Queue
          BY <3>3, <4>2, Constants DEF HasRoom
        <5>. QED  BY <3>3, <4>2, <5>1 DEF TypeOK
      <4>3. CASE GiveUp /\ UNCHANGED queue
        BY <4>3 DEF GiveUp, TypeOK
      <4>. QED  BY <1>9, <2>2, <4>1, <4>2, <4>3 DEF Produce
    <3>5. Len(Tail(buffer)) <= Capacity
      BY <3>1, <3>2, Constants
    <3>. QED  BY <1>9, <2>2, <3>2, <3>4, <3>5 DEF Produce, TypeOK
  <2>. QED  BY <2>1, <2>2
<1>10. CASE Send
  <2>1. queue \in Seq(Event) /\ sent \in Seq(Event) /\ queue # <<>> /\ Len(queue) <= Queue
    BY <1>10 DEF Send, TypeOK
  <2>2. /\ Head(queue) \in Event /\ Tail(queue) \in Seq(Event) /\ Len(queue) \in Nat
        /\ Len(Tail(queue)) = Len(queue) - 1
    BY <2>1
  <2>3. <<Head(queue)>> \in Seq(Event) /\ Append(sent, Head(queue)) \in Seq(Event)
    BY <2>1, <2>2
  <2>4. Len(Tail(queue)) <= Queue
    BY <2>1, <2>2, Constants
  <2>. QED  BY <1>10, <2>2, <2>3, <2>4 DEF Send, TypeOK
<1>11. CASE SendResync
  BY <1>11, EndTypes DEF SendResync, TypeOK
<1>12. CASE PageEarliest
  <2>1. top' \in 0..MaxEvents
    <3>1. Earliest \in 0..MaxEvents
      BY <1>0 DEF Earliest
    <3>. QED  BY <1>12, <3>1 DEF PageEarliest
  <2>2. skipped' \subseteq Event
    BY <1>12, GoneSkips DEF PageEarliest, TypeOK
  <2>. QED  BY <1>12, <2>1, <2>2 DEF PageEarliest, TypeOK, Place
<1>13. CASE PageLatest
  <2>1. CASE End("told")
    BY <1>13, <2>1, EndTypes DEF PageLatest, TypeOK
  <2>2. CASE ~End("told")
    <3>0. 0 \in 0..MaxEvents
      BY Constants
    <3>1. /\ pc' = "page read" /\ top' = 0
          /\ UNCHANGED <<buffer, lagged, after, base, unsent, sent, queue, overflow>>
      BY <1>13, <2>2 DEF PageLatest
    <3>2. UNCHANGED <<latest, floor, pending, wire, transport, cursor, known, drops, overtaken, skipped>>
      BY <1>13 DEF PageLatest
    <3>. QED  BY <3>0, <3>1, <3>2 DEF TypeOK, Place
  <2>. QED  BY <2>1, <2>2
<1>14. CASE PageRead
  <2>1. LET read == EventsAfter(after, Page) IN
        ToSet(read) \subseteq Event /\ LastOr(read, after) \in 0..MaxEvents
    <3>1. /\ ToSet(EventsAfter(after, Page)) \subseteq Later(after)
          /\ LastOr(EventsAfter(after, Page), after) \in Nat
          /\ \/ LastOr(EventsAfter(after, Page), after) <= latest
             \/ LastOr(EventsAfter(after, Page), after) = after
      BY <1>0, Constants, ReadFacts
    <3>. QED  BY <1>0, <3>1 DEF Later
  <2>2. known' \subseteq Event /\ cursor' \in 0..MaxEvents
    BY <1>14, <2>1 DEF PageRead, TypeOK
  <2>3. End("off")
    BY <1>14 DEF PageRead
  <2>. QED  BY <1>14, <2>2, <2>3, EndTypes DEF PageRead, TypeOK
<1>15. CASE Apply
  <2>1. wire \in Seq(Event) /\ wire # <<>>
    BY <1>15 DEF Apply, TypeOK
  <2>2. Head(wire) \in Event /\ Tail(wire) \in Seq(Event)
    BY <2>1
  <2>3. Head(wire) \in 0..MaxEvents
    BY <2>2, Constants
  <2>. QED  BY <1>15, <2>2, <2>3 DEF Apply, TypeOK
<1>16. CASE Resync
  <2>1. cursor' \in 0..MaxEvents /\ known' \subseteq Event
    BY <1>0, <1>16 DEF Resync, Latest, Event
  <2>. QED  BY <1>16, <2>1 DEF Resync, TypeOK, Place
<1>17. CASE Drop
  <2>1. End("off") /\ wire' \in Seq(Event) /\ drops' \in 0..MaxDrops
    BY <1>0, <1>a, <1>17, Constants DEF Drop
  <2>2. pending' \in [Publisher -> Seq(Event)]
    BY <1>a, <1>17 DEF Drop, TypeOK
  <2>. QED  BY <1>17, <2>1, <2>2, EndTypes DEF Drop, TypeOK
<1>18. CASE UNCHANGED vars
  BY <1>18 DEF vars, TypeOK
<1>. QED  BY <1>1, <1>2, <1>3, <1>4, <1>5, <1>6, <1>7, <1>8, <1>9, <1>10, <1>11, <1>12, <1>13, <1>14,
          <1>15, <1>16, <1>17, <1>18 DEF Next

-----------------------------------------------------------------------------
(* What is where, at each place of a session. *)

\* Committed and not yet published.
InFlight == {e \in Event : \E p \in Publisher : e \in ToSet(pending[p])}

\* Nothing is ahead of the journal.
BoundsInv ==
    /\ cursor <= latest /\ after <= latest /\ base <= latest
    /\ known \subseteq 1..latest /\ ToSet(buffer) \subseteq 1..latest
    /\ ToSet(queue) \subseteq 1..latest /\ ToSet(unsent) \subseteq 1..latest

\* A committed event is with one thread, and in the channel only once it is not.
PendingInv ==
    /\ \A p \in Publisher : pending[p] = <<>> \/ \E e \in 1..latest : pending[p] = <<e>>
    /\ \A p, q \in Publisher : p # q /\ pending[p] # <<>> => pending[p] # pending[q]
    /\ ToSet(buffer) \cap InFlight = {}

\* What there is at each place of a session.
PlaceInv ==
    /\ wire = <<>> \/ \E e \in 1..latest : wire = <<e>>
    /\ transport = "page" => pc \in {"off", "told", "page latest", "page read"}
    /\ pc \in {"off", "subscribed", "checked", "ready", "page latest", "page read"} => wire = <<>>
    /\ pc \notin Listening => buffer = <<>> /\ ~lagged
    /\ pc \notin Following => unsent = <<>> /\ queue = <<>> /\ sent = <<>> /\ ~overflow
    /\ pc = "replaying" => queue = <<>> /\ ~overflow
    /\ pc = "live" => unsent = <<>>
    /\ pc \in Following => after <= base

StageInv == BoundsInv /\ PendingInv /\ PlaceInv

LEMMA Numbers ==
  ASSUME TypeOK
  PROVE  /\ latest \in Nat /\ floor \in Nat /\ floor <= latest /\ latest <= MaxEvents /\ drops \in Nat
         /\ after \in Nat /\ cursor \in Nat /\ top \in Nat /\ base \in Nat
         /\ after \in 0..MaxEvents /\ cursor \in 0..MaxEvents /\ latest \in 0..MaxEvents
         /\ floor \in 0..latest /\ MaxEvents \in Nat /\ 1..latest \subseteq Event
         /\ Event = 1..MaxEvents
BY Constants DEF TypeOK

LEMMA InFlightFacts ==
  ASSUME TypeOK, StageInv
  PROVE  /\ InFlight \subseteq 1..latest
         /\ \A p \in Publisher : \A e : pending[p] = <<e>> => e \in InFlight /\ e \in 1..latest
         /\ \A e \in InFlight : \E p \in Publisher : pending[p] = <<e>>
<1>1. ASSUME NEW p \in Publisher, NEW e, pending[p] = <<e>> PROVE e \in InFlight /\ e \in 1..latest
  <2>1. PICK f \in 1..latest : pending[p] = <<f>>
    BY <1>1, SetOfOne DEF StageInv, PendingInv
  <2>2. e = f
    BY <1>1, <2>1, SetOfOne
  <2>. QED  BY <1>1, <2>1, <2>2, SetOfOne, Numbers DEF InFlight
<1>2. ASSUME NEW e \in InFlight PROVE \E p \in Publisher : pending[p] = <<e>>
  <2>1. PICK p \in Publisher : e \in ToSet(pending[p])
    BY DEF InFlight
  <2>2. PICK f \in 1..latest : pending[p] = <<f>>
    BY <2>1, SetOfNone DEF StageInv, PendingInv
  <2>3. e = f
    BY <2>1, <2>2, SetOfOne
  <2>. QED  BY <2>2, <2>3
<1>3. ASSUME NEW e \in InFlight PROVE e \in 1..latest
  <2>1. PICK p \in Publisher : pending[p] = <<e>>
    BY <1>2
  <2>. QED  BY <1>1, <2>1
<1>. QED  BY <1>1, <1>2, <1>3

\* The event a thread commits is one of no other place.
LEMMA CommitMoves ==
  ASSUME TypeOK, StageInv, NEW p \in Publisher, Commit(p)
  PROVE  /\ latest' = latest + 1 /\ pending[p] = <<>> /\ InFlight' = InFlight \cup {latest + 1}
         /\ pending' = [pending EXCEPT ![p] = <<latest + 1>>]
         /\ UNCHANGED <<floor, buffer, lagged, pc, after, top, base, unsent, queue, overflow, wire, sent,
                        transport, cursor, known, drops, overtaken, skipped>>
<1>1. /\ latest' = latest + 1 /\ pending[p] = <<>> /\ latest + 1 \in Event
      /\ pending' = [pending EXCEPT ![p] = <<latest + 1>>]
      /\ UNCHANGED <<floor, buffer, lagged, pc, after, top, base, unsent, queue, overflow, wire, sent,
                     transport, cursor, known, drops, overtaken, skipped>>
  BY Numbers DEF Commit, session, client, history
<1>2. \A q \in Publisher : pending'[q] = IF q = p THEN <<latest + 1>> ELSE pending[q]
  BY <1>1 DEF TypeOK
<1>3. ToSet(pending[p]) = {} /\ ToSet(pending'[p]) = {latest + 1}
  BY <1>1, <1>2, SetOfNone, SetOfOne
<1>4. \A q \in Publisher : q # p => ToSet(pending'[q]) = ToSet(pending[q])
  BY <1>2
<1>5. InFlight' = InFlight \cup {latest + 1}
  BY <1>1, <1>3, <1>4 DEF InFlight
<1>. QED  BY <1>1, <1>5

\* The channel takes an event from its thread, and marks those it overtakes.
LEMMA PublishMoves ==
  ASSUME TypeOK, StageInv, NEW p \in Publisher, Publish(p), NEW e, pending[p] = <<e>>
  PROVE  /\ e \in 1..latest /\ e \in InFlight /\ e \in Event /\ InFlight' = InFlight \ {e}
         /\ pending' = [pending EXCEPT ![p] = <<>>]
         /\ \/ pc \notin Listening /\ UNCHANGED <<buffer, lagged, overtaken>>
            \/ /\ pc \in Listening
               /\ overtaken' = overtaken \cup {f \in InFlight : f < e}
               /\ buffer' = Append(IF Len(buffer) < Capacity THEN buffer ELSE Tail(buffer), e)
               /\ buffer # <<>> \/ Len(buffer) < Capacity
               /\ lagged' = (lagged \/ Len(buffer) = Capacity)
               /\ ToSet(buffer') \subseteq ToSet(buffer) \cup {e}
               /\ ~lagged' => ~lagged /\ ToSet(buffer') = ToSet(buffer) \cup {e}
         /\ UNCHANGED <<latest, floor, pc, after, top, base, unsent, queue, overflow, wire, sent,
                        transport, cursor, known, drops, skipped>>
<1>1. /\ pending' = [pending EXCEPT ![p] = Tail(@)]
      /\ UNCHANGED <<latest, floor, pc, after, top, base, unsent, queue, overflow, wire, sent,
                     transport, cursor, known, drops, skipped>>
  BY DEF Publish, session, client, journal
<1>2. Head(pending[p]) = e /\ Tail(pending[p]) = <<>> /\ e \in InFlight /\ e \in 1..latest /\ e \in Event
  BY SetOfOne, InFlightFacts, Numbers
<1>3. \A q \in Publisher : pending'[q] = IF q = p THEN <<>> ELSE pending[q]
  BY <1>1, <1>2 DEF TypeOK
<1>4. ToSet(pending[p]) = {e} /\ ToSet(pending'[p]) = {}
  BY <1>3, SetOfNone, SetOfOne
<1>5. ASSUME NEW q \in Publisher, q # p PROVE ToSet(pending'[q]) = ToSet(pending[q]) /\ e \notin ToSet(pending[q])
  <2>1. pending[q] # <<e>>
    BY <1>5, SetOfOne, SetOfNone DEF StageInv, PendingInv
  <2>2. pending[q] = <<>> \/ \E f \in 1..latest : pending[q] = <<f>> /\ f # e
    BY <2>1 DEF StageInv, PendingInv
  <2>. QED  BY <1>3, <1>5, <2>2, SetOfNone, SetOfOne
<1>6. InFlight' = InFlight \ {e}
  BY <1>4, <1>5 DEF InFlight
<1>7. Overtakes(e) = {f \in InFlight : f < e}
  BY DEF Overtakes, InFlight
<1>8. ASSUME pc \in Listening, buffer' = Append(IF Len(buffer) < Capacity THEN buffer ELSE Tail(buffer), e),
             lagged' = (lagged \/ Len(buffer) = Capacity)
      PROVE  /\ buffer # <<>> \/ Len(buffer) < Capacity
             /\ ToSet(buffer') \subseteq ToSet(buffer) \cup {e}
             /\ ~lagged' => ~lagged /\ ToSet(buffer') = ToSet(buffer) \cup {e}
  <2>1. buffer \in Seq(Event) /\ Len(buffer) \in Nat /\ Len(buffer) <= Capacity /\ Capacity \in Nat \ {0}
    BY Constants DEF TypeOK
  <2>2. CASE Len(buffer) < Capacity
    <3>1. buffer' = Append(buffer, e)
      BY <1>8, <2>2
    <3>2. ToSet(buffer') = ToSet(buffer) \cup {e}
      BY <1>2, <2>1, <3>1, SetOfMore
    <3>. QED  BY <1>8, <2>2, <3>2
  <2>3. CASE ~(Len(buffer) < Capacity)
    <3>1. buffer # <<>> /\ Len(buffer) = Capacity
      BY <2>1, <2>3
    <3>2. buffer' = Append(Tail(buffer), e)
      BY <1>8, <2>3
    <3>3. PICK t \in Seq(Event) : t = Tail(buffer) /\ ToSet(t) \subseteq ToSet(buffer)
      BY <2>1, <3>1, SetOfRest
    <3>4. ToSet(Append(t, e)) = ToSet(t) \cup {e}
      BY <1>2, SetOfMore
    <3>. QED  BY <1>8, <3>1, <3>2, <3>3, <3>4
  <2>. QED  BY <2>2, <2>3
<1>9. \/ pc \notin Listening /\ UNCHANGED <<buffer, lagged, overtaken>>
      \/ /\ pc \in Listening /\ overtaken' = overtaken \cup {f \in InFlight : f < e}
         /\ buffer' = Append(IF Len(buffer) < Capacity THEN buffer ELSE Tail(buffer), e)
         /\ lagged' = (lagged \/ Len(buffer) = Capacity)
  BY <1>2, <1>7 DEF Publish
<1>. QED  BY <1>1, <1>2, <1>6, <1>8, <1>9

\* A session that ends leaves nothing behind but what is on the wire.
LEMMA EndMoves ==
  ASSUME NEW place \in {"off", "told"}, End(place)
  PROVE  /\ pc' = place /\ pc' \notin Listening /\ after' = 0 /\ base' = 0
         /\ sent' = <<>> /\ unsent' = <<>> /\ buffer' = <<>> /\ queue' = <<>> /\ ~lagged' /\ ~overflow'
         /\ ToSet(sent') = {} /\ ToSet(unsent') = {} /\ ToSet(buffer') = {} /\ ToSet(queue') = {}
BY SetOfNone DEF End, Listening, Following

LEMMA ReplayMoves ==
  ASSUME TypeOK, StageInv, Replay
  PROVE  /\ pc = "ready"
         /\ UNCHANGED <<latest, floor, pending, wire, transport, cursor, known, drops, overtaken>>
         /\ \/ End("told") /\ skipped' = skipped
            \/ /\ pc' = "replaying"
               /\ UNCHANGED <<buffer, lagged, after, top, queue, overflow, sent>>
               /\ base' \in Nat /\ after <= base' /\ base' <= latest
               /\ unsent' \in Seq(Event) /\ ToSet(unsent') \subseteq Later(after)
               /\ \A i, j \in 1..Len(unsent') : j < i => unsent'[j] < unsent'[i]
               /\ \A e \in ToSet(unsent') : e <= base'
               /\ skipped \subseteq skipped' /\ Later(after) \subseteq ToSet(unsent') \cup skipped'
<1>1. pc = "ready" /\ UNCHANGED <<latest, floor, pending, wire, transport, cursor, known, drops, overtaken>>
  BY DEF Replay, journal, client
<1>2. PICK read \in {EventsAfter(after, Window + 1)} \cup (IF "replay" \in Faults THEN {<<>>} ELSE {}) :
        IF Len(read) > Window
        THEN End("told") /\ UNCHANGED skipped
        ELSE /\ pc' = "replaying" /\ base' = LastOr(read, after) /\ unsent' = read
             /\ skipped' = IF read # <<>> THEN skipped ELSE skipped \cup ToSet(EventsAfter(after, MaxEvents))
             /\ UNCHANGED <<buffer, lagged, after, top, queue, overflow, sent>>
  BY DEF Replay
<1>3. /\ floor \in 0..latest /\ latest \in 0..MaxEvents /\ after \in 0..MaxEvents /\ after \in Nat
      /\ latest \in Nat /\ after <= latest /\ MaxEvents \in Nat /\ Window + 1 \in Nat /\ Window \in Nat
  <2>1. after <= latest
    BY DEF StageInv, BoundsInv
  <2>2. Window \in Nat /\ Window + 1 \in Nat
    BY Constants
  <2>. QED  BY <2>1, <2>2, Numbers
<1>4. CASE Len(read) > Window
  BY <1>1, <1>2, <1>4
<1>5. CASE ~(Len(read) > Window) /\ read = <<>>
  <2>1. /\ pc' = "replaying" /\ base' = LastOr(read, after) /\ unsent' = read
        /\ skipped' = skipped \cup ToSet(EventsAfter(after, MaxEvents))
        /\ UNCHANGED <<buffer, lagged, after, top, queue, overflow, sent>>
    BY <1>2, <1>5
  <2>2. ToSet(EventsAfter(after, MaxEvents)) = Later(after)
    BY <1>3, ReadFacts
  <2>3. base' = after
    BY <1>5, <2>1 DEF LastOr
  <2>4. unsent' \in Seq(Event) /\ ToSet(unsent') = {} /\ Len(unsent') = 0
    BY <1>5, <2>1, SetOfNone
  <2>5. \A i, j \in 1..Len(unsent') : j < i => unsent'[j] < unsent'[i]
    BY <2>4
  <2>. QED  BY <1>1, <1>3, <2>1, <2>2, <2>3, <2>4, <2>5
<1>6. CASE ~(Len(read) > Window) /\ read # <<>>
  <2>1. /\ pc' = "replaying" /\ base' = LastOr(read, after) /\ unsent' = read /\ skipped' = skipped
        /\ UNCHANGED <<buffer, lagged, after, top, queue, overflow, sent>>
    BY <1>2, <1>6
  <2>2. read = EventsAfter(after, Window + 1)
    BY <1>2, <1>6
  <2>3. /\ read \in Seq(Event) /\ Len(read) \in Nat
        /\ \A i, j \in 1..Len(read) : j < i => read[j] < read[i]
        /\ ToSet(read) \subseteq Later(after)
        /\ Len(read) < Window + 1 => ToSet(read) = Later(after)
        /\ LastOr(read, after) \in Nat /\ after <= LastOr(read, after)
        /\ LastOr(read, after) <= latest \/ LastOr(read, after) = after
        /\ \A e \in Later(after) : e <= LastOr(read, after) <=> e \in ToSet(read)
    BY <1>3, <2>2, ReadFacts
  <2>4. Len(read) < Window + 1
    BY <1>3, <1>6, <2>3
  <2>. HIDE DEF EventsAfter
  <2>. QED  BY <1>1, <1>3, <2>1, <2>3, <2>4
<1>. QED  BY <1>4, <1>5, <1>6

LEMMA SendReplayedMoves ==
  ASSUME TypeOK, SendReplayed
  PROVE  /\ pc = "replaying" /\ wire = <<>>
         /\ UNCHANGED <<latest, floor, pending, buffer, lagged, after, top, base, queue, overflow,
                        transport, cursor, known, drops, overtaken, skipped>>
         /\ \/ unsent = <<>> /\ pc' = "live" /\ UNCHANGED <<unsent, wire, sent>>
            \/ /\ unsent # <<>> /\ pc' = pc /\ unsent' = Tail(unsent)
               /\ Head(unsent) \in Event /\ ToSet(unsent) = {Head(unsent)} \cup ToSet(unsent')
               /\ \/ /\ Head(unsent) \in Wanted /\ wire' = <<Head(unsent)>>
                     /\ sent' = Append(sent, Head(unsent)) /\ ToSet(sent') = ToSet(sent) \cup {Head(unsent)}
                  \/ Head(unsent) \notin Wanted /\ UNCHANGED <<wire, sent>>
<1>1. unsent \in Seq(Event) /\ sent \in Seq(Event)
  BY DEF TypeOK
<1>2. CASE unsent = <<>>
  BY <1>2 DEF SendReplayed, journal, channel, client, history
<1>3. CASE unsent # <<>>
  <2>1. Head(unsent) \in Event /\ ToSet(unsent) = {Head(unsent)} \cup ToSet(Tail(unsent))
    BY <1>1, <1>3, SetOfRest
  <2>2. ToSet(Append(sent, Head(unsent))) = ToSet(sent) \cup {Head(unsent)}
    BY <1>1, <2>1, SetOfMore
  <2>. QED  BY <1>3, <2>1, <2>2 DEF SendReplayed, IsWanted, journal, channel, client, history
<1>. QED  BY <1>2, <1>3

LEMMA ProduceMoves ==
  ASSUME TypeOK, Produce
  PROVE  /\ pc = "live" /\ ~overflow
         /\ UNCHANGED <<latest, floor, pending, pc, after, top, base, unsent, wire, sent, transport, cursor,
                        known, drops, overtaken, skipped>>
         /\ \/ lagged /\ ~lagged' /\ overflow' /\ UNCHANGED <<buffer, queue>>
            \/ /\ ~lagged /\ ~lagged' /\ buffer # <<>> /\ buffer' = Tail(buffer)
               /\ Head(buffer) \in Event /\ ToSet(buffer) = {Head(buffer)} \cup ToSet(buffer')
               /\ \/ ~(base < Head(buffer) /\ Head(buffer) \in Wanted) /\ UNCHANGED <<queue, overflow>>
                  \/ /\ base < Head(buffer) /\ Head(buffer) \in Wanted
                     /\ queue' = Append(queue, Head(buffer)) /\ UNCHANGED overflow
                     /\ ToSet(queue') = ToSet(queue) \cup {Head(buffer)}
                  \/ overflow' /\ UNCHANGED queue
<1>1. buffer \in Seq(Event) /\ queue \in Seq(Event) /\ lagged \in BOOLEAN /\ base \in Nat
  BY Numbers DEF TypeOK
<1>2. CASE lagged
  BY <1>2 DEF Produce, GiveUp, journal, client, history
<1>3. CASE ~lagged
  <2>0. buffer # <<>>
    BY <1>3 DEF Produce
  <2>1. Head(buffer) \in Event /\ ToSet(buffer) = {Head(buffer)} \cup ToSet(Tail(buffer))
    BY <1>1, <2>0, SetOfRest
  <2>2. ToSet(Append(queue, Head(buffer))) = ToSet(queue) \cup {Head(buffer)}
    BY <1>1, <2>1, SetOfMore
  <2>3. AboveBase(Head(buffer)) /\ IsWanted(Head(buffer)) <=> base < Head(buffer) /\ Head(buffer) \in Wanted
    BY <1>1, <2>1, Constants DEF AboveBase, IsWanted
  <2>4. /\ pc = "live" /\ ~overflow /\ buffer' = Tail(buffer) /\ UNCHANGED lagged
        /\ IF ~(AboveBase(Head(buffer)) /\ IsWanted(Head(buffer)))
           THEN UNCHANGED <<queue, overflow>>
           ELSE IF HasRoom
                THEN queue' = Append(queue, Head(buffer)) /\ UNCHANGED overflow
                ELSE GiveUp /\ UNCHANGED queue
        /\ UNCHANGED <<latest, floor, pending, pc, after, top, base, unsent, wire, sent, transport, cursor,
                       known, drops, overtaken, skipped>>
    BY <1>3 DEF Produce, journal, client, history
  <2>5. CASE ~(AboveBase(Head(buffer)) /\ IsWanted(Head(buffer)))
    BY <1>3, <2>0, <2>1, <2>3, <2>4, <2>5
  <2>6. CASE AboveBase(Head(buffer)) /\ IsWanted(Head(buffer)) /\ HasRoom
    BY <1>3, <2>0, <2>1, <2>2, <2>3, <2>4, <2>6
  <2>7. CASE AboveBase(Head(buffer)) /\ IsWanted(Head(buffer)) /\ ~HasRoom
    BY <1>3, <2>0, <2>1, <2>3, <2>4, <2>7 DEF GiveUp
  <2>. QED  BY <2>5, <2>6, <2>7
<1>. QED  BY <1>1, <1>2, <1>3

LEMMA SendMoves ==
  ASSUME TypeOK, Send
  PROVE  /\ pc = "live" /\ wire = <<>> /\ queue # <<>> /\ Head(queue) \in Event
         /\ wire' = <<Head(queue)>> /\ sent' = Append(sent, Head(queue)) /\ queue' = Tail(queue)
         /\ ToSet(queue) = {Head(queue)} \cup ToSet(queue')
         /\ ToSet(sent') = ToSet(sent) \cup {Head(queue)}
         /\ UNCHANGED <<latest, floor, pending, buffer, lagged, pc, after, top, base, unsent, overflow,
                        transport, cursor, known, drops, overtaken, skipped>>
<1>1. /\ pc = "live" /\ wire = <<>> /\ queue # <<>>
      /\ wire' = <<Head(queue)>> /\ sent' = Append(sent, Head(queue)) /\ queue' = Tail(queue)
      /\ UNCHANGED <<latest, floor, pending, buffer, lagged, pc, after, top, base, unsent, overflow,
                     transport, cursor, known, drops, overtaken, skipped>>
  BY DEF Send, journal, channel, client, history
<1>2. queue \in Seq(Event) /\ sent \in Seq(Event)
  BY DEF TypeOK
<1>3. Head(queue) \in Event /\ ToSet(queue) = {Head(queue)} \cup ToSet(Tail(queue))
  BY <1>1, <1>2, SetOfRest
<1>4. ToSet(Append(sent, Head(queue))) = ToSet(sent) \cup {Head(queue)}
  BY <1>2, <1>3, SetOfMore
<1>. QED  BY <1>1, <1>3, <1>4

LEMMA ApplyMoves ==
  ASSUME TypeOK, StageInv, Apply
  PROVE  \E h \in 1..latest :
           /\ wire = <<h>> /\ wire' = <<>> /\ known' = known \cup {h} /\ cursor' = h
           /\ UNCHANGED <<latest, floor, pending, buffer, lagged, transport, pc, after, top, base, unsent,
                          queue, overflow, sent, drops, overtaken, skipped>>
<1>1. PICK h \in 1..latest : wire = <<h>>
  BY DEF Apply, StageInv, PlaceInv
<1>2. Head(wire) = h /\ Tail(wire) = <<>>
  BY <1>1
<1>3. wire' = <<>> /\ known' = known \cup {h} /\ cursor' = h
  BY <1>2 DEF Apply
<1>. QED  BY <1>1, <1>3 DEF Apply, journal, channel, history

LEMMA DropMoves ==
  ASSUME TypeOK, Drop
  PROVE  /\ End("off") /\ wire' = <<>> /\ InFlight' \subseteq InFlight
         /\ \A p \in Publisher : pending'[p] \in {pending[p], <<>>}
         /\ \/ pending' = pending
            \/ \A p \in Publisher : pending'[p] = <<>>
         /\ UNCHANGED <<latest, floor, transport, cursor, known, overtaken, skipped>>
<1>1. /\ End("off") /\ wire' = <<>>
      /\ UNCHANGED <<latest, floor, transport, cursor, known, overtaken, skipped>>
      /\ pending' = pending \/ \A p \in Publisher : pending'[p] = <<>>
  BY DEF Drop, journal, client, history
<1>2. \A p \in Publisher : ToSet(pending'[p]) \subseteq ToSet(pending[p])
  BY <1>1, SetOfNone
<1>. QED  BY <1>1, <1>2 DEF InFlight

LEMMA InFlightKept == UNCHANGED pending => InFlight' = InFlight
BY DEF InFlight

LEMMA LaterFacts == TypeOK => \A a : Later(a) \subseteq 1..latest
BY Numbers DEF Later

LEMMA StageInit == Init => StageInv
<1> SUFFICES ASSUME Init PROVE StageInv
  OBVIOUS
<1>1. ToSet(buffer) = {} /\ ToSet(queue) = {} /\ ToSet(unsent) = {}
  BY SetOfNone DEF Init
<1>. QED  BY <1>1 DEF Init, StageInv, BoundsInv, PendingInv, PlaceInv, Listening, Following

LEMMA PruneMoves ==
  ASSUME TypeOK, Prune
  PROVE  /\ floor' = floor + 1 /\ floor < latest /\ skipped \subseteq skipped'
         /\ pc \in Checked /\ after < floor + 1 => floor + 1 \in skipped'
         /\ UNCHANGED <<latest, pending, buffer, lagged, pc, after, top, base, unsent, queue, overflow,
                        wire, sent, transport, cursor, known, drops, overtaken>>
BY DEF Prune, channel, session, client

\* The steps that only read the journal.
LEMMA ReadMoves ==
  ASSUME TypeOK, Subscribe \/ ReadLatest \/ CheckCursor \/ PageEarliest \/ PageLatest, ~End("told")
  PROVE  /\ UNCHANGED <<latest, floor, pending, buffer, lagged, base, unsent, queue, overflow, wire, sent,
                        transport, cursor, known, drops, overtaken>>
         /\ skipped \subseteq skipped'
         /\ \/ pc = "off" /\ pc' = "subscribed" /\ after' = cursor /\ transport = "stream"
            \/ pc = "subscribed" /\ pc' = "checked" /\ after' = after
            \/ pc = "checked" /\ pc' = "ready" /\ after' = after
            \/ pc = "off" /\ pc' = "page latest" /\ after' = cursor
            \/ pc = "page latest" /\ pc' = "page read" /\ after' = after
<1>1. CASE Subscribe
  BY <1>1 DEF Subscribe, journal, channel, client, history
<1>2. CASE ReadLatest
  BY <1>2 DEF ReadLatest, journal, channel, client, history
<1>3. CASE CheckCursor
  BY <1>3 DEF CheckCursor, journal, client
<1>4. CASE PageEarliest
  BY <1>4 DEF PageEarliest, journal, channel, client
<1>5. CASE PageLatest
  BY <1>5 DEF PageLatest, journal, client, history
<1>. QED  BY <1>1, <1>2, <1>3, <1>4, <1>5

LEMMA PageReadMoves ==
  ASSUME TypeOK, StageInv, PageRead
  PROVE  /\ pc = "page read" /\ End("off")
         /\ UNCHANGED <<latest, floor, pending, wire, transport, overtaken, skipped>>
         /\ known \subseteq known' /\ known' \subseteq 1..latest
         /\ cursor' \in Nat /\ after <= cursor' /\ cursor' <= latest
         /\ \A e \in Later(after) : e <= cursor' => e \in known'
<1>1. /\ floor \in 0..latest /\ latest \in 0..MaxEvents /\ after \in 0..MaxEvents /\ Page \in Nat
      /\ after \in Nat /\ latest \in Nat /\ MaxEvents \in Nat
  BY Numbers, Constants
<1>2. after <= latest /\ known \subseteq 1..latest
  BY DEF StageInv, BoundsInv
<1>. DEFINE read == EventsAfter(after, Page)
<1>3. /\ ToSet(read) \subseteq Later(after) /\ LastOr(read, after) \in Nat /\ after <= LastOr(read, after)
      /\ LastOr(read, after) <= latest \/ LastOr(read, after) = after
      /\ \A e \in Later(after) : e <= LastOr(read, after) <=> e \in ToSet(read)
  BY <1>1, ReadFacts
<1>4. /\ pc = "page read" /\ End("off") /\ known' = known \cup ToSet(read) /\ cursor' = LastOr(read, after)
      /\ UNCHANGED <<latest, floor, pending, wire, transport, overtaken, skipped>>
  BY DEF PageRead, journal, history
<1>. HIDE DEF read
<1>5. Later(after) \subseteq 1..latest
  BY <1>1, Numbers DEF Later
<1>. QED  BY <1>1, <1>2, <1>3, <1>4, <1>5

LEMMA EndSteps ==
  ASSUME TypeOK, StageInv, End("told"), CheckCursor \/ Replay \/ SendResync \/ PageLatest
  PROVE  UNCHANGED <<latest, pending, transport, wire, cursor, known, floor, overtaken>>
BY DEF CheckCursor, Replay, SendResync, PageLatest, journal, client, history

LEMMA ResyncMoves ==
  ASSUME TypeOK, Resync
  PROVE  /\ pc' = "off" /\ wire = <<>> /\ known' = 1..latest /\ cursor' \in {0, latest} /\ pc = "told"
         /\ UNCHANGED <<latest, floor, pending, buffer, lagged, after, base, unsent, queue, overflow, wire,
                        sent, transport, overtaken, skipped>>
BY DEF Resync, Latest, journal, channel, session, history

\* The steps, sorted by what they move.
Steps ==
    \/ \E p \in Publisher : Commit(p)
    \/ \E p \in Publisher : \E e \in Event : pending[p] = <<e>> /\ Publish(p)
    \/ Prune
    \/ (Subscribe \/ ReadLatest \/ CheckCursor \/ PageEarliest \/ PageLatest) /\ ~End("told")
    \/ (CheckCursor \/ Replay \/ SendResync \/ PageLatest) /\ End("told")
    \/ Replay /\ ~End("told")
    \/ SendReplayed \/ Produce \/ Send \/ PageRead \/ Apply \/ Resync \/ Drop
    \/ UNCHANGED vars

LEMMA NextSteps == TypeOK /\ StageInv /\ [Next]_vars => Steps
<1> SUFFICES ASSUME TypeOK, StageInv, [Next]_vars PROVE Steps
  OBVIOUS
<1>1. ASSUME NEW p \in Publisher, Publish(p) PROVE \E e \in Event : pending[p] = <<e>>
  BY <1>1, Numbers DEF Publish, StageInv, PendingInv
<1>2. Subscribe \/ ReadLatest \/ PageEarliest => ~End("told")
  BY DEF Subscribe, ReadLatest, PageEarliest, End
<1>3. SendResync => End("told")
  BY DEF SendResync
<1>. QED  BY <1>1, <1>2, <1>3 DEF Next, Steps

LEMMA BoundsStep == TypeOK /\ StageInv /\ [Next]_vars => BoundsInv'
<1> SUFFICES ASSUME TypeOK, StageInv, Steps PROVE BoundsInv'
  BY NextSteps
<1>0. /\ latest \in Nat /\ cursor \in Nat /\ after \in Nat /\ base \in Nat /\ latest <= latest /\ 0 <= latest
      /\ cursor <= latest /\ after <= latest /\ base <= latest
      /\ known \subseteq 1..latest /\ ToSet(buffer) \subseteq 1..latest
      /\ ToSet(queue) \subseteq 1..latest /\ ToSet(unsent) \subseteq 1..latest
  BY Numbers DEF StageInv, BoundsInv
<1>1. ASSUME NEW p \in Publisher, Commit(p) PROVE BoundsInv'
  <2>1. latest' = latest + 1 /\ UNCHANGED <<buffer, queue, unsent, after, base, cursor, known>>
    BY <1>1, CommitMoves
  <2>2. 1..latest \subseteq 1..(latest + 1) /\ \A n \in Nat : n <= latest => n <= latest + 1
    BY <1>0
  <2>3. cursor' <= latest' /\ after' <= latest' /\ base' <= latest'
    BY <1>0, <2>1, <2>2
  <2>4. known' \subseteq 1..latest' /\ ToSet(buffer') \subseteq 1..latest'
        /\ ToSet(queue') \subseteq 1..latest' /\ ToSet(unsent') \subseteq 1..latest'
    BY <1>0, <2>1, <2>2
  <2>. QED  BY <2>3, <2>4 DEF BoundsInv
<1>2. ASSUME NEW p \in Publisher, NEW e \in Event, pending[p] = <<e>>, Publish(p) PROVE BoundsInv'
  <2>1. ToSet(buffer') \subseteq 1..latest
    BY <1>0, <1>2, PublishMoves
  <2>2. UNCHANGED <<latest, queue, unsent, after, base, cursor, known>>
    BY <1>2, PublishMoves
  <2>. QED  BY <1>0, <2>1, <2>2 DEF BoundsInv
<1>3. CASE Prune
  BY <1>0, <1>3, PruneMoves DEF BoundsInv
<1>4. CASE (Subscribe \/ ReadLatest \/ CheckCursor \/ PageEarliest \/ PageLatest) /\ ~End("told")
  <2>1. after' \in {after, cursor} /\ UNCHANGED <<latest, buffer, queue, unsent, base, cursor, known>>
    BY <1>4, ReadMoves
  <2>. QED  BY <1>0, <2>1 DEF BoundsInv
<1>5. CASE (CheckCursor \/ Replay \/ SendResync \/ PageLatest) /\ End("told")
  BY <1>0, <1>5, EndMoves, EndSteps DEF BoundsInv
<1>6. CASE Replay /\ ~End("told")
  <2>1. base' <= latest /\ UNCHANGED <<latest, buffer, queue, after, cursor, known>>
        /\ ToSet(unsent') \subseteq Later(after)
    BY <1>6, ReplayMoves
  <2>2. Later(after) \subseteq 1..latest
    BY LaterFacts
  <2>. QED  BY <1>0, <2>1, <2>2 DEF BoundsInv
<1>7. CASE SendReplayed
  <2>1. ToSet(unsent') \subseteq ToSet(unsent) /\ UNCHANGED <<latest, buffer, queue, after, base, cursor, known>>
    BY <1>7, SendReplayedMoves
  <2>. QED  BY <1>0, <2>1 DEF BoundsInv
<1>8. CASE Produce
  <2>1. ToSet(buffer') \subseteq ToSet(buffer) /\ UNCHANGED <<latest, unsent, after, base, cursor, known>>
    BY <1>8, ProduceMoves
  <2>2. ToSet(queue') \subseteq ToSet(queue) \cup ToSet(buffer)
    BY <1>8, ProduceMoves
  <2>. QED  BY <1>0, <2>1, <2>2 DEF BoundsInv
<1>9. CASE Send
  <2>1. ToSet(queue') \subseteq ToSet(queue) /\ UNCHANGED <<latest, buffer, unsent, after, base, cursor, known>>
    BY <1>9, SendMoves
  <2>. QED  BY <1>0, <2>1 DEF BoundsInv
<1>10. CASE PageRead
  BY <1>0, <1>10, PageReadMoves, EndMoves DEF BoundsInv
<1>11. CASE Apply
  <2>1. PICK h \in 1..latest : known' = known \cup {h} /\ cursor' = h /\ UNCHANGED <<latest, buffer, queue, unsent, after, base>>
    BY <1>11, ApplyMoves
  <2>. QED  BY <1>0, <2>1 DEF BoundsInv
<1>12. CASE Resync
  BY <1>0, <1>12, ResyncMoves DEF BoundsInv
<1>13. CASE Drop
  BY <1>0, <1>13, DropMoves, EndMoves DEF BoundsInv
<1>14. CASE UNCHANGED vars
  BY <1>0, <1>14 DEF vars, BoundsInv
<1>. QED  BY <1>1, <1>2, <1>3, <1>4, <1>5, <1>6, <1>7, <1>8, <1>9, <1>10, <1>11, <1>12, <1>13, <1>14 DEF Steps

LEMMA PendingStep == TypeOK /\ StageInv /\ [Next]_vars => PendingInv'
<1> SUFFICES ASSUME TypeOK, StageInv, Steps PROVE PendingInv'
  BY NextSteps
<1>0. /\ latest \in Nat /\ pending \in [Publisher -> Seq(Event)] /\ InFlight \subseteq 1..latest
      /\ ToSet(buffer) \subseteq 1..latest
  BY Numbers, InFlightFacts DEF TypeOK, StageInv, BoundsInv
<1>a. /\ \A p \in Publisher : pending[p] = <<>> \/ \E e \in 1..latest : pending[p] = <<e>>
      /\ \A p, q \in Publisher : p # q /\ pending[p] # <<>> => pending[p] # pending[q]
      /\ ToSet(buffer) \cap InFlight = {}
  BY DEF StageInv, PendingInv
<1>b. ASSUME UNCHANGED <<latest, pending>>, ToSet(buffer') \subseteq ToSet(buffer) PROVE PendingInv'
  BY <1>a, <1>b, InFlightKept DEF PendingInv
<1>1. ASSUME NEW p \in Publisher, Commit(p) PROVE PendingInv'
  <2>1. \A q \in Publisher : pending'[q] = IF q = p THEN <<latest + 1>> ELSE pending[q]
    BY <1>0, <1>1, CommitMoves
  <2>2. 1..latest \subseteq 1..latest' /\ latest + 1 \in 1..latest' /\ latest' = latest + 1
    BY <1>0, <1>1, CommitMoves
  <2>3. \A q \in Publisher : pending'[q] = <<>> \/ \E e \in 1..latest' : pending'[q] = <<e>>
    BY <1>a, <2>1, <2>2
  <2>4. \A q \in Publisher : pending[q] # <<latest + 1>>
    <3>1. \A e \in 1..latest : <<e>> # <<latest + 1>>
      BY <1>0
    <3>. QED  BY <1>a, <3>1, SetOfOne
  <2>5. ASSUME NEW q \in Publisher, NEW r \in Publisher, q # r, pending'[q] # <<>>
        PROVE  pending'[q] # pending'[r]
    <3>1. CASE q = p
      BY <2>1, <2>4, <2>5, <3>1
    <3>2. CASE q # p
      BY <1>a, <2>1, <2>4, <2>5, <3>2
    <3>. QED  BY <3>1, <3>2
  <2>6. latest + 1 \notin ToSet(buffer)
    <3>1. latest + 1 \notin 1..latest
      BY <1>0
    <3>. QED  BY <1>0, <3>1
  <2>7. ToSet(buffer') \cap InFlight' = {}
    BY <1>1, <1>a, <2>6, CommitMoves
  <2>. QED  BY <2>3, <2>5, <2>7 DEF PendingInv
<1>2. ASSUME NEW p \in Publisher, NEW e \in Event, pending[p] = <<e>>, Publish(p) PROVE PendingInv'
  <2>1. \A q \in Publisher : pending'[q] = IF q = p THEN <<>> ELSE pending[q]
    BY <1>0, <1>2, PublishMoves
  <2>2. ToSet(buffer') \cap InFlight' = {}
    BY <1>2, <1>a, PublishMoves
  <2>3. \A q \in Publisher : pending'[q] = <<>> \/ \E f \in 1..latest : pending'[q] = <<f>>
    BY <1>a, <2>1
  <2>4. ASSUME NEW q \in Publisher, NEW r \in Publisher, q # r, pending'[q] # <<>>
        PROVE  pending'[q] # pending'[r]
    <3>1. q # p /\ pending'[q] = pending[q] /\ pending[q] # <<>>
      BY <2>1, <2>4
    <3>. QED  BY <1>a, <2>1, <2>4, <3>1
  <2>5. latest' = latest
    BY <1>2, PublishMoves
  <2>. QED  BY <2>2, <2>3, <2>4, <2>5 DEF PendingInv
<1>3. CASE Prune
  BY <1>b, <1>3, PruneMoves
<1>4. CASE (Subscribe \/ ReadLatest \/ CheckCursor \/ PageEarliest \/ PageLatest) /\ ~End("told")
  BY <1>b, <1>4, ReadMoves
<1>5. CASE (CheckCursor \/ Replay \/ SendResync \/ PageLatest) /\ End("told")
  BY <1>b, <1>5, EndMoves, EndSteps
<1>6. CASE Replay /\ ~End("told")
  BY <1>b, <1>6, ReplayMoves
<1>7. CASE SendReplayed
  BY <1>b, <1>7, SendReplayedMoves
<1>8. CASE Produce
  <2>1. ToSet(buffer') \subseteq ToSet(buffer) /\ UNCHANGED <<latest, pending>>
    BY <1>8, ProduceMoves
  <2>. QED  BY <1>b, <2>1
<1>9. CASE Send
  BY <1>b, <1>9, SendMoves
<1>10. CASE PageRead
  BY <1>b, <1>10, PageReadMoves, EndMoves
<1>11. CASE Apply
  <2>1. UNCHANGED <<latest, pending, buffer>>
    BY <1>11, ApplyMoves
  <2>. QED  BY <1>b, <2>1
<1>12. CASE Resync
  BY <1>b, <1>12, ResyncMoves
<1>13. CASE Drop
  <2>1. \A q \in Publisher : pending'[q] = <<>> \/ \E f \in 1..latest : pending'[q] = <<f>>
    BY <1>13, <1>a, DropMoves
  <2>2. \A q, r \in Publisher : q # r /\ pending'[q] # <<>> => pending'[q] # pending'[r]
    BY <1>13, <1>a, DropMoves
  <2>3. ToSet(buffer') = {} /\ latest' = latest
    BY <1>13, DropMoves, EndMoves
  <2>. QED  BY <2>1, <2>2, <2>3 DEF PendingInv
<1>14. CASE UNCHANGED vars
  BY <1>b, <1>14 DEF vars
<1>. QED  BY <1>1, <1>2, <1>3, <1>4, <1>5, <1>6, <1>7, <1>8, <1>9, <1>10, <1>11, <1>12, <1>13, <1>14 DEF Steps

LEMMA PlaceStep == TypeOK /\ StageInv /\ [Next]_vars => PlaceInv'
<1> SUFFICES ASSUME TypeOK, StageInv, Steps PROVE PlaceInv'
  BY NextSteps
<1>. USE DEF Listening, Following
<1>0. PlaceInv /\ latest \in Nat /\ ToSet(queue) \subseteq 1..latest /\ ToSet(unsent) \subseteq 1..latest
  BY Numbers DEF StageInv, BoundsInv
<1>b. ASSUME 1..latest \subseteq 1..latest',
             UNCHANGED <<pc, buffer, lagged, transport, unsent, queue, sent, overflow, wire, after, base>>
      PROVE  PlaceInv'
  BY <1>0, <1>b DEF PlaceInv
<1>c. ASSUME NEW place \in {"off", "told"}, End(place), UNCHANGED <<latest, transport>>,
             wire' \in {wire, <<>>}, place = "off" => wire' = <<>>
      PROVE  PlaceInv'
  <2>1. wire' = <<>> \/ \E e \in 1..latest' : wire' = <<e>>
    BY <1>0, <1>c DEF PlaceInv
  <2>. QED  BY <1>c, <2>1, EndMoves DEF PlaceInv
<1>1. ASSUME NEW p \in Publisher, Commit(p) PROVE PlaceInv'
  <2>1. 1..latest \subseteq 1..latest'
    BY <1>0, <1>1, CommitMoves
  <2>. QED  BY <1>b, <1>1, <2>1, CommitMoves
<1>2. ASSUME NEW p \in Publisher, NEW e \in Event, pending[p] = <<e>>, Publish(p) PROVE PlaceInv'
  <2>1. pc \notin Listening => UNCHANGED <<buffer, lagged>>
    BY <1>2, PublishMoves
  <2>2. UNCHANGED <<latest, pc, transport, unsent, queue, sent, overflow, wire, after, base>>
    BY <1>2, PublishMoves
  <2>3. wire' = <<>> \/ \E f \in 1..latest' : wire' = <<f>>
    BY <1>0, <2>2 DEF PlaceInv
  <2>4. pc' \notin Listening => buffer' = <<>> /\ ~lagged'
    BY <1>0, <2>1, <2>2 DEF PlaceInv
  <2>5. pc' \notin Following => unsent' = <<>> /\ queue' = <<>> /\ sent' = <<>> /\ ~overflow'
    BY <1>0, <2>2 DEF PlaceInv
  <2>6. pc' = "replaying" => queue' = <<>> /\ ~overflow'
    BY <1>0, <2>2 DEF PlaceInv
  <2>. QED  BY <1>0, <2>2, <2>3, <2>4, <2>5, <2>6 DEF PlaceInv
<1>3. CASE Prune
  BY <1>b, <1>3, PruneMoves
<1>4. CASE (Subscribe \/ ReadLatest \/ CheckCursor \/ PageEarliest \/ PageLatest) /\ ~End("told")
  <2>1. /\ pc' \in {"subscribed", "checked", "ready", "page latest", "page read"}
        /\ pc \in {"off", "subscribed", "checked", "page latest"}
        /\ pc' \notin Listening => pc \notin Listening
        /\ transport = "page" /\ pc # "off" => pc' \in {"page latest", "page read"}
    BY <1>0, <1>4, ReadMoves DEF PlaceInv
  <2>2. transport = "page" /\ pc = "off" => pc' \in {"page latest", "page read"}
    BY <1>4, ReadMoves
  <2>3. UNCHANGED <<latest, buffer, lagged, base, unsent, queue, overflow, wire, sent, transport>>
    BY <1>4, ReadMoves
  <2>. QED  BY <1>0, <2>1, <2>2, <2>3 DEF PlaceInv
<1>5. CASE (CheckCursor \/ Replay \/ SendResync \/ PageLatest) /\ End("told")
  BY <1>c, <1>5, EndSteps
<1>6. CASE Replay /\ ~End("told")
  <2>1. pc = "ready" /\ pc' = "replaying" /\ after' <= base' /\ UNCHANGED <<latest, wire, transport>>
        /\ UNCHANGED <<queue, overflow>>
    BY <1>6, ReplayMoves
  <2>2. transport # "page" /\ wire' = <<>> /\ queue' = <<>> /\ ~overflow'
    BY <1>0, <2>1 DEF PlaceInv
  <2>. QED  BY <2>1, <2>2 DEF PlaceInv
<1>7. CASE SendReplayed
  <2>1. pc = "replaying" /\ UNCHANGED <<latest, buffer, lagged, transport, queue, overflow, after, base>>
    BY <1>7, SendReplayedMoves
  <2>2. /\ pc' \in {"replaying", "live"} /\ (pc' = "live" => unsent' = <<>>)
        /\ wire' = <<>> \/ \E e \in ToSet(unsent) : wire' = <<e>>
    BY <1>7, SendReplayedMoves
  <2>. QED  BY <1>0, <2>1, <2>2 DEF PlaceInv
<1>8. CASE Produce
  BY <1>0, <1>8, ProduceMoves DEF PlaceInv
<1>9. CASE Send
  <2>1. UNCHANGED <<latest, pc, buffer, lagged, transport, unsent, overflow, after, base>> /\ pc = "live"
    BY <1>9, SendMoves
  <2>2. \E e \in 1..latest : wire' = <<e>>
    BY <1>0, <1>9, SendMoves
  <2>. QED  BY <1>0, <2>1, <2>2 DEF PlaceInv
<1>10. CASE PageRead
  <2>1. wire' = <<>> /\ UNCHANGED <<latest, transport, wire>> /\ End("off")
    BY <1>0, <1>10, PageReadMoves DEF PlaceInv
  <2>. QED  BY <1>c, <2>1
<1>11. CASE Apply
  <2>1. /\ wire' = <<>>
        /\ UNCHANGED <<latest, pc, buffer, lagged, transport, unsent, queue, sent, overflow, after, base>>
    BY <1>11, ApplyMoves
  <2>. QED  BY <1>0, <2>1 DEF PlaceInv
<1>12. CASE Resync
  BY <1>0, <1>12, ResyncMoves DEF PlaceInv
<1>13. CASE Drop
  BY <1>c, <1>13, DropMoves
<1>14. CASE UNCHANGED vars
  BY <1>b, <1>14 DEF vars
<1>. QED  BY <1>1, <1>2, <1>3, <1>4, <1>5, <1>6, <1>7, <1>8, <1>9, <1>10, <1>11, <1>12, <1>13, <1>14 DEF Steps

LEMMA StageStep == TypeOK /\ StageInv /\ [Next]_vars => StageInv'
BY BoundsStep, PendingStep, PlaceStep DEF StageInv

-----------------------------------------------------------------------------
(* The order of what is sent. *)

\* What was sent, and what the rest of the replay holds.
SentInv ==
    /\ Orderly(sent, overtaken)
    /\ \A e \in ToSet(sent) : after < e /\ e <= latest
    /\ Orderly(unsent, {})
    /\ \A e \in ToSet(unsent) : after < e /\ e <= base /\ \A x \in ToSet(sent) : x < e
    /\ pc = "replaying" => \A x \in ToSet(sent) : x <= base

QueueInv ==
    /\ Orderly(queue, overtaken)
    /\ \A e \in ToSet(queue) : base < e /\ Follows(ToSet(sent), e, overtaken)

\* What may yet come through the channel.
ChannelInv ==
    /\ Orderly(buffer, overtaken)
    /\ \A e \in ToSet(buffer) : base < e => Follows(ToSet(sent) \cup ToSet(queue), e, overtaken)
    /\ \A e \in InFlight : /\ Follows(ToSet(buffer), e, overtaken)
                           /\ base < e => Follows(ToSet(sent) \cup ToSet(queue), e, overtaken)

OrderInv == SentInv /\ QueueInv /\ ChannelInv

LEMMA OrderlyNone == \A late : Orderly(<<>>, late)
BY DEF Orderly

LEMMA FollowsParts ==
  \A S, T, e, late : /\ Follows(S \cup T, e, late) <=> Follows(S, e, late) /\ Follows(T, e, late)
                     /\ S \subseteq T /\ Follows(T, e, late) => Follows(S, e, late)
                     /\ Follows({}, e, late)
BY DEF Follows

LEMMA OrderInit == Init => OrderInv
<1> SUFFICES ASSUME Init PROVE OrderInv
  OBVIOUS
<1>1. ToSet(buffer) = {} /\ ToSet(queue) = {} /\ ToSet(unsent) = {} /\ ToSet(sent) = {}
  BY SetOfNone DEF Init
<1>2. InFlight = {}
  BY SetOfNone DEF Init, InFlight
<1>. QED  BY <1>1, <1>2, OrderlyNone DEF Init, OrderInv, SentInv, QueueInv, ChannelInv

LEMMA SentStep == TypeOK /\ StageInv /\ OrderInv /\ [Next]_vars => SentInv'
<1> SUFFICES ASSUME TypeOK, StageInv, OrderInv, Steps PROVE SentInv'
  BY NextSteps
<1>0. /\ latest \in Nat /\ after \in Nat /\ base \in Nat /\ sent \in Seq(Event) /\ unsent \in Seq(Event)
      /\ Event \subseteq Nat
  BY Numbers DEF TypeOK
<1>a. /\ Orderly(sent, overtaken) /\ \A e \in ToSet(sent) : after < e /\ e <= latest /\ e \in Nat
      /\ Orderly(unsent, {})
      /\ \A e \in ToSet(unsent) : after < e /\ e <= base /\ \A x \in ToSet(sent) : x < e
      /\ pc = "replaying" => \A x \in ToSet(sent) : x <= base
  BY <1>0, SetOfSome DEF OrderInv, SentInv
<1>b. ASSUME UNCHANGED <<sent, unsent, after, base>>, overtaken \subseteq overtaken', latest' \in Nat,
             latest <= latest', pc' # "replaying" \/ pc = "replaying"
      PROVE  SentInv'
  <2>1. Orderly(sent, overtaken')
    BY <1>a, <1>b, OrderlyMarked
  <2>2. \A e \in ToSet(sent) : e <= latest'
    BY <1>0, <1>a, <1>b
  <2>. QED  BY <1>a, <1>b, <2>1, <2>2 DEF SentInv
<1>c. ASSUME NEW place \in {"off", "told"}, End(place) PROVE SentInv'
  BY <1>c, EndMoves, OrderlyNone DEF SentInv, Listening, Following
<1>1. ASSUME NEW p \in Publisher, Commit(p) PROVE SentInv'
  <2>1. latest' = latest + 1 /\ UNCHANGED <<sent, unsent, after, base, overtaken, pc>>
    BY <1>1, CommitMoves
  <2>2. latest' \in Nat /\ latest <= latest'
    BY <1>0, <2>1
  <2>. QED  BY <1>b, <2>1, <2>2
<1>2. ASSUME NEW p \in Publisher, NEW e \in Event, pending[p] = <<e>>, Publish(p) PROVE SentInv'
  <2>1. overtaken \subseteq overtaken' /\ UNCHANGED <<latest, sent, unsent, after, base, pc>>
    BY <1>2, PublishMoves
  <2>. QED  BY <1>0, <1>b, <2>1
<1>3. CASE Prune
  BY <1>0, <1>b, <1>3, PruneMoves
<1>4. CASE (Subscribe \/ ReadLatest \/ CheckCursor \/ PageEarliest \/ PageLatest) /\ ~End("told")
  <2>1. pc \notin Following /\ pc' \notin Following /\ UNCHANGED <<latest, sent, unsent, base, overtaken>>
    BY <1>4, ReadMoves DEF Following
  <2>2. sent = <<>> /\ unsent = <<>>
    BY <2>1 DEF StageInv, PlaceInv
  <2>. QED  BY <2>1, <2>2, SetOfNone, OrderlyNone DEF SentInv, Following
<1>5. CASE (CheckCursor \/ Replay \/ SendResync \/ PageLatest) /\ End("told")
  BY <1>c, <1>5
<1>6. CASE Replay /\ ~End("told")
  <2>1. /\ pc = "ready" /\ UNCHANGED <<latest, sent, after, overtaken>> /\ base' \in Nat
        /\ unsent' \in Seq(Event) /\ ToSet(unsent') \subseteq Later(after)
        /\ \A i, j \in 1..Len(unsent') : j < i => unsent'[j] < unsent'[i]
        /\ \A e \in ToSet(unsent') : e <= base'
    BY <1>6, ReplayMoves
  <2>2. sent = <<>>
    BY <2>1 DEF StageInv, PlaceInv, Following
  <2>3. \A e \in ToSet(unsent') : after < e
    BY <2>1 DEF Later
  <2>4. Orderly(unsent', {})
    <3> SUFFICES ASSUME NEW i \in 1..Len(unsent'), NEW j \in 1..Len(unsent'), j < i
                 PROVE  unsent'[j] # unsent'[i] /\ unsent'[j] < unsent'[i]
      BY DEF Orderly
    <3>1. unsent'[i] \in Event /\ unsent'[j] \in Event /\ unsent'[j] < unsent'[i]
      BY <2>1, SetOfSome
    <3>2. \A m, n \in Event : m < n => m # n
      BY <1>0
    <3>. QED  BY <3>1, <3>2
  <2>. QED  BY <2>1, <2>2, <2>3, <2>4, SetOfNone, OrderlyNone DEF SentInv
<1>7. CASE SendReplayed
  <2>1. pc = "replaying" /\ UNCHANGED <<latest, after, base, overtaken>> /\ pc' \in {"replaying", "live"}
    BY <1>7, SendReplayedMoves
  <2>2. CASE UNCHANGED <<unsent, sent>>
    BY <1>0, <1>b, <2>1, <2>2
  <2>3. CASE unsent # <<>> /\ unsent' = Tail(unsent)
    <3>1. PICK h \in Event : h = Head(unsent) /\ h \in ToSet(unsent)
      BY <1>0, <2>3, SetOfRest
    <3>a. Orderly(Tail(unsent), {}) /\ \A e \in ToSet(Tail(unsent)) : Follows({Head(unsent)}, e, {})
      BY <1>0, <1>a, <2>3, OrderlyRest
    <3>b. ToSet(Tail(unsent)) \subseteq ToSet(unsent)
      BY <1>0, <2>3, SetOfRest
    <3>2. /\ Orderly(unsent', {}) /\ \A e \in ToSet(unsent') : Follows({h}, e, {})
          /\ ToSet(unsent') \subseteq ToSet(unsent)
      BY <2>3, <3>1, <3>a, <3>b
    <3>3. \A e \in ToSet(unsent') : h < e /\ after < e /\ e <= base /\ \A x \in ToSet(sent) : x < e
      BY <1>a, <3>2 DEF Follows
    <3>4. after < h /\ h <= base /\ h <= latest /\ \A x \in ToSet(sent) : x < h
      BY <1>a, <3>1 DEF StageInv, BoundsInv
    <3>5. CASE sent' = sent
      BY <1>a, <2>1, <3>2, <3>3, <3>5 DEF SentInv
    <3>6. CASE sent' = Append(sent, h) /\ ToSet(sent') = ToSet(sent) \cup {h}
      <4>1. Follows(ToSet(sent), h, overtaken)
        BY <1>0, <1>a, <3>4 DEF Follows
      <4>2. Orderly(sent', overtaken)
        BY <1>0, <1>a, <3>6, <4>1, OrderlyMore
      <4>3. \A e \in ToSet(sent') : after < e /\ e <= latest /\ e <= base
        BY <1>a, <2>1, <3>4, <3>6
      <4>4. \A e \in ToSet(unsent') : after < e /\ e <= base /\ \A x \in ToSet(sent') : x < e
        BY <3>3, <3>6
      <4>. QED  BY <2>1, <3>2, <4>2, <4>3, <4>4 DEF SentInv
    <3>. QED  BY <1>7, <2>3, <3>1, <3>5, <3>6, SendReplayedMoves
  <2>. QED  BY <1>7, <2>2, <2>3, SendReplayedMoves
<1>8. CASE Produce
  BY <1>0, <1>b, <1>8, ProduceMoves
<1>9. CASE Send
  <2>1. /\ pc = "live" /\ queue # <<>> /\ sent' = Append(sent, Head(queue)) /\ Head(queue) \in Event
        /\ ToSet(sent') = ToSet(sent) \cup {Head(queue)} /\ Head(queue) \in ToSet(queue)
        /\ UNCHANGED <<latest, pc, after, base, unsent, overtaken>>
    BY <1>9, SendMoves
  <2>2. unsent = <<>> /\ after <= base /\ Head(queue) <= latest
    BY <1>0, <2>1 DEF StageInv, PlaceInv, BoundsInv, Following
  <2>3. base < Head(queue) /\ Follows(ToSet(sent), Head(queue), overtaken)
    BY <2>1 DEF OrderInv, QueueInv
  <2>4. Orderly(sent', overtaken)
    BY <1>0, <1>a, <2>1, <2>3, OrderlyMore
  <2>5. after < Head(queue)
    <3>1. Head(queue) \in Nat
      BY <1>0, <2>1
    <3>. QED  BY <1>0, <2>2, <2>3, <3>1
  <2>6. \A e \in ToSet(sent') : after < e /\ e <= latest
    BY <1>a, <2>1, <2>2, <2>5
  <2>. QED  BY <1>a, <2>1, <2>2, <2>4, <2>6, SetOfNone, OrderlyNone DEF SentInv
<1>10. CASE PageRead
  BY <1>c, <1>10, PageReadMoves
<1>11. CASE Apply
  <2>1. UNCHANGED <<latest, sent, unsent, after, base, overtaken, pc>>
    BY <1>11, ApplyMoves
  <2>. QED  BY <1>0, <1>b, <2>1
<1>12. CASE Resync
  BY <1>0, <1>b, <1>12, ResyncMoves
<1>13. CASE Drop
  BY <1>c, <1>13, DropMoves
<1>14. CASE UNCHANGED vars
  BY <1>0, <1>b, <1>14 DEF vars
<1>. QED  BY <1>1, <1>2, <1>3, <1>4, <1>5, <1>6, <1>7, <1>8, <1>9, <1>10, <1>11, <1>12, <1>13, <1>14 DEF Steps

LEMMA QueueStep == TypeOK /\ StageInv /\ OrderInv /\ [Next]_vars => QueueInv'
<1> SUFFICES ASSUME TypeOK, StageInv, OrderInv, Steps PROVE QueueInv'
  BY NextSteps
<1>0. queue \in Seq(Event) /\ buffer \in Seq(Event)
  BY DEF TypeOK
<1>a. /\ Orderly(queue, overtaken)
      /\ \A e \in ToSet(queue) : base < e /\ Follows(ToSet(sent), e, overtaken)
  BY DEF OrderInv, QueueInv
<1>b. ASSUME UNCHANGED <<queue, base, sent>>, overtaken \subseteq overtaken' PROVE QueueInv'
  <2>1. Orderly(queue, overtaken') /\ \A e \in ToSet(queue) : Follows(ToSet(sent), e, overtaken')
    BY <1>a, <1>b, OrderlyMarked
  <2>. QED  BY <1>a, <1>b, <2>1 DEF QueueInv
<1>c. ASSUME queue' = <<>> PROVE QueueInv'
  BY <1>c, SetOfNone, OrderlyNone DEF QueueInv
<1>d. ASSUME NEW place \in {"off", "told"}, End(place) PROVE QueueInv'
  BY <1>c, <1>d, EndMoves
<1>1. ASSUME NEW p \in Publisher, Commit(p) PROVE QueueInv'
  BY <1>b, <1>1, CommitMoves
<1>2. ASSUME NEW p \in Publisher, NEW e \in Event, pending[p] = <<e>>, Publish(p) PROVE QueueInv'
  <2>1. overtaken \subseteq overtaken' /\ UNCHANGED <<queue, base, sent>>
    BY <1>2, PublishMoves
  <2>. QED  BY <1>b, <2>1
<1>3. CASE Prune
  BY <1>b, <1>3, PruneMoves
<1>4. CASE (Subscribe \/ ReadLatest \/ CheckCursor \/ PageEarliest \/ PageLatest) /\ ~End("told")
  BY <1>b, <1>4, ReadMoves
<1>5. CASE (CheckCursor \/ Replay \/ SendResync \/ PageLatest) /\ End("told")
  BY <1>d, <1>5
<1>6. CASE Replay /\ ~End("told")
  <2>1. pc = "ready" /\ queue' = queue
    BY <1>6, ReplayMoves
  <2>. QED  BY <1>c, <2>1 DEF StageInv, PlaceInv, Following
<1>7. CASE SendReplayed
  <2>1. pc = "replaying" /\ queue' = queue
    BY <1>7, SendReplayedMoves
  <2>. QED  BY <1>c, <2>1 DEF StageInv, PlaceInv
<1>8. CASE Produce
  <2>1. UNCHANGED <<base, sent, overtaken>>
    BY <1>8, ProduceMoves
  <2>2. CASE queue' = queue
    BY <1>b, <2>1, <2>2
  <2>3. CASE /\ queue' = Append(queue, Head(buffer)) /\ ToSet(queue') = ToSet(queue) \cup {Head(buffer)}
             /\ base < Head(buffer) /\ Head(buffer) \in Event /\ Head(buffer) \in ToSet(buffer)
    <3>1. Follows(ToSet(sent) \cup ToSet(queue), Head(buffer), overtaken)
      BY <2>3 DEF OrderInv, ChannelInv
    <3>2. Follows(ToSet(sent), Head(buffer), overtaken) /\ Follows(ToSet(queue), Head(buffer), overtaken)
      BY <3>1, FollowsParts
    <3>3. Orderly(queue', overtaken)
      BY <1>0, <1>a, <2>3, <3>2, OrderlyMore
    <3>. QED  BY <1>a, <2>1, <2>3, <3>2, <3>3 DEF QueueInv
  <2>. QED  BY <1>8, <2>2, <2>3, ProduceMoves
<1>9. CASE Send
  <2>1. /\ queue # <<>> /\ queue' = Tail(queue) /\ ToSet(sent') = ToSet(sent) \cup {Head(queue)}
        /\ ToSet(queue') \subseteq ToSet(queue) /\ UNCHANGED <<base, overtaken>>
    BY <1>9, SendMoves
  <2>2. Orderly(queue', overtaken) /\ \A e \in ToSet(queue') : Follows({Head(queue)}, e, overtaken)
    BY <1>0, <1>a, <2>1, OrderlyRest
  <2>3. \A e \in ToSet(queue') : base < e /\ Follows(ToSet(sent), e, overtaken)
    BY <1>a, <2>1
  <2>4. \A e \in ToSet(queue') : Follows(ToSet(sent'), e, overtaken)
    BY <2>1, <2>2, <2>3, FollowsParts
  <2>. QED  BY <2>1, <2>2, <2>3, <2>4 DEF QueueInv
<1>10. CASE PageRead
  BY <1>d, <1>10, PageReadMoves
<1>11. CASE Apply
  <2>1. UNCHANGED <<queue, sent, base, overtaken>>
    BY <1>11, ApplyMoves
  <2>. QED  BY <1>b, <2>1
<1>12. CASE Resync
  BY <1>b, <1>12, ResyncMoves
<1>13. CASE Drop
  BY <1>d, <1>13, DropMoves
<1>14. CASE UNCHANGED vars
  BY <1>b, <1>14 DEF vars
<1>. QED  BY <1>1, <1>2, <1>3, <1>4, <1>5, <1>6, <1>7, <1>8, <1>9, <1>10, <1>11, <1>12, <1>13, <1>14 DEF Steps

LEMMA ChannelStep == TypeOK /\ StageInv /\ OrderInv /\ [Next]_vars => ChannelInv'
<1> SUFFICES ASSUME TypeOK, StageInv, OrderInv, Steps PROVE ChannelInv'
  BY NextSteps
<1>. DEFINE Out == ToSet(sent) \cup ToSet(queue)
<1>0. /\ queue \in Seq(Event) /\ buffer \in Seq(Event) /\ sent \in Seq(Event) /\ latest \in Nat /\ base \in Nat
      /\ Event \subseteq Nat /\ Len(buffer) <= Capacity
  BY Numbers DEF TypeOK
<1>a. /\ Orderly(buffer, overtaken)
      /\ \A e \in ToSet(buffer) : base < e => Follows(Out, e, overtaken)
      /\ \A e \in InFlight : /\ Follows(ToSet(buffer), e, overtaken)
                             /\ base < e => Follows(Out, e, overtaken)
  BY DEF OrderInv, ChannelInv
<1>b. ASSUME UNCHANGED <<pending, buffer, base, overtaken>>, Out' = Out PROVE ChannelInv'
  BY <1>a, <1>b, InFlightKept DEF ChannelInv
<1>c. ASSUME NEW place \in {"off", "told"}, End(place) PROVE ChannelInv'
  BY <1>c, EndMoves, OrderlyNone, FollowsParts DEF ChannelInv
<1>d. ASSUME UNCHANGED <<pending, buffer, overtaken>>, Out' = {} PROVE ChannelInv'
  <2>1. InFlight' = InFlight
    BY <1>d, InFlightKept
  <2>2. \A e : Follows(ToSet(sent') \cup ToSet(queue'), e, overtaken)
    BY <1>d, FollowsParts
  <2>. QED  BY <1>a, <1>d, <2>1, <2>2 DEF ChannelInv
<1>1. ASSUME NEW p \in Publisher, Commit(p) PROVE ChannelInv'
  <2>1. UNCHANGED <<buffer, base, sent, queue, overtaken>> /\ InFlight' = InFlight \cup {latest + 1}
    BY <1>1, CommitMoves
  <2>2. ToSet(buffer) \cup Out \subseteq 1..latest
    <3>1. ToSet(buffer) \subseteq 1..latest /\ ToSet(queue) \subseteq 1..latest
      BY DEF StageInv, BoundsInv
    <3>2. \A e \in ToSet(sent) : e \in Event /\ e <= latest
      BY <1>0, SetOfSome DEF OrderInv, SentInv
    <3>3. \A e \in Event : e <= latest => e \in 1..latest
      BY <1>0, Constants
    <3>. QED  BY <3>1, <3>2, <3>3
  <2>3. \A S \in SUBSET (1..latest) : Follows(S, latest + 1, overtaken)
    BY <1>0 DEF Follows
  <2>4. Follows(ToSet(buffer), latest + 1, overtaken) /\ Follows(Out, latest + 1, overtaken)
    BY <2>2, <2>3
  <2>. QED  BY <1>a, <2>1, <2>4 DEF ChannelInv
<1>2. ASSUME NEW p \in Publisher, NEW e \in Event, pending[p] = <<e>>, Publish(p) PROVE ChannelInv'
  <2>1. UNCHANGED <<base, sent, queue>> /\ InFlight' = InFlight \ {e} /\ e \in InFlight
    BY <1>2, PublishMoves
  <2>2. CASE UNCHANGED <<buffer, overtaken>>
    BY <1>a, <2>1, <2>2 DEF ChannelInv
  <2>3. CASE /\ overtaken' = overtaken \cup {f \in InFlight : f < e}
             /\ buffer' = Append(IF Len(buffer) < Capacity THEN buffer ELSE Tail(buffer), e)
             /\ buffer # <<>> \/ Len(buffer) < Capacity
             /\ ToSet(buffer') \subseteq ToSet(buffer) \cup {e}
    <3>0. overtaken \subseteq overtaken'
      BY <2>3
    <3>1. PICK t \in Seq(Event) : /\ buffer' = Append(t, e) /\ Orderly(t, overtaken)
                                  /\ ToSet(t) \subseteq ToSet(buffer)
      <4>1. CASE Len(buffer) < Capacity
        BY <1>0, <1>a, <2>3, <4>1
      <4>2. CASE ~(Len(buffer) < Capacity)
        BY <1>0, <1>a, <2>3, <4>2, OrderlyRest, SetOfRest
      <4>. QED  BY <4>1, <4>2
    <3>2. Follows(ToSet(t), e, overtaken)
      BY <1>a, <2>1, <3>1, FollowsParts
    <3>3. Orderly(buffer', overtaken')
      BY <3>0, <3>1, <3>2, OrderlyMore, OrderlyMarked
    <3>4. \A f \in ToSet(buffer') : base < f => Follows(Out, f, overtaken')
      <4>1. \A f \in ToSet(buffer') : base < f => Follows(Out, f, overtaken)
        BY <1>a, <2>1, <2>3
      <4>. QED  BY <3>0, <4>1, OrderlyMarked
    <3>5. ASSUME NEW f \in InFlight' PROVE Follows(ToSet(buffer'), f, overtaken')
      <4>1. f \in InFlight /\ f # e /\ f \in Nat /\ e \in Nat
        BY <1>0, <2>1 DEF InFlight
      <4>2. Follows(ToSet(buffer), f, overtaken')
        BY <1>a, <3>0, <4>1, OrderlyMarked
      <4>3. Follows({e}, f, overtaken')
        BY <2>3, <4>1 DEF Follows
      <4>. QED  BY <2>3, <4>2, <4>3, FollowsParts
    <3>6. \A f \in InFlight' : base < f => Follows(Out, f, overtaken')
      <4>1. \A f \in InFlight' : base < f => Follows(Out, f, overtaken)
        BY <1>a, <2>1
      <4>. QED  BY <3>0, <4>1, OrderlyMarked
    <3>. QED  BY <2>1, <3>3, <3>4, <3>5, <3>6 DEF ChannelInv
  <2>. QED  BY <1>2, <2>2, <2>3, PublishMoves
<1>3. CASE Prune
  BY <1>b, <1>3, PruneMoves
<1>4. CASE (Subscribe \/ ReadLatest \/ CheckCursor \/ PageEarliest \/ PageLatest) /\ ~End("told")
  BY <1>b, <1>4, ReadMoves
<1>5. CASE (CheckCursor \/ Replay \/ SendResync \/ PageLatest) /\ End("told")
  BY <1>c, <1>5
<1>6. CASE Replay /\ ~End("told")
  <2>1. pc = "ready" /\ UNCHANGED <<pending, buffer, overtaken, queue, sent>>
    BY <1>6, ReplayMoves
  <2>2. queue = <<>> /\ sent = <<>>
    BY <2>1 DEF StageInv, PlaceInv, Following
  <2>3. ToSet(queue') = {} /\ ToSet(sent') = {}
    BY <2>1, <2>2, SetOfNone
  <2>. QED  BY <1>d, <2>1, <2>3
<1>7. CASE SendReplayed
  <2>1. pc = "replaying" /\ UNCHANGED <<pending, buffer, base, queue, overtaken>>
    BY <1>7, SendReplayedMoves
  <2>2. CASE sent' = sent
    BY <1>b, <2>1, <2>2
  <2>3. CASE Head(unsent) \in ToSet(unsent) /\ ToSet(sent') = ToSet(sent) \cup {Head(unsent)}
    <3>1. Head(unsent) <= base /\ Head(unsent) \in Nat
      BY <1>0, <2>3, SetOfSome DEF OrderInv, SentInv, TypeOK
    <3>2. \A e \in Event : base < e => Follows({Head(unsent)}, e, overtaken)
      BY <1>0, <3>1 DEF Follows
    <3>3. ToSet(buffer) \subseteq Event /\ InFlight \subseteq Event
      BY <1>0, SetOfSome DEF InFlight
    <3>4. Out' = Out \cup {Head(unsent)}
      BY <2>1, <2>3
    <3>5. \A e \in ToSet(buffer) \cup InFlight : base < e => Follows(Out', e, overtaken)
      BY <1>a, <3>2, <3>3, <3>4, FollowsParts
    <3>. QED  BY <1>a, <2>1, <3>5, InFlightKept DEF ChannelInv
  <2>. QED  BY <1>7, <2>2, <2>3, SendReplayedMoves
<1>8. CASE Produce
  <2>1. UNCHANGED <<pending, base, sent, overtaken>>
    BY <1>8, ProduceMoves
  <2>2. CASE UNCHANGED <<buffer, queue>>
    BY <1>b, <2>1, <2>2
  <2>3. CASE /\ buffer # <<>> /\ buffer' = Tail(buffer) /\ ToSet(buffer) = {Head(buffer)} \cup ToSet(buffer')
             /\ ToSet(queue') \in {ToSet(queue), ToSet(queue) \cup {Head(buffer)}}
    <3>1. Orderly(buffer', overtaken) /\ \A e \in ToSet(buffer') : Follows({Head(buffer)}, e, overtaken)
      BY <1>0, <1>a, <2>3, OrderlyRest
    <3>2. \A e \in InFlight : /\ Follows(ToSet(buffer'), e, overtaken)
                              /\ Follows({Head(buffer)}, e, overtaken)
      BY <1>a, <2>3, FollowsParts
    <3>3. Out' \in {Out, Out \cup {Head(buffer)}}
      BY <2>1, <2>3
    <3>4. \A e \in ToSet(buffer') \cup InFlight : base < e => Follows(Out', e, overtaken)
      <4>1. \A e \in ToSet(buffer') \cup InFlight : base < e => Follows(Out, e, overtaken)
        BY <1>a, <2>3
      <4>2. \A e \in ToSet(buffer') \cup InFlight : Follows({Head(buffer)}, e, overtaken)
        BY <3>1, <3>2
      <4>3. CASE Out' = Out
        BY <4>1, <4>3
      <4>4. CASE Out' = Out \cup {Head(buffer)}
        BY <4>1, <4>2, <4>4, FollowsParts
      <4>. QED  BY <3>3, <4>3, <4>4
    <3>. QED  BY <2>1, <3>1, <3>2, <3>4, InFlightKept DEF ChannelInv
  <2>. QED  BY <1>8, <2>2, <2>3, ProduceMoves
<1>9. CASE Send
  <2>1. Out' = Out
    BY <1>9, SendMoves
  <2>. QED  BY <1>b, <1>9, <2>1, SendMoves
<1>10. CASE PageRead
  BY <1>c, <1>10, PageReadMoves
<1>11. CASE Apply
  <2>1. UNCHANGED <<pending, buffer, base, overtaken, sent, queue>>
    BY <1>11, ApplyMoves
  <2>. QED  BY <1>b, <2>1
<1>12. CASE Resync
  BY <1>b, <1>12, ResyncMoves
<1>13. CASE Drop
  BY <1>c, <1>13, DropMoves
<1>14. CASE UNCHANGED vars
  BY <1>b, <1>14 DEF vars
<1>. QED  BY <1>1, <1>2, <1>3, <1>4, <1>5, <1>6, <1>7, <1>8, <1>9, <1>10, <1>11, <1>12, <1>13, <1>14 DEF Steps

LEMMA OrderStep == TypeOK /\ StageInv /\ OrderInv /\ [Next]_vars => OrderInv'
BY SentStep, QueueStep, ChannelStep DEF OrderInv

-----------------------------------------------------------------------------
(* What a read no longer finds is marked. *)

GapInv ==
    /\ pc \in {"ready", "page read"} => Gone(after) \subseteq skipped
    /\ pc = "page latest" => OutsideRetention(after, top) \/ Gone(after) \subseteq skipped

\* A cursor inside the window misses no deleted event.
LEMMA InsideMissesNothing ==
  ASSUME TypeOK, NEW a \in Nat, a # 0, Earliest # 0, ~OutsideRetention(a, Earliest)
  PROVE  Gone(a) = {}
<1>1. Earliest = floor + 1 /\ floor \in Nat
  BY Numbers DEF Earliest
<1>2. a >= floor
  BY <1>1 DEF OutsideRetention
<1>3. \A e \in Event : e \in Nat
  BY Constants
<1>. QED  BY <1>1, <1>2, <1>3 DEF Gone

LEMMA GapInit == Init => GapInv
BY DEF Init, GapInv

LEMMA GapStep == TypeOK /\ StageInv /\ GapInv /\ [Next]_vars => GapInv'
<1> SUFFICES ASSUME TypeOK, StageInv, GapInv, Steps PROVE GapInv'
  BY NextSteps
<1>0. after \in Nat /\ cursor \in Nat /\ floor \in Nat /\ Event \subseteq Nat
  BY Numbers
<1>b. ASSUME UNCHANGED <<pc, after, top, floor, skipped>> PROVE GapInv'
  BY <1>b DEF GapInv, Gone, OutsideRetention
<1>c. ASSUME pc' \notin {"ready", "page read", "page latest"} PROVE GapInv'
  BY <1>c DEF GapInv
<1>d. ASSUME NEW place \in {"off", "told"}, End(place) PROVE GapInv'
  BY <1>c, <1>d, EndMoves
<1>1. ASSUME NEW p \in Publisher, Commit(p) PROVE GapInv'
  BY <1>b, <1>1 DEF Commit, session, history
<1>2. ASSUME NEW p \in Publisher, Publish(p) PROVE GapInv'
  BY <1>b, <1>2 DEF Publish, journal, session
<1>3. CASE Prune
  <2>1. /\ floor' = floor + 1 /\ skipped \subseteq skipped' /\ UNCHANGED <<pc, after, top>>
        /\ pc \in Checked /\ after < floor + 1 => floor + 1 \in skipped'
    BY <1>3 DEF Prune, session
  <2>2. Gone(after)' \subseteq Gone(after) \cup (IF after < floor + 1 THEN {floor + 1} ELSE {})
    <3>1. Gone(after)' = {e \in Event : after < e /\ e <= floor + 1}
      BY <2>1 DEF Gone
    <3>2. \A e \in Event : e <= floor + 1 => e <= floor \/ e = floor + 1
      BY <1>0
    <3>. QED  BY <3>1, <3>2 DEF Gone
  <2>3. pc \in Checked => Gone(after)' \subseteq Gone(after) \cup skipped'
    BY <2>1, <2>2
  <2>. QED  BY <2>1, <2>3 DEF GapInv, Checked, OutsideRetention
<1>4. CASE Subscribe \/ ReadLatest
  BY <1>c, <1>4 DEF Subscribe, ReadLatest
<1>5. CASE CheckCursor /\ ~End("told")
  <2>1. PICK earliest \in {Earliest} \cup (IF "earliest" \in Faults THEN {0} ELSE {}) :
          /\ ~OutsideRetention(after, earliest) /\ pc' = "ready"
          /\ skipped' = IF after # 0 /\ earliest # 0 THEN skipped ELSE skipped \cup Gone(after)
          /\ UNCHANGED <<after, floor>>
    BY <1>5 DEF CheckCursor, journal
  <2>2. Gone(after)' = Gone(after)
    BY <2>1 DEF Gone
  <2>3. CASE after # 0 /\ earliest # 0
    <3>1. earliest = Earliest
      BY <2>1, <2>3
    <3>2. Gone(after) = {}
      BY <1>0, <2>1, <2>3, <3>1, InsideMissesNothing
    <3>. QED  BY <2>1, <2>2, <3>2 DEF GapInv
  <2>4. CASE ~(after # 0 /\ earliest # 0)
    BY <2>1, <2>2, <2>4 DEF GapInv
  <2>. QED  BY <2>3, <2>4
<1>6. CASE PageEarliest
  <2>1. /\ pc' = "page latest" /\ after' = cursor /\ top' = Earliest /\ UNCHANGED floor
        /\ skipped' = IF cursor # 0 /\ Earliest # 0 THEN skipped ELSE skipped \cup Gone(cursor)
    BY <1>6 DEF PageEarliest, journal
  <2>2. Gone(after)' = Gone(cursor) /\ OutsideRetention(after, top)' = OutsideRetention(cursor, Earliest)
    BY <2>1 DEF Gone, OutsideRetention
  <2>3. CASE cursor # 0 /\ Earliest # 0
    <3>1. OutsideRetention(cursor, Earliest) \/ Gone(cursor) = {}
      BY <1>0, <2>3, InsideMissesNothing
    <3>. QED  BY <2>1, <2>2, <3>1 DEF GapInv
  <2>4. CASE ~(cursor # 0 /\ Earliest # 0)
    BY <2>1, <2>2, <2>4 DEF GapInv
  <2>. QED  BY <2>3, <2>4
<1>7. CASE PageLatest /\ ~End("told")
  <2>1. /\ pc = "page latest" /\ pc' = "page read" /\ ~OutsideRetention(after, top)
        /\ UNCHANGED <<after, floor, skipped>>
    BY <1>7 DEF PageLatest, journal, history
  <2>. QED  BY <2>1 DEF GapInv, Gone
<1>8. CASE (CheckCursor \/ Replay \/ SendResync \/ PageLatest) /\ End("told")
  BY <1>d, <1>8
<1>9. CASE (Replay /\ ~End("told")) \/ SendReplayed
  <2>1. pc' \in {"replaying", "live"}
    BY <1>9, ReplayMoves, SendReplayedMoves
  <2>. QED  BY <1>c, <2>1
<1>10. CASE Produce \/ Send
  BY <1>b, <1>10 DEF Produce, Send, journal, history
<1>11. CASE PageRead \/ Drop
  <2>1. End("off")
    BY <1>11 DEF PageRead, Drop
  <2>. QED  BY <1>d, <2>1
<1>12. CASE Apply
  BY <1>b, <1>12 DEF Apply, journal, history
<1>13. CASE Resync
  BY <1>c, <1>13 DEF Resync
<1>14. CASE UNCHANGED vars
  BY <1>b, <1>14 DEF vars
<1>. QED  BY <1>1, <1>2, <1>3, <1>4, <1>5, <1>6, <1>7, <1>8, <1>9, <1>10, <1>11, <1>12, <1>13, <1>14 DEF Steps

-----------------------------------------------------------------------------
(* Every wanted event is somewhere. *)

\* Up to the last event of the replay.
ReplayedInv == pc \in Following =>
    \A e \in Wanted : after < e /\ e <= base => e \in ToSet(sent) \cup ToSet(unsent) \cup skipped

\* Beyond it, as long as the producer follows.
LiveInv == pc \in Following /\ ~lagged /\ ~overflow =>
    \A e \in Wanted : base < e /\ e <= latest =>
        e \in ToSet(sent) \cup skipped \cup ToSet(queue) \cup ToSet(buffer) \cup InFlight

\* Before an event of the queue, for good.
AheadInv == pc \in Following =>
    \A h \in ToSet(queue) : \A e \in Wanted : base < e /\ e < h =>
        e \in ToSet(sent) \cup skipped \cup overtaken \cup ToSet(queue)

CoverInv == ReplayedInv /\ LiveInv /\ AheadInv

LEMMA CoverInit == Init => CoverInv
BY DEF Init, CoverInv, ReplayedInv, LiveInv, AheadInv, Following

\* Where the journal was read, every event above the cursor is found or marked.
LEMMA AllRead ==
  ASSUME TypeOK, Gone(after) \subseteq skipped, NEW e \in Wanted, after < e, e <= latest
  PROVE  e \in Later(after) \cup skipped
<1>1. e \in Event /\ e \in Nat
  BY Numbers
<1>2. e <= floor \/ floor < e
  BY <1>1, Numbers
<1>. QED  BY <1>1, <1>2 DEF Gone, Later

LEMMA CoverStep == TypeOK /\ StageInv /\ OrderInv /\ GapInv /\ CoverInv /\ [Next]_vars => CoverInv'
<1> SUFFICES ASSUME TypeOK, StageInv, OrderInv, GapInv, CoverInv, Steps, pc' \in Following PROVE CoverInv'
  BY NextSteps DEF CoverInv, ReplayedInv, LiveInv, AheadInv
<1>0. /\ latest \in Nat /\ after \in Nat /\ base \in Nat /\ Wanted \subseteq Nat /\ Event \subseteq Nat
      /\ buffer \in Seq(Event)
  BY Numbers DEF TypeOK
<1>a. pc \in Following =>
        /\ \A e \in Wanted : after < e /\ e <= base => e \in ToSet(sent) \cup ToSet(unsent) \cup skipped
        /\ ~lagged /\ ~overflow => \A e \in Wanted : base < e /\ e <= latest =>
             e \in ToSet(sent) \cup skipped \cup ToSet(queue) \cup ToSet(buffer) \cup InFlight
        /\ \A h \in ToSet(queue) : \A e \in Wanted : base < e /\ e < h =>
             e \in ToSet(sent) \cup skipped \cup overtaken \cup ToSet(queue)
  BY DEF CoverInv, ReplayedInv, LiveInv, AheadInv
<1>b. ASSUME UNCHANGED <<pc, latest, pending, after, base, sent, unsent, queue, buffer, lagged, overflow>>,
             skipped \subseteq skipped', overtaken \subseteq overtaken'
      PROVE  CoverInv'
  <2>1. InFlight' = InFlight
    BY <1>b, InFlightKept
  <2>. QED  BY <1>a, <1>b, <2>1 DEF CoverInv, ReplayedInv, LiveInv, AheadInv
<1>c. ASSUME NEW place \in {"off", "told"}, End(place) PROVE CoverInv'
  BY <1>c, EndMoves DEF Listening
<1>1. ASSUME NEW p \in Publisher, Commit(p) PROVE CoverInv'
  <2>1. /\ UNCHANGED <<pc, after, base, sent, unsent, queue, buffer, lagged, overflow, skipped, overtaken>>
        /\ latest' = latest + 1 /\ InFlight' = InFlight \cup {latest + 1}
    BY <1>1, CommitMoves
  <2>2. \A e \in Wanted : e <= latest' => e <= latest \/ e \in InFlight'
    BY <1>0, <2>1
  <2>3. ReplayedInv' /\ AheadInv'
    BY <1>a, <2>1 DEF ReplayedInv, AheadInv
  <2>4. LiveInv'
    BY <1>a, <2>1, <2>2 DEF LiveInv
  <2>. QED  BY <2>3, <2>4 DEF CoverInv
<1>2. ASSUME NEW p \in Publisher, NEW f \in Event, pending[p] = <<f>>, Publish(p) PROVE CoverInv'
  <2>1. /\ UNCHANGED <<pc, latest, after, base, sent, unsent, queue, overflow, skipped>>
        /\ overtaken \subseteq overtaken' /\ InFlight' = InFlight \ {f}
    BY <1>2, PublishMoves
  <2>2. pc \in Listening
    BY <2>1 DEF Listening
  <2>3. ~lagged' => ~lagged /\ ToSet(buffer') = ToSet(buffer) \cup {f}
    BY <1>2, <2>2, PublishMoves
  <2>4. ReplayedInv' /\ AheadInv'
    BY <1>a, <2>1 DEF ReplayedInv, AheadInv
  <2>5. LiveInv'
    BY <1>a, <2>1, <2>3 DEF LiveInv
  <2>. QED  BY <2>4, <2>5 DEF CoverInv
<1>3. CASE Prune
  BY <1>b, <1>3, PruneMoves
<1>4. CASE (Subscribe \/ ReadLatest \/ CheckCursor \/ PageEarliest \/ PageLatest) /\ ~End("told")
  BY <1>4, ReadMoves DEF Following
<1>5. CASE (CheckCursor \/ Replay \/ SendResync \/ PageLatest) /\ End("told")
  BY <1>c, <1>5
<1>6. CASE Replay /\ ~End("told")
  <2>1. /\ pc = "ready" /\ UNCHANGED <<latest, after, queue, overtaken>> /\ base' \in Nat /\ after <= base'
        /\ base' <= latest /\ \A e \in ToSet(unsent') : e <= base'
        /\ skipped \subseteq skipped' /\ Later(after) \subseteq ToSet(unsent') \cup skipped'
    BY <1>6, ReplayMoves
  <2>2. ToSet(queue') = {}
    BY <2>1, SetOfNone DEF StageInv, PlaceInv, Following
  <2>3. ASSUME NEW e \in Wanted, after < e, e <= latest PROVE e \in ToSet(unsent') \cup skipped'
    BY <2>1, <2>3, AllRead DEF GapInv
  <2>4. \A e \in Wanted : e <= base' => e <= latest
    BY <1>0, <2>1
  <2>5. \A e \in Wanted : base' < e => after < e /\ e \notin ToSet(unsent')
    BY <1>0, <2>1
  <2>6. ReplayedInv'
    BY <2>1, <2>3, <2>4 DEF ReplayedInv
  <2>7. LiveInv'
    BY <2>1, <2>3, <2>5 DEF LiveInv
  <2>. QED  BY <2>2, <2>6, <2>7 DEF CoverInv, AheadInv
<1>7. CASE SendReplayed
  <2>1. /\ pc = "replaying" /\ pc' \in {"replaying", "live"}
        /\ UNCHANGED <<latest, pending, buffer, lagged, after, base, queue, overflow, overtaken, skipped>>
    BY <1>7, SendReplayedMoves
  <2>2. ToSet(sent) \subseteq ToSet(sent') /\ \A e \in Wanted : e \in ToSet(unsent) => e \in ToSet(sent') \cup ToSet(unsent')
    BY <1>7, SendReplayedMoves
  <2>3. InFlight' = InFlight /\ pc \in Following
    BY <2>1, InFlightKept DEF Following
  <2>4. ReplayedInv'
    BY <1>a, <2>1, <2>2, <2>3 DEF ReplayedInv
  <2>5. LiveInv' /\ AheadInv'
    BY <1>a, <2>1, <2>2, <2>3 DEF LiveInv, AheadInv
  <2>. QED  BY <2>4, <2>5 DEF CoverInv
<1>8. CASE Produce
  <2>1. /\ pc = "live" /\ ~overflow
        /\ UNCHANGED <<latest, pending, pc, after, base, unsent, sent, overtaken, skipped>>
    BY <1>8, ProduceMoves
  <2>2. InFlight' = InFlight /\ pc \in Following
    BY <2>1, InFlightKept DEF Following
  <2>3. ReplayedInv'
    BY <1>a, <2>1, <2>2 DEF ReplayedInv
  <2>4. CASE overflow' /\ UNCHANGED queue
    BY <1>a, <2>1, <2>2, <2>3, <2>4 DEF CoverInv, LiveInv, AheadInv
  <2>5. CASE /\ ~lagged /\ buffer # <<>> /\ buffer' = Tail(buffer) /\ ToSet(buffer) = {Head(buffer)} \cup ToSet(buffer')
             /\ ~(base < Head(buffer) /\ Head(buffer) \in Wanted) /\ UNCHANGED <<queue, overflow>>
    <3>1. LiveInv'
      BY <1>a, <2>1, <2>2, <2>5 DEF LiveInv
    <3>. QED  BY <1>a, <2>1, <2>2, <2>3, <2>5, <3>1 DEF CoverInv, AheadInv
  <2>6. CASE /\ ~lagged /\ buffer # <<>> /\ buffer' = Tail(buffer) /\ ToSet(buffer) = {Head(buffer)} \cup ToSet(buffer')
             /\ Head(buffer) \in Event /\ ToSet(queue') = ToSet(queue) \cup {Head(buffer)}
    <3>1. LiveInv'
      BY <1>a, <2>1, <2>2, <2>6 DEF LiveInv
    <3>2. \A e \in ToSet(buffer') \cup InFlight : Follows({Head(buffer)}, e, overtaken)
      <4>1. Orderly(buffer, overtaken) /\ \A e \in InFlight : Follows(ToSet(buffer), e, overtaken)
        BY DEF OrderInv, ChannelInv
      <4>2. \A e \in ToSet(Tail(buffer)) : Follows({Head(buffer)}, e, overtaken)
        BY <1>0, <2>6, <4>1, OrderlyRest
      <4>3. \A e \in InFlight : Follows({Head(buffer)}, e, overtaken)
        BY <2>6, <4>1, FollowsParts
      <4>. QED  BY <2>6, <4>2, <4>3
    <3>3. ASSUME NEW e \in Wanted, base < e, e < Head(buffer)
          PROVE  e \in ToSet(sent) \cup skipped \cup overtaken \cup ToSet(queue)
      <4>1. Head(buffer) <= latest /\ Head(buffer) \in Nat
        BY <1>0, <2>6 DEF StageInv, BoundsInv
      <4>2. e <= latest /\ e \in Nat
        BY <1>0, <3>3, <4>1
      <4>3. e \in ToSet(sent) \cup skipped \cup ToSet(queue) \cup ToSet(buffer) \cup InFlight
        BY <1>a, <2>1, <2>2, <2>6, <3>3, <4>2
      <4>4. e # Head(buffer) /\ ~(Head(buffer) < e)
        BY <3>3, <4>1, <4>2
      <4>5. e \in ToSet(buffer) \cup InFlight => e \in overtaken
        BY <2>6, <3>2, <4>4 DEF Follows
      <4>. QED  BY <4>3, <4>5
    <3>4. AheadInv'
      BY <1>a, <2>1, <2>2, <2>6, <3>3 DEF AheadInv
    <3>. QED  BY <2>3, <3>1, <3>4 DEF CoverInv
  <2>. QED  BY <1>8, <2>4, <2>5, <2>6, ProduceMoves
<1>9. CASE Send
  <2>1. /\ pc = "live" /\ ToSet(queue) = {Head(queue)} \cup ToSet(queue')
        /\ ToSet(sent') = ToSet(sent) \cup {Head(queue)}
        /\ UNCHANGED <<latest, pending, buffer, lagged, pc, after, base, unsent, overflow, overtaken, skipped>>
    BY <1>9, SendMoves
  <2>2. InFlight' = InFlight /\ pc \in Following /\ ToSet(queue') \subseteq ToSet(queue)
    BY <2>1, InFlightKept DEF Following
  <2>3. ReplayedInv'
    BY <1>a, <2>1, <2>2 DEF ReplayedInv
  <2>4. LiveInv'
    BY <1>a, <2>1, <2>2 DEF LiveInv
  <2>5. AheadInv'
    BY <1>a, <2>1, <2>2 DEF AheadInv
  <2>. QED  BY <2>3, <2>4, <2>5 DEF CoverInv
<1>10. CASE PageRead
  BY <1>c, <1>10, PageReadMoves
<1>11. CASE Apply
  <2>1. UNCHANGED <<pc, latest, pending, after, base, sent, unsent, queue, buffer, lagged, overflow, skipped, overtaken>>
    BY <1>11, ApplyMoves
  <2>. QED  BY <1>b, <2>1
<1>12. CASE Resync
  BY <1>12, ResyncMoves DEF Following
<1>13. CASE Drop
  BY <1>c, <1>13, DropMoves
<1>14. CASE UNCHANGED vars
  BY <1>b, <1>14 DEF vars
<1>. QED  BY <1>1, <1>2, <1>3, <1>4, <1>5, <1>6, <1>7, <1>8, <1>9, <1>10, <1>11, <1>12, <1>13, <1>14 DEF Steps

-----------------------------------------------------------------------------
(* What the client knows. *)

\* Known to the client, or marked as sent late or lost without a word.
Accounted == known \cup overtaken \cup skipped

KnownInv ==
    /\ \A e \in Wanted : e <= cursor => e \in Accounted
    /\ pc \notin {"off", "told"} => \A e \in Wanted : e <= after => e \in Accounted
    /\ \A h \in ToSet(wire) : \A e \in Wanted : e < h => e \in Accounted
    /\ pc \in Following => ToSet(sent) \subseteq known \cup ToSet(wire)

LEMMA KnownInit == Init => KnownInv
<1> SUFFICES ASSUME Init PROVE KnownInv
  OBVIOUS
<1>1. \A e \in Wanted : e <= cursor => FALSE
  BY DEF Init
<1>2. ToSet(wire) = {} /\ pc = "off"
  BY SetOfNone DEF Init
<1>. QED  BY <1>1, <1>2 DEF KnownInv, Following

LEMMA KnownStep == TypeOK /\ StageInv /\ OrderInv /\ GapInv /\ CoverInv /\ KnownInv /\ [Next]_vars => KnownInv'
<1> SUFFICES ASSUME TypeOK, StageInv, OrderInv, GapInv, CoverInv, KnownInv, Steps PROVE KnownInv'
  BY NextSteps
<1>0. /\ latest \in Nat /\ after \in Nat /\ base \in Nat /\ cursor \in Nat /\ Wanted \subseteq Nat \ {0}
      /\ Event \subseteq Nat /\ unsent \in Seq(Event) /\ queue \in Seq(Event)
  BY Numbers, Constants DEF TypeOK
<1>a. /\ \A e \in Wanted : e <= cursor => e \in Accounted
      /\ pc \notin {"off", "told"} => \A e \in Wanted : e <= after => e \in Accounted
      /\ \A h \in ToSet(wire) : \A e \in Wanted : e < h => e \in Accounted
      /\ pc \in Following => ToSet(sent) \subseteq known \cup ToSet(wire)
  BY DEF KnownInv
<1>b. ASSUME UNCHANGED <<pc, after, cursor, known, wire, sent>>, overtaken \subseteq overtaken',
             skipped \subseteq skipped'
      PROVE  KnownInv'
  <2>1. Accounted \subseteq Accounted'
    BY <1>b DEF Accounted
  <2>. QED  BY <1>a, <1>b, <2>1 DEF KnownInv
<1>c. ASSUME pc' \in {"off", "told"}, ToSet(wire') \subseteq ToSet(wire), Accounted \subseteq Accounted',
             \A e \in Wanted : e <= cursor' => e \in Accounted'
      PROVE  KnownInv'
  BY <1>a, <1>c DEF KnownInv, Following
<1>1. ASSUME NEW p \in Publisher, Commit(p) PROVE KnownInv'
  BY <1>b, <1>1, CommitMoves
<1>2. ASSUME NEW p \in Publisher, NEW e \in Event, pending[p] = <<e>>, Publish(p) PROVE KnownInv'
  <2>1. UNCHANGED <<pc, after, cursor, known, wire, sent, skipped>> /\ overtaken \subseteq overtaken'
    BY <1>2, PublishMoves
  <2>. QED  BY <1>b, <2>1
<1>3. CASE Prune
  BY <1>b, <1>3, PruneMoves
<1>4. CASE (Subscribe \/ ReadLatest \/ CheckCursor \/ PageEarliest \/ PageLatest) /\ ~End("told")
  <2>1. /\ pc' \notin Following /\ UNCHANGED <<cursor, known, wire, overtaken>> /\ skipped \subseteq skipped'
        /\ after' = cursor \/ (after' = after /\ pc \notin {"off", "told"})
    BY <1>4, ReadMoves DEF Following
  <2>2. Accounted \subseteq Accounted'
    BY <2>1 DEF Accounted
  <2>. QED  BY <1>a, <2>1, <2>2 DEF KnownInv
<1>5. CASE (CheckCursor \/ Replay \/ SendResync \/ PageLatest) /\ End("told")
  <2>1. UNCHANGED <<known, wire, cursor, overtaken>> /\ pc' = "told"
    BY <1>5, EndSteps, EndMoves
  <2>2. skipped' = skipped
    BY <1>5 DEF CheckCursor, Replay, SendResync, PageLatest, End, history
  <2>3. Accounted' = Accounted
    BY <2>1, <2>2 DEF Accounted
  <2>. QED  BY <1>a, <1>c, <2>1, <2>3
<1>6. CASE Replay /\ ~End("told")
  <2>1. /\ pc = "ready" /\ UNCHANGED <<cursor, known, wire, overtaken, after, sent>> /\ skipped \subseteq skipped'
    BY <1>6, ReplayMoves
  <2>2. Accounted \subseteq Accounted'
    BY <2>1 DEF Accounted
  <2>3. ToSet(sent') = {}
    BY <2>1, SetOfNone DEF StageInv, PlaceInv, Following
  <2>. QED  BY <1>a, <2>1, <2>2, <2>3 DEF KnownInv
<1>7. ASSUME NEW h \in Nat, pc \in Following, pc' = pc, wire = <<>>, wire' = <<h>>, ToSet(sent') = ToSet(sent) \cup {h},
             UNCHANGED <<cursor, known, overtaken, skipped, after>>,
             \A e \in Wanted : after < e /\ e < h => e \in ToSet(sent) \cup skipped \cup overtaken
      PROVE  KnownInv'
  <2>1. Accounted' = Accounted
    BY <1>7 DEF Accounted
  <2>2. ToSet(wire') = {h} /\ ToSet(wire) = {}
    BY <1>7, SetOfOne, SetOfNone
  <2>3. ToSet(sent) \subseteq known
    BY <1>7, <1>a, <2>2
  <2>4. pc \notin {"off", "told"}
    BY <1>7 DEF Following
  <2>5. ASSUME NEW e \in Wanted, e < h PROVE e \in Accounted
    <3>1. e <= after \/ after < e
      BY <1>0
    <3>2. e <= after => e \in Accounted
      BY <1>a, <2>4
    <3>3. after < e => e \in known \cup skipped \cup overtaken
      BY <1>7, <2>3, <2>5
    <3>. QED  BY <3>1, <3>2, <3>3 DEF Accounted
  <2>. QED  BY <1>7, <1>a, <2>1, <2>2, <2>3, <2>4, <2>5 DEF KnownInv
<1>8. CASE SendReplayed
  <2>1. /\ pc = "replaying" /\ wire = <<>> /\ UNCHANGED <<cursor, known, overtaken, skipped, after, base>>
    BY <1>8, SendReplayedMoves
  <2>2. CASE UNCHANGED <<wire, sent>>
    <3>1. Accounted' = Accounted /\ pc' \notin {"off", "told"}
      BY <1>8, <2>1, SendReplayedMoves DEF Accounted
    <3>. QED  BY <1>a, <2>1, <2>2, <3>1 DEF KnownInv, Following
  <2>3. CASE /\ unsent # <<>> /\ wire' = <<Head(unsent)>> /\ pc' = pc
             /\ ToSet(sent') = ToSet(sent) \cup {Head(unsent)}
    <3>1. PICK h \in Event : h = Head(unsent) /\ ToSet(unsent) = {h} \cup ToSet(Tail(unsent))
      BY <1>0, <2>3, SetOfRest
    <3>2. Orderly(unsent, {}) /\ h <= base
      BY <3>1 DEF OrderInv, SentInv
    <3>3. \A e \in ToSet(Tail(unsent)) : Follows({h}, e, {})
      BY <1>0, <2>3, <3>1, <3>2, OrderlyRest
    <3>4. \A e \in ToSet(Tail(unsent)) : h < e
      BY <3>3 DEF Follows
    <3>5. ASSUME NEW e \in Wanted, after < e, e < h PROVE e \in ToSet(sent) \cup skipped
      <4>1. e \in Nat /\ h \in Nat
        BY <1>0
      <4>2. e <= base /\ e # h /\ ~(h < e)
        BY <1>0, <3>2, <3>5, <4>1
      <4>3. e \in ToSet(sent) \cup ToSet(unsent) \cup skipped
        BY <2>1, <3>5, <4>2 DEF CoverInv, ReplayedInv, Following
      <4>. QED  BY <3>1, <3>4, <4>2, <4>3
    <3>6. h \in Nat /\ pc \in Following
      BY <1>0, <2>1 DEF Following
    <3>. QED  BY <1>7, <2>1, <2>3, <3>1, <3>5, <3>6
  <2>. QED  BY <1>8, <2>2, <2>3, SendReplayedMoves
<1>9. CASE Produce
  BY <1>b, <1>9, ProduceMoves
<1>10. CASE Send
  <2>1. /\ pc = "live" /\ wire = <<>> /\ queue # <<>> /\ wire' = <<Head(queue)>>
        /\ ToSet(sent') = ToSet(sent) \cup {Head(queue)}
        /\ UNCHANGED <<pc, cursor, known, overtaken, skipped, after>>
    BY <1>10, SendMoves
  <2>2. PICK h \in Event : h = Head(queue) /\ ToSet(queue) = {h} \cup ToSet(Tail(queue))
    BY <1>0, <2>1, SetOfRest
  <2>3. \A e \in ToSet(Tail(queue)) : Follows({h}, e, overtaken)
    <3>1. Orderly(queue, overtaken)
      BY DEF OrderInv, QueueInv
    <3>. QED  BY <1>0, <2>1, <2>2, <3>1, OrderlyRest
  <2>4. ToSet(unsent) = {} /\ pc \in Following
    BY <2>1, SetOfNone DEF StageInv, PlaceInv, Following
  <2>5. ASSUME NEW e \in Wanted, after < e, e < h PROVE e \in ToSet(sent) \cup skipped \cup overtaken
    <3>1. e \in Nat /\ h \in Nat
      BY <1>0
    <3>2. CASE e <= base
      BY <2>4, <2>5, <3>2 DEF CoverInv, ReplayedInv
    <3>3. CASE base < e
      <4>1. e \in ToSet(sent) \cup skipped \cup overtaken \cup ToSet(queue)
        BY <2>2, <2>4, <2>5, <3>3 DEF CoverInv, AheadInv
      <4>2. e # h /\ ~(h < e)
        BY <2>5, <3>1
      <4>. QED  BY <2>2, <2>3, <4>1, <4>2 DEF Follows
    <3>. QED  BY <1>0, <3>1, <3>2, <3>3
  <2>6. h \in Nat
    BY <1>0
  <2>. QED  BY <1>7, <2>1, <2>2, <2>4, <2>5, <2>6
<1>11. CASE PageRead
  <2>1. /\ pc = "page read" /\ pc' = "off" /\ known \subseteq known' /\ UNCHANGED <<overtaken, skipped, wire>>
        /\ cursor' \in Nat /\ cursor' <= latest /\ \A e \in Later(after) : e <= cursor' => e \in known'
    BY <1>11, PageReadMoves, EndMoves
  <2>2. Accounted \subseteq Accounted'
    BY <2>1 DEF Accounted
  <2>3. ASSUME NEW e \in Wanted, e <= cursor' PROVE e \in Accounted'
    <3>1. CASE e <= after
      BY <1>a, <2>1, <2>2, <3>1
    <3>2. CASE after < e
      <4>0. e \in Nat /\ cursor' \in Nat /\ cursor' <= latest
        BY <1>0, <2>1
      <4>1. e <= latest
        BY <1>0, <2>3, <4>0
      <4>2. e \in Later(after) \cup skipped
        BY <2>1, <3>2, <4>1, AllRead DEF GapInv
      <4>. QED  BY <2>1, <2>3, <4>2 DEF Accounted
    <3>. QED  BY <1>0, <3>1, <3>2
  <2>. QED  BY <1>c, <2>1, <2>2, <2>3
<1>12. CASE Apply
  <2>1. PICK h \in 1..latest :
           /\ wire = <<h>> /\ wire' = <<>> /\ known' = known \cup {h} /\ cursor' = h
           /\ UNCHANGED <<pc, after, sent, overtaken, skipped>>
    BY <1>12, ApplyMoves
  <2>2. ToSet(wire) = {h} /\ ToSet(wire') = {}
    BY <2>1, SetOfOne, SetOfNone
  <2>3. Accounted' = Accounted \cup {h}
    BY <2>1 DEF Accounted
  <2>4. \A e \in Wanted : e <= cursor' => e \in Accounted'
    <3>1. \A e \in Wanted : e <= h => e < h \/ e = h
      BY <1>0
    <3>. QED  BY <1>a, <2>1, <2>2, <2>3, <3>1
  <2>. QED  BY <1>a, <2>1, <2>2, <2>3, <2>4 DEF KnownInv
<1>13. CASE Resync
  <2>1. /\ pc' = "off" /\ known' = 1..latest /\ cursor' \in {0, latest} /\ UNCHANGED <<wire, overtaken, skipped>>
    BY <1>13, ResyncMoves
  <2>2. known \subseteq 1..latest
    BY DEF StageInv, BoundsInv
  <2>3. Accounted \subseteq Accounted'
    BY <2>1, <2>2 DEF Accounted
  <2>4. \A e \in Wanted : e <= cursor' => e \in known'
    BY <1>0, <2>1
  <2>. QED  BY <1>c, <2>1, <2>3, <2>4 DEF Accounted
<1>14. CASE Drop
  <2>1. /\ pc' = "off" /\ wire' = <<>> /\ UNCHANGED <<cursor, known, overtaken, skipped>>
    BY <1>14, DropMoves, EndMoves
  <2>2. Accounted' = Accounted /\ ToSet(wire') = {}
    BY <2>1, SetOfNone DEF Accounted
  <2>. QED  BY <1>a, <1>c, <2>1, <2>2
<1>15. CASE UNCHANGED vars
  BY <1>b, <1>15 DEF vars
<1>. QED  BY <1>1, <1>2, <1>3, <1>4, <1>5, <1>6, <1>8, <1>9, <1>10, <1>11, <1>12, <1>13, <1>14, <1>15 DEF Steps

-----------------------------------------------------------------------------
(* The inductive invariant and what follows. *)

IInv == TypeOK /\ StageInv /\ OrderInv /\ GapInv /\ CoverInv /\ KnownInv

\* Types, stages, order, gaps, cover and knowledge together are inductive.
THEOREM StreamInductive == Spec => []IInv
<1>1. Init => IInv
  BY TypeInit, StageInit, OrderInit, GapInit, CoverInit, KnownInit DEF IInv
<1>2. IInv /\ [Next]_vars => IInv'
  BY TypeStep, StageStep, OrderStep, GapStep, CoverStep, KnownStep DEF IInv
<1>. QED  BY <1>1, <1>2, PTL DEF Spec

\* The seam between the replay and the live stream has no hole: whatever the
\* order of publications and reads, a session that has not given up has sent
\* every wanted event above its cursor or still holds it somewhere, but for the
\* events that retention or a failed read took from the replay.
THEOREM StreamOwesNothing == Spec => []SessionOwesNothing
<1>1. IInv => SessionOwesNothing
  <2> SUFFICES ASSUME IInv, pc \in Following, ~lagged, ~overflow, NEW e \in Wanted, after < e, e <= latest
               PROVE  e \in ToSet(sent) \cup skipped \/ Waiting(e)
    BY DEF SessionOwesNothing
  <2>1. e <= base \/ base < e
    BY Numbers DEF IInv
  <2>2. CASE e <= base
    BY <2>2 DEF IInv, CoverInv, ReplayedInv, Waiting
  <2>3. CASE base < e
    BY <2>3 DEF IInv, CoverInv, LiveInv, Waiting, InFlight
  <2>. QED  BY <2>1, <2>2, <2>3
<1>. QED  BY <1>1, StreamInductive, PTL

\* The replay and forward_live_events: no event is sent twice on one connection,
\* none at or below the cursor, and none after a later one unless its thread
\* published it late.
THEOREM StreamInOrder == Spec => []OnceAndInOrder
<1>1. IInv => OnceAndInOrder
  <2> SUFFICES ASSUME IInv, NEW i \in 1..Len(sent)
               PROVE  /\ after < sent[i]
                      /\ \A j \in 1..(i - 1) : sent[j] # sent[i] /\ (sent[j] < sent[i] \/ sent[i] \in overtaken)
    BY DEF OnceAndInOrder
  <2>1. sent \in Seq(Event) /\ Len(sent) \in Nat
    BY DEF IInv, TypeOK
  <2>2. after < sent[i]
    BY <2>1, SetOfSome DEF IInv, OrderInv, SentInv
  <2>3. \A j \in 1..(i - 1) : j \in 1..Len(sent) /\ j < i
    BY <2>1
  <2>4. Orderly(sent, overtaken)
    BY DEF IInv, OrderInv, SentInv
  <2>. QED  BY <2>2, <2>3, <2>4 DEF Orderly
<1>. QED  BY <1>1, StreamInductive, PTL

\* Through lost connections, overflows, deaths, retention and failed reads, the
\* cursor of a client never passes an event that it neither knows nor was
\* marked as sent late or lost by a read.
THEOREM StreamMissesNothing == Spec => []MissesNothing
<1>1. IInv => MissesNothing
  BY DEF IInv, KnownInv, Accounted, MissesNothing
<1>. QED  BY <1>1, StreamInductive, PTL

\* Every variable keeps its type; the channel and the queue keep their bounds.
THEOREM StreamTypes == Spec => []TypeOK
<1>1. IInv => TypeOK
  BY DEF IInv
<1>. QED  BY <1>1, StreamInductive, PTL
=============================================================================
