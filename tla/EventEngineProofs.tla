-------------------------- MODULE EventEngineProofs --------------------------
(***************************************************************************)
(* Proofs about EventEngine, for any threads, any size of the channel and  *)
(* of the replayed batches, and any bounds.                                *)
(***************************************************************************)
EXTENDS EventEngine, SequenceTheorems, TLAPS

-----------------------------------------------------------------------------
(* Helpers. *)

LEMMA AfterProperties ==
  ASSUME NEW e \in Nat, NEW n \in Nat, e + n <= MaxEvents
  PROVE  /\ After(e, n) \in Seq(Event)
         /\ Len(After(e, n)) = n
         /\ \A i \in 1..n : After(e, n)[i] = e + i
<1>0. MaxEvents \in Nat
  BY ConstantsAssumption
<1>1. \A i \in 1..n : e + i \in Event
  BY <1>0 DEF Event
<1>. QED
  BY <1>1 DEF After

LEMMA SmallerGreater ==
  ASSUME NEW a \in Nat, NEW b \in Nat
  PROVE  /\ Greater(a, b) \in Nat /\ Greater(a, b) >= a /\ Greater(a, b) >= b
         /\ Greater(a, b) \in {a, b}
         /\ Smaller(a, b) \in Nat /\ Smaller(a, b) <= a /\ Smaller(a, b) <= b
         /\ Smaller(a, b) \in {a, b}
BY DEF Greater, Smaller

\* A query of the replay reads at least one event and none past the end.
LEMMA BatchSize ==
  ASSUME NEW c \in Nat, NEW l \in Nat, c < l
  PROVE  \E n \in Nat : n = Smaller(Batch, l - c) /\ n # 0 /\ c + n <= l
<1>1. Batch \in Nat \ {0} /\ l - c \in Nat \ {0}
  BY ConstantsAssumption
<1>2. Smaller(Batch, l - c) \in Nat \ {0} /\ Smaller(Batch, l - c) <= l - c
  BY <1>1 DEF Smaller
<1>. QED  BY <1>2

\* The rest of a non-empty sequence.
LEMMA HeadTail ==
  ASSUME NEW S, NEW s \in Seq(S), s # <<>>
  PROVE  /\ Head(s) \in S /\ Head(s) = s[1] /\ Len(s) \in Nat \ {0}
         /\ Tail(s) \in Seq(S)
         /\ Len(Tail(s)) = Len(s) - 1
         /\ \A i \in 1..Len(Tail(s)) : Tail(s)[i] = s[i + 1]
BY HeadTailProperties, EmptySeq, LenProperties

\* Saving a cursor raises the durable one.
LEMMA SavedCursor ==
  ASSUME durable \in 0..MaxEvents, NEW c \in 0..MaxEvents, SaveCursor(c)
  PROVE  durable' \in 0..MaxEvents /\ seeded' = TRUE /\ durable' >= durable /\ durable' >= c
         /\ durable' \in {durable, c}
<1>1. durable \in Nat /\ c \in Nat /\ MaxEvents \in Nat
  BY ConstantsAssumption
<1>2. durable' = Greater(durable, c) /\ seeded' = TRUE
  BY DEF SaveCursor
<1>3. Greater(durable, c) >= durable /\ Greater(durable, c) >= c
      /\ Greater(durable, c) \in {durable, c}
  BY <1>1 DEF Greater
<1>. QED  BY <1>2, <1>3

-----------------------------------------------------------------------------
(* Type correctness. *)

LEMMA InitType == Init => TypeOK
<1> SUFFICES ASSUME Init PROVE TypeOK
  OBVIOUS
<1>1. <<>> \in Seq(Event)
  BY EmptySeq
<1>2. 0 \in 0..MaxEvents /\ 0 \in 0..MaxCrashes
  BY ConstantsAssumption
<1>3. /\ [p \in Publisher |-> <<>>] \in [Publisher -> Seq(Event)]
      /\ [e \in Event |-> 0] \in [Event -> Nat]
  BY <1>1
<1>. QED
  BY <1>1, <1>2, <1>3 DEF Init, TypeOK, Place

LEMMA NextType == TypeOK /\ [Next]_vars => TypeOK'
<1> SUFFICES ASSUME TypeOK, [Next]_vars PROVE TypeOK'
  OBVIOUS
<1>0. /\ latest \in 0..MaxEvents /\ durable \in 0..MaxEvents /\ cursor \in 0..MaxEvents
      /\ seeded \in BOOLEAN /\ lagged \in BOOLEAN
      /\ claimed \subseteq Event
      /\ pending \in [Publisher -> Seq(Event)]
      /\ buffer \in Seq(Event) /\ todo \in Seq(Event)
      /\ pc \in Place
      /\ pc \in {"state", "claim", "run", "save"} => todo # <<>>
      /\ mode \in {"replay", "live"}
      /\ crashes \in 0..MaxCrashes /\ failed \in BOOLEAN
      /\ stateRuns \in [Event -> Nat] /\ eventRuns \in [Event -> Nat]
      /\ origin \in 0..MaxEvents
      /\ overtaken \subseteq Event
  BY DEF TypeOK
<1>1. ASSUME NEW p \in Publisher, Publish(p) PROVE TypeOK'
  <2>1. Head(pending[p]) \in Event /\ Tail(pending[p]) \in Seq(Event)
    BY <1>0, <1>1, HeadTail DEF Publish
  <2>2. pending' \in [Publisher -> Seq(Event)]
    BY <1>0, <1>1, <2>1 DEF Publish
  <2>3. UNCHANGED <<journal, task, crashes, failed, stateRuns, eventRuns, origin>>
    BY <1>1 DEF Publish
  <2>4. overtaken' \subseteq Event
    BY <1>0, <1>1 DEF Publish, Overtakes
  <2>5. buffer' \in Seq(Event) /\ lagged' \in BOOLEAN
    <3>1. CASE pc = "down"
      BY <1>0, <1>1, <3>1 DEF Publish
    <3>2. CASE pc # "down" /\ Len(buffer) < Capacity
      <4>1. buffer' = Append(buffer, Head(pending[p])) /\ lagged' = lagged
        BY <1>1, <3>2 DEF Publish
      <4>. QED  BY <1>0, <2>1, <4>1, AppendProperties
    <3>3. CASE pc # "down" /\ ~(Len(buffer) < Capacity)
      <4>1. buffer' = Append(Tail(buffer), Head(pending[p])) /\ lagged' = TRUE
        BY <1>1, <3>3 DEF Publish
      <4>2. buffer # <<>>
        <5>1. Len(<<>>) = 0 /\ Capacity \in Nat \ {0}
          BY ConstantsAssumption
        <5>. QED  BY <3>3, <5>1
      <4>3. Tail(buffer) \in Seq(Event)
        BY <1>0, <4>2, HeadTail
      <4>. QED  BY <2>1, <4>1, <4>3, AppendProperties
    <3>. QED  BY <3>1, <3>2, <3>3
  <2>. QED  BY <1>0, <2>2, <2>3, <2>4, <2>5 DEF journal, task, TypeOK
<1>2. ASSUME NEW p \in Publisher, NEW n \in 1..MaxCommit, Commit(p, n) PROVE TypeOK'
  <2>1. latest \in Nat /\ n \in Nat /\ latest + n <= MaxEvents /\ MaxEvents \in Nat
    BY <1>0, <1>2, ConstantsAssumption DEF Commit
  <2>2. After(latest, n) \in Seq(Event) /\ latest' \in 0..MaxEvents
    BY <1>2, <2>1, AfterProperties DEF Commit
  <2>3. pending' \in [Publisher -> Seq(Event)]
    BY <1>0, <1>2, <2>2 DEF Commit
  <2>. QED  BY <1>0, <1>2, <2>2, <2>3 DEF Commit, task, history, TypeOK
<1>3. CASE Subscribe
  BY <1>0, <1>3 DEF Subscribe, journal, channel, history, TypeOK, Place
<1>4. CASE LoadCursor
  <2>1. cursor' \in {durable, latest, 0} /\ origin' \in {origin, latest} /\ pc' \in {"replay", "seed"}
    BY <1>4 DEF LoadCursor
  <2>2. cursor' \in 0..MaxEvents /\ origin' \in 0..MaxEvents
    BY <1>0, <2>1, ConstantsAssumption
  <2>. QED  BY <1>0, <1>4, <2>1, <2>2 DEF LoadCursor, journal, channel, TypeOK, Place
<1>5. CASE Seed
  <2>1. durable' \in 0..MaxEvents /\ seeded' \in BOOLEAN
    BY <1>0, <1>5, SavedCursor DEF Seed
  <2>. QED  BY <1>0, <1>5, <2>1 DEF Seed, channel, history, TypeOK, Place
<1>6. CASE ReadBatch
  <2>1. ASSUME cursor < latest, todo' = After(cursor, Smaller(Batch, latest - cursor)),
               mode' = "replay", pc' = "state"
        PROVE  TypeOK'
    <3>1. cursor \in Nat /\ latest \in Nat /\ latest <= MaxEvents /\ MaxEvents \in Nat
      BY <1>0, ConstantsAssumption
    <3>2. PICK n \in Nat : n = Smaller(Batch, latest - cursor) /\ n # 0 /\ cursor + n <= latest
      BY <2>1, <3>1, BatchSize
    <3>3. todo' \in Seq(Event) /\ Len(todo') # 0
      <4>1. cursor + n <= MaxEvents /\ todo' = After(cursor, n)
        BY <2>1, <3>1, <3>2
      <4>2. After(cursor, n) \in Seq(Event) /\ Len(After(cursor, n)) = n
        BY <3>1, <4>1, AfterProperties
      <4>. QED  BY <3>2, <4>1, <4>2
    <3>4. todo' # <<>>
      BY <3>3
    <3>. QED  BY <1>0, <1>6, <2>1, <3>3, <3>4 DEF ReadBatch, journal, channel, history, TypeOK, Place
  <2>2. ASSUME pc' = "live", UNCHANGED <<todo, mode>> PROVE TypeOK'
    BY <1>0, <1>6, <2>2 DEF ReadBatch, journal, channel, history, TypeOK, Place
  <2>. QED  BY <1>6, <2>1, <2>2 DEF ReadBatch
<1>7. CASE Receive
  <2>1. Head(buffer) \in Event /\ Tail(buffer) \in Seq(Event)
    BY <1>0, <1>7, HeadTail DEF Receive
  <2>2. <<Head(buffer)>> \in Seq(Event) /\ <<Head(buffer)>> # <<>>
    BY <2>1
  <2>. QED  BY <1>0, <1>7, <2>1, <2>2 DEF Receive, journal, history, TypeOK, Place
<1>8. CASE Lagged
  BY <1>0, <1>8 DEF Lagged, journal, history, TypeOK, Place
<1>9. CASE RunStateFlows
  <2>1. stateRuns' \in [Event -> Nat]
    BY <1>0, <1>9 DEF RunStateFlows
  <2>. QED  BY <1>0, <1>9, <2>1 DEF RunStateFlows, journal, channel, TypeOK, Place
<1>10. CASE Claim
  <2>1. Head(todo) \in Event
    BY <1>0, <1>10, HeadTail DEF Claim
  <2>. QED  BY <1>0, <1>10, <2>1 DEF Claim, channel, history, TypeOK, Place
<1>11. CASE RunEventFlows
  <2>1. eventRuns' \in [Event -> Nat]
    BY <1>0, <1>11 DEF RunEventFlows
  <2>. QED  BY <1>0, <1>11, <2>1 DEF RunEventFlows, journal, channel, TypeOK, Place
<1>12. CASE Save
  <2>1. Head(todo) \in Event /\ Tail(todo) \in Seq(Event) /\ <<>> \in Seq(Event)
    BY <1>0, <1>12, HeadTail, EmptySeq DEF Save
  <2>2. Head(todo) \in 0..MaxEvents
    BY <2>1, ConstantsAssumption DEF Event
  <2>3. ASSUME SaveCursor(Head(todo)), todo' = Tail(todo), pc' = NextPlace(Tail(todo))
        PROVE  TypeOK'
    <3>1. durable' \in 0..MaxEvents /\ seeded' \in BOOLEAN
      BY <1>0, <2>2, <2>3, SavedCursor
    <3>2. pc' \in Place /\ (pc' \in {"state", "claim", "run", "save"} => todo' # <<>>)
      BY <1>0, <2>3 DEF NextPlace, Place
    <3>. QED  BY <1>0, <1>12, <2>1, <2>2, <2>3, <3>1, <3>2 DEF Save, channel, history, TypeOK
  <2>4. ASSUME UNCHANGED <<durable, seeded>>, todo' = <<>>, pc' = "live"
        PROVE  TypeOK'
    BY <1>0, <1>12, <2>1, <2>2, <2>4 DEF Save, channel, history, TypeOK, Place
  <2>. QED  BY <1>12, <2>3, <2>4 DEF Save
<1>13. CASE Crash
  <2>1. <<>> \in Seq(Event) /\ 0 \in 0..MaxEvents /\ crashes' \in 0..MaxCrashes
    BY <1>0, <1>13, EmptySeq, ConstantsAssumption DEF Crash
  <2>. QED  BY <1>0, <1>13, <2>1 DEF Crash, journal, history, TypeOK, Place
<1>14. CASE UNCHANGED vars
  BY <1>0, <1>14 DEF vars, TypeOK
<1>. QED
  BY <1>1, <1>2, <1>3, <1>4, <1>5, <1>6, <1>7, <1>8, <1>9, <1>10, <1>11, <1>12,
     <1>13, <1>14 DEF Next, Engine

\* The variables keep their types, and an engine that is handling an event has
\* one, for any threads, channel, batch and faults.
THEOREM TypeCorrect == Spec => []TypeOK
BY InitType, NextType, PTL DEF Spec

-----------------------------------------------------------------------------
(* No event is run twice between two deaths of the process. *)

Executing == {"state", "claim", "run", "save"}

\* What is still to be done lies above the cursor and was not run yet in this
\* life of the process; the current event may just have been.
OnceInv ==
    /\ TypeOK
    /\ OnceBetweenCrashes
    /\ pc \in {"down", "init"} => \A e \in Event : stateRuns[e] <= crashes
    /\ pc \notin {"down", "init"} => \A e \in Event :
          e > cursor /\ ~(pc \in {"claim", "run", "save"} /\ e = Head(todo))
             => stateRuns[e] <= crashes
    /\ pc \in Executing => \A i \in 1..Len(todo) :
          /\ todo[i] > cursor
          /\ \A j \in 1..(i-1) : todo[j] < todo[i]

LEMMA InitOnce == Init => OnceInv
<1> SUFFICES ASSUME Init PROVE OnceInv
  OBVIOUS
<1>1. TypeOK
  BY InitType
<1>. QED
  BY <1>1 DEF Init, OnceInv, OnceBetweenCrashes, Executing

LEMMA NextOnce == OnceInv /\ [Next]_vars => OnceInv'
<1> SUFFICES ASSUME OnceInv, [Next]_vars PROVE OnceInv'
  OBVIOUS
<1>0. /\ TypeOK /\ TypeOK'
      /\ stateRuns \in [Event -> Nat] /\ crashes \in Nat
      /\ todo \in Seq(Event) /\ buffer \in Seq(Event)
      /\ pc \in Executing => todo # <<>>
  <2>1. TypeOK /\ TypeOK'
    BY NextType DEF OnceInv
  <2>2. stateRuns \in [Event -> Nat] /\ crashes \in 0..MaxCrashes
        /\ todo \in Seq(Event) /\ buffer \in Seq(Event)
        /\ (pc \in Executing => todo # <<>>)
    BY <2>1 DEF TypeOK, Executing
  <2>. QED  BY <2>1, <2>2, ConstantsAssumption
<1>t. Event \subseteq Nat /\ cursor \in Nat /\ latest \in Nat
  BY <1>0, ConstantsAssumption DEF TypeOK, Event
<1>1. ASSUME UNCHANGED <<stateRuns, crashes, cursor, todo, pc>> PROVE OnceInv'
  BY <1>0, <1>1 DEF OnceInv, OnceBetweenCrashes
<1>2. CASE Subscribe
  BY <1>0, <1>2 DEF Subscribe, history, OnceInv, OnceBetweenCrashes, Executing
<1>3. CASE LoadCursor
  BY <1>0, <1>3 DEF LoadCursor, OnceInv, OnceBetweenCrashes, Executing
<1>4. CASE Seed
  BY <1>0, <1>4 DEF Seed, history, OnceInv, OnceBetweenCrashes, Executing
<1>5. CASE ReadBatch
  <2>1. ASSUME cursor < latest, todo' = After(cursor, Smaller(Batch, latest - cursor)),
               mode' = "replay", pc' = "state"
        PROVE  \A i \in 1..Len(todo') : /\ todo'[i] > cursor'
                                        /\ \A j \in 1..(i-1) : todo'[j] < todo'[i]
    <3>1. MaxEvents \in Nat /\ latest <= MaxEvents
      BY <1>0, ConstantsAssumption DEF TypeOK
    <3>. PICK n \in Nat : n = Smaller(Batch, latest - cursor) /\ n # 0 /\ cursor + n <= latest
      BY <1>t, <2>1, BatchSize
    <3>2. n = Smaller(Batch, latest - cursor) /\ cursor + n <= MaxEvents
      BY <1>t, <3>1
    <3>3. todo' = After(cursor, n) /\ cursor' = cursor
      BY <1>5, <2>1, <3>2 DEF ReadBatch
    <3>4. Len(todo') = n /\ \A i \in 1..n : todo'[i] = cursor + i
      BY <1>t, <3>1, <3>2, <3>3, AfterProperties
    <3>5. \A i \in 1..n : cursor + i > cursor /\ \A j \in 1..(i-1) : j \in 1..n /\ cursor + j < cursor + i
      BY <1>t
    <3>. QED  BY <3>3, <3>4, <3>5
  <2>2. ASSUME pc' = "live" PROVE OnceInv'
    BY <1>0, <1>5, <2>2 DEF ReadBatch, history, OnceInv, OnceBetweenCrashes, Executing
  <2>. QED  BY <1>0, <1>5, <2>1, <2>2 DEF ReadBatch, history, OnceInv, OnceBetweenCrashes, Executing
<1>6. CASE Receive
  <2>1. CASE Seen(Head(buffer))
    BY <1>1, <1>6, <2>1 DEF Receive, history
  <2>2. CASE ~Seen(Head(buffer))
    <3>1. Head(buffer) \in Event
      BY <1>0, <1>6, HeadTail DEF Receive
    <3>n. Head(buffer) \in Nat
      BY <1>t, <3>1
    <3>h. Head(buffer) > cursor
      BY <1>t, <2>2, <3>n DEF Seen
    <3>2. todo' = <<Head(buffer)>> /\ pc' = "state" /\ Head(buffer) > cursor
      BY <1>6, <2>2, <3>h DEF Receive
    <3>3. Len(todo') = 1 /\ todo'[1] = Head(buffer)
      BY <3>2
    <3>. QED  BY <1>0, <1>6, <1>t, <3>2, <3>3 DEF Receive, history, OnceInv, OnceBetweenCrashes, Executing
  <2>. QED  BY <2>1, <2>2
<1>7. CASE Lagged
  BY <1>0, <1>7 DEF Lagged, history, OnceInv, OnceBetweenCrashes, Executing
<1>8. CASE RunStateFlows
  <2>1. pc = "state" /\ pc' = "claim" /\ UNCHANGED <<cursor, todo, crashes>>
        /\ stateRuns' = [stateRuns EXCEPT ![Head(todo)] = @ + 1]
    BY <1>8 DEF RunStateFlows
  <2>2. Head(todo) \in Event /\ Head(todo) = todo[1] /\ Len(todo) \in Nat \ {0}
    BY <1>0, <2>1, HeadTail DEF Executing
  <2>3. stateRuns[Head(todo)] <= crashes
    BY <2>1, <2>2 DEF OnceInv, Executing
  <2>4. \A e \in Event : stateRuns'[e] = IF e = Head(todo) THEN stateRuns[e] + 1 ELSE stateRuns[e]
    BY <1>0, <2>1
  <2>5. OnceBetweenCrashes'
    BY <1>0, <2>1, <2>3, <2>4 DEF OnceInv, OnceBetweenCrashes
  <2>. QED  BY <1>0, <2>1, <2>4, <2>5 DEF OnceInv, Executing
<1>9. CASE Claim
  BY <1>0, <1>9 DEF Claim, history, OnceInv, OnceBetweenCrashes, Executing
<1>10. CASE RunEventFlows
  BY <1>0, <1>10 DEF RunEventFlows, OnceInv, OnceBetweenCrashes, Executing
<1>11. CASE Save
  <2>1. pc = "save" /\ cursor' = Head(todo) /\ UNCHANGED <<stateRuns, crashes>>
    BY <1>11 DEF Save, history
  <2>2. /\ Head(todo) \in Event /\ Head(todo) = todo[1] /\ Len(todo) \in Nat \ {0}
        /\ Len(Tail(todo)) = Len(todo) - 1
        /\ \A i \in 1..Len(Tail(todo)) : Tail(todo)[i] = todo[i + 1]
    BY <1>0, <2>1, HeadTail DEF Executing
  <2>3. todo[1] > cursor /\ \A i \in 1..Len(todo), j \in 1..Len(todo) : j < i => todo[j] < todo[i]
    BY <2>1, <2>2 DEF OnceInv, Executing
  <2>4. \A e \in Event : e > cursor' => stateRuns'[e] <= crashes'
    <3>1. Head(todo) > cursor
      BY <2>2, <2>3
    <3>2. \A e \in Event : e > cursor' => e > cursor /\ e # Head(todo)
      <4> SUFFICES ASSUME NEW e \in Event, e > Head(todo) PROVE e > cursor /\ e # Head(todo)
        BY <2>1
      <4>1. e \in Nat /\ Head(todo) \in Nat
        BY <1>t, <2>2
      <4>. QED  BY <1>t, <3>1, <4>1
    <3>. QED  BY <2>1, <3>2 DEF OnceInv
  <2>5. \A i \in 1..Len(Tail(todo)) : /\ Tail(todo)[i] > cursor'
                                      /\ \A j \in 1..(i-1) : Tail(todo)[j] < Tail(todo)[i]
    BY <2>1, <2>2, <2>3
  <2>6. OnceBetweenCrashes' /\ pc' \notin {"down", "init"}
    BY <1>0, <1>11, <2>1 DEF OnceInv, OnceBetweenCrashes, Save, NextPlace, TypeOK
  <2>7. todo' = Tail(todo) \/ pc' = "live"
    BY <1>11 DEF Save
  <2>8. pc' \in Executing => \A i \in 1..Len(todo') : /\ todo'[i] > cursor'
                                      /\ \A j \in 1..(i-1) : todo'[j] < todo'[i]
    BY <2>5, <2>7 DEF Executing
  <2>. QED  BY <1>0, <2>4, <2>6, <2>8 DEF OnceInv
<1>12. CASE Crash
  BY <1>0, <1>12 DEF Crash, history, OnceInv, OnceBetweenCrashes, Executing
<1>. QED
  BY <1>1, <1>2, <1>3, <1>4, <1>5, <1>6, <1>7, <1>8, <1>9, <1>10, <1>11, <1>12
     DEF Next, Engine, Publish, Commit, task, history, vars

\* Replays, lost and repeated notifications, failed reads and failed saves
\* never make the engine run an event twice in one life of the process.
THEOREM RunsOnceBetweenCrashes == Spec => []OnceBetweenCrashes
<1>1. Spec => []OnceInv
  BY InitOnce, NextOnce, PTL DEF Spec
<1>. QED
  BY <1>1, PTL DEF OnceInv

-----------------------------------------------------------------------------
(* The reservation makes the flow of an event run at most once. *)

\* An event that was not reserved was not run, nor was the one being run.
ClaimInv ==
    /\ TypeOK
    /\ EventFlowsRunOnce
    /\ \A e \in Event : e \notin claimed => eventRuns[e] = 0
    /\ pc = "run" => Head(todo) \in claimed /\ eventRuns[Head(todo)] = 0

LEMMA InitClaim == Init => ClaimInv
<1> SUFFICES ASSUME Init PROVE ClaimInv
  OBVIOUS
<1>1. TypeOK
  BY InitType
<1>. QED
  BY <1>1 DEF Init, ClaimInv, EventFlowsRunOnce

LEMMA NextClaim == ClaimInv /\ [Next]_vars => ClaimInv'
<1> SUFFICES ASSUME ClaimInv, [Next]_vars PROVE ClaimInv'
  OBVIOUS
<1>0. TypeOK /\ TypeOK' /\ eventRuns \in [Event -> Nat] /\ todo \in Seq(Event)
  <2>1. TypeOK /\ TypeOK'
    BY NextType DEF ClaimInv
  <2>. QED  BY <2>1 DEF TypeOK
<1>1. ASSUME UNCHANGED <<eventRuns, claimed>>, pc' # "run" PROVE ClaimInv'
  BY <1>0, <1>1 DEF ClaimInv, EventFlowsRunOnce
<1>2. ASSUME UNCHANGED <<eventRuns, claimed, pc, todo>> PROVE ClaimInv'
  BY <1>0, <1>2 DEF ClaimInv, EventFlowsRunOnce
<1>3. CASE Claim
  <2>1. Head(todo) \in Event
    BY <1>0, <1>3, HeadTail DEF Claim, TypeOK
  <2>2. claimed' = claimed \cup {Head(todo)} /\ UNCHANGED <<eventRuns, todo>>
        /\ (pc' = "run" => Head(todo) \notin claimed)
    BY <1>3 DEF Claim, history
  <2>. QED  BY <1>0, <2>1, <2>2 DEF ClaimInv, EventFlowsRunOnce
<1>4. CASE RunEventFlows
  <2>1. pc = "run" /\ pc' = "save" /\ UNCHANGED <<claimed, todo>>
        /\ eventRuns' = [eventRuns EXCEPT ![Head(todo)] = @ + 1]
    BY <1>4 DEF RunEventFlows, journal
  <2>2. \A e \in Event : eventRuns'[e] = IF e = Head(todo) THEN 1 ELSE eventRuns[e]
    BY <1>0, <2>1 DEF ClaimInv
  <2>. QED  BY <1>0, <2>1, <2>2 DEF ClaimInv, EventFlowsRunOnce
<1>5. CASE Save
  <2>1. pc' # "run"
    BY <1>0, <1>5 DEF Save, NextPlace, TypeOK
  <2>. QED  BY <1>1, <1>5, <2>1 DEF Save, history
<1>6. CASE Receive
  BY <1>1, <1>6 DEF Receive, journal, history
<1>. QED
  BY <1>1, <1>2, <1>3, <1>4, <1>5, <1>6
     DEF Next, Engine, Publish, Commit, Subscribe, LoadCursor, Seed, ReadBatch, Lagged,
         RunStateFlows, Crash, journal, task, history, vars

\* Across deaths, replays and failed saves, the flow triggered by an event runs
\* at most once for it.
THEOREM ReservedRunsOnce == Spec => []EventFlowsRunOnce
<1>1. Spec => []ClaimInv
  BY InitClaim, NextClaim, PTL DEF Spec
<1>. QED
  BY <1>1, PTL DEF ClaimInv

-----------------------------------------------------------------------------
(* Nothing the cursor passed is missing, unless it was overtaken. *)

Sent(e) == Handled(e) \/ e \in overtaken

InPending(e) == \E p \in Publisher : In(e, pending[p])

\* The engine relies on the channel, and the channel has not overflowed.
Live == (pc = "live" \/ (pc \in Executing /\ mode = "live")) /\ ~lagged

\* The journal is the bound of everything the engine and the threads hold.
BoundInv ==
    /\ TypeOK
    /\ origin <= latest /\ durable <= latest /\ cursor <= latest
    /\ \A e \in Event : InPending(e) \/ In(e, buffer) \/ In(e, todo) => e <= latest
    /\ pc \in {"down", "init", "seed", "replay", "live"} => todo = <<>>

\* Both cursors are behind nothing that is missing, and neither is the current
\* event, once those read with it and before it are done.
PassedInv ==
    /\ PassedIsHandled
    /\ pc \notin {"down", "init"} => \A e \in Event : e <= cursor => Sent(e)
    /\ pc \in Executing => \A i \in 1..Len(todo) : \A e \in Event :
          e < todo[i] => Sent(e) \/ \E j \in 1..(i-1) : todo[j] = e
    /\ pc \in {"claim", "run", "save"} => stateRuns[Head(todo)] >= 1
    /\ pc \in {"run", "save"} => Head(todo) \in claimed

\* Whatever follows a later event in s is in O.
Ordered(s, O) == \A i, j \in 1..Len(s) : i < j /\ s[j] < s[i] => s[j] \in O

\* An event sent, or still to be sent, after a later one is overtaken.
OrderInv ==
    /\ pc = "down" => buffer = <<>>
    /\ Ordered(buffer, overtaken)
    /\ \A e \in Event, f \in Event :
          InPending(e) /\ In(f, buffer) /\ e < f => e \in overtaken

\* While the engine relies on the channel, what is not done is on its way.
CoverInv ==
    Live => \A e \in Event : e <= latest =>
        Sent(e) \/ In(e, buffer) \/ InPending(e) \/ In(e, todo)

\* An entry of a non-empty sequence is its head or in its tail.
LEMMA InHeadTail ==
  ASSUME NEW S, NEW s \in Seq(S), s # <<>>, NEW e
  PROVE  In(e, s) <=> e = Head(s) \/ In(e, Tail(s))
<1>1. /\ Head(s) = s[1] /\ Len(s) \in Nat \ {0} /\ Len(Tail(s)) = Len(s) - 1
      /\ \A i \in 1..Len(Tail(s)) : Tail(s)[i] = s[i + 1]
  BY HeadTail
<1>2. ASSUME In(e, s) PROVE e = Head(s) \/ In(e, Tail(s))
  <2>1. PICK i \in 1..Len(s) : s[i] = e
    BY <1>2 DEF In
  <2>2. CASE i = 1
    BY <1>1, <2>1, <2>2
  <2>3. CASE i # 1
    <3>1. i - 1 \in 1..Len(Tail(s)) /\ Tail(s)[i - 1] = e
      BY <1>1, <2>1, <2>3
    <3>. QED  BY <3>1 DEF In
  <2>. QED  BY <2>2, <2>3
<1>3. ASSUME e = Head(s) PROVE In(e, s)
  <2>1. 1 \in 1..Len(s) /\ s[1] = e
    BY <1>1, <1>3
  <2>. QED  BY <2>1 DEF In
<1>4. ASSUME In(e, Tail(s)) PROVE In(e, s)
  <2>1. PICK i \in 1..Len(Tail(s)) : Tail(s)[i] = e
    BY <1>4 DEF In
  <2>2. i + 1 \in 1..Len(s) /\ s[i + 1] = e
    BY <1>1, <2>1
  <2>. QED  BY <2>2 DEF In
<1>. QED  BY <1>2, <1>3, <1>4

LEMMA InAppend ==
  ASSUME NEW S, NEW s \in Seq(S), NEW x \in S, NEW e
  PROVE  In(e, Append(s, x)) <=> e = x \/ In(e, s)
<1>1. /\ Len(s) \in Nat /\ Len(Append(s, x)) = Len(s) + 1
      /\ \A i \in 1..Len(s) : Append(s, x)[i] = s[i]
      /\ Append(s, x)[Len(s) + 1] = x
  BY AppendProperties, LenProperties
<1>2. ASSUME In(e, Append(s, x)) PROVE e = x \/ In(e, s)
  <2>1. PICK i \in 1..(Len(s) + 1) : Append(s, x)[i] = e
    BY <1>1, <1>2 DEF In
  <2>2. CASE i = Len(s) + 1
    BY <1>1, <2>1, <2>2
  <2>3. CASE i # Len(s) + 1
    <3>1. i \in 1..Len(s) /\ s[i] = e
      BY <1>1, <2>1, <2>3
    <3>. QED  BY <3>1 DEF In
  <2>. QED  BY <2>2, <2>3
<1>3. ASSUME e = x PROVE In(e, Append(s, x))
  <2>1. Len(s) + 1 \in 1..Len(Append(s, x))
    BY <1>1
  <2>. QED  BY <1>1, <1>3, <2>1 DEF In
<1>4. ASSUME In(e, s) PROVE In(e, Append(s, x))
  <2>1. PICK i \in 1..Len(s) : s[i] = e
    BY <1>4 DEF In
  <2>2. i \in 1..Len(Append(s, x)) /\ Append(s, x)[i] = e
    BY <1>1, <2>1
  <2>. QED  BY <2>2 DEF In
<1>. QED  BY <1>2, <1>3, <1>4

LEMMA InEmpty == ASSUME NEW e PROVE ~In(e, <<>>)
<1>1. Len(<<>>) = 0
  OBVIOUS
<1>. QED  BY <1>1 DEF In

LEMMA InSingle == ASSUME NEW x, NEW e PROVE In(e, <<x>>) <=> e = x
<1>1. Len(<<x>>) = 1 /\ <<x>>[1] = x
  OBVIOUS
<1>. QED  BY <1>1 DEF In

LEMMA InAfter ==
  ASSUME NEW x \in Nat, NEW n \in Nat, x + n <= MaxEvents, NEW e
  PROVE  In(e, After(x, n)) <=> e \in (x + 1)..(x + n)
<1>1. Len(After(x, n)) = n /\ \A i \in 1..n : After(x, n)[i] = x + i
  BY AfterProperties
<1>2. ASSUME e \in (x + 1)..(x + n) PROVE In(e, After(x, n))
  <2>1. e - x \in 1..n /\ After(x, n)[e - x] = e
    BY <1>1, <1>2
  <2>. QED  BY <1>1, <2>1 DEF In
<1>. QED  BY <1>1, <1>2 DEF In

LEMMA OrderedTail ==
  ASSUME NEW S, NEW s \in Seq(S), s # <<>>, NEW O, Ordered(s, O)
  PROVE  Ordered(Tail(s), O)
<1>1. /\ Len(s) \in Nat \ {0} /\ Len(Tail(s)) = Len(s) - 1
      /\ \A i \in 1..Len(Tail(s)) : Tail(s)[i] = s[i + 1] /\ i + 1 \in 1..Len(s)
  BY HeadTail
<1>2. ASSUME NEW i \in 1..Len(Tail(s)), NEW j \in 1..Len(Tail(s)), i < j, Tail(s)[j] < Tail(s)[i]
      PROVE  Tail(s)[j] \in O
  <2>1. i + 1 < j + 1 /\ s[j + 1] < s[i + 1] /\ i + 1 \in 1..Len(s) /\ j + 1 \in 1..Len(s)
    BY <1>1, <1>2
  <2>. QED  BY <1>1, <2>1 DEF Ordered
<1>. QED  BY <1>2 DEF Ordered

LEMMA OrderedAppend ==
  ASSUME NEW s \in Seq(Event), NEW x \in Event, NEW O, Ordered(s, O),
         \A f \in Event : In(f, s) /\ x < f => x \in O
  PROVE  Ordered(Append(s, x), O)
<1>1. /\ Len(s) \in Nat /\ Len(Append(s, x)) = Len(s) + 1
      /\ \A i \in 1..Len(s) : Append(s, x)[i] = s[i] /\ s[i] \in Event
      /\ Append(s, x)[Len(s) + 1] = x
  BY AppendProperties, LenProperties, ElementOfSeq
<1>2. ASSUME NEW i \in 1..(Len(s) + 1), NEW j \in 1..(Len(s) + 1), i < j,
             Append(s, x)[j] < Append(s, x)[i]
      PROVE  Append(s, x)[j] \in O
  <2>1. i \in 1..Len(s)
    BY <1>1, <1>2
  <2>2. CASE j \in 1..Len(s)
    <3>1. s[j] < s[i]
      BY <1>1, <1>2, <2>1, <2>2
    <3>. QED  BY <1>1, <1>2, <2>1, <2>2, <3>1 DEF Ordered
  <2>3. CASE j = Len(s) + 1
    <3>1. In(s[i], s) /\ s[i] \in Event /\ x < s[i]
      BY <1>1, <1>2, <2>1, <2>3 DEF In
    <3>. QED  BY <1>1, <2>3, <3>1
  <2>. QED  BY <1>1, <2>2, <2>3
<1>. QED  BY <1>1, <1>2 DEF Ordered

LEMMA OrderedMore ==
  ASSUME NEW s, NEW O, NEW P, O \subseteq P, Ordered(s, O)
  PROVE  Ordered(s, P)
BY DEF Ordered

-----------------------------------------------------------------------------
(* What committing and sending do to the events on their way. *)

LEMMA TypeFacts ==
  ASSUME TypeOK
  PROVE  /\ latest \in Nat /\ durable \in Nat /\ cursor \in Nat /\ MaxEvents \in Nat
         /\ latest <= MaxEvents /\ origin \in Nat
         /\ \A e \in Event : e \in Nat
         /\ pending \in [Publisher -> Seq(Event)]
         /\ buffer \in Seq(Event) /\ todo \in Seq(Event)
         /\ stateRuns \in [Event -> Nat]
         /\ overtaken \subseteq Event
         /\ pc \in Executing => todo # <<>>
         /\ mode \in {"replay", "live"}
<1>1. /\ latest \in 0..MaxEvents /\ durable \in 0..MaxEvents /\ cursor \in 0..MaxEvents
      /\ origin \in 0..MaxEvents
  BY DEF TypeOK
<1>2. MaxEvents \in Nat
  BY ConstantsAssumption
<1>3. \A e \in Event : e \in Nat
  BY <1>2 DEF Event
<1>4. /\ pending \in [Publisher -> Seq(Event)]
      /\ buffer \in Seq(Event) /\ todo \in Seq(Event)
      /\ stateRuns \in [Event -> Nat]
      /\ overtaken \subseteq Event
      /\ (pc \in Executing => todo # <<>>)
      /\ mode \in {"replay", "live"}
  BY DEF TypeOK, Executing
<1>. QED  BY <1>1, <1>2, <1>3, <1>4

\* A transaction adds its own events to what is on its way.
LEMMA CommitPending ==
  ASSUME TypeOK, NEW p \in Publisher, NEW n \in 1..MaxCommit, Commit(p, n)
  PROVE  \A e \in Event : InPending(e)' <=> InPending(e) \/ e \in (latest + 1)..(latest + n)
<1> SUFFICES ASSUME NEW e \in Event
             PROVE  InPending(e)' <=> InPending(e) \/ e \in (latest + 1)..(latest + n)
  OBVIOUS
<1>1. latest \in Nat /\ n \in Nat /\ latest + n <= MaxEvents /\ pending[p] = <<>>
      /\ pending \in [Publisher -> Seq(Event)]
      /\ pending' = [pending EXCEPT ![p] = After(latest, n)]
  BY TypeFacts, ConstantsAssumption DEF Commit
<1>2. In(e, After(latest, n)) <=> e \in (latest + 1)..(latest + n)
  BY <1>1, InAfter
<1>3. ~In(e, pending[p])
  BY <1>1, InEmpty
<1>4. /\ pending'[p] = After(latest, n)
      /\ \A q \in Publisher : q # p => pending'[q] = pending[q]
  BY <1>1
<1>5. In(e, pending'[p]) <=> e \in (latest + 1)..(latest + n)
  BY <1>2, <1>4
<1>. QED  BY <1>3, <1>4, <1>5 DEF InPending

\* Sending takes the head of what a thread has yet to send.
LEMMA PublishPending ==
  ASSUME TypeOK, NEW p \in Publisher, Publish(p)
  PROVE  /\ Head(pending[p]) \in Event
         /\ InPending(Head(pending[p]))
         /\ \A e \in Event : /\ InPending(e)' => InPending(e)
                             /\ InPending(e) => InPending(e)' \/ e = Head(pending[p])
<1>1. /\ pending \in [Publisher -> Seq(Event)] /\ pending[p] # <<>> /\ pending[p] \in Seq(Event)
      /\ pending' = [pending EXCEPT ![p] = Tail(pending[p])]
  BY TypeFacts DEF Publish
<1>2. Head(pending[p]) \in Event
  BY <1>1, HeadTail
<1>3. \A e : In(e, pending[p]) <=> e = Head(pending[p]) \/ In(e, Tail(pending[p]))
  BY <1>1, InHeadTail
<1>4. /\ pending'[p] = Tail(pending[p])
      /\ \A q \in Publisher : q # p => pending'[q] = pending[q]
  BY <1>1
<1>5. ASSUME NEW e \in Event PROVE InPending(e)' => InPending(e)
  BY <1>3, <1>4 DEF InPending
<1>6. ASSUME NEW e \in Event PROVE InPending(e) => InPending(e)' \/ e = Head(pending[p])
  BY <1>3, <1>4 DEF InPending
<1>. QED  BY <1>2, <1>3, <1>5, <1>6 DEF InPending

\* The receiver gets the event sent; it loses one only if it is told so.
LEMMA PublishBuffer ==
  ASSUME TypeOK, NEW p \in Publisher, Publish(p), pc # "down", OrderInv
  PROVE  /\ \A e : In(e, buffer') => In(e, buffer) \/ e = Head(pending[p])
         /\ ~lagged' => ~lagged /\ \A e : In(e, buffer) => In(e, buffer')
         /\ In(Head(pending[p]), buffer')
         /\ overtaken \subseteq overtaken'
         /\ \A e \in Event : InPending(e) /\ e < Head(pending[p]) => e \in overtaken'
         /\ Ordered(buffer', overtaken')
<1> DEFINE h == Head(pending[p])
<1>1. buffer \in Seq(Event) /\ h \in Event /\ InPending(h) /\ Capacity \in Nat \ {0}
  BY TypeFacts, PublishPending, ConstantsAssumption
<1>2. overtaken' = overtaken \cup Overtakes(h)
  BY DEF Publish
<1>3. \A e \in Event : InPending(e) /\ e < h => e \in overtaken'
  BY <1>2 DEF Overtakes, InPending
<1>4. Ordered(buffer, overtaken') /\ \A f \in Event : In(f, buffer) /\ h < f => h \in overtaken'
  BY <1>1, <1>2, OrderedMore DEF OrderInv
<1>5. CASE Len(buffer) < Capacity
  <2>1. buffer' = Append(buffer, h) /\ lagged' = lagged
    BY <1>5 DEF Publish
  <2>2. Ordered(Append(buffer, h), overtaken')
    BY <1>1, <1>4, OrderedAppend
  <2>3. \A e : In(e, buffer') <=> e = h \/ In(e, buffer)
    BY <1>1, <2>1, InAppend
  <2>. QED  BY <1>2, <1>3, <2>1, <2>2, <2>3
<1>6. CASE ~(Len(buffer) < Capacity)
  <2>1. buffer' = Append(Tail(buffer), h) /\ lagged' = TRUE
    BY <1>6 DEF Publish
  <2>2. buffer # <<>>
    <3>1. Len(<<>>) = 0
      OBVIOUS
    <3>. QED  BY <1>1, <1>6, <3>1
  <2>3. Tail(buffer) \in Seq(Event) /\ Ordered(Tail(buffer), overtaken')
        /\ \A e : In(e, Tail(buffer)) => In(e, buffer)
    BY <1>1, <1>4, <2>2, HeadTail, OrderedTail, InHeadTail
  <2>4. Ordered(Append(Tail(buffer), h), overtaken')
    BY <1>1, <1>4, <2>3, OrderedAppend
  <2>5. \A e : In(e, buffer') <=> e = h \/ In(e, Tail(buffer))
    BY <1>1, <2>1, <2>3, InAppend
  <2>. QED  BY <1>2, <1>3, <2>1, <2>3, <2>4, <2>5
<1>. QED  BY <1>5, <1>6

-----------------------------------------------------------------------------
(* Each part of the invariant is preserved. *)

\* What was handled or overtaken stays so.
LEMMA SentStays ==
  ASSUME BoundInv, [Next]_vars
  PROVE  \A e \in Event : Sent(e) => Sent(e)'
<1>0. TypeOK /\ stateRuns \in [Event -> Nat] /\ origin \in Nat /\ latest \in Nat /\ origin <= latest
      /\ \A e \in Event : e \in Nat
  BY TypeFacts DEF BoundInv
<1>1. origin' = origin \/ origin' = latest
  BY DEF Next, Engine, Publish, Commit, Subscribe, LoadCursor, Seed, ReadBatch, Receive, Lagged,
         RunStateFlows, Claim, RunEventFlows, Save, Crash, history, vars
<1>2. claimed \subseteq claimed'
  BY DEF Next, Engine, Publish, Commit, Subscribe, LoadCursor, Seed, ReadBatch, Receive, Lagged,
         RunStateFlows, Claim, RunEventFlows, Save, Crash, journal, vars
<1>3. overtaken \subseteq overtaken'
  BY DEF Next, Engine, Publish, Commit, Subscribe, LoadCursor, Seed, ReadBatch, Receive, Lagged,
         RunStateFlows, Claim, RunEventFlows, Save, Crash, history, vars
<1>4. \A e \in Event : stateRuns'[e] >= stateRuns[e]
  <2>1. CASE UNCHANGED stateRuns
    BY <1>0, <2>1
  <2>2. CASE RunStateFlows
    BY <1>0, <2>2 DEF RunStateFlows
  <2>. QED
    BY <2>1, <2>2
       DEF Next, Engine, Publish, Commit, Subscribe, LoadCursor, Seed, ReadBatch, Receive, Lagged,
           Claim, RunEventFlows, Save, Crash, history, vars
<1>5. ASSUME NEW e \in Event, e <= origin PROVE e <= origin'
  BY <1>0, <1>1, <1>5
<1>6. ASSUME NEW e \in Event, stateRuns[e] >= 1 PROVE stateRuns'[e] >= 1
  <2>1. stateRuns[e] \in Nat /\ stateRuns'[e] >= stateRuns[e]
    BY <1>0, <1>4
  <2>2. stateRuns' \in [Event -> Nat]
    BY <1>0, NextType DEF TypeOK
  <2>. QED  BY <1>6, <2>1, <2>2
<1>. QED  BY <1>2, <1>3, <1>5, <1>6 DEF Sent, Handled

LEMMA NextBound == BoundInv /\ [Next]_vars => BoundInv'
<1> SUFFICES ASSUME BoundInv, [Next]_vars PROVE BoundInv'
  OBVIOUS
<1>0. TypeOK /\ TypeOK'
  BY NextType DEF BoundInv
<1>t. /\ latest \in Nat /\ durable \in Nat /\ cursor \in Nat /\ origin \in Nat
      /\ \A e \in Event : e \in Nat
      /\ latest <= MaxEvents /\ MaxEvents \in Nat
      /\ buffer \in Seq(Event) /\ todo \in Seq(Event)
      /\ origin <= latest /\ durable <= latest /\ cursor <= latest
  BY <1>0, TypeFacts DEF BoundInv
<1>1. ASSUME UNCHANGED <<latest, origin, durable, cursor, pending, buffer, todo>>,
             pc' \in {"down", "init", "seed", "replay", "live"} => todo = <<>>
      PROVE  BoundInv'
  BY <1>0, <1>1 DEF BoundInv, InPending
<1>2. ASSUME NEW p \in Publisher, Publish(p) PROVE BoundInv'
  <2>1. UNCHANGED <<latest, origin, durable, cursor, todo, pc>>
    BY <1>2 DEF Publish, journal, task
  <2>2. \A e \in Event : In(e, buffer') => In(e, buffer) \/ InPending(e)
    <3>1. InPending(Head(pending[p]))
      BY <1>0, <1>2, PublishPending
    <3>2. CASE pc = "down"
      BY <1>2, <3>2 DEF Publish
    <3>3. CASE Len(buffer) < Capacity /\ buffer' = Append(buffer, Head(pending[p]))
      BY <1>0, <1>2, <1>t, <3>1, <3>3, InAppend, PublishPending
    <3>4. CASE ~(Len(buffer) < Capacity) /\ buffer' = Append(Tail(buffer), Head(pending[p]))
      <4>1. buffer # <<>>
        <5>1. Len(<<>>) = 0 /\ Capacity \in Nat \ {0}
          BY ConstantsAssumption
        <5>. QED  BY <3>4, <5>1
      <4>2. Tail(buffer) \in Seq(Event) /\ \A e : In(e, Tail(buffer)) => In(e, buffer)
        BY <1>t, <4>1, HeadTail, InHeadTail
      <4>3. Head(pending[p]) \in Event
        BY <1>0, <1>2, PublishPending
      <4>4. \A e : In(e, buffer') <=> e = Head(pending[p]) \/ In(e, Tail(buffer))
        BY <3>4, <4>2, <4>3, InAppend
      <4>. QED  BY <3>1, <4>2, <4>4
    <3>. QED  BY <1>2, <3>2, <3>3, <3>4 DEF Publish
  <2>3. \A e \in Event : InPending(e)' => InPending(e)
    BY <1>0, <1>2, PublishPending
  <2>. QED  BY <1>0, <2>1, <2>2, <2>3 DEF BoundInv
<1>3. ASSUME NEW p \in Publisher, NEW n \in 1..MaxCommit, Commit(p, n) PROVE BoundInv'
  <2>1. latest' = latest + n /\ n \in Nat /\ UNCHANGED <<origin, durable, cursor, buffer, todo, pc>>
    BY <1>3, ConstantsAssumption DEF Commit, task, history
  <2>2. \A e \in Event : InPending(e)' => e <= latest'
    <3>1. \A e \in Event : InPending(e)' <=> InPending(e) \/ e \in (latest + 1)..(latest + n)
      BY <1>0, <1>3, CommitPending
    <3>2. \A e \in Event : InPending(e) => e <= latest
      BY DEF BoundInv
    <3>. QED  BY <1>t, <2>1, <3>1, <3>2
  <2>3. \A e \in Event : In(e, buffer) \/ In(e, todo) => e <= latest'
    <3>1. \A e \in Event : In(e, buffer) \/ In(e, todo) => e <= latest
      BY DEF BoundInv
    <3>. QED  BY <1>t, <2>1, <3>1
  <2>4. origin <= latest' /\ durable <= latest' /\ cursor <= latest'
    BY <1>t, <2>1
  <2>. QED  BY <1>0, <2>1, <2>2, <2>3, <2>4 DEF BoundInv
<1>4. CASE Subscribe
  BY <1>1, <1>4 DEF Subscribe, journal, channel, history, BoundInv
<1>5. CASE LoadCursor
  <2>1. cursor' \in {durable, latest, 0} /\ origin' \in {origin, latest}
        /\ UNCHANGED <<latest, durable, pending, buffer, todo>> /\ todo = <<>>
    BY <1>5 DEF LoadCursor, journal, channel, BoundInv
  <2>2. cursor' <= latest /\ origin' <= latest
    BY <1>t, <2>1
  <2>. QED  BY <1>0, <2>1, <2>2 DEF BoundInv, InPending
<1>6. CASE Seed
  <2>1. durable' \in {durable, cursor}
    BY <1>6, <1>t, SmallerGreater DEF Seed, SaveCursor
  <2>2. UNCHANGED <<latest, origin, cursor, pending, buffer, todo>> /\ todo = <<>>
    BY <1>6 DEF Seed, channel, history, BoundInv
  <2>. QED  BY <1>0, <1>t, <2>1, <2>2 DEF BoundInv, InPending
<1>7. CASE ReadBatch
  <2>1. ASSUME cursor < latest, todo' = After(cursor, Smaller(Batch, latest - cursor)), pc' = "state"
        PROVE  BoundInv'
    <3>1. PICK n \in Nat : n = Smaller(Batch, latest - cursor) /\ n # 0 /\ cursor + n <= latest
      BY <1>t, <2>1, BatchSize
    <3>2. cursor + n <= MaxEvents
      BY <1>t, <3>1
    <3>3. \A e : In(e, todo') => e \in (cursor + 1)..(cursor + n)
      BY <1>t, <2>1, <3>1, <3>2, InAfter
    <3>4. \A e \in Event : In(e, todo') => e <= latest
      BY <1>t, <3>1, <3>3
    <3>5. UNCHANGED <<latest, origin, durable, cursor, pending, buffer>>
      BY <1>7 DEF ReadBatch, journal, channel, history
    <3>. QED  BY <1>0, <2>1, <3>4, <3>5 DEF BoundInv, InPending
  <2>2. ASSUME UNCHANGED todo PROVE BoundInv'
    BY <1>1, <1>7, <2>2 DEF ReadBatch, journal, channel, history, BoundInv
  <2>. QED  BY <1>7, <2>1, <2>2 DEF ReadBatch
<1>8. CASE Receive
  <2>1. \A e : In(e, buffer) <=> e = Head(buffer) \/ In(e, Tail(buffer))
    BY <1>8, <1>t, InHeadTail DEF Receive
  <2>2. buffer' = Tail(buffer) /\ UNCHANGED <<latest, origin, durable, cursor, pending>>
    BY <1>8 DEF Receive, journal, history
  <2>3. todo = <<>> /\ ((todo' = todo /\ pc' = pc) \/ (todo' = <<Head(buffer)>> /\ pc' = "state"))
    BY <1>8 DEF Receive, BoundInv
  <2>4. \A e : In(e, todo') => In(e, todo) \/ e = Head(buffer)
    BY <2>3, InSingle
  <2>. QED  BY <1>0, <2>1, <2>2, <2>3, <2>4 DEF BoundInv, InPending
<1>9. CASE Lagged
  BY <1>1, <1>9 DEF Lagged, journal, history, BoundInv
<1>10. CASE RunStateFlows
  BY <1>1, <1>10 DEF RunStateFlows, journal, channel, history, BoundInv
<1>11. CASE Claim
  BY <1>1, <1>11 DEF Claim, channel, history
<1>12. CASE RunEventFlows
  BY <1>1, <1>12 DEF RunEventFlows, journal, channel
<1>13. CASE Save
  <2>1. todo # <<>> /\ cursor' = Head(todo) /\ Head(todo) \in Event
        /\ UNCHANGED <<latest, origin, pending, buffer>>
    BY <1>13, <1>0, <1>t, HeadTail, TypeFacts DEF Save, channel, history, Executing
  <2>2. \A e : In(e, todo) <=> e = Head(todo) \/ In(e, Tail(todo))
    BY <1>t, <2>1, InHeadTail
  <2>3. cursor' <= latest
    BY <2>1, <2>2 DEF BoundInv
  <2>4. Head(todo) \in Nat
    BY <1>t, <2>1
  <2>5. durable' \in {durable, Head(todo)}
    BY <1>13, <1>t, <2>4, SmallerGreater DEF Save, SaveCursor
  <2>6. todo' = Tail(todo) \/ todo' = <<>>
    BY <1>13 DEF Save
  <2>7. \A e : In(e, todo') => In(e, todo)
    BY <2>2, <2>6, InEmpty
  <2>8. pc' \in {"down", "init", "seed", "replay", "live"} => todo' = <<>>
    BY <1>13 DEF Save, NextPlace
  <2>. QED  BY <1>0, <1>t, <2>1, <2>3, <2>5, <2>7, <2>8 DEF BoundInv, InPending
<1>14. CASE Crash
  <2>1. pending' = [p \in Publisher |-> <<>>] /\ buffer' = <<>> /\ todo' = <<>> /\ cursor' = 0
        /\ UNCHANGED <<latest, origin, durable>>
    BY <1>14 DEF Crash, journal, history
  <2>2. \A e : ~In(e, buffer') /\ ~In(e, todo') /\ \A p \in Publisher : ~In(e, pending'[p])
    BY <2>1, InEmpty
  <2>. QED  BY <1>0, <1>t, <2>1, <2>2 DEF BoundInv, InPending
<1>15. CASE UNCHANGED vars
  BY <1>1, <1>15 DEF vars, BoundInv
<1>. QED
  BY <1>2, <1>3, <1>4, <1>5, <1>6, <1>7, <1>8, <1>9, <1>10, <1>11, <1>12, <1>13,
     <1>14, <1>15 DEF Next, Engine

LEMMA NextOrder == BoundInv /\ OrderInv /\ [Next]_vars => OrderInv'
<1> SUFFICES ASSUME BoundInv, OrderInv, [Next]_vars PROVE OrderInv'
  OBVIOUS
<1>0. TypeOK /\ TypeOK'
  BY NextType DEF BoundInv
<1>t. /\ latest \in Nat /\ \A e \in Event : e \in Nat
      /\ buffer \in Seq(Event) /\ \A e \in Event : In(e, buffer) \/ InPending(e) => e <= latest
  BY <1>0, TypeFacts DEF BoundInv
<1>1. ASSUME UNCHANGED <<pending, buffer, overtaken>>, pc' = "down" => pc = "down"
      PROVE  OrderInv'
  BY <1>1 DEF OrderInv, InPending
<1>2. ASSUME NEW p \in Publisher, Publish(p) PROVE OrderInv'
  <2>1. \A e \in Event : InPending(e)' => InPending(e)
    BY <1>0, <1>2, PublishPending
  <2>2. CASE pc = "down"
    <3>1. UNCHANGED <<buffer, overtaken, pc>>
      BY <1>2, <2>2 DEF Publish, task
    <3>. QED  BY <2>1, <3>1 DEF OrderInv
  <2>3. CASE pc # "down"
    <3>1. /\ \A e : In(e, buffer') => In(e, buffer) \/ e = Head(pending[p])
          /\ overtaken \subseteq overtaken'
          /\ \A e \in Event : InPending(e) /\ e < Head(pending[p]) => e \in overtaken'
          /\ Ordered(buffer', overtaken')
      BY <1>0, <1>2, <2>3, PublishBuffer
    <3>2. pc' # "down"
      BY <1>2, <2>3 DEF Publish, task
    <3>. QED  BY <2>1, <3>1, <3>2 DEF OrderInv
  <2>. QED  BY <2>2, <2>3
<1>3. ASSUME NEW p \in Publisher, NEW n \in 1..MaxCommit, Commit(p, n) PROVE OrderInv'
  <2>1. \A e \in Event : InPending(e)' => InPending(e) \/ e > latest
    <3>1. \A e \in Event : InPending(e)' <=> InPending(e) \/ e \in (latest + 1)..(latest + n)
      BY <1>0, <1>3, CommitPending
    <3>. QED  BY <1>t, <3>1, ConstantsAssumption
  <2>2. UNCHANGED <<buffer, overtaken, pc>>
    BY <1>3 DEF Commit, task, history
  <2>3. ASSUME NEW e \in Event, NEW f \in Event, InPending(e)', In(f, buffer'), e < f
        PROVE  e \in overtaken'
    <3>1. f <= latest
      BY <1>t, <2>2, <2>3
    <3>2. ~(e > latest)
      BY <1>t, <2>3, <3>1
    <3>. QED  BY <2>1, <2>2, <2>3, <3>2 DEF OrderInv
  <2>. QED  BY <2>2, <2>3 DEF OrderInv
<1>4. CASE Receive
  <2>1. buffer # <<>> /\ buffer' = Tail(buffer) /\ pc' # "down" /\ UNCHANGED <<pending, overtaken>>
    BY <1>4 DEF Receive, history
  <2>2. Ordered(Tail(buffer), overtaken) /\ \A e : In(e, Tail(buffer)) => In(e, buffer)
    BY <1>t, <2>1, OrderedTail, InHeadTail DEF OrderInv
  <2>. QED  BY <2>1, <2>2 DEF OrderInv, InPending
<1>5. CASE Crash
  <2>1. buffer' = <<>>
    BY <1>5 DEF Crash
  <2>2. Len(<<>>) = 0 /\ \A e : ~In(e, buffer')
    BY <2>1, InEmpty
  <2>. QED  BY <2>1, <2>2 DEF OrderInv, Ordered
<1>6. CASE Subscribe
  <2>1. UNCHANGED <<pending, buffer, overtaken>> /\ pc' = "init"
    BY <1>6 DEF Subscribe, channel, history
  <2>. QED  BY <1>1, <2>1
<1>7. CASE Save
  <2>1. pc' # "down"
    BY <1>0, <1>7 DEF Save, NextPlace, TypeOK
  <2>. QED  BY <1>1, <1>7, <2>1 DEF Save, channel, history
<1>. QED
  BY <1>1, <1>2, <1>3, <1>4, <1>5, <1>6, <1>7
     DEF Next, Engine, LoadCursor, Seed, ReadBatch, Lagged, RunStateFlows, Claim,
         RunEventFlows, channel, history, vars

LEMMA NextPassed ==
  BoundInv /\ PassedInv /\ OrderInv /\ CoverInv /\ [Next]_vars => PassedInv'
<1> SUFFICES ASSUME BoundInv, PassedInv, OrderInv, CoverInv, [Next]_vars PROVE PassedInv'
  OBVIOUS
<1>0. TypeOK /\ TypeOK' /\ BoundInv'
  BY NextType, NextBound DEF BoundInv
<1>t. /\ latest \in Nat /\ durable \in Nat /\ cursor \in Nat /\ MaxEvents \in Nat
      /\ latest <= MaxEvents
      /\ \A e \in Event : e \in Nat
      /\ buffer \in Seq(Event) /\ todo \in Seq(Event)
      /\ pc \in Executing => todo # <<>>
  BY <1>0, TypeFacts
<1>s. \A e \in Event : Sent(e) => Sent(e)'
  BY SentStays
<1>1. ASSUME UNCHANGED <<durable, cursor, todo, pc, claimed, stateRuns>> PROVE PassedInv'
  BY <1>s, <1>1 DEF PassedInv, PassedIsHandled, Sent
<1>2. ASSUME UNCHANGED <<durable, cursor>>, pc' \notin Executing,
             pc \in {"down", "init"} => pc' \in {"down", "init"}
      PROVE  PassedInv'
  BY <1>s, <1>2 DEF PassedInv, PassedIsHandled, Sent, Executing
<1>3. CASE LoadCursor
  <2>1. UNCHANGED durable /\ pc' \in {"seed", "replay"}
    BY <1>3 DEF LoadCursor, journal
  <2>2. \A e \in Event : e <= cursor' => Sent(e)'
    <3>1. CASE cursor' = durable
      BY <1>s, <3>1 DEF PassedInv, PassedIsHandled, Sent
    <3>2. CASE cursor' = latest /\ origin' = latest
      BY <3>2 DEF Sent, Handled
    <3>3. CASE cursor' = 0
      BY <3>3, <1>t DEF Event
    <3>. QED  BY <1>3, <3>1, <3>2, <3>3 DEF LoadCursor
  <2>3. \A e \in Event : e <= durable' => Sent(e)'
    BY <1>s, <2>1 DEF PassedInv, PassedIsHandled, Sent
  <2>. QED  BY <2>1, <2>2, <2>3 DEF PassedInv, PassedIsHandled, Sent, Executing
<1>4. CASE Seed
  <2>1. pc = "seed" /\ pc' = "replay" /\ UNCHANGED cursor
    BY <1>4 DEF Seed
  <2>2. durable' \in {durable, cursor}
    BY <1>4, <1>t, SmallerGreater DEF Seed, SaveCursor
  <2>3. \A e \in Event : e <= cursor => Sent(e)'
    BY <1>s, <2>1 DEF PassedInv
  <2>4. \A e \in Event : e <= durable => Sent(e)'
    BY <1>s DEF PassedInv, PassedIsHandled, Sent
  <2>. QED  BY <2>1, <2>2, <2>3, <2>4 DEF PassedInv, PassedIsHandled, Sent, Executing
<1>5. CASE ReadBatch
  <2>1. ASSUME cursor < latest, todo' = After(cursor, Smaller(Batch, latest - cursor)), pc' = "state"
        PROVE  PassedInv'
    <3>0. PICK n \in Nat : n = Smaller(Batch, latest - cursor) /\ n # 0 /\ cursor + n <= latest
      BY <1>t, <2>1, BatchSize
    <3>1. n = Smaller(Batch, latest - cursor) /\ cursor + n <= MaxEvents
      BY <1>t, <3>0
    <3>2. Len(todo') = n /\ \A i \in 1..n : todo'[i] = cursor + i
      BY <1>t, <2>1, <3>1, AfterProperties
    <3>3. UNCHANGED <<durable, cursor>> /\ pc = "replay"
      BY <1>5 DEF ReadBatch, journal
    <3>4. \A e \in Event : e <= cursor => Sent(e)'
      BY <1>s, <3>3 DEF PassedInv
    <3>5. ASSUME NEW i \in 1..n, NEW e \in Event, e < todo'[i], ~(e <= cursor)
          PROVE  \E j \in 1..(i-1) : todo'[j] = e
      <4>1. e - cursor \in 1..(i-1) /\ e - cursor \in 1..n /\ cursor + (e - cursor) = e
        BY <1>t, <3>2, <3>5
      <4>. QED  BY <3>2, <4>1
    <3>6. \A i \in 1..Len(todo') : \A e \in Event :
             e < todo'[i] => Sent(e)' \/ \E j \in 1..(i-1) : todo'[j] = e
      BY <3>2, <3>4, <3>5
    <3>7. \A e \in Event : e <= durable => Sent(e)'
      BY <1>s DEF PassedInv, PassedIsHandled, Sent
    <3>. QED  BY <2>1, <3>3, <3>4, <3>6, <3>7 DEF PassedInv, PassedIsHandled, Sent
  <2>2. ASSUME pc' = "live" PROVE PassedInv'
    BY <1>2, <1>5, <2>2 DEF ReadBatch, journal, Executing
  <2>. QED  BY <1>5, <2>1, <2>2 DEF ReadBatch
<1>6. CASE Receive
  <2>1. CASE Seen(Head(buffer))
    BY <1>2, <1>6, <2>1 DEF Receive, journal, Executing
  <2>2. CASE ~Seen(Head(buffer))
    <3> DEFINE h == Head(buffer)
    <3>1. /\ pc = "live" /\ ~lagged /\ buffer # <<>> /\ todo' = <<h>> /\ pc' = "state"
          /\ UNCHANGED <<durable, cursor>>
      BY <1>6, <2>2 DEF Receive, journal
    <3>2. /\ h \in Event /\ h = buffer[1] /\ Len(buffer) \in Nat \ {0} /\ In(h, buffer)
          /\ \A e : In(e, buffer) <=> e = h \/ In(e, Tail(buffer))
      BY <1>t, <3>1, HeadTail, InHeadTail
    <3>3. h <= latest
      BY <3>2 DEF BoundInv
    <3>4. ASSUME NEW e \in Event, e < h PROVE Sent(e)
      <4>1. e <= latest
        BY <1>t, <3>2, <3>3, <3>4
      <4>2. ~In(e, todo)
        <5>1. todo = <<>>
          BY <3>1 DEF BoundInv
        <5>. QED  BY <5>1, InEmpty
      <4>3. Sent(e) \/ In(e, buffer) \/ InPending(e)
        BY <3>1, <4>1, <4>2 DEF CoverInv, Live
      <4>4. ASSUME In(e, buffer) PROVE e \in overtaken
        <5>1. PICK i \in 1..Len(buffer) : buffer[i] = e
          BY <4>4 DEF In
        <5>2. i # 1
          BY <1>t, <3>2, <3>4, <5>1
        <5>3. 1 \in 1..Len(buffer) /\ 1 < i /\ buffer[i] < buffer[1]
          BY <3>2, <3>4, <5>1, <5>2
        <5>. QED  BY <5>1, <5>3 DEF OrderInv, Ordered
      <4>5. InPending(e) => e \in overtaken
        BY <3>2, <3>4 DEF OrderInv
      <4>. QED  BY <4>3, <4>4, <4>5 DEF Sent
    <3>5. Len(todo') = 1 /\ todo'[1] = h
      BY <3>1
    <3>6. \A i \in 1..Len(todo') : \A e \in Event : e < todo'[i] => Sent(e)'
      BY <1>s, <3>4, <3>5
    <3>7. \A e \in Event : (e <= cursor => Sent(e)') /\ (e <= durable => Sent(e)')
      BY <1>s, <3>1 DEF PassedInv, PassedIsHandled, Sent
    <3>. QED  BY <3>1, <3>6, <3>7 DEF PassedInv, PassedIsHandled, Sent
  <2>. QED  BY <2>1, <2>2
<1>7. ASSUME UNCHANGED <<durable, cursor, todo>>, pc \in Executing, pc' \in Executing,
             pc' \in {"claim", "run", "save"} => stateRuns'[Head(todo)] >= 1,
             pc' \in {"run", "save"} => Head(todo) \in claimed'
      PROVE  PassedInv'
  <2>1. \A i \in 1..Len(todo) : \A e \in Event :
           e < todo[i] => Sent(e)' \/ \E j \in 1..(i-1) : todo[j] = e
    BY <1>s, <1>7 DEF PassedInv
  <2>2. \A e \in Event : (e <= cursor => Sent(e)') /\ (e <= durable => Sent(e)')
    BY <1>s, <1>7 DEF PassedInv, PassedIsHandled, Sent, Executing
  <2>. QED  BY <1>7, <2>1, <2>2 DEF PassedInv, PassedIsHandled, Sent
<1>8. CASE RunStateFlows
  <2>1. Head(todo) \in Event /\ pc = "state" /\ pc' = "claim"
        /\ stateRuns' = [stateRuns EXCEPT ![Head(todo)] = @ + 1]
    BY <1>8, <1>t, HeadTail DEF RunStateFlows, Executing
  <2>2. stateRuns'[Head(todo)] >= 1
    BY <1>0, <2>1, TypeFacts
  <2>. QED  BY <1>7, <1>8, <2>1, <2>2 DEF RunStateFlows, journal, Executing
<1>9. CASE Claim
  BY <1>7, <1>9 DEF Claim, history, PassedInv, Executing
<1>10. CASE RunEventFlows
  BY <1>7, <1>10 DEF RunEventFlows, journal, PassedInv, Executing
<1>11. CASE Save
  <2> DEFINE h == Head(todo)
  <2>1. /\ pc = "save" /\ cursor' = h /\ h \in Event /\ h = todo[1] /\ Len(todo) \in Nat \ {0}
        /\ Len(Tail(todo)) = Len(todo) - 1
        /\ \A i \in 1..Len(Tail(todo)) : Tail(todo)[i] = todo[i + 1]
    BY <1>11, <1>t, HeadTail DEF Save, Executing
  <2>2. Handled(h)
    BY <2>1 DEF PassedInv, Handled
  <2>3. \A e \in Event : e < h => Sent(e)
    <3>1. 1 \in 1..Len(todo) /\ 1..(1-1) = {}
      BY <2>1
    <3>. QED  BY <2>1, <3>1 DEF PassedInv, Executing
  <2>4. \A e \in Event : e <= h => Sent(e)'
    BY <1>s, <1>t, <2>1, <2>2, <2>3 DEF Sent
  <2>5. durable' \in {durable, h}
    BY <1>11, <1>t, <2>1, SmallerGreater DEF Save, SaveCursor
  <2>6. \A e \in Event : e <= durable' => Sent(e)'
    BY <1>s, <2>4, <2>5 DEF PassedInv, PassedIsHandled, Sent
  <2>7. ASSUME NEW i \in 1..Len(Tail(todo)), NEW e \in Event, e < Tail(todo)[i]
        PROVE  Sent(e)' \/ \E j \in 1..(i-1) : Tail(todo)[j] = e
    <3>1. i + 1 \in 1..Len(todo) /\ e < todo[i + 1]
      BY <2>1, <2>7
    <3>2. Sent(e) \/ \E j \in 1..((i+1)-1) : todo[j] = e
      BY <2>1, <3>1 DEF PassedInv, Executing
    <3>3. ASSUME NEW j \in 1..((i+1)-1), todo[j] = e
          PROVE  Sent(e)' \/ \E m \in 1..(i-1) : Tail(todo)[m] = e
      <4>1. CASE j = 1
        BY <1>t, <2>1, <2>4, <3>3, <4>1
      <4>2. CASE j # 1
        <5>1. j - 1 \in 1..(i-1) /\ j - 1 \in 1..Len(Tail(todo)) /\ (j - 1) + 1 = j
          BY <2>1, <4>2
        <5>2. Tail(todo)[j - 1] = e
          BY <2>1, <3>3, <5>1
        <5>. QED  BY <5>1, <5>2
      <4>. QED  BY <4>1, <4>2
    <3>. QED  BY <1>s, <3>2, <3>3
  <2>8. pc' \notin {"down", "init", "claim", "run", "save"}
    BY <1>0, <1>11 DEF Save, NextPlace, TypeOK
  <2>9. todo' = Tail(todo) \/ pc' \notin Executing
    BY <1>11 DEF Save, Executing
  <2>10. PassedIsHandled'
    BY <2>6 DEF PassedIsHandled, Sent
  <2>11. \A e \in Event : e <= cursor' => Sent(e)'
    BY <2>1, <2>4
  <2>12. pc' \in Executing => \A i \in 1..Len(todo') : \A e \in Event :
           e < todo'[i] => Sent(e)' \/ \E j \in 1..(i-1) : todo'[j] = e
    BY <2>7, <2>9
  <2>. QED  BY <2>8, <2>10, <2>11, <2>12 DEF PassedInv
<1>12. CASE Crash
  BY <1>2, <1>12, <1>s DEF Crash, journal, PassedInv, PassedIsHandled, Sent, Executing
<1>. QED
  BY <1>1, <1>2, <1>3, <1>4, <1>5, <1>6, <1>8, <1>9, <1>10, <1>11, <1>12
     DEF Next, Engine, Publish, Commit, Subscribe, Lagged, journal, task, history, vars, Executing

\* When no call fails, a replay ends at the end of the journal, and from there
\* on the channel brings what is committed.
LEMMA NextCover ==
  ASSUME ~failed'
  PROVE  BoundInv /\ PassedInv /\ OrderInv /\ CoverInv /\ [Next]_vars => CoverInv'
<1> SUFFICES ASSUME BoundInv, PassedInv, OrderInv, CoverInv, [Next]_vars PROVE CoverInv'
  OBVIOUS
<1>0. TypeOK /\ TypeOK' /\ BoundInv'
  BY NextType, NextBound DEF BoundInv
<1>t. /\ latest \in Nat /\ cursor \in Nat
      /\ \A e \in Event : e \in Nat
      /\ buffer \in Seq(Event) /\ todo \in Seq(Event)
      /\ pc \in Executing => todo # <<>>
      /\ mode \in {"replay", "live"}
  BY <1>0, TypeFacts
<1>s. \A e \in Event : Sent(e) => Sent(e)'
  BY SentStays
<1>1. ASSUME ~Live' PROVE CoverInv'
  BY <1>1 DEF CoverInv
<1>2. ASSUME Live, UNCHANGED <<latest, buffer, pending, todo>> PROVE CoverInv'
  BY <1>s, <1>2 DEF CoverInv, InPending
<1>3. ASSUME NEW p \in Publisher, Publish(p) PROVE CoverInv'
  <2> SUFFICES ASSUME Live'
               PROVE  \A e \in Event : e <= latest' =>
                         Sent(e)' \/ In(e, buffer') \/ InPending(e)' \/ In(e, todo')
    BY DEF CoverInv
  <2>1. UNCHANGED <<latest, pc, mode, todo>>
    BY <1>3 DEF Publish, journal, task
  <2>2. pc # "down"
    BY <2>1 DEF Live, Executing
  <2>3. (~lagged' => ~lagged /\ \A e : In(e, buffer) => In(e, buffer'))
        /\ In(Head(pending[p]), buffer')
    BY <1>0, <1>3, <2>2, PublishBuffer
  <2>4. Live /\ \A e : In(e, buffer) => In(e, buffer')
    BY <2>1, <2>3 DEF Live
  <2>5. \A e \in Event : InPending(e) => InPending(e)' \/ e = Head(pending[p])
    BY <1>0, <1>3, PublishPending
  <2>6. ASSUME NEW e \in Event, e <= latest
        PROVE  Sent(e)' \/ In(e, buffer') \/ InPending(e)' \/ In(e, todo')
    <3>1. Sent(e) \/ In(e, buffer) \/ InPending(e) \/ In(e, todo)
      BY <2>4, <2>6 DEF CoverInv
    <3>2. In(e, todo) => In(e, todo')
      BY <2>1
    <3>. QED  BY <1>s, <2>3, <2>4, <2>5, <3>1, <3>2
  <2>. QED  BY <2>1, <2>6
<1>4. ASSUME NEW p \in Publisher, NEW n \in 1..MaxCommit, Commit(p, n) PROVE CoverInv'
  <2> SUFFICES ASSUME Live'
               PROVE  \A e \in Event : e <= latest' =>
                         Sent(e)' \/ In(e, buffer') \/ InPending(e)' \/ In(e, todo')
    BY DEF CoverInv
  <2>1. latest' = latest + n /\ n \in Nat /\ UNCHANGED <<pc, mode, todo, buffer, lagged>>
    BY <1>4, ConstantsAssumption DEF Commit, task
  <2>2. Live
    BY <2>1 DEF Live
  <2>3. \A e \in Event : InPending(e)' <=> InPending(e) \/ e \in (latest + 1)..(latest + n)
    BY <1>0, <1>4, CommitPending
  <2>4. ASSUME NEW e \in Event, e <= latest'
        PROVE  Sent(e)' \/ In(e, buffer') \/ InPending(e)' \/ In(e, todo')
    <3>1. CASE e <= latest
      <4>1. Sent(e) \/ In(e, buffer) \/ InPending(e) \/ In(e, todo)
        BY <2>2, <3>1 DEF CoverInv
      <4>2. (In(e, todo) => In(e, todo')) /\ (In(e, buffer) => In(e, buffer'))
        BY <2>1
      <4>. QED  BY <1>s, <2>3, <4>1, <4>2
    <3>2. CASE ~(e <= latest)
      <4>1. e \in (latest + 1)..(latest + n)
        BY <1>t, <2>1, <2>4, <3>2
      <4>. QED  BY <2>3, <4>1
    <3>. QED  BY <3>1, <3>2
  <2>. QED  BY <2>4
<1>5. CASE ReadBatch
  <2>1. CASE pc' = "state" /\ mode' = "replay"
    BY <1>1, <2>1 DEF Live, Executing
  <2>2. CASE cursor >= latest /\ pc' = "live"
    <3>1. UNCHANGED latest /\ pc = "replay"
      BY <1>5 DEF ReadBatch, journal
    <3>2. \A e \in Event : e <= cursor => Sent(e)'
      BY <1>s, <3>1 DEF PassedInv
    <3>3. \A e \in Event : e <= latest => Sent(e)'
      BY <1>t, <2>2, <3>2
    <3>. QED  BY <3>1, <3>3 DEF CoverInv
  <2>. QED  BY <1>5, <2>1, <2>2 DEF ReadBatch
<1>6. CASE Receive
  <2>1. /\ pc = "live" /\ ~lagged /\ buffer # <<>> /\ buffer' = Tail(buffer)
        /\ UNCHANGED <<latest, pending>>
    BY <1>6 DEF Receive, journal
  <2>2. Live
    BY <2>1 DEF Live
  <2>3. PICK h \in Event : h = Head(buffer)
    BY <1>t, <2>1, HeadTail
  <2>4. \A e : In(e, buffer) <=> e = h \/ In(e, buffer')
    BY <1>t, <2>1, <2>3, InHeadTail
  <2>5. \A e : ~In(e, todo)
    <3>1. todo = <<>>
      BY <2>1 DEF BoundInv
    <3>. QED  BY <3>1, InEmpty
  <2>6. Sent(h)' \/ In(h, todo')
    <3>1. CASE Seen(Head(buffer))
      BY <1>s, <2>1, <2>3, <3>1 DEF Seen, PassedInv
    <3>2. CASE ~Seen(Head(buffer))
      <4>1. todo' = <<h>>
        BY <1>6, <2>3, <3>2 DEF Receive
      <4>. QED  BY <4>1, InSingle
    <3>. QED  BY <3>1, <3>2
  <2>7. ASSUME NEW e \in Event, e <= latest'
        PROVE  Sent(e)' \/ In(e, buffer') \/ InPending(e)' \/ In(e, todo')
    <3>1. Sent(e) \/ In(e, buffer) \/ InPending(e)
      BY <2>1, <2>2, <2>5, <2>7 DEF CoverInv
    <3>2. InPending(e) => InPending(e)'
      BY <2>1 DEF InPending
    <3>. QED  BY <1>s, <2>4, <2>6, <3>1, <3>2
  <2>. QED  BY <2>7 DEF CoverInv
<1>7. ASSUME UNCHANGED <<latest, buffer, pending, todo, lagged, mode>>,
             pc \in Executing, pc' \in Executing
      PROVE  CoverInv'
  BY <1>1, <1>2, <1>7 DEF Live, Executing
<1>8. CASE Save
  <2>1. SaveCursor(Head(todo)) /\ todo' = Tail(todo) /\ pc' = NextPlace(Tail(todo))
        /\ pc = "save" /\ UNCHANGED <<latest, pending, buffer, lagged, mode>>
    BY <1>8 DEF Save, channel
  <2>2. todo # <<>> /\ Head(todo) \in Event
    BY <1>t, <2>1, HeadTail DEF Executing
  <2>3. CASE ~(mode = "live" /\ ~lagged)
    <3>1. ~Live'
      BY <1>t, <2>1, <2>3 DEF Live, NextPlace, Executing
    <3>. QED  BY <1>1, <3>1
  <2>4. CASE mode = "live" /\ ~lagged
    <3>1. Live
      BY <2>1, <2>4 DEF Live, Executing
    <3>2. \A e : In(e, todo) <=> e = Head(todo) \/ In(e, todo')
      BY <1>t, <2>1, <2>2, InHeadTail
    <3>3. Sent(Head(todo))
      BY <2>1, <2>2 DEF PassedInv, Sent, Handled
    <3>4. \A e \in Event : Sent(e) \/ e = Head(todo) => Sent(e)'
      BY <1>s, <3>3
    <3>. QED  BY <2>1, <3>1, <3>2, <3>4 DEF CoverInv, InPending
  <2>. QED  BY <2>3, <2>4
<1>9. CASE Crash
  BY <1>1, <1>9 DEF Crash, Live, Executing
<1>10. CASE UNCHANGED vars
  BY <1>1, <1>2, <1>10 DEF Live, vars
<1>. QED
  BY <1>1, <1>3, <1>4, <1>5, <1>6, <1>7, <1>8, <1>9, <1>10
     DEF Next, Engine, Subscribe, LoadCursor, Seed, Lagged, RunStateFlows, Claim,
         RunEventFlows, Live, Executing, journal, channel

LEMMA InitPassed == Init => BoundInv /\ PassedInv /\ OrderInv /\ CoverInv
<1> SUFFICES ASSUME Init PROVE BoundInv /\ PassedInv /\ OrderInv /\ CoverInv
  OBVIOUS
<1>1. TypeOK
  BY InitType
<1>2. \A e : ~In(e, <<>>)
  BY InEmpty
<1>3. Len(<<>>) = 0 /\ \A e \in Event : e \in Nat /\ ~(e <= 0)
  BY ConstantsAssumption DEF Event
<1>4. BoundInv
  BY <1>1, <1>2 DEF Init, BoundInv, InPending
<1>5. PassedInv
  BY <1>3 DEF Init, PassedInv, PassedIsHandled, Executing
<1>6. OrderInv
  BY <1>2, <1>3 DEF Init, OrderInv, Ordered, InPending
<1>7. CoverInv
  BY DEF Init, CoverInv, Live, Executing
<1>. QED  BY <1>4, <1>5, <1>6, <1>7

\* A failed call is not forgotten.
LEMMA FailureStays == TypeOK /\ [Next]_vars /\ ~failed' => ~failed
BY DEF TypeOK, Next, Engine, Publish, Commit, Subscribe, LoadCursor, Seed, ReadBatch, Receive,
       Lagged, RunStateFlows, Claim, RunEventFlows, Save, Crash, vars

\* When the calls to the store succeed, an event that the durable cursor passed
\* was handled, or was sent by its thread after a later one: deaths, overflows
\* and unpublished events lose nothing.
THEOREM PassedWasHandled == Spec => []OnlyOvertakenSkipped
<1> DEFINE Inv == BoundInv /\ (~failed => PassedInv /\ OrderInv /\ CoverInv)
<1>1. Init => Inv
  BY InitPassed
<1>2. Inv /\ [Next]_vars => Inv'
  <2> SUFFICES ASSUME Inv, [Next]_vars PROVE Inv'
    OBVIOUS
  <2>1. BoundInv'
    BY NextBound
  <2>2. CASE failed'
    BY <2>1, <2>2
  <2>3. CASE ~failed'
    <3>1. ~failed
      BY <2>3, FailureStays DEF BoundInv
    <3>2. PassedInv' /\ OrderInv' /\ CoverInv'
      BY <2>3, <3>1, NextPassed, NextOrder, NextCover
    <3>. QED  BY <2>1, <3>2
  <2>. QED  BY <2>2, <2>3
<1>3. Inv => OnlyOvertakenSkipped
  BY DEF PassedInv, OnlyOvertakenSkipped
<1>. QED
  BY <1>1, <1>2, <1>3, PTL DEF Spec

-----------------------------------------------------------------------------
(* The durable cursor only rises. *)

\* Whatever fails and whoever dies, a save never lowers the cursor, not even by
\* an engine that started again from the beginning.
THEOREM DurableOnlyRises == Spec => CursorNeverGoesBack
<1>1. TypeOK /\ [Next]_vars => [durable' >= durable /\ (seeded => seeded')]_vars
  <2> SUFFICES ASSUME TypeOK, Next PROVE durable' >= durable /\ (seeded => seeded')
    OBVIOUS
  <2>1. durable \in Nat /\ cursor \in 0..MaxEvents /\ durable \in 0..MaxEvents
    BY TypeFacts DEF TypeOK
  <2>2. CASE UNCHANGED <<durable, seeded>>
    BY <2>1, <2>2
  <2>3. CASE SaveCursor(cursor)
    BY <2>1, <2>3, SavedCursor
  <2>4. CASE Save /\ SaveCursor(Head(todo))
    <3>1. Head(todo) \in Event
      BY <2>4, HeadTail, TypeFacts DEF Save, Executing
    <3>2. Head(todo) \in 0..MaxEvents
      BY <3>1, ConstantsAssumption DEF Event
    <3>. QED  BY <2>1, <2>4, <3>2, SavedCursor
  <2>. QED
    BY <2>2, <2>3, <2>4
       DEF Next, Engine, Publish, Commit, Subscribe, LoadCursor, Seed, ReadBatch, Receive, Lagged,
           RunStateFlows, Claim, RunEventFlows, Save, Crash, journal
<1>. QED
  BY <1>1, TypeCorrect, PTL DEF Spec, CursorNeverGoesBack
=============================================================================
