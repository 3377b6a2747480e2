--------------------------- MODULE FlowRunsProofs ---------------------------
(***************************************************************************)
(* Theorems about FlowRuns, for any flows, plans, policies and bounds.     *)
(***************************************************************************)
EXTENDS FlowRuns, FiniteSetTheorems, TLAPS

USE ConstantsAssumption

-----------------------------------------------------------------------------
(* The data. *)

CommandRecord == [key : Key, at : Time, sent : Time, status : {"sent", "failed", "confirmed"}]

\* A row whose next action is one of a plan, or behind the last one.
GoodRow(w) == w \in Row /\ w.next >= 1

LEMMA AfterInstant ==
  ASSUME NEW t \in Time, NEW d \in Nat
  PROVE  After(t, d) \in Instant
BY DEF After, Time, Instant, Never

LEMMA BlankGood == GoodRow(Blank)
<1>1. (CHOOSE f \in Flow : TRUE) \in Flow
  OBVIOUS
<1>. QED  BY <1>1 DEF GoodRow, Blank, Row, Instant, Never

LEMMA NewRowGood ==
  ASSUME NEW f \in Flow, clock \in Time
  PROVE  GoodRow(NewRow(f)) /\ NewRow(f).flow = f
<1>1. clock \in Instant /\ Never \in Instant
  BY DEF Time, Instant, Never
<1>2. Runtime[f] \in Nat /\ After(clock, Runtime[f]) \in Instant
  BY AfterInstant
<1>3. Blank \in Row /\ Blank.next >= 1
  BY BlankGood DEF GoodRow
<1>. QED  BY <1>1, <1>2, <1>3 DEF NewRow, GoodRow, Row

LEMMA SuspendedGood ==
  ASSUME NEW from, GoodRow(from), NEW wake \in Instant, NEW awaiting \in SUBSET Event,
         NEW fails \in BOOLEAN, row \in Row
  PROVE  GoodRow(Suspended(from, wake, awaiting, fails))
<1>1. Sooner(wake, row.deadline) \in Instant
  BY DEF Sooner, Row
<1>. QED  BY <1>1 DEF GoodRow, Suspended, Row

LEMMA ChangedGood ==
  ASSUME NEW w, GoodRow(w), NEW n \in Nat, NEW k \in Nat, n >= 1
  PROVE  GoodRow([w EXCEPT !.next = n, !.retry = k]) /\ GoodRow([w EXCEPT !.retry = k])
<1>. w \in Row /\ w.next >= 1
  BY DEF GoodRow
<1>1. [w EXCEPT !.next = n, !.retry = k] \in Row
  BY DEF Row
<1>2. [w EXCEPT !.next = n, !.retry = k].next = n
  BY DEF Row
<1>3. [w EXCEPT !.retry = k] \in Row
  BY DEF Row
<1>4. [w EXCEPT !.retry = k].next = w.next
  BY DEF Row
<1>. QED  BY <1>1, <1>2, <1>3, <1>4 DEF GoodRow

LEMMA AdvancedGood == GoodRow(row) => GoodRow(Advanced) /\ GoodRow([row EXCEPT !.retry = @ + 1])
<1> SUFFICES ASSUME GoodRow(row)
             PROVE  GoodRow(Advanced) /\ GoodRow([row EXCEPT !.retry = @ + 1])
  OBVIOUS
<1>1. PICK n \in Nat, k \in Nat : n = row.next + 1 /\ k = row.retry + 1 /\ n >= 1
  <2>1. row.next \in Nat /\ row.retry \in Nat
    BY DEF GoodRow, Row
  <2>2. row.next + 1 \in Nat /\ row.retry + 1 \in Nat /\ row.next + 1 >= 1
    BY <2>1
  <2>. QED  BY <2>2
<1>2. GoodRow([row EXCEPT !.next = n, !.retry = 0]) /\ GoodRow([row EXCEPT !.retry = k])
  BY <1>1, ChangedGood
<1>. QED  BY <1>1, <1>2 DEF Advanced

LEMMA HereAction ==
  ASSUME GoodRow(row), row.next <= Len(Plan[row.flow])
  PROVE  Here \in Action
<1>1. row.flow \in Flow /\ row.next \in Nat
  BY DEF GoodRow, Row
<1>2. Plan[row.flow] \in Seq(Action) /\ row.next \in 1..Len(Plan[row.flow])
  BY <1>1 DEF GoodRow
<1>. QED  BY <1>2 DEF Here

-----------------------------------------------------------------------------
(* Types. *)

\* A run is at hand from the moment it is resumed, dequeued or admitted to its
\* trace, and it is none of those still to be resumed.
Apart ==
    /\ pc \in {"down", "idle", "work", "trigger", "admit"} => run = 0
    /\ pc \in {"down", "idle", "work"} => back = "work"
    /\ pc \in {"down", "idle", "trigger", "admit"} \/ back = "trigger" => work = {}
    /\ run \notin work
    /\ pc \notin {"down", "idle"} /\ task = "event" => cursor < Len(journal)

ShapeInv ==
    /\ TypeOK
    /\ \A r \in Run : table[r].next >= 1
    /\ row.next >= 1
    /\ commands \subseteq CommandRecord
    /\ Apart

LEMMA ShapeInvInit == Init => ShapeInv
<1> SUFFICES ASSUME Init PROVE ShapeInv
  OBVIOUS
<1>1. Blank \in Row /\ Blank.next >= 1
  BY BlankGood DEF GoodRow
<1>2. 0 \notin Run
  BY DEF Run
<1>3. 0 \in Time /\ "none" \in Result /\ commands = {} /\ journal \in Seq(Event)
  BY DEF Init, Time, Result
<1>4. TypeOK
  <2>1. /\ live \subseteq Run /\ table \in [Run -> Row] /\ traces \in [Run -> Result]
        /\ flows \in Homes /\ enabled \in [Flow -> BOOLEAN] /\ since \in [Run -> Nat]
        /\ updates \in [Flow -> Nat] /\ row \in Row
    BY <1>1, <1>3 DEF Init
  <2>2. /\ journal = <<>> /\ cursor = 0 /\ now = 0 /\ last = 0 /\ crashes = 0 /\ pc = "down"
        /\ replaying = TRUE /\ task = "tick" /\ clock = 0 /\ work = {} /\ todo = {} /\ run = 0
        /\ timer = FALSE /\ result = "none" /\ cancelled = {} /\ back = "work"
    BY DEF Init
  <2>3. cursor \in 0..Len(journal) /\ last \in 0..MaxRuns /\ crashes \in 0..MaxCrashes
        /\ run \in 0..MaxRuns
    BY <2>2
  <2>. QED  BY <1>3, <2>1, <2>2, <2>3 DEF TypeOK
<1>5. Apart /\ \A r \in Run : table[r].next >= 1
  BY <1>1, <1>2 DEF Init, Apart
<1>. QED  BY <1>1, <1>3, <1>4, <1>5 DEF Init, ShapeInv

\* What follows from the invariant for a step of any action.
LEMMA ShapeFacts ==
  ASSUME ShapeInv
  PROVE  /\ GoodRow(row) /\ \A r \in Run : GoodRow(table[r])
         /\ clock \in Time /\ now \in Time /\ 0 \notin Run
         /\ live \subseteq Run /\ work \subseteq live
         /\ pc \in {"replaced", "check", "step", "save", "drop", "trace"} => run \in Run
BY DEF ShapeInv, TypeOK, GoodRow, Run

LEMMA TakeStep ==
  ASSUME ShapeInv, Start \/ ReplayDone \/ TakeEvent \/ TakeTick
  PROVE  ShapeInv'
<1>. USE DEF ShapeInv, TypeOK, Apart, runs, world, counts, taken, hand
<1>1. CASE Start
  BY <1>1 DEF Start
<1>2. CASE ReplayDone
  BY <1>2 DEF ReplayDone
<1>3. CASE TakeEvent
  <2>1. Awaiting(journal[cursor + 1]) \subseteq live
    BY DEF Awaiting, Oldest
  <2>2. work' \subseteq live /\ run \notin work'
    BY <1>3, <2>1, ShapeFacts DEF TakeEvent
  <2>. QED  BY <1>3, <2>2 DEF TakeEvent
<1>4. CASE TakeTick
  <2>1. Due(now) \subseteq live
    BY DEF Due, Some
  <2>2. work' \subseteq live /\ run \notin work'
    BY <1>4, <2>1, ShapeFacts DEF TakeTick
  <2>. QED  BY <1>4, <2>2 DEF TakeTick
<1>. QED  BY <1>1, <1>2, <1>3, <1>4

LEMMA ResumeStep ==
  ASSUME ShapeInv, NEW r \in Run, Resume(r) \/ Dequeue(r)
  PROVE  ShapeInv'
<1>. USE DEF ShapeInv, TypeOK, Apart, runs, world, counts, taken, hand
<1>1. r # 0 /\ r \in 0..MaxRuns
  BY DEF Run
<1>2. CASE Resume(r)
  BY <1>1, <1>2 DEF Resume
<1>3. CASE Dequeue(r)
  <2>1. table[r] \in Row /\ table[r].next >= 1
    OBVIOUS
  <2>2. [table[r] EXCEPT !.queued = FALSE] \in Row
        /\ [table[r] EXCEPT !.queued = FALSE].next >= 1
    BY <2>1 DEF Row
  <2>3. table' = [table EXCEPT ![r] = [table[r] EXCEPT !.queued = FALSE]]
    BY <1>3 DEF Dequeue
  <2>4. table' \in [Run -> Row] /\ (\A s \in Run : table'[s].next >= 1)
        /\ row' \in Row /\ row'.next >= 1
    BY <2>2, <2>3, <1>3 DEF Dequeue
  <2>. QED  BY <1>1, <1>3, <2>4 DEF Dequeue
<1>. QED  BY <1>2, <1>3

LEMMA TriggerStep ==
  ASSUME ShapeInv, ListFlows \/ Done \/ (\E f \in Flow : Claim(f))
  PROVE  ShapeInv'
<1>. USE DEF ShapeInv, TypeOK, Apart, runs, world, counts, taken, hand
<1>1. CASE ListFlows
  BY <1>1 DEF ListFlows
<1>2. CASE Done
  <2>1. Passed \in 0..Len(journal)
    BY <1>2 DEF Passed, Done
  <2>2. 0 \in Time
    BY DEF Time
  <2>3. run = 0 /\ work = {}
    BY <1>2 DEF Done
  <2>4. cursor' \in 0..Len(journal')
    BY <1>2, <2>1 DEF Done
  <2>5. TypeOK'
    BY <1>2, <2>2, <2>3, <2>4 DEF Done
  <2>6. Apart' /\ row'.next >= 1 /\ commands' \subseteq CommandRecord
        /\ \A r \in Run : table'[r].next >= 1
    BY <1>2, <2>3 DEF Done
  <2>. HIDE DEF TypeOK, Apart
  <2>. QED  BY <2>5, <2>6
<1>3. ASSUME NEW f \in Flow, Claim(f) PROVE ShapeInv'
  <2>1. NewRow(f) \in Row /\ NewRow(f).next >= 1
    BY NewRowGood, ShapeFacts DEF GoodRow
  <2>. QED  BY <1>3, <2>1 DEF Claim
<1>. QED  BY <1>1, <1>2, <1>3

LEMMA AdmitStep == ASSUME ShapeInv, Admit \/ TraceCancelled PROVE ShapeInv'
<1>. USE DEF ShapeInv, TypeOK, Apart, runs, world, counts, taken, hand
<1>1. CASE Admit
  <2>1. last + 1 \in Run /\ last + 1 \in 0..MaxRuns /\ last + 1 # 0 /\ work = {}
    BY <1>1 DEF Admit, Run
  <2>2. ASSUME NEW queued \in BOOLEAN, Insert(last + 1, queued)
        PROVE  table' \in [Run -> Row] /\ \A s \in Run : table'[s].next >= 1
    <3>1. [row EXCEPT !.queued = queued] \in Row /\ [row EXCEPT !.queued = queued].next >= 1
      BY DEF Row
    <3>. QED  BY <2>1, <2>2, <3>1 DEF Insert
  <2>3. \/ UNCHANGED table
        \/ Insert(last + 1, FALSE) \/ Insert(last + 1, TRUE)
    BY <1>1 DEF Admit, Skip, Replace
  <2>4. table' \in [Run -> Row] /\ \A s \in Run : table'[s].next >= 1
    BY <2>2, <2>3
  <2>5. live' \subseteq Run /\ cancelled' \subseteq Run /\ result' \in Result
        /\ pc' \in {"trace", "replaced", "check"}
    BY <1>1, <2>1 DEF Admit, Skip, Replace, RunsOf, Result, Terminal
  <2>6. /\ last' = last + 1 /\ run' = last + 1 /\ timer' = FALSE /\ back' = "trigger"
        /\ UNCHANGED <<traces, claims, world, cursor, since, updates, crashes, taken, work, todo,
                       row>>
    BY <1>1 DEF Admit
  <2>7. run' \notin work' /\ pc # "down" /\ pc # "idle"
    BY <1>1, <2>1, <2>6 DEF Admit
  <2>8. TypeOK'
    BY <2>1, <2>4, <2>5, <2>6, <2>7
  <2>9. Apart' /\ row'.next >= 1 /\ commands' \subseteq CommandRecord
        /\ \A r \in Run : table'[r].next >= 1
    BY <2>1, <2>4, <2>5, <2>6, <2>7
  <2>. HIDE DEF TypeOK, Apart
  <2>. QED  BY <2>8, <2>9
<1>2. CASE TraceCancelled
  BY ZenonT(30), <1>2 DEF TraceCancelled, Result, Terminal
<1>. QED  BY <1>1, <1>2

LEMMA RunStep ==
  ASSUME ShapeInv, Check \/ Pause \/ SetAutomationEnabled \/ Complete \/ Command
  PROVE  ShapeInv'
<1>. USE DEF ShapeInv, TypeOK, Apart, runs, world, counts, taken, hand
<1>1. {"timed_out", "cancelled", "suspended", "failed", "completed"} \subseteq Result
  BY DEF Result, Terminal
<1>2. CASE Check
  BY <1>1, <1>2 DEF Check
<1>3. CASE Complete
  BY <1>1, <1>3 DEF Complete
<1>4. GoodRow(row) /\ GoodRow(Advanced) /\ clock \in Time
  BY ShapeFacts, AdvancedGood
<1>5. ASSUME row.next <= Len(Plan[row.flow])
      PROVE  /\ Here.delay \in Nat /\ Here.on \subseteq Signal /\ Here.flow \in Flow
             /\ After(clock, Here.delay) \in Instant
  BY <1>4, <1>5, HereAction, AfterInstant DEF Action
<1>6. CASE Pause
  <2>1. row.next <= Len(Plan[row.flow])
    BY <1>6 DEF Pause, At_
  <2>2. PICK wake \in Instant, awaiting \in SUBSET Event : row' = Suspended(Advanced, wake, awaiting, FALSE)
    <3>1. Never \in Instant /\ ({"signal"} \X Here.on) \subseteq Event
      BY <1>5, <2>1 DEF Instant, Never, Event
    <3>. QED  BY <1>5, <1>6, <2>1, <3>1 DEF Pause
  <2>3. GoodRow(row')
    BY <1>4, <2>2, SuspendedGood
  <2>. QED  BY <1>1, <1>6, <2>3 DEF Pause, At_, GoodRow
<1>7. CASE SetAutomationEnabled
  <2>1. row.next <= Len(Plan[row.flow])
    BY <1>7 DEF SetAutomationEnabled, At_
  <2>2. enabled' \in [Flow -> BOOLEAN]
    BY <1>5, <1>7, <2>1 DEF SetAutomationEnabled
  <2>3. GoodRow(row')
    BY <1>4, <1>7 DEF SetAutomationEnabled
  <2>4. pc' \in {"step", "drop"} /\ result' \in Result /\ pc = "step"
    BY <1>1, <1>7 DEF SetAutomationEnabled, At_
  <2>. QED  BY <1>7, <2>2, <2>3, <2>4 DEF SetAutomationEnabled, GoodRow
<1>8. CASE Command
  <2>1. row.next <= Len(Plan[row.flow]) /\ pc = "step"
    BY <1>8 DEF Command, At_
  <2>2. KeyOf \in Key
    <3>1. run \in Run /\ row.next \in Nat /\ row.retry \in Nat
      BY <2>1, ShapeFacts DEF GoodRow, Row
    <3>. QED  BY <3>1 DEF KeyOf, Key
  <2>3. commands' \subseteq CommandRecord
    <3>1. Accepted \/ Refused
      BY <1>8 DEF Command
    <3>2. \A s \in {"sent", "failed"} : Request(s) \in CommandRecord
      BY <2>2, <1>4 DEF CommandRecord, Request
    <3>. QED  BY <3>1, <3>2 DEF Accepted, Refused
  <2>4. \A c \in commands' : /\ c.key \in Key /\ c.at \in Time /\ c.sent \in Time
                             /\ c.status \in {"sent", "failed", "confirmed"}
    BY <2>3 DEF CommandRecord
  <2>5. GoodRow(row')
    <3>1. {<<"confirmed", KeyOf>>} \in SUBSET Event
      BY <2>2 DEF Event
    <3>2. GoodRow([row EXCEPT !.retry = @ + 1])
      BY <1>4, AdvancedGood
    <3>3. GoodRow(Suspended(Advanced, After(clock, Here.delay), {<<"confirmed", KeyOf>>}, TRUE))
      BY <1>4, <1>5, <2>1, <3>1, SuspendedGood
    <3>4. GoodRow(Suspended([row EXCEPT !.retry = @ + 1], After(clock, Here.delay), {}, FALSE))
      BY <1>4, <1>5, <2>1, <3>2, SuspendedGood
    <3>. QED  BY <1>4, <1>8, <3>3, <3>4 DEF Command
  <2>6. pc' \in {"step", "save", "drop"} /\ result' \in Result
    BY <1>1, <1>8, <2>1 DEF Command
  <2>7. UNCHANGED <<runs, flows, enabled, journal, now, cursor, counts, taken, work, todo, run, timer,
                    cancelled, back>>
    BY <1>8 DEF Command
  <2>. QED  BY <2>1, <2>3, <2>4, <2>5, <2>6, <2>7 DEF GoodRow
<1>. QED  BY <1>2, <1>3, <1>6, <1>7, <1>8

LEMMA EndStep == ASSUME ShapeInv, Save \/ Drop \/ Trace PROVE ShapeInv'
<1>. USE DEF ShapeInv, TypeOK, Apart, runs, world, counts, taken, hand
<1>1. CASE Save
  <2>1. run \in Run
    BY <1>1, ShapeFacts DEF Save
  <2>2. table' \in [Run -> Row] /\ \A s \in Run : table'[s].next >= 1
    BY <1>1, <2>1 DEF Save
  <2>0. cursor \in Nat /\ cursor + 1 \in Nat
    OBVIOUS
  <2>3. since' \in [Run -> Nat]
    BY <1>1, <2>0 DEF Save
  <2>. QED  BY <1>1, <2>1, <2>2, <2>3 DEF Save
<1>2. CASE Drop
  <2>1. work \subseteq live \ {run} /\ live' = live \ {run} /\ live' \subseteq Run
    BY <1>2 DEF Drop
  <2>2. run # 0
    BY <1>2 DEF Drop
  <2>3. TypeOK'
    BY <1>2, <2>1, <2>2 DEF Drop
  <2>4. Apart' /\ row'.next >= 1 /\ commands' \subseteq CommandRecord
        /\ \A r \in Run : table'[r].next >= 1
    BY <1>2 DEF Drop
  <2>. HIDE DEF TypeOK, Apart
  <2>. QED  BY <2>3, <2>4
<1>3. CASE Trace
  <2>1. Blank \in Row /\ Blank.next >= 1
    BY BlankGood DEF GoodRow
  <2>2. 0 \notin Run
    BY DEF Run
  <2>3. traces' \in [Run -> Result] /\ "none" \in Result /\ pc' \in {"work", "trigger"}
        /\ pc # "down" /\ pc # "idle" /\ (pc' = "work" => back = "work")
        /\ (pc' = "trigger" => work = {})
    BY <1>3 DEF Trace, Result
  <2>4. TypeOK'
    <3>1. run' \in 0..MaxRuns /\ row' \in Row /\ timer' \in BOOLEAN /\ result' \in Result
      <4>1. run' = 0 /\ row' = Blank /\ timer' = FALSE /\ result' = "none"
        BY <1>3 DEF Trace
      <4>2. 0 \in 0..MaxRuns
        OBVIOUS
      <4>3. run' \in 0..MaxRuns /\ row' \in Row
        BY <2>1, <4>1, <4>2
      <4>4. timer' \in BOOLEAN /\ result' \in Result
        BY <2>1, <2>3, <4>1
      <4>. QED  BY <4>3, <4>4
    <3>2. UNCHANGED <<live, table, claims, world, cursor, counts, taken, work, todo, cancelled, back>>
      BY <1>3 DEF Trace
    <3>. QED  BY <2>3, <3>1, <3>2
  <2>5. Apart' /\ row'.next >= 1 /\ commands' \subseteq CommandRecord
        /\ \A r \in Run : table'[r].next >= 1
    BY <1>3, <2>1, <2>2, <2>3 DEF Trace
  <2>. HIDE DEF TypeOK, Apart
  <2>. QED  BY <2>4, <2>5
<1>. QED  BY <1>1, <1>2, <1>3

LEMMA ConfirmedRecord ==
  ASSUME NEW c \in CommandRecord
  PROVE  [c EXCEPT !.status = "confirmed"] \in CommandRecord /\ <<"confirmed", c.key>> \in Event
BY DEF CommandRecord, Event

LEMMA WorldStep == ASSUME ShapeInv, World PROVE ShapeInv'
<1>. USE DEF ShapeInv, TypeOK, Apart, runs, world, counts, taken, hand
<1>1. ASSUME NEW e \in Event, journal' = Append(journal, e)
      PROVE  /\ journal' \in Seq(Event) /\ cursor \in 0..Len(journal')
             /\ cursor < Len(journal) => cursor < Len(journal')
  <2>1. Len(journal') = Len(journal) + 1 /\ Len(journal) \in Nat
    BY <1>1
  <2>. QED  BY <1>1, <2>1
<1>2. ASSUME NEW s \in Signal, Occur(s) PROVE ShapeInv'
  <2>1. <<"signal", s>> \in Event
    BY DEF Event
  <2>2. /\ journal' \in Seq(Event) /\ cursor \in 0..Len(journal')
        /\ cursor < Len(journal) => cursor < Len(journal')
    BY <1>1, <1>2, <2>1 DEF Occur
  <2>3. UNCHANGED <<runs, flows, enabled, commands, now, cursor, counts, pc, taken, work, todo, hand>>
    BY <1>2 DEF Occur
  <2>4. TypeOK'
    BY <2>2, <2>3
  <2>5. Apart' /\ row'.next >= 1 /\ commands' \subseteq CommandRecord
        /\ \A r \in Run : table'[r].next >= 1
    BY <2>2, <2>3
  <2>. QED  BY <2>4, <2>5
<1>3. ASSUME NEW c \in commands, Confirm(c) PROVE ShapeInv'
  <2>1. [c EXCEPT !.status = "confirmed"] \in CommandRecord
    BY ConfirmedRecord
  <2>2. <<"confirmed", c.key>> \in Event
    BY ConfirmedRecord
  <2>3. /\ journal' \in Seq(Event) /\ cursor \in 0..Len(journal')
        /\ cursor < Len(journal) => cursor < Len(journal')
    BY <1>1, <1>3, <2>2 DEF Confirm
  <2>4. commands' \subseteq CommandRecord
    BY <1>3, <2>1 DEF Confirm
  <2>5. \A d \in commands' : /\ d.key \in Key /\ d.at \in Time /\ d.sent \in Time
                             /\ d.status \in {"sent", "failed", "confirmed"}
    BY <2>4 DEF CommandRecord
  <2>6. UNCHANGED <<runs, flows, enabled, now, cursor, counts, pc, taken, work, todo, hand>>
    BY <1>3 DEF Confirm
  <2>7. TypeOK'
    BY <2>3, <2>5, <2>6
  <2>8. Apart' /\ row'.next >= 1 /\ \A r \in Run : table'[r].next >= 1
    BY <2>3, <2>6
  <2>. HIDE DEF TypeOK, Apart
  <2>. QED  BY <2>4, <2>7, <2>8
<1>4. ASSUME NEW f \in Flow, Update(f) PROVE ShapeInv'
  BY SMTT(30), <1>4 DEF Update
<1>5. CASE Tick
  BY <1>5 DEF Tick, Time
<1>6. CASE Crash
  <2>1. Blank \in Row /\ Blank.next >= 1 /\ 0 \notin Run
    BY BlankGood DEF GoodRow, Run
  <2>2. 0 \in Time /\ "none" \in Result
    BY DEF Time, Result
  <2>3. live' \subseteq Run /\ 0 \notin work' /\ work' \subseteq live'
    BY <1>6, <2>1 DEF Crash
  <2>4. crashes' \in 0..MaxCrashes
    BY <1>6 DEF Crash
  <2>5. TypeOK'
    <3>1. run' \in 0..MaxRuns /\ row' \in Row /\ timer' \in BOOLEAN /\ result' \in Result
      <4>1. run' = 0 /\ row' = Blank /\ timer' = FALSE /\ result' = "none"
        BY <1>6 DEF Crash
      <4>2. 0 \in 0..MaxRuns
        OBVIOUS
      <4>3. run' \in 0..MaxRuns /\ row' \in Row
        BY <2>1, <4>1, <4>2
      <4>4. timer' \in BOOLEAN /\ result' \in Result
        BY <2>1, <2>2, <4>1
      <4>. QED  BY <4>3, <4>4
    <3>2. /\ pc' = "down" /\ replaying' = TRUE /\ task' = "tick" /\ clock' \in Time
          /\ work' = {} /\ todo' = {} /\ cancelled' = {} /\ back' = "work"
      BY <1>6, <2>2 DEF Crash
    <3>3. UNCHANGED <<runs, world, cursor, last, cause, since, updates>>
      BY <1>6 DEF Crash
    <3>. QED  BY <2>4, <3>1, <3>2, <3>3
  <2>6. Apart' /\ row'.next >= 1 /\ commands' \subseteq CommandRecord
        /\ \A r \in Run : table'[r].next >= 1
    BY <1>6, <2>1, <2>2, <2>3, <2>4 DEF Crash
  <2>. HIDE DEF TypeOK, Apart
  <2>. QED  BY <2>5, <2>6
<1>. QED  BY <1>2, <1>3, <1>4, <1>5, <1>6 DEF World

LEMMA ShapeInvStep == ShapeInv /\ [Next]_vars => ShapeInv'
<1> SUFFICES ASSUME ShapeInv, [Next]_vars PROVE ShapeInv'
  OBVIOUS
<1>1. CASE Engine
  BY <1>1, TakeStep, ResumeStep, TriggerStep, AdmitStep, RunStep, EndStep DEF Engine
<1>2. CASE World
  BY <1>2, WorldStep
<1>3. CASE UNCHANGED vars
  BY <1>3 DEF vars, ShapeInv, TypeOK, Apart
<1>. QED  BY <1>1, <1>2, <1>3 DEF Next

\* Every variable of the runs keeps its type, whatever the plans and policies
\* and however often the process dies.
THEOREM TypeCorrect == Spec => []TypeOK
<1>1. ShapeInv => TypeOK
  BY DEF ShapeInv
<1>. QED  BY <1>1, ShapeInvInit, ShapeInvStep, PTL DEF Spec

-----------------------------------------------------------------------------
(* The run at hand. *)

\* The run at hand is a row of its own flow that waits no more; what was read
\* from the table to be resumed waits no more either; only the replaced runs
\* of the last admission are still to be traced.
HandInv ==
    /\ live \subseteq 1..last /\ cancelled \subseteq 1..last /\ run <= last
    /\ \A r \in work : table[r].queued = FALSE
    /\ pc = "admit" => row.queued = FALSE
    /\ pc \in {"replaced", "check", "step", "save", "drop"} =>
          /\ run \in live /\ row.queued = FALSE /\ table[run].queued = FALSE
          /\ row.flow = table[run].flow
    /\ pc # "replaced" => cancelled = {}
    /\ cancelled \cap live = {}

LEMMA HandInvInit == Init => HandInv
BY DEF Init, HandInv

LEMMA NextRun ==
  ASSUME ShapeInv, HandInv, last < MaxRuns
  PROVE  /\ last + 1 \in Run /\ last + 1 \notin live /\ last + 1 \notin cancelled
         /\ last + 1 # run /\ 1..last \subseteq 1..(last + 1)
         /\ 1..(last + 1) = 1..last \cup {last + 1}
<1>1. last \in Nat /\ MaxRuns \in Nat /\ run \in 0..MaxRuns
  BY DEF ShapeInv, TypeOK
<1>2. last + 1 \in Run /\ last + 1 \notin 1..last /\ 1..(last + 1) = 1..last \cup {last + 1}
  BY <1>1 DEF Run
<1>3. last + 1 # run
  BY <1>1 DEF HandInv
<1>. QED  BY <1>2, <1>3 DEF HandInv

LEMMA SuspendedKeeps ==
  ASSUME NEW from, from \in Row, NEW wake, NEW awaiting, NEW fails \in BOOLEAN
  PROVE  /\ Suspended(from, wake, awaiting, fails).queued = FALSE
         /\ Suspended(from, wake, awaiting, fails).flow = from.flow
         /\ Suspended(from, wake, awaiting, fails).deadline = from.deadline
BY DEF Suspended, Row

\* The copy in memory that a command or a pause leaves behind.
LEMMA RowStep ==
  ASSUME ShapeInv, row.queued = FALSE, Check \/ Pause \/ SetAutomationEnabled \/ Complete \/ Command
  PROVE  row'.queued = FALSE /\ row'.flow = row.flow /\ row'.deadline = row.deadline
<1>. row \in Row
  BY DEF ShapeInv, TypeOK
<1>2. /\ Advanced \in Row /\ Advanced.flow = row.flow /\ Advanced.queued = FALSE
      /\ Advanced.deadline = row.deadline
  <2>1. GoodRow(Advanced)
    BY AdvancedGood DEF ShapeInv, TypeOK, GoodRow
  <2>. QED  BY <2>1 DEF GoodRow, Advanced, Row
<1>3. /\ [row EXCEPT !.retry = @ + 1] \in Row /\ [row EXCEPT !.retry = @ + 1].flow = row.flow
      /\ [row EXCEPT !.retry = @ + 1].deadline = row.deadline
  <2>1. GoodRow([row EXCEPT !.retry = @ + 1])
    BY AdvancedGood DEF ShapeInv, TypeOK, GoodRow
  <2>. QED  BY <2>1 DEF GoodRow, Row
<1>4. CASE Check
  BY <1>4 DEF Check
<1>5. CASE Complete
  BY <1>5 DEF Complete
<1>6. CASE SetAutomationEnabled
  BY <1>2, <1>6 DEF SetAutomationEnabled
<1>7. CASE Pause
  <2>1. PICK wake, awaiting : row' = Suspended(Advanced, wake, awaiting, FALSE)
    BY <1>7 DEF Pause
  <2>2. /\ Suspended(Advanced, wake, awaiting, FALSE).queued = FALSE
        /\ Suspended(Advanced, wake, awaiting, FALSE).flow = Advanced.flow
        /\ Suspended(Advanced, wake, awaiting, FALSE).deadline = Advanced.deadline
    BY <1>2, SuspendedKeeps
  <2>. QED  BY <1>2, <2>1, <2>2
<1>8. CASE Command
  <2>1. \/ row' = Advanced \/ row' = row
        \/ \E wake, awaiting : row' = Suspended(Advanced, wake, awaiting, TRUE)
        \/ \E wake : row' = Suspended([row EXCEPT !.retry = @ + 1], wake, {}, FALSE)
    BY <1>8 DEF Command
  <2>2. ASSUME NEW wake, NEW awaiting
        PROVE  /\ Suspended(Advanced, wake, awaiting, TRUE).queued = FALSE
               /\ Suspended(Advanced, wake, awaiting, TRUE).flow = row.flow
               /\ Suspended(Advanced, wake, awaiting, TRUE).deadline = row.deadline
    <3>1. PICK from \in Row : from = Advanced
      BY <1>2
    <3>2. /\ Suspended(from, wake, awaiting, TRUE).queued = FALSE
          /\ Suspended(from, wake, awaiting, TRUE).flow = from.flow
          /\ Suspended(from, wake, awaiting, TRUE).deadline = from.deadline
      BY SuspendedKeeps
    <3>. QED  BY <1>2, <3>1, <3>2
  <2>3. ASSUME NEW wake
        PROVE  /\ Suspended([row EXCEPT !.retry = @ + 1], wake, {}, FALSE).queued = FALSE
               /\ Suspended([row EXCEPT !.retry = @ + 1], wake, {}, FALSE).flow = row.flow
               /\ Suspended([row EXCEPT !.retry = @ + 1], wake, {}, FALSE).deadline = row.deadline
    <3>1. PICK from \in Row : from = [row EXCEPT !.retry = @ + 1]
      BY <1>3
    <3>2. /\ Suspended(from, wake, {}, FALSE).queued = FALSE
          /\ Suspended(from, wake, {}, FALSE).flow = from.flow
          /\ Suspended(from, wake, {}, FALSE).deadline = from.deadline
      BY SuspendedKeeps
    <3>. QED  BY <1>3, <3>1, <3>2
  <2>. QED  BY <1>2, <2>1, <2>2, <2>3
<1>. QED  BY <1>4, <1>5, <1>6, <1>7, <1>8

LEMMA InsertedRow ==
  ASSUME ShapeInv, NEW r \in Run, NEW queued \in BOOLEAN, Insert(r, queued)
  PROVE  /\ table'[r].flow = row.flow /\ table'[r].queued = queued /\ table'[r].wake = row.wake
         /\ table'[r].deadline = row.deadline
         /\ \A s \in Run : s # r => table'[s] = table[s]
<1>1. row \in Row /\ table \in [Run -> Row]
  BY DEF ShapeInv, TypeOK
<1>2. [row EXCEPT !.queued = queued].queued = queued
      /\ [row EXCEPT !.queued = queued].flow = row.flow
      /\ [row EXCEPT !.queued = queued].wake = row.wake
      /\ [row EXCEPT !.queued = queued].deadline = row.deadline
  BY <1>1 DEF Row
<1>. QED  BY <1>1, <1>2 DEF Insert

\* What a step does to the table of runs.
TableKept == live' = live /\ table' = table
TableDequeues == \E r \in live :
    /\ Dequeue(r)
    /\ live' = live /\ table'[r].queued = FALSE /\ table'[r].flow = table[r].flow
    /\ table'[r].wake = table[r].wake
    /\ \A s \in Run : s # r => table'[s] = table[s]
TableSaves ==
    /\ run \in live /\ table[run].queued = FALSE /\ live' = live /\ pc = "save"
    /\ table'[run].queued = FALSE /\ table'[run].flow = table[run].flow
    /\ \A s \in Run : s # run => table'[s] = table[s]
TableDrops == live' = live \ {run} /\ table' = table
TableInserts == \E queued \in BOOLEAN : LET r == last + 1 IN
    /\ Admit /\ pc = "admit" /\ last' = r /\ r \in Run /\ r \notin live
    /\ table'[r].flow = row.flow /\ table'[r].queued = queued /\ table'[r].wake = row.wake
    /\ \A s \in Run : s # r => table'[s] = table[s]
    /\ \/ Mode[row.flow] = "restart" /\ live' = (live \ RunsOf(row.flow)) \cup {r} /\ ~queued
       \/ /\ Mode[row.flow] # "restart" /\ RunsOf(row.flow) = {} /\ live' = live \cup {r} /\ ~queued
       \/ /\ Mode[row.flow] = "queue" /\ ~Full(row.flow) /\ live' = live \cup {r} /\ queued
          /\ RunsOf(row.flow) # {}

LEMMA TableSteps ==
  ASSUME ShapeInv, HandInv, [Next]_vars
  PROVE  TableKept \/ TableDequeues \/ TableSaves \/ TableDrops \/ TableInserts
<1>. live \subseteq Run /\ table \in [Run -> Row] /\ last \in Nat
  BY DEF ShapeInv, TypeOK
<1>1. CASE \E r \in Run : Dequeue(r)
  <2>1. PICK r \in Run : Dequeue(r)
    BY <1>1
  <2>2. r \in live
    BY <2>1 DEF Dequeue, NextQueued, Startable, Some, Queued
  <2>3. table' = [table EXCEPT ![r] = [table[r] EXCEPT !.queued = FALSE]] /\ live' = live
    BY <2>1 DEF Dequeue
  <2>4. [table[r] EXCEPT !.queued = FALSE].queued = FALSE
        /\ [table[r] EXCEPT !.queued = FALSE].flow = table[r].flow
        /\ [table[r] EXCEPT !.queued = FALSE].wake = table[r].wake
    BY DEF Row
  <2>. QED  BY <2>1, <2>2, <2>3, <2>4 DEF TableDequeues
<1>2. CASE Save
  BY <1>2 DEF Save, HandInv, TableSaves
<1>3. CASE Drop
  BY <1>3 DEF Drop, TableDrops
<1>4. CASE Admit
  <2>1. last + 1 \in Run /\ last + 1 \notin live
    BY <1>4, NextRun DEF Admit
  <2>2. ASSUME NEW queued \in BOOLEAN, Insert(last + 1, queued)
        PROVE  /\ table'[last + 1].flow = row.flow /\ table'[last + 1].queued = queued
               /\ table'[last + 1].wake = row.wake
               /\ \A s \in Run : s # last + 1 => table'[s] = table[s]
    BY <2>1, <2>2, InsertedRow
  <2>3. CASE Skip
    BY <2>3 DEF Skip, TableKept
  <2>4. CASE Mode[row.flow] = "restart" /\ Replace(last + 1)
    BY <1>4, <2>1, <2>2, <2>4 DEF Admit, Replace, TableInserts
  <2>5. CASE /\ Mode[row.flow] # "restart" /\ RunsOf(row.flow) = {}
             /\ live' = live \cup {last + 1} /\ Insert(last + 1, FALSE)
    BY <1>4, <2>1, <2>2, <2>5 DEF Admit, TableInserts
  <2>6. CASE /\ Mode[row.flow] = "queue" /\ RunsOf(row.flow) # {} /\ ~Full(row.flow)
             /\ live' = live \cup {last + 1} /\ Insert(last + 1, TRUE)
    BY <1>4, <2>1, <2>2, <2>6 DEF Admit, TableInserts
  <2>. QED  BY <1>4, <2>3, <2>4, <2>5, <2>6 DEF Admit
<1>5. CASE \/ Start \/ ReplayDone \/ TakeEvent \/ TakeTick \/ ListFlows \/ TraceCancelled \/ Check
           \/ Command \/ Pause \/ SetAutomationEnabled \/ Complete \/ Trace \/ Done
           \/ (\E r \in Run : Resume(r)) \/ \E f \in Flow : Claim(f)
  BY <1>5 DEF TableKept, runs, Start, ReplayDone, TakeEvent, TakeTick, ListFlows, TraceCancelled,
     Check, Command, Pause, SetAutomationEnabled, Complete, Trace, Done, Resume, Claim
<1>6. CASE World
  BY <1>6 DEF TableKept, runs, World, Occur, Confirm, Update, Tick, Crash
<1>7. CASE UNCHANGED vars
  BY <1>7 DEF TableKept, vars
<1>. QED  BY <1>1, <1>2, <1>3, <1>4, <1>5, <1>6, <1>7 DEF Next, Engine

LEMMA HandInvStep == ShapeInv /\ ShapeInv' /\ HandInv /\ [Next]_vars => HandInv'
<1> SUFFICES ASSUME ShapeInv, ShapeInv', HandInv, [Next]_vars
             PROVE  HandInv'
  OBVIOUS
<1>. USE DEF HandInv, runs, world, counts, taken, hand
<1>0. /\ live \subseteq Run /\ table \in [Run -> Row] /\ work \subseteq live /\ last \in Nat
      /\ run \in 0..MaxRuns
  BY SMTT(30) DEF ShapeInv, TypeOK
<1>1. CASE Start \/ ReplayDone \/ ListFlows \/ Done
  BY <1>0, <1>1 DEF Start, ReplayDone, ListFlows, Done
<1>13. CASE TraceCancelled
  BY <1>0, <1>13 DEF TraceCancelled
<1>14. CASE Trace
  <2>1. run' = 0 /\ pc' \in {"work", "trigger"}
    BY <1>14 DEF Trace, ShapeInv, TypeOK
  <2>. QED  BY <1>0, <1>14, <2>1 DEF Trace
<1>2. CASE TakeEvent
  <2>1. \A r \in Awaiting(journal[cursor + 1]) : table[r].queued = FALSE
    BY <1>0 DEF Awaiting, Oldest, Row
  <2>. QED  BY <1>2, <2>1 DEF TakeEvent
<1>3. CASE TakeTick
  <2>1. \A r \in Due(now) : table[r].queued = FALSE
    BY <1>0 DEF Due, Some, Row
  <2>. QED  BY <1>3, <2>1 DEF TakeTick
<1>4. ASSUME NEW r \in Run, Resume(r) PROVE HandInv'
  <2>0. r \in live
    BY <1>0, <1>4 DEF Resume
  <2>1. r \in live /\ r <= last
    BY <1>0, <2>0
  <2>. QED  BY <1>4, <2>1 DEF Resume
<1>5. ASSUME NEW r \in Run, Dequeue(r) PROVE HandInv'
  <2>0. r \in live
    BY <1>5 DEF Dequeue, NextQueued, Startable, Some, Queued
  <2>1. r \in live /\ r <= last
    BY <1>0, <2>0
  <2>2. row' = table'[r] /\ table'[r].queued = FALSE
    <3>1. table' = [table EXCEPT ![r] = [table[r] EXCEPT !.queued = FALSE]]
      BY <1>5 DEF Dequeue
    <3>. QED  BY <1>0, <1>5, <3>1 DEF Dequeue, Row
  <2>. QED  BY <1>5, <2>1, <2>2 DEF Dequeue
<1>6. ASSUME NEW f \in Flow, Claim(f) PROVE HandInv'
  <2>1. NewRow(f).queued = FALSE
    BY DEF NewRow, Blank
  <2>. QED  BY <1>6, <2>1 DEF Claim
<1>7. CASE Admit
  <2>1. /\ last + 1 \in Run /\ last + 1 \notin live /\ last + 1 \notin cancelled
        /\ 1..(last + 1) = 1..last \cup {last + 1}
    BY <1>7, NextRun DEF Admit
  <2>2. last' = last + 1 /\ run' = last + 1 /\ row' = row /\ work' = {} /\ row.queued = FALSE
        /\ pc = "admit" /\ cancelled = {}
    BY <1>7 DEF Admit, ShapeInv, Apart
  <2>3. ASSUME Insert(last + 1, FALSE)
        PROVE  table'[last + 1].queued = FALSE /\ table'[last + 1].flow = row.flow
    BY <2>1, <2>3, InsertedRow
  <2>4. CASE Skip
    BY <1>0, <2>1, <2>2, <2>4 DEF Skip
  <2>5. CASE Replace(last + 1)
    <3>0. Insert(last + 1, FALSE) /\ last + 1 \in live'
      BY <2>5 DEF Replace
    <3>1. /\ table'[run'].queued = FALSE /\ table'[run'].flow = row'.flow /\ row'.queued = FALSE
          /\ run' \in live' /\ run' <= last'
      <4>1. table'[last + 1].queued = FALSE /\ table'[last + 1].flow = row.flow
        BY <2>3, <3>0
      <4>2. run' \in live' /\ run' <= last'
        BY <1>0, <2>2, <3>0
      <4>. QED  BY <2>2, <4>1, <4>2
    <3>2. live' \subseteq 1..last' /\ cancelled' \subseteq 1..last' /\ cancelled' \cap live' = {}
      BY <2>1, <2>2, <2>5 DEF Replace, RunsOf
    <3>. QED  BY <2>2, <2>5, <3>1, <3>2 DEF Replace
  <2>6. CASE /\ live' = live \cup {last + 1} /\ Insert(last + 1, FALSE) /\ pc' = "check"
             /\ UNCHANGED cancelled
    <3>0. Insert(last + 1, FALSE) /\ last + 1 \in live'
      BY <2>6
    <3>1. /\ table'[run'].queued = FALSE /\ table'[run'].flow = row'.flow /\ row'.queued = FALSE
          /\ run' \in live' /\ run' <= last'
      <4>1. table'[last + 1].queued = FALSE /\ table'[last + 1].flow = row.flow
        BY <2>3, <3>0
      <4>2. run' \in live' /\ run' <= last'
        BY <1>0, <2>2, <3>0
      <4>. QED  BY <2>2, <4>1, <4>2
    <3>2. live' \subseteq 1..last' /\ cancelled' = {}
      BY <2>1, <2>2, <2>6
    <3>. QED  BY <2>2, <2>6, <3>1, <3>2
  <2>7. CASE live' = live \cup {last + 1} /\ pc' = "trace" /\ UNCHANGED cancelled
    BY <1>0, <2>1, <2>2, <2>7
  <2>. QED  BY <1>7, <2>4, <2>5, <2>6, <2>7 DEF Admit
<1>8. CASE Check \/ Pause \/ SetAutomationEnabled \/ Complete \/ Command
  <2>1. pc \in {"check", "step"} /\ pc' \in {"step", "save", "drop"}
    BY <1>8 DEF Check, Pause, SetAutomationEnabled, Complete, Command, At_
  <2>2. row'.queued = FALSE /\ row'.flow = row.flow
    BY <1>8, <2>1, RowStep
  <2>3. UNCHANGED <<live, table, last, cancelled, run, work>>
    BY <1>8 DEF Check, Pause, SetAutomationEnabled, Complete, Command
  <2>. QED  BY <2>1, <2>2, <2>3
<1>9. CASE Save
  <2>1. live' = live /\ work' = work /\ run \notin work
    BY <1>9 DEF Save, ShapeInv, Apart
  <2>2. \A s \in Run : s # run => table'[s] = table[s]
    BY <1>0, <1>9 DEF Save
  <2>. QED  BY <1>0, <1>9, <2>1, <2>2 DEF Save
<1>10. CASE Drop
  BY <1>10 DEF Drop
<1>11. CASE World
  <2>1. UNCHANGED <<live, table, last>>
    BY <1>11 DEF World, Occur, Confirm, Update, Tick, Crash
  <2>2. CASE Crash
    BY <1>0, <2>1, <2>2 DEF Crash
  <2>3. CASE UNCHANGED <<pc, work, hand>>
    BY <2>1, <2>3
  <2>. QED  BY <1>11, <2>2, <2>3 DEF World, Occur, Confirm, Update, Tick
<1>12. CASE UNCHANGED vars
  BY <1>12 DEF vars
<1>. QED  BY <1>1, <1>2, <1>3, <1>4, <1>5, <1>6, <1>7, <1>8, <1>9, <1>10, <1>11, <1>12, <1>13,
      <1>14 DEF Next, Engine

-----------------------------------------------------------------------------
(* Policies. *)

PolicyInv == \A f \in Flow :
    /\ \A r, s \in Active(f) : r = s
    /\ Mode[f] # "queue" => \A r, s \in RunsOf(f) : r = s
    /\ Mode[f] = "queue" => Cardinality(RunsOf(f)) <= MaxQueue[f]

LEMMA RunsFinite ==
  ASSUME ShapeInv, NEW f
  PROVE  /\ IsFiniteSet(RunsOf(f)) /\ Cardinality(RunsOf(f)) \in Nat /\ Active(f) \subseteq RunsOf(f)
         /\ RunsOf(f) \subseteq live
<1>1. IsFiniteSet(Run)
  BY FS_Interval DEF Run
<1>2. RunsOf(f) \subseteq Run /\ Active(f) \subseteq RunsOf(f) /\ RunsOf(f) \subseteq live
  BY DEF ShapeInv, TypeOK, RunsOf, Active
<1>. QED  BY <1>1, <1>2, FS_Subset, FS_CardinalityType

LEMMA PolicyFollows == ASSUME ShapeInv, PolicyInv PROVE PolicyHolds
<1> SUFFICES ASSUME NEW f \in Flow
             PROVE  /\ Cardinality(Active(f)) <= 1
                    /\ Cardinality(RunsOf(f)) <= IF Mode[f] = "queue" THEN MaxQueue[f] ELSE 1
  BY DEF PolicyHolds
<1>1. ASSUME NEW S, \A r, s \in S : r = s
      PROVE  Cardinality(S) <= 1
  <2>1. CASE S = {}
    <3>1. Cardinality({}) = 0
      BY FS_EmptySet
    <3>. QED  BY <2>1, <3>1
  <2>2. ASSUME NEW x \in S PROVE Cardinality(S) <= 1
    <3>1. S = {x}
      BY <1>1, <2>2
    <3>2. Cardinality({x}) = 1
      BY FS_Singleton
    <3>. QED  BY <3>1, <3>2
  <2>. QED  BY <2>1, <2>2
<1>2. Cardinality(Active(f)) <= 1
  BY <1>1 DEF PolicyInv
<1>3. Mode[f] # "queue" => Cardinality(RunsOf(f)) <= 1
  BY <1>1 DEF PolicyInv
<1>. QED  BY <1>2, <1>3 DEF PolicyInv

LEMMA PolicyInvInit == Init => PolicyInv
<1> SUFFICES ASSUME Init, NEW f \in Flow
             PROVE  RunsOf(f) = {} /\ Active(f) = {} /\ Cardinality({}) <= MaxQueue[f]
  BY DEF PolicyInv
<1>1. RunsOf(f) = {} /\ Active(f) = {}
  BY DEF Init, RunsOf, Active
<1>2. Cardinality({}) = 0 /\ MaxQueue[f] \in Nat
  BY FS_EmptySet
<1>. QED  BY <1>1, <1>2

LEMMA PolicyInvStep == ShapeInv /\ HandInv /\ PolicyInv /\ [Next]_vars => PolicyInv'
<1> SUFFICES ASSUME ShapeInv, HandInv, PolicyInv, [Next]_vars, NEW f \in Flow
             PROVE  (/\ \A r, s \in Active(f) : r = s
                     /\ Mode[f] # "queue" => \A r, s \in RunsOf(f) : r = s
                     /\ Mode[f] = "queue" => Cardinality(RunsOf(f)) <= MaxQueue[f])'
  BY DEF PolicyInv
<1>. DEFINE R == RunsOf(f)  A == Active(f)
<1>0. /\ \A r, s \in A : r = s
      /\ Mode[f] # "queue" => \A r, s \in R : r = s
      /\ Mode[f] = "queue" => Cardinality(R) <= MaxQueue[f]
      /\ live \subseteq Run /\ MaxQueue[f] \in Nat /\ MaxQueue[f] >= 1
      /\ IsFiniteSet(R) /\ Cardinality(R) \in Nat
  BY SMTT(30), RunsFinite DEF PolicyInv, ShapeInv, TypeOK
\* Fewer runs, and no new active ones, keep the policy.
<1>1. ASSUME R' \subseteq R, A' \subseteq A
      PROVE  /\ \A r, s \in A' : r = s
             /\ Mode[f] # "queue" => \A r, s \in R' : r = s
             /\ Mode[f] = "queue" => Cardinality(R') <= MaxQueue[f]
  <2>1. Cardinality(R') \in Nat /\ Cardinality(R') <= Cardinality(R)
    BY <1>0, <1>1, FS_Subset, FS_CardinalityType
  <2>. QED  BY <1>0, <1>1, <2>1
<1>2. CASE TableKept
  <2>1. R' \subseteq R /\ A' \subseteq A
    BY <1>2 DEF TableKept, RunsOf, Active
  <2>. QED  BY <1>1, <2>1
<1>3. CASE TableDrops
  <2>1. R' \subseteq R /\ A' \subseteq A
    BY <1>3 DEF TableDrops, RunsOf, Active
  <2>. QED  BY <1>1, <2>1
<1>4. CASE TableSaves
  <2>1. R' \subseteq R /\ A' \subseteq A
    BY <1>0, <1>4 DEF TableSaves, RunsOf, Active
  <2>. QED  BY <1>1, <2>1
<1>5. CASE TableDequeues
  <2>1. PICK r \in live : /\ Dequeue(r)
                          /\ live' = live /\ table'[r].flow = table[r].flow
                          /\ \A s \in Run : s # r => table'[s] = table[s]
    BY <1>5 DEF TableDequeues
  <2>2. R' \subseteq R
    BY <1>0, <2>1 DEF RunsOf
  <2>3. CASE table[r].flow # f
    <3>1. A' \subseteq A
      BY <1>0, <2>1, <2>3 DEF RunsOf, Active
    <3>. QED  BY <1>1, <2>2, <3>1
  <2>4. CASE table[r].flow = f
    <3>1. A = {}
      BY <2>1, <2>4 DEF Dequeue, NextQueued, Startable
    <3>2. \A s \in A' : s = r
      BY <1>0, <2>1, <3>1 DEF RunsOf, Active
    <3>3. Cardinality(R') \in Nat /\ Cardinality(R') <= Cardinality(R)
      BY <1>0, <2>2, FS_Subset, FS_CardinalityType
    <3>. QED  BY <1>0, <2>2, <3>2, <3>3
  <2>. QED  BY <2>3, <2>4
<1>6. CASE TableInserts
  <2>1. PICK queued, n :
          /\ queued \in BOOLEAN /\ n = last + 1 /\ n \in Run /\ n \notin live
          /\ table'[n].flow = row.flow /\ table'[n].queued = queued
          /\ \A s \in Run : s # n => table'[s] = table[s]
          /\ \/ /\ Mode[row.flow] = "restart" /\ live' = (live \ RunsOf(row.flow)) \cup {n}
             \/ /\ Mode[row.flow] # "restart" /\ RunsOf(row.flow) = {} /\ live' = live \cup {n}
             \/ /\ Mode[row.flow] = "queue" /\ ~Full(row.flow) /\ live' = live \cup {n} /\ queued = TRUE
    <3>1. PICK queued \in BOOLEAN : LET r == last + 1 IN
            /\ Admit /\ pc = "admit" /\ last' = r /\ r \in Run /\ r \notin live
            /\ table'[r].flow = row.flow /\ table'[r].queued = queued /\ table'[r].wake = row.wake
            /\ \A s \in Run : s # r => table'[s] = table[s]
            /\ \/ Mode[row.flow] = "restart" /\ live' = (live \ RunsOf(row.flow)) \cup {r} /\ ~queued
               \/ /\ Mode[row.flow] # "restart" /\ RunsOf(row.flow) = {} /\ live' = live \cup {r}
                  /\ ~queued
               \/ /\ Mode[row.flow] = "queue" /\ ~Full(row.flow) /\ live' = live \cup {r} /\ queued
                  /\ RunsOf(row.flow) # {}
      BY <1>6 DEF TableInserts
    <3>2. PICK n : n = last + 1
      OBVIOUS
    <3>. QED  BY <3>1, <3>2
  <2>2. CASE row.flow # f
    <3>1. R' \subseteq R /\ A' \subseteq A
      BY <1>0, <2>1, <2>2 DEF RunsOf, Active
    <3>. QED  BY <1>1, <3>1
  <2>3. CASE row.flow = f /\ (Mode[f] = "restart" \/ RunsOf(f) = {})
    <3>1. R' = {n}
      <4>1. n \in live' /\ table'[n].flow = f
        BY <2>1, <2>3
      <4>2. live' = (live \ RunsOf(f)) \cup {n}
        BY <2>1, <2>3
      <4>3. \A s \in live : s \in Run /\ s # n /\ table'[s] = table[s]
        BY <1>0, <2>1
      <4>4. \A s \in live' : table'[s].flow = f => s = n
        BY <4>2, <4>3 DEF RunsOf
      <4>. QED  BY <4>1, <4>4 DEF RunsOf
    <3>2. A' \subseteq {n}
      BY <3>1 DEF RunsOf, Active
    <3>3. Cardinality({n}) = 1
      BY FS_Singleton
    <3>. QED  BY <1>0, <3>1, <3>2, <3>3
  <2>4. CASE row.flow = f /\ Mode[f] = "queue" /\ ~Full(f) /\ live' = live \cup {n} /\ queued = TRUE
    <3>1. R' = R \cup {n}
      <4>1. n \in R'
        BY <2>1, <2>4 DEF RunsOf
      <4>2. \A s \in live : s \in Run /\ s # n /\ table'[s] = table[s]
        BY <1>0, <2>1
      <4>3. \A s : s \in R' <=> s = n \/ s \in R
        BY <2>4, <4>1, <4>2 DEF RunsOf
      <4>. QED  BY <4>3
    <3>2. A' \subseteq A
      <4>1. n \notin A'
        BY <2>1, <2>4 DEF Active
      <4>2. \A s \in R : s \in Run /\ s # n
        BY <1>0, <2>1 DEF RunsOf
      <4>3. \A s \in R : table'[s] = table[s]
        BY <2>1, <4>2
      <4>. QED  BY <3>1, <4>1, <4>3 DEF Active
    <3>3. PICK S : S = R
      OBVIOUS
    <3>4. IsFiniteSet(S) /\ Cardinality(S) \in Nat /\ Cardinality(S) < MaxQueue[f]
      BY <1>0, <2>4, <3>3 DEF Full
    <3>5. Cardinality(S \cup {n}) \in {Cardinality(S), Cardinality(S) + 1}
      BY <3>4, FS_AddElement
    <3>6. Cardinality(R') <= MaxQueue[f]
      BY <1>0, <3>1, <3>3, <3>4, <3>5
    <3>. QED  BY <1>0, <2>4, <3>2, <3>6
  <2>. QED  BY <2>1, <2>2, <2>3, <2>4
<1>. QED  BY <1>2, <1>3, <1>4, <1>5, <1>6, TableSteps

\* A flow never has two active runs, nor more runs, waiting ones included, than
\* its mode admits, for any flows, modes, bounds and number of deaths.
THEOREM PoliciesHold == Spec => []PolicyHolds
<1>. DEFINE I == ShapeInv /\ HandInv /\ PolicyInv
<1>1. Init => I
  BY ShapeInvInit, HandInvInit, PolicyInvInit
<1>2. I /\ [Next]_vars => I'
  BY ShapeInvStep, HandInvStep, PolicyInvStep
<1>3. I => PolicyHolds
  BY PolicyFollows
<1>. QED  BY <1>1, <1>2, <1>3, PTL DEF Spec

-----------------------------------------------------------------------------
(* Causes. *)

\* What started a run is reserved, and what a run is about to be admitted for
\* is reserved and has started none.
CauseInv ==
    /\ cause \in [Run -> claims \cup {<<>>}]
    /\ \A r \in 1..last : cause[r] \in claims
    /\ pc = "admit" => /\ Cause(row.flow) \in claims
                       /\ \A r \in 1..last : cause[r] # Cause(row.flow)
    /\ OneRunPerCause

LEMMA CauseInvInit == Init => CauseInv
BY DEF Init, CauseInv, OneRunPerCause

LEMMA CauseInvStep == ShapeInv /\ HandInv /\ CauseInv /\ [Next]_vars => CauseInv'
<1> SUFFICES ASSUME ShapeInv, HandInv, CauseInv, [Next]_vars
             PROVE  CauseInv'
  OBVIOUS
<1>. USE DEF CauseInv, OneRunPerCause, runs, world, counts, taken, hand
<1>0. last \in 0..MaxRuns /\ MaxRuns \in Nat /\ 1..last \subseteq Run
  BY DEF ShapeInv, TypeOK, Run
<1>1. ASSUME UNCHANGED <<cause, claims, last>>, pc' # "admit"
      PROVE  CauseInv'
  BY <1>1
<1>2. ASSUME UNCHANGED <<cause, claims, last, row, pc, task, clock, cursor>>
      PROVE  CauseInv'
  BY <1>2 DEF Cause
<1>3. ASSUME NEW f \in Flow, Claim(f) PROVE CauseInv'
  <2>1. claims' = claims \cup {Cause(f)} /\ UNCHANGED <<cause, last, task, clock, cursor>>
    BY <1>3 DEF Claim
  <2>2. cause' \in [Run -> claims' \cup {<<>>}] /\ \A r \in 1..last' : cause'[r] \in claims'
    BY <2>1
  <2>3. CASE Reserved(f)
    <3>1. pc' # "admit"
      BY <1>3, <2>3 DEF Claim
    <3>. QED  BY <2>1, <2>2, <3>1
  <2>4. CASE ~Reserved(f)
    <3>1. row'.flow = f
      BY <1>3, <2>4, NewRowGood, ShapeFacts DEF Claim
    <3>2. Cause(row.flow)' = Cause(f)
      BY <2>1, <3>1 DEF Cause
    <3>3. \A r \in 1..last : cause[r] # Cause(f)
      BY <2>4 DEF Reserved
    <3>. QED  BY <2>1, <2>2, <3>2, <3>3
  <2>. QED  BY <2>3, <2>4
<1>4. CASE Admit
  <2>1. last + 1 \in Run /\ 1..(last + 1) = 1..last \cup {last + 1} /\ last + 1 \notin 1..last
    BY <1>0, <1>4, NextRun DEF Admit
  <2>2. /\ pc = "admit" /\ last' = last + 1 /\ claims' = claims /\ pc' # "admit"
        /\ cause' = [cause EXCEPT ![last + 1] = Cause(row.flow)]
    BY <1>4 DEF Admit, Skip, Replace
  <2>3. /\ cause'[last + 1] = Cause(row.flow) /\ \A r \in 1..last : cause'[r] = cause[r]
        /\ cause' \in [Run -> claims \cup {<<>>}]
    BY <1>0, <2>1, <2>2
  <2>4. PICK c : c = Cause(row.flow)
    OBVIOUS
  <2>5. ASSUME NEW r \in 1..last' PROVE cause'[r] \in claims'
    <3>1. c \in claims /\ (\A q \in 1..last : cause[q] \in claims)
      BY <2>2, <2>4
    <3>2. r \in 1..last \/ r = last + 1
      BY <2>1, <2>2
    <3>. QED  BY <2>2, <2>3, <2>4, <3>1, <3>2
  <2>6. ASSUME NEW r \in 1..last', NEW s \in 1..last', cause'[r] = cause'[s]
        PROVE  r = s
    <3>1. \A q \in 1..last : cause[q] # c
      BY <2>2, <2>4
    <3>2. (r \in 1..last \/ r = last + 1) /\ (s \in 1..last \/ s = last + 1)
      BY <2>1, <2>2
    <3>. QED  BY <2>3, <2>4, <2>6, <3>1, <3>2
  <2>. QED  BY <2>2, <2>3, <2>5, <2>6
<1>5. CASE \/ Start \/ ReplayDone \/ TakeEvent \/ TakeTick \/ ListFlows \/ TraceCancelled \/ Check
           \/ Command \/ Pause \/ SetAutomationEnabled \/ Complete \/ Save \/ Drop \/ Done
           \/ (\E r \in Run : Resume(r) \/ Dequeue(r))
  BY <1>1, <1>5 DEF Start, ReplayDone, TakeEvent, TakeTick, ListFlows, TraceCancelled, Check,
     Command, Pause, SetAutomationEnabled, Complete, Save, Drop, Done, Resume, Dequeue, At_
<1>6. CASE Trace
  <2>1. pc' \in {"work", "trigger"}
    BY <1>6 DEF Trace, ShapeInv, TypeOK
  <2>2. UNCHANGED <<cause, claims, last>>
    BY <1>6 DEF Trace
  <2>3. pc' # "admit"
    BY <2>1
  <2>. QED  BY <2>2, <2>3
<1>7. CASE World
  BY <1>1, <1>2, <1>7 DEF World, Occur, Confirm, Update, Tick, Crash
<1>8. CASE UNCHANGED vars
  BY <1>2, <1>8 DEF vars
<1>. QED  BY <1>3, <1>4, <1>5, <1>6, <1>7, <1>8 DEF Next, Engine

\* An event or a minute of a schedule starts a flow at most once, however often
\* it is ticked or replayed, for any flows and number of deaths.
THEOREM CausesStartOnce == Spec => []OneRunPerCause
<1>. DEFINE I == ShapeInv /\ HandInv /\ CauseInv
<1>1. Init => I
  BY ShapeInvInit, HandInvInit, CauseInvInit
<1>2. I /\ [Next]_vars => I'
  BY ShapeInvStep, HandInvStep, CauseInvStep
<1>3. I => OneRunPerCause
  BY DEF CauseInv
<1>. QED  BY <1>1, <1>2, <1>3, PTL DEF Spec

-----------------------------------------------------------------------------
(* Traces. *)

\* What is still to be traced has no terminal trace.
TraceInv ==
    /\ \A r \in Run : r > last => traces[r] = "none"
    /\ \A r \in live \cup cancelled : traces[r] \notin Terminal
    /\ run # 0 => traces[run] \notin Terminal
    /\ pc = "save" => result = "suspended"
    /\ pc = "drop" => result \in Terminal
    /\ pc = "trace" => (run \in live <=> result \notin Terminal)

LEMMA TraceInvInit == Init => TraceInv
BY DEF Init, TraceInv, Terminal

\* A step after which a terminal trace is what it was and its run is in no table.
KeepsFinal == \A r \in Run : traces[r] \in Terminal => traces'[r] = traces[r] /\ r \notin live'

LEMMA TraceInvStep ==
  ShapeInv /\ ShapeInv' /\ HandInv /\ TraceInv /\ [Next]_vars => TraceInv' /\ KeepsFinal
<1> SUFFICES ASSUME ShapeInv, ShapeInv', HandInv, TraceInv, [Next]_vars
             PROVE  TraceInv' /\ KeepsFinal
  OBVIOUS
<1>. USE DEF TraceInv, KeepsFinal, runs, world, counts, taken, hand
<1>0. /\ live \subseteq Run /\ cancelled \subseteq Run /\ run \in 0..MaxRuns /\ last \in 0..MaxRuns
      /\ traces \in [Run -> Result] /\ 1..last \subseteq Run /\ 0 \notin Run
  <2>1. /\ live \subseteq Run /\ cancelled \subseteq Run /\ run \in 0..MaxRuns
        /\ last \in 0..MaxRuns /\ traces \in [Run -> Result]
    BY DEF ShapeInv, TypeOK
  <2>2. 1..last \subseteq Run /\ 0 \notin Run
    BY <2>1 DEF Run
  <2>. QED  BY <2>1, <2>2
<1>1. ASSUME UNCHANGED <<live, traces, cancelled, last, run, crashes>>,
             pc' \notin {"save", "drop", "trace"}
      PROVE  TraceInv' /\ KeepsFinal
  BY <1>1
<1>2. ASSUME UNCHANGED <<live, traces, cancelled, last, run, crashes, pc, result>>
      PROVE  TraceInv' /\ KeepsFinal
  BY <1>2
<1>3. CASE \/ Start \/ ReplayDone \/ TakeEvent \/ TakeTick \/ ListFlows \/ Done
           \/ \E f \in Flow : Claim(f)
  BY <1>1, <1>3 DEF Start, ReplayDone, TakeEvent, TakeTick, ListFlows, Done, Claim
<1>4. ASSUME NEW r \in Run, Resume(r) \/ Dequeue(r) PROVE TraceInv' /\ KeepsFinal
  <2>1. r \in live
    BY <1>4 DEF Resume, Dequeue, NextQueued, Startable, Some, Queued, ShapeInv, TypeOK
  <2>2. /\ pc = "work" /\ pc' = "check" /\ run' = r
        /\ UNCHANGED <<live, traces, cancelled, last, crashes>>
    BY <1>4 DEF Resume, Dequeue
  <2>3. run = 0
    BY <2>2 DEF ShapeInv, Apart
  <2>. QED  BY <1>0, <2>1, <2>2, <2>3
<1>5. CASE Admit
  <2>1. /\ last + 1 \in Run /\ last + 1 \notin live /\ last + 1 \notin cancelled
        /\ 1..(last + 1) = 1..last \cup {last + 1} /\ last + 1 > last
    BY <1>0, <1>5, NextRun DEF Admit
  <2>2. /\ last' = last + 1 /\ run' = last + 1 /\ pc = "admit" /\ UNCHANGED <<traces, crashes>>
        /\ run = 0 /\ cancelled = {}
    BY <1>5 DEF Admit, ShapeInv, Apart, HandInv
  <2>3. /\ live' \subseteq live \cup {last + 1} /\ cancelled' \subseteq live
        /\ live \subseteq live' \cup cancelled' /\ pc' \notin {"save", "drop"}
        /\ pc' = "trace" => (last + 1 \in live' <=> result' \notin Terminal)
    <3>1. CASE Skip
      BY <2>1, <2>2, <3>1 DEF Skip, Terminal
    <3>2. CASE Replace(last + 1)
      BY <3>2 DEF Replace, RunsOf
    <3>3. CASE live' = live \cup {last + 1} /\ pc' = "check" /\ UNCHANGED cancelled
      BY <2>2, <3>3
    <3>4. CASE /\ live' = live \cup {last + 1} /\ pc' = "trace" /\ result' = "queued"
               /\ UNCHANGED cancelled
      BY <2>2, <3>4 DEF Terminal
    <3>. QED  BY <1>5, <3>1, <3>2, <3>3, <3>4 DEF Admit
  <2>4. traces[last + 1] = "none" /\ "none" \notin Terminal
    BY <2>1 DEF Terminal
  <2>5. KeepsFinal
    BY <2>2, <2>3, <2>4
  <2>6. \A r \in Run : r > last' => traces'[r] = "none"
    BY <1>0, <2>2 DEF Run
  <2>7. \A r \in live' \cup cancelled' \cup {run'} : traces'[r] \notin Terminal
    BY <2>2, <2>3, <2>4
  <2>. QED  BY <2>2, <2>3, <2>5, <2>6, <2>7
<1>6. CASE TraceCancelled
  <2>0. "cancelled" \in Terminal /\ pc' \notin {"save", "drop", "trace"}
        /\ UNCHANGED <<live, last, run, crashes>>
    BY <1>6 DEF TraceCancelled, Terminal
  <2>1. CASE cancelled = {} /\ UNCHANGED <<traces, cancelled>>
    BY <1>1, <2>0, <2>1
  <2>2. ASSUME NEW r \in cancelled, traces' = [traces EXCEPT ![r] = "cancelled"],
               cancelled' = cancelled \ {r}
        PROVE  TraceInv' /\ KeepsFinal
    <3>1. r \in Run /\ r \notin live /\ r \in 1..last /\ r # run
      BY <1>0, <1>6 DEF HandInv, TraceCancelled
    <3>2. traces'[r] = "cancelled" /\ \A s \in Run : s # r => traces'[s] = traces[s]
      BY <1>0, <2>2, <3>1
    <3>3. KeepsFinal
      BY <2>0, <3>2
    <3>4. \A s \in Run : s > last' => traces'[s] = "none"
      BY <1>0, <2>0, <3>1, <3>2
    <3>5. \A s \in live' \cup cancelled' : traces'[s] \notin Terminal
      BY <1>0, <2>0, <2>2, <3>1, <3>2
    <3>6. run' # 0 => traces'[run'] \notin Terminal
      BY <1>0, <2>0, <3>1, <3>2 DEF Run
    <3>. QED  BY <2>0, <3>3, <3>4, <3>5, <3>6
  <2>. QED  BY <1>6, <2>1, <2>2 DEF TraceCancelled
<1>7. CASE Check \/ Pause \/ SetAutomationEnabled \/ Complete \/ Command
  <2>1. /\ pc' = "save" => result' = "suspended"
        /\ pc' = "drop" => result' \in Terminal
        /\ pc' # "trace"
    BY <1>7 DEF Check, Pause, SetAutomationEnabled, Complete, Command, At_, Terminal
  <2>2. UNCHANGED <<live, traces, cancelled, last, run, crashes>>
    BY <1>7 DEF Check, Pause, SetAutomationEnabled, Complete, Command
  <2>. QED  BY <2>1, <2>2
<1>8. CASE Save
  <2>1. run \in live /\ result \notin Terminal
    BY <1>8 DEF Save, HandInv, Terminal
  <2>2. /\ live' = live /\ pc' = "trace"
        /\ UNCHANGED <<traces, cancelled, last, run, crashes, result>>
    BY <1>8, <2>1 DEF Save
  <2>. QED  BY <2>1, <2>2
<1>9. CASE Drop
  <2>1. /\ live' = live \ {run} /\ pc' = "trace" /\ result \in Terminal
        /\ UNCHANGED <<traces, cancelled, last, run, crashes, result>>
    BY <1>9 DEF Drop
  <2>. QED  BY <2>1
<1>10. CASE Trace
  <2>1. /\ run \in Run /\ run' = 0 /\ pc = "trace" /\ pc' \in {"work", "trigger"}
        /\ UNCHANGED <<live, cancelled, last, crashes>>
    BY <1>10, ShapeFacts DEF Trace, ShapeInv, TypeOK
  <2>2. traces'[run] = result /\ \A r \in Run : r # run => traces'[r] = traces[r]
    BY <1>0, <1>10, <2>1 DEF Trace
  <2>3. run \notin cancelled /\ run <= last
    BY <2>1 DEF HandInv
  <2>4. KeepsFinal
    <3>1. traces[run] \notin Terminal /\ live' = live
      BY <1>0, <2>1
    <3>. QED  BY <2>2, <3>1
  <2>5. \A r \in Run : r > last' => traces'[r] = "none"
    BY <1>0, <2>1, <2>2, <2>3
  <2>6. \A r \in live' \cup cancelled' : traces'[r] \notin Terminal
    BY <1>0, <2>1, <2>2, <2>3
  <2>. QED  BY <2>1, <2>4, <2>5, <2>6
<1>11. CASE World
  <2>1. CASE Crash
    <3>1. /\ crashes' # 0 /\ pc' = "down" /\ run' = 0 /\ cancelled' = {}
          /\ UNCHANGED <<live, traces, last>>
      BY <2>1 DEF Crash, ShapeInv, TypeOK
    <3>. QED  BY <3>1
  <2>2. CASE UNCHANGED <<live, traces, cancelled, last, run, crashes, pc, result>>
    BY <1>2, <2>2
  <2>. QED  BY <1>11, <2>1, <2>2 DEF World, Occur, Confirm, Update, Tick
<1>12. CASE UNCHANGED vars
  BY <1>2, <1>12 DEF vars
<1>. QED  BY <1>3, <1>4, <1>5, <1>6, <1>7, <1>8, <1>9, <1>10, <1>11, <1>12 DEF Next, Engine

TracedInv == ShapeInv /\ HandInv /\ TraceInv

LEMMA TracedAlways == Spec => []TracedInv
<1>1. Init => TracedInv
  BY ShapeInvInit, HandInvInit, TraceInvInit DEF TracedInv
<1>2. TracedInv /\ [Next]_vars => TracedInv'
  BY ShapeInvStep, HandInvStep, TraceInvStep DEF TracedInv
<1>. QED  BY <1>1, <1>2, PTL DEF Spec

\* Silent runs that nobody is about to trace: each is the victim of a death.
Lost == Silent \ (cancelled \cup {run})

SilentInv ==
    /\ \A r, s \in cancelled : r = s
    /\ Cardinality(Lost) <= crashes

LEMMA SilentFinite ==
  ASSUME ShapeInv
  PROVE  /\ IsFiniteSet(Silent) /\ IsFiniteSet(Lost) /\ Silent \subseteq 1..last /\ last \in Nat
         /\ Cardinality(Silent) \in Nat /\ Cardinality(Lost) \in Nat /\ crashes \in Nat
<1>1. last \in Nat /\ crashes \in Nat
  BY DEF ShapeInv, TypeOK
<1>2. Silent \subseteq 1..last /\ Lost \subseteq Silent
  BY DEF Silent, Lost
<1>3. IsFiniteSet(1..last)
  BY <1>1, FS_Interval
<1>4. IsFiniteSet(Silent)
  BY <1>2, <1>3, FS_Subset
<1>5. IsFiniteSet(Lost)
  BY <1>2, <1>4, FS_Subset
<1>. QED  BY <1>1, <1>2, <1>4, <1>5, FS_CardinalityType

LEMMA SilentInvInit == Init => SilentInv
<1> SUFFICES ASSUME Init PROVE SilentInv
  OBVIOUS
<1>1. Lost = {} /\ cancelled = {} /\ crashes = 0
  BY DEF Init, Lost, Silent
<1>2. Cardinality({}) = 0
  BY FS_EmptySet
<1>. QED  BY <1>1, <1>2 DEF SilentInv

\* A step other than a death loses no run.
LEMMA NothingLost ==
  ASSUME ShapeInv, ShapeInv', HandInv, TraceInv, [Next]_vars, ~Crash, NEW r \in Lost'
  PROVE  r \in Lost /\ crashes' = crashes
<1>. USE DEF runs, world, counts, taken, hand
<1>0. /\ live \subseteq Run /\ run \in 0..MaxRuns /\ last \in 0..MaxRuns /\ 0 \notin Run
      /\ traces \in [Run -> Result] /\ 1..last \subseteq Run
      /\ r \in 1..last' /\ r \notin live' /\ traces'[r] \notin Terminal /\ r \notin cancelled' /\ r # run'
  <2>1. live \subseteq Run /\ run \in 0..MaxRuns /\ last \in 0..MaxRuns /\ traces \in [Run -> Result]
    BY DEF ShapeInv, TypeOK
  <2>2. 1..last \subseteq Run /\ 0 \notin Run
    BY <2>1 DEF Run
  <2>3. r \in 1..last' /\ r \notin live' /\ traces'[r] \notin Terminal /\ r \notin cancelled' /\ r # run'
    BY DEF Lost, Silent
  <2>. QED  BY <2>1, <2>2, <2>3
<1>1. ASSUME UNCHANGED <<live, traces, cancelled, last, run, crashes>>
      PROVE  r \in Lost /\ crashes' = crashes
  BY <1>0, <1>1 DEF Lost, Silent
<1>2. CASE \/ Start \/ ReplayDone \/ TakeEvent \/ TakeTick \/ ListFlows \/ Done
           \/ Check \/ Pause \/ SetAutomationEnabled \/ Complete \/ Command
           \/ \E f \in Flow : Claim(f)
  <2>1. UNCHANGED <<live, traces, cancelled, last, run, crashes>>
    BY <1>2 DEF Start, ReplayDone, TakeEvent, TakeTick, ListFlows, Done, Claim,
       Check, Pause, SetAutomationEnabled, Complete, Command
  <2>. QED  BY <1>1, <2>1
<1>3. ASSUME NEW s \in Run, Resume(s) \/ Dequeue(s) PROVE r \in Lost /\ crashes' = crashes
  <2>1. pc = "work" /\ UNCHANGED <<live, traces, cancelled, last, crashes>>
    BY <1>3 DEF Resume, Dequeue
  <2>2. run = 0
    BY <2>1 DEF ShapeInv, Apart
  <2>. QED  BY <1>0, <2>1, <2>2 DEF Lost, Silent
<1>4. CASE Admit
  <2>1. last' = last + 1 /\ run' = last + 1 /\ pc = "admit" /\ UNCHANGED <<traces, crashes>>
    BY <1>4 DEF Admit
  <2>2. run = 0 /\ cancelled = {}
    BY <2>1 DEF ShapeInv, Apart, HandInv
  <2>3. live \subseteq live' \cup cancelled'
    BY <1>4 DEF Admit, Skip, Replace
  <2>4. r \in 1..last
    BY <1>0, <2>1
  <2>. QED  BY <1>0, <2>1, <2>2, <2>3, <2>4 DEF Lost, Silent
<1>5. CASE TraceCancelled
  <2>1. UNCHANGED <<live, last, run, crashes>>
    BY <1>5 DEF TraceCancelled
  <2>2. CASE UNCHANGED <<traces, cancelled>>
    BY <1>1, <2>1, <2>2
  <2>3. ASSUME NEW s \in cancelled, traces' = [traces EXCEPT ![s] = "cancelled"],
               cancelled' = cancelled \ {s}
        PROVE  r \in Lost
    <3>1. s \in Run /\ r \in Run /\ "cancelled" \in Terminal
      BY <1>0, <2>1 DEF HandInv, Terminal
    <3>2. r # s /\ traces'[r] = traces[r]
      BY <1>0, <2>3, <3>1
    <3>. QED  BY <1>0, <2>1, <2>3, <3>2 DEF Lost, Silent
  <2>. QED  BY <1>5, <2>1, <2>2, <2>3 DEF TraceCancelled
<1>6. CASE Save
  <2>1. live' = live \cup {run} /\ UNCHANGED <<traces, cancelled, last, run, crashes>>
    BY <1>6 DEF Save
  <2>. QED  BY <1>0, <2>1 DEF Lost, Silent
<1>7. CASE Drop
  <2>1. live' = live \ {run} /\ UNCHANGED <<traces, cancelled, last, run, crashes>>
    BY <1>7 DEF Drop
  <2>. QED  BY <1>0, <2>1 DEF Lost, Silent
<1>8. CASE Trace
  <2>1. /\ run \in Run /\ pc = "trace" /\ traces' = [traces EXCEPT ![run] = result]
        /\ UNCHANGED <<live, cancelled, last, crashes>>
    BY <1>8, ShapeFacts DEF Trace
  <2>2. CASE r = run
    <3>1. traces'[r] = result
      BY <1>0, <2>1, <2>2
    <3>. QED  BY <1>0, <2>1, <2>2, <3>1 DEF TraceInv
  <2>3. CASE r # run
    <3>1. traces'[r] = traces[r]
      BY <1>0, <2>1, <2>3
    <3>. QED  BY <1>0, <2>1, <2>3, <3>1 DEF Lost, Silent
  <2>. QED  BY <2>2, <2>3
<1>9. CASE World
  BY <1>1, <1>9 DEF World, Occur, Confirm, Update, Tick
<1>10. CASE UNCHANGED vars
  BY <1>1, <1>10 DEF vars
<1>. QED  BY <1>2, <1>3, <1>4, <1>5, <1>6, <1>7, <1>8, <1>9, <1>10 DEF Next, Engine

\* A death loses at most one run: the one at hand, or the one it has replaced.
LEMMA DeathLosesOne ==
  ASSUME ShapeInv, HandInv, SilentInv, Crash
  PROVE  Cardinality(Lost') <= crashes'
<1>1. /\ crashes' = crashes + 1 /\ cancelled' = {} /\ run' = 0
      /\ live' = live /\ traces' = traces /\ last' = last
  BY DEF Crash, runs
<1>2. Lost' \subseteq Silent
  BY <1>1 DEF Lost, Silent
<1>3. \E x : Silent \subseteq Lost \cup {x}
  <2>1. CASE cancelled = {}
    <3>1. Silent \subseteq Lost \cup {run}
      BY <2>1 DEF Lost
    <3>. QED  BY <3>1
  <2>2. ASSUME NEW x \in cancelled PROVE Silent \subseteq Lost \cup {x}
    <3>1. run \in live
      BY <2>2 DEF HandInv
    <3>2. run \notin Silent /\ cancelled = {x}
      BY <2>2, <3>1 DEF Silent, SilentInv
    <3>. QED  BY <3>2 DEF Lost
  <2>. QED  BY <2>1, <2>2
<1>4. PICK x : Silent \subseteq Lost \cup {x}
  BY <1>3
<1>5. IsFiniteSet(Lost) /\ Cardinality(Lost) \in Nat /\ crashes \in Nat
  BY SilentFinite
<1>6. /\ IsFiniteSet(Lost \cup {x})
      /\ Cardinality(Lost \cup {x}) = IF x \in Lost THEN Cardinality(Lost) ELSE Cardinality(Lost) + 1
  BY <1>5, FS_AddElement
<1>7. Lost' \subseteq Lost \cup {x}
  BY <1>2, <1>4
<1>8. IsFiniteSet(Lost') /\ Cardinality(Lost') <= Cardinality(Lost \cup {x})
  BY <1>6, <1>7, FS_Subset
<1>9. Cardinality(Lost') \in Nat
  BY <1>8, FS_CardinalityType
<1>10. Cardinality(Lost \cup {x}) <= Cardinality(Lost) + 1 /\ Cardinality(Lost \cup {x}) \in Nat
  BY <1>5, <1>6
<1>. QED  BY <1>1, <1>5, <1>8, <1>9, <1>10 DEF SilentInv

LEMMA SilentInvStep ==
  ASSUME ShapeInv, ShapeInv', HandInv, PolicyInv, TraceInv, SilentInv, [Next]_vars
  PROVE  SilentInv'
<1>1. \A r, s \in cancelled' : r = s
  <2>1. CASE Admit
    <3>1. cancelled' = {} \/ (Mode[row.flow] = "restart" /\ cancelled' = RunsOf(row.flow))
      <4>1. cancelled = {}
        BY <2>1 DEF Admit, HandInv
      <4>. QED  BY <2>1, <4>1 DEF Admit, Skip, Replace
    <3>2. row.flow \in Flow
      BY ShapeFacts DEF GoodRow, Row
    <3>. QED  BY <3>1, <3>2 DEF PolicyInv
  <2>2. CASE ~Admit
    <3>1. cancelled' \subseteq cancelled
      BY <2>2 DEF Next, Engine, World, vars, hand, Start, ReplayDone, TakeEvent, TakeTick,
         Resume, Dequeue, ListFlows, Claim, TraceCancelled, Check, Command, Pause,
         SetAutomationEnabled, Complete, Save, Drop, Trace, Done, Occur, Confirm, Update, Tick, Crash
    <3>. QED  BY <3>1 DEF SilentInv
  <2>. QED  BY <2>1, <2>2
<1>2. Cardinality(Lost') <= crashes'
  <2>1. CASE Crash
    BY <2>1, DeathLosesOne
  <2>2. CASE ~Crash
    <3>1. Lost' \subseteq Lost
      BY <2>2, NothingLost
    <3>2. crashes' = crashes \/ Lost' = {}
      BY <2>2, NothingLost
    <3>3. IsFiniteSet(Lost) /\ Cardinality(Lost) \in Nat /\ crashes \in Nat
      BY SilentFinite
    <3>4. crashes' \in Nat
      BY DEF ShapeInv, TypeOK
    <3>5. Cardinality(Lost') <= Cardinality(Lost) /\ IsFiniteSet(Lost')
      BY <3>1, <3>3, FS_Subset
    <3>6. Cardinality(Lost') \in Nat /\ Cardinality({}) = 0
      BY <3>5, FS_CardinalityType, FS_EmptySet
    <3>7. CASE crashes' = crashes
      BY <3>3, <3>5, <3>6, <3>7 DEF SilentInv
    <3>8. CASE Lost' = {}
      BY <3>4, <3>6, <3>8
    <3>. QED  BY <3>2, <3>7, <3>8
  <2>. QED  BY <2>1, <2>2
<1>. QED  BY <1>1, <1>2 DEF SilentInv

\* Each run that was started has a row or its final trace whenever the task is at
\* rest, but for one run per death, for any flows and policies.
THEOREM RunsAreTraced == Spec => []RunsLeaveATrace
<1>. DEFINE I == TracedInv /\ PolicyInv /\ SilentInv
<1>1. Init => I
  BY ShapeInvInit, HandInvInit, TraceInvInit, PolicyInvInit, SilentInvInit DEF TracedInv
<1>2. I /\ [Next]_vars => I'
  BY ShapeInvStep, HandInvStep, TraceInvStep, PolicyInvStep, SilentInvStep DEF TracedInv
<1>3. I => RunsLeaveATrace
  <2> SUFFICES ASSUME I, pc = "idle" PROVE Cardinality(Silent) <= crashes
    BY DEF RunsLeaveATrace
  <2>1. run = 0 /\ cancelled = {}
    BY DEF TracedInv, ShapeInv, Apart, HandInv
  <2>2. Silent = Lost
    <3>1. 0 \notin Silent
      BY SilentFinite DEF TracedInv
    <3>. QED  BY <2>1, <3>1 DEF Lost
  <2>. QED  BY <2>2 DEF SilentInv
<1>. QED  BY <1>1, <1>2, <1>3, PTL DEF Spec

\* No death, replay, replacement or late event brings a run with a terminal
\* trace back or changes that trace.
THEOREM TerminalStaysFinal == Spec => TerminalIsFinal
<1>1. TracedInv /\ [Next]_vars => KeepsFinal
  BY ShapeInvStep, TraceInvStep DEF TracedInv
<1>2. TracedInv /\ [Next]_vars
      => [\A r \in Run : traces[r] \in Terminal => traces'[r] = traces[r] /\ r \notin live']_vars
  BY <1>1 DEF KeepsFinal
<1>. QED  BY <1>2, TracedAlways, PTL DEF Spec, TerminalIsFinal

-----------------------------------------------------------------------------
(* The queue. *)

\* Waiting runs of one flow are due in the order they were created in: each is
\* due from the moment it was asked for, and that is not in the future.
FifoInv ==
    /\ pc \notin {"down", "idle"} => clock <= now
    /\ \A r \in Queued : /\ table[r].wake <= now
                         /\ pc \notin {"down", "idle"} => table[r].wake <= clock
    /\ pc = "admit" => row.wake = clock
    /\ \A r, s \in Queued :
          table[r].flow = table[s].flow /\ r < s => table[r].wake <= table[s].wake
    /\ QueueIsFIFO

LEMMA FifoInvInit == Init => FifoInv
BY DEF Init, FifoInv, Queued, QueueIsFIFO

\* The run that leaves the queue is the oldest of its flow: an older one would
\* have been among those that may start, and before it.
LEMMA OldestLeaves ==
  ASSUME ShapeInv, FifoInv, NEW r \in Run, Dequeue(r), NEW s \in Queued,
         table[s].flow = table[r].flow, s < r
  PROVE  FALSE
<1>1. live \subseteq Run /\ table \in [Run -> Row] /\ Limit \in Nat
  BY DEF ShapeInv, TypeOK
<1>2. r \in Queued /\ r \in Some(Queued) /\ Active(table[r].flow) = {}
  BY DEF Dequeue, NextQueued, Startable, Some
<1>3. s \in Run /\ table[s].wake <= table[r].wake
  BY <1>1, <1>2 DEF FifoInv, Queued
<1>4. \A q \in Run : table[q].wake \in Nat
  BY <1>1 DEF Row, Instant, Never
<1>5. Before(s, r)
  BY <1>3, <1>4 DEF Before
<1>6. {q \in Queued : Before(q, s)} \subseteq {q \in Queued : Before(q, r)}
  <2>1. ASSUME NEW q \in Queued, Before(q, s) PROVE Before(q, r)
    <3>1. q \in Run /\ s \in Run /\ r \in Run
      BY <1>1, <1>3 DEF Queued
    <3>2. PICK a \in Nat, b \in Nat, c \in Nat :
             a = table[q].wake /\ b = table[s].wake /\ c = table[r].wake
      BY <1>4, <3>1
    <3>3. b <= c /\ (a < b \/ (a = b /\ q < s)) /\ q \in Nat /\ s \in Nat /\ r \in Nat
      BY <1>3, <2>1, <3>1, <3>2 DEF Before, Run
    <3>4. a < c \/ (a = c /\ q < r)
      BY <3>3
    <3>. QED  BY <3>2, <3>4 DEF Before
  <2>. QED  BY <2>1
<1>7. IsFiniteSet({q \in Queued : Before(q, r)})
  <2>1. IsFiniteSet(Run)
    BY FS_Interval DEF Run
  <2>2. {q \in Queued : Before(q, r)} \subseteq Run
    BY <1>1 DEF Queued
  <2>. QED  BY <2>1, <2>2, FS_Subset
<1>8. Cardinality({q \in Queued : Before(q, s)}) < Limit
  <2>1. PICK A, B : A = {q \in Queued : Before(q, s)} /\ B = {q \in Queued : Before(q, r)}
    OBVIOUS
  <2>2. A \in SUBSET B /\ IsFiniteSet(B)
    BY <1>6, <1>7, <2>1
  <2>3. Cardinality(A) \in Nat /\ Cardinality(B) \in Nat /\ Cardinality(A) <= Cardinality(B)
    BY <2>2, FS_Subset, FS_CardinalityType
  <2>4. Cardinality(B) < Limit
    BY <1>2, <2>1 DEF Some
  <2>. QED  BY <1>1, <2>1, <2>3, <2>4
<1>9. s \in Startable
  BY <1>2, <1>8 DEF Startable, Some
<1>. QED  BY <1>5, <1>9 DEF Dequeue, NextQueued

LEMMA FifoInvStep == ShapeInv /\ ShapeInv' /\ HandInv /\ FifoInv /\ [Next]_vars => FifoInv'
<1> SUFFICES ASSUME ShapeInv, ShapeInv', HandInv, FifoInv, [Next]_vars
             PROVE  FifoInv'
  OBVIOUS
<1>0. /\ live \subseteq Run /\ table \in [Run -> Row] /\ clock \in Nat /\ now \in Nat
      /\ \A r \in Run : table[r].wake \in Nat /\ r \in Nat
  <2>1. live \subseteq Run /\ table \in [Run -> Row]
    BY DEF ShapeInv, TypeOK
  <2>2. clock \in Nat /\ now \in Nat
    BY DEF ShapeInv, TypeOK, Time
  <2>3. \A r \in Run : table[r].wake \in Nat /\ r \in Nat
    BY <2>1 DEF Row, Instant, Never, Run
  <2>. QED  BY <2>1, <2>2, <2>3
\* What becomes of the instants.
<1>1. /\ pc' \notin {"down", "idle"} => clock' <= now'
      /\ now <= now'
      /\ \/ pc' \in {"down", "idle"} \/ clock' = now
         \/ pc \notin {"down", "idle"} /\ clock' = clock
  <2>. USE DEF FifoInv, runs, world, counts, taken, hand
  <2>1. CASE Start \/ ReplayDone \/ Done
    <3>1. now' = now /\ pc' = "idle"
      BY <2>1 DEF Start, ReplayDone, Done
    <3>. QED  BY <1>0, <3>1
  <2>6. CASE TakeEvent \/ TakeTick
    <3>1. now' = now /\ clock' = now
      BY <2>6 DEF TakeEvent, TakeTick
    <3>. QED  BY <1>0, <3>1
  <2>2. CASE \/ ListFlows \/ Admit \/ TraceCancelled \/ Check \/ Command \/ Pause
             \/ SetAutomationEnabled \/ Complete \/ Save \/ Drop
             \/ (\E f \in Flow : Claim(f)) \/ (\E r \in Run : Resume(r) \/ Dequeue(r))
    <3>1. now' = now /\ clock' = clock /\ pc \notin {"down", "idle"}
      BY <2>2 DEF ListFlows, Admit, TraceCancelled, Check, Command, Pause,
         SetAutomationEnabled, Complete, Save, Drop, Claim, Resume, Dequeue, At_
    <3>. QED  BY <1>0, <3>1
  <2>3. CASE Trace
    BY <1>0, <2>3 DEF Trace
  <2>4. CASE World
    <3>1. now' = now \/ now' = now + 1
      BY <2>4 DEF World, Occur, Confirm, Update, Tick, Crash
    <3>2. pc' = "down" \/ (pc' = pc /\ clock' = clock)
      BY <2>4 DEF World, Occur, Confirm, Update, Tick, Crash
    <3>. QED  BY <1>0, <3>1, <3>2
  <2>5. CASE UNCHANGED vars
    BY <1>0, <2>5 DEF vars
  <2>. QED  BY <2>1, <2>2, <2>3, <2>4, <2>5, <2>6 DEF Next, Engine
<1>2. pc' = "admit" => row'.wake = clock'
  <2>. USE DEF FifoInv, runs, world, counts, taken, hand
  <2>1. ASSUME NEW f \in Flow, Claim(f) PROVE pc' = "admit" => row'.wake = clock'
    <3>1. NewRow(f).wake = clock
      BY DEF NewRow, Blank
    <3>. QED  BY <2>1, <3>1 DEF Claim
  <2>2. CASE \/ Start \/ ReplayDone \/ TakeEvent \/ TakeTick \/ Done \/ ListFlows \/ Admit
             \/ TraceCancelled \/ Check \/ Command \/ Pause \/ SetAutomationEnabled \/ Complete
             \/ Save \/ Drop \/ (\E r \in Run : Resume(r) \/ Dequeue(r))
    BY <2>2 DEF Start, ReplayDone, TakeEvent, TakeTick, Done, ListFlows, Admit, Skip, Replace,
       TraceCancelled, Check, Command, Pause, SetAutomationEnabled, Complete, Save, Drop, Resume,
       Dequeue, At_
  <2>3. CASE Trace
    <3>1. pc' \in {"work", "trigger"}
      BY <2>3 DEF Trace, ShapeInv, TypeOK
    <3>. QED  BY <3>1
  <2>4. CASE World
    BY <2>4 DEF World, Occur, Confirm, Update, Tick, Crash
  <2>5. CASE UNCHANGED vars
    BY <2>5 DEF vars
  <2>. QED  BY <2>1, <2>2, <2>3, <2>4, <2>5 DEF Next, Engine
\* A waiting run that was one before is due when it was.
<1>3. ASSUME NEW r \in Queued, table'[r] = table[r]
      PROVE  table'[r].wake <= now' /\ (pc' \notin {"down", "idle"} => table'[r].wake <= clock')
  <2>1. r \in Run /\ table[r].wake <= now
        /\ (pc \notin {"down", "idle"} => table[r].wake <= clock)
    BY <1>0 DEF FifoInv, Queued
  <2>2. now' \in Nat /\ clock' \in Nat
    BY DEF ShapeInv, TypeOK, Time
  <2>. QED  BY <1>0, <1>1, <1>3, <2>1, <2>2
\* No waiting run is new, and what is not waiting but was one was the oldest.
<1>4. ASSUME live' \subseteq live, \A r \in Queued' : r \in Queued /\ table'[r] = table[r],
             \A r \in live : table'[r].flow = table[r].flow,
             \A r, s \in live' : table[r].flow = table[s].flow /\ r < s /\ r \in Queued'
                                   => s \in Queued'
      PROVE  FifoInv'
  <2>1. \A r, s \in Queued' :
           table'[r].flow = table'[s].flow /\ r < s => table'[r].wake <= table'[s].wake
    BY <1>4 DEF FifoInv
  <2>2. QueueIsFIFO'
    BY <1>4 DEF QueueIsFIFO, Queued
  <2>. QED  BY <1>1, <1>2, <1>3, <1>4, <2>1, <2>2 DEF FifoInv
<1>5. \A r, s \in live : table[r].flow = table[s].flow /\ r < s /\ r \in Queued => s \in Queued
  BY DEF FifoInv, QueueIsFIFO, Queued
<1>6. CASE TableKept \/ TableDrops
  <2>1. live' \subseteq live /\ table' = table /\ Queued' = {r \in Queued : r \in live'}
    BY <1>6 DEF TableKept, TableDrops, Queued
  <2>. QED  BY <1>4, <1>5, <2>1
<1>7. CASE TableSaves
  <2>1. /\ run \in live /\ run \notin Queued /\ live' = live /\ Queued' = Queued
        /\ \A r \in live : table'[r].flow = table[r].flow
        /\ \A r \in Queued : table'[r] = table[r]
    BY <1>0, <1>7 DEF TableSaves, HandInv, Queued
  <2>. QED  BY <1>4, <1>5, <2>1
<1>8. CASE TableDequeues
  <2>1. PICK r \in live : /\ Dequeue(r)
                          /\ live' = live /\ table'[r].queued = FALSE /\ table'[r].flow = table[r].flow
                          /\ \A s \in Run : s # r => table'[s] = table[s]
    BY <1>8 DEF TableDequeues
  <2>2. /\ Queued' = Queued \ {r} /\ \A s \in Queued' : table'[s] = table[s]
        /\ \A s \in live : table'[s].flow = table[s].flow
    BY <1>0, <2>1 DEF Queued
  <2>3. \A s \in Queued : table[s].flow = table[r].flow => ~(s < r)
    BY <1>0, <2>1, OldestLeaves
  <2>. QED  BY <1>4, <1>5, <2>1, <2>2, <2>3
<1>9. CASE TableInserts
  <2>1. PICK queued, n :
          /\ queued \in BOOLEAN /\ n = last + 1 /\ n \in Run /\ n \notin live /\ pc = "admit" /\ last' = n
          /\ table'[n].flow = row.flow /\ table'[n].queued = queued /\ table'[n].wake = row.wake
          /\ \A s \in Run : s # n => table'[s] = table[s]
          /\ \/ live' = (live \ RunsOf(row.flow)) \cup {n} /\ queued = FALSE
             \/ RunsOf(row.flow) = {} /\ live' = live \cup {n} /\ queued = FALSE
             \/ live' = live \cup {n} /\ queued = TRUE
    <3>1. PICK queued \in BOOLEAN : LET r == last + 1 IN
            /\ Admit /\ pc = "admit" /\ last' = r /\ r \in Run /\ r \notin live
            /\ table'[r].flow = row.flow /\ table'[r].queued = queued /\ table'[r].wake = row.wake
            /\ \A s \in Run : s # r => table'[s] = table[s]
            /\ \/ Mode[row.flow] = "restart" /\ live' = (live \ RunsOf(row.flow)) \cup {r} /\ ~queued
               \/ /\ Mode[row.flow] # "restart" /\ RunsOf(row.flow) = {} /\ live' = live \cup {r}
                  /\ ~queued
               \/ /\ Mode[row.flow] = "queue" /\ ~Full(row.flow) /\ live' = live \cup {r} /\ queued
                  /\ RunsOf(row.flow) # {}
      BY <1>9 DEF TableInserts
    <3>2. PICK n : n = last + 1
      OBVIOUS
    <3>. QED  BY <3>1, <3>2
  <2>2. \A s \in live : s \in Run /\ s < n /\ table'[s] = table[s]
    <3>1. last \in Nat /\ live \subseteq 1..last
      BY DEF ShapeInv, TypeOK, HandInv
    <3>2. ASSUME NEW s \in live PROVE s \in Run /\ s < n /\ s # n
      BY <1>0, <2>1, <3>1
    <3>. QED  BY <2>1, <3>2
  <2>3. \A s \in live' : s \in live \/ s = n
    BY <2>1
  <2>4. \A s \in Queued' : s # n => s \in Queued
    BY <2>2, <2>3 DEF Queued
  <2>5. queued = FALSE => \A s \in live' : table'[s].flow = row.flow => s = n
    BY <2>1, <2>2, <2>3 DEF RunsOf
  <2>6. table'[n].wake = clock /\ clock <= now
    BY <2>1 DEF FifoInv
  <2>7. clock' = clock /\ now' = now /\ pc' \notin {"down", "idle"}
    BY <1>9 DEF TableInserts, Admit, Skip, Replace, taken, world
  <2>8. \A s \in Queued' : /\ table'[s].wake <= now'
                           /\ pc' \notin {"down", "idle"} => table'[s].wake <= clock'
    <3>1. \A s \in Queued' : s = n \/ (s \in Queued /\ table'[s] = table[s])
      BY <2>2, <2>4 DEF Queued
    <3>2. table'[n].wake <= now' /\ table'[n].wake <= clock'
      BY <1>0, <2>6, <2>7
    <3>. QED  BY <1>3, <3>1, <3>2
  <2>9. ASSUME NEW r \in Queued', NEW s \in Queued', table'[r].flow = table'[s].flow, r < s
        PROVE  table'[r].wake <= table'[s].wake
    <3>0. r # n
      <4>0. (s = n \/ s \in live) /\ n \in Nat /\ n \in Run
        BY <1>0, <2>1, <2>3 DEF Queued
      <4>1. s \in Run /\ s <= n
        <5>1. CASE s = n
          BY <4>0, <5>1
        <5>2. CASE s \in live
          BY <1>0, <2>2, <4>0, <5>2
        <5>. QED  BY <4>0, <5>1, <5>2
      <4>. QED  BY <1>0, <2>1, <2>9, <4>1
    <3>1. r \in Queued /\ table'[r] = table[r] /\ r \in Run
      BY <2>2, <2>4, <3>0 DEF Queued
    <3>2. CASE s = n
      BY <2>1, <2>6, <3>1, <3>2 DEF FifoInv
    <3>3. CASE s # n
      BY <2>2, <2>4, <2>9, <3>1, <3>3 DEF FifoInv, Queued
    <3>. QED  BY <3>2, <3>3
  <2>10. ASSUME NEW r \in live', NEW s \in live', table'[r].flow = table'[s].flow, r < s,
                table'[r].queued
         PROVE  table'[s].queued
    <3>0. r # n
      <4>0. (s = n \/ s \in live) /\ n \in Nat /\ n \in Run
        BY <1>0, <2>1, <2>3
      <4>1. s \in Run /\ s <= n
        <5>1. CASE s = n
          BY <4>0, <5>1
        <5>2. CASE s \in live
          BY <1>0, <2>2, <4>0, <5>2
        <5>. QED  BY <4>0, <5>1, <5>2
      <4>. QED  BY <1>0, <2>1, <2>10, <4>1
    <3>1. r \in live /\ table'[r] = table[r]
      BY <2>2, <2>3, <3>0
    <3>2. CASE s = n
      BY <2>1, <2>5, <2>10, <3>1, <3>2
    <3>3. CASE s # n
      BY <2>2, <2>3, <2>10, <3>1, <3>3 DEF FifoInv, QueueIsFIFO
    <3>. QED  BY <3>2, <3>3
  <2>11. QueueIsFIFO'
    BY <2>10 DEF QueueIsFIFO
  <2>. QED  BY <1>1, <1>2, <2>8, <2>9, <2>11 DEF FifoInv
<1>. QED  BY <1>6, <1>7, <1>8, <1>9, TableSteps

\* No run leaves the queue of its flow before an older one, for any flows,
\* limits of the queries and number of deaths.
THEOREM QueuesAreFIFO == Spec => []QueueIsFIFO
<1>. DEFINE I == ShapeInv /\ HandInv /\ FifoInv
<1>1. Init => I
  BY ShapeInvInit, HandInvInit, FifoInvInit
<1>2. I /\ [Next]_vars => I'
  BY ShapeInvStep, HandInvStep, FifoInvStep
<1>3. I => QueueIsFIFO
  BY DEF FifoInv
<1>. QED  BY <1>1, <1>2, <1>3, PTL DEF Spec

-----------------------------------------------------------------------------
(* Deadlines. *)

\* The deadline of the run at hand is that of its row, and is not reached while
\* its actions are worked off.
DeadlineInv ==
    /\ \A c \in commands : c.key.run \in 1..last /\ c.at < table[c.key.run].deadline
    /\ pc \in {"replaced", "check", "step", "save", "drop"} => row.deadline = table[run].deadline
    /\ pc = "step" => clock < row.deadline

LEMMA DeadlineInvInit == Init => DeadlineInv
BY DEF Init, DeadlineInv

\* The deadline of a run is never changed.
LEMMA DeadlinesStay ==
  ASSUME ShapeInv, HandInv, DeadlineInv, [Next]_vars, NEW r \in 1..last
  PROVE  table'[r].deadline = table[r].deadline
<1>1. live \subseteq Run /\ table \in [Run -> Row] /\ r \in Run /\ last \in 0..MaxRuns
  BY DEF ShapeInv, TypeOK, Run
<1>2. CASE TableKept \/ TableDrops
  BY <1>2 DEF TableKept, TableDrops
<1>3. CASE TableInserts
  <2>1. r # last + 1
    BY <1>1
  <2>. QED  BY <1>1, <1>3, <2>1 DEF TableInserts
<1>4. CASE TableDequeues
  <2>1. PICK q \in live : Dequeue(q)
    BY <1>4 DEF TableDequeues
  <2>2. table' = [table EXCEPT ![q] = [table[q] EXCEPT !.queued = FALSE]]
    BY <2>1 DEF Dequeue
  <2>3. [table[q] EXCEPT !.queued = FALSE].deadline = table[q].deadline
    BY <1>1 DEF Row
  <2>. QED  BY <1>1, <2>2, <2>3
<1>5. CASE Save
  <2>1. table' = [table EXCEPT ![run] = row] /\ row.deadline = table[run].deadline
    BY <1>5 DEF Save, DeadlineInv
  <2>. QED  BY <1>1, <2>1
<1>6. CASE ~Save /\ TableSaves
  <2>1. table' = table
    BY <1>6 DEF TableSaves, Next, Engine, World, vars, runs, Start, ReplayDone, TakeEvent, TakeTick,
       Resume, Dequeue, ListFlows, Claim, Admit, TraceCancelled, Check, Command, Pause,
       SetAutomationEnabled, Complete, Drop, Trace, Done, Occur, Confirm, Update, Tick, Crash, At_
  <2>. QED  BY <2>1
<1>. QED  BY <1>2, <1>3, <1>4, <1>5, <1>6, TableSteps

LEMMA DeadlineInvStep ==
  ShapeInv /\ ShapeInv' /\ HandInv /\ DeadlineInv /\ [Next]_vars => DeadlineInv'
<1> SUFFICES ASSUME ShapeInv, ShapeInv', HandInv, DeadlineInv, [Next]_vars
             PROVE  DeadlineInv'
  OBVIOUS
<1>0. /\ live \subseteq Run /\ live \subseteq 1..last /\ table \in [Run -> Row] /\ last \in 0..MaxRuns
      /\ 1..last \subseteq Run
  <2>1. live \subseteq Run /\ table \in [Run -> Row] /\ last \in 0..MaxRuns
    BY DEF ShapeInv, TypeOK
  <2>2. live \subseteq 1..last /\ 1..last \subseteq Run
    BY <2>1 DEF HandInv, Run
  <2>. QED  BY <2>1, <2>2
<1>1. \A r \in 1..last : table'[r].deadline = table[r].deadline
  BY DeadlinesStay
<1>2. 1..last \subseteq 1..last'
  <2>1. last' = last \/ last' = last + 1
    BY DEF Next, Engine, World, vars, counts, hand, Start, ReplayDone, TakeEvent, TakeTick, Resume,
       Dequeue, ListFlows, Claim, Admit, TraceCancelled, Check, Command, Pause,
       SetAutomationEnabled, Complete, Save, Drop, Trace, Done, Occur, Confirm, Update, Tick, Crash
  <2>. QED  BY <1>0, <2>1
\* A command asked now is one of the run at hand, before its deadline.
<1>3. ASSUME NEW c \in commands', c \notin commands
      PROVE  c.key.run \in 1..last /\ c.at < table[c.key.run].deadline
  <2>1. CASE Command
    <3>1. pc = "step" /\ run \in live /\ clock < row.deadline /\ row.deadline = table[run].deadline
      BY <2>1 DEF Command, At_, HandInv, DeadlineInv
    <3>2. c.at = clock /\ c.key = KeyOf
      <4>1. Accepted \/ Refused
        BY <2>1 DEF Command
      <4>2. commands' \subseteq commands \cup {Request(s) : s \in {"sent", "failed"}}
        BY <4>1 DEF Accepted, Refused
      <4>. QED  BY <1>3, <4>2 DEF Request
    <3>3. c.key.run = run
      BY <3>2 DEF KeyOf
    <3>. QED  BY <1>0, <3>1, <3>2, <3>3
  <2>2. ASSUME NEW d \in commands, Confirm(d)
        PROVE  c.key.run \in 1..last /\ c.at < table[c.key.run].deadline
    <3>1. c = [d EXCEPT !.status = "confirmed"] /\ d \in CommandRecord
      BY <1>3, <2>2 DEF Confirm, ShapeInv
    <3>2. c.key = d.key /\ c.at = d.at
      BY <3>1 DEF CommandRecord
    <3>. QED  BY <3>2 DEF DeadlineInv
  <2>3. CASE commands' = commands
    BY <1>3, <2>3
  <2>4. Command \/ (\E d \in commands : Confirm(d)) \/ commands' = commands
    BY DEF Next, Engine, World, vars, world, Start, ReplayDone, TakeEvent, TakeTick, Resume,
       Dequeue, ListFlows, Claim, Admit, TraceCancelled, Check, Pause, SetAutomationEnabled,
       Complete, Save, Drop, Trace, Done, Occur, Update, Tick, Crash
  <2>. QED  BY <2>1, <2>2, <2>3, <2>4
<1>4. \A c \in commands' : c.key.run \in 1..last' /\ c.at < table'[c.key.run].deadline
  BY <1>1, <1>2, <1>3 DEF DeadlineInv
<1>. DEFINE AtHand == {"replaced", "check", "step", "save", "drop"}
            Rest == /\ pc' \in AtHand => row'.deadline = table'[run'].deadline
                    /\ pc' = "step" => clock' < row'.deadline
<1>5. Rest
  <2>. USE DEF runs, world, counts, taken, hand
  <2>1. CASE Start \/ ReplayDone \/ TakeEvent \/ TakeTick \/ ListFlows \/ Done \/ Drop \/ Save
             \/ (\E f \in Flow : Claim(f)) \/ Crash
    <3>1. pc' \notin AtHand
      BY <2>1 DEF Start, ReplayDone, TakeEvent, TakeTick, ListFlows, Done, Drop, Save, Claim, Crash
    <3>. QED  BY <3>1
  <2>2. CASE Trace
    <3>1. pc' \in {"work", "trigger"}
      BY <2>2 DEF Trace, ShapeInv, TypeOK
    <3>. QED  BY <3>1
  <2>3. ASSUME NEW r \in Run, Resume(r) PROVE Rest
    <3>1. pc' = "check" /\ row' = table[r] /\ table' = table /\ run' = r
      BY <2>3 DEF Resume
    <3>. QED  BY <3>1
  <2>4. ASSUME NEW r \in Run, Dequeue(r) PROVE Rest
    <3>1. pc' = "check" /\ row' = table'[r] /\ run' = r
      BY <2>4 DEF Dequeue
    <3>. QED  BY <3>1
  <2>5. CASE Admit
    <3>1. last + 1 \in Run
      BY <2>5, NextRun DEF Admit
    <3>2. row' = row /\ run' = last + 1 /\ pc' # "step" /\ (pc' \in AtHand => Insert(last + 1, FALSE))
      BY <2>5 DEF Admit, Skip, Replace
    <3>3. Insert(last + 1, FALSE) => table'[last + 1].deadline = row.deadline
      BY <3>1, InsertedRow
    <3>. QED  BY <3>2, <3>3
  <2>6. CASE Check \/ Pause \/ SetAutomationEnabled \/ Complete \/ Command
    <3>1. pc \in {"check", "step"} /\ UNCHANGED <<table, run, clock>>
      BY <2>6 DEF Check, Pause, SetAutomationEnabled, Complete, Command, At_
    <3>2. row'.deadline = row.deadline
      BY <2>6, <3>1, RowStep DEF HandInv
    <3>3. pc' = "step" => clock < row.deadline
      <4>1. CASE Check
        <5>1. pc' = "step" => ~(row.deadline <= clock)
          BY <4>1 DEF Check, TimedOut
        <5>2. row.deadline \in Nat /\ clock \in Nat
          BY DEF ShapeInv, TypeOK, Row, Instant, Never, Time
        <5>. QED  BY <5>1, <5>2
      <4>2. CASE pc = "step"
        BY <4>2 DEF DeadlineInv
      <4>. QED  BY <2>6, <4>1, <4>2 DEF Pause, SetAutomationEnabled, Complete, Command, At_
    <3>. QED  BY <3>1, <3>2, <3>3 DEF DeadlineInv
  <2>7. CASE TraceCancelled
    BY <2>7 DEF TraceCancelled, DeadlineInv
  <2>8. CASE World /\ ~Crash
    BY <2>8 DEF World, Occur, Confirm, Update, Tick, DeadlineInv
  <2>9. CASE UNCHANGED vars
    BY <2>9 DEF vars, DeadlineInv
  <2>. QED  BY <2>1, <2>2, <2>3, <2>4, <2>5, <2>6, <2>7, <2>8, <2>9 DEF Next, Engine, World
<1>. QED  BY <1>4, <1>5 DEF DeadlineInv
=============================================================================
