------------------------- MODULE FlowProgressProofs -------------------------
(***************************************************************************)
(* What the runs of FlowRuns owe to their plans: waits, confirmations,     *)
(* retries and awaited events, for any flows, plans, policies and bounds;  *)
(* and that FlowRuns implements RunContract.                               *)
(***************************************************************************)
EXTENDS FlowRunsProofs

USE ConstantsAssumption

-----------------------------------------------------------------------------
(* What a run owes to its plan: the clauses and how a step moves them. *)

\* The actions a run goes through without a suspension.
Immediate == {"command", "retry", "activate", "deactivate"}

ActionOf(r, i) == Plan[table[r].flow][i]

\* The moment by which all that was asked was asked.
Reference == IF pc \in {"down", "idle"} THEN now ELSE clock

KeyAt(r, i) == [run |-> r, index |-> i, attempt |-> 0]
Asked(r, i) == \E c \in commands : c.key.run = r /\ c.key.index = i
Confirmed(r, i) == \E c \in commands : c.key = KeyAt(r, i) /\ c.status = "confirmed"

\* By t the wait at i has passed since each earlier command of the run.
Waited(r, i, t) == \A c \in commands :
    c.key.run = r /\ c.key.index < i => c.at + ActionOf(r, i).delay <= t

\* A command that lies behind the row of its run was asked by an attempt that
\* a death cut off: the run gets there again without a suspension.
CommandsInv ==
    /\ clock <= now
    /\ \A c \in commands :
          /\ c.at <= Reference /\ c.key.run \in 1..last
          /\ c.key.index \in 1..Len(Plan[table[c.key.run].flow])
          /\ c.key.attempt = 0 <=> ActionOf(c.key.run, c.key.index).do # "retry"
          /\ c.key.run \in live => \A i \in table[c.key.run].next..(c.key.index - 1) :
                ActionOf(c.key.run, i).do \in Immediate
    /\ \A n \in 1..Len(journal) : journal[n][1] = "confirmed" =>
          \E c \in commands : c.key = journal[n][2] /\ c.status = "confirmed"

\* What a run is resumed for, and how its copy in memory runs ahead of its row.
ResumedInv ==
    /\ \A r \in live : table[r].queued =>
          table[r].next = 1 /\ table[r].retry = 0 /\ table[r].awaiting = {}
    /\ \A r \in live : table[r].next <= Len(Plan[table[r].flow]) + 1
    /\ pc \in {"step", "save"} => row.next <= Len(Plan[row.flow]) + 1
    /\ pc = "admit" => row.next = 1 /\ row.retry = 0 /\ row.awaiting = {}
    /\ \A r \in work : IF task = "tick" THEN table[r].wake <= clock
                                        ELSE journal[cursor + 1] \in table[r].awaiting
    /\ pc \in {"replaced", "check"} =>
          /\ row = table[run]
          /\ row.next = 1 \/ IF timer THEN row.wake <= clock
                             ELSE task = "event" /\ journal[cursor + 1] \in row.awaiting
    /\ pc \in {"step", "save"} => row.next >= table[run].next
    /\ pc = "step" =>
          /\ \A i \in table[run].next..(row.next - 1) : ActionOf(run, i).do \in Immediate
          /\ row.retry = IF row.next = table[run].next THEN table[run].retry ELSE 0

\* Before its action n a run has kept every wait, asked every command and seen
\* every confirmation of its plan.
HeldAt(r, n, t) == \A i \in 1..(n - 1) :
    /\ ActionOf(r, i).do = "wait" => Waited(r, i, t)
    /\ ActionOf(r, i).do \in {"command", "reported", "retry"} => Asked(r, i)
    /\ ActionOf(r, i).do = "reported" => Confirmed(r, i)

\* A suspended run may still owe what it is suspended for.
HeldSave(r, w, t) == \A i \in 1..(w.next - 1) :
    /\ ActionOf(r, i).do = "wait" =>
          \/ Waited(r, i, t)
          \/ w.awaiting = {} /\ (w.deadline <= w.wake \/ Waited(r, i, w.wake))
    /\ ActionOf(r, i).do \in {"command", "reported", "retry"} => Asked(r, i)
    /\ ActionOf(r, i).do = "reported" =>
          Confirmed(r, i) \/ (w.fails /\ w.awaiting = {<<"confirmed", KeyAt(r, i)>>})

HoldInv ==
    /\ \A r \in live : HeldSave(r, table[r], Reference)
    /\ pc = "step" => HeldAt(run, row.next, clock)
    /\ pc = "save" => HeldSave(run, row, clock)
    /\ pc \in {"drop", "trace"} /\ result = "completed" =>
          HeldAt(run, Len(Plan[table[run].flow]) + 1, clock)

\* A row that counts attempts is at a retry with one left, and those are failed.
RetryHeld(r, w) == w.retry > 0 =>
    /\ ActionOf(r, w.next).do = "retry" /\ w.retry < ActionOf(r, w.next).times
    /\ \A c \in commands : c.key.run = r /\ c.key.index = w.next /\ c.key.attempt <= w.retry =>
          c.status = "failed"

\* No attempt was made beyond the one the row is at.
AttemptsUpTo(r, w) == \A c \in commands : c.key.run = r =>
    /\ c.key.index > w.next => c.key.attempt <= 1
    /\ c.key.index = w.next => c.key.attempt <= w.retry + 1

RetryInv ==
    /\ \A r \in live : RetryHeld(r, table[r]) /\ AttemptsUpTo(r, table[r])
    /\ pc = "save" => RetryHeld(run, row) /\ AttemptsUpTo(run, row)

AwaitInv ==
    /\ \A r \in live : \A n \in (since[r] + 1)..cursor : journal[n] \notin table[r].awaiting
    /\ pc \notin {"down", "idle"} /\ task = "event" =>
          \A r \in live : \/ journal[cursor + 1] \notin table[r].awaiting
                          \/ r \in work \/ since[r] > cursor
                          \/ r = run /\ pc \in {"replaced", "check", "step", "save", "drop"}

LEMMA Basics ==
  ASSUME ShapeInv, HandInv
  PROVE  /\ live \subseteq Run /\ live \subseteq 1..last /\ 1..last \subseteq Run /\ work \subseteq live
         /\ table \in [Run -> Row] /\ row \in Row /\ last \in 0..MaxRuns /\ last \in Nat
         /\ clock \in Nat /\ now \in Nat /\ cursor \in Nat /\ row.next \in Nat \ {0} /\ row.retry \in Nat
         /\ row.deadline \in Nat /\ row.wake \in Nat
         /\ \A r \in Run : /\ table[r] \in Row /\ table[r].next \in Nat \ {0} /\ table[r].retry \in Nat
                           /\ table[r].wake \in Nat /\ table[r].deadline \in Nat
         /\ commands \subseteq CommandRecord
         /\ \A c \in commands : /\ c.at \in Nat /\ c.sent \in Nat /\ c.key.index \in Nat
                                /\ c.key.attempt \in Nat /\ c.key.run \in Nat /\ c.key \in Key
<1>1. /\ live \subseteq Run /\ work \subseteq live /\ table \in [Run -> Row] /\ row \in Row
      /\ last \in 0..MaxRuns /\ clock \in Time /\ now \in Time /\ cursor \in 0..Len(journal)
      /\ journal \in Seq(Event) /\ commands \subseteq CommandRecord /\ row.next >= 1
      /\ \A r \in Run : table[r].next >= 1
  BY DEF ShapeInv, TypeOK
<1>2. last \in Nat /\ clock \in Nat /\ now \in Nat /\ cursor \in Nat
  BY <1>1 DEF Time
<1>3. live \subseteq 1..last /\ 1..last \subseteq Run
  BY <1>1 DEF HandInv, Run
<1>4. ASSUME NEW w \in Row
      PROVE  w.next \in Nat /\ w.retry \in Nat /\ w.wake \in Nat /\ w.deadline \in Nat
  BY DEF Row, Instant, Never
<1>5. \A r \in Run : table[r] \in Row
  BY <1>1
<1>6. row.next \in Nat \ {0} /\ \A r \in Run : table[r].next \in Nat \ {0}
  BY <1>1, <1>4, <1>5
<1>7. ASSUME NEW c \in commands
      PROVE  /\ c.at \in Nat /\ c.sent \in Nat /\ c.key.index \in Nat /\ c.key.attempt \in Nat
             /\ c.key.run \in Nat /\ c.key \in Key
  BY <1>1 DEF CommandRecord, Key, Time, Run
<1>. QED  BY <1>1, <1>2, <1>3, <1>4, <1>5, <1>6, <1>7

\* What a step does to the row of a run that stays or becomes one of the table.
Alike(v, w) ==
    /\ w.flow = v.flow /\ w.next = v.next /\ w.retry = v.retry /\ w.wake = v.wake
    /\ w.awaiting = v.awaiting /\ w.fails = v.fails /\ w.deadline = v.deadline

RowKept(r) == r \in live /\ table'[r] = table[r]
RowDequeued(r) == r \in live /\ Dequeue(r) /\ table[r].queued /\ Alike(table[r], table'[r])
RowSaved(r) == r \in live /\ Save /\ r = run /\ table'[r] = row
RowInserted(r) == r = last + 1 /\ r \in Run /\ Admit /\ Alike(row, table'[r])

LEMMA ToldAlike ==
  ASSUME NEW w \in Row, NEW queued \in BOOLEAN
  PROVE  Alike(w, [w EXCEPT !.queued = queued]) /\ [w EXCEPT !.queued = queued].queued = queued
BY DEF Alike, Row

LEMMA LiveRows ==
  ASSUME ShapeInv, HandInv, [Next]_vars, NEW r \in live'
  PROVE  RowKept(r) \/ RowDequeued(r) \/ RowSaved(r) \/ RowInserted(r)
<1>0. live \subseteq Run /\ table \in [Run -> Row] /\ row \in Row
  BY Basics
<1>1. CASE TableKept \/ TableDrops
  BY <1>1 DEF TableKept, TableDrops, RowKept
<1>2. CASE TableDequeues
  <2>1. PICK q \in live : Dequeue(q) /\ live' = live
    BY <1>2 DEF TableDequeues
  <2>2. table' = [table EXCEPT ![q] = [table[q] EXCEPT !.queued = FALSE]] /\ table[q].queued
    BY <2>1 DEF Dequeue, NextQueued, Startable, Some, Queued
  <2>3. CASE r # q
    BY <1>0, <2>1, <2>2, <2>3 DEF RowKept
  <2>4. CASE r = q
    <3>1. table[q] \in Row /\ table'[q] = [table[q] EXCEPT !.queued = FALSE]
      BY <1>0, <2>2
    <3>2. Alike(table[q], table'[q])
      BY <3>1, ToldAlike
    <3>. QED  BY <2>1, <2>2, <2>4, <3>2 DEF RowDequeued
  <2>. QED  BY <2>3, <2>4
<1>3. CASE TableSaves
  <2>1. CASE Save
    BY <1>0, <1>3, <2>1 DEF TableSaves, Save, RowSaved, RowKept
  <2>2. CASE ~Save
    <3>1. table' = table
      BY <1>3, <2>2 DEF TableSaves, Next, Engine, World, vars, runs, Start, ReplayDone, TakeEvent, TakeTick,
         Resume, Dequeue, ListFlows, Claim, Admit, TraceCancelled, Check, Command, Pause,
         SetAutomationEnabled, Complete, Drop, Trace, Done, Occur, Confirm, Update, Tick, Crash, At_
    <3>. QED  BY <1>3, <3>1 DEF TableSaves, RowKept
  <2>. QED  BY <2>1, <2>2
<1>4. CASE TableInserts
  <2>1. /\ Admit /\ last + 1 \in Run /\ live' \subseteq live \cup {last + 1}
        /\ \A s \in Run : s # last + 1 => table'[s] = table[s]
        /\ last + 1 \notin live
    BY <1>4 DEF TableInserts
  <2>2. CASE r = last + 1
    <3>1. PICK queued \in BOOLEAN : Insert(last + 1, queued)
      <4>1. CASE Skip
        BY <2>1, <2>2, <4>1 DEF Skip
      <4>2. CASE ~Skip
        BY <2>1, <4>2 DEF Admit, Replace
      <4>. QED  BY <4>1, <4>2
    <3>2. table'[last + 1] = [row EXCEPT !.queued = queued]
      BY <1>0, <2>1, <3>1 DEF Insert
    <3>3. Alike(row, table'[last + 1])
      BY <1>0, <3>2, ToldAlike
    <3>. QED  BY <2>1, <2>2, <3>3 DEF RowInserted
  <2>3. CASE r # last + 1
    BY <1>0, <2>1, <2>3 DEF RowKept
  <2>. QED  BY <2>2, <2>3
<1>. QED  BY <1>1, <1>2, <1>3, <1>4, TableSteps

\* A run keeps its flow.
LEMMA FlowsStay ==
  ASSUME ShapeInv, HandInv, [Next]_vars, NEW r \in 1..last
  PROVE  table'[r].flow = table[r].flow
<1>1. live \subseteq Run /\ table \in [Run -> Row] /\ r \in Run /\ last \in 0..MaxRuns
  BY Basics
<1>2. CASE TableKept \/ TableDrops
  BY <1>2 DEF TableKept, TableDrops
<1>3. CASE TableInserts
  <2>1. r # last + 1
    BY <1>1
  <2>. QED  BY <1>1, <1>3, <2>1 DEF TableInserts
<1>4. CASE TableDequeues
  BY <1>1, <1>4 DEF TableDequeues
<1>5. CASE TableSaves
  BY <1>1, <1>5 DEF TableSaves
<1>. QED  BY <1>2, <1>3, <1>4, <1>5, TableSteps

\* c becomes d by a step that confirms it or leaves it alone.
Becomes(c, d) == d.key = c.key /\ d.at = c.at /\ d.sent = c.sent
                 /\ (c.status # "sent" => d.status = c.status)
                 /\ (d.status = "sent" => c.status = "sent") /\ (d.status = "failed" => c.status = "failed")

\* A command that is asked now.
IsAsked(d) ==
    /\ Command /\ d.key = KeyOf /\ d.at = clock /\ d.sent = now /\ d.status \in {"sent", "failed"}
    /\ \A c \in commands : c.key # KeyOf
    /\ commands' = commands \cup {d}

LEMMA CommandSteps ==
  ASSUME ShapeInv, [Next]_vars
  PROVE  /\ \A d \in commands' : (\E c \in commands : Becomes(c, d)) \/ IsAsked(d)
         /\ \A c \in commands : \E d \in commands' : Becomes(c, d)
<1>0. commands \subseteq CommandRecord
  BY DEF ShapeInv
<1>1. \A c \in commands : Becomes(c, c)
  BY DEF Becomes
<1>2. CASE commands' = commands
  BY <1>1, <1>2
<1>3. CASE Command /\ commands' # commands
  <2>1. PICK s \in {"sent", "failed"} :
          /\ commands' = commands \cup {Request(s)}
          /\ \A c \in commands : c.key # KeyOf
    BY <1>3 DEF Command, Accepted, Refused
  <2>2. IsAsked(Request(s))
    BY <1>3, <2>1 DEF IsAsked, Request
  <2>. QED  BY <1>1, <2>1, <2>2
<1>4. ASSUME NEW x \in commands, Confirm(x)
      PROVE  /\ \A d \in commands' : \E c \in commands : Becomes(c, d)
             /\ \A c \in commands : \E d \in commands' : Becomes(c, d)
  <2>. DEFINE y == [x EXCEPT !.status = "confirmed"]
  <2>1. commands' = (commands \ {x}) \cup {y} /\ x.status = "sent"
    BY <1>4 DEF Confirm
  <2>2. y.key = x.key /\ y.at = x.at /\ y.sent = x.sent /\ y.status = "confirmed"
    BY <1>0 DEF CommandRecord
  <2>3. Becomes(x, y)
    BY <2>1, <2>2 DEF Becomes
  <2>. HIDE DEF y
  <2>. QED  BY <1>1, <2>1, <2>3
<1>5. Command \/ (\E x \in commands : Confirm(x)) \/ commands' = commands
  BY DEF Next, Engine, World, vars, world, Start, ReplayDone, TakeEvent, TakeTick, Resume,
     Dequeue, ListFlows, Claim, Admit, TraceCancelled, Check, Pause, SetAutomationEnabled,
     Complete, Save, Drop, Trace, Done, Occur, Update, Tick, Crash
<1>. QED  BY <1>2, <1>3, <1>4, <1>5

\* A command that is asked is one of the run at hand, at its next action.
LEMMA AskedNow ==
  ASSUME ShapeInv, HandInv, NEW d, IsAsked(d)
  PROVE  /\ pc = "step" /\ run \in live /\ row.flow = table[run].flow
         /\ row.next <= Len(Plan[table[run].flow])
         /\ Here = ActionOf(run, row.next) /\ Here.do \in {"command", "reported", "retry"}
         /\ d.key.run = run /\ d.key.index = row.next /\ d.at = clock /\ d.sent = now
         /\ d.key.attempt = IF Here.do = "retry" THEN row.retry + 1 ELSE 0
         /\ \A c \in commands : c.key.run = run /\ c.key.index = row.next
                                   => c.key.attempt # d.key.attempt
         /\ UNCHANGED <<live, table, now, cursor, last, since, run, clock, work, task, journal>>
<1>1. /\ pc = "step" /\ row.next <= Len(Plan[row.flow]) /\ Here.do \in {"command", "reported", "retry"}
      /\ d.key = KeyOf /\ d.at = clock /\ d.sent = now
      /\ UNCHANGED <<live, table, now, cursor, last, since, run, clock, work, task, journal>>
  BY DEF IsAsked, Command, At_, runs, counts, taken
<1>2. run \in live /\ row.flow = table[run].flow
  BY <1>1 DEF HandInv
<1>3. Here = ActionOf(run, row.next)
  BY <1>2 DEF Here, ActionOf
<1>4. ASSUME NEW c \in commands, c.key.run = run, c.key.index = row.next
      PROVE  c.key.attempt # d.key.attempt
  <2>1. c.key \in Key /\ c.key # KeyOf
    BY Basics DEF IsAsked
  <2>2. c.key = [run |-> c.key.run, index |-> c.key.index, attempt |-> c.key.attempt]
    BY <2>1 DEF Key
  <2>. QED  BY <1>1, <1>4, <2>1, <2>2 DEF KeyOf
<1>. QED  BY <1>1, <1>2, <1>3, <1>4 DEF KeyOf

-----------------------------------------------------------------------------
(* Commands and the clock. *)

LEMMA TimeSteps ==
  ASSUME ShapeInv, clock <= now, [Next]_vars
  PROVE  clock' <= now' /\ Reference <= Reference' /\ Reference' \in Nat /\ Reference \in Nat
<1>0. clock \in Nat /\ now \in Nat /\ 0 <= now /\ now <= now + 1
  BY DEF ShapeInv, TypeOK, Time
<1>. USE DEF Reference, runs, world, counts, taken, hand
<1>1. CASE TakeEvent \/ TakeTick \/ Start \/ ReplayDone
  BY <1>0, <1>1 DEF TakeEvent, TakeTick, Start, ReplayDone
<1>2. CASE Done \/ Crash
  BY <1>0, <1>2 DEF Done, Crash
<1>3. CASE Tick
  BY <1>0, <1>3 DEF Tick
<1>4. CASE /\ UNCHANGED <<clock, now>>
           /\ pc' \in {"down", "idle"} <=> pc \in {"down", "idle"}
  BY <1>0, <1>4
<1>5. CASE Trace
  <2>1. pc' \in {"work", "trigger"} /\ pc = "trace" /\ UNCHANGED <<clock, now>>
    BY <1>5 DEF Trace, ShapeInv, TypeOK
  <2>. QED  BY <1>4, <2>1
<1>6. CASE ListFlows \/ Admit \/ TraceCancelled \/ Check \/ Command \/ Pause
           \/ SetAutomationEnabled \/ Complete \/ Save \/ Drop
           \/ (\E r \in Run : Resume(r) \/ Dequeue(r)) \/ (\E f \in Flow : Claim(f))
  <2>1. UNCHANGED <<clock, now>>
    BY <1>6 DEF ListFlows, Admit, TraceCancelled, Check, Command, Pause,
       SetAutomationEnabled, Complete, Save, Drop, Resume, Dequeue, Claim
  <2>2. pc \notin {"down", "idle"} /\ pc' \notin {"down", "idle"}
    <3>1. CASE Admit
      BY <3>1 DEF Admit, Skip, Replace
    <3>2. CASE \/ ListFlows \/ TraceCancelled \/ Save \/ Drop
               \/ (\E r \in Run : Resume(r) \/ Dequeue(r)) \/ (\E f \in Flow : Claim(f))
      BY <3>2 DEF ListFlows, TraceCancelled, Save, Drop, Resume, Dequeue, Claim
    <3>3. CASE Check \/ Command \/ Pause \/ SetAutomationEnabled \/ Complete
      BY <3>3 DEF Check, Command, Pause, SetAutomationEnabled, Complete, At_
    <3>. QED  BY <1>6, <3>1, <3>2, <3>3
  <2>. QED  BY <1>4, <2>1, <2>2
<1>7. CASE World /\ ~Crash /\ ~Tick
  BY <1>4, <1>7 DEF World, Occur, Confirm, Update
<1>8. CASE UNCHANGED vars
  BY <1>4, <1>8 DEF vars
<1>. QED  BY <1>1, <1>2, <1>3, <1>5, <1>6, <1>7, <1>8 DEF Next, Engine, World

LEMMA ActionsStay ==
  ASSUME ShapeInv, HandInv, [Next]_vars, NEW r \in 1..last, NEW i
  PROVE  ActionOf(r, i)' = ActionOf(r, i)
BY FlowsStay DEF ActionOf

LEMMA AskedStays ==
  ASSUME ShapeInv, [Next]_vars, NEW r, NEW i
  PROVE  /\ Asked(r, i) => Asked(r, i)'
         /\ Confirmed(r, i) => Confirmed(r, i)'
<1>1. \A c \in commands : \E d \in commands' : Becomes(c, d)
  BY CommandSteps
<1>2. Asked(r, i) => Asked(r, i)'
  BY <1>1 DEF Asked, Becomes
<1>3. ASSUME Confirmed(r, i) PROVE Confirmed(r, i)'
  <2>1. PICK c \in commands : c.key = KeyAt(r, i) /\ c.status = "confirmed"
    BY <1>3 DEF Confirmed
  <2>2. PICK d \in commands' : Becomes(c, d)
    BY <1>1
  <2>. QED  BY <2>1, <2>2 DEF Becomes, Confirmed, KeyAt
<1>. QED  BY <1>2, <1>3

LEMMA PlanAction ==
  ASSUME ShapeInv, HandInv, NEW r \in 1..last, NEW i \in 1..Len(Plan[table[r].flow])
  PROVE  ActionOf(r, i) \in Action /\ ActionOf(r, i).delay \in Nat /\ ActionOf(r, i).times \in Nat \ {0}
<1>1. table[r] \in Row
  BY Basics
<1>2. Plan[table[r].flow] \in Seq(Action)
  BY <1>1 DEF Row
<1>3. Plan[table[r].flow][i] \in Action
  <2>1. ASSUME NEW s \in Seq(Action), NEW k \in 1..Len(s) PROVE s[k] \in Action
    OBVIOUS
  <2>. QED  BY <1>2, <2>1
<1>. QED  BY <1>3 DEF ActionOf, Action

LEMMA WaitedStays ==
  ASSUME ShapeInv, HandInv, [Next]_vars, NEW r \in 1..last, NEW i \in 1..Len(Plan[table[r].flow]),
         NEW t \in Nat, NEW u \in Nat, t <= u, Waited(r, i, t), Command /\ run = r => i <= row.next
  PROVE  Waited(r, i, u)'
<1>1. ActionOf(r, i)' = ActionOf(r, i)
  BY ActionsStay
<1>2. ActionOf(r, i).delay \in Nat
  BY PlanAction
<1>3. ASSUME NEW d \in commands', d.key.run = r, d.key.index < i
      PROVE  d.at + ActionOf(r, i).delay <= u
  <2>1. CASE IsAsked(d)
    <3>1. d.key.run = run /\ d.key.index = row.next /\ Command
      BY <2>1, AskedNow DEF IsAsked
    <3>2. row.next \in Nat
      BY Basics
    <3>3. i <= row.next /\ row.next < i
      BY <1>3, <3>1
    <3>. QED  BY <3>2, <3>3
  <2>2. ASSUME NEW c \in commands, Becomes(c, d)
        PROVE  d.at + ActionOf(r, i).delay <= u
    <3>1. c.key = d.key /\ c.at = d.at /\ c.at \in Nat
      BY <2>2, Basics DEF Becomes
    <3>2. c.at + ActionOf(r, i).delay <= t
      BY <1>3, <3>1 DEF Waited
    <3>. QED  BY <1>2, <3>1, <3>2
  <2>. QED  BY <2>1, <2>2, CommandSteps
<1>. QED  BY <1>1, <1>3 DEF Waited

LEMMA JournalSteps ==
  ASSUME ShapeInv, [Next]_vars
  PROVE  \/ journal' = journal
         \/ \E s \in Signal : journal' = Append(journal, <<"signal", s>>)
         \/ \E x \in commands : Confirm(x)
BY DEF Next, Engine, World, vars, world, Start, ReplayDone, TakeEvent, TakeTick, Resume, Dequeue,
   ListFlows, Claim, Admit, TraceCancelled, Check, Command, Pause, SetAutomationEnabled, Complete,
   Save, Drop, Trace, Done, Occur, Update, Tick, Crash

LEMMA LastGrows ==
  ASSUME ShapeInv, [Next]_vars
  PROVE  last' \in Nat /\ last <= last' /\ 1..last \subseteq 1..last'
<1>1. last' = last \/ last' = last + 1
  BY DEF Next, Engine, World, vars, counts, hand, Start, ReplayDone, TakeEvent, TakeTick, Resume,
     Dequeue, ListFlows, Claim, Admit, TraceCancelled, Check, Command, Pause,
     SetAutomationEnabled, Complete, Save, Drop, Trace, Done, Occur, Confirm, Update, Tick, Crash
<1>2. last \in Nat
  BY DEF ShapeInv, TypeOK
<1>. QED  BY <1>1, <1>2

LEMMA CommandsInvInit == Init => CommandsInv
<1> SUFFICES ASSUME Init PROVE CommandsInv
  OBVIOUS
<1>1. commands = {} /\ journal = <<>> /\ clock = 0 /\ now = 0
  BY DEF Init
<1>2. 1..Len(journal) = {}
  BY <1>1
<1>. QED  BY <1>1, <1>2 DEF CommandsInv

LEMMA CommandsInvStep ==
  ASSUME ShapeInv, ShapeInv', HandInv, CommandsInv, ResumedInv, [Next]_vars
  PROVE  CommandsInv'
<1>1. /\ clock' <= now' /\ Reference <= Reference' /\ Reference \in Nat /\ Reference' \in Nat
  BY TimeSteps DEF CommandsInv
<1>2. 1..last \subseteq 1..last'
  BY LastGrows
<1>3. ASSUME NEW c \in commands, c.key.run \in live'
      PROVE  c.key.run \in live /\ table'[c.key.run].next \in Nat /\ table[c.key.run].next <= table'[c.key.run].next
  <2>. DEFINE r == c.key.run
  <2>1. r \in 1..last /\ r # last + 1
    <3>1. r \in 1..last
      BY DEF CommandsInv
    <3>2. last \in Nat
      BY Basics
    <3>. QED  BY <3>1, <3>2
  <2>2. r \in Run /\ table[r].next \in Nat
    BY <2>1, Basics
  <2>3. RowKept(r) \/ RowDequeued(r) \/ RowSaved(r)
    BY <1>3, <2>1, LiveRows DEF RowInserted
  <2>4. RowSaved(r) => row.next \in Nat /\ row.next >= table[run].next
    BY Basics DEF RowSaved, Save, ResumedInv
  <2>. QED  BY <2>2, <2>3, <2>4 DEF RowKept, RowDequeued, RowSaved, Alike
<1>4. ASSUME NEW d \in commands'
      PROVE  /\ d.at <= Reference' /\ d.key.run \in 1..last'
             /\ d.key.index \in 1..Len(Plan[table'[d.key.run].flow])
             /\ d.key.attempt = 0 <=> ActionOf(d.key.run, d.key.index)'.do # "retry"
             /\ d.key.run \in live' => \A i \in table'[d.key.run].next..(d.key.index - 1) :
                   ActionOf(d.key.run, i)'.do \in Immediate
  <2>1. ASSUME NEW c \in commands, Becomes(c, d) PROVE <1>4!2
    <3>1. PICK r \in 1..last, n \in Nat : r = c.key.run /\ n = c.key.index
      BY Basics DEF CommandsInv
    <3>2. d.key.run = r /\ d.key.index = n /\ d.key = c.key /\ d.at = c.at
      BY <2>1, <3>1 DEF Becomes
    <3>3. \A i : ActionOf(r, i)' = ActionOf(r, i)
      BY ActionsStay
    <3>4. table'[r].flow = table[r].flow
      BY FlowsStay
    <3>5. d.at <= Reference'
      <4>1. c.at \in Nat /\ d.at = c.at
        BY <3>2, Basics
      <4>2. c.at <= Reference
        BY DEF CommandsInv
      <4>. QED  BY <1>1, <4>1, <4>2
    <3>6. ASSUME r \in live', NEW i \in table'[r].next..(n - 1)
          PROVE  ActionOf(r, i)'.do \in Immediate
      <4>1. r \in live /\ table'[r].next \in Nat /\ table[r].next <= table'[r].next /\ table[r].next \in Nat
        <5>1. table[r].next \in Nat
          BY <1>3, <3>1, <3>6, Basics
        <5>. QED  BY <1>3, <3>1, <3>6, <5>1
      <4>2. i \in table[r].next..(n - 1)
        <5>1. ASSUME NEW a \in Nat, NEW b \in Nat, a <= b, NEW k \in b..(n - 1) PROVE k \in a..(n - 1)
          BY <5>1
        <5>. QED  BY <3>6, <4>1, <5>1
      <4>. QED  BY <3>1, <3>3, <4>1, <4>2 DEF CommandsInv
    <3>7. r \in 1..last'
      BY <1>2
    <3>8. n \in 1..Len(Plan[table'[r].flow])
      BY <3>1, <3>4 DEF CommandsInv
    <3>9. d.key.attempt = 0 <=> ActionOf(r, n)'.do # "retry"
      BY <3>1, <3>2, <3>3 DEF CommandsInv
    <3>. QED  BY <3>2, <3>5, <3>6, <3>7, <3>8, <3>9
  <2>2. CASE IsAsked(d)
    <3>1. PICK r \in 1..last, n \in Nat \ {0} : /\ r = run /\ n = row.next
      BY <2>2, AskedNow, Basics
    <3>2. /\ pc = "step" /\ r \in live /\ n <= Len(Plan[table[r].flow])
          /\ Here = ActionOf(r, n)
          /\ d.key.run = r /\ d.key.index = n /\ d.at = clock
          /\ d.key.attempt = IF Here.do = "retry" THEN row.retry + 1 ELSE 0
          /\ UNCHANGED <<live, table, last>> /\ row.retry \in Nat
      BY <2>2, <3>1, AskedNow, Basics
    <3>3. \A i : ActionOf(r, i)' = ActionOf(r, i)
      BY <3>1, ActionsStay
    <3>4. d.at <= Reference'
      BY <1>1, <3>2 DEF Reference
    <3>5. n \in 1..Len(Plan[table'[r].flow])
      <4>1. Len(Plan[table[r].flow]) \in Nat
        <5>1. Plan[table[r].flow] \in Seq(Action)
          BY <3>1, Basics DEF Row
        <5>. QED  BY <5>1
      <4>. QED  BY <3>1, <3>2, <4>1
    <3>6. d.key.attempt = 0 <=> ActionOf(r, n)'.do # "retry"
      <4>1. Here.do = ActionOf(r, n)'.do
        BY <3>2, <3>3
      <4>. QED  BY <3>2, <4>1
    <3>7. \A i \in table'[r].next..(n - 1) : ActionOf(r, i)'.do \in Immediate
      <4>1. \A i \in table[r].next..(n - 1) : ActionOf(r, i).do \in Immediate
        BY <3>1, <3>2 DEF ResumedInv
      <4>. QED  BY <3>2, <3>3, <4>1
    <3>. QED  BY <1>2, <3>1, <3>2, <3>4, <3>5, <3>6, <3>7
  <2>. QED  BY <2>1, <2>2, CommandSteps
<1>5. ASSUME NEW n \in 1..Len(journal'), journal'[n][1] = "confirmed"
      PROVE  \E c \in commands' : c.key = journal'[n][2] /\ c.status = "confirmed"
  <2>1. CASE n \in 1..Len(journal) /\ journal'[n] = journal[n]
    <3>1. PICK c \in commands : c.key = journal[n][2] /\ c.status = "confirmed"
      BY <1>5, <2>1 DEF CommandsInv
    <3>2. PICK d \in commands' : Becomes(c, d)
      BY CommandSteps
    <3>. QED  BY <2>1, <3>1, <3>2 DEF Becomes
  <2>2. CASE journal' = journal
    BY <1>5, <2>1, <2>2
  <2>3. journal \in Seq(Event)
    BY DEF ShapeInv, TypeOK
  <2>4. ASSUME NEW e, journal' = Append(journal, e), n # Len(journal) + 1
        PROVE  n \in 1..Len(journal) /\ journal'[n] = journal[n]
    BY <1>5, <2>3, <2>4
  <2>5. ASSUME NEW s \in Signal, journal' = Append(journal, <<"signal", s>>) PROVE n # Len(journal) + 1
    BY <1>5, <2>3, <2>5
  <2>6. ASSUME NEW x \in commands, Confirm(x), n = Len(journal) + 1
        PROVE  \E c \in commands' : c.key = journal'[n][2] /\ c.status = "confirmed"
    <3>. DEFINE y == [x EXCEPT !.status = "confirmed"]
    <3>1. y \in commands' /\ journal'[n] = <<"confirmed", x.key>>
      BY <2>3, <2>6 DEF Confirm
    <3>2. x \in CommandRecord
      BY DEF ShapeInv
    <3>3. y.key = x.key /\ y.status = "confirmed"
      BY <3>2 DEF CommandRecord
    <3>. HIDE DEF y
    <3>. QED  BY <3>1, <3>3
  <2>7. \A x \in commands : Confirm(x) => journal' = Append(journal, <<"confirmed", x.key>>)
    BY DEF Confirm
  <2>. QED  BY <2>1, <2>2, <2>4, <2>5, <2>6, <2>7, JournalSteps
<1>. QED  BY <1>1, <1>4, <1>5 DEF CommandsInv

-----------------------------------------------------------------------------
(* The copy in memory and the row. *)

LEMMA TakesNoQueued ==
  ASSUME NEW w \in Row, w.queued = FALSE
  PROVE  [w EXCEPT !.queued = FALSE] = w
BY DEF Row

\* The copies in memory of a run whose next action is worked off.
LEMMA Copies ==
  ASSUME ShapeInv, HandInv
  PROVE  /\ Advanced.next = row.next + 1 /\ Advanced.retry = 0
         /\ Advanced.deadline = row.deadline /\ Advanced.flow = row.flow /\ Advanced \in Row
         /\ \A w : w = [row EXCEPT !.retry = @ + 1] =>
               /\ w.next = row.next /\ w.retry = row.retry + 1 /\ w.deadline = row.deadline
               /\ w.flow = row.flow /\ w \in Row
<1>1. row \in Row
  BY Basics
<1>3. GoodRow(Advanced) /\ GoodRow([row EXCEPT !.retry = @ + 1])
  BY AdvancedGood DEF ShapeInv, TypeOK, GoodRow
<1>4. /\ Advanced.next = row.next + 1 /\ Advanced.retry = 0 /\ Advanced.deadline = row.deadline
      /\ Advanced.flow = row.flow /\ Advanced \in Row
  BY <1>1, <1>3 DEF Advanced, Row, GoodRow
<1>5. PICK u : u = [row EXCEPT !.retry = @ + 1]
  OBVIOUS
<1>6. u \in Row /\ u.next = row.next /\ u.retry = row.retry + 1 /\ u.deadline = row.deadline /\ u.flow = row.flow
  BY <1>1, <1>3, <1>5 DEF Row, GoodRow
<1>. QED  BY <1>4, <1>5, <1>6

SuspendedOf(w, x, wake, awaiting) ==
    /\ w.next = x.next /\ w.retry = x.retry /\ w.wake = Sooner(wake, row.deadline)
    /\ w.awaiting = awaiting /\ w.deadline = x.deadline /\ w.flow = x.flow

LEMMA SuspendedCopy ==
  ASSUME NEW x \in Row, NEW wake, NEW awaiting
  PROVE  /\ SuspendedOf(Suspended(x, wake, awaiting, TRUE), x, wake, awaiting)
         /\ Suspended(x, wake, awaiting, TRUE).fails = TRUE
         /\ SuspendedOf(Suspended(x, wake, awaiting, FALSE), x, wake, awaiting)
         /\ Suspended(x, wake, awaiting, FALSE).fails = FALSE
BY DEF SuspendedOf, Suspended, Row

\* What Command leaves in memory of a run.
LEMMA CommandRow ==
  ASSUME ShapeInv, HandInv, Command
  PROVE  /\ pc = "step" /\ row.next <= Len(Plan[row.flow]) /\ Here.do \in {"command", "reported", "retry"}
         /\ \/ /\ pc' = "step" /\ Accepted /\ Here.do # "reported" /\ row' = Advanced
            \/ /\ pc' = "save" /\ Accepted /\ Here.do = "reported" /\ result' = "suspended"
               /\ SuspendedOf(row', Advanced, After(clock, Here.delay), {<<"confirmed", KeyOf>>})
               /\ row'.fails = TRUE
            \/ /\ pc' = "save" /\ Refused /\ Here.do = "retry" /\ AttemptLeft /\ result' = "suspended"
               /\ row'.next = row.next /\ row'.retry = row.retry + 1 /\ row'.awaiting = {}
               /\ row'.deadline = row.deadline /\ row'.flow = row.flow
            \/ pc' = "drop" /\ result' = "failed"
<1>1. pc = "step" /\ row.next <= Len(Plan[row.flow]) /\ Here.do \in {"command", "reported", "retry"}
  BY DEF Command, At_
<1>2. CASE Accepted /\ Here.do # "reported" /\ row' = Advanced /\ UNCHANGED <<pc, result>>
  BY <1>1, <1>2
<1>3. CASE /\ Accepted /\ Here.do = "reported"
           /\ row' = Suspended(Advanced, After(clock, Here.delay), {<<"confirmed", KeyOf>>}, TRUE)
           /\ result' = "suspended" /\ pc' = "save"
  <2>1. PICK x, wake, awaiting :
          /\ x \in Row
          /\ x = Advanced /\ wake = After(clock, Here.delay) /\ awaiting = {<<"confirmed", KeyOf>>}
    BY Copies
  <2>2. row' = Suspended(x, wake, awaiting, TRUE)
    BY <1>3, <2>1
  <2>3. SuspendedOf(row', x, wake, awaiting) /\ row'.fails = TRUE
    BY <2>1, <2>2, SuspendedCopy
  <2>. QED  BY <1>1, <1>3, <2>1, <2>3
<1>4. CASE /\ Refused /\ Here.do = "retry" /\ AttemptLeft
           /\ row' = Suspended([row EXCEPT !.retry = @ + 1], After(clock, Here.delay), {}, FALSE)
           /\ result' = "suspended" /\ pc' = "save"
  <2>1. PICK x, wake, awaiting :
          /\ x \in Row
          /\ x = [row EXCEPT !.retry = @ + 1] /\ wake = After(clock, Here.delay) /\ awaiting = {}
    BY Copies
  <2>2. row' = Suspended(x, wake, awaiting, FALSE)
    BY <1>4, <2>1
  <2>3. SuspendedOf(row', x, wake, awaiting)
    BY <2>1, <2>2, SuspendedCopy
  <2>4. /\ x.next = row.next /\ x.retry = row.retry + 1 /\ x.deadline = row.deadline
        /\ x.flow = row.flow
    BY <2>1, Copies
  <2>. QED  BY <1>1, <1>4, <2>1, <2>3, <2>4 DEF SuspendedOf
<1>. QED  BY <1>1, <1>2, <1>3, <1>4 DEF Command

LEMMA PauseRow ==
  ASSUME ShapeInv, HandInv, Pause
  PROVE  /\ pc = "step" /\ row.next <= Len(Plan[row.flow]) /\ Here.do \in {"wait", "await", "forever"}
         /\ pc' = "save"
         /\ \E wake, awaiting :
               /\ SuspendedOf(row', Advanced, wake, awaiting) /\ row'.fails = FALSE
               /\ Here.do = "wait" => wake = After(clock, Here.delay) /\ awaiting = {}
               /\ Here.do # "wait" => awaiting = {"signal"} \X Here.on
<1>1. /\ pc = "step" /\ row.next <= Len(Plan[row.flow]) /\ Here.do \in {"wait", "await", "forever"}
      /\ pc' = "save"
  BY DEF Pause, At_
<1>2. PICK wake, awaiting :
        /\ row' = Suspended(Advanced, wake, awaiting, FALSE)
        /\ Here.do = "wait" => wake = After(clock, Here.delay) /\ awaiting = {}
        /\ Here.do # "wait" => awaiting = {"signal"} \X Here.on
  BY DEF Pause
<1>3. PICK x \in Row : x = Advanced
  BY Copies
<1>4. row' = Suspended(x, wake, awaiting, FALSE)
  BY <1>2, <1>3
<1>5. SuspendedOf(row', x, wake, awaiting) /\ row'.fails = FALSE
  BY <1>4, SuspendedCopy
<1>. QED  BY <1>1, <1>2, <1>3, <1>5

LEMMA JournalKept ==
  ASSUME ShapeInv, [Next]_vars, NEW n \in 1..Len(journal)
  PROVE  journal'[n] = journal[n]
<1>1. journal \in Seq(Event)
  BY DEF ShapeInv, TypeOK
<1>2. \A e : journal' = Append(journal, e) => journal'[n] = journal[n]
  BY <1>1
<1>3. \A x \in commands : Confirm(x) => journal' = Append(journal, <<"confirmed", x.key>>)
  BY DEF Confirm
<1>. QED  BY <1>2, <1>3, JournalSteps

RowsAre == \A r \in live :
    /\ table[r].queued => table[r].next = 1 /\ table[r].retry = 0 /\ table[r].awaiting = {}
    /\ table[r].next <= Len(Plan[table[r].flow]) + 1

LEMMA PlanLen == ASSUME NEW f \in Flow PROVE Plan[f] \in Seq(Action) /\ Len(Plan[f]) \in Nat
<1>1. Plan[f] \in Seq(Action)
  OBVIOUS
<1>. QED  BY <1>1

LEMMA RowsStep == ASSUME ShapeInv, HandInv, ResumedInv, [Next]_vars PROVE RowsAre'
<1> SUFFICES ASSUME NEW r \in live'
             PROVE  /\ table'[r].queued => table'[r].next = 1 /\ table'[r].retry = 0 /\ table'[r].awaiting = {}
                    /\ table'[r].next <= Len(Plan[table'[r].flow]) + 1
  BY DEF RowsAre
<1>1. CASE RowKept(r)
  BY <1>1 DEF RowKept, ResumedInv
<1>2. CASE RowDequeued(r)
  BY <1>2 DEF RowDequeued, Alike, ResumedInv
<1>3. CASE RowSaved(r)
  <2>1. pc = "save" /\ table'[r] = row /\ row.queued = FALSE
    BY <1>3 DEF RowSaved, Save, HandInv
  <2>. QED  BY <2>1 DEF ResumedInv
<1>4. CASE RowInserted(r)
  <2>1. /\ pc = "admit" /\ table'[r].next = row.next /\ table'[r].retry = row.retry
        /\ table'[r].awaiting = row.awaiting /\ table'[r].flow = row.flow
    BY <1>4 DEF RowInserted, Admit, Alike
  <2>2. row.next = 1 /\ row.retry = 0 /\ row.awaiting = {}
    BY <2>1 DEF ResumedInv
  <2>3. Len(Plan[row.flow]) \in Nat
    BY Basics, PlanLen DEF Row
  <2>. QED  BY <2>1, <2>2, <2>3
<1>. QED  BY <1>1, <1>2, <1>3, <1>4, LiveRows

\* The rest of ResumedInv.
HandIs ==
    /\ pc \in {"step", "save"} => row.next <= Len(Plan[row.flow]) + 1
    /\ pc = "admit" => row.next = 1 /\ row.retry = 0 /\ row.awaiting = {}
    /\ \A r \in work : IF task = "tick" THEN table[r].wake <= clock
                                        ELSE journal[cursor + 1] \in table[r].awaiting
    /\ pc \in {"replaced", "check"} =>
          /\ row = table[run]
          /\ row.next = 1 \/ IF timer THEN row.wake <= clock
                             ELSE task = "event" /\ journal[cursor + 1] \in row.awaiting
    /\ pc \in {"step", "save"} => row.next >= table[run].next
    /\ pc = "step" =>
          /\ \A i \in table[run].next..(row.next - 1) : ActionOf(run, i).do \in Immediate
          /\ row.retry = IF row.next = table[run].next THEN table[run].retry ELSE 0

LEMMA ResumedParts == ResumedInv <=> RowsAre /\ HandIs
BY DEF ResumedInv, RowsAre, HandIs

LEMMA HandStep == ASSUME ShapeInv, ShapeInv', HandInv, ResumedInv, [Next]_vars PROVE HandIs'
<1>. USE DEF HandIs, runs, world, counts, taken, hand
<1>0. HandIs /\ RowsAre
  BY ResumedParts
\* A step that leaves the run at hand, what is worked off and the table alone.
<1>1. ASSUME UNCHANGED <<table, run, row, timer, task, clock, cursor, pc>>, work' \subseteq work
      PROVE  HandIs'
  <2>1. CASE pc \in {"down", "idle"}
    <3>1. work' = {}
      BY <1>1, <2>1 DEF ShapeInv, Apart
    <3>. QED  BY <1>1, <2>1, <3>1
  <2>2. CASE pc \notin {"down", "idle"} /\ task = "event"
    <3>1. cursor + 1 \in 1..Len(journal)
      BY <2>2 DEF ShapeInv, TypeOK, Apart
    <3>2. journal'[cursor' + 1] = journal[cursor + 1]
      BY <1>1, <3>1, JournalKept
    <3>3. \A i : ActionOf(run, i)' = ActionOf(run, i)
      BY <1>1 DEF ActionOf
    <3>. QED  BY <1>0, <1>1, <2>2, <3>2, <3>3
  <2>3. CASE task = "tick"
    <3>1. \A i : ActionOf(run, i)' = ActionOf(run, i)
      BY <1>1 DEF ActionOf
    <3>2. timer \/ pc \notin {"replaced", "check"} \/ row.next = 1
      BY <1>0, <2>3
    <3>. QED  BY <1>0, <1>1, <2>3, <3>1, <3>2
  <2>4. task \in {"tick", "event"}
    BY DEF ShapeInv, TypeOK
  <2>. QED  BY <2>1, <2>2, <2>3, <2>4
<1>2. ASSUME work' = {} \/ (work' \subseteq work /\ UNCHANGED <<task, cursor, journal, clock>>
                               /\ \A r \in work : table'[r] = table[r]),
             pc' \notin {"admit", "replaced", "check", "step", "save"}
      PROVE  HandIs'
  <2>1. \A r \in work' : IF task' = "tick" THEN table'[r].wake <= clock'
                                            ELSE journal'[cursor' + 1] \in table'[r].awaiting
    <3> SUFFICES ASSUME NEW r \in work'
                 PROVE  IF task' = "tick" THEN table'[r].wake <= clock'
                                          ELSE journal'[cursor' + 1] \in table'[r].awaiting
      OBVIOUS
    <3>1. r \in work /\ UNCHANGED <<task, cursor, journal, clock>> /\ table'[r] = table[r]
      BY <1>2
    <3>2. IF task = "tick" THEN table[r].wake <= clock ELSE journal[cursor + 1] \in table[r].awaiting
      BY <1>0, <3>1
    <3>. QED  BY <3>1, <3>2
  <2>. QED  BY <1>2, <2>1
<1>3. CASE Start \/ ReplayDone \/ ListFlows \/ Done \/ Drop \/ Crash
  <2>1. pc' \notin {"admit", "replaced", "check", "step", "save"}
    BY <1>3 DEF Start, ReplayDone, ListFlows, Done, Drop, Crash
  <2>2. CASE Start \/ ReplayDone \/ ListFlows \/ Done \/ Crash
    <3>1. work' = {}
      BY <2>2 DEF Start, ReplayDone, ListFlows, Done, Crash, ShapeInv, Apart
    <3>. QED  BY <1>2, <2>1, <3>1
  <2>3. CASE Drop
    BY <1>2, <2>1, <2>3 DEF Drop
  <2>. QED  BY <1>3, <2>2, <2>3
<1>4. CASE Trace
  <2>1. pc' \in {"work", "trigger"}
    BY <1>4 DEF Trace, ShapeInv, TypeOK
  <2>. QED  BY <1>2, <1>4, <2>1 DEF Trace
<1>5. CASE Save
  <2>1. run \notin work /\ work \subseteq Run /\ table \in [Run -> Row]
    BY Basics DEF ShapeInv, Apart
  <2>2. \A r \in work : table'[r] = table[r]
    BY <1>5, <2>1 DEF Save
  <2>. QED  BY <1>2, <1>5, <2>2 DEF Save
<1>6. CASE TakeEvent
  <2>1. \A r \in work' : journal[cursor + 1] \in table[r].awaiting
    BY <1>6 DEF TakeEvent, Awaiting
  <2>. QED  BY <1>6, <2>1 DEF TakeEvent
<1>7. CASE TakeTick
  <2>1. \A r \in work' : table[r].wake <= clock'
    BY <1>7 DEF TakeTick, Due, Some
  <2>. QED  BY <1>7, <2>1 DEF TakeTick
<1>8. ASSUME NEW r \in Run, Resume(r) PROVE HandIs'
  <2>1. /\ r \in work /\ pc' = "check" /\ row' = table[r] /\ run' = r /\ timer' = (task = "tick")
        /\ work' \subseteq work /\ UNCHANGED <<table, task, clock, cursor, journal>>
    BY <1>8 DEF Resume
  <2>2. IF task = "tick" THEN table[r].wake <= clock ELSE journal[cursor + 1] \in table[r].awaiting
    BY <1>0, <2>1
  <2>3. task = "tick" \/ task = "event"
    BY DEF ShapeInv, TypeOK
  <2>4. \A s \in work' : IF task' = "tick" THEN table'[s].wake <= clock'
                                            ELSE journal'[cursor' + 1] \in table'[s].awaiting
    BY <1>0, <2>1
  <2>5. row' = table'[run'] /\ IF timer' THEN row'.wake <= clock'
                               ELSE task' = "event" /\ journal'[cursor' + 1] \in row'.awaiting
    BY <2>1, <2>2, <2>3
  <2>. QED  BY <2>1, <2>4, <2>5
<1>9. ASSUME NEW r \in Run, Dequeue(r) PROVE HandIs'
  <2>1. /\ pc' = "check" /\ row' = table'[r] /\ run' = r /\ work' = {}
    BY <1>9 DEF Dequeue
  <2>2. r \in live /\ table[r].queued /\ table' = [table EXCEPT ![r] = [table[r] EXCEPT !.queued = FALSE]]
    BY <1>9 DEF Dequeue, NextQueued, Startable, Some, Queued
  <2>3. table[r] \in Row /\ table'[r] = [table[r] EXCEPT !.queued = FALSE]
    BY <2>2, Basics
  <2>4. table'[r].next = table[r].next
    BY <2>3 DEF Row
  <2>5. row'.next = 1
    BY <1>0, <2>1, <2>2, <2>4 DEF RowsAre
  <2>. QED  BY <2>1, <2>5
<1>10. ASSUME NEW f \in Flow, Claim(f) PROVE HandIs'
  <2>1. NewRow(f).next = 1 /\ NewRow(f).retry = 0 /\ NewRow(f).awaiting = {}
    BY DEF NewRow, Blank
  <2>2. work' = {} /\ pc' \in {"trigger", "admit"} /\ (pc' = "admit" => row' = NewRow(f))
    BY <1>10 DEF Claim, ShapeInv, Apart
  <2>. QED  BY <2>1, <2>2
<1>11. CASE Admit
  <2>1. /\ work' = {} /\ pc' \in {"trace", "replaced", "check"} /\ row' = row /\ run' = last + 1
        /\ pc' # "trace" => Insert(last + 1, FALSE)
    BY <1>11 DEF Admit, Skip, Replace, ShapeInv, Apart
  <2>2. last + 1 \in Run /\ row.queued = FALSE /\ row.next = 1 /\ row \in Row /\ table \in [Run -> Row]
    BY <1>0, <1>11, NextRun, Basics DEF Admit, HandInv
  <2>3. Insert(last + 1, FALSE) => table'[last + 1] = row
    BY <2>2, TakesNoQueued DEF Insert
  <2>. QED  BY <2>1, <2>2, <2>3
<1>12. CASE TraceCancelled
  <2>1. CASE pc' = pc
    BY <1>1, <1>12, <2>1 DEF TraceCancelled
  <2>2. CASE pc' = "check"
    BY <1>0, <1>12, <2>2 DEF TraceCancelled
  <2>. QED  BY <1>12, <2>1, <2>2 DEF TraceCancelled
<1>13. CASE Check
  <2>1. UNCHANGED <<work, table, run, row, task, clock, cursor, journal>> /\ row = table[run] /\ run \in live
    BY <1>0, <1>13 DEF Check, HandInv
  <2>2. row.next \in Nat /\ row.next <= Len(Plan[row.flow]) + 1
    BY <1>0, <2>1, Basics DEF RowsAre
  <2>3. table'[run'].next..(row'.next - 1) = {}
    BY <2>1, <2>2
  <2>4. pc' \in {"step", "drop"}
    BY <1>13 DEF Check
  <2>5. \A r \in work' : IF task' = "tick" THEN table'[r].wake <= clock'
                                            ELSE journal'[cursor' + 1] \in table'[r].awaiting
    BY <1>0, <2>1
  <2>6. row'.retry = table'[run'].retry /\ row'.next = table'[run'].next /\ row'.next >= table'[run'].next
        /\ row'.next <= Len(Plan[row'.flow]) + 1
    BY <2>1, <2>2
  <2>. QED  BY <2>3, <2>4, <2>5, <2>6
<1>14. CASE Complete
  BY <1>2, <1>14 DEF Complete
<1>15. CASE Command \/ Pause \/ SetAutomationEnabled
  <2>1. /\ UNCHANGED <<work, table, run, task, clock, cursor, journal>> /\ pc = "step" /\ run \in live
        /\ row.next <= Len(Plan[row.flow]) /\ pc' \in {"step", "save", "drop"} /\ row.flow = table[run].flow
    BY <1>15 DEF Command, Pause, SetAutomationEnabled, At_, HandInv
  <2>2. /\ row.next \in Nat /\ table[run].next \in Nat /\ row.next >= table[run].next
        /\ Len(Plan[row.flow]) \in Nat
    BY <1>0, <2>1, Basics, PlanLen DEF Row
  <2>3. Here = ActionOf(run, row.next)
    BY <2>1 DEF Here, ActionOf
  <2>4. ASSUME pc' \in {"step", "save"}
        PROVE  /\ row'.flow = row.flow
               /\ \/ row'.next = row.next + 1 /\ row'.retry = 0
                  \/ row'.next = row.next /\ pc' = "save"
               /\ pc' = "step" => Here.do \in Immediate
    <3>0. Advanced.next = row.next + 1 /\ Advanced.retry = 0 /\ Advanced.flow = row.flow
      BY Copies
    <3>1. CASE Command
      BY <2>4, <3>0, <3>1, CommandRow DEF SuspendedOf, Immediate
    <3>2. CASE Pause
      BY <2>4, <3>0, <3>2, PauseRow DEF SuspendedOf
    <3>3. CASE SetAutomationEnabled
      <4>1. row' = Advanced /\ Here.do \in Immediate
        BY <2>4, <3>3 DEF SetAutomationEnabled, At_, Immediate
      <4>. QED  BY <4>1, Copies
    <3>. QED  BY <1>15, <3>1, <3>2, <3>3
  <2>5. ASSUME pc' = "step"
        PROVE  /\ \A i \in table'[run'].next..(row'.next - 1) : ActionOf(run, i)'.do \in Immediate
               /\ row'.retry = 0 /\ row'.next # table'[run'].next
    <3>1. \A i : ActionOf(run, i)' = ActionOf(run, i)
      BY <2>1 DEF ActionOf
    <3>2. row'.next = row.next + 1 /\ row'.retry = 0
      BY <2>4, <2>5
    <3>3. ASSUME NEW i \in table[run].next..row.next PROVE ActionOf(run, i).do \in Immediate
      <4>1. i = row.next \/ i \in table[run].next..(row.next - 1)
        BY <2>2
      <4>. QED  BY <1>0, <2>1, <2>3, <2>4, <2>5, <4>1
    <3>4. row'.next - 1 = row.next /\ table'[run'].next = table[run].next
          /\ row'.next # table'[run'].next
      <4>1. table'[run'].next = table[run].next
        BY <2>1
      <4>2. ASSUME NEW a \in Nat, NEW b \in Nat, a >= b PROVE a + 1 - 1 = a /\ a + 1 # b
        BY <4>2
      <4>. QED  BY <2>2, <3>2, <4>1, <4>2
    <3>. QED  BY <2>1, <3>1, <3>2, <3>3, <3>4
  <2>6. \A r \in work' : IF task' = "tick" THEN table'[r].wake <= clock'
                                            ELSE journal'[cursor' + 1] \in table'[r].awaiting
    BY <1>0, <2>1
  <2>7. pc' \in {"step", "save"} => row'.next >= table'[run'].next /\ row'.next <= Len(Plan[row'.flow]) + 1
    <3> SUFFICES ASSUME pc' \in {"step", "save"}
                 PROVE  row'.next >= table'[run'].next /\ row'.next <= Len(Plan[row'.flow]) + 1
      OBVIOUS
    <3>1. row'.flow = row.flow /\ row'.next \in {row.next, row.next + 1}
      BY <2>4
    <3>2. table'[run'].next = table[run].next
      BY <2>1
    <3>. HIDE DEF HandIs
    <3>3. /\ row.next >= table[run].next /\ row.next + 1 >= table[run].next
          /\ row.next <= Len(Plan[row.flow]) + 1 /\ row.next + 1 <= Len(Plan[row.flow]) + 1
      <4>1. ASSUME NEW a \in Nat, NEW b \in Nat, NEW n \in Nat, a >= b, a <= n
            PROVE  a + 1 >= b /\ a <= n + 1 /\ a + 1 <= n + 1
        BY <4>1
      <4>. QED  BY <2>1, <2>2, <4>1
    <3>. QED  BY <3>1, <3>2, <3>3
  <2>. QED  BY <2>1, <2>5, <2>6, <2>7
<1>16. CASE World /\ ~Crash
  BY <1>1, <1>16 DEF World, Occur, Confirm, Update, Tick
<1>17. CASE UNCHANGED vars
  BY <1>1, <1>17 DEF vars
<1>. QED  BY <1>3, <1>4, <1>5, <1>6, <1>7, <1>8, <1>9, <1>10, <1>11, <1>12, <1>13, <1>14, <1>15,
      <1>16, <1>17 DEF Next, Engine, World

LEMMA ResumedInvInit == Init => ResumedInv
BY DEF Init, ResumedInv

LEMMA ResumedInvStep == ASSUME ShapeInv, ShapeInv', HandInv, ResumedInv, [Next]_vars PROVE ResumedInv'
<1>1. RowsAre' /\ HandIs'
  BY RowsStep, HandStep
<1>. QED  BY <1>1 DEF ResumedInv, RowsAre, HandIs

-----------------------------------------------------------------------------
(* The plan up to the next action. *)

LEMMA InPlan ==
  ASSUME ShapeInv, HandInv, NEW r \in 1..last, NEW n \in Nat, n <= Len(Plan[table[r].flow]) + 1,
         NEW i \in 1..(n - 1)
  PROVE  i \in 1..Len(Plan[table[r].flow]) /\ i \in Nat
<1>1. table[r].flow \in Flow
  BY Basics DEF Row
<1>2. Len(Plan[table[r].flow]) \in Nat
  BY <1>1, PlanLen
<1>. QED  BY <1>2

LEMMA HeldAtStays ==
  ASSUME ShapeInv, HandInv, [Next]_vars, NEW r \in 1..last, NEW n \in Nat,
         n <= Len(Plan[table[r].flow]) + 1, NEW t \in Nat, HeldAt(r, n, t),
         Command /\ run = r => n <= row.next
  PROVE  HeldAt(r, n, t)'
<1> SUFFICES ASSUME NEW i \in 1..(n - 1)
             PROVE  /\ ActionOf(r, i)'.do = "wait" => Waited(r, i, t)'
                    /\ ActionOf(r, i)'.do \in {"command", "reported", "retry"} => Asked(r, i)'
                    /\ ActionOf(r, i)'.do = "reported" => Confirmed(r, i)'
  BY DEF HeldAt
<1>1. ActionOf(r, i)' = ActionOf(r, i)
  BY ActionsStay
<1>2. i \in 1..Len(Plan[table[r].flow])
  BY InPlan
<1>3. ActionOf(r, i).do = "wait" => Waited(r, i, t)'
  <2>1. ActionOf(r, i).do = "wait" => Waited(r, i, t)
    BY DEF HeldAt
  <2>2. Command /\ run = r => i <= row.next
    <3>1. row.next \in Nat
      BY Basics
    <3>. QED  BY <3>1
  <2>. QED  BY <1>2, <2>1, <2>2, WaitedStays
<1>4. ActionOf(r, i).do \in {"command", "reported", "retry"} => Asked(r, i)'
  BY AskedStays DEF HeldAt
<1>5. ActionOf(r, i).do = "reported" => Confirmed(r, i)'
  BY AskedStays DEF HeldAt
<1>. QED  BY <1>1, <1>3, <1>4, <1>5

LEMMA HeldSaveStays ==
  ASSUME ShapeInv, HandInv, [Next]_vars, NEW r \in 1..last, NEW w \in Row,
         w.next <= Len(Plan[table[r].flow]) + 1, NEW t \in Nat, NEW u \in Nat, t <= u,
         HeldSave(r, w, t), Command /\ run = r => w.next <= row.next
  PROVE  HeldSave(r, w, u)'
<1>0. w.next \in Nat /\ w.wake \in Nat
  BY DEF Row, Instant, Never
<1> SUFFICES ASSUME NEW i \in 1..(w.next - 1)
             PROVE  /\ ActionOf(r, i)'.do = "wait" =>
                          \/ Waited(r, i, u)'
                          \/ w.awaiting = {} /\ (w.deadline <= w.wake \/ Waited(r, i, w.wake)')
                    /\ ActionOf(r, i)'.do \in {"command", "reported", "retry"} => Asked(r, i)'
                    /\ ActionOf(r, i)'.do = "reported" =>
                          Confirmed(r, i)' \/ (w.fails /\ w.awaiting = {<<"confirmed", KeyAt(r, i)>>})
  BY DEF HeldSave, KeyAt
<1>1. ActionOf(r, i)' = ActionOf(r, i)
  BY ActionsStay
<1>2. i \in 1..Len(Plan[table[r].flow])
  BY <1>0, InPlan
<1>6. Command /\ run = r => i <= row.next
  <2>1. w.next <= row.next => i <= row.next
    <3>1. row.next \in Nat
      BY Basics
    <3>. QED  BY <1>0, <3>1
  <2>. QED  BY <2>1
<1>3. Waited(r, i, t) => Waited(r, i, u)'
  BY <1>2, <1>6, WaitedStays
<1>7. Waited(r, i, w.wake) => Waited(r, i, w.wake)'
  <2>1. PICK v \in Nat : v = w.wake
    BY <1>0
  <2>2. Waited(r, i, v) => Waited(r, i, v)'
    BY <1>2, <1>6, WaitedStays
  <2>. QED  BY <2>1, <2>2
<1>4. ActionOf(r, i).do \in {"command", "reported", "retry"} => Asked(r, i)'
  BY AskedStays DEF HeldSave
<1>5. ActionOf(r, i).do = "reported" =>
        Confirmed(r, i)' \/ (w.fails /\ w.awaiting = {<<"confirmed", KeyAt(r, i)>>})
  BY AskedStays DEF HeldSave
<1>8. ActionOf(r, i).do = "wait" =>
         \/ Waited(r, i, u)'
         \/ w.awaiting = {} /\ (w.deadline <= w.wake \/ Waited(r, i, w.wake)')
  BY <1>3, <1>7 DEF HeldSave
<1>. QED  BY <1>1, <1>4, <1>5, <1>8

HeldRows == \A r \in live : HeldSave(r, table[r], Reference)

LEMMA HeldRowsStep ==
  ASSUME ShapeInv, HandInv, CommandsInv, ResumedInv, HoldInv, [Next]_vars
  PROVE  HeldRows'
<1> SUFFICES ASSUME NEW r \in live' PROVE HeldSave(r, table[r], Reference)'
  BY DEF HeldRows
<1>1. Reference <= Reference' /\ Reference' \in Nat /\ Reference \in Nat
  BY TimeSteps DEF CommandsInv
<1>2. PICK t \in Nat, u \in Nat : t = Reference /\ u = Reference' /\ t <= u
  BY <1>1
<1>3. PICK w : w = table'[r]
  OBVIOUS
<1>4. HeldSave(r, w, u)' => HeldSave(r, table[r], Reference)'
  BY <1>2, <1>3
<1>5. w.next = 1 => HeldSave(r, w, u)'
  BY DEF HeldSave
<1>6. CASE RowKept(r)
  <2>1. r \in live /\ w = table[r] /\ r \in 1..last /\ w \in Row
    BY <1>3, <1>6, Basics DEF RowKept
  <2>2. w.next <= Len(Plan[table[r].flow]) + 1 /\ HeldSave(r, w, t)
    BY <1>2, <2>1 DEF ResumedInv, HoldInv
  <2>3. Command /\ run = r => w.next <= row.next
    <3>1. Command => pc = "step"
      BY DEF Command, At_
    <3>. QED  BY <2>1, <3>1, Basics DEF ResumedInv
  <2>. QED  BY <1>2, <1>4, <2>1, <2>2, <2>3, HeldSaveStays
<1>7. CASE RowDequeued(r)
  BY <1>3, <1>4, <1>5, <1>7 DEF RowDequeued, Alike, ResumedInv
<1>8. CASE RowSaved(r)
  <2>1. r \in live /\ w = row /\ r \in 1..last /\ w \in Row /\ r = run /\ pc = "save" /\ ~Command
    BY <1>3, <1>8, Basics DEF RowSaved, Save, Command, At_
  <2>2. w.next <= Len(Plan[table[r].flow]) + 1 /\ HeldSave(r, w, t)
    BY <1>2, <2>1 DEF ResumedInv, HoldInv, Reference, HandInv
  <2>. QED  BY <1>2, <1>4, <2>1, <2>2, HeldSaveStays
<1>9. CASE RowInserted(r)
  <2>1. pc = "admit" /\ w.next = row.next
    BY <1>3, <1>9 DEF RowInserted, Alike, Admit
  <2>. QED  BY <1>4, <1>5, <2>1 DEF ResumedInv
<1>. QED  BY <1>6, <1>7, <1>8, <1>9, LiveRows

\* A run that goes on owes nothing of its plan any more.
LEMMA GoesOn ==
  ASSUME ShapeInv, HandInv, CommandsInv, ResumedInv, HoldInv, pc = "check", ~TimedOut
  PROVE  HeldAt(run, row.next, clock)
<1>1. run \in live /\ row = table[run] /\ run \in 1..last /\ row.next \in Nat
  BY Basics DEF HandInv, ResumedInv
<1>2. HeldSave(run, row, clock)
  BY <1>1 DEF HoldInv, Reference
<1>3. ~(row.deadline <= clock) /\ ~(timer /\ row.awaiting # {} /\ row.fails)
  BY DEF TimedOut
<1>4. row.next = 1 \/ IF timer THEN row.wake <= clock
                      ELSE task = "event" /\ journal[cursor + 1] \in row.awaiting
  BY DEF ResumedInv
<1>5. row.deadline \in Nat /\ row.wake \in Nat /\ clock \in Nat
  BY Basics
<1> SUFFICES ASSUME NEW i \in 1..(row.next - 1)
             PROVE  /\ ActionOf(run, i).do = "wait" => Waited(run, i, clock)
                    /\ ActionOf(run, i).do \in {"command", "reported", "retry"} => Asked(run, i)
                    /\ ActionOf(run, i).do = "reported" => Confirmed(run, i)
  BY DEF HeldAt
<1>6. row.next # 1
  BY <1>1
<1>7. i \in 1..Len(Plan[table[run].flow])
  <2>1. row.next <= Len(Plan[table[run].flow]) + 1
    BY <1>1 DEF ResumedInv
  <2>. QED  BY <1>1, <2>1, InPlan
<1>8. ActionOf(run, i).do = "wait" => Waited(run, i, clock)
  <2>1. ASSUME row.awaiting = {}, Waited(run, i, row.wake) PROVE Waited(run, i, clock)
    <3>1. row.wake <= clock
      BY <1>4, <1>6, <2>1
    <3>2. ActionOf(run, i).delay \in Nat /\ \A c \in commands : c.at \in Nat
      BY <1>1, <1>7, PlanAction, Basics
    <3>. QED  BY <1>5, <2>1, <3>1, <3>2 DEF Waited
  <2>2. row.awaiting = {} => ~(row.deadline <= row.wake)
    BY <1>3, <1>4, <1>5, <1>6
  <2>. QED  BY <1>2, <2>1, <2>2 DEF HeldSave
<1>9. ASSUME ActionOf(run, i).do = "reported" PROVE Confirmed(run, i)
  <2>1. Confirmed(run, i) \/ (row.fails /\ row.awaiting = {<<"confirmed", KeyAt(run, i)>>})
    BY <1>2, <1>9 DEF HeldSave
  <2>2. ASSUME row.fails, row.awaiting = {<<"confirmed", KeyAt(run, i)>>} PROVE Confirmed(run, i)
    <3>1. task = "event" /\ journal[cursor + 1] = <<"confirmed", KeyAt(run, i)>>
      BY <1>3, <1>4, <1>6, <2>2
    <3>2. cursor + 1 \in 1..Len(journal)
      BY <3>1 DEF ShapeInv, Apart, TypeOK
    <3>3. journal[cursor + 1][1] = "confirmed" /\ journal[cursor + 1][2] = KeyAt(run, i)
      BY <3>1
    <3>4. PICK c \in commands : c.key = journal[cursor + 1][2] /\ c.status = "confirmed"
      BY <3>2, <3>3 DEF CommandsInv
    <3>. QED  BY <3>3, <3>4 DEF Confirmed
  <2>. QED  BY <2>1, <2>2
<1>. QED  BY <1>2, <1>8, <1>9 DEF HeldSave

-----------------------------------------------------------------------------
(* A step and a suspension keep what the plan asks. *)

\* What has been accepted is among the commands.
LEMMA AcceptedAsked ==
  ASSUME ShapeInv, HandInv, Command, Accepted, NEW r, NEW n, r = run, n = row.next
  PROVE  Asked(r, n)'
<1>1. \E c \in commands' : c.key = KeyOf
  <2>1. CASE (\E c \in commands : c.key = KeyOf) /\ UNCHANGED commands
    BY <2>1
  <2>2. CASE commands' = commands \cup {Request("sent")}
    <3>1. Request("sent") \in commands'
      BY <2>2
    <3>2. Request("sent").key = KeyOf
      BY DEF Request
    <3>. QED  BY <3>1, <3>2
  <2>. QED  BY <2>1, <2>2 DEF Accepted
<1>2. KeyOf.run = r /\ KeyOf.index = n
  BY DEF KeyOf
<1>. QED  BY <1>1, <1>2 DEF Asked

\* The steps that come to the next action of the run at hand.
LEMMA IntoStep ==
  ASSUME ShapeInv, [Next]_vars, pc' = "step"
  PROVE  /\ pc \in {"check", "step"} /\ UNCHANGED <<run, clock, table>>
         /\ \/ Check /\ row' = row /\ ~TimedOut
            \/ pc = "step" /\ (Command \/ SetAutomationEnabled \/ (row' = row /\ ~Command))
<1>. USE DEF runs, world, counts, taken, hand
<1>1. CASE Check
  BY <1>1 DEF Check
<1>2. CASE Command \/ SetAutomationEnabled
  BY <1>2 DEF Command, SetAutomationEnabled, At_
<1>3. CASE \/ Start \/ ReplayDone \/ TakeEvent \/ TakeTick \/ ListFlows \/ TraceCancelled \/ Pause
           \/ Complete \/ Save \/ Drop \/ Done \/ Admit
           \/ (\E r \in Run : Resume(r) \/ Dequeue(r)) \/ (\E f \in Flow : Claim(f))
  BY <1>3 DEF Start, ReplayDone, TakeEvent, TakeTick, ListFlows, TraceCancelled, Pause, Complete,
     Save, Drop, Done, Admit, Skip, Replace, Resume, Dequeue, Claim
<1>4. CASE Trace
  BY <1>4 DEF Trace, ShapeInv, TypeOK
<1>5. CASE World
  BY <1>5 DEF World, Occur, Confirm, Update, Tick, Crash
<1>6. CASE UNCHANGED vars
  BY <1>6 DEF vars
<1>. QED  BY <1>1, <1>2, <1>3, <1>4, <1>5, <1>6 DEF Next, Engine

LEMMA HeldStepStep ==
  ASSUME ShapeInv, HandInv, CommandsInv, ResumedInv, HoldInv, [Next]_vars, pc' = "step"
  PROVE  HeldAt(run, row.next, clock)'
<1>0. pc \in {"check", "step"} /\ UNCHANGED <<run, clock>>
      /\ \/ Check /\ row' = row /\ ~TimedOut
         \/ pc = "step" /\ (Command \/ SetAutomationEnabled \/ row' = row)
  BY IntoStep
<1>1. HeldAt(run, row.next, clock) /\ run \in live /\ row.next <= Len(Plan[table[run].flow]) + 1
  <2>1. HeldAt(run, row.next, clock)
    BY <1>0, GoesOn DEF HoldInv
  <2>2. run \in live /\ row.flow = table[run].flow
    BY <1>0 DEF HandInv
  <2>3. row.next <= Len(Plan[table[run].flow]) + 1
    BY <1>0, <2>2 DEF ResumedInv
  <2>. QED  BY <2>1, <2>2, <2>3
<1>2. PICK r \in 1..last, n \in Nat \ {0}, t \in Nat : r = run /\ n = row.next /\ t = clock
  BY <1>1, Basics
<1>3. HeldAt(r, n, t)'
  <2>1. HeldAt(r, n, t) /\ n <= Len(Plan[table[r].flow]) + 1 /\ (Command /\ run = r => n <= row.next)
    BY <1>1, <1>2
  <2>. QED  BY <1>2, <2>1, HeldAtStays
<1>4. CASE row' = row
  BY <1>0, <1>2, <1>3, <1>4
<1>5. CASE Command \/ SetAutomationEnabled
  <2>1. /\ pc = "step" /\ row'.next = n + 1 /\ Here.do \in {"command", "retry", "activate", "deactivate"}
        /\ Here.do \in {"command", "retry"} => Asked(r, n)'
    <3>1. Advanced.next = row.next + 1
      BY Copies
    <3>2. CASE Command
      <4>1. pc = "step" /\ Accepted /\ Here.do \in {"command", "retry"} /\ row' = Advanced
        BY <1>0, <3>2, CommandRow
      <4>. QED  BY <1>2, <3>1, <3>2, <4>1, AcceptedAsked
    <3>3. CASE SetAutomationEnabled
      BY <1>2, <3>1, <3>3 DEF SetAutomationEnabled, At_
    <3>. QED  BY <1>5, <3>2, <3>3
  <2>2. Here = ActionOf(r, n) /\ ActionOf(r, n)' = ActionOf(r, n)
    BY <1>2, <2>1, ActionsStay DEF Here, ActionOf, HandInv
  <2>3. HeldAt(r, n + 1, t)'
    <3> SUFFICES ASSUME NEW i \in 1..n
                 PROVE  /\ ActionOf(r, i)'.do = "wait" => Waited(r, i, t)'
                        /\ ActionOf(r, i)'.do \in {"command", "reported", "retry"} => Asked(r, i)'
                        /\ ActionOf(r, i)'.do = "reported" => Confirmed(r, i)'
      BY DEF HeldAt
    <3>1. CASE i = n
      BY <2>1, <2>2, <3>1
    <3>2. CASE i # n
      <4>1. i \in 1..(n - 1)
        BY <3>2
      <4>. QED  BY <1>3, <4>1 DEF HeldAt
    <3>. QED  BY <3>1, <3>2
  <2>. QED  BY <1>0, <1>2, <2>1, <2>3
<1>. QED  BY <1>0, <1>4, <1>5

\* The steps that come to the suspension of the run at hand.
LEMMA IntoSave ==
  ASSUME ShapeInv, [Next]_vars, pc' = "save"
  PROVE  /\ pc \in {"step", "save"} /\ UNCHANGED <<run, clock, table>>
         /\ \/ pc = "step" /\ (Command \/ Pause)
            \/ pc = "save" /\ row' = row /\ ~Command
<1>. USE DEF runs, world, counts, taken, hand
<1>1. CASE Pause \/ Command
  BY <1>1 DEF Pause, Command, At_
<1>3. CASE \/ Start \/ ReplayDone \/ TakeEvent \/ TakeTick \/ ListFlows \/ TraceCancelled \/ Check
           \/ Complete \/ Save \/ Drop \/ Done \/ Admit \/ SetAutomationEnabled
           \/ (\E r \in Run : Resume(r) \/ Dequeue(r)) \/ (\E f \in Flow : Claim(f))
  BY <1>3 DEF Start, ReplayDone, TakeEvent, TakeTick, ListFlows, TraceCancelled, Check, Complete,
     Save, Drop, Done, Admit, Skip, Replace, Resume, Dequeue, Claim, SetAutomationEnabled, At_
<1>4. CASE Trace
  BY <1>4 DEF Trace, ShapeInv, TypeOK
<1>5. CASE World
  BY <1>5 DEF World, Occur, Confirm, Update, Tick, Crash, Command, At_
<1>6. CASE UNCHANGED vars
  BY <1>6 DEF vars, Command, At_
<1>. QED  BY <1>1, <1>3, <1>4, <1>5, <1>6 DEF Next, Engine

LEMMA HeldSaveStep ==
  ASSUME ShapeInv, ShapeInv', HandInv, CommandsInv, ResumedInv, HoldInv, [Next]_vars, pc' = "save"
  PROVE  HeldSave(run, row, clock)'
<1>0. pc \in {"step", "save"} /\ UNCHANGED <<run, clock, table>>
      /\ \/ pc = "step" /\ (Command \/ Pause)
         \/ pc = "save" /\ row' = row /\ ~Command
  BY IntoSave
<1>1. run \in live /\ row.flow = table[run].flow /\ row.next <= Len(Plan[table[run].flow]) + 1
  BY <1>0 DEF HandInv, ResumedInv
<1>2. PICK r \in 1..last, n \in Nat \ {0}, t \in Nat : r = run /\ n = row.next /\ t = clock
  BY <1>1, Basics
<1>3. CASE pc = "save" /\ row' = row /\ ~Command
  <2>1. PICK w \in Row : w = row
    BY Basics
  <2>2. HeldSave(r, w, t)
    BY <1>2, <1>3, <2>1 DEF HoldInv
  <2>3. HeldSave(r, w, t)'
    <3>1. w.next <= Len(Plan[table[r].flow]) + 1 /\ (Command /\ run = r => w.next <= row.next) /\ t <= t
      BY <1>1, <1>2, <1>3, <2>1
    <3>. QED  BY <2>2, <3>1, HeldSaveStays
  <2>. QED  BY <1>0, <1>2, <1>3, <2>1, <2>3
<1>4. CASE pc = "step" /\ (Command \/ Pause)
  <2>1. HeldAt(r, n, t)'
    <3>1. HeldAt(r, n, t) /\ n <= Len(Plan[table[r].flow]) + 1 /\ (Command /\ run = r => n <= row.next)
      BY <1>1, <1>2, <1>4 DEF HoldInv
    <3>. QED  BY <1>2, <3>1, HeldAtStays
  <2>2. PICK w : w = row'
    OBVIOUS
  <2>3. SUFFICES HeldSave(r, w, t)'
    BY <1>0, <1>2, <2>2
  <2>4. Here = ActionOf(r, n) /\ ActionOf(r, n)' = ActionOf(r, n)
    BY <1>1, <1>2, ActionsStay DEF Here, ActionOf
  <2>5. Advanced.next = n + 1 /\ Advanced.deadline = row.deadline
    BY <1>2, Copies
  <2>6. ASSUME w.next = n + 1,
               ActionOf(r, n).do = "wait" => w.awaiting = {} /\ (w.deadline <= w.wake \/ Waited(r, n, w.wake)'),
               ActionOf(r, n).do \in {"command", "reported", "retry"} => Asked(r, n)',
               ActionOf(r, n).do = "reported" => w.fails /\ w.awaiting = {<<"confirmed", KeyAt(r, n)>>}
        PROVE  HeldSave(r, w, t)'
    <3> SUFFICES ASSUME NEW i \in 1..n
                 PROVE  /\ ActionOf(r, i)'.do = "wait" =>
                              \/ Waited(r, i, t)'
                              \/ w.awaiting = {} /\ (w.deadline <= w.wake \/ Waited(r, i, w.wake)')
                        /\ ActionOf(r, i)'.do \in {"command", "reported", "retry"} => Asked(r, i)'
                        /\ ActionOf(r, i)'.do = "reported" =>
                              Confirmed(r, i)' \/ (w.fails /\ w.awaiting = {<<"confirmed", KeyAt(r, i)>>})
      BY <2>6 DEF HeldSave, KeyAt
    <3>1. CASE i = n
      BY <2>4, <2>6, <3>1
    <3>2. CASE i # n
      <4>1. i \in 1..(n - 1)
        BY <3>2
      <4>. QED  BY <2>1, <4>1 DEF HeldAt
    <3>. QED  BY <3>1, <3>2
  <2>7. ASSUME w.next = n PROVE HeldSave(r, w, t)'
    BY <2>1, <2>7 DEF HeldSave, HeldAt
  <2>8. CASE Command
    <3>1. CASE row'.next = row.next
      BY <1>2, <2>2, <2>7, <3>1
    <3>2. CASE row'.next # row.next
      <4>1. /\ Accepted /\ Here.do = "reported" /\ row'.fails = TRUE
            /\ SuspendedOf(row', Advanced, After(clock, Here.delay), {<<"confirmed", KeyOf>>})
        BY <2>8, <3>2, CommandRow
      <4>2. w.next = n + 1 /\ w.fails /\ w.awaiting = {<<"confirmed", KeyOf>>}
        BY <2>2, <2>5, <4>1 DEF SuspendedOf
      <4>3. KeyOf = KeyAt(r, n)
        BY <1>2, <4>1 DEF KeyOf, KeyAt
      <4>4. Asked(r, n)'
        BY <1>2, <2>8, <4>1, AcceptedAsked
      <4>. QED  BY <2>4, <2>6, <4>1, <4>2, <4>3, <4>4
    <3>. QED  BY <3>1, <3>2
  <2>9. CASE Pause
    <3>1. PICK wake, awaiting :
            /\ SuspendedOf(row', Advanced, wake, awaiting) /\ row'.fails = FALSE
            /\ Here.do = "wait" => wake = After(clock, Here.delay) /\ awaiting = {}
      BY <2>9, PauseRow
    <3>2. Here.do \in {"wait", "await", "forever"}
      BY <2>9, PauseRow
    <3>3. w.next = n + 1 /\ w.wake = Sooner(wake, row.deadline) /\ w.deadline = row.deadline
          /\ w.awaiting = awaiting
      BY <2>2, <2>5, <3>1 DEF SuspendedOf
    <3>4. ASSUME Here.do = "wait" PROVE w.deadline <= w.wake \/ Waited(r, n, w.wake)'
      <4>1. row.next <= Len(Plan[row.flow])
        BY <2>9, PauseRow
      <4>2. n \in 1..Len(Plan[table[r].flow])
        <5>1. Len(Plan[table[r].flow]) \in Nat
          BY <1>2, Basics, PlanLen DEF Row
        <5>. QED  BY <1>1, <1>2, <4>1, <5>1
      <4>3. PICK d \in Nat : d = ActionOf(r, n).delay
        BY <4>2, PlanAction
      <4>4. wake = After(t, d) /\ row.deadline \in Instant /\ MaxTime \in Nat
        BY <1>2, <2>4, <3>1, <3>4, <4>3, Basics DEF Row
      <4>5. commands' = commands
        BY <2>9 DEF Pause, world
      <4>6. \A c \in commands : c.at <= t /\ c.at \in Nat
        BY <1>2, <1>4, Basics DEF CommandsInv, Reference
      <4>7. CASE t + d < Never /\ t + d <= row.deadline
        <5>1. w.wake = t + d
          BY <3>3, <4>4, <4>7 DEF After, Sooner
        <5>2. \A c \in commands : c.at + d <= t + d
          BY <4>6
        <5>3. \A c \in commands' : c.at + ActionOf(r, n)'.delay <= w.wake
          BY <2>4, <4>3, <4>5, <5>1, <5>2
        <5>. QED  BY <5>3 DEF Waited
      <4>8. CASE ~(t + d < Never /\ t + d <= row.deadline)
        <5>1. t + d \in Nat /\ row.deadline \in Nat /\ Never \in Nat /\ row.deadline <= Never
          BY <4>4 DEF Instant, Never
        <5>2. w.wake = row.deadline
          BY <3>3, <4>4, <4>8, <5>1 DEF After, Sooner
        <5>. QED  BY <3>3, <5>1, <5>2
      <4>. QED  BY <4>7, <4>8
    <3>. QED  BY <2>4, <2>6, <3>1, <3>2, <3>3, <3>4
  <2>. QED  BY <1>4, <2>8, <2>9
<1>. QED  BY <1>0, <1>3, <1>4

-----------------------------------------------------------------------------
(* Waits and confirmations. *)

\* A run that is completed has done what its whole plan asks.
CompletedHeld == pc \in {"drop", "trace"} /\ result = "completed" =>
    HeldAt(run, Len(Plan[table[run].flow]) + 1, clock)

LEMMA CompletedStep ==
  ASSUME ShapeInv, ShapeInv', HandInv, HandInv', TraceInv, HoldInv, [Next]_vars
  PROVE  CompletedHeld'
<1> SUFFICES ASSUME pc' \in {"drop", "trace"}, result' = "completed"
             PROVE  HeldAt(run, Len(Plan[table[run].flow]) + 1, clock)'
  BY DEF CompletedHeld
<1>0. ~Command
  BY DEF Command, At_
<1>1. /\ UNCHANGED <<run, clock>>
      /\ Complete \/ (pc \in {"drop", "trace"} /\ result = "completed")
  <2>. USE DEF runs, world, counts, taken, hand
  <2>1. CASE Complete
    BY <2>1 DEF Complete
  <2>2. CASE Check \/ Command
    BY <1>0, <2>2 DEF Check
  <2>3. CASE \/ Start \/ ReplayDone \/ TakeEvent \/ TakeTick \/ ListFlows \/ TraceCancelled \/ Pause
             \/ Done \/ SetAutomationEnabled \/ (\E r \in Run : Resume(r) \/ Dequeue(r))
             \/ (\E f \in Flow : Claim(f))
    BY <2>3 DEF Start, ReplayDone, TakeEvent, TakeTick, ListFlows, TraceCancelled, Pause, Done,
       SetAutomationEnabled, Resume, Dequeue, Claim, At_
  <2>4. CASE Admit
    BY <2>4 DEF Admit, Skip, Replace
  <2>5. CASE Trace
    BY <2>5 DEF Trace, ShapeInv, TypeOK
  <2>6. CASE Save
    BY <2>6 DEF Save, TraceInv
  <2>7. CASE Drop
    BY <2>7 DEF Drop
  <2>8. CASE World
    BY <2>8 DEF World, Occur, Confirm, Update, Tick, Crash
  <2>9. CASE UNCHANGED vars
    BY <2>9 DEF vars
  <2>. QED  BY <2>1, <2>2, <2>3, <2>4, <2>5, <2>6, <2>7, <2>8, <2>9 DEF Next, Engine
<1>2. run \in 1..last
  <2>1. pc \in {"step", "drop", "trace"}
    BY <1>1 DEF Complete
  <2>2. run \in Run /\ run <= last /\ last \in Nat
    BY <2>1, ShapeFacts, Basics DEF HandInv
  <2>. QED  BY <2>2 DEF Run
<1>3. PICK r \in 1..last : r = run
  BY <1>2
<1>4. PICK m \in Nat : m = Len(Plan[table[r].flow])
  <2>1. table[r].flow \in Flow
    BY Basics DEF Row
  <2>. QED  BY <2>1, PlanLen
<1>5. PICK t \in Nat : t = clock
  BY Basics
<1>6. PICK n \in Nat : n = m + 1
  OBVIOUS
<1>7. HeldAt(r, n, t)
  <2>1. CASE pc \in {"drop", "trace"} /\ result = "completed"
    BY <1>3, <1>4, <1>5, <1>6, <2>1 DEF HoldInv
  <2>2. CASE Complete
    <3>1. pc = "step" /\ row.next > m
      BY <1>3, <1>4, <2>2 DEF Complete, HandInv
    <3>2. HeldAt(r, row.next, t) /\ row.next \in Nat
      BY <1>3, <1>5, <1>6, <3>1, Basics DEF HoldInv
    <3>3. 1..(n - 1) \subseteq 1..(row.next - 1)
      BY <1>5, <1>6, <3>1, <3>2
    <3>. QED  BY <3>2, <3>3 DEF HeldAt
  <2>3. (pc \in {"drop", "trace"} /\ result = "completed") \/ Complete
    BY <1>1
  <2>. QED  BY <2>1, <2>2, <2>3
<1>8. HeldAt(r, n, t)'
  <2>1. n <= Len(Plan[table[r].flow]) + 1
    BY <1>4, <1>5, <1>6
  <2>. QED  BY <1>0, <1>7, <2>1, HeldAtStays
<1>9. table'[r].flow = table[r].flow
  BY FlowsStay
<1>. QED  BY <1>1, <1>3, <1>8, <1>9, <1>4, <1>5, <1>6

LEMMA HoldInvInit == Init => HoldInv
BY DEF Init, HoldInv

LEMMA HoldInvStep ==
  ASSUME ShapeInv, ShapeInv', HandInv, HandInv', TraceInv, CommandsInv, ResumedInv, HoldInv, [Next]_vars
  PROVE  HoldInv'
<1>1. HeldRows' /\ CompletedHeld'
  BY HeldRowsStep, CompletedStep
<1>2. pc' = "step" => HeldAt(run, row.next, clock)'
  BY HeldStepStep
<1>3. pc' = "save" => HeldSave(run, row, clock)'
  BY HeldSaveStep
<1>. QED  BY <1>1, <1>2, <1>3 DEF HoldInv, HeldRows, CompletedHeld

\* A command whose run goes on before it is one the run comes to again.
LEMMA NoWaitBetween ==
  ASSUME ShapeInv, HandInv, CommandsInv, ResumedInv, NEW d \in commands, NEW c, IsAsked(c),
         d.key.run = run, NEW i \in Nat, row.next <= i, i < d.key.index
  PROVE  ActionOf(run, i).do # "wait"
<1>1. pc = "step" /\ run \in live
  BY AskedNow
<1>2. table[run].next \in Nat /\ table[run].next <= row.next /\ row.next \in Nat /\ d.key.index \in Nat
  BY <1>1, Basics DEF ResumedInv
<1>3. i \in table[run].next..(d.key.index - 1)
  <2>1. ASSUME NEW a \in Nat, NEW b \in Nat, NEW k \in Nat, a <= b, b <= i, i < k
        PROVE  i \in a..(k - 1)
    BY <2>1
  <2>. QED  BY <1>2, <2>1
<1>. QED  BY <1>1, <1>3 DEF CommandsInv, Immediate

LEMMA WaitsStep ==
  ASSUME ShapeInv, ShapeInv', HandInv, CommandsInv, ResumedInv, HoldInv, WaitsAreKept, [Next]_vars
  PROVE  WaitsAreKept'
<1> SUFFICES ASSUME NEW d \in commands', NEW i \in 1..(d.key.index - 1)
             PROVE  LET plan == Plan[table'[d.key.run].flow] IN
                    /\ plan[i].do = "wait" => \A c \in commands' :
                          c.key.run = d.key.run /\ c.key.index < i => c.at + plan[i].delay <= d.at
                    /\ plan[i].do \in {"command", "reported", "retry"} => \E c \in commands' :
                          c.key.run = d.key.run /\ c.key.index = i /\ c.at <= d.at
  BY DEF WaitsAreKept
<1>1. CASE \E e \in commands : Becomes(e, d)
  <2>1. PICK e \in commands : e.key = d.key /\ e.at = d.at
    BY <1>1 DEF Becomes
  <2>2. PICK r \in 1..last : r = d.key.run
    BY <2>1 DEF CommandsInv
  <2>3. PICK a : a = Plan[table[r].flow][i] /\ a = Plan[table'[r].flow][i] /\ a = ActionOf(r, i)
    BY FlowsStay DEF ActionOf
  <2>4. /\ a.do = "wait" => \A c \in commands :
              c.key.run = r /\ c.key.index < i => c.at + a.delay <= d.at
        /\ a.do \in {"command", "reported", "retry"} => \E c \in commands :
              c.key.run = r /\ c.key.index = i /\ c.at <= d.at
    <3>1. e \in commands /\ i \in 1..(e.key.index - 1) /\ e.key.run = r /\ e.at = d.at
      BY <2>1, <2>2
    <3>2. LET plan == Plan[table[e.key.run].flow] IN
            /\ plan[i].do = "wait" => \A c \in commands :
                  c.key.run = e.key.run /\ c.key.index < i => c.at + plan[i].delay <= e.at
            /\ plan[i].do \in {"command", "reported", "retry"} => \E c \in commands :
                  c.key.run = e.key.run /\ c.key.index = i /\ c.at <= e.at
      BY <3>1 DEF WaitsAreKept
    <3>. QED  BY <2>3, <3>1, <3>2
  <2>5. ASSUME a.do = "wait", NEW c \in commands', c.key.run = r, c.key.index < i
        PROVE  c.at + a.delay <= d.at
    <3>1. CASE IsAsked(c)
      <4>1. c.key.run = run /\ c.key.index = row.next
        BY <3>1, AskedNow
      <4>2. i \in Nat /\ i < d.key.index /\ row.next <= i /\ row.next \in Nat
        <5>1. row.next \in Nat /\ d.key.index \in Nat
          BY <2>1, Basics
        <5>2. row.next < i
          BY <2>5, <4>1
        <5>. QED  BY <5>1, <5>2
      <4>. QED  BY <2>1, <2>2, <2>3, <2>5, <3>1, <4>1, <4>2, NoWaitBetween
    <3>2. CASE \E b \in commands : Becomes(b, c)
      BY <2>4, <2>5, <3>2 DEF Becomes
    <3>. QED  BY <3>1, <3>2, CommandSteps
  <2>6. ASSUME a.do \in {"command", "reported", "retry"}
        PROVE  \E c \in commands' : c.key.run = r /\ c.key.index = i /\ c.at <= d.at
    <3>1. PICK c \in commands : c.key.run = r /\ c.key.index = i /\ c.at <= d.at
      BY <2>4, <2>6
    <3>2. PICK b \in commands' : Becomes(c, b)
      BY CommandSteps
    <3>. QED  BY <3>1, <3>2 DEF Becomes
  <2>. QED  BY <2>2, <2>3, <2>5, <2>6
<1>2. CASE IsAsked(d)
  <2>1. /\ pc = "step" /\ run \in live /\ d.key.run = run /\ d.key.index = row.next /\ d.at = clock
        /\ UNCHANGED table
    BY <1>2, AskedNow
  <2>2. PICK r \in 1..last : r = run
    BY <2>1, Basics
  <2>3. PICK a : a = Plan[table'[r].flow][i] /\ a = ActionOf(r, i)
    BY FlowsStay DEF ActionOf
  <2>4. /\ a.do = "wait" => Waited(r, i, clock)
        /\ a.do \in {"command", "reported", "retry"} => Asked(r, i)
    BY <2>1, <2>2, <2>3 DEF HoldInv, HeldAt
  <2>5. ASSUME a.do = "wait", NEW c \in commands', c.key.run = r, c.key.index < i
        PROVE  c.at + a.delay <= d.at
    <3>1. CASE IsAsked(c)
      <4>1. c.key.index = row.next
        BY <3>1, AskedNow
      <4>2. row.next \in Nat
        BY Basics
      <4>3. row.next < i /\ i \in 1..(row.next - 1)
        BY <2>1, <2>5, <4>1
      <4>. QED  BY <4>2, <4>3
    <3>2. CASE \E b \in commands : Becomes(b, c)
      BY <2>1, <2>3, <2>4, <2>5, <3>2 DEF Becomes, Waited
    <3>. QED  BY <3>1, <3>2, CommandSteps
  <2>6. ASSUME a.do \in {"command", "reported", "retry"}
        PROVE  \E c \in commands' : c.key.run = r /\ c.key.index = i /\ c.at <= d.at
    <3>1. PICK c \in commands : c.key.run = r /\ c.key.index = i
      BY <2>4, <2>6 DEF Asked
    <3>2. c.at <= clock
      BY <2>1, <3>1 DEF CommandsInv, Reference
    <3>3. PICK b \in commands' : Becomes(c, b)
      BY CommandSteps
    <3>. QED  BY <2>1, <3>1, <3>2, <3>3 DEF Becomes
  <2>7. r = d.key.run /\ a = Plan[table'[d.key.run].flow][i]
    BY <2>1, <2>2, <2>3
  <2>. QED  BY <2>5, <2>6, <2>7
<1>. QED  BY <1>1, <1>2, CommandSteps

LEMMA BarrierStep ==
  ASSUME ShapeInv, ShapeInv', HandInv, TraceInv, CommandsInv, HoldInv, ConfirmationIsABarrier, [Next]_vars
  PROVE  ConfirmationIsABarrier'
<1> SUFFICES ASSUME NEW r \in 1..last', NEW i \in 1..Len(Plan[table'[r].flow]),
                    Plan[table'[r].flow][i].do = "reported",
                    \/ traces'[r] = "completed"
                    \/ \E c \in commands' : c.key.run = r /\ c.key.index > i
             PROVE  \E c \in commands' : c.key.run = r /\ c.key.index = i /\ c.status = "confirmed"
  BY DEF ConfirmationIsABarrier
<1>0. \A c \in commands' : IsAsked(c) =>
        run \in 1..last /\ c.key.run = run /\ c.key.index = row.next /\ pc = "step"
  <2>1. \A c : IsAsked(c) => run \in live /\ c.key.run = run /\ c.key.index = row.next /\ pc = "step"
    BY AskedNow
  <2>. QED  BY <2>1, Basics
<1>1. \/ traces' = traces
      \/ TraceCancelled /\ \A s \in Run : traces'[s] \in {traces[s], "cancelled"}
      \/ Trace /\ \A s \in Run : traces'[s] = traces[s] \/ (s = run /\ traces'[s] = result)
  <2>0. traces \in [Run -> Result]
    BY DEF ShapeInv, TypeOK
  <2>1. CASE TraceCancelled
    BY <2>0, <2>1 DEF TraceCancelled
  <2>2. CASE Trace
    BY <2>0, <2>2 DEF Trace
  <2>3. CASE ~TraceCancelled /\ ~Trace
    BY <2>3 DEF Next, Engine, World, vars, runs, Start, ReplayDone, TakeEvent, TakeTick, Resume,
       Dequeue, ListFlows, Claim, Admit, Check, Command, Pause, SetAutomationEnabled, Complete, Save,
       Drop, Done, Occur, Confirm, Update, Tick, Crash
  <2>. QED  BY <2>1, <2>2, <2>3
<1>2. r \in 1..last
  <2>1. CASE \E c \in commands' : c.key.run = r /\ c.key.index > i
    <3>1. PICK c \in commands' : c.key.run = r
      BY <2>1
    <3>2. ASSUME NEW b \in commands, Becomes(b, c) PROVE r \in 1..last
      BY <3>1, <3>2 DEF Becomes, CommandsInv
    <3>3. IsAsked(c) => r \in 1..last
      BY <1>0, <3>1
    <3>. QED  BY <3>2, <3>3, CommandSteps
  <2>2. CASE traces'[r] = "completed"
    <3>1. r \in Run /\ last \in Nat
      <4>1. last \in Nat
        BY Basics
      <4>2. last' \in 0..MaxRuns
        BY DEF ShapeInv, TypeOK
      <4>. QED  BY <4>1, <4>2 DEF Run
    <3>2. r > last => traces[r] = "none"
      BY <3>1 DEF TraceInv
    <3>3. r > last => traces'[r] # "completed"
      <4>1. run <= last /\ run \in Nat
        BY DEF HandInv, ShapeInv, TypeOK
      <4>2. r > last => r # run
        BY <3>1, <4>1
      <4>3. traces'[r] = traces[r] \/ traces'[r] = "cancelled" \/ r = run
        BY <1>1, <3>1
      <4>. QED  BY <3>2, <4>2, <4>3
    <3>. QED  BY <2>2, <3>1, <3>3
  <2>. QED  BY <2>1, <2>2
<1>3. table'[r].flow = table[r].flow /\ r \in Run
  BY <1>2, FlowsStay, Basics
<1>. DEFINE Seen == \E c \in commands : c.key.run = r /\ c.key.index = i /\ c.status = "confirmed"
<1>4. ASSUME Confirmed(r, i) PROVE Seen
  <2>1. PICK c \in commands : c.key = KeyAt(r, i) /\ c.status = "confirmed"
    BY <1>4 DEF Confirmed
  <2>2. c.key.run = r /\ c.key.index = i
    BY <2>1 DEF KeyAt
  <2>. QED  BY <2>1, <2>2
<1>5. Seen
  <2>1. ASSUME \/ traces[r] = "completed"
               \/ \E c \in commands : c.key.run = r /\ c.key.index > i
        PROVE  Seen
    <3>1. i \in 1..Len(Plan[table[r].flow]) /\ Plan[table[r].flow][i].do = "reported"
      BY <1>3
    <3>2. r \in 1..last /\ (traces[r] = "completed" \/ \E c \in commands : c.key.run = r /\ c.key.index > i)
      BY <1>2, <2>1
    <3>. HIDE DEF Seen
    <3>3. ConfirmationIsABarrier => Seen
      BY <3>1, <3>2 DEF ConfirmationIsABarrier, Seen
    <3>. QED  BY <3>3
  <2>2. CASE traces'[r] = "completed" /\ traces[r] # "completed"
    <3>1. Trace /\ r = run /\ result = "completed"
      BY <1>1, <1>3, <2>2
    <3>2. pc = "trace"
      BY <3>1 DEF Trace
    <3>3. Confirmed(r, i)
      <4>1. HeldAt(r, Len(Plan[table[r].flow]) + 1, clock)
        BY <3>1, <3>2 DEF HoldInv
      <4>2. Len(Plan[table[r].flow]) \in Nat
        BY <1>3, Basics, PlanLen DEF Row
      <4>3. i \in 1..(Len(Plan[table[r].flow]) + 1 - 1)
        BY <1>3, <4>2
      <4>. QED  BY <1>3, <4>1, <4>3 DEF HeldAt, ActionOf
    <3>. QED  BY <1>4, <3>3
  <2>3. ASSUME NEW c \in commands', c.key.run = r, c.key.index > i, IsAsked(c) PROVE Seen
    <3>1. r = run /\ pc = "step" /\ i < row.next /\ row.next \in Nat
      BY <1>0, <2>3, Basics
    <3>2. i \in 1..(row.next - 1)
      BY <3>1
    <3>3. HeldAt(run, row.next, clock) /\ ActionOf(run, i).do = "reported"
      BY <1>3, <3>1 DEF HoldInv, ActionOf
    <3>4. Confirmed(run, i)
      BY <3>2, <3>3 DEF HeldAt
    <3>. QED  BY <1>4, <3>1, <3>4
  <2>4. ASSUME NEW c \in commands', c.key.run = r, c.key.index > i, NEW b \in commands, Becomes(b, c)
        PROVE  Seen
    BY <2>1, <2>4 DEF Becomes
  <2>. QED  BY <2>1, <2>2, <2>3, <2>4, CommandSteps
<1>6. PICK c \in commands : c.key.run = r /\ c.key.index = i /\ c.status = "confirmed"
  BY <1>5
<1>7. PICK d \in commands' : Becomes(c, d)
  BY CommandSteps
<1>. QED  BY <1>6, <1>7 DEF Becomes

\* What every run has done so far is what its plan, up to its next action, asks.
ProgressInv ==
    /\ TracedInv /\ CommandsInv /\ ResumedInv /\ HoldInv /\ WaitsAreKept /\ ConfirmationIsABarrier

LEMMA ProgressAlways == Spec => []ProgressInv
<1>1. Init => ProgressInv
  <2>1. Init => WaitsAreKept /\ ConfirmationIsABarrier
    BY DEF Init, WaitsAreKept, ConfirmationIsABarrier
  <2>. QED  BY <2>1, ShapeInvInit, HandInvInit, TraceInvInit, CommandsInvInit, ResumedInvInit,
            HoldInvInit DEF ProgressInv, TracedInv
<1>2. ProgressInv /\ [Next]_vars => ProgressInv'
  <2> SUFFICES ASSUME ProgressInv, [Next]_vars PROVE ProgressInv'
    OBVIOUS
  <2>0. ShapeInv /\ HandInv /\ TraceInv /\ CommandsInv /\ ResumedInv /\ HoldInv /\ WaitsAreKept
        /\ ConfirmationIsABarrier
    BY DEF ProgressInv, TracedInv
  <2>1. ShapeInv'
    BY <2>0, ShapeInvStep
  <2>2. HandInv' /\ TraceInv'
    BY <2>0, <2>1, HandInvStep, TraceInvStep
  <2>3. CommandsInv' /\ ResumedInv'
    BY <2>0, <2>1, CommandsInvStep, ResumedInvStep
  <2>4. HoldInv'
    BY <2>0, <2>1, <2>2, HoldInvStep
  <2>5. WaitsAreKept' /\ ConfirmationIsABarrier'
    BY <2>0, <2>1, WaitsStep, BarrierStep
  <2>. QED  BY <2>1, <2>2, <2>3, <2>4, <2>5 DEF ProgressInv, TracedInv
<1>. QED  BY <1>1, <1>2, PTL DEF Spec

\* Between two commands of a run lie at least the waits of its plan between
\* them, and all its earlier commands were asked before, for any plans and
\* whatever deaths and late timers: the row of a run owes only what it is
\* suspended for, and its timer is not taken before that is paid.
THEOREM WaitsAlwaysKept == Spec => []WaitsAreKept
<1>1. ProgressInv => WaitsAreKept
  BY DEF ProgressInv
<1>. QED  BY <1>1, ProgressAlways, PTL

\* Nothing that follows a command with ":confirm :reported" outside a retry is
\* asked, and no success is traced, before its confirmation, for any plans and
\* whatever deaths: a run suspended for a confirmation goes on only by its
\* event, or by its timer, which ends it.  Inside a retry the code looks at no
\* confirmation, and UnconfirmedNeverSucceeds is violated.
THEOREM ConfirmationsBar == Spec => []ConfirmationIsABarrier
<1>1. ProgressInv => ConfirmationIsABarrier
  BY DEF ProgressInv
<1>. QED  BY <1>1, ProgressAlways, PTL

-----------------------------------------------------------------------------
(* Retries. *)

Counted(r, w) == RetryHeld(r, w) /\ AttemptsUpTo(r, w)

\* In memory a run counts its attempts as its row does.
LEMMA CountedAtHand ==
  ASSUME ShapeInv, HandInv, ResumedInv, RetryInv, pc = "step"
  PROVE  Counted(run, row)
<1>1. run \in live /\ run \in Run
  BY Basics DEF HandInv
<1>2. RetryHeld(run, table[run]) /\ AttemptsUpTo(run, table[run])
  BY <1>1 DEF RetryInv
<1>3. /\ row.next \in Nat /\ table[run].next \in Nat /\ row.next >= table[run].next
      /\ row.retry = IF row.next = table[run].next THEN table[run].retry ELSE 0
      /\ \A c \in commands : c.key.index \in Nat /\ c.key.attempt \in Nat
  BY <1>1, Basics DEF ResumedInv
<1>4. CASE row.next = table[run].next
  BY <1>2, <1>3, <1>4 DEF Counted, RetryHeld, AttemptsUpTo
<1>5. CASE row.next # table[run].next
  <2>1. row.retry = 0 /\ row.next > table[run].next
    BY <1>3, <1>5
  <2>2. \A c \in commands : c.key.index >= row.next => c.key.index > table[run].next
    BY <1>3, <2>1
  <2>. QED  BY <1>2, <1>3, <2>1, <2>2 DEF Counted, RetryHeld, AttemptsUpTo
<1>. QED  BY <1>4, <1>5

LEMMA CountedStays ==
  ASSUME ShapeInv, HandInv, [Next]_vars, NEW r \in 1..last, NEW w \in Row, Counted(r, w),
         \A d : IsAsked(d) /\ run = r =>
            /\ w.retry > 0 => ~(d.key.index = w.next /\ d.key.attempt <= w.retry)
            /\ d.key.index > w.next => d.key.attempt <= 1
            /\ d.key.index = w.next => d.key.attempt <= w.retry + 1
  PROVE  Counted(r, w)'
<1>1. ActionOf(r, w.next)' = ActionOf(r, w.next)
  BY ActionsStay
<1>. DEFINE Fits(d) == /\ w.retry > 0 /\ d.key.index = w.next /\ d.key.attempt <= w.retry => d.status = "failed"
                       /\ d.key.index > w.next => d.key.attempt <= 1
                       /\ d.key.index = w.next => d.key.attempt <= w.retry + 1
<1>2. ASSUME NEW d \in commands', d.key.run = r PROVE Fits(d)
  <2>1. CASE IsAsked(d)
    <3>1. d.key.run = run
      BY <2>1, AskedNow
    <3>. QED  BY <1>2, <2>1, <3>1
  <2>2. ASSUME NEW c \in commands, Becomes(c, d) PROVE Fits(d)
    <3>1. c.key = d.key /\ (c.status = "failed" => d.status = "failed")
      BY <2>2 DEF Becomes
    <3>2. w.retry > 0 /\ c.key.index = w.next /\ c.key.attempt <= w.retry => c.status = "failed"
      BY <1>2, <3>1 DEF Counted, RetryHeld
    <3>3. /\ c.key.index > w.next => c.key.attempt <= 1
          /\ c.key.index = w.next => c.key.attempt <= w.retry + 1
      BY <1>2, <3>1 DEF Counted, AttemptsUpTo
    <3>. QED  BY <3>1, <3>2, <3>3
  <2>. QED  BY <2>1, <2>2, CommandSteps
<1>3. RetryHeld(r, w)'
  <2>1. w.retry > 0 => ActionOf(r, w.next)'.do = "retry" /\ w.retry < ActionOf(r, w.next)'.times
    BY <1>1 DEF Counted, RetryHeld
  <2>. QED  BY <1>2, <2>1 DEF RetryHeld
<1>4. AttemptsUpTo(r, w)'
  BY <1>2 DEF AttemptsUpTo
<1>. QED  BY <1>3, <1>4 DEF Counted

CountedRows == \A r \in live : Counted(r, table[r])

\* A run that is yet to come has asked for nothing.
LEMMA NoneAsked ==
  ASSUME ShapeInv, HandInv, CommandsInv, [Next]_vars, NEW d \in commands'
  PROVE  d.key.run # last + 1
<1>1. last \in Nat /\ \A c \in commands : c.key.run \in 1..last
  BY Basics DEF CommandsInv
<1>2. IsAsked(d) => d.key.run \in 1..last
  BY AskedNow, Basics
<1>3. ASSUME NEW c \in commands, Becomes(c, d) PROVE d.key.run \in 1..last
  BY <1>1, <1>3 DEF Becomes
<1>4. d.key.run \in 1..last
  BY <1>2, <1>3, CommandSteps
<1>. QED  BY <1>1, <1>4

LEMMA NewCounted ==
  ASSUME ShapeInv, HandInv, CommandsInv, ResumedInv, [Next]_vars, NEW r \in live', RowInserted(r), NEW w, w = table'[r]
  PROVE  Counted(r, w)'
<1>1. pc = "admit" /\ w.next = row.next /\ w.retry = row.retry /\ r = last + 1
  BY DEF RowInserted, Alike, Admit
<1>2. w.retry = 0
  BY <1>1 DEF ResumedInv
<1>3. \A d \in commands' : d.key.run # r
  BY <1>1, NoneAsked
<1>. QED  BY <1>2, <1>3 DEF Counted, RetryHeld, AttemptsUpTo

LEMMA CountedRowsStep ==
  ASSUME ShapeInv, HandInv, CommandsInv, ResumedInv, RetryInv, [Next]_vars
  PROVE  CountedRows'
<1> SUFFICES ASSUME NEW r \in live' PROVE Counted(r, table[r])'
  BY DEF CountedRows
<1>1. PICK w : w = table'[r]
  OBVIOUS
<1>2. Counted(r, w)' => Counted(r, table[r])'
  BY <1>1
<1>3. ASSUME r \in live, w.next = table[r].next, w.retry = table[r].retry, NEW d, IsAsked(d), run = r
      PROVE  /\ w.retry > 0 => ~(d.key.index = w.next /\ d.key.attempt <= w.retry)
             /\ d.key.index > w.next => d.key.attempt <= 1
             /\ d.key.index = w.next => d.key.attempt <= w.retry + 1
  <2>1. /\ pc = "step" /\ d.key.index = row.next
        /\ d.key.attempt = (IF Here.do = "retry" THEN row.retry + 1 ELSE 0)
        /\ Here = ActionOf(run, row.next)
    BY <1>3, AskedNow
  <2>2. row.next >= table[run].next /\ row.retry = IF row.next = table[run].next THEN table[run].retry ELSE 0
    BY <2>1 DEF ResumedInv
  <2>3. r \in Run /\ table[r].next \in Nat /\ table[r].retry \in Nat /\ row.next \in Nat
    BY <1>3, Basics
  <2>4. w.retry > 0 /\ row.next = w.next => Here.do = "retry"
    BY <1>3, <2>1 DEF RetryInv, RetryHeld
  <2>5. /\ row.next >= w.next /\ row.next \in Nat /\ w.next \in Nat /\ w.retry \in Nat
        /\ row.retry = IF row.next = w.next THEN w.retry ELSE 0
    BY <1>3, <2>2, <2>3
  <2>6. CASE row.next = w.next
    BY <2>1, <2>4, <2>5, <2>6
  <2>7. CASE row.next # w.next
    BY <2>1, <2>5, <2>7
  <2>. QED  BY <2>6, <2>7
<1>4. ASSUME r \in live, w \in Row, w.next = table[r].next, w.retry = table[r].retry
      PROVE  Counted(r, w)'
  <2>1. Counted(r, w)
    BY <1>4 DEF RetryInv, Counted, RetryHeld, AttemptsUpTo
  <2>2. r \in 1..last
    BY <1>4, Basics
  <2>. QED  BY <1>3, <1>4, <2>1, <2>2, CountedStays
<1>5. CASE RowKept(r)
  BY <1>1, <1>2, <1>4, <1>5, Basics DEF RowKept
<1>6. CASE RowDequeued(r)
  <2>1. r \in live /\ w.next = table[r].next /\ w.retry = table[r].retry
    BY <1>1, <1>6 DEF RowDequeued, Alike
  <2>2. table[r].retry = 0 /\ w.retry = 0
    BY <1>6, <2>1 DEF RowDequeued, ResumedInv
  <2>3. PICK v \in Row : v = table[r]
    BY <2>1, Basics
  <2>4. Counted(r, v)
    BY <2>1, <2>3 DEF RetryInv, Counted
  <2>5. Counted(r, v)'
    <3>1. r \in 1..last /\ ~Command
      BY <1>6, <2>1, Basics DEF RowDequeued, Dequeue, Command, At_
    <3>. QED  BY <2>4, <3>1, CountedStays DEF IsAsked
  <2>6. Counted(r, w)'
    BY <2>1, <2>3, <2>5 DEF Counted, RetryHeld, AttemptsUpTo
  <2>. QED  BY <1>2, <2>6
<1>7. CASE RowSaved(r)
  <2>1. r \in live /\ w = row /\ r = run /\ pc = "save" /\ ~Command
    BY <1>1, <1>7 DEF RowSaved, Save, Command, At_
  <2>2. w \in Row /\ r \in 1..last /\ Counted(r, w)
    BY <2>1, Basics DEF RetryInv, Counted
  <2>3. Counted(r, w)'
    BY <2>1, <2>2, CountedStays DEF IsAsked
  <2>. QED  BY <1>2, <2>3
<1>8. CASE RowInserted(r)
  BY <1>1, <1>2, <1>8, NewCounted
<1>. QED  BY <1>5, <1>6, <1>7, <1>8, LiveRows

\* A command of the run at hand has the number of the attempt in its key.
LEMMA RetryAsked ==
  ASSUME ShapeInv, HandInv, CommandsInv, pc = "step", NEW c \in commands, c.key.run = run,
         c.key.index = row.next, run \in live
  PROVE  c.key.attempt = 0 <=> Here.do # "retry"
BY DEF CommandsInv, Here, ActionOf, HandInv

LEMMA CountedSaveStep ==
  ASSUME ShapeInv, ShapeInv', HandInv, CommandsInv, ResumedInv, RetryInv, [Next]_vars, pc' = "save"
  PROVE  Counted(run, row)'
<1>0. pc \in {"step", "save"} /\ UNCHANGED <<run, clock, table>>
      /\ \/ pc = "step" /\ (Command \/ Pause)
         \/ pc = "save" /\ row' = row /\ ~Command
  BY IntoSave
<1>1. run \in live /\ row.flow = table[run].flow
  BY <1>0 DEF HandInv
<1>2. PICK r \in 1..last, n \in Nat, k \in Nat : r = run /\ n = row.next /\ k = row.retry
  BY <1>1, Basics
<1>3. PICK w \in Row : w = row'
  BY DEF ShapeInv, TypeOK
<1>4. SUFFICES Counted(r, w)'
  BY <1>0, <1>2, <1>3
<1>5. CASE pc = "save" /\ row' = row /\ ~Command
  <2>1. Counted(r, w)
    BY <1>2, <1>3, <1>5 DEF RetryInv, Counted
  <2>. QED  BY <1>5, <2>1, CountedStays DEF IsAsked
<1>6. CASE pc = "step" /\ (Command \/ Pause)
  <2>1. Counted(r, row)
    BY <1>2, <1>6, CountedAtHand
  <2>2. \A c \in commands : c.key.index \in Nat /\ c.key.attempt \in Nat
    BY Basics
  <2>3. Advanced.next = n + 1 /\ Advanced.retry = 0
    BY <1>2, Copies
  <2>4. ASSUME NEW c \in commands', c \notin commands
        PROVE  c.key.index = n /\ c.key.attempt <= k + 1 /\ (Refused => c.status = "failed")
    <3>1. Command
      BY <1>6, <2>4 DEF Pause, world
    <3>2. c.key = KeyOf /\ (Refused => c.status = "failed")
      <4>1. Accepted \/ Refused
        BY <3>1 DEF Command
      <4>2. Accepted => c = Request("sent")
        BY <2>4 DEF Accepted
      <4>3. Refused => c = Request("failed")
        BY <2>4 DEF Refused
      <4>. QED  BY <4>1, <4>2, <4>3 DEF Request
    <3>. QED  BY <1>2, <3>2 DEF KeyOf
  <2>5. ASSUME w.next = n + 1, w.retry = 0 PROVE Counted(r, w)'
    <3>1. RetryHeld(r, w)'
      BY <2>5 DEF RetryHeld
    <3>2. ASSUME NEW c \in commands', c.key.run = r
          PROVE  /\ c.key.index > w.next => c.key.attempt <= 1
                 /\ c.key.index = w.next => c.key.attempt <= w.retry + 1
      <4>1. CASE c \in commands
        <5>1. c.key.index > n => c.key.attempt <= 1
          BY <1>2, <2>1, <3>2, <4>1 DEF Counted, AttemptsUpTo
        <5>. QED  BY <2>2, <2>5, <4>1, <5>1
      <4>2. CASE c \notin commands
        BY <2>4, <2>5, <4>2
      <4>. QED  BY <4>1, <4>2
    <3>. QED  BY <3>1, <3>2 DEF Counted, AttemptsUpTo
  <2>6. ASSUME Command, Refused, Here.do = "retry", AttemptLeft, w.next = n, w.retry = k + 1
        PROVE  Counted(r, w)'
    <3>1. Here = ActionOf(r, n) /\ ActionOf(r, n)' = ActionOf(r, n)
      BY <1>1, <1>2, ActionsStay DEF Here, ActionOf
    <3>2. ActionOf(r, n)'.do = "retry" /\ k + 1 < ActionOf(r, n)'.times
      BY <1>2, <2>6, <3>1 DEF AttemptLeft
    <3>3. ASSUME NEW c \in commands', c.key.run = r, c.key.index = n, c.key.attempt <= k + 1
          PROVE  c.status = "failed"
      <4>1. CASE c \notin commands
        BY <2>4, <2>6, <4>1
      <4>2. CASE c \in commands
        <5>1. c.key \in Key /\ c.key # KeyOf
          BY <2>6, <4>2, Basics DEF Refused
        <5>2. c.key = [run |-> c.key.run, index |-> c.key.index, attempt |-> c.key.attempt]
          BY <5>1 DEF Key
        <5>3. KeyOf = [run |-> r, index |-> n, attempt |-> k + 1]
          BY <1>2, <2>6 DEF KeyOf
        <5>4. c.key.attempt # k + 1
          BY <3>3, <5>1, <5>2, <5>3
        <5>5. c.key.attempt # 0
          BY <1>1, <1>2, <1>6, <2>6, <3>3, <4>2, RetryAsked
        <5>6. k > 0 /\ c.key.attempt <= k
          BY <2>2, <3>3, <4>2, <5>4, <5>5
        <5>. QED  BY <1>2, <2>1, <3>3, <4>2, <5>6 DEF Counted, RetryHeld
      <4>. QED  BY <4>1, <4>2
    <3>4. RetryHeld(r, w)'
      BY <2>6, <3>2, <3>3 DEF RetryHeld
    <3>5. ASSUME NEW c \in commands', c.key.run = r
          PROVE  /\ c.key.index > w.next => c.key.attempt <= 1
                 /\ c.key.index = w.next => c.key.attempt <= w.retry + 1
      <4>1. CASE c \in commands
        <5>1. /\ c.key.index > n => c.key.attempt <= 1
              /\ c.key.index = n => c.key.attempt <= k + 1
          BY <1>2, <2>1, <3>5, <4>1 DEF Counted, AttemptsUpTo
        <5>. QED  BY <2>2, <2>6, <4>1, <5>1
      <4>2. CASE c \notin commands
        <5>1. c.key.index = n /\ c.key.attempt = k + 1
          <6>1. c.key = KeyOf
            <7>1. c = Request("failed")
              BY <2>6, <4>2, <3>5 DEF Refused
            <7>. QED  BY <7>1 DEF Request
          <6>. QED  BY <1>2, <2>6, <6>1 DEF KeyOf
        <5>. QED  BY <2>6, <5>1
      <4>. QED  BY <4>1, <4>2
    <3>. QED  BY <3>4, <3>5 DEF Counted, AttemptsUpTo
  <2>7. CASE Command
    <3>1. CASE row'.next = row.next
      <4>1. /\ Refused /\ Here.do = "retry" /\ AttemptLeft
            /\ row'.next = row.next /\ row'.retry = row.retry + 1
        <5>1. row'.next # Advanced.next
          BY <1>2, <2>3, <3>1
        <5>2. ~SuspendedOf(row', Advanced, After(clock, Here.delay), {<<"confirmed", KeyOf>>})
          BY <5>1 DEF SuspendedOf
        <5>. QED  BY <2>7, <5>2, CommandRow
      <4>. QED  BY <1>2, <1>3, <2>6, <2>7, <4>1
    <3>2. CASE row'.next # row.next
      <4>1. row'.next = Advanced.next /\ row'.retry = Advanced.retry
        BY <2>7, <3>2, CommandRow DEF SuspendedOf
      <4>. QED  BY <1>3, <2>3, <2>5, <4>1
    <3>. QED  BY <3>1, <3>2
  <2>8. CASE Pause
    <3>1. row'.next = Advanced.next /\ row'.retry = Advanced.retry
      BY <2>8, PauseRow DEF SuspendedOf
    <3>. QED  BY <1>3, <2>3, <2>5, <3>1
  <2>. QED  BY <1>6, <2>7, <2>8
<1>. QED  BY <1>0, <1>5, <1>6

LEMMA RetryInvInit == Init => RetryInv
BY DEF Init, RetryInv

LEMMA RetryInvStep ==
  ASSUME ShapeInv, ShapeInv', HandInv, CommandsInv, ResumedInv, RetryInv, [Next]_vars
  PROVE  RetryInv'
<1>1. CountedRows' /\ (pc' = "save" => Counted(run, row)')
  BY CountedRowsStep, CountedSaveStep
<1>. QED  BY <1>1 DEF RetryInv, CountedRows, Counted

LEMMA RetriesStep ==
  ASSUME ShapeInv, ShapeInv', HandInv, CommandsInv, ResumedInv, RetryInv, RetriesAreBounded, [Next]_vars
  PROVE  RetriesAreBounded'
<1> SUFFICES ASSUME NEW c \in commands', c.key.attempt > 0
             PROVE  /\ c.key.attempt <= Plan[table'[c.key.run].flow][c.key.index].times
                    /\ \A d \in commands' :
                          d.key.run = c.key.run /\ d.key.index = c.key.index
                             /\ d.key.attempt < c.key.attempt => d.status = "failed"
  BY SMTT(30) DEF RetriesAreBounded
<1>1. CASE IsAsked(c)
  <2>1. /\ pc = "step" /\ run \in live /\ Here = ActionOf(run, row.next) /\ UNCHANGED table
        /\ c.key.run = run /\ c.key.index = row.next /\ row.next <= Len(Plan[table[run].flow])
        /\ c.key.attempt = IF Here.do = "retry" THEN row.retry + 1 ELSE 0
    BY <1>1, AskedNow
  <2>2. Here.do = "retry" /\ c.key.attempt = row.retry + 1 /\ row.retry \in Nat
    BY <2>1, Basics
  <2>3. Counted(run, row)
    BY <2>1, CountedAtHand
  <2>4. Here.times \in Nat \ {0}
    <3>1. row.next <= Len(Plan[row.flow]) /\ GoodRow(row)
      BY <2>1, ShapeFacts DEF HandInv
    <3>2. Here \in Action
      BY <3>1, HereAction
    <3>. QED  BY <3>2 DEF Action
  <2>5. row.retry + 1 <= Here.times
    <3>1. row.retry > 0 => row.retry < Here.times
      BY <2>1, <2>3 DEF Counted, RetryHeld
    <3>. QED  BY <2>2, <2>4, <3>1
  <2>6. Here.times = Plan[table'[c.key.run].flow][c.key.index].times
    BY <2>1 DEF ActionOf
  <2>7. ASSUME NEW d \in commands', d.key.run = c.key.run, d.key.index = c.key.index,
               d.key.attempt < c.key.attempt
        PROVE  d.status = "failed"
    <3>1. ~IsAsked(d)
      <4>1. IsAsked(d) => d.key = KeyOf
        BY DEF IsAsked
      <4>2. c.key = KeyOf
        BY <1>1 DEF IsAsked
      <4>. QED  BY <2>2, <2>7, <4>1, <4>2
    <3>2. PICK e \in commands : e.key = d.key /\ (e.status = "failed" => d.status = "failed")
      BY <3>1, CommandSteps DEF Becomes
    <3>3. e.key.attempt # 0 /\ e.key.attempt \in Nat
      BY <2>1, <2>2, <2>7, <3>2, RetryAsked, Basics
    <3>4. row.retry > 0 /\ e.key.attempt <= row.retry
      BY <2>2, <2>7, <3>2, <3>3
    <3>5. e.status = "failed"
      BY <2>1, <2>3, <2>7, <3>2, <3>4 DEF Counted, RetryHeld
    <3>. QED  BY <3>2, <3>5
  <2>. QED  BY <2>2, <2>5, <2>6, <2>7
<1>2. CASE \E e \in commands : Becomes(e, c)
  <2>1. PICK e \in commands : e.key = c.key
    BY <1>2 DEF Becomes
  <2>2. PICK r \in 1..last : r = c.key.run
    BY <2>1 DEF CommandsInv
  <2>3. table'[r].flow = table[r].flow
    BY FlowsStay
  <2>4. /\ e.key.attempt <= Plan[table[e.key.run].flow][e.key.index].times
        /\ \A d \in commands :
              d.key.run = e.key.run /\ d.key.index = e.key.index /\ d.key.attempt < e.key.attempt
                 => d.status = "failed"
    <3>1. e.key.attempt > 0
      BY <2>1
    <3>. QED  BY <3>1 DEF RetriesAreBounded
  <2>5. ASSUME NEW d \in commands', d.key.run = r, d.key.index = c.key.index,
               d.key.attempt < c.key.attempt
        PROVE  d.status = "failed"
    <3>1. CASE \E f \in commands : Becomes(f, d)
      BY <2>1, <2>2, <2>4, <2>5, <3>1 DEF Becomes
    <3>2. CASE IsAsked(d)
      <4>1. /\ pc = "step" /\ run \in live /\ d.key.run = run /\ d.key.index = row.next
            /\ d.key.attempt = IF Here.do = "retry" THEN row.retry + 1 ELSE 0
        BY <3>2, AskedNow
      <4>2. e.key.run = run /\ e.key.index = row.next /\ e.key.attempt \in Nat /\ e.key.attempt # 0
        <5>1. e.key.attempt \in Nat
          BY Basics
        <5>. QED  BY <2>1, <2>2, <2>5, <4>1, <5>1
      <4>3. Here.do = "retry"
        BY <4>1, <4>2, RetryAsked
      <4>4. e.key.attempt <= row.retry + 1
        BY <4>1, <4>2, CountedAtHand DEF Counted, AttemptsUpTo
      <4>5. row.retry \in Nat
        BY Basics
      <4>. QED  BY <2>1, <2>5, <4>1, <4>2, <4>3, <4>4, <4>5
    <3>. QED  BY <3>1, <3>2, CommandSteps
  <2>. QED  BY <2>1, <2>2, <2>3, <2>4, <2>5
<1>. QED  BY <1>1, <1>2, CommandSteps

\* An attempt of a retry is only made after the one before failed or left no
\* command, and never beyond its bound, for any plans and whatever deaths.
THEOREM RetriesBound == Spec => []RetriesAreBounded
<1>. DEFINE I == ProgressInv /\ RetryInv /\ RetriesAreBounded
<1>1. Init => RetryInv /\ RetriesAreBounded
  BY RetryInvInit DEF Init, RetriesAreBounded
<1>2. ShapeInv' /\ ProgressInv /\ RetryInv /\ RetriesAreBounded /\ [Next]_vars
        => RetryInv' /\ RetriesAreBounded'
  <2> SUFFICES ASSUME ShapeInv', ProgressInv, RetryInv, RetriesAreBounded, [Next]_vars
               PROVE  RetryInv' /\ RetriesAreBounded'
    OBVIOUS
  <2>1. ShapeInv /\ HandInv /\ CommandsInv /\ ResumedInv
    BY DEF ProgressInv, TracedInv
  <2>. QED  BY <2>1, RetryInvStep, RetriesStep
<1>3. ProgressInv => ShapeInv
  BY DEF ProgressInv, TracedInv
<1>. QED  BY <1>1, <1>2, <1>3, ProgressAlways, PTL DEF Spec

-----------------------------------------------------------------------------
(* Awaited events. *)

\* The runs that await events fit into one query.
FewAwait == Cardinality({r \in live : ~table[r].queued /\ table[r].awaiting # {}}) <= Limit

LEMMA RunFinite == IsFiniteSet(Run)
<1>1. 1 \in Int /\ MaxRuns \in Int
  OBVIOUS
<1>2. IsFiniteSet(1..MaxRuns)
  BY <1>1, FS_Interval, Zenon
<1>. QED  BY <1>2 DEF Run

LEMMA AllAwaiting ==
  ASSUME ShapeInv, HandInv, ResumedInv, FewAwait, NEW e, NEW r \in live, e \in table[r].awaiting
  PROVE  r \in Awaiting(e)
<1>. DEFINE S == {s \in live : ~table[s].queued /\ table[s].awaiting # {}}
            T == {s \in S : s < r}
<1>1. IsFiniteSet(S) /\ live \subseteq Run
  <2>1. live \subseteq Run /\ S \subseteq Run
    BY Basics
  <2>. HIDE DEF S
  <2>. QED  BY <2>1, RunFinite, FS_Subset
<1>2. r \in S
  <2>1. ~table[r].queued
    BY DEF ResumedInv
  <2>. QED  BY <2>1
<1>3. T \subseteq S /\ T # S
  <2>1. r \notin T
    BY <1>1, <1>2 DEF Run
  <2>. QED  BY <1>2, <2>1
<1>4. Cardinality(T) < Cardinality(S)
  <2>. HIDE DEF S, T
  <2>1. IsFiniteSet(T) /\ Cardinality(T) <= Cardinality(S) /\ Cardinality(T) # Cardinality(S)
    BY <1>1, <1>3, FS_Subset
  <2>2. Cardinality(T) \in Nat /\ Cardinality(S) \in Nat
    BY <1>1, <2>1, FS_CardinalityType
  <2>. QED  BY <2>1, <2>2
<1>5. Cardinality(S) <= Limit /\ Cardinality(S) \in Nat /\ Cardinality(T) \in Nat
  <2>1. Cardinality(S) <= Limit
    BY DEF FewAwait
  <2>. HIDE DEF S, T
  <2>2. IsFiniteSet(T)
    BY <1>1, <1>3, FS_Subset
  <2>. QED  BY <1>1, <2>1, <2>2, FS_CardinalityType
<1>6. Cardinality(T) < Limit
  <2>. HIDE DEF S, T
  <2>. QED  BY <1>4, <1>5
<1>. QED  BY <1>2, <1>6 DEF Awaiting, Oldest

LEMMA AwaitInvInit == Init => AwaitInv
BY DEF Init, AwaitInv

\* Nothing a run awaits lies between its suspension and the cursor.
NonePassed == \A r \in live : \A n \in (since[r] + 1)..cursor : journal[n] \notin table[r].awaiting

LEMMA NonePassedStep ==
  ASSUME ShapeInv, ShapeInv', HandInv, ResumedInv, AwaitInv, [Next]_vars
  PROVE  NonePassed'
<1>0. /\ cursor \in 0..Len(journal) /\ cursor \in Nat /\ since \in [Run -> Nat]
      /\ Len(journal) \in Nat
  BY DEF ShapeInv, TypeOK
<1> SUFFICES ASSUME NEW r \in live', NEW n \in (since'[r] + 1)..cursor', journal'[n] \in table'[r].awaiting
             PROVE  FALSE
  BY DEF NonePassed
<1>1. r \in Run
  BY DEF ShapeInv, TypeOK
<1>2. cursor' = cursor \/ (Done /\ cursor' = cursor + 1 /\ task = "event")
  BY DEF Passed, Next, Engine, World, vars, Start, ReplayDone, TakeEvent, TakeTick, Resume,
     Dequeue, ListFlows, Claim, Admit, TraceCancelled, Check, Command, Pause, SetAutomationEnabled,
     Complete, Save, Drop, Trace, Done, Occur, Confirm, Update, Tick, Crash
<1>3. since' = since \/ (Save /\ (\A s \in Run : s # run => since'[s] = since[s]) /\ since'[run] >= cursor
                              /\ cursor' = cursor)
  <2>1. CASE Save
    <3>1. since' = [since EXCEPT ![run] = IF task = "event" THEN cursor + 1 ELSE cursor] /\ run \in Run
          /\ cursor' = cursor
      BY <2>1, ShapeFacts DEF Save
    <3>2. since'[run] >= cursor /\ \A s \in Run : s # run => since'[s] = since[s]
      BY <1>0, <3>1
    <3>. QED  BY <2>1, <3>1, <3>2
  <2>2. CASE ~Save
    BY <2>2 DEF counts, Next, Engine, World, vars, Start, ReplayDone, TakeEvent, TakeTick, Resume,
       Dequeue, ListFlows, Claim, Admit, TraceCancelled, Check, Command, Pause, SetAutomationEnabled,
       Complete, Drop, Trace, Done, Occur, Confirm, Update, Tick, Crash
  <2>. QED  BY <2>1, <2>2
<1>4. n \in Nat /\ n >= 1 /\ since'[r] \in Nat /\ since'[r] < n /\ n <= cursor' /\ cursor' \in Nat
  <2>1. since'[r] \in Nat /\ cursor' \in Nat
    BY <1>1 DEF ShapeInv, TypeOK
  <2>. QED  BY <2>1
\* A run that is suspended now has let pass what the engine has worked off.
<1>5. CASE RowSaved(r)
  <2>1. Save /\ r = run
    BY <1>5 DEF RowSaved
  <2>2. since'[r] >= cursor /\ cursor' = cursor
    <3>1. since'[run] >= cursor
      <4>1. since'[run] = IF task = "event" THEN cursor + 1 ELSE cursor
        BY <1>0, <1>1, <2>1 DEF Save
      <4>. QED  BY <1>0, <4>1
    <3>. QED  BY <2>1, <3>1 DEF Save
  <2>. QED  BY <1>0, <1>4, <2>2
<1>6. CASE RowInserted(r)
  <2>1. table'[r].awaiting = row.awaiting /\ pc = "admit"
    BY <1>6 DEF RowInserted, Alike, Admit
  <2>. QED  BY <2>1 DEF ResumedInv
<1>7. CASE (RowKept(r) \/ RowDequeued(r)) /\ ~RowSaved(r)
  <2>1. r \in live /\ table'[r].awaiting = table[r].awaiting
    BY <1>7 DEF RowKept, RowDequeued, Alike
  <2>2. CASE n <= cursor
    <3>1. n \in 1..Len(journal) /\ journal'[n] = journal[n]
      BY <1>0, <1>4, <2>2, JournalKept
    <3>2. CASE since'[r] = since[r]
      <4>1. n \in (since[r] + 1)..cursor
        <5>1. ASSUME NEW a \in Nat, NEW k \in Nat, NEW c \in Nat, a < k, k <= c
              PROVE  k \in (a + 1)..c
          BY <5>1
        <5>. QED  BY <1>0, <1>4, <2>2, <3>2, <5>1
      <4>. QED  BY <2>1, <3>1, <4>1 DEF AwaitInv
    <3>3. CASE since'[r] # since[r]
      BY <1>0, <1>1, <1>3, <1>4, <3>3
    <3>. QED  BY <3>2, <3>3
  <2>3. CASE ~(n <= cursor)
    <3>1. Done /\ cursor' = cursor + 1 /\ task = "event" /\ n = cursor + 1
      BY <1>0, <1>2, <1>4, <2>3
    <3>2. pc = "trigger" /\ work = {} /\ cursor + 1 \in 1..Len(journal) /\ ~Save
      BY <3>1, <1>0 DEF Done, Save, ShapeInv, Apart
    <3>3. since[r] <= cursor /\ since[r] \in Nat
      BY <1>0, <1>1, <1>3, <1>4, <3>1, <3>2
    <3>4. journal[cursor + 1] \notin table[r].awaiting
      BY <1>0, <2>1, <3>1, <3>2, <3>3 DEF AwaitInv
    <3>5. journal'[n] = journal[cursor + 1]
      BY <3>1, <3>2, JournalKept
    <3>. QED  BY <2>1, <3>4, <3>5
  <2>. QED  BY <2>2, <2>3
<1>. QED  BY <1>5, <1>6, <1>7, LiveRows

\* While an event is worked off, each run that awaits it is still to be resumed
\* or at hand, or was suspended after it.
NoneMissed ==
    pc \notin {"down", "idle"} /\ task = "event" =>
        \A r \in live : \/ journal[cursor + 1] \notin table[r].awaiting
                        \/ r \in work \/ since[r] > cursor
                        \/ r = run /\ pc \in {"replaced", "check", "step", "save", "drop"}

LEMMA NoneMissedStep ==
  ASSUME ShapeInv, ShapeInv', HandInv, ResumedInv, AwaitInv, FewAwait, [Next]_vars
  PROVE  NoneMissed'
<1>. DEFINE AtHand == {"replaced", "check", "step", "save", "drop"}
<1> SUFFICES ASSUME pc' \notin {"down", "idle"}, task' = "event", NEW r \in live',
                    journal'[cursor' + 1] \in table'[r].awaiting, r \notin work',
                    ~(since'[r] > cursor'), ~(r = run' /\ pc' \in AtHand)
             PROVE  FALSE
  BY DEF NoneMissed
<1>. USE DEF runs, world, counts, taken, hand
<1>0. /\ cursor \in 0..Len(journal) /\ cursor \in Nat /\ since \in [Run -> Nat] /\ r \in Run
      /\ live \subseteq Run
  <2>1. TypeOK /\ TypeOK'
    BY DEF ShapeInv
  <2>2. cursor \in 0..Len(journal) /\ since \in [Run -> Nat] /\ live \subseteq Run
    BY <2>1 DEF TypeOK
  <2>3. live' \subseteq Run
    BY <2>1 DEF TypeOK
  <2>. QED  BY <2>2, <2>3
<1>1. CASE TakeEvent
  <2>1. r \in live /\ journal[cursor + 1] \in table[r].awaiting
    BY <1>1 DEF TakeEvent
  <2>2. r \in Awaiting(journal[cursor + 1])
    BY <2>1, AllAwaiting
  <2>. QED  BY <1>1, <2>2 DEF TakeEvent
<1>2. CASE ~TakeEvent
  <2>. USE DEF At_
  <2>1. \/ Start \/ ReplayDone \/ TakeTick \/ Done \/ Crash \/ \E q \in Run : Dequeue(q)
        \/ \E q \in Run : Resume(q)
        \/ ListFlows \/ (\E f \in Flow : Claim(f)) \/ Admit \/ Trace
        \/ TraceCancelled \/ Check \/ Command \/ Pause \/ SetAutomationEnabled \/ Complete
        \/ Save \/ Drop
        \/ (\E s \in Signal : Occur(s)) \/ (\E c \in commands : Confirm(c)) \/ (\E f \in Flow : Update(f))
        \/ Tick \/ UNCHANGED vars
    BY <1>2 DEF Next, Engine, World
  <2>2. ~(Start \/ ReplayDone \/ TakeTick \/ Done \/ Crash \/ \E q \in Run : Dequeue(q))
    BY DEF Start, ReplayDone, TakeTick, Done, Crash, Dequeue
  <2>3. pc \notin {"down", "idle"} /\ task = "event" /\ cursor' = cursor
    BY <2>1, <2>2 DEF Resume, ListFlows, Claim, Admit, Trace, TraceCancelled, Check, Command, Pause,
       SetAutomationEnabled, Complete, Save, Drop, Occur, Confirm, Update, Tick, vars
  <2>4. journal'[cursor + 1] = journal[cursor + 1]
    <3>1. cursor + 1 \in 1..Len(journal)
      BY <1>0, <2>3 DEF ShapeInv, Apart
    <3>. QED  BY <3>1, JournalKept
  \* Its row is one that stays.
  <2>5. ~Save \/ r # run
    <3> SUFFICES ASSUME Save, r = run PROVE FALSE
      OBVIOUS
    <3>1. since'[r] = cursor + 1
      BY <1>0, <2>3 DEF Save
    <3>. QED  BY <1>0, <2>3, <3>1
  <2>6. RowKept(r)
    <3>1. ~RowDequeued(r) /\ ~RowSaved(r)
      BY <1>0, <2>2, <2>5 DEF RowDequeued, RowSaved
    <3>2. ~RowInserted(r)
      BY DEF RowInserted, Alike, Admit, ResumedInv
    <3>. QED  BY <3>1, <3>2, LiveRows
  <2>7. since'[r] = since[r]
    BY <1>0, <2>1, <2>2, <2>5 DEF Resume, ListFlows, Claim, Admit, Trace, TraceCancelled, Check, Command, Pause,
       SetAutomationEnabled, Complete, Save, Drop, Occur, Confirm, Update, Tick, vars
  <2>8. r \in work \/ (r = run /\ pc \in AtHand)
    BY <1>0, <2>3, <2>4, <2>6, <2>7 DEF RowKept, AwaitInv
  <2>9. CASE \E q \in Run : Resume(q)
    <3>1. PICK q \in Run : Resume(q)
      BY <2>9
    <3>. QED  BY <2>8, <3>1 DEF Resume
  <2>10. CASE ListFlows \/ (\E f \in Flow : Claim(f)) \/ Admit \/ Trace
    BY <2>8, <2>10 DEF ListFlows, Claim, Admit, Trace
  <2>11. CASE TraceCancelled \/ Check \/ Command \/ Pause \/ SetAutomationEnabled \/ Complete
    BY <2>8, <2>11 DEF TraceCancelled, Check, Command, Pause, SetAutomationEnabled, Complete
  <2>12. CASE Save \/ Drop
    <3>1. work' = work /\ pc \notin {"down", "idle"} /\ r # run
      BY <2>3, <2>5, <2>12 DEF Save, Drop
    <3>. QED  BY <2>8, <3>1
  <2>13. CASE (\E s \in Signal : Occur(s)) \/ (\E c \in commands : Confirm(c)) \/ (\E f \in Flow : Update(f))
              \/ Tick \/ UNCHANGED vars
    BY <2>8, <2>13 DEF Occur, Confirm, Update, Tick, vars
  <2>. QED  BY <2>1, <2>2, <2>9, <2>10, <2>11, <2>12, <2>13
<1>. QED  BY <1>1, <1>2

\* No run goes on waiting for an event that came after it was suspended and
\* that the engine has passed, as long as the runs that await events fit into
\* one query (Limit, 100 in the code): beyond it awaiting_flow_runs leaves some
\* out and their event is lost to them.
THEOREM AwaitedNotPassed == Spec /\ []FewAwait => []AwaitedIsNotPassed
<1>1. ProgressInv /\ ProgressInv' /\ AwaitInv /\ FewAwait /\ [Next]_vars => AwaitInv'
  <2> SUFFICES ASSUME ProgressInv, ProgressInv', AwaitInv, FewAwait, [Next]_vars PROVE AwaitInv'
    OBVIOUS
  <2>1. ShapeInv /\ HandInv /\ ResumedInv /\ ShapeInv'
    BY DEF ProgressInv, TracedInv
  <2>2. NonePassed'
    BY <2>1, NonePassedStep
  <2>3. NoneMissed'
    BY <2>1, NoneMissedStep
  <2>. QED  BY <2>2, <2>3 DEF NonePassed, NoneMissed, AwaitInv
<1>2. AwaitInv => AwaitedIsNotPassed
  BY DEF AwaitInv, AwaitedIsNotPassed
<1>. QED  BY <1>1, <1>2, AwaitInvInit, ProgressAlways, PTL DEF Spec

-----------------------------------------------------------------------------
(* The order of a plan. *)

\* The key of the attempt that the row w of a run begins with at an action.
AttemptKey(r, w, i) == [run |-> r, index |-> i,
    attempt |-> IF ActionOf(r, i).do # "retry" THEN 0 ELSE IF i = w.next THEN w.retry + 1 ELSE 1]

\* A run that comes to the action again finds its command asked.
Reasked(r, w, i) == ActionOf(r, i).do \in {"command", "reported", "retry"} =>
    \E c \in commands : c.key = AttemptKey(r, w, i)

\* All that lies between a row and a later command of its run is asked again in
\* vain: it was asked by the attempt that a death cut off.
Retraced(r, w) == \A c \in commands : c.key.run = r =>
    \A i \in w.next..(c.key.index - 1) : Reasked(r, w, i)

OrderInv ==
    /\ \A r \in live : Retraced(r, table[r])
    /\ pc = "step" => \A i \in table[run].next..(row.next - 1) : Reasked(run, table[run], i)
    /\ pc = "save" => \A c \in commands : c.key.run = run => c.key.index <= row.next

LEMMA ReaskedStays ==
  ASSUME ShapeInv, HandInv, [Next]_vars, NEW r \in 1..last, NEW v, NEW w, NEW i, Reasked(r, v, i),
         w.next = v.next, w.retry = v.retry
  PROVE  Reasked(r, w, i)'
<1>1. ActionOf(r, i)' = ActionOf(r, i)
  BY ActionsStay
<1>2. PICK k : k = AttemptKey(r, v, i) /\ k = AttemptKey(r, w, i)'
  BY <1>1 DEF AttemptKey
<1>3. \A c \in commands : \E d \in commands' : d.key = c.key
  BY CommandSteps DEF Becomes
<1>4. ASSUME ActionOf(r, i).do \in {"command", "reported", "retry"}
      PROVE  \E d \in commands' : d.key = AttemptKey(r, w, i)'
  <2>1. PICK c \in commands : c.key = k
    BY <1>2, <1>4 DEF Reasked
  <2>. QED  BY <1>2, <1>3, <2>1
<1>. QED  BY <1>1, <1>4 DEF Reasked

\* The key of the command the run at hand is at.
LEMMA KeyAtHand ==
  ASSUME ShapeInv, HandInv, ResumedInv, pc = "step"
  PROVE  /\ KeyOf = AttemptKey(run, table[run], row.next) /\ Here = ActionOf(run, row.next)
         /\ row.next \in Nat /\ table[run].next \in Nat /\ row.next >= table[run].next
         /\ run \in live /\ run \in 1..last
<1>1. run \in live /\ row.flow = table[run].flow
  BY DEF HandInv
<1>2. Here = ActionOf(run, row.next)
  BY <1>1 DEF Here, ActionOf
<1>3. row.retry = IF row.next = table[run].next THEN table[run].retry ELSE 0
  BY DEF ResumedInv
<1>4. KeyOf = AttemptKey(run, table[run], row.next)
  BY <1>2, <1>3 DEF KeyOf, AttemptKey
<1>5. row.next >= table[run].next
  BY DEF ResumedInv
<1>. QED  BY <1>1, <1>2, <1>4, <1>5, Basics

\* What has not been asked has not been passed: nothing beyond it was asked,
\* nor beyond what a run is suspended for.
LEMMA NothingBeyond ==
  ASSUME ShapeInv, HandInv, CommandsInv, ResumedInv, OrderInv, pc = "step",
         \/ /\ Here.do \in {"command", "reported", "retry"}
            /\ \A c \in commands : c.key # KeyOf
         \/ Here.do \notin Immediate,
         NEW c \in commands, c.key.run = run
  PROVE  c.key.index <= row.next
<1> SUFFICES ASSUME ~(c.key.index <= row.next) PROVE FALSE
  OBVIOUS
<1>1. /\ KeyOf = AttemptKey(run, table[run], row.next) /\ Here = ActionOf(run, row.next)
      /\ row.next \in table[run].next..(c.key.index - 1) /\ run \in live
  <2>1. c.key.index \in Nat
    BY Basics
  <2>. QED  BY <2>1, KeyAtHand
<1>2. Here.do \in Immediate
  BY <1>1 DEF CommandsInv
<1>3. Reasked(run, table[run], row.next)
  BY <1>1 DEF OrderInv, Retraced
<1>. QED  BY <1>1, <1>2, <1>3 DEF Reasked

LEMMA OrderRowsStep ==
  ASSUME ShapeInv, HandInv, CommandsInv, ResumedInv, OrderInv, [Next]_vars
  PROVE  \A r \in live' : Retraced(r, table[r])'
<1> SUFFICES ASSUME NEW r \in live', NEW d \in commands', d.key.run = r,
                    NEW i \in table'[r].next..(d.key.index - 1)
             PROVE  Reasked(r, table[r], i)'
  BY DEF Retraced
<1>1. CASE r \in live /\ table'[r].next = table[r].next /\ table'[r].retry = table[r].retry
  <2>1. r \in 1..last
    BY <1>1, Basics
  <2>2. PICK w : w = table'[r]
    OBVIOUS
  <2>3. Reasked(r, table[r], i)
    <3>1. CASE IsAsked(d)
      <4>1. r = run /\ pc = "step" /\ d.key.index = row.next
        BY <3>1, AskedNow
      <4>. QED  BY <1>1, <4>1 DEF OrderInv
    <3>2. ASSUME NEW c \in commands, Becomes(c, d) PROVE Reasked(r, table[r], i)
      <4>1. c.key = d.key
        BY <3>2 DEF Becomes
      <4>. QED  BY <1>1, <4>1 DEF OrderInv, Retraced
    <3>. QED  BY <3>1, <3>2, CommandSteps
  <2>4. Reasked(r, w, i)'
    BY <1>1, <2>1, <2>2, <2>3, ReaskedStays
  <2>. QED  BY <2>2, <2>4 DEF Reasked, AttemptKey
<1>2. CASE RowKept(r) \/ RowDequeued(r)
  BY <1>1, <1>2 DEF RowKept, RowDequeued, Alike
<1>3. CASE RowSaved(r)
  <2>1. r = run /\ pc = "save" /\ table'[r] = row /\ commands' = commands
    BY <1>3 DEF RowSaved, Save, world
  <2>2. d.key.index <= row.next /\ d.key.index \in Nat /\ row.next \in Nat
    BY <2>1, Basics DEF OrderInv
  <2>. QED  BY <2>1, <2>2
<1>4. CASE RowInserted(r)
  BY <1>4, NoneAsked DEF RowInserted
<1>. QED  BY <1>2, <1>3, <1>4, LiveRows

LEMMA OrderStepStep ==
  ASSUME ShapeInv, HandInv, CommandsInv, ResumedInv, OrderInv, [Next]_vars, pc' = "step",
         NEW i \in table'[run'].next..(row'.next - 1)
  PROVE  Reasked(run, table[run], i)'
<1>0. /\ pc \in {"check", "step"} /\ UNCHANGED <<run, clock, table>>
      /\ \/ Check /\ row' = row /\ ~TimedOut
         \/ pc = "step" /\ (Command \/ SetAutomationEnabled \/ (row' = row /\ ~Command))
  BY IntoStep
<1>p. PICK w : w = table[run]
  OBVIOUS
<1>1. PICK r \in 1..last : r = run /\ w = table[run]
  <2>1. run \in live
    BY <1>0 DEF HandInv
  <2>. QED  BY <1>p, <2>1, Basics
<1>2. SUFFICES Reasked(r, w, i)'
  BY <1>0, <1>1
<1>3. CASE Check
  <2>1. row = table[run] /\ row.next \in Nat
    BY <1>3, Basics DEF Check, ResumedInv
  <2>. QED  BY <1>0, <1>3, <2>1 DEF Check
<1>4. ASSUME pc = "step", i \in table[run].next..(row.next - 1) PROVE Reasked(r, w, i)'
  <2>1. Reasked(r, w, i)
    BY <1>1, <1>4 DEF OrderInv
  <2>. QED  BY <2>1, ReaskedStays
<1>5. CASE pc = "step" /\ row' = row
  BY <1>0, <1>4, <1>5
<1>6. CASE pc = "step" /\ (Command \/ SetAutomationEnabled)
  <2>1. /\ KeyOf = AttemptKey(r, w, row.next) /\ Here = ActionOf(r, row.next)
        /\ row.next \in Nat /\ w.next \in Nat /\ row.next >= w.next
    BY <1>1, <1>6, KeyAtHand
  <2>2. row'.next = row.next + 1
    BY <1>0, <1>6, Copies, CommandRow, IntoStep DEF SetAutomationEnabled
  <2>3. i = row.next \/ i \in table[run].next..(row.next - 1)
    BY <1>0, <1>1, <2>1, <2>2
  <2>4. ASSUME i = row.next PROVE Reasked(r, w, i)'
    <3>1. ActionOf(r, i)' = ActionOf(r, i)
      BY ActionsStay
    <3>2. CASE SetAutomationEnabled
      <4>1. Here.do \in {"activate", "deactivate"}
        BY <3>2 DEF SetAutomationEnabled, At_
      <4>. QED  BY <2>1, <2>4, <3>1, <4>1 DEF Reasked
    <3>3. CASE Command
      <4>1. Accepted
        BY <3>3, CommandRow
      <4>2. \E c \in commands' : c.key = KeyOf
        <5>1. Request("sent").key = KeyOf
          BY DEF Request
        <5>. QED  BY <4>1, <5>1 DEF Accepted
      <4>3. AttemptKey(r, w, i)' = AttemptKey(r, w, i)
        BY <3>1 DEF AttemptKey
      <4>. QED  BY <2>1, <2>4, <4>2, <4>3 DEF Reasked
    <3>. QED  BY <1>6, <3>2, <3>3
  <2>. QED  BY <1>4, <1>6, <2>3, <2>4
<1>. QED  BY <1>0, <1>3, <1>5, <1>6

LEMMA OrderSaveStep ==
  ASSUME ShapeInv, ShapeInv', HandInv, CommandsInv, ResumedInv, OrderInv, [Next]_vars, pc' = "save",
         NEW d \in commands', d.key.run = run'
  PROVE  d.key.index <= row'.next
<1>0. /\ pc \in {"step", "save"} /\ UNCHANGED <<run, clock, table>>
      /\ \/ pc = "step" /\ (Command \/ Pause)
         \/ pc = "save" /\ row' = row /\ ~Command
  BY IntoSave
<1>1. ASSUME pc = "save", row' = row, ~Command PROVE d.key.index <= row'.next
  <2>1. PICK c \in commands : Becomes(c, d)
    BY <1>1, CommandSteps DEF IsAsked
  <2>. QED  BY <1>0, <1>1, <2>1 DEF Becomes, OrderInv
<1>2. ASSUME pc = "step", Command \/ Pause PROVE d.key.index <= row'.next
  <2>0. row.next \in Nat /\ \A c \in commands : c.key.index \in Nat
    BY Basics
  <2>1. row'.next \in {row.next, row.next + 1}
    <3>1. Advanced.next = row.next + 1
      BY Copies
    <3>2. CASE Command
      <4>1. \/ SuspendedOf(row', Advanced, After(clock, Here.delay), {<<"confirmed", KeyOf>>})
            \/ row'.next = row.next
        BY <3>2, CommandRow
      <4>. QED  BY <3>1, <4>1 DEF SuspendedOf
    <3>3. CASE Pause
      <4>1. PICK wake, awaiting : SuspendedOf(row', Advanced, wake, awaiting)
        BY <3>3, PauseRow
      <4>. QED  BY <3>1, <4>1 DEF SuspendedOf
    <3>. QED  BY <1>2, <3>2, <3>3
  <2>2. \/ /\ Here.do \in {"command", "reported", "retry"}
           /\ \A c \in commands : c.key # KeyOf
        \/ Here.do \notin Immediate
    <3>1. CASE Command
      <4>1. /\ Here.do \in {"command", "reported", "retry"}
            /\ Here.do = "reported" \/ Refused
        BY <3>1, CommandRow
      <4>. QED  BY <4>1 DEF Immediate, Refused
    <3>2. CASE Pause
      BY <3>2, PauseRow DEF Immediate
    <3>. QED  BY <1>2, <3>1, <3>2
  <2>3. ASSUME NEW c \in commands, Becomes(c, d) PROVE d.key.index <= row.next
    <3>1. c.key = d.key /\ c.key.run = run
      BY <1>0, <2>3 DEF Becomes
    <3>2. c.key.index <= row.next
      BY <1>2, <2>2, <3>1, NothingBeyond
    <3>. QED  BY <3>1, <3>2
  <2>4. IsAsked(d) => d.key.index = row.next
    BY AskedNow
  <2>5. d.key.index <= row.next /\ d.key.index \in Nat
    <3>1. ASSUME NEW c \in commands, Becomes(c, d) PROVE d.key.index \in Nat
      BY <2>0, <3>1 DEF Becomes
    <3>. QED  BY <2>0, <2>3, <2>4, <3>1, CommandSteps
  <2>. QED  BY <2>0, <2>1, <2>5
<1>. QED  BY <1>0, <1>1, <1>2

LEMMA OrderInvInit == Init => OrderInv
BY DEF Init, OrderInv

LEMMA OrderInvStep ==
  ASSUME ShapeInv, ShapeInv', HandInv, CommandsInv, ResumedInv, OrderInv, [Next]_vars
  PROVE  OrderInv'
<1>1. \A r \in live' : Retraced(r, table[r])'
  BY OrderRowsStep
<1>2. pc' = "step" => \A i \in table'[run'].next..(row'.next - 1) : Reasked(run, table[run], i)'
  BY OrderStepStep
<1>3. pc' = "save" => \A c \in commands' : c.key.run = run' => c.key.index <= row'.next
  BY OrderSaveStep
<1>. QED  BY <1>1, <1>2, <1>3 DEF OrderInv

-----------------------------------------------------------------------------
(* Admission. *)

\* A run that is skipped has asked for nothing, and a new one gets the deadline
\* of its flow.
AdmitInv ==
    /\ result = "skipped" => pc = "trace" /\ \A c \in commands : c.key.run # run
    /\ pc = "admit" =>
          row.deadline = IF Runtime[row.flow] = 0 THEN Never ELSE After(clock, Runtime[row.flow])

LEMMA AdmitInvInit == Init => AdmitInv
BY DEF Init, AdmitInv

LEMMA AdmitInvStep ==
  ASSUME ShapeInv, HandInv, CommandsInv, AdmitInv, [Next]_vars
  PROVE  AdmitInv'
<1>. USE DEF runs, world, counts, taken, hand
<1>1. ASSUME pc' # "admit", result' # "skipped" PROVE AdmitInv'
  BY <1>1 DEF AdmitInv
<1>2. ASSUME UNCHANGED <<pc, result, run, row, clock>>,
             \A d \in commands' : \E c \in commands : c.key = d.key
      PROVE  AdmitInv'
  BY <1>2 DEF AdmitInv
<1>3. CASE \/ Start \/ ReplayDone \/ TakeEvent \/ TakeTick \/ ListFlows \/ Done
           \/ Check \/ Command \/ Pause \/ SetAutomationEnabled \/ Complete \/ Save \/ Drop
           \/ (\E r \in Run : Resume(r) \/ Dequeue(r)) \/ TraceCancelled
  <2>1. pc \notin {"trace", "admit"} /\ pc' # "admit"
    BY <1>3 DEF Start, ReplayDone, TakeEvent, TakeTick, ListFlows, Done, Check, Command, Pause,
       SetAutomationEnabled, Complete, Save, Drop, Resume, Dequeue, TraceCancelled, At_
  <2>2. result' \in {result, "none", "timed_out", "cancelled", "suspended", "failed", "completed"}
    BY <1>3 DEF Start, ReplayDone, TakeEvent, TakeTick, ListFlows, Done, Check, Command, Pause,
       SetAutomationEnabled, Complete, Save, Drop, Resume, Dequeue, TraceCancelled, At_
  <2>3. result # "skipped"
    BY <2>1 DEF AdmitInv
  <2>. QED  BY <1>1, <2>1, <2>2, <2>3
<1>4. CASE Trace
  <2>1. pc' \in {"work", "trigger"} /\ result' = "none"
    BY <1>4 DEF Trace, ShapeInv, TypeOK
  <2>. QED  BY <1>1, <2>1
<1>5. CASE Crash
  BY <1>1, <1>5 DEF Crash
<1>6. CASE World /\ ~Crash
  <2>1. UNCHANGED <<pc, result, run, row, clock>>
    BY <1>6 DEF World, Occur, Confirm, Update, Tick
  <2>2. commands' = commands \/ \E x \in commands : Confirm(x)
    BY <1>6 DEF World, Occur, Update, Tick
  <2>3. \A d \in commands' : \E c \in commands : c.key = d.key
    <3>1. ASSUME NEW x \in commands, Confirm(x) PROVE \A d \in commands' : \E c \in commands : c.key = d.key
      <4>1. [x EXCEPT !.status = "confirmed"].key = x.key
        BY DEF ShapeInv, CommandRecord
      <4>. QED  BY <3>1, <4>1 DEF Confirm
    <3>. QED  BY <2>2, <3>1
  <2>. QED  BY <1>2, <2>1, <2>3
<1>7. CASE UNCHANGED vars
  BY <1>2, <1>7 DEF vars
<1>8. ASSUME NEW f \in Flow, Claim(f) PROVE AdmitInv'
  <2>1. pc = "trigger" /\ UNCHANGED <<result, clock>> /\ (pc' = "admit" => row' = NewRow(f))
    BY <1>8 DEF Claim
  <2>2. /\ NewRow(f).flow = f
        /\ NewRow(f).deadline = IF Runtime[f] = 0 THEN Never ELSE After(clock, Runtime[f])
    BY DEF NewRow, Blank
  <2>3. (pc' = "admit" => row'.deadline =
           IF Runtime[row'.flow] = 0 THEN Never ELSE After(clock', Runtime[row'.flow]))
    BY <2>1, <2>2 DEF After, Never
  <2>4. result # "skipped"
    BY <2>1 DEF AdmitInv
  <2>. QED  BY <2>1, <2>3, <2>4 DEF AdmitInv, After, Never
<1>9. CASE Admit
  <2>1. pc' # "admit" /\ run' = last + 1
    BY <1>9 DEF Admit, Skip, Replace
  <2>2. result' = "skipped" => pc' = "trace"
    BY <1>9 DEF Admit, Skip, Replace
  <2>3. \A d \in commands' : d.key.run # run'
    BY <2>1, NoneAsked
  <2>. QED  BY <2>1, <2>2, <2>3 DEF AdmitInv
<1>. QED  BY <1>3, <1>4, <1>5, <1>6, <1>7, <1>8, <1>9 DEF Next, Engine, World

-----------------------------------------------------------------------------
(* The contract of a run. *)

\* All that is known of the runs, for the contract.
RunInv == /\ ProgressInv /\ PolicyInv /\ FifoInv /\ DeadlineInv /\ RetryInv /\ RetriesAreBounded
          /\ OrderInv /\ AdmitInv

LEMMA RunInvParts ==
  RunInv => /\ ShapeInv /\ HandInv /\ TraceInv /\ CommandsInv /\ ResumedInv /\ HoldInv /\ PolicyInv
            /\ FifoInv /\ DeadlineInv /\ RetryInv /\ RetriesAreBounded /\ OrderInv /\ AdmitInv
BY DEF RunInv, ProgressInv, TracedInv

LEMMA RunAlways == Spec => []RunInv
<1>1. Init => PolicyInv /\ FifoInv /\ DeadlineInv /\ RetryInv /\ RetriesAreBounded /\ OrderInv /\ AdmitInv
  <2>1. Init => RetriesAreBounded
    BY DEF Init, RetriesAreBounded
  <2>. QED  BY <2>1, PolicyInvInit, FifoInvInit, DeadlineInvInit, RetryInvInit, OrderInvInit, AdmitInvInit
<1>2. ProgressInv' /\ RunInv /\ [Next]_vars => RunInv'
  <2> SUFFICES ASSUME ProgressInv', RunInv, [Next]_vars PROVE RunInv'
    OBVIOUS
  <2>1. /\ ShapeInv /\ HandInv /\ CommandsInv /\ ResumedInv /\ PolicyInv /\ FifoInv /\ DeadlineInv
        /\ RetryInv /\ RetriesAreBounded /\ OrderInv /\ AdmitInv
    BY RunInvParts
  <2>2. ShapeInv'
    BY DEF ProgressInv, TracedInv
  <2>3. PolicyInv' /\ FifoInv' /\ DeadlineInv'
    BY <2>1, <2>2, PolicyInvStep, FifoInvStep, DeadlineInvStep
  <2>4. RetryInv' /\ RetriesAreBounded'
    BY <2>1, <2>2, RetryInvStep, RetriesStep
  <2>5. OrderInv' /\ AdmitInv'
    BY <2>1, <2>2, OrderInvStep, AdmitInvStep
  <2>. QED  BY <2>3, <2>4, <2>5 DEF RunInv
<1>3. ProgressInv /\ PolicyInv /\ FifoInv /\ DeadlineInv /\ RetryInv /\ RetriesAreBounded /\ OrderInv
      /\ AdmitInv => RunInv
  BY DEF RunInv
<1>. QED  BY <1>1, <1>2, <1>3, ProgressAlways, PTL DEF Spec

LEMMA PhaseIs ==
  ASSUME ShapeInv, HandInv, NEW r \in Run
  PROVE  /\ Phase(r) \in {"new", "over", "queued", "active"}
         /\ Phase(r) = "new" <=> r > last
         /\ Phase(r) = "queued" <=> r \in live /\ table[r].queued
         /\ Phase(r) = "active" <=> r \in live /\ ~table[r].queued
         /\ Phase(r) = "over" <=> r <= last /\ r \notin live
<1>0. last \in Nat /\ r \in Nat /\ live \subseteq 1..last
  BY Basics DEF Run
<1>1. r \in live => ~(r > last)
  BY <1>0
<1>2. r > last <=> ~(r <= last)
  BY <1>0
<1>. QED  BY <1>1, <1>2 DEF Phase

\* The variables of the contract, but for the phases.
LEMMA SeenSteps ==
  ASSUME ShapeInv, HandInv, DeadlineInv, [Next]_vars, ~Admit
  PROVE  /\ \A r \in Run : table'[r].flow = table[r].flow /\ table'[r].deadline = table[r].deadline
         /\ [r \in Run |-> table[r].flow]' = [r \in Run |-> table[r].flow]
         /\ [r \in Run |-> table[r].deadline]' = [r \in Run |-> table[r].deadline]
<1>1. ASSUME NEW r \in Run
      PROVE  table'[r].flow = table[r].flow /\ table'[r].deadline = table[r].deadline
  <2>1. CASE r \in 1..last
    BY <2>1, FlowsStay, DeadlinesStay
  <2>2. CASE r \notin 1..last
    <3>1. r \notin live
      BY <2>2, Basics
    <3>. QED  BY <3>1, TableSteps DEF TableKept, TableDrops, TableDequeues, TableSaves, TableInserts
  <2>. QED  BY <2>1, <2>2
<1>. QED  BY <1>1

-----------------------------------------------------------------------------
(* Steps that the contract sees. *)

\* The runs of a flow are those of its row.
LEMMA RunsSeen ==
  ASSUME ShapeInv, HandInv, NEW f
  PROVE  Contract!RunsOf(f) = RunsOf(f)
<1>1. live \subseteq Run
  BY Basics
<1>2. \A r \in Run : [s \in Run |-> Phase(s)][r] \in {"queued", "active"} <=> r \in live
  BY PhaseIs
<1>. QED  BY <1>1, <1>2 DEF Contract!RunsOf, RunsOf

\* The dequeued run is the oldest of its flow, which has no active one.
LEMMA DequeueProceeds ==
  ASSUME RunInv, [Next]_vars, NEW r \in Run, Dequeue(r)
  PROVE  Contract!Proceed(r)
<1>0. ShapeInv /\ HandInv /\ FifoInv /\ DeadlineInv /\ live \subseteq Run /\ table \in [Run -> Row]
      /\ ShapeInv' /\ HandInv'
  <2>1. ShapeInv /\ HandInv /\ FifoInv /\ DeadlineInv
    BY RunInvParts
  <2>. QED  BY <2>1, Basics, ShapeInvStep, HandInvStep
<1>1. /\ r \in live /\ table[r].queued /\ Active(table[r].flow) = {}
      /\ live' = live /\ table' = [table EXCEPT ![r] = [table[r] EXCEPT !.queued = FALSE]]
      /\ UNCHANGED <<traces, last, commands, now>> /\ pc = "work"
  BY DEF Dequeue, NextQueued, Startable, Some, Queued, counts, world
<1>2. table'[r].queued = FALSE /\ \A s \in Run : s # r => table'[s] = table[s]
  <2>1. table[r] \in Row /\ table'[r] = [table[r] EXCEPT !.queued = FALSE]
    BY <1>0, <1>1
  <2>. QED  BY <1>0, <1>1, <2>1 DEF Row
<1>3. Phase(r) = "queued" /\ Phase(r)' = "active" /\ \A s \in Run : s # r => Phase(s)' = Phase(s)
  <2>1. Phase(r) = "queued"
    BY <1>0, <1>1, PhaseIs
  <2>2. Phase(r)' = "active"
    <3>1. ~(r > last)
      <4>1. r \in 1..last /\ last \in Nat
        BY <1>0, <1>1, Basics
      <4>. QED  BY <4>1
    <3>. QED  BY <1>1, <1>2, <3>1 DEF Phase
  <2>. QED  BY <1>1, <1>2, <2>1, <2>2 DEF Phase
<1>4. [s \in Run |-> Phase(s)]' = [[s \in Run |-> Phase(s)] EXCEPT ![r] = "active"]
  BY <1>3
<1>5. ASSUME NEW s \in Contract!RunsOf(table[r].flow) PROVE Phase(s) = "queued" /\ r <= s
  <2>1. s \in Run /\ s \in live /\ table[s].flow = table[r].flow
    BY <1>0, <1>5, RunsSeen DEF RunsOf
  <2>2. table[s].queued
    BY <1>1, <2>1 DEF Active, RunsOf
  <2>3. ~(s < r)
    BY <1>0, <2>1, <2>2, OldestLeaves DEF Queued
  <2>. QED  BY <1>0, <2>1, <2>2, <2>3, PhaseIs DEF Run
<1>6. /\ [s \in Run |-> table[s].flow]' = [s \in Run |-> table[s].flow]
      /\ [s \in Run |-> table[s].deadline]' = [s \in Run |-> table[s].deadline]
  <2>1. ~Admit
    BY <1>1 DEF Admit
  <2>. QED  BY <1>0, <2>1, SeenSteps
<1>7. [s \in Run |-> Recorded(s)]' = [s \in Run |-> Recorded(s)]
  BY <1>1 DEF Recorded
<1>8. \A s \in Contract!RunsOf([q \in Run |-> table[q].flow][r]) : [q \in Run |-> Phase(q)][s] = "queued" /\ r <= s
  BY <1>5 DEF Contract!RunsOf
<1>. QED  BY <1>1, <1>3, <1>4, <1>6, <1>7, <1>8 DEF Contract!Proceed

\* The engine is done with the run at hand.
LEMMA DropEnds ==
  ASSUME RunInv, Drop, NEW r, r = run
  PROVE  r \in Run /\ Contract!End(r)
<1>0. ShapeInv /\ HandInv /\ DeadlineInv /\ live \subseteq Run /\ r \in live /\ table[r].queued = FALSE
  <2>1. ShapeInv /\ HandInv /\ DeadlineInv
    BY RunInvParts
  <2>. QED  BY <2>1, Basics DEF Drop, HandInv
<1>1. live' = live \ {r} /\ UNCHANGED <<table, traces, last, commands, now>> /\ pc = "drop"
  BY DEF Drop, counts, world
<1>2. Phase(r) = "active" /\ Phase(r)' = "over" /\ \A s \in Run : s # r => Phase(s)' = Phase(s)
  <2>1. Phase(r) = "active" /\ ~(r > last)
    BY <1>0, PhaseIs, Basics
  <2>. QED  BY <1>1, <2>1 DEF Phase
<1>3. [s \in Run |-> Phase(s)]' = [[s \in Run |-> Phase(s)] EXCEPT ![r] = "over"]
  BY <1>2
<1>4. /\ [s \in Run |-> table[s].flow]' = [s \in Run |-> table[s].flow]
      /\ [s \in Run |-> table[s].deadline]' = [s \in Run |-> table[s].deadline]
      /\ [s \in Run |-> Recorded(s)]' = [s \in Run |-> Recorded(s)]
  BY <1>1 DEF Recorded
<1>. QED  BY <1>0, <1>1, <1>2, <1>3, <1>4 DEF Contract!End

\* The device reports.
LEMMA ConfirmConfirms ==
  ASSUME NEW c \in commands, Confirm(c)
  PROVE  Contract!Confirm(c)
<1>1. /\ c.status = "sent" /\ commands' = (commands \ {c}) \cup {[c EXCEPT !.status = "confirmed"]}
      /\ UNCHANGED <<live, table, traces, last, now>>
  BY DEF Confirm, runs, counts
<1>2. /\ [s \in Run |-> Phase(s)]' = [s \in Run |-> Phase(s)]
      /\ [s \in Run |-> table[s].flow]' = [s \in Run |-> table[s].flow]
      /\ [s \in Run |-> table[s].deadline]' = [s \in Run |-> table[s].deadline]
      /\ [s \in Run |-> Recorded(s)]' = [s \in Run |-> Recorded(s)]
  BY <1>1 DEF Recorded, Phase
<1>. QED  BY <1>1, <1>2 DEF Contract!Confirm

\* A run that was replaced is traced.
LEMMA CancelledRecords ==
  ASSUME RunInv, NEW r \in cancelled, pc = "replaced", traces' = [traces EXCEPT ![r] = "cancelled"],
         UNCHANGED <<live, table, last, commands, now>>
  PROVE  r \in Run /\ Contract!Record(r)
<1>0. /\ ShapeInv /\ HandInv /\ TraceInv /\ r \in 1..last /\ r \in Run /\ r \notin live
      /\ traces \in [Run -> Result]
  <2>1. ShapeInv /\ HandInv /\ TraceInv
    BY RunInvParts
  <2>2. r \in 1..last /\ r \notin live /\ traces \in [Run -> Result]
    BY <2>1 DEF HandInv, ShapeInv, TypeOK
  <2>. QED  BY <2>1, <2>2, Basics
<1>1. Phase(r) = "over"
  BY <1>0, PhaseIs, Basics
<1>2. /\ Recorded(r) = "none" /\ Recorded(r)' = "cancelled"
      /\ \A s \in Run : s # r => Recorded(s)' = Recorded(s)
  <2>1. traces[r] \notin Terminal
    BY <1>0 DEF TraceInv
  <2>. QED  BY <1>0, <2>1 DEF Recorded, Terminal
<1>3. [s \in Run |-> Recorded(s)]' = [[s \in Run |-> Recorded(s)] EXCEPT ![r] = "cancelled"]
  BY <1>2
<1>4. /\ [s \in Run |-> Phase(s)]' = [s \in Run |-> Phase(s)]
      /\ [s \in Run |-> table[s].flow]' = [s \in Run |-> table[s].flow]
      /\ [s \in Run |-> table[s].deadline]' = [s \in Run |-> table[s].deadline]
  BY DEF Phase
<1>5. [s \in Run |-> Recorded(s)]'[r] = "cancelled" /\ [s \in Run |-> Recorded(s)][r] = "none"
      /\ [s \in Run |-> Phase(s)][r] = "over"
  BY <1>0, <1>1, <1>2
<1>. QED  BY <1>0, <1>3, <1>4, <1>5 DEF Contract!Record, Contract!Outcome

\* What a run holds is behind it, as the contract sees it.
LEMMA HeldBehind ==
  ASSUME ShapeInv, HandInv, NEW r \in 1..last, NEW n \in Nat, n <= Len(Plan[table[r].flow]) + 1,
         NEW t \in Nat, NEW u \in Nat, t <= u, HeldAt(r, n, t), NEW i \in 1..(n - 1)
  PROVE  Contract!Behind(r, i, u)
<1>1. r \in Run /\ [s \in Run |-> table[s].flow][r] = table[r].flow
  BY Basics
<1>2. i \in 1..Len(Plan[table[r].flow])
  BY InPlan
<1>3. PICK a : a = Plan[table[r].flow][i] /\ a = ActionOf(r, i) /\ a.delay \in Nat
  BY <1>2, PlanAction DEF ActionOf
<1>4. /\ a.do = "wait" => Waited(r, i, t)
      /\ a.do \in {"command", "reported", "retry"} => Asked(r, i)
      /\ a.do = "reported" => Confirmed(r, i)
  BY <1>3 DEF HeldAt
<1>5. a.do = "wait" => \A c \in Contract!AskedBy(r) : c.key.index < i => c.at + a.delay <= u
  <2> SUFFICES ASSUME a.do = "wait", NEW c \in commands, c.key.run = r, c.key.index < i
               PROVE  c.at + a.delay <= u
    BY DEF Contract!AskedBy
  <2>1. c.at + a.delay <= t
    BY <1>3, <1>4 DEF Waited
  <2>2. c.at \in Nat
    BY Basics
  <2>3. PICK x \in Nat : x = c.at + a.delay
    BY <1>3, <2>2
  <2>. QED  BY <2>1, <2>3
<1>6. a.do \in {"command", "reported", "retry"} => \E c \in Contract!AskedBy(r) : c.key.index = i
  BY <1>4 DEF Asked, Contract!AskedBy
<1>7. a.do = "reported" => \E c \in Contract!AskedBy(r) : c.key.index = i /\ c.status = "confirmed"
  <2>1. KeyAt(r, i).run = r /\ KeyAt(r, i).index = i
    BY DEF KeyAt
  <2>. QED  BY <1>4, <2>1 DEF Confirmed, Contract!AskedBy
<1>. QED  BY <1>1, <1>3, <1>5, <1>6, <1>7 DEF Contract!Behind, Contract!Asking

\* The last word on a run at hand is its outcome.
LEMMA TraceRecords ==
  ASSUME RunInv, Trace, result \in Terminal, NEW r, r = run
  PROVE  r \in Run /\ Contract!Record(r)
<1>0. /\ ShapeInv /\ HandInv /\ TraceInv /\ HoldInv /\ CommandsInv /\ AdmitInv
      /\ pc = "trace" /\ r \in 1..last /\ r \in Run /\ r \notin live
      /\ traces \in [Run -> Result] /\ traces[r] \notin Terminal
  <2>1. ShapeInv /\ HandInv /\ TraceInv /\ HoldInv /\ CommandsInv /\ AdmitInv /\ pc = "trace"
    BY RunInvParts DEF Trace
  <2>2. r # 0 /\ r \in 0..MaxRuns /\ r <= last /\ traces \in [Run -> Result] /\ last \in Nat
    BY <2>1, Basics DEF HandInv, ShapeInv, TypeOK
  <2>3. r \in 1..last
    BY <2>2
  <2>. QED  BY <2>1, <2>2, <2>3, Basics DEF TraceInv
<1>1. Phase(r) = "over"
  BY <1>0, PhaseIs, Basics
<1>u. traces' = [traces EXCEPT ![r] = result] /\ UNCHANGED <<live, table, last, commands, now>>
  BY DEF Trace, counts, world
<1>2. /\ Recorded(r) = "none" /\ Recorded(r)' = result
      /\ \A s \in Run : s # r => Recorded(s)' = Recorded(s)
  BY <1>0, <1>u DEF Recorded
<1>3. [s \in Run |-> Recorded(s)]' = [[s \in Run |-> Recorded(s)] EXCEPT ![r] = result]
  BY <1>2
<1>4. /\ [s \in Run |-> Phase(s)]' = [s \in Run |-> Phase(s)]
      /\ [s \in Run |-> table[s].flow]' = [s \in Run |-> table[s].flow]
      /\ [s \in Run |-> table[s].deadline]' = [s \in Run |-> table[s].deadline]
  BY <1>u DEF Phase
<1>5. [s \in Run |-> Recorded(s)]'[r] = result /\ [s \in Run |-> Recorded(s)][r] = "none"
      /\ [s \in Run |-> Phase(s)][r] = "over"
  BY <1>0, <1>1, <1>2
<1>6. ASSUME result = "completed", NEW i \in 1..Len(Plan[table[r].flow])
      PROVE  Contract!Behind(r, i, now)
  <2>0. Len(Plan[table[r].flow]) \in Nat
    BY <1>0, Basics, PlanLen DEF Row
  <2>1. PICK n \in Nat : n = Len(Plan[table[r].flow]) + 1
    BY <2>0
  <2>2. HeldAt(r, n, clock) /\ clock <= now /\ clock \in Nat /\ now \in Nat
    BY <1>0, <1>6, <2>1, Basics DEF HoldInv, CommandsInv
  <2>3. PICK t \in Nat : t = clock
    BY <2>2
  <2>4. PICK u \in Nat : u = now
    BY <2>2
  <2>5. i \in 1..(n - 1) /\ n <= Len(Plan[table[r].flow]) + 1
    BY <2>0, <2>1
  <2>6. Contract!Behind(r, i, u)
    BY <1>0, <2>2, <2>3, <2>4, <2>5, HeldBehind
  <2>. QED  BY <2>4, <2>6
<1>7. result = "skipped" => Contract!AskedBy(r) = {}
  BY <1>0 DEF AdmitInv, Contract!AskedBy
<1>8. [s \in Run |-> table[s].flow][r] = table[r].flow
  BY <1>0
<1>. QED  BY <1>0, <1>u, <1>3, <1>4, <1>5, <1>6, <1>7, <1>8 DEF Contract!Record, Contract!Outcome, Terminal

\* The attempt of a command that is asked is the next of its action, and those
\* before it have failed.
LEMMA NextAttempt ==
  ASSUME RunInv, NEW d, IsAsked(d)
  PROVE  Contract!MayAttempt(d.key.run, d.key.index, d.key.attempt)
<1>0. ShapeInv /\ HandInv /\ CommandsInv /\ ResumedInv /\ RetryInv /\ OrderInv
  BY RunInvParts
<1>1. /\ pc = "step" /\ run \in live /\ row.next <= Len(Plan[table[run].flow])
      /\ Here = ActionOf(run, row.next) /\ Here.do \in {"command", "reported", "retry"}
      /\ d.key.run = run /\ d.key.index = row.next /\ row.flow = table[run].flow
      /\ d.key.attempt = IF Here.do = "retry" THEN row.retry + 1 ELSE 0
      /\ \A c \in commands : c.key.run = run /\ c.key.index = row.next
                                => c.key.attempt # d.key.attempt
  BY <1>0, AskedNow
<1>2. run \in Run /\ row.retry \in Nat /\ row.next \in Nat
  BY <1>0, <1>1, Basics
<1>3. Counted(run, row)
  BY <1>0, <1>1, CountedAtHand
<1>4. Here.times \in Nat \ {0}
  <2>1. row.next <= Len(Plan[row.flow]) /\ GoodRow(row)
    BY <1>0, <1>1, ShapeFacts
  <2>2. Here \in Action
    BY <2>1, HereAction
  <2>. QED  BY <2>2 DEF Action
<1>5. row.retry + 1 \in 1..Here.times
  <2>1. row.retry > 0 => row.retry < Here.times
    BY <1>1, <1>3 DEF Counted, RetryHeld
  <2>. QED  BY <1>2, <1>4, <2>1
<1>6. ASSUME NEW c \in commands, c.key.run = run
      PROVE  \/ c.key.index < row.next
             \/ c.key.index = row.next /\ c.key.attempt < d.key.attempt /\ c.status = "failed"
  <2>0. c.key.index \in Nat /\ c.key.attempt \in Nat
    BY <1>0, Basics
  <2>1. c.key.index <= row.next
    <3>1. \A e \in commands : e.key # KeyOf
      BY DEF IsAsked
    <3>. QED  BY <1>0, <1>1, <1>6, <3>1, NothingBeyond
  <2>2. ASSUME c.key.index = row.next PROVE c.key.attempt < d.key.attempt /\ c.status = "failed"
    <3>1. c.key.attempt # d.key.attempt
      BY <1>1, <1>6, <2>2
    <3>2. c.key.attempt = 0 <=> Here.do # "retry"
      BY <1>0, <1>1, <1>6, <2>2, RetryAsked
    <3>3. Here.do = "retry" /\ c.key.attempt # 0
      BY <1>1, <3>1, <3>2
    <3>4. c.key.attempt <= row.retry + 1
      BY <1>3, <1>6, <2>2 DEF Counted, AttemptsUpTo
    <3>5. c.key.attempt <= row.retry /\ row.retry > 0 /\ c.key.attempt < d.key.attempt
      <4>1. d.key.attempt = row.retry + 1
        BY <1>1, <3>3
      <4>2. ASSUME NEW a \in Nat, NEW b \in Nat, a # 0, a # b + 1, a <= b + 1
            PROVE  a <= b /\ b > 0 /\ a < b + 1
        BY <4>2
      <4>. QED  BY <1>2, <2>0, <3>1, <3>3, <3>4, <4>1, <4>2
    <3>6. c.status = "failed"
      BY <1>3, <1>6, <2>2, <3>5 DEF Counted, RetryHeld
    <3>. QED  BY <3>5, <3>6
  <2>. QED  BY <1>2, <2>0, <2>1, <2>2
<1>7. PICK r, i, a : r = d.key.run /\ i = d.key.index /\ a = d.key.attempt
  OBVIOUS
<1>8. [s \in Run |-> table[s].flow][r] = table[run].flow
  BY <1>1, <1>2, <1>7
<1>9. Plan[[s \in Run |-> table[s].flow][r]][i] = Here
  BY <1>1, <1>7, <1>8 DEF ActionOf
<1>10. \A c \in Contract!AskedBy(r) :
          \/ c.key.index < i
          \/ c.key.index = i /\ c.key.attempt < a /\ c.status = "failed"
  BY <1>1, <1>6, <1>7 DEF Contract!AskedBy
<1>11. IF Here.do = "retry" THEN a \in 1..Here.times ELSE a = 0
  BY <1>1, <1>5, <1>7
<1>12. Contract!MayAttempt(r, i, a)
  BY <1>1, <1>9, <1>10, <1>11 DEF Contract!MayAttempt, Contract!Asking
<1>. QED  BY <1>7, <1>12

\* A command that was not yet sent is asked for, in its turn.
LEMMA CommandAsks ==
  ASSUME RunInv, NEW d, IsAsked(d)
  PROVE  Contract!Ask(d.key.run, d.key.index, d.key.attempt, d.at)
<1>0. ShapeInv /\ HandInv /\ CommandsInv /\ ResumedInv /\ HoldInv /\ DeadlineInv
  BY RunInvParts
<1>1. /\ pc = "step" /\ run \in live /\ row.next <= Len(Plan[table[run].flow])
      /\ d.key.run = run /\ d.key.index = row.next /\ d.at = clock
  BY <1>0, AskedNow
<1>2. PICK r \in 1..last : r = run
  BY <1>0, <1>1, Basics
<1>3. PICK n \in Nat : n = row.next
  BY <1>0, Basics
<1>4. PICK t \in Nat : t = clock
  BY <1>0, Basics
<1>5. PICK a : a = d.key.attempt
  OBVIOUS
<1>6. Phase(r) = "active" /\ r \in Run
  BY <1>0, <1>1, <1>2, PhaseIs, Basics DEF HandInv
<1>7. \E status \in {"sent", "failed"} :
         commands' = commands \cup {[key |-> [run |-> r, index |-> n, attempt |-> a],
                                     at |-> t, sent |-> now, status |-> status]}
  <2>1. PICK s \in {"sent", "failed"} :
          commands' = commands \cup {Request(s)}
    BY DEF IsAsked, Command, Accepted, Refused
  <2>2. KeyOf = [run |-> r, index |-> n, attempt |-> a]
    BY <1>2, <1>3, <1>5 DEF IsAsked, KeyOf
  <2>. QED  BY <1>4, <2>1, <2>2 DEF Request
<1>8. Contract!MayAttempt(r, n, a)
  BY <1>1, <1>2, <1>3, <1>5, NextAttempt
<1>9. \A c \in Contract!AskedBy(r) : c.at <= t
  BY <1>0, <1>1, <1>4 DEF CommandsInv, Reference, Contract!AskedBy
<1>10. t <= now /\ t < table[r].deadline
  BY <1>0, <1>1, <1>2, <1>4 DEF CommandsInv, DeadlineInv
<1>11. ASSUME NEW j \in 1..(n - 1) PROVE Contract!Behind(r, j, t)
  <2>1. HeldAt(r, n, t)
    BY <1>0, <1>1, <1>2, <1>3, <1>4 DEF HoldInv
  <2>2. n <= Len(Plan[table[r].flow]) + 1
    <3>1. Len(Plan[table[r].flow]) \in Nat
      BY <1>0, <1>6, Basics, PlanLen DEF Row
    <3>2. n <= Len(Plan[table[r].flow])
      BY <1>1, <1>2, <1>3
    <3>. QED  BY <3>1, <3>2
  <2>3. t <= t
    OBVIOUS
  <2>. QED  BY <1>0, <2>1, <2>2, <2>3, HeldBehind
<1>12. UNCHANGED <<live, table, traces, last, now>>
  BY DEF IsAsked, Command, runs, counts
<1>13. /\ [s \in Run |-> Phase(s)]' = [s \in Run |-> Phase(s)]
       /\ [s \in Run |-> table[s].flow]' = [s \in Run |-> table[s].flow]
       /\ [s \in Run |-> table[s].deadline]' = [s \in Run |-> table[s].deadline]
       /\ [s \in Run |-> Recorded(s)]' = [s \in Run |-> Recorded(s)]
  BY <1>12 DEF Recorded, Phase
<1>14. [s \in Run |-> Phase(s)][r] = "active" /\ t < [s \in Run |-> table[s].deadline][r]
  BY <1>6, <1>10
<1>15. Contract!Ask(r, n, a, t)
  BY <1>7, <1>8, <1>9, <1>10, <1>11, <1>12, <1>13, <1>14 DEF Contract!Ask
<1>. QED  BY <1>1, <1>2, <1>3, <1>4, <1>5, <1>15

-----------------------------------------------------------------------------
(* A new run as the contract sees it. *)

\* It is the next in the order of creation.
LEMMA NewPhases ==
  ASSUME ShapeInv, HandInv, Admit, NEW r, r = last + 1
  PROVE  /\ r \in Run /\ r \notin live
         /\ Phase(r) = "new" /\ \A s \in Run : s < r => Phase(s) # "new"
         /\ [s \in Run |-> Recorded(s)]' = [s \in Run |-> Recorded(s)]
         /\ last' = r /\ UNCHANGED <<commands, now>>
         /\ \A s \in Run : s # r => (s > last' <=> s > last)
<1>1. r \in Run /\ r \notin live /\ last \in Nat
  BY NextRun, Basics DEF Admit
<1>2. last' = r /\ UNCHANGED <<commands, now, traces>>
  BY DEF Admit, world
<1>3. Phase(r) = "new" /\ \A s \in Run : s < r => Phase(s) # "new"
  <2>1. r > last /\ \A s \in Run : s < r => ~(s > last)
    BY <1>1 DEF Run
  <2>. QED  BY <1>1, <2>1, PhaseIs
<1>4. [s \in Run |-> Recorded(s)]' = [s \in Run |-> Recorded(s)]
  BY <1>2 DEF Recorded
<1>5. \A s \in Run : s # r => (s > last' <=> s > last)
  BY <1>1, <1>2 DEF Run
<1>. QED  BY <1>1, <1>2, <1>3, <1>4, <1>5

\* The flow and the deadline of the row that is inserted.
LEMMA InsertAdmits ==
  ASSUME RunInv, Admit, NEW r, r = last + 1, NEW f, f = row.flow,
         NEW queued \in BOOLEAN, Insert(r, queued)
  PROVE  /\ Contract!Admitted(r, f) /\ f \in Flow
         /\ table'[r].queued = queued /\ \A s \in Run : s # r => table'[s] = table[s]
<1>0. ShapeInv /\ HandInv /\ AdmitInv /\ CommandsInv
  BY RunInvParts
<1>1. /\ r \in Run /\ UNCHANGED <<commands, now>>
      /\ [s \in Run |-> Recorded(s)]' = [s \in Run |-> Recorded(s)]
  BY <1>0, NewPhases
<1>2. /\ table'[r].flow = f /\ table'[r].queued = queued
      /\ table'[r].deadline = row.deadline
      /\ \A s \in Run : s # r => table'[s] = table[s]
  BY <1>0, <1>1, InsertedRow
<1>3. f \in Flow /\ row.deadline \in Instant
  BY <1>0, Basics DEF Row
<1>4. /\ [s \in Run |-> table[s].flow]' = [[s \in Run |-> table[s].flow] EXCEPT ![r] = f]
      /\ [s \in Run |-> table[s].deadline]' = [[s \in Run |-> table[s].deadline] EXCEPT ![r] = row.deadline]
  BY <1>1, <1>2
<1>5. IF Runtime[f] = 0 THEN row.deadline = Never ELSE row.deadline <= now + Runtime[f]
  <2>1. row.deadline = IF Runtime[f] = 0 THEN Never ELSE After(clock, Runtime[f])
    BY <1>0 DEF AdmitInv, Admit
  <2>2. clock \in Nat /\ now \in Nat /\ clock <= now
    BY <1>0, Basics DEF CommandsInv
  <2>3. Never \in Nat /\ Runtime[f] \in Nat
    BY <1>3 DEF Never
  <2>4. After(clock, Runtime[f]) <= now + Runtime[f]
    <3>1. ASSUME NEW c \in Nat, NEW n \in Nat, NEW d \in Nat, c <= n
          PROVE  After(c, d) <= n + d
      <4>1. c + d <= n + d
        BY <3>1
      <4>. QED  BY <2>3, <4>1 DEF After
    <3>. QED  BY <2>2, <2>3, <3>1
  <2>. QED  BY <2>1, <2>4
<1>6. Contract!Admitted(r, f)
  BY <1>1, <1>3, <1>4, <1>5 DEF Contract!Admitted
<1>. QED  BY <1>2, <1>3, <1>6

\* The contract counts as FlowRuns does.
LEMMA SameCardinality == ASSUME NEW S PROVE Contract!Cardinality(S) = Cardinality(S)
BY DEF Contract!Cardinality, Cardinality

\* The policy starts, replaces, queues or refuses a run.
LEMMA AdmitAdmits ==
  ASSUME RunInv, Admit, NEW r, r = last + 1
  PROVE  r \in Run /\ Contract!Admit(r)
<1>0. /\ ShapeInv /\ HandInv /\ live \subseteq Run
  <2>1. ShapeInv /\ HandInv
    BY RunInvParts
  <2>. QED  BY <2>1, Basics
<1>f. PICK f : f = row.flow
  OBVIOUS
<1>b. PICK no \in BOOLEAN : no = FALSE
  OBVIOUS
<1>c. PICK yes \in BOOLEAN : yes = TRUE
  OBVIOUS
<1>1. /\ r \in Run /\ r \notin live /\ last' = r
      /\ Phase(r) = "new" /\ \A s \in Run : s < r => Phase(s) # "new"
      /\ \A s \in Run : s # r => (s > last' <=> s > last)
      /\ UNCHANGED <<commands, now>>
      /\ [s \in Run |-> Recorded(s)]' = [s \in Run |-> Recorded(s)]
      /\ ~(r > r)
  BY <1>0, NewPhases DEF Run
<1>2. Contract!IsNext(r)
  BY <1>1 DEF Contract!IsNext
<1>3. Contract!RunsOf(f) = RunsOf(f)
  BY <1>0, RunsSeen
<1>4. CASE Skip
  <2>1. UNCHANGED <<live, table>>
    BY <1>4 DEF Skip
  <2>2. Phase(r)' = "over" /\ \A s \in Run : s # r => Phase(s)' = Phase(s)
    BY <1>1, <2>1 DEF Phase
  <2>3. [s \in Run |-> Phase(s)]' = [[s \in Run |-> Phase(s)] EXCEPT ![r] = "over"]
        /\ [s \in Run |-> Phase(s)]'[r] # "new"
    BY <1>1, <2>2
  <2>4. Contract!Refuse(r)
    BY <1>1, <2>1, <2>3 DEF Contract!Refuse
  <2>. QED  BY <1>1, <1>2, <2>3, <2>4 DEF Contract!Admit
<1>5. CASE /\ Mode[f] # "restart" /\ RunsOf(f) = {}
           /\ live' = live \cup {r} /\ Insert(r, FALSE)
  <2>0. Insert(r, no)
    BY <1>b, <1>5
  <2>1. /\ Contract!Admitted(r, f) /\ f \in Flow
        /\ table'[r].queued = FALSE /\ \A s \in Run : s # r => table'[s] = table[s]
    <3>1. /\ Contract!Admitted(r, f) /\ f \in Flow
          /\ table'[r].queued = no /\ \A s \in Run : s # r => table'[s] = table[s]
      BY <1>f, <2>0, InsertAdmits
    <3>. QED  BY <1>b, <3>1
  <2>2. Phase(r)' = "active" /\ \A s \in Run : s # r => Phase(s)' = Phase(s)
    BY <1>1, <1>5, <2>1 DEF Phase
  <2>3. [s \in Run |-> Phase(s)]' = [[s \in Run |-> Phase(s)] EXCEPT ![r] = "active"]
        /\ [s \in Run |-> Phase(s)]'[r] # "new"
    BY <1>1, <2>2
  <2>4. Contract!Start(r)
    BY <1>3, <1>5, <2>1, <2>3 DEF Contract!Start
  <2>. QED  BY <1>1, <1>2, <2>3, <2>4 DEF Contract!Admit
<1>6. CASE /\ Mode[f] = "queue" /\ RunsOf(f) # {} /\ ~Full(f)
           /\ live' = live \cup {r} /\ Insert(r, TRUE)
  <2>0. Insert(r, yes)
    BY <1>c, <1>6
  <2>1. /\ Contract!Admitted(r, f) /\ f \in Flow
        /\ table'[r].queued = TRUE /\ \A s \in Run : s # r => table'[s] = table[s]
    <3>1. /\ Contract!Admitted(r, f) /\ f \in Flow
          /\ table'[r].queued = yes /\ \A s \in Run : s # r => table'[s] = table[s]
      BY <1>f, <2>0, InsertAdmits
    <3>. QED  BY <1>c, <3>1
  <2>2. Phase(r)' = "queued" /\ \A s \in Run : s # r => Phase(s)' = Phase(s)
    BY <1>1, <1>6, <2>1 DEF Phase
  <2>3. [s \in Run |-> Phase(s)]' = [[s \in Run |-> Phase(s)] EXCEPT ![r] = "queued"]
        /\ [s \in Run |-> Phase(s)]'[r] # "new"
    BY <1>1, <2>2
  <2>4. Cardinality(RunsOf(f)) < MaxQueue[f]
    <3>1. Cardinality(RunsOf(f)) \in Nat /\ MaxQueue[f] \in Nat
      BY <1>0, <2>1, RunsFinite
    <3>. QED  BY <1>6, <3>1 DEF Full
  <2>5. /\ Mode[f] = "queue" /\ Contract!RunsOf(f) # {}
        /\ Contract!Cardinality(Contract!RunsOf(f)) < MaxQueue[f]
    BY <1>3, <1>6, <2>4, SameCardinality
  <2>6. Contract!Enqueue(r)
    BY <2>1, <2>3, <2>5 DEF Contract!Enqueue
  <2>. QED  BY <1>1, <1>2, <2>3, <2>6 DEF Contract!Admit
<1>7. CASE Mode[f] = "restart" /\ Replace(r)
  <2>0. live' = (live \ RunsOf(f)) \cup {r} /\ Insert(r, FALSE)
    BY <1>f, <1>7 DEF Replace
  <2>1. /\ Contract!Admitted(r, f) /\ f \in Flow
        /\ table'[r].queued = FALSE /\ \A s \in Run : s # r => table'[s] = table[s]
    <3>1. Insert(r, no)
      BY <1>b, <2>0
    <3>2. /\ Contract!Admitted(r, f) /\ f \in Flow
          /\ table'[r].queued = no /\ \A s \in Run : s # r => table'[s] = table[s]
      BY <1>f, <3>1, InsertAdmits
    <3>. QED  BY <1>b, <3>2
  <2>2. Phase(r)' = "active"
    BY <1>1, <2>0, <2>1 DEF Phase
  <2>3. ASSUME NEW s \in Run, s # r
        PROVE  Phase(s)' = IF s \in RunsOf(f) THEN "over" ELSE Phase(s)
    <3>1. s \in RunsOf(f) => s \in live /\ ~(s > last)
      BY <1>0, Basics DEF RunsOf
    <3>2. CASE s \in RunsOf(f)
      <4>1. s \notin live' /\ ~(s > last')
        BY <1>1, <2>0, <2>3, <3>1, <3>2
      <4>. QED  BY <3>2, <4>1 DEF Phase
    <3>3. CASE s \notin RunsOf(f)
      <4>1. s \in live' <=> s \in live
        BY <2>0, <2>3, <3>3
      <4>. QED  BY <1>1, <2>1, <2>3, <3>3, <4>1 DEF Phase
    <3>. QED  BY <3>2, <3>3
  <2>4. [s \in Run |-> Phase(s)]' =
           [s \in Run |-> IF s = r THEN "active"
                          ELSE IF s \in Contract!RunsOf(f) THEN "over" ELSE [q \in Run |-> Phase(q)][s]]
    BY <1>3, <2>2, <2>3
  <2>5. [s \in Run |-> Phase(s)]'[r] # "new"
    BY <1>1, <2>2
  <2>6. Contract!Replace(r)
    BY <1>7, <2>1, <2>4 DEF Contract!Replace
  <2>. QED  BY <1>1, <1>2, <2>5, <2>6 DEF Contract!Admit
<1>. QED  BY <1>f, <1>1, <1>4, <1>5, <1>6, <1>7 DEF Admit

-----------------------------------------------------------------------------
(* The steps of the engine and of the world, one by one, seen by the contract. *)

LEMMA InitContract == Init => Contract!ContractInit
<1> SUFFICES ASSUME Init PROVE Contract!ContractInit
  OBVIOUS
<1>1. last = 0 /\ commands = {} /\ now = 0 /\ \A r \in Run : table[r] = Blank /\ traces[r] = "none"
  BY DEF Init
<1>2. Blank.flow \in Flow /\ Blank.deadline \in Instant
  BY DEF Blank, Never, Instant
<1>3. \A r \in Run : Phase(r) = "new" /\ Recorded(r) = "none"
  BY <1>1 DEF Phase, Recorded, Terminal, Run
<1>4. [r \in Run |-> table[r].flow] \in [Run -> Flow] /\ [r \in Run |-> table[r].deadline] \in [Run -> Instant]
  BY <1>1, <1>2
<1>. QED  BY <1>1, <1>3, <1>4 DEF Contract!ContractInit

LEMMA ContractNextExpanded ==
  Contract!ContractNext <=>
    \/ \E r \in Run : Contract!Admit(r) \/ Contract!Proceed(r) \/ Contract!End(r) \/ Contract!Record(r)
    \/ \E c \in commands' \ commands : Contract!Ask(c.key.run, c.key.index, c.key.attempt, c.at)
    \/ \E c \in commands : Contract!Confirm(c)
    \/ Contract!Pass
BY DEF Contract!ContractNext

\* A step the contract does not see: no run comes or goes, none is asked for
\* anything, no time passes and nothing final is recorded.
LEMMA Stutters ==
  ASSUME ShapeInv, HandInv, DeadlineInv, [Next]_vars, ~Admit,
         UNCHANGED <<live, last, commands, now>>,
         \A r \in live : table'[r].queued = table[r].queued,
         \A r \in Run : Recorded(r)' = Recorded(r)
  PROVE  UNCHANGED Contract!contractVars
<1>1. \A r \in Run : Phase(r)' = Phase(r)
  BY DEF Phase
<1>2. /\ [r \in Run |-> table[r].flow]' = [r \in Run |-> table[r].flow]
      /\ [r \in Run |-> table[r].deadline]' = [r \in Run |-> table[r].deadline]
  BY SeenSteps
<1>3. [r \in Run |-> Phase(r)]' = [r \in Run |-> Phase(r)]
  BY <1>1
<1>4. [r \in Run |-> Recorded(r)]' = [r \in Run |-> Recorded(r)]
  OBVIOUS
<1>. QED  BY <1>2, <1>3, <1>4 DEF Contract!contractVars

\* An answer that does not create a command is not seen.
LEMMA CommandSeen ==
  ASSUME RunInv, [Next]_vars, Command, commands' # commands
  PROVE  \E c \in commands' \ commands : Contract!Ask(c.key.run, c.key.index, c.key.attempt, c.at)
<1>1. PICK s \in {"sent", "failed"} :
        /\ \A c \in commands : c.key # KeyOf
        /\ commands' = commands \cup {Request(s)}
  BY DEF Command, Accepted, Refused
<1>2. PICK d : d = Request(s)
  OBVIOUS
<1>3. d \in commands' \ commands /\ d.key = KeyOf /\ d.at = clock
  BY <1>1, <1>2 DEF Request
<1>4. IsAsked(d)
  BY <1>1, <1>2, <1>3 DEF IsAsked, Request
<1>. QED  BY <1>3, <1>4, CommandAsks

\* Time passes for the runs as for the engine.
LEMMA TickPasses == ASSUME RunInv, Tick PROVE Contract!Pass
<1>1. now \in Nat /\ now < MaxTime /\ now' = now + 1
      /\ UNCHANGED <<live, table, traces, last, commands>>
  <2>1. ShapeInv /\ HandInv
    BY RunInvParts
  <2>. QED  BY <2>1, Basics DEF Tick, runs, counts
<1>2. now' \in Instant /\ now' > now
  BY <1>1 DEF Instant, Never
<1>3. /\ [s \in Run |-> Phase(s)]' = [s \in Run |-> Phase(s)]
      /\ [s \in Run |-> table[s].flow]' = [s \in Run |-> table[s].flow]
      /\ [s \in Run |-> table[s].deadline]' = [s \in Run |-> table[s].deadline]
      /\ [s \in Run |-> Recorded(s)]' = [s \in Run |-> Recorded(s)]
  BY <1>1 DEF Recorded, Phase
<1>. QED  BY <1>1, <1>2, <1>3 DEF Contract!Pass

\* The row of a suspension takes the place of the row that was resumed.
LEMMA SaveSeen ==
  ASSUME ShapeInv, HandInv, Save
  PROVE  /\ UNCHANGED <<live, last, commands, now, traces>>
         /\ \A r \in live : table'[r].queued = table[r].queued
<1>1. run \in live /\ row.queued = FALSE /\ table[run].queued = FALSE
  BY DEF Save, HandInv
<1>2. live' = live \cup {run} /\ table' = [table EXCEPT ![run] = row]
      /\ UNCHANGED <<last, commands, now, traces>>
  BY DEF Save, world
<1>3. table \in [Run -> Row] /\ live \subseteq Run
  BY Basics
<1>. QED  BY <1>1, <1>2, <1>3

\* A trace that is not the last word is not seen.
LEMMA TraceUnseen ==
  ASSUME RunInv, Trace, result \notin Terminal
  PROVE  /\ UNCHANGED <<live, last, commands, now, table>>
         /\ \A r \in Run : Recorded(r)' = Recorded(r)
<1>1. /\ UNCHANGED <<live, last, commands, now, table>>
      /\ traces' = [traces EXCEPT ![run] = result] /\ pc = "trace"
  BY DEF Trace, world, counts
<1>2. ShapeInv /\ HandInv /\ TraceInv
  BY RunInvParts
<1>3. traces \in [Run -> Result] /\ traces[run] \notin Terminal
  <2>1. run # 0 /\ run <= last /\ run \in 0..MaxRuns /\ traces \in [Run -> Result]
    BY <1>1, <1>2 DEF HandInv, ShapeInv, TypeOK
  <2>. QED  BY <1>1, <1>2, <2>1 DEF TraceInv
<1>. QED  BY <1>1, <1>3 DEF Recorded

\* Every step of FlowRuns is a step of the contract or is not seen by it.
LEMMA NextContract == RunInv /\ [Next]_vars => [Contract!ContractNext]_(Contract!contractVars)
<1> SUFFICES ASSUME RunInv, [Next]_vars
             PROVE  Contract!ContractNext \/ UNCHANGED Contract!contractVars
  OBVIOUS
<1>0. ShapeInv /\ HandInv /\ DeadlineInv
  BY RunInvParts
<1>1. CASE Admit
  <2>1. PICK r : r = last + 1
    OBVIOUS
  <2>. QED  BY <1>1, <2>1, AdmitAdmits, ContractNextExpanded
<1>2. ASSUME NEW r \in Run, Dequeue(r) PROVE Contract!ContractNext
  BY <1>2, DequeueProceeds, ContractNextExpanded
<1>3. CASE Command
  <2>1. CASE commands' = commands
    <3>1. UNCHANGED <<live, last, now, table, traces>> /\ pc = "step"
      BY <1>3 DEF Command, At_, runs, counts
    <3>. QED  BY <1>0, <2>1, <3>1, Stutters DEF Admit, Recorded
  <2>2. CASE commands' # commands
    BY <1>3, <2>2, CommandSeen, ContractNextExpanded
  <2>. QED  BY <2>1, <2>2
<1>4. CASE Drop
  <2>1. PICK r : r = run
    OBVIOUS
  <2>. QED  BY <1>4, <2>1, DropEnds, ContractNextExpanded
<1>5. CASE Trace
  <2>1. CASE result \in Terminal
    <3>1. PICK r : r = run
      OBVIOUS
    <3>. QED  BY <1>5, <2>1, <3>1, TraceRecords, ContractNextExpanded
  <2>2. CASE result \notin Terminal
    <3>1. ~Admit
      BY <1>5 DEF Trace, Admit
    <3>. QED  BY <1>0, <1>5, <2>2, <3>1, TraceUnseen, Stutters
  <2>. QED  BY <2>1, <2>2
<1>6. CASE TraceCancelled
  <2>1. UNCHANGED <<live, last, commands, now, table>> /\ pc = "replaced" /\ ~Admit
    BY <1>6 DEF TraceCancelled, Admit, world, counts
  <2>2. ASSUME NEW r \in cancelled, traces' = [traces EXCEPT ![r] = "cancelled"]
        PROVE  Contract!ContractNext
    BY <2>1, <2>2, CancelledRecords, ContractNextExpanded
  <2>3. CASE traces' = traces
    BY <1>0, <2>1, <2>3, Stutters DEF Recorded
  <2>. QED  BY <1>6, <2>2, <2>3 DEF TraceCancelled
<1>7. ASSUME NEW c \in commands, Confirm(c) PROVE Contract!ContractNext
  BY <1>7, ConfirmConfirms, ContractNextExpanded
<1>8. CASE Tick
  BY <1>8, TickPasses, ContractNextExpanded
<1>9. CASE Save
  <2>1. ~Admit
    BY <1>9 DEF Save, Admit
  <2>. QED  BY <1>0, <1>9, <2>1, SaveSeen, Stutters DEF Recorded
<1>10. CASE \/ Start \/ ReplayDone \/ TakeEvent \/ TakeTick \/ ListFlows \/ Done
            \/ Check \/ Pause \/ SetAutomationEnabled \/ Complete
            \/ (\E r \in Run : Resume(r)) \/ (\E f \in Flow : Claim(f))
  <2>1. UNCHANGED <<live, last, now, commands, table, traces>> /\ pc # "admit"
    BY <1>10 DEF Start, ReplayDone, TakeEvent, TakeTick, ListFlows, Done, Check, Pause,
       SetAutomationEnabled, Complete, Resume, Claim, At_, runs, world, counts
  <2>. QED  BY <1>0, <2>1, Stutters DEF Admit, Recorded
<1>11. CASE (\E s \in Signal : Occur(s)) \/ (\E f \in Flow : Update(f)) \/ Crash \/ UNCHANGED vars
  <2>1. UNCHANGED <<live, last, now, commands, table, traces>>
    BY <1>11 DEF Occur, Update, Crash, vars, runs, world, counts
  <2>2. UNCHANGED Contract!contractVars
    BY <2>1 DEF Contract!contractVars, Phase, Recorded
  <2>. QED  BY <2>2
<1>. QED
  BY <1>1, <1>2, <1>3, <1>4, <1>5, <1>6, <1>7, <1>8, <1>9, <1>10, <1>11 DEF Next, Engine, World

\* Whatever the engine, users, devices, time and deaths do to the runs of flows,
\* they only do what the contract of a run allows: admit it by the policy of its
\* flow, take it from the queue in turn, let it ask for the commands of its plan,
\* each once, in order, after the waits and confirmations before it and within
\* its max-runtime, and record its outcome once it is over.
THEOREM RunsImplementContract == Spec => ImplementsRunContract
BY RunAlways, InitContract, NextContract, PTL DEF Spec, ImplementsRunContract, Contract!ContractSpec

-----------------------------------------------------------------------------
(* The time within a pass. *)

\* Of the commands of run r none was sent after t.
SentBy(r, t) == \A c \in commands : c.key.run = r => c.sent <= t

\* Since the engine took what it works off, only the run at hand has sent
\* anything, and not beyond a suspension of its plan.
PassInv ==
    /\ \A c \in commands : c.sent <= now
    /\ \A r \in live : table[r].queued => \A c \in commands : c.key.run # r
    /\ \A r \in work : SentBy(r, clock)
    /\ pc \in {"replaced", "check"} => SentBy(run, clock)
    /\ pc = "step" => \A c \in commands : c.key.run = run /\ c.sent > clock =>
          /\ c.key.index < row.next
          /\ \A i \in c.key.index..(row.next - 1) : ActionOf(run, i).do \notin Suspending
    /\ \A c, d \in commands : Parted(c, d) => c.sent <= d.at

LEMMA PassInvInit == Init => PassInv
BY DEF Init, PassInv

\* A run that asks for nothing has sent nothing more.
LEMMA SentByStays ==
  ASSUME ShapeInv, [Next]_vars, NEW r, NEW t, SentBy(r, t),
         \A d : IsAsked(d) => d.key.run # r
  PROVE  SentBy(r, t)'
<1> SUFFICES ASSUME NEW d \in commands', d.key.run = r PROVE d.sent <= t
  BY DEF SentBy
<1>1. PICK c \in commands : Becomes(c, d)
  BY CommandSteps
<1>. QED  BY <1>1 DEF Becomes, SentBy

\* The clock is read, and every command so far lies before it.
LEMMA WorkSentBy ==
  ASSUME ShapeInv, HandInv, PassInv, [Next]_vars, NEW r \in work'
  PROVE  SentBy(r, clock)'
<1>. USE DEF runs, world, counts, taken, hand
<1>1. CASE TakeEvent \/ TakeTick
  BY <1>1 DEF TakeEvent, TakeTick, PassInv, SentBy
<1>2. ASSUME r \in work, clock' = clock PROVE SentBy(r, clock)'
  <2>1. run # r
    BY <1>2 DEF ShapeInv, Apart
  <2>2. \A d : IsAsked(d) => d.key.run # r
    BY <2>1, AskedNow
  <2>. QED  BY <1>2, <2>2, SentByStays DEF PassInv
<1>3. CASE Done \/ Crash
  BY <1>3 DEF Done, Crash, ShapeInv, Apart
<1>4. CASE \/ Start \/ ReplayDone \/ ListFlows \/ Admit \/ TraceCancelled \/ Check \/ Command
           \/ Pause \/ SetAutomationEnabled \/ Complete \/ Save \/ Drop \/ Trace
           \/ (\E s \in Run : Resume(s) \/ Dequeue(s)) \/ (\E f \in Flow : Claim(f))
  <2>1. clock' = clock /\ work' \subseteq work
    BY <1>4 DEF Start, ReplayDone, ListFlows, Admit, TraceCancelled, Check, Command, Pause,
       SetAutomationEnabled, Complete, Save, Drop, Trace, Resume, Dequeue, Claim
  <2>. QED  BY <1>2, <2>1
<1>5. CASE World /\ ~Crash
  BY <1>2, <1>5 DEF World, Occur, Confirm, Update, Tick
<1>6. CASE UNCHANGED vars
  BY <1>2, <1>6 DEF vars
<1>. QED  BY <1>1, <1>3, <1>4, <1>5, <1>6 DEF Next, Engine, World

\* The steps that come to the check of a run.
LEMMA IntoCheck ==
  ASSUME ShapeInv, [Next]_vars, pc' \in {"replaced", "check"}
  PROVE  \/ \E r \in Run : Resume(r) \/ Dequeue(r)
         \/ Admit
         \/ pc \in {"replaced", "check"} /\ UNCHANGED <<run, clock>> /\ ~Command
<1>. USE DEF runs, world, counts, taken, hand
<1>1. CASE \/ Start \/ ReplayDone \/ TakeEvent \/ TakeTick \/ ListFlows \/ Check \/ Command \/ Pause
           \/ SetAutomationEnabled \/ Complete \/ Save \/ Drop \/ Done \/ (\E f \in Flow : Claim(f))
  BY <1>1 DEF Start, ReplayDone, TakeEvent, TakeTick, ListFlows, Check, Command, Pause,
     SetAutomationEnabled, Complete, Save, Drop, Done, Claim, At_
<1>2. CASE TraceCancelled
  BY <1>2 DEF TraceCancelled, Command, At_
<1>3. CASE Trace
  BY <1>3 DEF Trace, ShapeInv, TypeOK
<1>4. CASE World
  BY <1>4 DEF World, Occur, Confirm, Update, Tick, Crash, Command, At_
<1>5. CASE UNCHANGED vars
  BY <1>5 DEF vars, Command, At_
<1>. QED  BY <1>1, <1>2, <1>3, <1>4, <1>5 DEF Next, Engine

LEMMA CheckSentBy ==
  ASSUME ShapeInv, HandInv, CommandsInv, PassInv, [Next]_vars, pc' \in {"replaced", "check"}
  PROVE  SentBy(run, clock)'
<1>1. ASSUME NEW r \in Run, Resume(r) PROVE SentBy(run, clock)'
  <2>1. run' = r /\ r \in work /\ UNCHANGED <<clock, commands>>
    BY <1>1 DEF Resume, world, taken
  <2>. QED  BY <2>1 DEF PassInv, SentBy
<1>2. ASSUME NEW r \in Run, Dequeue(r) PROVE SentBy(run, clock)'
  <2>1. run' = r /\ r \in live /\ table[r].queued /\ UNCHANGED <<clock, commands>>
    BY <1>2 DEF Dequeue, NextQueued, Startable, Some, Queued, world, taken
  <2>. QED  BY <2>1 DEF PassInv, SentBy
<1>3. CASE Admit
  <2>1. run' = last + 1
    BY <1>3 DEF Admit
  <2>. QED  BY <2>1, NoneAsked DEF SentBy
<1>4. CASE pc \in {"replaced", "check"} /\ UNCHANGED <<run, clock>> /\ ~Command
  <2>1. SentBy(run, clock) /\ \A d : ~IsAsked(d)
    BY <1>4 DEF PassInv, IsAsked
  <2>2. SentBy(run, clock) => SentBy(run, clock)'
    <3>1. PICK r, t : r = run /\ t = clock
      OBVIOUS
    <3>2. SentBy(r, t) => SentBy(r, t)'
      BY <2>1, SentByStays
    <3>. QED  BY <1>4, <3>1, <3>2
  <2>. QED  BY <2>1, <2>2
<1>. QED  BY <1>1, <1>2, <1>3, <1>4, IntoCheck

\* A queued run has asked for nothing.
LEMMA QueuedSilent ==
  ASSUME ShapeInv, HandInv, CommandsInv, PassInv, [Next]_vars,
         NEW r \in live', table'[r].queued, NEW d \in commands'
  PROVE  d.key.run # r
<1>1. CASE RowKept(r)
  <2>1. r \in live /\ table[r].queued
    BY <1>1 DEF RowKept
  <2>2. CASE IsAsked(d)
    <3>1. d.key.run = run /\ pc = "step"
      BY <2>2, AskedNow
    <3>. QED  BY <2>1, <3>1 DEF HandInv
  <2>3. ASSUME NEW c \in commands, Becomes(c, d) PROVE d.key.run # r
    BY <2>1, <2>3 DEF Becomes, PassInv
  <2>. QED  BY <2>2, <2>3, CommandSteps
<1>2. CASE RowDequeued(r)
  <2>1. r \in Run /\ table[r] \in Row /\ Dequeue(r)
    BY <1>2, Basics DEF RowDequeued
  <2>2. table'[r] = [table[r] EXCEPT !.queued = FALSE]
    BY <2>1, Basics DEF Dequeue
  <2>3. table'[r].queued = FALSE
    BY <2>1, <2>2 DEF Row
  <2>. QED  BY <2>3
<1>3. CASE RowSaved(r)
  BY <1>3 DEF RowSaved, Save, HandInv
<1>4. CASE RowInserted(r)
  BY <1>4, NoneAsked DEF RowInserted
<1>. QED  BY <1>1, <1>2, <1>3, <1>4, LiveRows

LEMMA StepSentBy ==
  ASSUME ShapeInv, HandInv, CommandsInv, ResumedInv, PassInv, [Next]_vars, pc' = "step",
         NEW d \in commands', d.key.run = run', d.sent > clock'
  PROVE  /\ d.key.index < row'.next
         /\ \A i \in d.key.index..(row'.next - 1) : ActionOf(run, i)'.do \notin Suspending
<1>0. /\ pc \in {"check", "step"} /\ UNCHANGED <<run, clock, table>>
      /\ \/ Check /\ row' = row /\ ~TimedOut
         \/ pc = "step" /\ (Command \/ SetAutomationEnabled \/ (row' = row /\ ~Command))
  BY IntoStep
<1>1. PICK r \in 1..last, n \in Nat, t \in Nat : r = run /\ n = row.next /\ t = clock
  BY <1>0, Basics DEF HandInv
<1>2. \A i : ActionOf(r, i)' = ActionOf(r, i)
  BY ActionsStay
<1>3. CASE Check
  <2>1. PICK c \in commands : Becomes(c, d)
    BY <1>3, CommandSteps DEF IsAsked, Check, Command, At_
  <2>2. c.sent > clock /\ c.key.run = run /\ c.sent \in Nat
    BY <1>0, <2>1, Basics DEF Becomes
  <2>. QED  BY <1>1, <1>3, <2>2 DEF Check, PassInv, SentBy
<1>4. ASSUME pc = "step", NEW c \in commands, Becomes(c, d)
      PROVE  /\ d.key.index \in Nat /\ d.key.index < n
             /\ \A i \in d.key.index..(n - 1) : ActionOf(r, i).do \notin Suspending
  BY <1>0, <1>1, <1>4, Basics DEF Becomes, PassInv
<1>5. CASE pc = "step" /\ row' = row /\ ~Command
  <2>1. PICK c \in commands : Becomes(c, d)
    BY <1>5, CommandSteps DEF IsAsked
  <2>. QED  BY <1>0, <1>1, <1>2, <1>4, <1>5, <2>1
<1>6. CASE pc = "step" /\ (Command \/ SetAutomationEnabled)
  <2>1. /\ row'.next = n + 1 /\ Here.do \in Immediate /\ Here = ActionOf(r, n)
    <3>1. Advanced.next = row.next + 1 /\ row.flow = table[run].flow
      BY <1>6, Copies DEF HandInv
    <3>2. CASE Command
      <4>1. row' = Advanced /\ Here.do \in {"command", "reported", "retry"} /\ Here.do # "reported"
        BY <3>2, CommandRow
      <4>. QED  BY <1>1, <3>1, <4>1 DEF Here, ActionOf, Immediate
    <3>3. CASE SetAutomationEnabled
      <4>1. row' = Advanced /\ Here.do \in {"activate", "deactivate"}
        BY <3>3 DEF SetAutomationEnabled, At_
      <4>. QED  BY <1>1, <3>1, <4>1 DEF Here, ActionOf, Immediate
    <3>. QED  BY <1>6, <3>2, <3>3
  <2>2. ActionOf(r, n).do \notin Suspending
    BY <2>1 DEF Immediate, Suspending
  <2>3. d.key.index \in Nat /\ d.key.index <= n
        /\ \A i \in d.key.index..(n - 1) : ActionOf(r, i).do \notin Suspending
    <3>1. CASE IsAsked(d)
      BY <1>1, <3>1, AskedNow
    <3>2. CASE \E c \in commands : Becomes(c, d)
      BY <1>1, <1>4, <1>6, <3>2
    <3>. QED  BY <3>1, <3>2, CommandSteps
  <2>4. \A i \in d.key.index..n : i = n \/ i \in d.key.index..(n - 1)
    BY <2>3
  <2>5. \A i \in d.key.index..n : ActionOf(r, i).do \notin Suspending
    BY <2>2, <2>3, <2>4
  <2>6. row'.next - 1 = n /\ d.key.index < row'.next
    BY <2>1, <2>3
  <2>7. \A i : ActionOf(run, i)' = ActionOf(r, i)
    BY <1>0, <1>1, <1>2
  <2>8. \A i \in d.key.index..(row'.next - 1) : ActionOf(run, i)'.do \notin Suspending
    BY <2>5, <2>6, <2>7
  <2>. QED  BY <2>6, <2>8
<1>. QED  BY <1>0, <1>3, <1>5, <1>6

\* Whether two commands are parted does not change.
LEMMA PartedStays ==
  ASSUME ShapeInv, HandInv, CommandsInv, [Next]_vars,
         NEW c \in commands, NEW d, NEW x, NEW y, x.key = c.key, y.key = d.key, Parted(x, y)'
  PROVE  Parted(c, d)
<1>1. c.key.run \in 1..last
  BY DEF CommandsInv
<1>2. table'[c.key.run].flow = table[c.key.run].flow
  BY <1>1, FlowsStay
<1>. QED  BY <1>2 DEF Parted

\* Of what is asked now nothing that was asked before is parted.
LEMMA NewestLast ==
  ASSUME ShapeInv, HandInv, CommandsInv, ResumedInv, RetryInv, OrderInv, NEW d, IsAsked(d),
         NEW c \in commands
  PROVE  ~Parted(d, c)
<1> SUFFICES ASSUME c.key.run = run PROVE ~Parted(d, c)
  BY AskedNow DEF Parted
<1>1. /\ pc = "step" /\ d.key.run = run /\ d.key.index = row.next
      /\ Here.do \in {"command", "reported", "retry"} /\ Here = ActionOf(run, row.next)
      /\ d.key.attempt = IF Here.do = "retry" THEN row.retry + 1 ELSE 0
  BY AskedNow
<1>2. c.key.index <= row.next
  BY <1>1, NothingBeyond DEF IsAsked
<1>3. row.next \in Nat /\ c.key.index \in Nat /\ c.key.attempt \in Nat /\ row.retry \in Nat
  BY Basics
<1>4. ~ \E i \in d.key.index..(c.key.index - 1) : TRUE
  BY <1>1, <1>2, <1>3
<1>5. ASSUME c.key.index = d.key.index PROVE ~(d.key.attempt < c.key.attempt)
  <2>1. CASE Here.do = "retry"
    BY <1>1, <1>3, <1>5, <2>1, CountedAtHand DEF Counted, AttemptsUpTo
  <2>2. CASE Here.do # "retry"
    <3>1. ActionOf(c.key.run, c.key.index).do # "retry"
      BY <1>1, <1>5, <2>2
    <3>2. c.key.attempt = 0
      BY <3>1 DEF CommandsInv
    <3>. QED  BY <1>1, <2>2, <3>2
  <2>. QED  BY <2>1, <2>2
<1>. QED  BY <1>4, <1>5 DEF Parted

LEMMA PartedStep ==
  ASSUME ShapeInv, HandInv, CommandsInv, ResumedInv, RetryInv, OrderInv, PassInv, [Next]_vars,
         NEW x \in commands', NEW y \in commands', Parted(x, y)'
  PROVE  x.sent <= y.at
<1>1. ASSUME NEW c \in commands, Becomes(c, x), NEW d \in commands, Becomes(d, y)
      PROVE  x.sent <= y.at
  <2>1. Parted(c, d)
    BY <1>1, PartedStays DEF Becomes
  <2>. QED  BY <1>1, <2>1 DEF Becomes, PassInv
\* What is asked now is asked by a pass that began after all it is parted from.
<1>2. ASSUME NEW c \in commands, Becomes(c, x), IsAsked(y) PROVE x.sent <= y.at
  <2>1. Parted(c, y)
    BY <1>2, PartedStays DEF Becomes
  <2>2. /\ pc = "step" /\ y.key.run = run /\ y.key.index = row.next /\ y.at = clock
    BY <1>2, AskedNow
  <2>3. c.key.run = run /\ c.sent \in Nat /\ clock \in Nat /\ row.next \in Nat /\ c.key.index \in Nat
    BY <2>1, <2>2, Basics DEF Parted
  <2>4. ASSUME c.sent > clock PROVE FALSE
    <3>1. /\ c.key.index < row.next
          /\ \A i \in c.key.index..(row.next - 1) : ActionOf(run, i).do \notin Suspending
      BY <2>2, <2>3, <2>4 DEF PassInv
    <3>2. c.key.run = y.key.run /\ ~(c.key.index = y.key.index)
      BY <2>2, <2>3, <3>1
    <3>3. PICK i \in c.key.index..(y.key.index - 1) : Plan[table[c.key.run].flow][i].do \in Suspending
      BY <2>1, <3>2 DEF Parted
    <3>4. i \in c.key.index..(row.next - 1) /\ ActionOf(run, i).do \in Suspending
      BY <2>2, <2>3, <3>3 DEF ActionOf
    <3>. QED  BY <3>1, <3>4
  <2>. QED  BY <1>2, <2>2, <2>3, <2>4 DEF Becomes
<1>3. ASSUME IsAsked(x), NEW d \in commands, Becomes(d, y) PROVE FALSE
  <2>1. Parted(x, d)
    <3>1. x.key.run \in 1..last
      BY <1>3, AskedNow, Basics
    <3>2. table'[x.key.run].flow = table[x.key.run].flow
      BY <3>1, FlowsStay
    <3>. QED  BY <1>3, <3>2 DEF Parted, Becomes
  <2>. QED  BY <1>3, <2>1, NewestLast
<1>4. ASSUME IsAsked(x), IsAsked(y) PROVE FALSE
  <2>1. x.key = y.key
    BY <1>4 DEF IsAsked
  <2>2. /\ x.key.index = row.next
        /\ x.key.attempt = IF Here.do = "retry" THEN row.retry + 1 ELSE 0
    BY <1>4, AskedNow
  <2>3. row.next \in Nat /\ row.retry \in Nat
    BY Basics
  <2>4. x.key.index = y.key.index /\ x.key.attempt = y.key.attempt
        /\ x.key.index \in Nat /\ x.key.attempt \in Nat
    BY <2>1, <2>2, <2>3
  <2>. QED  BY <2>4 DEF Parted
<1>. QED  BY <1>1, <1>2, <1>3, <1>4, CommandSteps

LEMMA SentByNow ==
  ASSUME ShapeInv, HandInv, CommandsInv, PassInv, [Next]_vars, NEW d \in commands'
  PROVE  d.sent <= now'
<1>1. now \in Nat /\ (now' = now \/ now' = now + 1)
  BY Basics DEF Next, Engine, World, vars, world, Start, ReplayDone, TakeEvent, TakeTick, Resume,
     Dequeue, ListFlows, Claim, Admit, TraceCancelled, Check, Command, Pause,
     SetAutomationEnabled, Complete, Save, Drop, Trace, Done, Occur, Confirm, Update, Tick, Crash
<1>2. d.sent \in Nat /\ d.sent <= now
  <2>1. CASE IsAsked(d)
    BY <1>1, <2>1 DEF IsAsked
  <2>2. ASSUME NEW c \in commands, Becomes(c, d) PROVE d.sent \in Nat /\ d.sent <= now
    BY <2>2, Basics DEF Becomes, PassInv
  <2>. QED  BY <2>1, <2>2, CommandSteps
<1>. QED  BY <1>1, <1>2

LEMMA PassInvStep ==
  ASSUME ShapeInv, HandInv, CommandsInv, ResumedInv, RetryInv, OrderInv, PassInv, [Next]_vars
  PROVE  PassInv'
<1>1. \A c \in commands' : c.sent <= now'
  BY SentByNow
<1>2. \A r \in live' : table'[r].queued => \A c \in commands' : c.key.run # r
  BY QueuedSilent
<1>3. \A r \in work' : SentBy(r, clock)'
  BY WorkSentBy
<1>4. pc' \in {"replaced", "check"} => SentBy(run, clock)'
  BY CheckSentBy
<1>5. pc' = "step" => \A c \in commands' : c.key.run = run' /\ c.sent > clock' =>
        /\ c.key.index < row'.next
        /\ \A i \in c.key.index..(row'.next - 1) : ActionOf(run, i)'.do \notin Suspending
  BY StepSentBy
<1>6. \A c, d \in commands' : Parted(c, d)' => c.sent <= d.at
  BY PartedStep
<1>. QED  BY <1>1, <1>2, <1>3, <1>4, <1>5, <1>6 DEF PassInv

\* A run that is beyond its max-runtime never goes on after a suspension: what
\* it sent before one it went on after lies before its deadline, by the time of
\* the call, whatever late timers, events and deaths lie between.
THEOREM DeadlinesBind == Spec => []DeadlineIsKept
<1>1. RunInv /\ PassInv /\ [Next]_vars => PassInv'
  BY RunInvParts, PassInvStep
<1>2. RunInv /\ PassInv => DeadlineIsKept
  <2> SUFFICES ASSUME RunInv, PassInv, NEW c \in commands, NEW d \in commands, Parted(c, d)
               PROVE  c.sent < table[c.key.run].deadline
    BY DEF DeadlineIsKept
  <2>1. c.key.run = d.key.run /\ c.key.run \in Run
    BY RunInvParts, Basics DEF Parted, CommandsInv
  <2>2. c.sent <= d.at /\ d.at < table[d.key.run].deadline
    BY RunInvParts DEF PassInv, DeadlineInv
  <2>3. c.sent \in Nat /\ d.at \in Nat /\ table[c.key.run].deadline \in Nat
    BY <2>1, RunInvParts, Basics
  <2>. QED  BY <2>1, <2>2, <2>3
<1>. QED  BY RunAlways, PassInvInit, <1>1, <1>2, PTL DEF Spec
=============================================================================
