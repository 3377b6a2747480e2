----------------------------- MODULE EventEngine -----------------------------
(***************************************************************************)
(* How an event gets from the journal to the automations: the threads that *)
(* commit events and then publish them, the broadcast channel, and the     *)
(* task spawn_automation_engine with its durable cursor.                   *)
(*                                                                         *)
(* The channel is only a hint: after a start, and when the channel         *)
(* overflowed, the engine replays the journal from its cursor.  A live     *)
(* event at or below the cursor has been seen.                             *)
(*                                                                         *)
(* Abstractions.  An event is its sequence number.  Every event reports a  *)
(* state; one enabled flow is triggered by that state (it takes no claim)  *)
(* and one by the event (it is claimed first).  What a flow then does      *)
(* belongs to FlowRuns.  Retention, which deletes events 30 days old, is   *)
(* left out.  MaxEvents, MaxCommit and MaxCrashes bound the model.         *)
(***************************************************************************)
EXTENDS Naturals, Sequences

CONSTANTS
    Publisher,      \* threads that change the store and publish its events
    Capacity,       \* of the broadcast channel, 512 in the code
    Batch,          \* events read by one replay query, 100 in the code
    Faults,         \* which calls to the store may fail: "read", "save"
    MaxEvents,      \* bound: events ever committed
    MaxCommit,      \* bound: events of one transaction
    MaxCrashes      \* bound: deaths of the process

ASSUME ConstantsAssumption ==
    /\ Capacity \in Nat \ {0}
    /\ Batch \in Nat \ {0}
    /\ Faults \subseteq {"read", "save"}
    /\ MaxEvents \in Nat
    /\ MaxCommit \in Nat
    /\ MaxCrashes \in Nat

VARIABLES
    latest,         \* durable: last sequence number of the journal
    durable,        \* durable: automation_engine_cursor, 0 without a row
    seeded,         \* durable: automation_engine_cursor has a row
    claimed,        \* durable: events claimed for the event-triggered flow
    pending,        \* events a thread has committed and not yet published
    buffer,         \* events the engine's receiver has yet to take
    lagged,         \* the channel overwrote an event before it was taken
    cursor,         \* the cursor the task holds in memory
    todo,           \* events read and not yet finished, the current one first
    pc,             \* where the task is
    mode,           \* what it goes back to: "replay" or "live"
    crashes,
    failed,         \* history: a call of the engine to the store failed
    stateRuns,      \* history: runs of the state-triggered flow, per event
    eventRuns,      \* history: runs of the event-triggered flow, per event
    origin,         \* history: end of the journal when the cursor was created
    overtaken       \* history: events sent after a later one was

channel == <<pending, buffer, lagged>>
journal == <<latest, durable, seeded, claimed>>
task == <<cursor, todo, pc, mode>>
history == <<stateRuns, eventRuns, origin, overtaken>>
vars == <<latest, durable, seeded, claimed, pending, buffer, lagged, cursor, todo,
          pc, mode, crashes, failed, stateRuns, eventRuns, origin, overtaken>>

-----------------------------------------------------------------------------

Event == 1..MaxEvents

Place == {"down", "init", "seed", "replay", "state", "claim", "run", "save", "live"}

Greater(a, b) == IF a >= b THEN a ELSE b
Smaller(a, b) == IF a <= b THEN a ELSE b

\* n events that follow e in the journal.
After(e, n) == [i \in 1..n |-> e + i]

In(e, s) == \E i \in 1..Len(s) : s[i] = e

\* Committed before e and not yet sent.
Overtakes(e) == {f \in Event : f < e /\ \E p \in Publisher : In(f, pending[p])}

Init ==
    /\ latest = 0 /\ durable = 0 /\ seeded = FALSE /\ claimed = {}
    /\ pending = [p \in Publisher |-> <<>>]
    /\ buffer = <<>> /\ lagged = FALSE
    /\ cursor = 0 /\ todo = <<>> /\ pc = "down" /\ mode = "replay"
    /\ crashes = 0 /\ failed = FALSE
    /\ stateRuns = [e \in Event |-> 0]
    /\ eventRuns = [e \in Event |-> 0]
    /\ origin = 0
    /\ overtaken = {}

-----------------------------------------------------------------------------
(* The threads that change the store. *)

\* One transaction appends its events; the lock is released with them unsent.
Commit(p, n) ==
    /\ pending[p] = <<>>
    /\ latest + n <= MaxEvents
    /\ latest' = latest + n
    /\ pending' = [pending EXCEPT ![p] = After(latest, n)]
    /\ UNCHANGED <<durable, seeded, claimed, buffer, lagged, task, crashes, failed, history>>

\* The thread sends its next event.  A full channel forgets its oldest event;
\* without a receiver the event is dropped.
Publish(p) ==
    /\ pending[p] # <<>>
    /\ pending' = [pending EXCEPT ![p] = Tail(@)]
    /\ \/ /\ pc = "down"
          /\ UNCHANGED <<buffer, lagged, overtaken>>
       \/ /\ pc # "down"
          /\ overtaken' = overtaken \cup Overtakes(Head(pending[p]))
          /\ IF Len(buffer) < Capacity
             THEN /\ buffer' = Append(buffer, Head(pending[p]))
                  /\ UNCHANGED lagged
             ELSE /\ buffer' = Append(Tail(buffer), Head(pending[p]))
                  /\ lagged' = TRUE
    /\ UNCHANGED <<journal, task, crashes, failed, stateRuns, eventRuns, origin>>

-----------------------------------------------------------------------------
(* The engine: start. *)

\* The receiver exists before the cursor is read.
Subscribe ==
    /\ pc = "down"
    /\ pc' = "init"
    /\ UNCHANGED <<journal, channel, cursor, todo, mode, crashes, failed, history>>

\* A store with a cursor resumes from it, a store without one starts at the
\* end of the journal, and a failed read starts from the beginning.
LoadCursor ==
    /\ pc = "init"
    /\ \/ /\ seeded
          /\ cursor' = durable
          /\ pc' = "replay"
          /\ UNCHANGED <<origin, failed>>
       \/ /\ ~seeded
          /\ cursor' = latest
          /\ origin' = latest
          /\ pc' = "seed"
          /\ UNCHANGED failed
       \/ /\ "read" \in Faults
          /\ failed' = TRUE
          /\ cursor' = 0
          /\ pc' = "replay"
          /\ UNCHANGED origin
    /\ UNCHANGED <<journal, channel, todo, mode, crashes, stateRuns, eventRuns, overtaken>>

\* Mutant: the cursor is overwritten, not raised.
SaveCursorOverwrites(c) == durable' = c /\ seeded' = TRUE

\* save_automation_engine_cursor never lowers the cursor.
SaveCursor(c) == durable' = Greater(durable, c) /\ seeded' = TRUE

Seed ==
    /\ pc = "seed"
    /\ \/ SaveCursor(cursor) /\ UNCHANGED failed
       \/ "save" \in Faults /\ failed' = TRUE /\ UNCHANGED <<durable, seeded>>
    /\ pc' = "replay"
    /\ UNCHANGED <<latest, claimed, channel, cursor, todo, mode, crashes, history>>

-----------------------------------------------------------------------------
(* The engine: where the next event comes from. *)

\* One query of replay_automation_events: nothing left, or an error, ends the
\* replay.
ReadBatch ==
    /\ pc = "replay"
    /\ \/ /\ cursor < latest
          /\ todo' = After(cursor, Smaller(Batch, latest - cursor))
          /\ mode' = "replay"
          /\ pc' = "state"
          /\ UNCHANGED failed
       \/ /\ cursor >= latest
          /\ pc' = "live"
          /\ UNCHANGED <<todo, mode, failed>>
       \/ /\ "read" \in Faults
          /\ failed' = TRUE
          /\ pc' = "live"
          /\ UNCHANGED <<todo, mode>>
    /\ UNCHANGED <<journal, channel, cursor, crashes, history>>

\* Mutant: an event already replayed is taken again from the channel.
SeenNever(e) == FALSE

\* Mutant: an off-by-one in the comparison with the cursor.
SeenOffByOne(e) == e <= cursor + 1

\* A live event at or below the cursor was already handled.
Seen(e) == e <= cursor

Receive ==
    /\ pc = "live" /\ ~lagged /\ buffer # <<>>
    /\ buffer' = Tail(buffer)
    /\ \/ /\ Seen(Head(buffer))
          /\ UNCHANGED <<todo, mode, pc>>
       \/ /\ ~Seen(Head(buffer))
          /\ todo' = <<Head(buffer)>>
          /\ mode' = "live"
          /\ pc' = "state"
    /\ UNCHANGED <<journal, pending, lagged, cursor, crashes, failed, history>>

\* Mutant: the engine goes on with what is left in the channel.
LaggedIgnored ==
    /\ pc = "live" /\ lagged
    /\ lagged' = FALSE
    /\ UNCHANGED <<pc, journal, pending, buffer, cursor, todo, mode, crashes, failed, history>>

\* RecvError::Lagged: the receiver is moved to the oldest event left, and the
\* engine replays the journal.
Lagged ==
    /\ pc = "live" /\ lagged
    /\ lagged' = FALSE
    /\ pc' = "replay"
    /\ UNCHANGED <<journal, pending, buffer, cursor, todo, mode, crashes, failed, history>>

-----------------------------------------------------------------------------
(* The engine: one event. *)

\* execute_state_triggered: no reservation guards it.
RunStateFlows ==
    /\ pc = "state"
    /\ stateRuns' = [stateRuns EXCEPT ![Head(todo)] = @ + 1]
    /\ pc' = "claim"
    /\ UNCHANGED <<journal, channel, cursor, todo, mode, crashes, failed, eventRuns, origin, overtaken>>

\* claim_flow_trigger: a transaction of its own, before the flow runs.
Claim ==
    /\ pc = "claim"
    /\ claimed' = claimed \cup {Head(todo)}
    /\ pc' = IF Head(todo) \in claimed THEN "save" ELSE "run"
    /\ UNCHANGED <<latest, durable, seeded, channel, cursor, todo, mode, crashes, failed, history>>

RunEventFlows ==
    /\ pc = "run"
    /\ eventRuns' = [eventRuns EXCEPT ![Head(todo)] = @ + 1]
    /\ pc' = "save"
    /\ UNCHANGED <<journal, channel, cursor, todo, mode, crashes, failed, stateRuns, origin, overtaken>>

\* Mutant: the end of a batch is not noticed.
NextPlaceInBatch(rest) == "state"

\* The next event of the batch, or back to where the batch came from.
NextPlace(rest) == IF rest # <<>> THEN "state" ELSE mode

\* The event is behind the cursor, in memory and then in the store.  A failed
\* save ends a replay with the rest of its batch unread.
Save ==
    /\ pc = "save"
    /\ cursor' = Head(todo)
    /\ \/ /\ SaveCursor(Head(todo))
          /\ todo' = Tail(todo)
          /\ pc' = NextPlace(Tail(todo))
          /\ UNCHANGED failed
       \/ /\ "save" \in Faults
          /\ failed' = TRUE
          /\ UNCHANGED <<durable, seeded>>
          /\ todo' = <<>>
          /\ pc' = "live"
    /\ UNCHANGED <<latest, claimed, channel, mode, crashes, history>>

\* The process dies: threads, channel and task are gone.
Crash ==
    /\ crashes < MaxCrashes
    /\ crashes' = crashes + 1
    /\ pending' = [p \in Publisher |-> <<>>]
    /\ buffer' = <<>> /\ lagged' = FALSE
    /\ cursor' = 0 /\ todo' = <<>> /\ pc' = "down" /\ mode' = "replay"
    /\ UNCHANGED <<journal, failed, history>>

-----------------------------------------------------------------------------

Engine ==
    \/ Subscribe \/ LoadCursor \/ Seed \/ ReadBatch \/ Receive \/ Lagged
    \/ RunStateFlows \/ Claim \/ RunEventFlows \/ Save

Next ==
    \/ \E p \in Publisher : Publish(p) \/ \E n \in 1..MaxCommit : Commit(p, n)
    \/ Engine
    \/ Crash

Spec == Init /\ [][Next]_vars

\* A thread that committed goes on to publish, the task is scheduled, and a
\* process that died is started again; whether events come is up to the home.
FairSpec ==
    /\ Spec
    /\ WF_vars(Engine)
    /\ \A p \in Publisher : WF_vars(Publish(p))

-----------------------------------------------------------------------------
(* Correctness. *)

TypeOK ==
    /\ latest \in 0..MaxEvents /\ durable \in 0..MaxEvents /\ cursor \in 0..MaxEvents
    /\ seeded \in BOOLEAN /\ lagged \in BOOLEAN
    /\ claimed \subseteq Event
    /\ pending \in [Publisher -> Seq(Event)]
    /\ buffer \in Seq(Event)
    /\ todo \in Seq(Event)
    /\ pc \in Place
    /\ pc \in {"state", "claim", "run", "save"} => todo # <<>>
    /\ mode \in {"replay", "live"}
    /\ crashes \in 0..MaxCrashes /\ failed \in BOOLEAN
    /\ stateRuns \in [Event -> Nat]
    /\ eventRuns \in [Event -> Nat]
    /\ origin \in 0..MaxEvents
    /\ overtaken \subseteq Event

\* The state-triggered flow ran for e and the event-triggered one reserved it,
\* or e was in the journal before the engine was installed.
Handled(e) == e <= origin \/ (stateRuns[e] >= 1 /\ e \in claimed)

PassedIsHandled == \A e \in Event : e <= durable => Handled(e) \/ e \in overtaken

\* An event that the durable cursor has passed was handled, whatever crashes,
\* overflows of the channel and unpublished events came in between
\* (automation/0002: the engine replays the journal in order from its cursor),
\* unless a thread sent it after another one had sent a later event, or a call
\* of the engine to the store failed: these are the two ways to lose an event.
OnlyOvertakenSkipped == ~failed => PassedIsHandled

\* Between two deaths of the process no event is run twice, however many times
\* it is replayed and received, whatever fails and whoever publishes.
OnceBetweenCrashes == \A e \in Event : stateRuns[e] <= 1 + crashes

\* The reservation holds across deaths, replays and failed saves: the flow
\* triggered by an event runs at most once for it.
EventFlowsRunOnce == \A e \in Event : eventRuns[e] <= 1

\* What the store remembers as handled is never forgotten, even by an engine
\* that failed to read its cursor and started again from the beginning.
CursorNeverGoesBack == [][durable' >= durable /\ (seeded => seeded')]_vars

\* Every event reaches the automations, even if the thread that committed it
\* died before it published it, unless it was overtaken or the store failed:
\* again and again the engine has caught up with the journal.
EveryEventHandled ==
    []<>(failed \/ \A e \in 1..latest : Handled(e) \/ e \in overtaken)

-----------------------------------------------------------------------------
(* What the documentation says and the code does not keep. *)

\* automation/0002: after a restart or a lag the engine replays the journal in
\* order from its cursor, then deduplicates what it has seen.  Nothing behind
\* the cursor would be missing.
NothingSkipped == \A e \in Event : e <= durable => Handled(e)
=============================================================================
