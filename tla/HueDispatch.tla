----------------------------- MODULE HueDispatch -----------------------------
(***************************************************************************)
(* HueCommandDispatcher: calls of dispatch from several threads to one     *)
(* bridge.  Each stages its value for a property of a light, lets a short  *)
(* window pass in which a later call may take its place, reserves a slot   *)
(* of the rate gate, sleeps until the slot and sends the value if it still *)
(* is the staged one.                                                      *)
(*                                                                         *)
(* Abstractions.  A key stands for a light and one of its properties; the  *)
(* value of a call is its revision.  Durations are instants of one clock.  *)
(* A thread may wake up late, and the bridge may take its time to answer.  *)
(* A call without a route, or with a value Hue cannot take, ends before it *)
(* touches this state.  What the caller makes of the answer belongs to     *)
(* CommandLifecycle.  MaxCalls and MaxHueTime bound the model.             *)
(***************************************************************************)
EXTENDS Naturals

CONSTANTS
    Thread,         \* threads that call dispatch
    Key,            \* HueDispatchKey: a light and a property
    Interval,       \* minimum_light_interval
    Coalesce,       \* coalesce_window
    Deadline,       \* queue_deadline
    MaxCalls,       \* bound: calls of dispatch
    MaxHueTime      \* bound: last instant of the model

ASSUME HuePolicyAssumption ==
    /\ {Interval, Coalesce, Deadline} \subseteq Nat \ {0}
    /\ MaxCalls \in Nat /\ MaxHueTime \in Nat

VARIABLES
    hueClock,
    routes,         \* keys whose light the synchronisation has registered
    hueRevision,    \* AtomicU64: revisions given out
    staged,         \* pending: the revision of each key, 0 for none
    nextLightAt,    \* the rate gate
    calls,          \* what each thread is at
    lastStaged,     \* history: the last revision staged for each key
    slots           \* history: the slots reserved, and when they were

hueVars == <<hueClock, routes, hueRevision, staged, nextLightAt, calls, lastStaged, slots>>

-----------------------------------------------------------------------------

HueRevision == 1..MaxCalls
Resting == [at |-> "resting"]
CallOf(at, key, rev, until) == [at |-> at, key |-> key, revision |-> rev, until |-> until]

Current(t) == staged[calls[t].key] = calls[t].revision

HueInit ==
    /\ hueClock = 0
    /\ routes = {}
    /\ hueRevision = 0
    /\ staged = [k \in Key |-> 0]
    /\ nextLightAt = 0
    /\ calls = [t \in Thread |-> Resting]
    /\ lastStaged = [k \in Key |-> 0]
    /\ slots = {}

RegisterLight(k) ==
    /\ routes' = routes \cup {k}
    /\ UNCHANGED <<hueClock, hueRevision, staged, nextLightAt, calls, lastStaged, slots>>

\* stage_pending, first half: the revision is taken without the lock ...
TakeRevision(t, k) ==
    /\ calls[t] = Resting
    /\ k \in routes
    /\ hueRevision < MaxCalls
    /\ hueRevision' = hueRevision + 1
    /\ calls' = [calls EXCEPT ![t] = CallOf("staging", k, hueRevision + 1, 0)]
    /\ UNCHANGED <<hueClock, routes, staged, nextLightAt, lastStaged, slots>>

\* ... and the value inserted under it, so a lower revision may come later.
StagePending(t) ==
    /\ calls[t].at = "staging"
    /\ staged' = [staged EXCEPT ![calls[t].key] = calls[t].revision]
    /\ lastStaged' = [lastStaged EXCEPT ![calls[t].key] = calls[t].revision]
    /\ calls' = [calls EXCEPT ![t].at = "coalescing", ![t].until = hueClock + Coalesce]
    /\ UNCHANGED <<hueClock, routes, hueRevision, nextLightAt, slots>>

\* Mutant: whoever ends empties the place.
RemoveAny(t) == staged' = [staged EXCEPT ![calls[t].key] = 0]

RemoveIfCurrent(t) ==
    staged' = IF Current(t) THEN [staged EXCEPT ![calls[t].key] = 0] ELSE staged

\* The window is over and a later call has taken the place.
SupersededInWindow(t) ==
    /\ calls[t].at = "coalescing" /\ calls[t].until <= hueClock
    /\ ~Current(t)
    /\ calls' = [calls EXCEPT ![t] = Resting]
    /\ UNCHANGED <<hueClock, routes, hueRevision, staged, nextLightAt, lastStaged, slots>>

\* The window is over and the value is still the one to send.
PassWindow(t) ==
    /\ calls[t].at = "coalescing" /\ calls[t].until <= hueClock
    /\ Current(t)
    /\ calls' = [calls EXCEPT ![t].at = "reserving"]
    /\ UNCHANGED <<hueClock, routes, hueRevision, staged, nextLightAt, lastStaged, slots>>

Scheduled == IF nextLightAt < hueClock THEN hueClock ELSE nextLightAt

\* Mutant: the interval counts from the last slot, however long ago it was.
SlotAfterLast == nextLightAt + Interval

SlotAfter == Scheduled + Interval

\* HueRateGate::reserve.
Reserve(t) ==
    /\ calls[t].at = "reserving"
    /\ Scheduled - hueClock <= Deadline
    /\ nextLightAt' = SlotAfter
    /\ slots' = slots \cup {[revision |-> calls[t].revision, at |-> Scheduled, asked |-> hueClock]}
    /\ calls' = [calls EXCEPT ![t].at = "sleeping", ![t].until = Scheduled]
    /\ UNCHANGED <<hueClock, routes, hueRevision, staged, lastStaged>>

DeadlineExceeded(t) ==
    /\ calls[t].at = "reserving"
    /\ Scheduled - hueClock > Deadline
    /\ RemoveIfCurrent(t)
    /\ calls' = [calls EXCEPT ![t] = Resting]
    /\ UNCHANGED <<hueClock, routes, hueRevision, nextLightAt, lastStaged, slots>>

SupersededInQueue(t) ==
    /\ calls[t].at = "sleeping" /\ calls[t].until <= hueClock
    /\ ~Current(t)
    /\ RemoveIfCurrent(t)
    /\ calls' = [calls EXCEPT ![t] = Resting]
    /\ UNCHANGED <<hueClock, routes, hueRevision, nextLightAt, lastStaged, slots>>

Send(t) ==
    /\ calls[t].at = "sleeping" /\ calls[t].until <= hueClock
    /\ Current(t)
    /\ calls' = [calls EXCEPT ![t].at = "sending"]
    /\ UNCHANGED <<hueClock, routes, hueRevision, staged, nextLightAt, lastStaged, slots>>

\* The bridge has accepted or refused the value.
Answered(t) ==
    /\ calls[t].at = "sending"
    /\ RemoveIfCurrent(t)
    /\ calls' = [calls EXCEPT ![t] = Resting]
    /\ UNCHANGED <<hueClock, routes, hueRevision, nextLightAt, lastStaged, slots>>

HueTick ==
    /\ hueClock < MaxHueTime
    /\ hueClock' = hueClock + 1
    /\ UNCHANGED <<routes, hueRevision, staged, nextLightAt, calls, lastStaged, slots>>

HueNext ==
    \/ \E k \in Key : RegisterLight(k)
    \/ \E t \in Thread :
          \/ \E k \in Key : TakeRevision(t, k)
          \/ StagePending(t) \/ SupersededInWindow(t) \/ PassWindow(t)
          \/ Reserve(t) \/ DeadlineExceeded(t)
          \/ SupersededInQueue(t) \/ Send(t) \/ Answered(t)
    \/ HueTick

HueSpec == HueInit /\ [][HueNext]_hueVars

-----------------------------------------------------------------------------
(* Properties. *)

CallPlace == {"staging", "coalescing", "reserving", "sleeping", "sending"}

HueTypeOK ==
    /\ hueClock \in Nat
    /\ routes \subseteq Key
    /\ hueRevision \in 0..MaxCalls
    /\ staged \in [Key -> 0..MaxCalls]
    /\ nextLightAt \in Nat
    /\ calls \in [Thread -> {Resting} \cup
                    [at : CallPlace, key : Key, revision : HueRevision, until : Nat]]
    /\ lastStaged \in [Key -> 0..MaxCalls]
    /\ slots \subseteq [revision : HueRevision, at : Nat, asked : Nat]

\* A call whose value is in the table of pending values.
Pending(t) == calls[t].at \in CallPlace \ {"staging"}

\* A newer value replaces an older one, never the other way round: while the
\* call that staged last for a property waits, its value stays in its place,
\* however late the older calls end; and no value outlives the call that
\* staged it, to stand in the way of the next one.
LastStagedWins ==
    /\ \A t \in Thread :
          Pending(t) /\ lastStaged[calls[t].key] = calls[t].revision => Current(t)
    /\ \A k \in Key : staged[k] # 0 =>
          \E t \in Thread : Pending(t) /\ calls[t].key = k /\ calls[t].revision = staged[k]

\* Conservative maximum of the bridge: whatever threads ask at the same time and
\* however long the bridge was idle, slots are an interval apart, and none is
\* further ahead than the deadline of the queue.
SlotsAreSpaced ==
    /\ \A x, y \in slots : x # y => x.at + Interval <= y.at \/ y.at + Interval <= x.at
    /\ \A x \in slots : x.asked <= x.at /\ x.at <= x.asked + Deadline
=============================================================================
