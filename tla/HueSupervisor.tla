---------------------------- MODULE HueSupervisor ----------------------------
(***************************************************************************)
(* The supervision of a Hue bridge: the thread that listens to its event   *)
(* stream, marks its devices unavailable when the stream is lost, waits,   *)
(* and synchronises them again.  The administrator may synchronise at any  *)
(* time and the user remove a device, while the thread does all this.      *)
(*                                                                         *)
(* A synchronisation reads the inventory and registers its lights one      *)
(* transaction after the other: it may fail after some of them.            *)
(*                                                                         *)
(* Abstractions.  The registry is Registry's.  Pairing and the start of    *)
(* the process both are a first synchronisation that ends with a listener. *)
(* Reported states belong to CommandLifecycle.  Delays are milliseconds;   *)
(* Saturation is the largest value of the failure counter, 255 in the code.*)
(***************************************************************************)
EXTENDS Registry

CONSTANTS
    Bridge,             \* the adapter of the bridge
    Saturation,
    MaxLosses           \* bound: streams lost

ASSUME SupervisorAssumption ==
    /\ Bridge \in Adapter
    /\ Saturation \in Nat \ {0} /\ MaxLosses \in Nat

VARIABLES
    listener,           \* what the supervising thread is at
    todo,               \* lights each synchronisation still has to register
    failures,           \* consecutive_failures
    pause,              \* the delay under way
    losses,             \* bound
    disturbed           \* history: the marks are not to be relied on

supervisorVars == <<listener, todo, failures, pause, losses, disturbed>>

-----------------------------------------------------------------------------

Worker == {"thread", "administrator"}
Lights == {d \in Device : AdapterOf[d] = Bridge}
Working(w) == todo[w].at = "registering"
Synchronising(S) == [at |-> "registering", lights |-> S]
NotWorking == [at |-> "idle", lights |-> {}]

Initial == 1000
Maximum == 60000
AtMost(x, y) == IF x < y THEN x ELSE y

\* HueReconnectBackoff::delay: doubled by each failure up to the maximum.
Base(n) == AtMost(Initial * 2^AtMost(n - 1, 63), Maximum)

\* Mutant: the fifth comes after the maximum.
DelaysAboveMaximum(n) == {Base(n), Base(n) + Base(n) \div 5}

\* Then up to a fifth more, but never more than the maximum.
Delays(n) == {Base(n), Base(n) + AtMost(Base(n) \div 5, Maximum - Base(n))}

SupervisorInit ==
    /\ listener = "off"
    /\ todo = [w \in Worker |-> NotWorking]
    /\ failures = 0 /\ pause = 0 /\ losses = 0
    /\ disturbed = FALSE

\* pair, or restore_paired_bridges: the inventory is read.
StartBridge(S) ==
    /\ listener = "off"
    /\ listener' = "starting"
    /\ todo' = [todo EXCEPT !["thread"] = Synchronising(S)]
    /\ UNCHANGED <<registryVars, failures, pause, losses, disturbed>>

\* HueAdministration::synchronize, once a bridge is active.
AdministratorSynchronises(S) ==
    /\ listener \notin {"off", "starting"}
    /\ ~Working("administrator")
    /\ todo' = [todo EXCEPT !["administrator"] = Synchronising(S)]
    /\ UNCHANGED <<registryVars, listener, failures, pause, losses, disturbed>>

\* One light of an inventory, in a transaction of its own.
RegisterLightOf(w, d, name) ==
    /\ d \in todo[w].lights
    /\ RegisterDiscovery(d, {e \in Entity : Owner[e] = d}, name)
    /\ todo' = [todo EXCEPT ![w].lights = @ \ {d}]
    /\ disturbed' = (disturbed \/ w = "administrator")
    /\ UNCHANGED <<listener, failures, pause, losses>>

\* The end of a synchronisation: the thread goes (back) to the stream; a pairing
\* may still fail to save the bridge.
FinishSynchronisation(w) ==
    /\ Working(w) /\ todo[w].lights = {}
    /\ UpsertAdapterHealth(Bridge, "available")
    /\ todo' = [todo EXCEPT ![w] = NotWorking]
    /\ IF w = "thread"
          THEN listener' \in {"listening"} \cup (IF listener = "starting" THEN {"off"} ELSE {})
          ELSE UNCHANGED listener
    /\ UNCHANGED <<failures, pause, losses, disturbed>>

Increment(n) == AtMost(n + 1, Saturation)

\* Mutant: nothing is marked after a synchronisation that failed half way.
FailSynchronisationUnmarked(w) ==
    /\ Working(w)
    /\ todo' = [todo EXCEPT ![w] = NotWorking]
    /\ IF w = "thread" /\ listener = "syncing"
          THEN /\ listener' = "waiting" /\ failures' = Increment(failures)
               /\ pause' \in Delays(failures')
          ELSE /\ listener' = IF w = "thread" THEN "off" ELSE listener
               /\ UNCHANGED <<failures, pause>>
    /\ UNCHANGED <<registryVars, losses, disturbed>>

\* A synchronisation fails before its end, with some lights registered.  The
\* thread counts the failure and marks the devices (again).
FailSynchronisation(w) ==
    /\ Working(w)
    /\ todo' = [todo EXCEPT ![w] = NotWorking]
    /\ IF w = "thread" /\ listener = "syncing"
          THEN listener' = "lost" /\ failures' = Increment(failures)
          ELSE /\ listener' = IF w = "thread" THEN "off" ELSE listener
               /\ UNCHANGED failures
    /\ UNCHANGED <<registryVars, pause, losses, disturbed>>

\* The stream ends, an event cannot be parsed or names a light nobody knows.  A
\* connection that lasted starts the count anew.
LoseStream ==
    /\ listener = "listening"
    /\ losses < MaxLosses
    /\ listener' = "lost"
    /\ failures' \in {1, Increment(failures)}
    /\ losses' = losses + 1
    /\ UNCHANGED <<registryVars, todo, pause, disturbed>>

\* mark_event_stream_disconnected, first transaction.  If it fails the second
\* does not take place, and nobody hears of it.
MarkDevices ==
    /\ listener = "lost"
    /\ \/ /\ SetAdapterDevicesStatus(Bridge, "unavailable")
          /\ listener' = "marked" /\ disturbed' = FALSE
          /\ UNCHANGED pause
       \/ /\ UNCHANGED registryVars
          /\ listener' = "waiting" /\ disturbed' = TRUE
          /\ pause' \in Delays(failures)
    /\ UNCHANGED <<todo, failures, losses>>

MarkHealth ==
    /\ listener = "marked"
    /\ UpsertAdapterHealth(Bridge, "degraded") \/ UNCHANGED registryVars
    /\ listener' = "waiting"
    /\ pause' \in Delays(failures)
    /\ UNCHANGED <<todo, failures, losses, disturbed>>

\* The delay is over; the inventory is read, or cannot be.
Resume(S) ==
    /\ listener = "waiting"
    /\ listener' = "syncing"
    /\ pause' = 0
    /\ todo' = [todo EXCEPT !["thread"] = Synchronising(S)]
    /\ UNCHANGED <<registryVars, failures, losses, disturbed>>

ResumeInVain ==
    /\ listener = "waiting"
    /\ listener' = "lost"
    /\ pause' = 0
    /\ failures' = Increment(failures)
    /\ UNCHANGED <<registryVars, todo, losses, disturbed>>

\* The process dies; the registry stays as it is.
SupervisorCrash ==
    /\ listener # "off"
    /\ listener' = "off"
    /\ todo' = [w \in Worker |-> NotWorking]
    /\ failures' = 0 /\ pause' = 0 /\ disturbed' = FALSE
    /\ UNCHANGED <<registryVars, losses>>

SupervisorNext ==
    \/ \E S \in SUBSET Lights : StartBridge(S) \/ AdministratorSynchronises(S) \/ Resume(S)
    \/ \E w \in Worker : \/ \E d \in Lights, name \in GivenName : RegisterLightOf(w, d, name)
                         \/ FinishSynchronisation(w) \/ FailSynchronisation(w)
    \/ LoseStream \/ MarkDevices \/ MarkHealth \/ ResumeInVain \/ SupervisorCrash
    \/ \E d \in Lights : RemoveDevice(d) /\ UNCHANGED supervisorVars

SupervisorSpec ==
    /\ RegistryInit /\ SupervisorInit
    /\ [][SupervisorNext]_<<registryVars, supervisorVars>>

-----------------------------------------------------------------------------
(* Properties. *)

\* The thread waits at least the initial and at most the maximum delay.
SupervisorTypeOK ==
    /\ listener \in {"off", "starting", "listening", "lost", "marked", "waiting", "syncing"}
    /\ todo \in [Worker -> [at : {"idle", "registering"}, lights : SUBSET Lights]]
    /\ failures \in 0..Saturation
    /\ pause \in IF listener = "waiting" THEN Initial..Maximum ELSE {0}
    /\ losses \in 0..MaxLosses
    /\ disturbed \in BOOLEAN

\* The last reported state stays readable, but no new command is admitted: while
\* the thread waits to try again, whatever a synchronisation that failed had
\* registered and however often it failed, every light is unavailable, unless
\* the mark itself failed or the administrator has synchronised since.
WaitingMeansUnavailable ==
    listener \in {"marked", "waiting"} /\ ~disturbed =>
        \A d \in OfAdapter(Bridge) : devices[d].status # "available"
=============================================================================
