-------------------------- MODULE CommandLifecycle ---------------------------
(***************************************************************************)
(* The life of a command in Robine: HomeService::request_command run by    *)
(* concurrent callers (HTTP, MCP, the automation engine), the states that  *)
(* adapters report, the periodic expirer, the availability of devices, and *)
(* the crash of the process.                                               *)
(*                                                                         *)
(* The store is one Mutex<Connection>: every method of SqliteStore is one  *)
(* transaction and therefore one action here.  Between two calls to the    *)
(* store a caller holds nothing, so any other actor may run.               *)
(*                                                                         *)
(* Abstractions.  A device has one entity and one property, all devices    *)
(* belong to one adapter.  The journal keeps one entry per transaction,    *)
(* the set of state and command events it appended; device events and the  *)
(* broadcast of events after commit are left to other modules.  Time is a  *)
(* counter.  MaxTime and MaxVersion bound the model, not the code.         *)
(***************************************************************************)
EXTENDS Naturals, Sequences

CONSTANTS
    Caller,         \* calls of request_command; each runs once
    IdemKey,        \* idempotency keys
    Entity,         \* entities, one per device
    Value,          \* values of the property
    Timeout,        \* age at which the expirer gives up, 30 s in the code
    ScanLimit,      \* rows the expirer reads, 100 in the code
    MaxTime,        \* bound: last instant of the model
    MaxVersion,     \* bound: reports applied to one entity
    MaxCommands,    \* bound: commands a liveness property speaks of
    Availability    \* bound: device statuses the instance lets occur

ASSUME ConstantsAssumption ==
    /\ Timeout \in Nat
    /\ ScanLimit \in Nat
    /\ MaxTime \in Nat
    /\ MaxVersion \in Nat
    /\ MaxCommands \in Nat
    /\ Value # {}
    /\ Availability \subseteq {"available", "unavailable", "removed"}

VARIABLES
    commands,       \* durable: table commands, in rowid order
    state,          \* durable: table entity_state
    device,         \* durable: status of the device of each entity
    journal,        \* durable: table events, one entry per transaction
    delivered,      \* external: commands the adapter received, by key
    now,            \* Utc::now()
    ask,            \* the arguments of each call
    pc,             \* where each call is
    at,             \* the now captured when the call began
    row             \* the row the call created, 0 before

store == <<commands, state, device, journal>>
calls == <<ask, pc, at, row>>
vars == <<commands, state, device, journal, delivered, now, ask, pc, at, row>>

-----------------------------------------------------------------------------
(* The data. *)

Time == 0..MaxTime

Request == [key : IdemKey, entity : Entity, value : Value]

CommandStatus == {"requested", "dispatched", "confirmed", "failed", "expired"}

Pending == {"requested", "dispatched"}

Settled == CommandStatus \ Pending

Command == [key : IdemKey, entity : Entity, value : Value, at : Time,
            status : CommandStatus]

StateProperty == [value : Value, at : Time, version : Nat]

DeviceStatus == {"available", "unavailable", "removed"}

\* What one transaction appends: at most one state.reported event, and the
\* new status of some commands.
Entry == [reports : SUBSET [entity : Entity, value : Value, at : Time, version : Nat],
          changes : SUBSET [row : Nat, status : CommandStatus]]

Running == {"checked", "admitted", "created", "sent", "refused"}

\* "accepted" and "failed" acknowledge a dispatch, "existing" returns the
\* command found under the key, "rejected" and "conflict" are errors raised
\* before any dispatch, "lost" is a call that died with the process.
Returned == {"accepted", "failed", "existing", "rejected", "conflict", "lost"}

CallState == {"new"} \cup Running \cup Returned

Rows == 1..Len(commands)

\* The rows find_command_by_idempotency would select.
Found(k) == {i \in Rows : commands[i].key = k}

\* entity_state without a row is version 0; its value is never read.
NoState == [value |-> CHOOSE v \in Value : TRUE, at |-> 0, version |-> 0]

SetStatus(S, s) ==
    [i \in Rows |-> IF i \in S THEN [commands[i] EXCEPT !.status = s] ELSE commands[i]]

Changed(S, s) == {[row |-> i, status |-> s] : i \in S}

Log(reports, changes) ==
    journal' = Append(journal, [reports |-> reports, changes |-> changes])

-----------------------------------------------------------------------------
(* The initial state: a fresh store with a registered, available device    *)
(* per entity, and every combination of requests the callers may make.     *)

Init ==
    /\ commands = <<>>
    /\ state = [e \in Entity |-> NoState]
    /\ device = [e \in Entity |-> "available"]
    /\ journal = <<>>
    /\ delivered = [k \in IdemKey |-> 0]
    /\ now = 0
    /\ ask \in [Caller -> Request]
    /\ pc = [c \in Caller |-> "new"]
    /\ at = [c \in Caller |-> 0]
    /\ row = [c \in Caller |-> 0]

-----------------------------------------------------------------------------
(* request_command, step by step. *)

\* The call reads the clock and looks its key up: a known key ends the call.
\* The bound: calls begin early enough for their expiry to be in the model.
Lookup(c) ==
    /\ pc[c] = "new"
    /\ now + Timeout < MaxTime
    /\ at' = [at EXCEPT ![c] = now]
    /\ pc' = [pc EXCEPT ![c] = IF Found(ask[c].key) = {} THEN "checked" ELSE "existing"]
    /\ UNCHANGED <<store, delivered, now, ask, row>>

\* is_entity_commandable: only an available device accepts commands.
Check(c) ==
    /\ pc[c] = "checked"
    /\ pc' = [pc EXCEPT ![c] =
                 IF device[ask[c].entity] = "available" THEN "admitted" ELSE "rejected"]
    /\ UNCHANGED <<store, delivered, now, ask, at, row>>

\* Mutant: the table has no UNIQUE constraint on idempotency_key.
KeyIsFreeWithoutConstraint(k) == TRUE

\* The UNIQUE constraint of commands.idempotency_key.
KeyIsFree(k) == Found(k) = {}

\* The row a call inserts.
RowOf(c) == [key |-> ask[c].key, entity |-> ask[c].entity, value |-> ask[c].value,
             at |-> at[c], status |-> "requested"]

\* create_command: the row and its event in one transaction, or the
\* constraint fails and the call ends in error.
Create(c) ==
    /\ pc[c] = "admitted"
    /\ \/ /\ KeyIsFree(ask[c].key)
          /\ commands' = Append(commands, RowOf(c))
          /\ row' = [row EXCEPT ![c] = Len(commands) + 1]
          /\ Log({}, Changed({Len(commands) + 1}, "requested"))
          /\ pc' = [pc EXCEPT ![c] = "created"]
       \/ /\ ~KeyIsFree(ask[c].key)
          /\ pc' = [pc EXCEPT ![c] = "conflict"]
          /\ UNCHANGED <<commands, row, journal>>
    /\ UNCHANGED <<state, device, delivered, now, ask, at>>

\* CommandDispatcher::dispatch, outside any lock: the adapter gets the
\* command.  Nothing is read from the store again.
Deliver(c) ==
    /\ pc[c] = "created"
    /\ delivered' = [delivered EXCEPT ![ask[c].key] = @ + 1]
    /\ pc' = [pc EXCEPT ![c] = "sent"]
    /\ UNCHANGED <<store, now, ask, at, row>>

\* The adapter reports an error, before or after the device acted (a time
\* limit on the answer, a command superseded while it waited).
Refuse(c) ==
    /\ pc[c] \in {"created", "sent"}
    /\ pc' = [pc EXCEPT ![c] = "refused"]
    /\ UNCHANGED <<store, delivered, now, ask, at, row>>

\* Mutant: the row is updated but the event of the transition is not written.
TransitionWithoutEvent(i, s) ==
    /\ commands' = SetStatus({i}, s)
    /\ UNCHANGED journal

\* transition_command: the status is overwritten whatever it is by now.
Transition(i, s) ==
    /\ commands' = SetStatus({i}, s)
    /\ Log({}, Changed({i}, s))

\* Mutant: the answer of the call is written as the status of the command.
AckWithAnswerAsStatus(c) ==
    /\ pc[c] = "sent"
    /\ Transition(row[c], "accepted")
    /\ pc' = [pc EXCEPT ![c] = "accepted"]
    /\ UNCHANGED <<state, device, delivered, now, ask, at, row>>

\* The call records Dispatched after Ok, Failed after Err, and returns.
Ack(c) ==
    /\ \/ /\ pc[c] = "sent"
          /\ Transition(row[c], "dispatched")
          /\ pc' = [pc EXCEPT ![c] = "accepted"]
       \/ /\ pc[c] = "refused"
          /\ Transition(row[c], "failed")
          /\ pc' = [pc EXCEPT ![c] = "failed"]
    /\ UNCHANGED <<state, device, delivered, now, ask, at, row>>

-----------------------------------------------------------------------------
(* The adapters and the background tasks. *)

\* Mutant: an older observation is not discarded.
AcceptsAnyObservation(e, t) == TRUE

\* An observation older than the projection is ignored.
IsFresh(e, t) == state[e].version = 0 \/ state[e].at <= t

\* Mutant: a report confirms every pending command of the entity.
ConfirmableWhateverTheValue(e, v) ==
    {i \in Rows : commands[i].entity = e /\ commands[i].status \in Pending}

\* Mutant: a report confirms a command whatever became of it.
ConfirmableWhateverTheStatus(e, v) ==
    {i \in Rows : commands[i].entity = e /\ commands[i].value = v}

\* The commands a report confirms: same entity, same value, still pending.
Confirmable(e, v) ==
    {i \in Rows : /\ commands[i].entity = e
                  /\ commands[i].value = v
                  /\ commands[i].status \in Pending}

\* apply_reported_state: the projection, the confirmations and their events
\* in one transaction.  The source time may be any instant up to now.
Report(e, v, t) ==
    /\ t <= now
    /\ state[e].version < MaxVersion
    /\ IsFresh(e, t)
    /\ state' = [state EXCEPT ![e] = [value |-> v, at |-> t, version |-> @.version + 1]]
    /\ commands' = SetStatus(Confirmable(e, v), "confirmed")
    /\ Log({[entity |-> e, value |-> v, at |-> t, version |-> state[e].version + 1]},
           Changed(Confirmable(e, v), "confirmed"))
    /\ UNCHANGED <<device, delivered, now, calls>>

\* Mutant: the expirer does not look at the status of a row.
StaleWhateverTheStatus ==
    {i \in Rows : i <= ScanLimit /\ commands[i].at + Timeout < now}

\* Mutant: only commands known to be dispatched expire.
StaleDispatchedOnly ==
    {i \in Rows : /\ i <= ScanLimit
                  /\ commands[i].status = "dispatched"
                  /\ commands[i].at + Timeout < now}

\* The rows expire_commands expires: it reads the first ScanLimit rows of
\* the table, whatever their status, and keeps the old pending ones.
Stale ==
    {i \in Rows : /\ i <= ScanLimit
                  /\ commands[i].status \in Pending
                  /\ commands[i].at + Timeout < now}

\* One tick of spawn_command_expirer.
Expire ==
    /\ Stale # {}
    /\ commands' = SetStatus(Stale, "expired")
    /\ Log({}, Changed(Stale, "expired"))
    /\ UNCHANGED <<state, device, delivered, now, calls>>

\* set_adapter_devices_status: removed devices stay removed.
SetAdapterDevicesStatus(s) ==
    /\ s \in Availability \ {"removed"}
    /\ device' = [e \in Entity |-> IF device[e] = "removed" THEN "removed" ELSE s]
    /\ UNCHANGED <<commands, state, journal, delivered, now, calls>>

\* remove_device, asked by a user.
RemoveDevice(e) ==
    /\ "removed" \in Availability
    /\ device' = [device EXCEPT ![e] = "removed"]
    /\ UNCHANGED <<commands, state, journal, delivered, now, calls>>

\* register_discovery makes the device available, whatever it was.
RegisterDiscovery(e) ==
    /\ device' = [device EXCEPT ![e] = "available"]
    /\ UNCHANGED <<commands, state, journal, delivered, now, calls>>

Tick ==
    /\ now < MaxTime
    /\ now' = now + 1
    /\ UNCHANGED <<store, delivered, calls>>

\* The process dies: the calls in progress are gone, the store stays.
Crash ==
    /\ pc' = [c \in Caller |-> IF pc[c] \in Running THEN "lost" ELSE pc[c]]
    /\ UNCHANGED <<store, delivered, now, ask, at, row>>

-----------------------------------------------------------------------------

Proceed(c) == Check(c) \/ Create(c) \/ Deliver(c) \/ Refuse(c) \/ Ack(c)

Next ==
    \/ \E c \in Caller : Lookup(c) \/ Proceed(c)
    \/ \E e \in Entity, v \in Value, t \in Time : Report(e, v, t)
    \/ Expire
    \/ \E s \in DeviceStatus : SetAdapterDevicesStatus(s)
    \/ \E e \in Entity : RemoveDevice(e) \/ RegisterDiscovery(e)
    \/ Tick
    \/ Crash

Spec == Init /\ [][Next]_vars

\* The clock advances and the expirer ticks every second.  Nothing else is
\* under an obligation: a call may hang in its adapter, which has no time
\* limit of its own, clients and users may do nothing, the process may crash.
FairSpec ==
    /\ Spec
    /\ WF_vars(Expire)
    /\ WF_vars(Tick)

-----------------------------------------------------------------------------
(* Correctness. *)

TypeOK ==
    /\ commands \in Seq(Command)
    /\ state \in [Entity -> StateProperty]
    /\ device \in [Entity -> DeviceStatus]
    /\ journal \in Seq(Entry)
    /\ delivered \in [IdemKey -> Nat]
    /\ now \in Time
    /\ ask \in [Caller -> Request]
    /\ pc \in [Caller -> CallState]
    /\ at \in [Caller -> Time]
    /\ row \in [Caller -> Nat]

\* An entry of the journal gives row i the status s; it is about row i.
Gives(entry, i, s) == [row |-> i, status |-> s] \in entry.changes
Mentions(entry, i) == \E s \in CommandStatus : Gives(entry, i, s)

\* The projection of commands can be rebuilt from the journal: a row has the
\* status its last event gave it, and no event is about a row that is not
\* there (storage/0001: a projection never becomes visible without its event).
JournalExplainsCommands ==
    /\ \A i \in Rows : \E n \in 1..Len(journal) :
          /\ Gives(journal[n], i, commands[i].status)
          /\ \A s \in CommandStatus : Gives(journal[n], i, s) => s = commands[i].status
          /\ \A m \in (n+1)..Len(journal) : ~Mentions(journal[m], i)
    /\ \A n \in 1..Len(journal) : \A ch \in journal[n].changes : ch.row \in Rows

\* The reports of an entity carry the versions 1, 2, ... in the order of the
\* journal, without a hole or a repetition and with source times that never go
\* back, and the last one is the projection (core/0002, acceptance criteria).
JournalExplainsState ==
    \A e \in Entity :
        /\ \A n \in 1..Len(journal) : \A r \in journal[n].reports :
              r.entity = e =>
                 /\ r.version \in 1..state[e].version
                 /\ r.at <= state[e].at
                 /\ r.version = state[e].version =>
                       state[e] = [value |-> r.value, at |-> r.at, version |-> r.version]
        /\ \A n, m \in 1..Len(journal) :
              \A r \in journal[n].reports, q \in journal[m].reports :
                 r.entity = e /\ q.entity = e /\ n < m =>
                    r.version < q.version /\ r.at <= q.at
        /\ \A v \in 1..state[e].version : \E n \in 1..Len(journal) :
              \E r \in journal[n].reports : r.entity = e /\ r.version = v

\* A command is only ever confirmed by a reported state of its entity with the
\* value it asked for, reported after the command was requested: the transport
\* alone never confirms (core/0002: a transport success is not a confirmation).
ConfirmedByMatchingReport ==
    \A n \in 1..Len(journal), i \in Rows :
        Gives(journal[n], i, "confirmed") =>
            /\ \E r \in journal[n].reports :
                  r.entity = commands[i].entity /\ r.value = commands[i].value
            /\ \E m \in 1..(n-1) : Gives(journal[m], i, "requested")

\* However many calls use a key, together, one after the other or after a
\* crash, the adapter gets one command for it (api/0001: the same key never
\* emits a second command), and none before the command is in the store.
OneDeliveryPerKey ==
    \A k \in IdemKey : /\ delivered[k] <= 1
                       /\ delivered[k] = 1 => Found(k) # {}

\* Call c created row i and has not yet made its own transition_command.
Owns(c, i) == pc[c] \in {"created", "sent", "refused"} /\ row[c] = i

InFlight(i) == \E c \in Caller : Owns(c, i)

\* Why OneDeliveryPerKey is preserved: a key names one row, a row has one
\* owner, which asked for it, and a call that is about to deliver is the owner
\* of a row whose key was never delivered.
Ownership ==
    /\ \A i, j \in Rows : commands[i].key = commands[j].key => i = j
    /\ \A c \in Caller : pc[c] \in {"created", "sent", "refused"} =>
          /\ row[c] \in Rows
          /\ commands[row[c]].key = ask[c].key
          /\ pc[c] = "created" => delivered[ask[c].key] = 0
          /\ pc[c] = "sent" => delivered[ask[c].key] = 1
    /\ \A c, d \in Caller, i \in Rows : Owns(c, i) /\ Owns(d, i) => c = d

\* Once the call that created a command has returned, or died, a settled
\* command stays as it is: no late report and no tick of the expirer moves it.
SettledIsFinal ==
    [][\A i \in Rows : commands[i].status \in Settled /\ ~InFlight(i)
          => commands'[i].status = commands[i].status]_vars

\* Why ConfirmedByMatchingReport is preserved: the request of every row is in
\* the journal before anything can happen to the row.
RequestsLogged ==
    \A i \in Rows : \E n \in 1..Len(journal) : Gives(journal[n], i, "requested")

\* The calls, reports, expirations and crashes of this module only ever do
\* what the contract of a command allows.
StatusOf(k) ==
    IF Found(k) = {} THEN "absent" ELSE commands[CHOOSE i \in Found(k) : TRUE].status

Contract == INSTANCE CommandContract WITH
    status <- [k \in IdemKey |-> StatusOf(k)],
    delivered <- delivered,
    open <- [k \in IdemKey |-> \E i \in Found(k) : InFlight(i)]

ImplementsContract == Contract!ContractSpec

\* Every command in the store ends up settled for good, without the help of a
\* report, even if its caller died (api/0001: a command that gets no
\* confirmation within its delay becomes command.expired).
EventuallySettled ==
    \A i \in 1..MaxCommands :
        Len(commands) >= i ~> [](i \in Rows /\ commands[i].status \in Settled)

-----------------------------------------------------------------------------
(* What the documentation says and the code does not keep. *)

\* core/0002: the reported state prevails.  A command confirmed by a report
\* would stay confirmed.
ReportPrevails ==
    [][\A i \in Rows : commands[i].status = "confirmed"
          => commands'[i].status = "confirmed"]_vars
=============================================================================
