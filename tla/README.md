# Robine: a TLA+ model of the home server

Robine is a home automation server: adapters (Hue, MQTT, Matter) report the states of
devices, clients and assistants ask for commands, and automations written in the Robine
Flow language run when something happens. These modules model where order, concurrency,
failure and conversion decide: how a command lives, how an event gets from the journal to
the automations and to clients, how the runs of automations survive days of waiting and the
death of the process, how adapters keep up with what they are connected to, what assistants
may do, what a flow means, and what is left of the store after a migration or a restore that
died half way. TLC checks them on small instances; TLAPS proves the central properties for
every value of the constants.

AP stands for `src/crates/robine-application/src/lib.rs`, ST for
`robine-store-sqlite`, RT for `robine-runtime/src/main.rs`, FR for `robine-flow-runtime`, HT
for `robine-api-http`, HU for `robine-integration-hue`, MQ for `robine-protocol-mqtt`, MA and MD
for `robine-integration-matter` and `robine-matterd`, MH and MT for `robine-mcp-http` and
`robine-mcp-tools`, BK for `robine-store-backup`. Names like `storage/0001` are the documents
under `src/docs/specs/`. The field `map` of `PROJECT.json` gives the lines of each definition.

## 1. Inventory

| component | state | operations | talks to | modules |
|---|---|---|---|---|
| **Commands and reported state** (AP, ST) | tables `commands`, `entity_state`, `events` | `request_command`, `create_command`, `transition_command`, `apply_reported_state`, `expire_commands` | callers: HTTP, MCP, engine; adapters through `CommandDispatcher` | `CommandContract`, `CommandLifecycle` |
| **Event journal and channel** (ST) | table `events`, a `tokio::broadcast` channel of 512 | `insert_event` in each transaction, `publish` after it, `events_after` | engine, WebSocket clients | `EventEngine`, `EventStream` |
| **Automation engine task** (RT) | a cursor in memory, `automation_engine_cursor`, its receiver | replay, live reception, overflow, a tick each second | journal, `FlowService` | `EventEngine`, `FlowRuns` |
| **Flow runs** (AP, ST, FR) | `flow_runs`, `flow_run_traces`, `flow_trigger_claims` | trigger, admit, resume, suspend, dequeue, trace | commands, flow definitions | `RunContract`, `FlowRuns` |
| **Flow definitions** (AP, ST) | `flows`, `flow_revisions` | create, update, enable, disable | users, assistants, flows themselves | `FlowDefinitions` |
| **Flow language** (syntax, ast, check, plan, AP) | none | lex, parse, format, validate, resolve choices, evaluate conditions, compile to a plan | flow definitions, flow runs | `FlowSyntax`, `FlowValidation` |
| **Device registry** (ST, AP, domain) | `devices`, `entities`, `areas`, `adapter_health` | discovery, renaming, areas, removal, availability, pages | adapters, users, `request_command` | `Registry`, `DevicePages` |
| **HTTP API and stream** (HT) | sessions, the queue of each WebSocket | queries, commands, `/events` with replay and resynchronisation | everything above | `EventStream`, `DevicePages` |
| **Retention** (ST, RT) | none | deletes old events, traces and claims | journal, flow runs | `EventStream` |
| **Hue** (HU, RT) | pending revisions per property, rate gate, connection, `hue_bridges`, keys in the keychain | dispatch, supervision, synchronisation, pairing, restoration | registry, reported state, secrets | `HueDispatch`, `HueSupervisor`, `HuePairing` |
| **MQTT** (MQ) | routes, inbound queue of 512, connection | announcements, states, refusals | registry, reported state | `MqttIngest` |
| **Matter** (MA, MD, RT) | child process, socket, routes, a file of jobs | launching, synchronisation, commissioning | registry | `MatterSidecar` |
| **MCP** (MH, MT, ST) | tokens, approvals, allow-lists with quotas, audit | tools, approval, spending | commands, flows | `McpServer` |
| **Backup and restore** (BK) | files, a lock | snapshot, verification, replacement | the store | `DatabaseFiles` |
| **Schema migrations** (ST) | tables, `schema_migrations` | change, fill, record, verify | the store | `SchemaMigrations` |
| **Secrets, administrator, test adapter, clients** | see `PROJECT.json` | | | |

How they interact. The store is one SQLite connection behind a `Mutex`: every method of
`SqliteStore` is one transaction (migrations excepted), and between two calls anything may
run. Each change appends its events to the journal in its own transaction; the events are
published on the channel after the lock is released. One task runs all automations.
Adapters, HTTP handlers and MCP calls run concurrently with it and with each other.

What is hard, and what makes each component correct:

- **Commands.** A call of `request_command` is five calls to the store and one to an
  adapter that may hang for ever; reports, the expirer, a removal of the device and other
  calls with the same key come in between, and the process may die. Correct when a key gives
  one command and one delivery; when the status, the journal and the confirmations agree;
  when a settled command stays settled; when each command is settled in the end.
- **Journal and engine.** Commit and publication are two steps, the channel overflows, saves
  fail, the process dies between the run of a flow and the save of the cursor. Correct when
  the cursor passes nothing that was not handled, and nothing is handled twice.
- **Flow runs.** A run lives in a row for days, and every change of that row is a
  transaction apart from the trace, the claim and the cursor. Correct when the concurrency
  policy holds at every moment, waits, retries, confirmations and deadlines are what the
  plan says, an occurrence starts a flow once, an awaited event is not lost, and a run ends.
- **Stream.** Three reads of the store, a replay, then a channel and a queue that both may
  overflow, under a retention that deletes. Correct when a client gets each event after its
  position once and in order or is told to resynchronise, and catches up.
- **Flow definitions.** Read in one transaction, written in another. Correct when revisions
  number the definitions as long as writers do not overlap.
- **Flow language.** One code accepts a flow, others run it, and text and tree are two views.
  Correct when formatting keeps the meaning and what was accepted can be run.
- **Registry.** An entity is stored twice, adapters announce again and again. Correct when the
  two records agree, the journal tells all, and what the user chose survives.
- **Pages.** Correct when a device that does not change is listed once.
- **MCP.** Authentication, authorisation and effect are three transactions. Correct when an
  approval is spent once, by the call it was given for, and nothing acts without its audit.
- **Hue.** Correct when the newest value wins, sends are spaced, availability follows the
  connection, and a paired bridge is found again whichever step of a pairing failed.
- **MQTT.** Correct when, with nothing under way and nothing lost, the store shows what the
  broker last said.
- **Matter.** Correct when what the sidecar has promised is kept by its successor.
- **Files.** Correct when a death at any point of a restore or of a migration loses nothing
  and the next start carries on.

`PROJECT.json` lists the hazards one by one, at their lines, with the properties that
cover them.

## 2. The modules

| module | what it is | instance | proofs |
|---|---|---|---|
| `CommandContract` | what a command promises, per idempotency key | | `CommandLifecycleProofs` |
| `CommandLifecycle` | the calls, reports, expirer and deaths that implement it | `MCCommandLifecycle` | `CommandLifecycleProofs` |
| `EventEngine` | journal, channel and cursor | `MCEventEngine` | `EventEngineProofs` |
| `RunContract` | what the run of a flow promises, whatever dies or comes late | | `FlowProgressProofs` |
| `FlowRuns` | what the engine does with an event or a tick, implementing it | `MCFlowRuns`, `MCEventEngine` | `FlowRunsProofs`, `FlowProgressProofs` |
| `EventStream` | how a client follows the journal | `MCEventStream` | `EventStreamProofs` |
| `FlowDefinitions` | writers of flows, revisions | `MCHome` | `StoreProofs` |
| `Registry` | devices, entities, areas, availability and their journal | `MCHome` | `IntegrationProofs` |
| `DevicePages` | pages of devices while these change | `MCHome` | `StoreProofs` |
| `HueDispatch` | pending values and the rate gate | `MCHome` | `IntegrationProofs` |
| `HueSupervisor` | the listening thread, over `Registry` | `MCHome` | `IntegrationProofs` |
| `HuePairing` | pairing and restoration of bridges | `MCHome` | `IntegrationProofs` |
| `MqttIngest` | the MQTT adapter between broker and `Registry` | `MCHome` | `IntegrationProofs` |
| `MatterSidecar` | supervisor, daemon, jobs | `MCHome` | `IntegrationProofs` |
| `McpServer` | tokens, approvals, quotas, audit and effects | `MCHome` | `McpServerProofs` |
| `DatabaseFiles` | database, log, archives, restore | `MCHome` | `StoreProofs` |
| `SchemaMigrations` | the migrations, statement by statement | `MCHome` | `StoreProofs` |
| `FlowSyntax` | lexer, parser, formatter | `MCHome` | recursive, see 5 |
| `FlowValidation` | what is accepted and what is made of it (extends `FlowSyntax`) | `MCFlowTrees`, `MCHome` | recursive, see 5 |

`MCHome` runs the components that share no state in one specification: the variable `part`,
chosen at the start, is the one a behaviour follows, so that the state spaces add up
instead of multiplying. `HueSupervisor` and `MqttIngest` share `Registry`'s state and take
its operations as actions (`RegisterDiscovery`, `SetAdapterDevicesStatus`, ...); those are
compositions proper.

### CommandLifecycle

`request_command` is `Lookup`, `Check`, `Create`, `Deliver` or `Refuse`, `Ack`: one action
per call to the store or the dispatcher, with `pc[c]` for the place of call `c`, `at[c]` for
the time it captured and `row[c]` for the row it created. `commands` is the table in rowid
order, so that the `LIMIT` of the expirer is `i <= ScanLimit`. `Report` is the whole of
`apply_reported_state`: the test against the newer observation, the projection, the
confirmation of every matching pending command, and their events, in one step. `Expire` is
one tick of the expirer, `SetAdapterDevicesStatus`, `RemoveDevice` and `RegisterDiscovery`
the availability of devices. `Crash` loses the calls and nothing else. `journal` keeps one
entry per transaction. What an adapter does with a command is outside the repository's
promise: it receives it (`delivered`), and it answers or not.

### EventEngine

`Commit` and `Publish` are the two halves of every changing method of the store. The channel
is the engine's view of a `tokio::broadcast` receiver: a queue of `Capacity`, and `lagged`
once the oldest was overwritten. The task is `Subscribe`, `LoadCursor`, `Seed`, `ReadBatch`,
`Receive`, `Lagged`, and per event `RunStateFlows`, `Claim`, `RunEventFlows`, `Save`. One
flow is triggered by the state and takes no reservation; one is triggered by the event and
takes one.

### FlowRuns

The engine's loop once more, now from the inside of one event or tick: `TakeEvent` or
`TakeTick`, `Resume` of awaiting or due runs and `Dequeue` of queued ones, `ListFlows`, and
per flow `Claim`, `Admit`, then for the run at hand `Check` (deadline, timer, enabled),
the actions of its plan (`Command`, `Pause`, `SetAutomationEnabled`, `Complete`), `Save` or
`Drop`, `Trace`, and `Done`, which moves the cursor. `run`, `row`, `timer` and `result` are
what the task holds in memory: a death loses them, and the last saved row is what is left.
A command carries two instants: `at`, the one captured for the event or tick, which `Check` has
compared with the deadline and the code passes on, and `sent`, the time of the call. A retry asks
like any other command but, as `execute_retryable_action` does, without a look at the confirmation
its command may ask for (`confirm`). Of the actions a retry may wrap only commands are modelled.
The events are those of the journal in order; that they reach the engine in order is the
subject of EventEngine, and the lines of the engine task are split between the two.

`RunContract` is the same without a process: a run is new, queued, active or over, and has a
flow, a deadline and an outcome. `Start`, `Replace`, `Enqueue` and `Refuse` admit it by the
policy, `Proceed` takes the oldest from the queue, `Ask` is a command with all that must lie
behind it (earlier commands asked, confirmations seen, waits over, earlier attempts failed, the
deadline ahead), `End` and `Record` are the two transactions a run ends with. `FlowRuns` maps to
it by `Phase`, which reads the table of rows, and `Recorded`, which takes a terminal trace for the
outcome and a trace of a suspension for none. Claims, timers, the copy in memory, the cursor and
deaths are not seen: a death is a stutter, and so is the saved row of a suspension.

### EventStream

A session of the stream is `Subscribe`, three reads of the store in transactions of their own
(`ReadLatest`, `CheckCursor`, `Replay`), `SendReplayed` event by event while commits and the
channel go on, then `Produce` (from the channel to the bounded queue), `Send`, and `GiveUp` or `SendResync` when a queue overflowed. `PageEarliest`, `PageLatest` and
`PageRead` are `GET /events`. `Prune` is the retention, between any two of them. `Apply` and
`Resync` are the Apple client, which keeps its cursor per event and starts again from 0 when
refused. `Faults` says which reads may fail. `overtaken` remembers events the channel sent late,
`skipped` those a read lost without a word; the properties except exactly these.

### Registry, DevicePages, HueSupervisor, MqttIngest

`Registry` keeps an entity twice, as the store does: in `entities` and in the record of its
device. `RegisterDiscovery`, `RenameDevice`, `AssignEntityArea`, `CreateArea`, `RemoveDevice`,
`SetAdapterDevicesStatus` and the health of adapters are its actions; the journal is represented
by `known`, the picture of a client that applied its events.
`HueSupervisor` adds the thread (`listener`), its backoff in milliseconds (`failures`, `pause`,
the jitter included) and synchronisations that register light by light, by the thread and by the
administrator (`todo`). `MqttIngest` adds broker, subscriptions, the queue that drops when full,
routes in memory, and reconnections with a clean session; the broker sends what it retains in any
order, and of the components that share a topic the last one listed gets its route. `DevicePages` is the keyset of
`list_devices_page` on rows that come, move and change status.

### HueDispatch, HuePairing

A call of `dispatch` stages its revision, coalesces, reserves a slot of the rate gate, sleeps,
and sends if its revision is still the staged one; each is a step, and threads interleave.
`HuePairing` splits `pair` into the creation of the key, the first inventory, the secret, the
row and `Follow` (dispatcher, active adapter, thread): each may fail, two pairings overlap,
the bridge forgets a key (`Revoke`), the process dies, and `restore_paired_bridges` tries each
row at the next start.

### MatterSidecar

Server (`StartMatter`, `Supervise`, `RegisterNode`, `ServerDies`) and daemon (`Bind`,
`ReadJobs`, `WriteJobs`, `AnswerJob`, `DaemonDies`) die independently. A daemon outlives the
server that launched it, the next server launches another, which takes the socket over; requests
already accepted by the orphan go on. The controller is external: it lists nodes or not, and a
commissioning ends in one of `Outcomes`.

### McpServer, FlowDefinitions

A request of an assistant is `Authenticate`, the authorisation with its audit entry and the spent
approval or quota in one transaction, and the effect in a third. `FlowDefinitions` keeps for each
writer the definition it read (`draft`) until it writes the whole of it back.

### DatabaseFiles, SchemaMigrations

A file is the set of transactions in it. Restore is verify, stage, check, set aside, put in
place, each a step of the file system; `Commit`, `Checkpoint` and the replay of the log are
SQLite's, external: a start without a database creates one and deletes a log found beside it. A migration is a change, a filling and a record per version, each a
transaction of its own, as autocommit makes them.

### FlowSyntax, FlowValidation

Pure code as operators. `FlowSyntax` types every text of up to four characters into the body of
a flow, lexes, parses, formats and parses again. `FlowValidation` holds two readings of a tree:
`Accepts`, what `parse_and_validate` checks at the save, and `Resolve`, `EvaluateWhen`,
`Compile`, `ScheduleKey`, what a run does; `SaveFlow` accepts a tree, states change, `RunFlow`
reads it anew. `MCFlowTrees` enumerates the trees: each varies one part of a flow, the
conditions, choices, schedules, options and retries, sound and unsound.

How they compose: `CommandLifecycle!Ack`'s answer is the `Accepted` or `Refused` of
`FlowRuns`, and `Lookup`'s answer for a known key is the first disjunct of `Accepted`. The
events that `Create`, `Transition`, `Report` and `Expire` log are the events `EventEngine`
commits, of which `FlowRuns` sees confirmations and signals.
`HuePairing` and `HueSupervisor` describe the same bridge before and after its thread starts;
`MatterSidecar`'s and `MqttIngest`'s registrations are `Registry`'s, `McpServer`'s effects are a
`Lookup` of `CommandLifecycle` or a write of `FlowDefinitions`.

## 3. The runs

| run | what it asks | instance |
|---|---|---|
| `command_store` | `JournalExplainsCommands`, `JournalExplainsState`, `ConfirmedByMatchingReport` | 2 calls, 2 keys, 2 values, 2 reports at 2 instants, removal |
| `command_contract` | `OneDeliveryPerKey`, `ImplementsContract`, `EventuallySettled` | 2 calls, 2 keys, 1 value, time 0..2, a report, removal |
| `event_engine` | `OnlyOvertakenSkipped`, `OnceBetweenCrashes`, `EveryEventHandled`, `RunsEnd` | 2 publishers, 4 events in transactions of up to 2, channel and batch of 2, failing reads and saves, a death; for `RunsEnd`, in behaviours of their own, a queued flow that awaits for ever, max-runtime 1, 2 runs, time 0..3, a death |
| `flow_runs` | `PolicyHolds`, `QueueIsFIFO`, `OneRunPerCause`, `RunsLeaveATrace`, `WaitsAreKept`, `ConfirmationIsABarrier`, `RetriesAreBounded`, `DeadlineIsKept`, `AwaitedIsNotPassed`, `ImplementsRunContract` | five homes (below), 2 signals, 3 runs, time 0..2, a death |
| `stream` | `SessionOwesNothing`, `OnceAndInOrder`, `MissesNothing`, `CatchesUp` | 2 publishers, 4 events of which 3 are wanted, channel 2, queue 1, replay of 3, page of 2, failing reads, a dropped connection |
| `home` | `HomeTypeOK` and one or two properties per part, below | below |

The homes of `flow_runs`: `line` is a queued flow that waits, then sends a command, triggered by both
signals and by the minute 1, so that a third run meets a full queue or an order of two queued ones; `again`
restarts, with a wait between two commands and a max-runtime; `sure` waits for the confirmation
of its first command; `retry` has two attempts; `lamp` and `door` both await the next signal,
and `door` switches `lamp` off. A user may switch `line` once.

The parts of `home`:

| part | property | what it says | instance |
|---|---|---|---|
| assistants | `ApprovalSpentOnce`, `AuditCountsEffects` | an approval leads to one action, the one it was given for; no effect without audit, no quota exceeded | 2 tokens (confirming, allow-listed with quota 1), 2 calls, 2 requests at once, time 0..2, hours of 2 |
| automations | `RevisionsNumberDefinitions` | revisions are 1, 2, 3 ... until writers overlap | 2 writers, 2 sources, 3 writes |
| dispatcher | `LastStagedWins`, `SlotsAreSpaced` | the newest value is not replaced; slots are an interval apart | 3 threads, 1 property, interval 2, deadline 3, time 0..4 |
| registry | `JournalExplainsRegistry` | journal, rows and copies agree, choices survive | 2 devices, 3 entities, 1 area |
| bridge | `WaitingMeansUnavailable` | no light is available while the thread waits; the delay keeps its cap | the registry's, 2 losses, counter saturating at 8 |
| mqtt | `QuietMeansCurrent` | with nothing under way or lost, devices, routes and states are what the broker retains | 2 topics, one shared by two entities, queue of 2, 3 publications, a break or restart |
| pages | `PagesListOnce` | an unchanged device is listed once | 3 devices, 2 names, pages of 1, 5 changes |
| files | `RestoreKeepsData` | no damaged archive becomes the database, no checkpointed transaction is lost | 2 archives, 2 commits, 3 restores |
| migrations | `MigrationsConverge` | a server serves with every version changed, filled and recorded | 4 versions, 2 of them with a filling, 3 starts |
| text | `FlowRoundTrip` | formatting keeps the tree | every text of up to 4 of 14 characters |
| trees | `AcceptedFlowsRun` | an accepted flow has a condition, choices and schedules with a value | the trees of `MCFlowTrees`, every state of their properties |
| pairing | `FollowedBridgesComeBack` | a bridge on record has a key of its own that was good; what is followed is on record | 1 bridge, 2 overlapping pairings, 3 keys, 2 starts |
| sidecar | `SidecarKeepsPromises` | a job a client was told of stays; an available adapter has its routes | 1 node, 2 jobs, 2 daemons, 2 starts of the server |

Why the bounds are enough. Two calls and two keys give every race of `request_command` (same
key, other key, same value, other value). Two values tell a matching report from another, and
two reports at two instants a late one from a newer one. The instant after a request is the one
it expires at, with a delay of 0. A channel of two with four events overflows with something
left in it, and a batch of two ends a query in the middle of the journal; the death may come in
a replay. A run resumed after a death is a run like any other, so one death suffices for
`FlowRuns`. `Limit` and `ScanLimit` (100 in the code) are never reached in the runs, so no run shows
that the code is right beyond them: it is not, which is described below. In the stream a replay
of 3 with 4 events is one that may be refused or served, and a queue of 1 overflows with the second event. Three threads are one that sends, one
that is superseded and one that supersedes. Three restores put an archive over one that was set
aside. Two daemons are an orphan and its successor; two pairings of one bridge are the ones that
can replace each other's key. The
failure counter saturates at 8 instead of 255: from the seventh failure on the delay is at its cap.

In `command_store` and `command_contract` the first call uses the first key and asks for the
first value: keys and values are interchangeable, so nothing is lost. No run declares a
symmetry. Every bound is a guard but one: `home` has the constraint `MCFewChoices`, at most two
names and places chosen by the user, which leaves out nothing but a third choice.

Each component's property has to hold in a run that can break it: each has a mutant in
`PROJECT.json`, a plausible mistake in one mapped definition, under which TLC finds it violated.

Deadlock is not checked: every counter is bounded by the model, clients may ask for nothing
more, and an engine with an empty journal has nothing to do. What must go on is stated as a
liveness property instead.

### What the code does not keep

Six runs end in a violation, each a finding of `PROJECT.json` with the quoted line.

| run | property | what happens |
|---|---|---|
| `report_prevails` | `ReportPrevails` | a report confirms the command while its call is still in the adapter; the call then writes Dispatched over it, and the expirer expires it |
| `engine_overtaken` | `NothingSkipped` | two threads publish in the opposite order of their commits; the engine handles the later event, its cursor passes the earlier one, which then counts as seen and is never replayed |
| `runs_failed_command` | `CompletedMeansSent` | a run dies after a command failed and before it was deleted; resumed, it asks again with its key, gets Ok for the failed command and completes |
| `stream_resync` | `ResyncLeadsToStream` | more events are retained than one replay holds; the client is refused, starts again from 0 as it does after every refusal, and is refused for ever |
| `restore_half` | `NeverStartsHalfRestored` | the restored database is put beside the log of the old one, which the next start replays into it; or the process dies between two renames and the next start creates an empty home |
| `runs_unconfirmed_retry` | `UnconfirmedNeverSucceeds` | the planner accepts a command with `:confirm :reported` in a retry, the executor of retries drops the confirmation, and the run completes without a report |

The passing properties spell out other departures as their exceptions:

- `OnlyOvertakenSkipped` excepts `failed`. A failed save of the cursor ends the replay with the
  rest of the journal unread; the next live event moves the cursor over it.
- `OnceBetweenCrashes` allows a run per death. A flow triggered by a state takes no
  reservation, so a death between its run and the save of the cursor runs it again, although
  `automation/0001` says the engine deduplicates after a restart too.
- `RunsLeaveATrace` allows a run in silence per death: the row of a run is deleted (AP 765), or replaced
  by `:restart`, in one transaction and its trace is written in another. A death in between leaves
  neither, of a run that may have sent commands, although `automation/0001` gives each run a trace and `automation/0002`
  has every result in it.
- `EventuallySettled` needs `ScanLimit` to be at least the number of commands. The expirer reads the
  first 100 rows of a table that only grows, settled commands included, and filters afterwards (ST 2276).
  With two commands and a `ScanLimit` of 1 the second never expires, where `api/0001` says that a
  command without a report becomes `command.expired`.
- `AwaitedIsNotPassed` and `RunsEnd` need `Limit` to be at least the number of runs.
  `awaiting_flow_runs` (ST 1930) cuts to 100 rows before the engine compares them to the event: a run behind
  the cut goes on waiting for an event the cursor has passed. `dequeue_next_flow_run` (ST 1859) cuts
  before it looks for free flows: the queue of a free flow stays where it is behind the rows of blocked
  ones. The theorem about the first states the need exactly: `FewAwait`, the runs that await an event
  never exceed `Limit`.
- `ConfirmationIsABarrier` speaks of commands outside a retry (see `runs_unconfirmed_retry`). It says
  what follows a confirmation, not that a confirmation in time is enough: the tick may be worked off
  before the event that is already in the journal, and the run then ends as `timed_out`.
- `DeadlineIsKept` speaks of suspensions. The time is looked at once, when a run is taken up (AP 647);
  what it does until it is suspended or over goes on while time passes, so the last commands of a run may
  be sent beyond its max-runtime. None that a wait, an await, a confirmation or a backoff separates
  from an earlier one is, if that earlier one was late.
- `OneDeliveryPerKey` says nothing of the answers: of two calls that both missed the lookup of
  one key, the second ends in the constraint's error (`pc` is `"conflict"`), where `api/0001`
  promises the initial result.
- A device removed between `Check` and `Deliver` still gets its command, where `core/0001` says
  a removed entity gets none.
- `RevisionsNumberDefinitions` excepts flows whose writers overlapped: `update` and
  `set_enabled_from_flow` (AP 217-315) write back what they read in another transaction, so both give
  the same revision and the definition of the earlier is lost without an error, where
  `automation/0001` calls a new definition atomic and versioned.
- `MissesNothing` and `CatchesUp` except `skipped`: a replay that fails to be read is answered
  as an empty one, and the cursor then moves over it (HT 1029). `GET /events` reads the earliest,
  the latest and the events in three transactions.
- `PagesListOnce` excepts pages whose cursor device was renamed between two of them.
- `WaitingMeansUnavailable` excepts a failed mark and the administrator's synchronisation:
  `synchronize` marks the lights available before the stream is connected again (HU 957 says
  otherwise).
- `QuietMeansCurrent` excepts lost messages and shared topics. The queue of 512 drops without a
  word, where `infrastructure/0003` wants overload measured; a reconnection does not subscribe
  again, with a clean session (the same document: it does); components that share a state topic
  leave the last one only its route.
- `SidecarKeepsPromises` excepts two daemons that rewrite the file of jobs at the same time: the
  lock of a `FileJobStore` is that of one process.
- `RestoreKeepsData` stops at a log replayed into a foreign database, which is `restore_half`.

Met while reading, outside what a property states:

- Commands: keys are global, not per client. Hue: a revision can be staged over a newer one
  when two threads take their revisions and the table's lock in opposite order (HU 1213-1225); a
  late wake-up brings two sends closer than the interval, slow answers may reorder them.
- Pairing: a second pairing of a bridge leaves the first thread and dispatcher in place. Once
  the first key is revoked its thread marks the lights unavailable at each retry, although the
  second is connected; a value superseded in one dispatcher is tried in the other and sent after
  the newer one; two rate gates serve one bridge. A pairing whose save fails leaves available
  lights without a listener. A bridge that does not answer at the start is not tried again, and the
  administrator's synchronisation knows the bridge followed last only. Light changes between the
  inventory and the connection of the stream are missed.
- MQTT: losing the broker marks no entity unavailable (`infrastructure/0003` says it does);
  availability topics are never read; an entity that moves its topic keeps the old route; the
  payload `ON` of Home Assistant is refused; state topics under `homeassistant/` are taken for
  announcements; one refused message degrades the adapter until the next announcement; after a
  restart commands fail for want of a route until the announcement is taken.
- Matter: devices are never marked unavailable and their states never reported; a commissioning
  whose daemon dies or whose client gave up leaves no job the client can name.
- Registry: a removed device comes back when announced again; an announcement with fewer entities
  leaves rows that nothing can rename. Area names are unique whatever their case.
- MCP: refusals without an approval id, off the allow-list, or of a switch of an automation are
  not audited.
- Language: `automation/0002` has everything checked at the save, yet brightness above 100 %,
  durations, an await's timeout, choices inside a retry and unknown actions are found at the run.
  The comment at AP 1231 says a missing value makes a condition false; `(not (= missing ...))`
  is true. Choices and condition are read at two moments. Parallel actions, time and collection
  expressions, `:from` and `:where` are documented and not implemented.
- Stream: no ping from the server; a journal that is empty hides that events were deleted.
- Store: migrations are autocommitted statements (`storage/0001` calls each a transaction);
  files set aside are named by the second; a restored database hands out sequences again.

## 4. Fairness

- `CommandLifecycle`: weak fairness of the clock and of the expirer, a task that ticks every
  second. Nothing of a call: the adapter has no time limit of its own.
- `EventEngine`: weak fairness of the engine task and of the publication of what was
  committed (the same thread, with no await in between). Commits owe nothing. The process is
  started again after a death (`Subscribe` is a step of the engine), as a service manager does.
- `FlowRuns`: weak fairness of the task and of the clock, and strong fairness of `TakeEvent`
  and `TakeTick`: `tokio::select!` polls its branches in random order, so a ready branch
  is not passed over for ever. Devices and users owe nothing.
- `EventStream`: weak fairness of the publication, of each step of a session or page (one
  future or handler, driven by the runtime), and of the client, which connects again after a
  pause and applies what it gets. Commits, retention, failures and lost connections owe nothing.
- `MCEventEngine!OnTimeSpec` asks of each of its two parts the fairness of its own module.
- The parts of `home` state safety only.

## 5. What is proved

For every value of the constants that satisfies the named assumptions of the modules, from the
specification without fairness.

**CommandLifecycleProofs.** `TypeCorrect`; `DeliveredAtMostOnce`, that is `[]OneDeliveryPerKey`;
`SettledStaysSettled`; `CommandsRebuiltFromJournal`; `ConfirmationNeedsReport`;
`StateRebuiltFromJournal`, which is inductive with the types alone (`StateInv`). That a key is
delivered once is not inductive: the step `Deliver` of a call must know that no other call
holds a row of the same key and that nothing was delivered yet. `Ownership` says so: keys are
unique among rows, a call in flight owns a row with its own key, one owner per row, and the
place of the owner tells whether the key was delivered. `DeliveryInv` is `TypeOK`,
`Ownership` and `OneDeliveryPerKey`. The journal needs `JournalInv`, which adds that every
row's request is in the journal (`RequestsLogged`), since a confirmation must come after it.

The same module proves `LifecycleImplementsContract`: `Spec => ImplementsContract`, under
the mapping that gives a key the status of its row (`StatusOf`) and calls it open while a call
in flight owns the row. The initial state maps to the contract's, and each action to `Accept`,
`Hand`, `Acknowledge`, `Settle`, `Abandon` or a stutter.

**EventEngineProofs.** `TypeCorrect`; `RunsOnceBetweenCrashes`; `ReservedRunsOnce`;
`DurableOnlyRises`; `PassedWasHandled`, that is `[]OnlyOvertakenSkipped`.
The last one is the deep one. An event at or below the durable cursor was handled or
overtaken because every event between the cursor and the end of the journal is still owed by
someone: the batch being worked off, the replay to come, the channel, an overflow not yet
noticed, or a thread that will still send it. That is `CoverInv`, which holds as long as no
call to the store failed; it needs the order of the
batch and of each thread's events (`OrderInv`), the relation of the two cursors (`PassedInv`)
and the bounds of what is in flight (`BoundInv`). `OnceInv` relates the count of runs of an
event to the deaths and to the cursor in memory, `ClaimInv` to the reservations.

**FlowRunsProofs.** `TypeCorrect`, `PoliciesHold`, `CausesStartOnce`, `RunsAreTraced`,
`TerminalStaysFinal` (that `TerminalIsFinal`, which follows from the contract and has no run of its
own), `QueuesAreFIFO`, with `FlowRuns`'s assumption only (at least one flow, positive queue lengths, plans of any
content). `ShapeInv` gives the variables their types and says what the program counter
tells of the run at hand (`Apart`). `HandInv`: the row in hand is a row of the table that waits
no more, of its own flow, and what was read to be resumed waits no more either. On it rest
`PolicyInv` (active and all runs of a flow as counted by its mode, the run at hand included),
`CauseInv` (a cause is claimed before it starts a run, and is about to start at most one),
`TraceInv` (what is still to be traced has no terminal trace), `SilentInv` (the runs that are `Lost`, that
is have no row and no final trace and are neither at hand nor among the replaced, are at most as
many as the deaths: no other step loses one, `NothingLost`, and a death loses at most the run at hand
or, while that one has its row already, the one it has replaced, `DeathLosesOne`), `FifoInv` (rows of a flow are due in the
order of their creation, which is why the oldest due one is the oldest queued one) and
`DeadlineInv` (the deadline at hand is that of the row, and the captured instant lies before it),
which the contract and `DeadlinesBind` need.

**FlowProgressProofs.** What runs owe to their plans: `WaitsAlwaysKept`, `ConfirmationsBar`,
`RetriesBound`, `AwaitedNotPassed`, `DeadlinesBind`, `RunsImplementContract`. The first two are one invariant. `HoldInv` says what a run has
behind it: at action n every wait before n is over, every command before n asked, every
confirmation seen (`HeldAt`); a row that is suspended may still owe what it is suspended for, and
nothing else (`HeldSave`). It is preserved only because of `ResumedInv` (a run is resumed when its
timer is due or its event has come, and its copy in memory runs ahead of its row by actions without
a suspension) and `CommandsInv` (a command beyond the row was asked by an attempt that a death cut
off, and the resumed run gets there again without a suspension, so no wait lies in between).
`RetryInv` keeps count: attempts up to the row's have failed (`RetryHeld`), none was made beyond
the next (`AttemptsUpTo`). The plans of the model retry at least once, as `retry` demands of
`:times`. `AwaitInv`, for awaited events, says of each run that awaits the event being worked off that it
is in the list of the runs to resume, was suspended later, or is the run at hand; it needs
`FewAwait`, without which the list is cut.

`DeadlinesBind` is about the time of the calls. `PassInv`: what a run sent after the captured instant
it sent in this pass, with no suspension of its plan since; all other runs of the list, and the run at
hand when its deadline is checked, sent nothing after that instant. So a command that a suspension parts
from an earlier one was asked by a pass that began after the earlier call (`PartedStep`), and that
pass began before the deadline (`DeadlineInv`).

`RunsImplementContract` is `Spec => ImplementsRunContract`. Its invariant `RunInv` joins those above
with two more. `OrderInv` is about the order of a plan: when an action has not asked for its command
yet, nothing that comes after it was asked for, because whatever lies between a row and a later command
is asked again by the keys of the attempt that a death cut off (`Retraced`), and a run that is at
such an action has found all of them (`Reasked`). From it and `RetryInv` follows that a new command
is the next one of the plan (`NextAttempt`), the part of `Ask` the safety properties above do not
say. `AdmitInv`: a skipped run asked for nothing, and a new row has the deadline of its flow. The
proof has one lemma per step the contract sees (`AdmitAdmits`, `DequeueProceeds`, `CommandAsks`,
`DropEnds`, `TraceRecords`, `CancelledRecords`, `ConfirmConfirms`, `TickPasses`); all others keep
what it sees (`Stutters`), the saving of a row because it was active before (`SaveSeen`).

**EventStreamProofs.** `StreamTypes`, `StreamInductive` and, from the one invariant `IInv`,
`StreamOwesNothing`, `StreamInOrder` and `StreamMissesNothing`. `StageInv` tells what there is at
each place of a session and that a committed event is with one thread and not yet in the channel.
`OrderInv`: what was sent, then the rest of the replay, then the queue, then the channel, then what
threads have yet to publish never repeat an event, and go back only for an overtaken one.
`CoverInv` is the heart of it: up to the last replayed event each wanted one was sent, is in the rest
of the replay or was skipped (`ReplayedInv`); beyond it, until the producer gives up, each one is in
the queue, the channel or with a thread (`LiveInv`), because the receiver exists before the store is
read; and before an event of the queue nothing is left in the channel that did not come late
(`AheadInv`, which holds after the producer gave up too, and is why the client may move its cursor).
`GapInv` marks what retention deleted between the check of the cursor and the replay, and
`KnownInv` carries all of it over to the client's cursor.

**StoreProofs.** `StartsConverge`: `OpeningInv` ties the statement a start is at to what must be
behind it, `RecordInv` the record to change and filling. `RevisionsAreNumbered`: `DraftsBehind`,
that a writer's copy is no newer than the store unless writers overlapped, and `WrittenExists`.
`RestoresKeepData`: `FilesShape` and `FilesInv`, that a checked copy is sound and is put in place
only where no database is; `FoundInv`, which states a file may be in at each step, gives the types
(`FilesTypeCorrect`): no server opens a damaged file (in place of a missing one it opens an empty
one, see `restore_half`). `PagesTypeCorrect` and `PagesListEachOnce`: names and identifiers put devices in one order, and
what was read so far is what comes no later than the cursor (`Read`); an unchanged device was listed
once if it is among it and matches, and not at all otherwise (`ListedInv`). That a page ends where the
next begins needs the first `Limit` rows of a finite set to be its least ones, which is proved with
cardinalities.

**IntegrationProofs.** Of `Registry`, `RegistryIsExplained`: `RegistryInv` (types, the client's picture,
the two copies, the user's choices) is inductive. Of `HueDispatch`, `SlotsSpaced` from `GateInv` (the next slot is an interval
after every slot given out) and `NewestValueStays` from `PlaceInv` (revisions of calls under way
differ). Of `HuePairing`, `PairedBridgesComeBack` from `StepsInv`: a call of `pair` finds done what the
steps before its own did, and an adapter is followed only by a thread of a bridge on record. Of
`MatterSidecar`, `SidecarRemembers`: `JobInv` (until two daemons cross, what was read is what the
file holds and what was saved is in it) and `RouteInv` (a node of the inventory has its routes or is
about to be registered). Two modules extend `Registry` and their invariants `RegistryInv`, with the
same lemma per registry operation. Of `HueSupervisor`, `WaitingIsUnavailable`: `WorkInv`, that the
thread registers lights only while it synchronises, is what makes the mark that precedes the wait
last. Of `MqttIngest`, `QuietIsCurrent`, for a queue of any size: while nothing was lost, an
announcement the broker retains is in the queue or was handled once announcements are subscribed to
(`AnnouncedInv`); a topic with a route is subscribed to or asked for (`HeardInv`); its route shows
what the topic last said, unless that is still to come (`ShownInv`) with nothing of the topic behind
it (`OrderInv`, `Upcoming`), so that no older payload is taken after a newer one.
`SupervisorTypeCorrect` bounds the delays of the backoff for every number of failures: a stream that is
lost has been counted before the delay is computed (`CountInv`), and `DelayBounds` puts the delay between
the initial and the maximum one, which needs a power of two to be positive; that follows from its being
the number of subsets of an interval (`PowerOfTwo`), the provers having no axioms about exponents.
`RegistryTypeCorrect`, `HueTypeCorrect`, `PairingTypeCorrect`, `SidecarTypeCorrect` and `MqttTypeCorrect`
give the other parts their types; the last one bounds the client's queue by its limit.

**McpServerProofs.** `ApprovalsAreSpentOnce` from `ApprovalInv`: actions done and granted by an
approval are counted together, and both are bound to its token and call. `AuditCountsAreKept`
from `EffectInv` (effects and grants together do not exceed the audit) and `QuotaInv`.

What stays with TLC. Liveness (`EventuallySettled`, `EveryEventHandled`, `RunsEnd`, `CatchesUp`):
the prover does not reason about fairness. `FlowRoundTrip` and `AcceptedFlowsRun`: lexer, parser,
formatter, validation and compiler are recursive operators, about which nothing can be proved
here; TLC evaluates them on every enumerated text and tree. `HomeTypeOK` collects the parts' types in
`MCHome`, a module that reaches recursive operators; the type of every part is a theorem of its own
module, but for text and trees, which are recursive.
All other invariants and action properties of the passing runs are theorems.

## 6. What is not modelled, and why

- Commands: several properties per entity and the REST projection of states.
- Flow runs: audit entries, retries of anything but a command, brightness sent with a command, causal depth and the bound of 100
  dequeues per tick. A state that a flow's command causes carries no correlation id, so nothing
  in the code bounds a chain of flows that trigger each other (AP 382): there is no promise to check.
- The Home Assistant import: one JSON document to one discovery; `MqttIngest` takes the result.
- Matter's controller: the backend of the repository is unavailable by design, and nothing calls
  the handler of attribute events; commands to endpoints end like any adapter's.
- Administrator account, sessions, listing of tokens: single statements and cryptography.
- Hue discovery and rooms, TLS, colours, JSON, parsing of event streams: I/O and floats.
- The protocol test adapter (a test double) and the user interfaces but for the cursor they keep.
- The state of the registry the API shows (queries other than pages and events).

## 7. Plan

What is left, by what the home depends on:

1. One specification of a reader of the journal (each event after a position once, or a notice)
   that `EventEngine` and `EventStream` both implement.
2. `AwaitedIsNotPassed`, `RunsEnd` and `EventuallySettled` with instances beyond `Limit` and `ScanLimit`, once
   the code filters before it cuts.
3. Commands with several properties per entity, and the causal chain of reservations.
