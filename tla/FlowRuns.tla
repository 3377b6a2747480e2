------------------------------- MODULE FlowRuns -------------------------------
(***************************************************************************)
(* The runs of automations: what FlowService and the interpreter do from   *)
(* the moment the engine takes an event or a tick, and the tables          *)
(* flow_runs, flow_run_traces and flow_trigger_claims they leave behind.   *)
(*                                                                         *)
(* Only the task spawn_automation_engine runs flows: it waits for each     *)
(* event and each tick to be worked off before it takes the next.  Around  *)
(* it users enable and disable flows, devices confirm commands, events are *)
(* appended, time passes and the process dies; every call to the store is  *)
(* a step of its own.                                                      *)
(*                                                                         *)
(* Abstractions.  A run is the number of its creation, a flow is its plan, *)
(* trigger and policy, a command is one call of request_command (see       *)
(* CommandLifecycle), whose answer is Ok or Err.  Events reach the engine  *)
(* in order (see EventEngine).  Flows are triggered by events and          *)
(* schedules; an instant of the model is a minute of a schedule.  The      *)
(* depth of causal chains, retention, the bound of 100 dequeues a tick,    *)
(* the second request of a command with a brightness, audits and retries   *)
(* of anything but a command are left out.                                 *)
(***************************************************************************)
EXTENDS Naturals, Sequences, FiniteSets

CONSTANTS
    Flow,
    Homes,          \* bound: the sets of flows a home of the instance may have
    Signal,         \* events from outside that flows are triggered by or await
    Mode,           \* of each flow: "single", "restart" or "queue"
    MaxQueue,       \* of each flow: max-runs, for the mode "queue"
    Plan,           \* of each flow: its sequence of actions
    Runtime,        \* of each flow: max-runtime, 0 without one
    On,             \* of each flow: the signals that trigger it
    At,             \* of each flow: the minutes it is scheduled at
    Limit,          \* rows of one query of runs, 100 in the code
    MaxTime,        \* bound: last instant of the model
    MaxRuns,        \* bound: runs ever started
    MaxSignals,     \* bound: signals ever appended
    MaxUpdates,     \* bound: times users switch each flow on or off
    MaxCrashes      \* bound: deaths of the process

\* An action of a plan.  "reported" is a command that waits for its
\* confirmation, "forever" an await without a timeout.
Action == [do : {"command", "reported", "retry", "wait", "await", "forever",
                 "activate", "deactivate"},
           delay : Nat,     \* duration, timeout or backoff
           times : Nat \ {0},  \* attempts of a retry, 1 to 10 in the code
           confirm : BOOLEAN,  \* the command of a retry has ":confirm :reported"
           on : SUBSET Signal,
           flow : Flow]

ASSUME ConstantsAssumption ==
    /\ Flow # {}
    /\ Homes \subseteq SUBSET Flow
    /\ Mode \in [Flow -> {"single", "restart", "queue"}]
    /\ MaxQueue \in [Flow -> Nat \ {0}]
    /\ Plan \in [Flow -> Seq(Action)]
    /\ Runtime \in [Flow -> Nat]
    /\ On \in [Flow -> SUBSET Signal]
    /\ At \in [Flow -> SUBSET Nat]
    /\ Limit \in Nat \ {0}
    /\ MaxTime \in Nat /\ MaxRuns \in Nat /\ MaxSignals \in Nat
    /\ MaxUpdates \in [Flow -> Nat] /\ MaxCrashes \in Nat

VARIABLES
    live,           \* durable: the ids in the table flow_runs
    table,          \* durable: the row of each id
    traces,         \* durable: flow_run_traces, the result of each run
    claims,         \* durable: flow_trigger_claims
    flows,          \* durable: the table flows, the ids in it
    enabled,        \* durable: the field enabled of each flow
    commands,       \* durable: the commands runs have asked for
    journal,        \* durable: the events the engine consumes
    cursor,         \* durable: how many of them it has worked off
    now,            \* Utc::now()
    last,           \* ids given out
    cause,          \* history: what started each run
    since,          \* history: the events each run had let pass when it was suspended
    updates, crashes,
    pc,             \* where the task is
    replaying,      \* it has not reached the end of the journal since its start
    task,           \* what it works off: an event or a tick
    clock,          \* the now captured when it took it
    work,           \* runs read from the table and not yet resumed
    todo,           \* flows read and not yet triggered
    run,            \* the run at hand, 0 without one
    row,            \* its copy in memory
    timer,          \* it is resumed by its timer
    result,         \* what its trace will say
    cancelled,      \* runs it replaced, not yet traced
    back            \* where the task goes on after the run

runs == <<live, table, traces, claims>>
world == <<flows, enabled, commands, journal, now>>
taken == <<replaying, task, clock>>
hand == <<run, row, timer, result, cancelled, back>>
counts == <<last, cause, since, updates, crashes>>
vars == <<live, table, traces, claims, flows, enabled, commands, journal, cursor, now, last,
          cause, since, updates, crashes, pc, replaying, task, clock, work, todo, run, row, timer,
          result, cancelled, back>>

-----------------------------------------------------------------------------
(* The data. *)

Run == 1..MaxRuns
Time == 0..MaxTime

\* An instant the model never reaches: no deadline, or an await without timeout.
Never == MaxTime + 1
Instant == 0..Never

After(t, d) == IF t + d < Never THEN t + d ELSE Never
Sooner(s, t) == IF s <= t THEN s ELSE t

Key == [run : Run, index : Nat, attempt : Nat]
Event == ({"signal"} \X Signal) \cup ({"confirmed"} \X Key)

Terminal == {"completed", "failed", "skipped", "timed_out", "cancelled"}
Result == Terminal \cup {"none", "queued", "suspended"}

Row == [flow : Flow, next : Nat, retry : Nat, wake : Instant,
        awaiting : SUBSET Event,    \* the events it awaits, {} if it does not
        fails : BOOLEAN,            \* await_timeout_is_failure
        deadline : Instant, queued : BOOLEAN]

Blank == [flow |-> CHOOSE f \in Flow : TRUE, next |-> 1, retry |-> 0, wake |-> 0,
          awaiting |-> {}, fails |-> FALSE, deadline |-> Never, queued |-> FALSE]

\* The row execute_flow builds.
NewRow(f) == [Blank EXCEPT !.flow = f, !.wake = clock,
                           !.deadline = IF Runtime[f] = 0 THEN Never ELSE After(clock, Runtime[f])]

RunsOf(f) == {r \in live : table[r].flow = f}
Active(f) == {r \in RunsOf(f) : ~table[r].queued}
Queued == {r \in live : table[r].queued}

\* ORDER BY wake_at, id.  The clock of the code is finer than the model's: rows
\* of one instant are in the order they were created in.
Before(r, s) == table[r].wake < table[s].wake \/ (table[r].wake = table[s].wake /\ r < s)

\* The first Limit rows of a query.
Some(S) == {r \in S : Cardinality({s \in S : Before(s, r)}) < Limit}

\* awaiting_flow_runs orders by id.  Ids are drawn at random: the model's order
\* is one of those the code may choose among more rows than Limit.
Oldest(S) == {r \in S : Cardinality({s \in S : s < r}) < Limit}

\* Mutant: the query wants the time of the run to have come, too.
AwaitingDue(e) == {r \in Oldest({s \in live : ~table[s].queued /\ table[s].awaiting # {}}) :
                      e \in table[r].awaiting /\ table[r].wake <= now}

\* awaiting_flow_runs, filtered by await_matches_event.
Awaiting(e) == {r \in Oldest({s \in live : ~table[s].queued /\ table[s].awaiting # {}}) :
                   e \in table[r].awaiting}

\* Mutant: the query does not look at wake_at.
DueAtOnce(t) == Some({r \in live : ~table[r].queued /\ table[r].awaiting = {}})

Due(t) == Some({r \in live : ~table[r].queued /\ table[r].wake <= t})

Init ==
    /\ live = {} /\ table = [r \in Run |-> Blank]
    /\ traces = [r \in Run |-> "none"]
    /\ claims = {}
    /\ flows \in Homes
    /\ enabled \in [Flow -> BOOLEAN] /\ \A f \in Flow : enabled[f] => f \in flows
    /\ commands = {}
    /\ journal = <<>> /\ cursor = 0 /\ now = 0
    /\ last = 0 /\ cause = [r \in Run |-> <<>>]
    /\ since = [r \in Run |-> 0] /\ updates = [f \in Flow |-> 0] /\ crashes = 0
    /\ pc = "down" /\ replaying = TRUE /\ task = "tick" /\ clock = 0
    /\ work = {} /\ todo = {}
    /\ run = 0 /\ row = Blank /\ timer = FALSE /\ result = "none"
    /\ cancelled = {} /\ back = "work"

-----------------------------------------------------------------------------
(* The engine takes an event or a tick. *)

Start ==
    /\ pc = "down"
    /\ pc' = "idle"
    /\ UNCHANGED <<runs, world, cursor, counts, taken, work, todo, hand>>

\* The end of replay_automation_events: from now on timers run too.
ReplayDone ==
    /\ pc = "idle" /\ replaying /\ cursor = Len(journal)
    /\ replaying' = FALSE
    /\ UNCHANGED <<runs, world, cursor, counts, pc, task, clock, work, todo, hand>>

\* resume_awaiting_event: the runs that await the event.
TakeEvent ==
    /\ pc = "idle" /\ cursor < Len(journal)
    /\ task' = "event" /\ clock' = now
    /\ work' = Awaiting(journal[cursor + 1])
    /\ pc' = "work"
    /\ UNCHANGED <<runs, world, cursor, counts, replaying, todo, hand>>

\* resume_due: the runs whose time has come.
TakeTick ==
    /\ pc = "idle" /\ ~replaying
    /\ task' = "tick" /\ clock' = now
    /\ work' = Due(now)
    /\ pc' = "work"
    /\ UNCHANGED <<runs, world, cursor, counts, replaying, todo, hand>>

Resume(r) ==
    /\ pc = "work" /\ r \in work
    /\ task = "tick" => \A s \in work : table[r].wake <= table[s].wake
    /\ work' = work \ {r}
    /\ run' = r /\ row' = table[r] /\ timer' = (task = "tick")
    /\ pc' = "check" /\ back' = "work"
    /\ UNCHANGED <<runs, world, cursor, counts, taken, todo, result, cancelled>>

\* Queued runs whose flow has no active run.
Startable == {r \in Some(Queued) : Active(table[r].flow) = {}}

\* Mutant: the newest queued run goes first.
NewestFirst(r) == r \in Startable /\ \A s \in Startable : ~Before(r, s)

\* dequeue_next_flow_run takes the oldest.
NextQueued(r) == r \in Startable /\ \A s \in Startable : ~Before(s, r)

Dequeue(r) ==
    /\ pc = "work" /\ work = {} /\ task = "tick"
    /\ NextQueued(r)
    /\ table' = [table EXCEPT ![r].queued = FALSE]
    /\ run' = r /\ row' = table'[r] /\ timer' = FALSE
    /\ pc' = "check" /\ back' = "work"
    /\ UNCHANGED <<live, traces, claims, world, cursor, counts, taken, work, todo, result, cancelled>>

\* Nothing is left to resume: the enabled flows that match are read.
ListFlows ==
    /\ pc = "work" /\ work = {} /\ (task = "tick" => Startable = {})
    /\ todo' = {f \in Flow : /\ enabled[f]
                             /\ IF task = "tick"
                                THEN clock \in At[f]
                                ELSE \E s \in On[f] : journal[cursor + 1] = <<"signal", s>>}
    /\ pc' = "trigger"
    /\ UNCHANGED <<runs, world, cursor, counts, taken, work, hand>>

-----------------------------------------------------------------------------
(* A flow is triggered. *)

\* The flow and the correlation id a reservation is about.
Cause(f) == <<f, task, IF task = "tick" THEN clock ELSE cursor + 1>>

\* Mutant: the answer of claim_flow_trigger is not looked at.
ReservedNever(f) == FALSE

Reserved(f) == Cause(f) \in claims

Claim(f) ==
    /\ pc = "trigger" /\ f \in todo
    /\ todo' = todo \ {f}
    /\ claims' = claims \cup {Cause(f)}
    /\ \/ /\ Reserved(f)
          /\ UNCHANGED <<pc, row>>
       \/ /\ ~Reserved(f)
          /\ row' = NewRow(f)
          /\ pc' = "admit"
    /\ UNCHANGED <<live, table, traces, world, cursor, counts, taken, work, run, timer, result,
                   cancelled, back>>

\* The new run is not started: the guard does not hold, or the policy refuses.
Skip ==
    /\ result' = "skipped" /\ pc' = "trace"
    /\ UNCHANGED <<live, table, cancelled>>

Insert(r, queued) == table' = [table EXCEPT ![r] = [row EXCEPT !.queued = queued]]

\* Mutant: only active runs are counted.
FullOfActive(f) == Cardinality(Active(f)) >= MaxQueue[f]

Full(f) == Cardinality(RunsOf(f)) >= MaxQueue[f]

\* Mutant: the runs that are replaced are not deleted.
ReplaceKeeps(r) ==
    /\ live' = live \cup {r} /\ Insert(r, FALSE)
    /\ cancelled' = RunsOf(row.flow)
    /\ result' = "none" /\ pc' = "replaced"

\* Mutant: the runs that are replaced are forgotten.
ReplaceForgets(r) ==
    /\ live' = (live \ RunsOf(row.flow)) \cup {r} /\ Insert(r, FALSE)
    /\ cancelled' = {}
    /\ result' = "none" /\ pc' = "replaced"

\* "restart" deletes the runs of the flow with the same transaction.
Replace(r) ==
    /\ live' = (live \ RunsOf(row.flow)) \cup {r} /\ Insert(r, FALSE)
    /\ cancelled' = RunsOf(row.flow)
    /\ result' = "none" /\ pc' = "replaced"

\* evaluate_guard and admit_flow_run.
Admit ==
    LET f == row.flow
        r == last + 1
    IN  /\ pc = "admit" /\ last < MaxRuns
        /\ last' = r /\ run' = r /\ timer' = FALSE /\ back' = "trigger"
        /\ cause' = [cause EXCEPT ![r] = Cause(f)]
        /\ \/ Skip
           \/ Mode[f] = "restart" /\ Replace(r)
           \/ /\ Mode[f] # "restart" /\ RunsOf(f) = {}
              /\ live' = live \cup {r} /\ Insert(r, FALSE)
              /\ result' = "none" /\ pc' = "check"
              /\ UNCHANGED cancelled
           \/ /\ Mode[f] = "queue" /\ RunsOf(f) # {} /\ ~Full(f)
              /\ live' = live \cup {r} /\ Insert(r, TRUE)
              /\ result' = "queued" /\ pc' = "trace"
              /\ UNCHANGED cancelled
        /\ UNCHANGED <<traces, claims, world, cursor, since, updates, crashes, taken, work, todo, row>>

\* The runs that were replaced get their traces, then the new run starts.
TraceCancelled ==
    /\ pc = "replaced"
    /\ \/ \E r \in cancelled : /\ traces' = [traces EXCEPT ![r] = "cancelled"]
                               /\ cancelled' = cancelled \ {r}
                               /\ UNCHANGED pc
       \/ /\ cancelled = {}
          /\ pc' = "check"
          /\ UNCHANGED <<traces, cancelled>>
    /\ UNCHANGED <<live, table, claims, world, cursor, counts, taken, work, todo, run, row,
                   timer, result, back>>

-----------------------------------------------------------------------------
(* resume_run. *)

\* Mutant: max-runtime is not looked at.
TimedOutByAnswer == timer /\ row.awaiting # {} /\ row.fails

\* Mutant: a confirmation that did not come is taken for a timeout of await.
TimedOutByDeadline == row.deadline <= clock

\* Its deadline has passed, or the confirmation it awaits did not come.
TimedOut == row.deadline <= clock \/ (timer /\ row.awaiting # {} /\ row.fails)

Check ==
    /\ pc = "check"
    /\ \/ /\ TimedOut
          /\ result' = "timed_out" /\ pc' = "drop"
       \/ /\ ~TimedOut /\ ~enabled[row.flow]
          /\ result' = "cancelled" /\ pc' = "drop"
       \/ /\ ~TimedOut /\ enabled[row.flow]
          /\ pc' = "step"
          /\ UNCHANGED result
    /\ UNCHANGED <<runs, world, cursor, counts, taken, work, todo, run, row, timer, cancelled, back>>

Here == Plan[row.flow][row.next]

\* An action of one of these kinds is next.
At_(kinds) == pc = "step" /\ row.next <= Len(Plan[row.flow]) /\ Here.do \in kinds

KeyOf == [run |-> run, index |-> row.next,
          attempt |-> IF Here.do = "retry" THEN row.retry + 1 ELSE 0]

\* A call of request_command, by a retry as by a command of the plan: it is given
\* the instant captured for the event or the tick, which Check has looked at, and
\* made at another.
Request(status) == [key |-> KeyOf, at |-> clock, sent |-> now, status |-> status]

\* request_command answers Ok: the key is known, or the command was sent.
Accepted ==
    \/ (\E c \in commands : c.key = KeyOf) /\ UNCHANGED commands
    \/ /\ \A c \in commands : c.key # KeyOf
       /\ commands' = commands \cup {Request("sent")}

\* It answers Err: before the command is created, or after its dispatch.
Refused ==
    /\ \A c \in commands : c.key # KeyOf
    /\ \/ UNCHANGED commands
       \/ commands' = commands \cup {Request("failed")}

Advanced == [row EXCEPT !.next = @ + 1, !.retry = 0]

\* Mutant: the deadline of the run does not bound its wake-up.
SuspendedBeyondDeadline(from, wake, awaiting, fails) ==
    [from EXCEPT !.wake = wake, !.awaiting = awaiting, !.fails = fails, !.queued = FALSE]

\* Mutant: one attempt too many.
AttemptLeftOnce == row.retry + 1 <= Here.times

\* A retry has an attempt left.
AttemptLeft == row.retry + 1 < Here.times

\* The row of a suspension; suspension_wake_at keeps it before the deadline.
Suspended(from, wake, awaiting, fails) ==
    [from EXCEPT !.wake = Sooner(wake, row.deadline), !.awaiting = awaiting, !.fails = fails,
                 !.queued = FALSE]

\* execute_plan and, for a retry, execute_retryable_action, which does not read
\* the confirmation of its command: a retry goes on once it is sent.
Command ==
    /\ At_({"command", "reported", "retry"})
    /\ \/ Accepted /\ Here.do # "reported" /\ row' = Advanced /\ UNCHANGED <<pc, result>>
       \/ /\ Accepted /\ Here.do = "reported"
          /\ row' = Suspended(Advanced, After(clock, Here.delay), {<<"confirmed", KeyOf>>}, TRUE)
          /\ result' = "suspended" /\ pc' = "save"
       \/ /\ Refused /\ Here.do = "retry" /\ AttemptLeft
          /\ row' = Suspended([row EXCEPT !.retry = @ + 1], After(clock, Here.delay), {}, FALSE)
          /\ result' = "suspended" /\ pc' = "save"
       \/ /\ Refused /\ (Here.do = "retry" => ~AttemptLeft)
          /\ result' = "failed" /\ pc' = "drop"
          /\ UNCHANGED row
    /\ UNCHANGED <<runs, flows, enabled, journal, now, cursor, counts, taken, work, todo, run, timer,
                   cancelled, back>>

Pause ==
    /\ At_({"wait", "await", "forever"})
    /\ row' = Suspended(Advanced,
                        IF Here.do = "forever" THEN Never ELSE After(clock, Here.delay),
                        IF Here.do = "wait" THEN {} ELSE {"signal"} \X Here.on,
                        FALSE)
    /\ result' = "suspended" /\ pc' = "save"
    /\ UNCHANGED <<runs, world, cursor, counts, taken, work, todo, run, timer, cancelled, back>>

\* set_enabled_from_flow, which wants the flow to exist; it may fail in the store.
SetAutomationEnabled ==
    /\ At_({"activate", "deactivate"})
    /\ \/ /\ Here.flow \in flows
          /\ enabled' = [enabled EXCEPT ![Here.flow] = (Here.do = "activate")]
          /\ row' = Advanced
          /\ UNCHANGED <<pc, result>>
       \/ /\ result' = "failed" /\ pc' = "drop"
          /\ UNCHANGED <<enabled, row>>
    /\ UNCHANGED <<runs, flows, commands, journal, now, cursor, counts, taken, work, todo, run,
                   timer, cancelled, back>>

Complete ==
    /\ pc = "step" /\ row.next > Len(Plan[row.flow])
    /\ result' = "completed" /\ pc' = "drop"
    /\ UNCHANGED <<runs, world, cursor, counts, taken, work, todo, run, row, timer, cancelled, back>>

\* The events behind the engine once it is done with what it works off.
Passed == IF task = "event" THEN cursor + 1 ELSE cursor

Save ==
    /\ pc = "save"
    /\ live' = live \cup {run} /\ table' = [table EXCEPT ![run] = row]
    /\ since' = [since EXCEPT ![run] = IF task = "event" THEN cursor + 1 ELSE cursor]
    /\ pc' = "trace"
    /\ UNCHANGED <<traces, claims, world, cursor, last, cause, updates, crashes, taken, work, todo,
                   hand>>

Drop ==
    /\ pc = "drop"
    /\ live' = live \ {run}
    /\ pc' = "trace"
    /\ UNCHANGED <<table, traces, claims, world, cursor, counts, taken, work, todo, hand>>

\* persist_execution_trace, a transaction of its own.
Trace ==
    /\ pc = "trace"
    /\ traces' = [traces EXCEPT ![run] = result]
    /\ run' = 0 /\ row' = Blank /\ timer' = FALSE /\ result' = "none"
    /\ pc' = back
    /\ UNCHANGED <<live, table, claims, world, cursor, counts, taken, work, todo, cancelled, back>>

\* The event is behind the cursor; the task takes the next event or tick.
Done ==
    /\ pc = "trigger" /\ todo = {}
    /\ cursor' = Passed
    /\ task' = "tick" /\ clock' = 0
    /\ pc' = "idle" /\ back' = "work"
    /\ UNCHANGED <<runs, world, counts, replaying, work, todo, run, row, timer, result, cancelled>>

-----------------------------------------------------------------------------
(* Around the engine. *)

Signals == {n \in 1..Len(journal) : journal[n][1] = "signal"}

Occur(s) ==
    /\ Cardinality(Signals) < MaxSignals
    /\ journal' = Append(journal, <<"signal", s>>)
    /\ UNCHANGED <<runs, flows, enabled, commands, now, cursor, counts, pc, taken, work, todo, hand>>

\* A reported state confirms a command that was sent.
Confirm(c) ==
    /\ c \in commands /\ c.status = "sent"
    /\ commands' = (commands \ {c}) \cup {[c EXCEPT !.status = "confirmed"]}
    /\ journal' = Append(journal, <<"confirmed", c.key>>)
    /\ UNCHANGED <<runs, flows, enabled, now, cursor, counts, pc, taken, work, todo, hand>>

\* FlowService::update by a user or by an assistant.
Update(f) ==
    /\ f \in flows /\ updates[f] < MaxUpdates[f]
    /\ updates' = [updates EXCEPT ![f] = @ + 1]
    /\ enabled' = [enabled EXCEPT ![f] = ~@]
    /\ UNCHANGED <<runs, flows, commands, journal, now, cursor, last, cause, since, crashes, pc, taken, work, todo, hand>>

Tick ==
    /\ now < MaxTime
    /\ now' = now + 1
    /\ UNCHANGED <<runs, flows, enabled, commands, journal, cursor, counts, pc, taken, work, todo, hand>>

Crash ==
    /\ crashes < MaxCrashes /\ pc # "down"
    /\ crashes' = crashes + 1
    /\ pc' = "down" /\ replaying' = TRUE /\ task' = "tick" /\ clock' = 0
    /\ work' = {} /\ todo' = {}
    /\ run' = 0 /\ row' = Blank /\ timer' = FALSE /\ result' = "none"
    /\ cancelled' = {} /\ back' = "work"
    /\ UNCHANGED <<runs, world, cursor, last, cause, since, updates>>

-----------------------------------------------------------------------------

Engine ==
    \/ Start \/ ReplayDone \/ TakeEvent \/ TakeTick
    \/ \E r \in Run : Resume(r) \/ Dequeue(r)
    \/ ListFlows \/ \E f \in Flow : Claim(f)
    \/ Admit \/ TraceCancelled
    \/ Check \/ Command \/ Pause \/ SetAutomationEnabled \/ Complete
    \/ Save \/ Drop \/ Trace \/ Done

World ==
    \/ \E s \in Signal : Occur(s)
    \/ \E c \in commands : Confirm(c)
    \/ \E f \in Flow : Update(f)
    \/ Tick
    \/ Crash

Next == Engine \/ World

Spec == Init /\ [][Next]_vars

\* The task is scheduled and started again after a death, time passes, and the
\* select! of the task, which chooses at random among what is ready, starves
\* neither the events nor the timer.
FairSpec ==
    /\ Spec
    /\ WF_vars(Engine)
    /\ WF_vars(Tick)
    /\ SF_vars(TakeEvent)
    /\ SF_vars(TakeTick)

-----------------------------------------------------------------------------
(* Correctness. *)

TypeOK ==
    /\ live \subseteq Run /\ table \in [Run -> Row]
    /\ traces \in [Run -> Result]
    /\ flows \in Homes /\ enabled \in [Flow -> BOOLEAN]
    /\ \A c \in commands : /\ c.key \in Key /\ c.at \in Time /\ c.sent \in Time
                           /\ c.status \in {"sent", "failed", "confirmed"}
    /\ journal \in Seq(Event) /\ cursor \in 0..Len(journal) /\ now \in Time
    /\ last \in 0..MaxRuns /\ since \in [Run -> Nat] /\ updates \in [Flow -> Nat]
    /\ crashes \in 0..MaxCrashes
    /\ pc \in {"down", "idle", "work", "trigger", "admit", "replaced", "check", "step", "save",
               "drop", "trace"}
    /\ replaying \in BOOLEAN /\ task \in {"tick", "event"} /\ clock \in Time
    /\ work \subseteq live /\ todo \subseteq Flow
    /\ run \in 0..MaxRuns /\ row \in Row /\ timer \in BOOLEAN /\ result \in Result
    /\ pc \in {"replaced", "check", "step", "save", "drop", "trace"} => run # 0
    /\ cancelled \subseteq Run /\ back \in {"work", "trigger"}

\* The concurrency policy holds at every moment, across suspensions, deaths and
\* resumptions: a flow never has two active runs, and no more runs, waiting ones
\* included, than its mode admits (automation/0002, applied atomically).
PolicyHolds ==
    \A f \in Flow :
        /\ Cardinality(Active(f)) <= 1
        /\ Cardinality(RunsOf(f)) <= IF Mode[f] = "queue" THEN MaxQueue[f] ELSE 1

\* The queue of a flow is a FIFO: no run leaves it before an older one
\* (automation/0002).
QueueIsFIFO ==
    \A r, s \in live :
        /\ table[r].flow = table[s].flow /\ r < s
        /\ table[r].queued
        => table[s].queued

\* A terminal trace is the last word on its run: the run is in no table, no
\* death, replay or late event brings it back, and its trace stays.
TerminalIsFinal ==
    [][\A r \in Run : traces[r] \in Terminal
          => traces'[r] = traces[r] /\ r \notin live']_vars

\* An occurrence of a trigger, an event or a minute of a schedule, starts a
\* flow once, however often it is ticked or replayed (automation/0002).
OneRunPerCause == \A r, s \in 1..last : cause[r] = cause[s] => r = s

\* A command asked with ":confirm :reported", outside a retry, is a barrier:
\* nothing that follows it is asked, and no success is traced, before its
\* confirmation.  Inside one it is none (UnconfirmedNeverSucceeds).
ConfirmationIsABarrier ==
    \A r \in 1..last : \A i \in 1..Len(Plan[table[r].flow]) :
        /\ Plan[table[r].flow][i].do = "reported"
        /\ \/ traces[r] = "completed"
           \/ \E c \in commands : c.key.run = r /\ c.key.index > i
        => \E c \in commands :
              c.key.run = r /\ c.key.index = i /\ c.status = "confirmed"

\* Between two commands of a run lie at least the waits of the plan between
\* them, by the clock the engine captured, and all its earlier commands were
\* asked before: neither a death nor a late timer skips or shortens a step.
WaitsAreKept ==
    \A d \in commands : LET plan == Plan[table[d.key.run].flow] IN
        \A i \in 1..(d.key.index - 1) :
            /\ plan[i].do = "wait" => \A c \in commands :
                  c.key.run = d.key.run /\ c.key.index < i => c.at + plan[i].delay <= d.at
            /\ plan[i].do \in {"command", "reported", "retry"} => \E c \in commands :
                  c.key.run = d.key.run /\ c.key.index = i /\ c.at <= d.at

\* An attempt of a retry is only made after the one before failed, or was
\* refused without a trace, and never beyond its bound.
RetriesAreBounded ==
    \A c \in commands : c.key.attempt > 0 =>
        /\ c.key.attempt <= Plan[table[c.key.run].flow][c.key.index].times
        /\ \A d \in commands :
              d.key.run = c.key.run /\ d.key.index = c.key.index /\ d.key.attempt < c.key.attempt
                  => d.status = "failed"

\* Actions that may end a pass over the plan of a run.
Suspending == {"reported", "wait", "await", "forever"}

\* A suspension lies between two commands of a run: one of the plan, or the
\* backoff between two attempts.
Parted(c, d) ==
    /\ c.key.run = d.key.run
    /\ \/ c.key.index = d.key.index /\ c.key.attempt < d.key.attempt
       \/ \E i \in c.key.index..(d.key.index - 1) :
             Plan[table[c.key.run].flow][i].do \in Suspending

\* A run that is beyond its max-runtime goes no further than its next
\* suspension, however late its timer or its event comes and whatever dies:
\* what it sent before a suspension that it went on after, it sent before its
\* deadline, by the time of the call.  Within one pass nothing looks at the time
\* after Check, so the last commands of a run may be sent beyond the deadline.
DeadlineIsKept ==
    \A c, d \in commands : Parted(c, d) => c.sent < table[c.key.run].deadline

\* The runs of which nothing is left, neither a row nor a final trace.
Silent == {r \in 1..last : r \notin live /\ traces[r] \notin Terminal}

\* No run ends in silence (automation/0001): when the task is at rest each run it
\* started has a row or its final trace, but for one run per death, which may
\* come between the deletion of a row and the trace, also when the run is
\* replaced.
RunsLeaveATrace == pc = "idle" => Cardinality(Silent) <= crashes

\* An awaited event is not lost: no run goes on waiting for an event that came
\* after it was suspended and that the engine has passed, in spite of deaths
\* and of the events that come while the engine is busy (automation/0002: each
\* event is compared to the awaited trigger).
AwaitedIsNotPassed ==
    \A r \in live : pc = "idle" =>
        \A n \in (since[r] + 1)..cursor : journal[n] \notin table[r].awaiting

\* A run with a max-runtime ends and frees the policy of its flow, even when it
\* awaits an event that never comes or was queued, and after deaths too.
RunsEnd == \A r \in Run : r \in live /\ table[r].deadline < Never ~> r \notin live

\* A run as the contract sees it: queued or active as long as it has a row.
Phase(r) ==
    IF r > last THEN "new"
    ELSE IF r \notin live THEN "over"
    ELSE IF table[r].queued THEN "queued" ELSE "active"

\* Of its traces the contract sees the last one.
Recorded(r) == IF traces[r] \in Terminal THEN traces[r] ELSE "none"

Contract == INSTANCE RunContract WITH
    phase <- [r \in Run |-> Phase(r)],
    flow <- [r \in Run |-> table[r].flow],
    deadline <- [r \in Run |-> table[r].deadline],
    asked <- commands,
    outcome <- [r \in Run |-> Recorded(r)],
    time <- now

\* Engine, world and deaths only ever do to a run what its contract allows
\* (automation/0001, automation/0002): it is admitted by the policy of its flow,
\* leaves the queue in turn, asks for the commands of its plan once and in order,
\* each after the waits and confirmations before it (those in a retry excepted)
\* and in a pass that began within its max-runtime, and is never heard of again
\* once it is over.
ImplementsRunContract == Contract!ContractSpec

-----------------------------------------------------------------------------
(* What the documentation says and the code does not keep. *)

\* automation/0002: a command succeeds only by the confirmation it asked for.
\* A completed run would have sent each of its commands.
CompletedMeansSent ==
    \A r \in 1..last : traces[r] = "completed" =>
        \A c \in commands : c.key.run = r /\ c.key.attempt = 0 => c.status # "failed"

\* automation/0002: without the confirmation asked for a run is timed out and
\* never a success.  A completed run would have a confirmed command for each
\* action with ":confirm :reported", in a retry too.
UnconfirmedNeverSucceeds ==
    \A r \in 1..last : \A i \in 1..Len(Plan[table[r].flow]) :
        /\ traces[r] = "completed"
        /\ LET action == Plan[table[r].flow][i]
           IN  action.do = "reported" \/ (action.do = "retry" /\ action.confirm)
        => \E c \in commands :
              c.key.run = r /\ c.key.index = i /\ c.status = "confirmed"
=============================================================================
