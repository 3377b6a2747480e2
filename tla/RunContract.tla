------------------------------ MODULE RunContract ------------------------------
(***************************************************************************)
(* What automation/0001 and automation/0002 promise of the runs of flows,  *)
(* whatever dies, comes late or is repeated: the abstract specification    *)
(* that FlowRuns implements.  There is no process here, no row, no timer   *)
(* and no trace in the making: a run is new, queued, active or over.  The  *)
(* policy of its flow admits it, it asks for the commands of its plan, and *)
(* when it is over its outcome is recorded once, or never.                 *)
(*                                                                         *)
(* A recorded outcome is not owed: a death may come between the end of a   *)
(* run and its trace (FlowRuns!RunsLeaveATrace).  An attempt of a retry    *)
(* that was refused before it became a command is not seen here.           *)
(***************************************************************************)
EXTENDS Naturals, FiniteSets, Sequences

CONSTANTS
    Flow,
    Run,            \* numbers of runs, in the order of their creation
    Mode,           \* of each flow: "single", "restart" or "queue"
    MaxQueue,       \* of each flow: max-runs, for the mode "queue"
    Plan,           \* of each flow: its sequence of actions
    Runtime,        \* of each flow: max-runtime, 0 without one
    Instant,
    Never           \* the instant of Instant that is no deadline

VARIABLES
    phase,          \* of each run: "new", "queued", "active" or "over"
    flow,           \* the flow of each run
    deadline,       \* its last instant
    asked,          \* the commands runs have asked for
    outcome,        \* what is recorded of each run
    time

contractVars == <<phase, flow, deadline, asked, outcome, time>>

Outcome == {"completed", "failed", "skipped", "timed_out", "cancelled"}

\* Actions that ask for a command.
Asking == {"command", "reported", "retry"}

RunsOf(f) == {r \in Run : phase[r] \in {"queued", "active"} /\ flow[r] = f}
AskedBy(r) == {c \in asked : c.key.run = r}

ContractInit ==
    /\ phase = [r \in Run |-> "new"]
    /\ flow \in [Run -> Flow] /\ deadline \in [Run -> Instant]
    /\ asked = {}
    /\ outcome = [r \in Run |-> "none"]
    /\ time = 0

-----------------------------------------------------------------------------
(* Admission. *)

IsNext(r) == phase[r] = "new" /\ \A s \in Run : s < r => phase[s] # "new"

\* The run gets its flow and its deadline.
Admitted(r, f) ==
    /\ flow' = [flow EXCEPT ![r] = f]
    /\ \E d \in Instant :
          /\ IF Runtime[f] = 0 THEN d = Never ELSE d <= time + Runtime[f]
          /\ deadline' = [deadline EXCEPT ![r] = d]
    /\ UNCHANGED <<asked, outcome, time>>

\* The flow has no other run.
Start(r) ==
    /\ phase' = [phase EXCEPT ![r] = "active"]
    /\ \E f \in Flow : RunsOf(f) = {} /\ Admitted(r, f)

\* ":restart": the new run takes the place of all others, at once.
Replace(r) == \E f \in Flow :
    /\ Mode[f] = "restart"
    /\ phase' = [s \in Run |-> IF s = r THEN "active"
                               ELSE IF s \in RunsOf(f) THEN "over" ELSE phase[s]]
    /\ Admitted(r, f)

\* ":queue": the new run waits behind the others, as long as there is room.
Enqueue(r) ==
    /\ phase' = [phase EXCEPT ![r] = "queued"]
    /\ \E f \in Flow : /\ Mode[f] = "queue"
                       /\ RunsOf(f) # {} /\ Cardinality(RunsOf(f)) < MaxQueue[f]
                       /\ Admitted(r, f)

\* The guard or the policy refuses the run: it never acts.
Refuse(r) ==
    /\ phase' = [phase EXCEPT ![r] = "over"]
    /\ UNCHANGED <<flow, deadline, asked, outcome, time>>

\* A new run leaves "new" by one of these.
Admit(r) ==
    /\ IsNext(r) /\ phase'[r] # "new"
    /\ Start(r) \/ Replace(r) \/ Enqueue(r) \/ Refuse(r)

\* The oldest queued run of a flow goes on once the flow has no active run.
Proceed(r) ==
    /\ phase[r] = "queued"
    /\ phase' = [phase EXCEPT ![r] = "active"]
    /\ \A s \in RunsOf(flow[r]) : phase[s] = "queued" /\ r <= s
    /\ UNCHANGED <<flow, deadline, asked, outcome, time>>

-----------------------------------------------------------------------------
(* Progress. *)

\* By t a run has done what its action i asks: it has asked for the command,
\* seen the confirmation (a retry waits for none), or waited since its earlier
\* commands.
Behind(r, i, t) == LET action == Plan[flow[r]][i] IN
    /\ action.do \in Asking => \E c \in AskedBy(r) : c.key.index = i
    /\ action.do = "reported" =>
          \E c \in AskedBy(r) : c.key.index = i /\ c.status = "confirmed"
    /\ action.do = "wait" => \A c \in AskedBy(r) : c.key.index < i => c.at + action.delay <= t

\* An attempt of action i: the first of a plain command, or the next of a retry
\* whose attempts so far have failed.  Nothing that comes later was asked for.
MayAttempt(r, i, attempt) == LET action == Plan[flow[r]][i] IN
    /\ action.do \in Asking
    /\ IF action.do = "retry" THEN attempt \in 1..action.times ELSE attempt = 0
    /\ \A c \in AskedBy(r) :
          \/ c.key.index < i
          \/ c.key.index = i /\ c.key.attempt < attempt /\ c.status = "failed"

\* An active run asks for the command of its action i, in a pass over its plan
\* that began at t, within its deadline and with all that its plan puts before
\* the command behind it.
Ask(r, i, attempt, t) ==
    /\ phase[r] = "active"
    /\ \E status \in {"sent", "failed"} :
          asked' = asked \cup {[key |-> [run |-> r, index |-> i, attempt |-> attempt],
                                at |-> t, sent |-> time, status |-> status]}
    /\ MayAttempt(r, i, attempt)
    /\ \A c \in AskedBy(r) : c.at <= t
    /\ t <= time /\ t < deadline[r]
    /\ \A j \in 1..(i - 1) : Behind(r, j, t)
    /\ UNCHANGED <<phase, flow, deadline, outcome, time>>

\* The device reports what a command asked for.
Confirm(c) ==
    /\ c.status = "sent"
    /\ asked' = (asked \ {c}) \cup {[c EXCEPT !.status = "confirmed"]}
    /\ UNCHANGED <<phase, flow, deadline, outcome, time>>

\* An active run is over, and will not ask for anything again.
End(r) ==
    /\ phase[r] = "active"
    /\ phase' = [phase EXCEPT ![r] = "over"]
    /\ UNCHANGED <<flow, deadline, asked, outcome, time>>

\* The outcome of a run that is over, recorded once.  A completed run has done
\* its whole plan, a skipped one nothing.
Record(r) == LET o == outcome'[r] IN
    /\ phase[r] = "over" /\ outcome[r] = "none" /\ o \in Outcome
    /\ outcome' = [outcome EXCEPT ![r] = o]
    /\ o = "completed" => \A i \in 1..Len(Plan[flow[r]]) : Behind(r, i, time)
    /\ o = "skipped" => AskedBy(r) = {}
    /\ UNCHANGED <<phase, flow, deadline, asked, time>>

Pass ==
    /\ \E t \in Instant : t > time /\ time' = t
    /\ UNCHANGED <<phase, flow, deadline, asked, outcome>>

-----------------------------------------------------------------------------

ContractNext ==
    \/ \E r \in Run : Admit(r) \/ Proceed(r) \/ End(r) \/ Record(r)
    \/ \E c \in asked' \ asked : Ask(c.key.run, c.key.index, c.key.attempt, c.at)
    \/ \E c \in asked : Confirm(c)
    \/ Pass

ContractSpec == ContractInit /\ [][ContractNext]_contractVars
=============================================================================
