--------------------------- MODULE MCEventEngine ----------------------------
(***************************************************************************)
(* Finite instances of EventEngine for TLC.  With OnTimeSpec a behaviour   *)
(* follows either how events reach the engine, or the runs of a queue      *)
(* whose flow has a max-runtime: what must happen in the end, in one run.  *)
(***************************************************************************)
EXTENDS EventEngine

CONSTANTS p1, p2

VARIABLES
    part,   \* what this behaviour follows
    \* the variables of FlowRuns
    live, table, traces, claims, flows, enabled, commands, log, position, now, last, cause, since,
    updates, deaths, step, replaying, chore, clock, work, matching, run, row, timer, result,
    cancelled, back

runVars == <<live, table, traces, claims, flows, enabled, commands, log, position, now, last, cause,
             since, updates, deaths, step, replaying, chore, clock, work, matching, run, row, timer,
             result, cancelled, back>>
allVars == <<part, vars, runVars>>

MCTwoPublishers == {p1, p2}

\* A queued flow that awaits for ever and has a max-runtime.
Forever == [do |-> "forever", delay |-> 0, times |-> 1, confirm |-> FALSE, on |-> {"press"},
            flow |-> "lamp"]

Runs == INSTANCE FlowRuns WITH
    Flow <- {"lamp"}, Homes <- {{"lamp"}}, Signal <- {"press"}, Mode <- [lamp |-> "queue"],
    MaxQueue <- [lamp |-> 3], Plan <- [lamp |-> <<Forever>>], Runtime <- [lamp |-> 1],
    On <- [lamp |-> {"press"}], At <- [lamp |-> {}], Limit <- 100, MaxTime <- 3, MaxRuns <- 2,
    MaxSignals <- 2, MaxUpdates <- [lamp |-> 0], MaxCrashes <- 1,
    journal <- log, cursor <- position, crashes <- deaths, pc <- step, task <- chore,
    todo <- matching

MCInit ==
    /\ part \in {"events", "runs"}
    /\ Init /\ Runs!Init
    /\ part = "events" => enabled["lamp"]

MCNext ==
    /\ UNCHANGED part
    /\ \/ part = "events" /\ Next /\ UNCHANGED runVars
       \/ part = "runs" /\ Runs!Next /\ UNCHANGED vars

MCSpec == MCInit /\ [][MCNext]_allVars

\* The fairness of the part that is followed.
OnTimeSpec ==
    /\ MCSpec
    /\ WF_vars(part = "events" /\ Engine)
    /\ \A p \in Publisher : WF_vars(part = "events" /\ Publish(p))
    /\ WF_runVars(part = "runs" /\ Runs!Engine)
    /\ WF_runVars(part = "runs" /\ Runs!Tick)
    /\ SF_runVars(part = "runs" /\ Runs!TakeEvent)
    /\ SF_runVars(part = "runs" /\ Runs!TakeTick)

-----------------------------------------------------------------------------

\* A run with a max-runtime ends and frees its queue (FlowRuns).
RunsEnd == part = "runs" => Runs!RunsEnd
=============================================================================
