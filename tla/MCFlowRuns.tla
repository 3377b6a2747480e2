------------------------------ MODULE MCFlowRuns ------------------------------
(***************************************************************************)
(* Instances of FlowRuns for TLC.  A home has one of the sets of flows     *)
(* below, each of which is there for one way a run can be interrupted.     *)
(***************************************************************************)
EXTENDS FlowRuns

Act(kind, delay) ==
    [do |-> kind, delay |-> delay, times |-> 2, confirm |-> FALSE, on |-> {"press"},
     flow |-> "lamp"]

MCPlan == [
    line  |-> <<Act("wait", 1), Act("command", 0)>>,
    again |-> <<Act("command", 0), Act("wait", 1), Act("command", 0)>>,
    sure  |-> <<Act("reported", 1), Act("command", 0)>>,
    retry |-> <<Act("retry", 1)>>,
    lamp  |-> <<Act("await", 2)>>,
    door  |-> <<Act("deactivate", 0), Act("forever", 0)>>]

MCFlow == DOMAIN MCPlan

MCHomes == {{"line"}, {"again"}, {"sure"}, {"retry"}, {"lamp", "door"}}

MCMode == [f \in MCFlow |-> CASE f = "line" -> "queue" [] f = "again" -> "restart" [] OTHER -> "single"]
MCMaxQueue == [f \in MCFlow |-> 2]
MCRuntime == [f \in MCFlow |-> IF f = "again" THEN 2 ELSE 0]
MCOn == [f \in MCFlow |-> {"press"}]
MCAt == [f \in MCFlow |-> IF f = "line" THEN {1} ELSE {}]
MCMaxUpdates == [f \in MCFlow |-> IF f = "line" THEN 1 ELSE 0]

\* A flow of a single command.
OnePlan == [lamp |-> <<Act("command", 0)>>]
OneMode == [lamp |-> "single"]

\* A retry of a command that asks for its confirmation.
ConfirmPlan == [lamp |-> <<[Act("retry", 1) EXCEPT !.confirm = TRUE]>>]

Everywhere(x) == [f \in Flow |-> x]
Zero == Everywhere(0)
Three == Everywhere(3)
OnPress == Everywhere({"press"})
NotScheduled == Everywhere({})
AllFlows == {Flow}
=============================================================================
