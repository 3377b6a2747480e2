--------------------------- MODULE FlowDefinitions ---------------------------
(***************************************************************************)
(* The definitions of the automations and those who write them: the API    *)
(* (create and update), an assistant that switches an automation on or off *)
(* (set_automation_enabled) and a flow that does so (set_enabled_from_flow).*)
(* Each of them reads a definition in one transaction and writes a whole   *)
(* one in another.                                                         *)
(*                                                                         *)
(* Abstractions.  A source stands for its text, its AST, its hash and its  *)
(* name.  Whether a source is valid depends on the entities of the home,   *)
(* which FlowValidation and Registry describe: here it is a choice.          *)
(* MaxWrites bounds the model.                                             *)
(***************************************************************************)
EXTENDS Naturals, Sequences

CONSTANTS
    FlowId,         \* automations
    Source,         \* texts of definitions
    Writer,         \* requests and runs that change definitions
    MaxWrites       \* bound: definitions ever written

ASSUME FlowsAssumption == FlowId # {} /\ MaxWrites \in Nat

VARIABLES
    flows,          \* durable: the definitions
    flowEvents,     \* durable: FlowCreated and FlowUpdated, oldest first
    draft,          \* what each writer has read and will write
    step,           \* where each writer is
    overlapped      \* history: automations written from a stale read

flowVars == <<flows, flowEvents, draft, step, overlapped>>

-----------------------------------------------------------------------------

NoFlow == [revision |-> 0, source |-> "none", enabled |-> FALSE]
Definition == [revision : 0..MaxWrites, source : Source \cup {"none"}, enabled : BOOLEAN]
Draft == [flow : FlowId, source : Source \cup {"none"}, enabled : BOOLEAN,
          base : 0..MaxWrites, seen : 0..MaxWrites]

Exists(f) == flows[f].revision # 0

FlowInit ==
    /\ flows = [f \in FlowId |-> NoFlow]
    /\ flowEvents = <<>>
    /\ draft = [w \in Writer |->
                  [flow |-> CHOOSE f \in FlowId : TRUE, source |-> "none",
                   enabled |-> FALSE, base |-> 0, seen |-> 0]]
    /\ step = [w \in Writer |-> "idle"]
    /\ overlapped = {}

\* create_flow or update_flow: the row and its event in one transaction.
Store(f, definition) ==
    /\ Len(flowEvents) < MaxWrites
    /\ flows' = [flows EXCEPT ![f] = definition]
    /\ flowEvents' = Append(flowEvents, [flow |-> f, definition |-> definition])

CreateFlow(f, source, enabled) ==
    /\ ~Exists(f)
    /\ Store(f, [revision |-> 1, source |-> source, enabled |-> enabled])
    /\ UNCHANGED <<draft, step, overlapped>>

\* FlowService::update, first half, called with a source: the revision is read
\* and the source parsed and validated, which may refuse it.
ReadForUpdate(w, f, source, enabled, seen) ==
    /\ Exists(f)
    /\ \/ /\ draft' = [draft EXCEPT ![w] =
                [flow |-> f, source |-> source, enabled |-> enabled,
                 base |-> flows[f].revision, seen |-> seen]]
          /\ step' = [step EXCEPT ![w] = "write"]
       \/ step' = [step EXCEPT ![w] = "idle"] /\ UNCHANGED draft
    /\ UNCHANGED <<flows, flowEvents, overlapped>>

\* PUT /automations/{id}.
Update(w, f, source, enabled) ==
    /\ step[w] = "idle"
    /\ ReadForUpdate(w, f, source, enabled, flows[f].revision)

\* set_automation_enabled reads the definition for its source ...
ReadSource(w, f, enabled) ==
    /\ step[w] = "idle"
    /\ Exists(f)
    /\ draft' = [draft EXCEPT ![w] =
          [flow |-> f, source |-> flows[f].source, enabled |-> enabled,
           base |-> 0, seen |-> flows[f].revision]]
    /\ step' = [step EXCEPT ![w] = "update"]
    /\ UNCHANGED <<flows, flowEvents, overlapped>>

\* ... and hands it to update, which reads the definition again.
UpdateWithSource(w) ==
    /\ step[w] = "update"
    /\ ReadForUpdate(w, draft[w].flow, draft[w].source, draft[w].enabled, draft[w].seen)

\* set_enabled_from_flow copies the definition, unless it is as asked already.
ReadForFlow(w, f, enabled) ==
    /\ step[w] = "idle"
    /\ Exists(f)
    /\ flows[f].enabled # enabled
    /\ draft' = [draft EXCEPT ![w] =
          [flow |-> f, source |-> flows[f].source, enabled |-> enabled,
           base |-> flows[f].revision, seen |-> flows[f].revision]]
    /\ step' = [step EXCEPT ![w] = "write"]
    /\ UNCHANGED <<flows, flowEvents, overlapped>>

\* Mutant: the revision is not raised.
NextRevisionSame(w) == draft[w].base

\* The revision of the definition that was read, plus one.
NextRevision(w) == draft[w].base + 1

\* update_flow writes the whole definition, whatever the row holds by now.
WriteFlow(w) ==
    /\ step[w] = "write"
    /\ LET f == draft[w].flow
       IN  /\ NextRevision(w) <= MaxWrites
           /\ Store(f, [revision |-> NextRevision(w), source |-> draft[w].source,
                        enabled |-> draft[w].enabled])
           /\ overlapped' = IF draft[w].seen # flows[f].revision
                               THEN overlapped \cup {f} ELSE overlapped
    /\ step' = [step EXCEPT ![w] = "idle"]
    /\ UNCHANGED draft

\* The process dies: the writes that were to come do not.
ForgetDrafts ==
    /\ step' = [w \in Writer |-> "idle"]
    /\ UNCHANGED <<flows, flowEvents, draft, overlapped>>

FlowNext ==
    \/ \E f \in FlowId, source \in Source, enabled \in BOOLEAN :
          \/ CreateFlow(f, source, enabled)
          \/ \E w \in Writer : Update(w, f, source, enabled)
    \/ \E w \in Writer, f \in FlowId, enabled \in BOOLEAN :
          ReadSource(w, f, enabled) \/ ReadForFlow(w, f, enabled)
    \/ \E w \in Writer : UpdateWithSource(w) \/ WriteFlow(w)
    \/ ForgetDrafts

FlowSpec == FlowInit /\ [][FlowNext]_flowVars

-----------------------------------------------------------------------------
(* Properties. *)

FlowTypeOK ==
    /\ flows \in [FlowId -> Definition]
    /\ flowEvents \in Seq([flow : FlowId, definition : Definition])
    /\ draft \in [Writer -> Draft]
    /\ step \in [Writer -> {"idle", "update", "write"}]
    /\ overlapped \subseteq FlowId

Written(f) == {i \in 1..Len(flowEvents) : flowEvents[i].flow = f}

Revision(i) == flowEvents[i].definition.revision

\* automation/0001: a new definition is atomic and versioned.  Until a writer
\* overlaps another one, the revisions of an automation number its definitions
\* 1, 2, 3 ... in the order of the journal, whoever writes and whoever dies,
\* and the store holds the last one.
RevisionsNumberDefinitions ==
    \A f \in FlowId \ overlapped : \A i \in Written(f) :
        /\ (\A j \in Written(f) : i <= j) => Revision(i) = 1
        /\ (\A j \in Written(f) : j <= i) => flows[f] = flowEvents[i].definition
        /\ \A j \in Written(f) :
              i < j /\ (\A k \in Written(f) : k <= i \/ j <= k) => Revision(j) = Revision(i) + 1
=============================================================================
