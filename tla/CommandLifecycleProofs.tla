----------------------- MODULE CommandLifecycleProofs ------------------------
(***************************************************************************)
(* Proofs about CommandLifecycle, for any callers, keys, entities, values  *)
(* and bounds, and that it implements CommandContract: the refinement that *)
(* the run MCCommandContract checks on an instance.                        *)
(***************************************************************************)
EXTENDS CommandLifecycle, SequenceTheorems, TLAPS

USE DEF Pending, Settled, CommandStatus

-----------------------------------------------------------------------------
(* Helpers: what the operators of the module return. *)

LEMMA RowsType ==
  ASSUME commands \in Seq(Command)
  PROVE  /\ Rows \subseteq Nat
         /\ Len(commands) \in Nat
         /\ \A i \in Rows : commands[i] \in Command
BY DEF Rows

\* Rewriting the status of a set of rows keeps a table of the same length,
\* touches no other field and no other row.
LEMMA SetStatusRows ==
  ASSUME commands \in Seq(Command), NEW S, NEW s \in CommandStatus
  PROVE  /\ SetStatus(S, s) \in Seq(Command)
         /\ Len(SetStatus(S, s)) = Len(commands)
         /\ \A i \in Rows :
              /\ SetStatus(S, s)[i].key = commands[i].key
              /\ SetStatus(S, s)[i].entity = commands[i].entity
              /\ SetStatus(S, s)[i].value = commands[i].value
              /\ SetStatus(S, s)[i].at = commands[i].at
              /\ SetStatus(S, s)[i].status = IF i \in S THEN s ELSE commands[i].status
<1> DEFINE new(i) == IF i \in S THEN [commands[i] EXCEPT !.status = s] ELSE commands[i]
<1>1. Len(commands) \in Nat /\ \A i \in Rows : commands[i] \in Command
  BY RowsType
<1>2. ASSUME NEW i \in Rows
      PROVE  /\ new(i) \in Command
             /\ new(i).key = commands[i].key
             /\ new(i).entity = commands[i].entity
             /\ new(i).value = commands[i].value
             /\ new(i).at = commands[i].at
             /\ new(i).status = IF i \in S THEN s ELSE commands[i].status
  BY <1>1 DEF Command
<1>3. SetStatus(S, s) = [i \in 1..Len(commands) |-> new(i)]
  BY DEF SetStatus, Rows
<1> HIDE DEF new
<1>4. SetStatus(S, s) \in Seq(Command) /\ Len(SetStatus(S, s)) = Len(commands)
  BY <1>1, <1>2, <1>3 DEF Rows
<1>. QED
  BY <1>2, <1>3, <1>4 DEF Rows

\* The rows a report confirms or a tick expires are rows of the table.
LEMMA SelectedRows ==
  ASSUME NEW e, NEW v
  PROVE  Confirmable(e, v) \subseteq Rows /\ Stale \subseteq Rows
BY DEF Confirmable, Stale

LEMMA ChangedType ==
  ASSUME NEW S \in SUBSET Nat, NEW s \in CommandStatus
  PROVE  Changed(S, s) \subseteq [row : Nat, status : CommandStatus]
BY DEF Changed

LEMMA LogType ==
  ASSUME journal \in Seq(Entry),
         NEW reports \in SUBSET [entity : Entity, value : Value, at : Time, version : Nat],
         NEW changes \in SUBSET [row : Nat, status : CommandStatus],
         Log(reports, changes)
  PROVE  /\ journal' \in Seq(Entry)
         /\ Len(journal') = Len(journal) + 1
         /\ \A n \in 1..Len(journal) : journal'[n] = journal[n]
         /\ journal'[Len(journal) + 1].reports = reports
         /\ journal'[Len(journal) + 1].changes = changes
<1>1. [reports |-> reports, changes |-> changes] \in Entry
  BY DEF Entry
<1>. QED
  BY <1>1, AppendProperties DEF Log

-----------------------------------------------------------------------------
(* Type correctness. *)

LEMMA InitType == Init => TypeOK
<1> SUFFICES ASSUME Init PROVE TypeOK
  OBVIOUS
<1>1. NoState \in StateProperty
  BY ConstantsAssumption DEF NoState, StateProperty, Time
<1>2. 0 \in Time
  BY ConstantsAssumption DEF Time
<1>. QED
  BY <1>1, <1>2, EmptySeq, Zenon DEF Init, TypeOK, DeviceStatus, CallState

LEMMA NextType == TypeOK /\ [Next]_vars => TypeOK'
<1> SUFFICES ASSUME TypeOK, [Next]_vars PROVE TypeOK'
  OBVIOUS
<1>0. /\ commands \in Seq(Command) /\ journal \in Seq(Entry)
      /\ state \in [Entity -> StateProperty]
      /\ device \in [Entity -> DeviceStatus]
      /\ delivered \in [IdemKey -> Nat]
      /\ now \in Time /\ ask \in [Caller -> Request]
      /\ pc \in [Caller -> CallState] /\ at \in [Caller -> Time]
      /\ row \in [Caller -> Nat]
  BY DEF TypeOK
<1>1. ASSUME NEW c \in Caller, Lookup(c) PROVE TypeOK'
  BY <1>0, <1>1 DEF Lookup, TypeOK, CallState, Running, Returned, store
<1>2. ASSUME NEW c \in Caller, Check(c) PROVE TypeOK'
  BY <1>0, <1>2 DEF Check, TypeOK, CallState, Running, Returned, store
<1>3. ASSUME NEW c \in Caller, Create(c) PROVE TypeOK'
  <2>1. UNCHANGED <<state, device, delivered, now, ask, at>>
    BY <1>3 DEF Create
  <2>2. pc' \in [Caller -> CallState]
    BY <1>0, <1>3 DEF Create, CallState, Running, Returned
  <2>3. CASE KeyIsFree(ask[c].key)
    <3>1. RowOf(c) \in Command
      BY <1>0 DEF RowOf, Command, Request
    <3>2. commands' \in Seq(Command)
      <4>1. commands' = Append(commands, RowOf(c))
        BY <1>3, <2>3 DEF Create
      <4>. QED  BY <1>0, <3>1, <4>1, AppendProperties
    <3>3. Len(commands) + 1 \in Nat
      BY <1>0, LenProperties
    <3>4. row' \in [Caller -> Nat]
      BY <1>0, <1>3, <2>3, <3>3 DEF Create
    <3>5. Changed({Len(commands) + 1}, "requested") \in SUBSET [row : Nat, status : CommandStatus]
      BY <3>3, ChangedType
    <3>6. Log({}, Changed({Len(commands) + 1}, "requested"))
      BY <1>3, <2>3 DEF Create
    <3>7. journal' \in Seq(Entry)
      BY <1>0, <3>5, <3>6, LogType
    <3>. QED  BY <1>0, <2>1, <2>2, <3>2, <3>4, <3>7 DEF TypeOK
  <2>4. CASE ~KeyIsFree(ask[c].key)
    BY <1>0, <1>3, <2>1, <2>2, <2>4 DEF Create, TypeOK
  <2>. QED  BY <2>3, <2>4
<1>4. ASSUME NEW c \in Caller, Deliver(c) PROVE TypeOK'
  <2>1. ask[c].key \in IdemKey
    BY <1>0 DEF Request
  <2>. QED  BY <1>0, <1>4, <2>1 DEF Deliver, TypeOK, CallState, Running, Returned, store
<1>5. ASSUME NEW c \in Caller, Refuse(c) PROVE TypeOK'
  BY <1>0, <1>5 DEF Refuse, TypeOK, CallState, Running, Returned, store
<1>6. ASSUME NEW i \in Nat, NEW s \in CommandStatus, Transition(i, s)
      PROVE  commands' \in Seq(Command) /\ journal' \in Seq(Entry)
  <2>1. commands' \in Seq(Command)
    BY <1>0, <1>6, SetStatusRows DEF Transition
  <2>2. Changed({i}, s) \in SUBSET [row : Nat, status : CommandStatus]
    BY ChangedType
  <2>. QED  BY <1>0, <1>6, <2>1, <2>2, LogType DEF Transition
<1>7. ASSUME NEW c \in Caller, Ack(c) PROVE TypeOK'
  <2>1. row[c] \in Nat
    BY <1>0
  <2>2. commands' \in Seq(Command) /\ journal' \in Seq(Entry)
    BY <1>6, <1>7, <2>1 DEF Ack
  <2>. QED  BY <1>0, <1>7, <2>2 DEF Ack, TypeOK, CallState, Running, Returned
<1>8. ASSUME NEW S \in SUBSET Rows, NEW s \in CommandStatus
      PROVE  Changed(S, s) \in SUBSET [row : Nat, status : CommandStatus]
  BY <1>0, RowsType, ChangedType
<1>9. ASSUME NEW e \in Entity, NEW v \in Value, NEW t \in Time, Report(e, v, t)
      PROVE  TypeOK'
  <2>1. state[e].version + 1 \in Nat
    BY <1>0 DEF StateProperty
  <2>2. state' \in [Entity -> StateProperty]
    BY <1>0, <1>9, <2>1 DEF Report, StateProperty
  <2>3. commands' \in Seq(Command)
    BY <1>0, <1>9, SetStatusRows DEF Report
  <2>4. {[entity |-> e, value |-> v, at |-> t, version |-> state[e].version + 1]}
           \in SUBSET [entity : Entity, value : Value, at : Time, version : Nat]
    BY <2>1
  <2>5. journal' \in Seq(Entry)
    BY <1>0, <1>8, <1>9, <2>4, SelectedRows, LogType DEF Report
  <2>. QED  BY <1>0, <1>9, <2>2, <2>3, <2>5 DEF Report, TypeOK, calls
<1>10. ASSUME Expire PROVE TypeOK'
  <2>1. commands' \in Seq(Command)
    BY <1>0, <1>10, SetStatusRows DEF Expire
  <2>2. journal' \in Seq(Entry)
    BY <1>0, <1>8, <1>10, SelectedRows, LogType DEF Expire
  <2>. QED  BY <1>0, <1>10, <2>1, <2>2 DEF Expire, TypeOK, calls
<1>11. ASSUME NEW s \in DeviceStatus, SetAdapterDevicesStatus(s) PROVE TypeOK'
  BY <1>0, <1>11 DEF SetAdapterDevicesStatus, TypeOK, calls, DeviceStatus
<1>12. ASSUME NEW e \in Entity, RemoveDevice(e) \/ RegisterDiscovery(e) PROVE TypeOK'
  BY <1>0, <1>12 DEF RemoveDevice, RegisterDiscovery, TypeOK, calls, DeviceStatus
<1>13. ASSUME Tick PROVE TypeOK'
  BY <1>0, <1>13, ConstantsAssumption DEF Tick, TypeOK, store, calls, Time
<1>14. ASSUME Crash PROVE TypeOK'
  BY <1>0, <1>14 DEF Crash, TypeOK, store, CallState, Running, Returned
<1>15. CASE UNCHANGED vars
  BY <1>0, <1>15 DEF vars, TypeOK
<1>. QED
  BY <1>1, <1>2, <1>3, <1>4, <1>5, <1>7, <1>9, <1>10, <1>11, <1>12, <1>13, <1>14, <1>15
     DEF Next, Proceed

\* Every variable keeps its type: the rows, the projection and the journal
\* hold what the code writes into them, under any schedule.
THEOREM TypeCorrect == Spec => []TypeOK
BY InitType, NextType, PTL DEF Spec

-----------------------------------------------------------------------------
(* At most one delivery per key. *)

DeliveryInv == TypeOK /\ Ownership /\ OneDeliveryPerKey

LEMMA InitDelivery == Init => DeliveryInv
<1> SUFFICES ASSUME Init PROVE Ownership /\ OneDeliveryPerKey
  BY InitType DEF DeliveryInv
<1>1. Rows = {}
  BY DEF Init, Rows
<1>. QED
  BY <1>1 DEF Init, Ownership, OneDeliveryPerKey, Owns

\* A step that keeps the keys of the table, the deliveries and who owns what.
LEMMA OwnershipStable ==
  ASSUME DeliveryInv,
         Len(commands') = Len(commands),
         \A i \in Rows : commands'[i].key = commands[i].key,
         UNCHANGED <<delivered, ask, row>>,
         \A c \in Caller :
            /\ pc'[c] \in {"created", "sent", "refused"} => pc[c] \in {"created", "sent", "refused"}
            /\ pc'[c] = "created" => pc[c] = "created"
            /\ pc'[c] = "sent" => pc[c] = "sent"
  PROVE  Ownership' /\ OneDeliveryPerKey'
<1>1. Rows' = Rows
  BY DEF Rows
<1>2. \A k : Found(k)' = Found(k)
  BY <1>1 DEF Found
<1>. QED
  BY <1>1, <1>2 DEF DeliveryInv, Ownership, Owns, OneDeliveryPerKey

LEMMA NextDelivery == DeliveryInv /\ [Next]_vars => DeliveryInv'
<1> SUFFICES ASSUME DeliveryInv, [Next]_vars PROVE Ownership' /\ OneDeliveryPerKey'
  BY NextType DEF DeliveryInv
<1>0. TypeOK /\ Ownership /\ OneDeliveryPerKey
  BY DEF DeliveryInv
<1>1. /\ commands \in Seq(Command) /\ Len(commands) \in Nat
      /\ pc \in [Caller -> CallState] /\ row \in [Caller -> Nat]
      /\ delivered \in [IdemKey -> Nat] /\ ask \in [Caller -> Request]
  BY <1>0, RowsType DEF TypeOK
<1>2. ASSUME NEW c \in Caller, Lookup(c) PROVE Ownership' /\ OneDeliveryPerKey'
  BY <1>1, <1>2, OwnershipStable DEF Lookup, store
<1>3. ASSUME NEW c \in Caller, Check(c) PROVE Ownership' /\ OneDeliveryPerKey'
  BY <1>1, <1>3, OwnershipStable DEF Check, store
<1>4. ASSUME NEW c \in Caller, Create(c) PROVE Ownership' /\ OneDeliveryPerKey'
  <2>1. CASE ~KeyIsFree(ask[c].key)
    BY <1>1, <1>4, <2>1, OwnershipStable DEF Create
  <2>2. CASE KeyIsFree(ask[c].key)
    <3> DEFINE new == Len(commands) + 1
    <3>1. /\ commands' = Append(commands, RowOf(c))
          /\ row' = [row EXCEPT ![c] = new]
          /\ pc' = [pc EXCEPT ![c] = "created"]
          /\ UNCHANGED <<delivered, ask>>
      BY <1>4, <2>2 DEF Create
    <3>2. RowOf(c) \in Command /\ RowOf(c).key = ask[c].key /\ ask[c].key \in IdemKey
      BY <1>0 DEF RowOf, Command, Request, TypeOK
    <3>3. /\ Len(commands') = new
          /\ \A i \in Rows : commands'[i] = commands[i]
          /\ commands'[new].key = ask[c].key
      BY <1>1, <3>1, <3>2, AppendProperties DEF Rows
    <3>4. Rows' = Rows \cup {new} /\ new \notin Rows
      BY <1>1, <3>3 DEF Rows
    <3>5. \A i \in Rows : commands[i].key # ask[c].key
      BY <2>2 DEF KeyIsFree, Found
    <3>6. delivered[ask[c].key] = 0
      <4>1. delivered[ask[c].key] # 1
        BY <1>0, <2>2, <3>2 DEF OneDeliveryPerKey, KeyIsFree
      <4>. QED  BY <1>0, <1>1, <3>2, <4>1 DEF OneDeliveryPerKey
    <3>7. \A i, j \in Rows' : commands'[i].key = commands'[j].key => i = j
      BY <1>0, <3>3, <3>4, <3>5 DEF Ownership
    <3>8. \A d \in Caller : pc'[d] \in {"created", "sent", "refused"} =>
            /\ row'[d] \in Rows'
            /\ commands'[row'[d]].key = ask'[d].key
            /\ pc'[d] = "created" => delivered'[ask'[d].key] = 0
            /\ pc'[d] = "sent" => delivered'[ask'[d].key] = 1
      BY <1>0, <1>1, <3>1, <3>3, <3>4, <3>6 DEF Ownership
    <3>9. \A d \in Caller, i \in Rows' : d # c =>
             /\ Owns(d, i)' => Owns(d, i) /\ i \in Rows
             /\ ~Owns(c, i)' \/ i = new
      BY <1>0, <1>1, <3>1, <3>4 DEF Owns, Ownership
    <3>10. \A d, f \in Caller, i \in Rows' : Owns(d, i)' /\ Owns(f, i)' => d = f
      BY <1>0, <3>4, <3>9 DEF Ownership
    <3>11. Ownership'
      BY <3>7, <3>8, <3>10 DEF Ownership
    <3>12. \A k \in IdemKey : Found(k) \subseteq Found(k)'
      BY <3>3, <3>4 DEF Found
    <3>13. OneDeliveryPerKey'
      BY <1>0, <3>1, <3>12 DEF OneDeliveryPerKey
    <3>. QED  BY <3>11, <3>13
  <2>. QED  BY <2>1, <2>2
<1>5. ASSUME NEW c \in Caller, Deliver(c) PROVE Ownership' /\ OneDeliveryPerKey'
  <2>1. /\ pc[c] = "created" /\ pc' = [pc EXCEPT ![c] = "sent"]
        /\ delivered' = [delivered EXCEPT ![ask[c].key] = @ + 1]
        /\ UNCHANGED <<commands, ask, row>>
    BY <1>5 DEF Deliver, store
  <2>2. ask[c].key \in IdemKey /\ delivered[ask[c].key] = 0
    BY <1>0, <1>1, <2>1 DEF Ownership, Request
  <2>3. row[c] \in Rows /\ commands[row[c]].key = ask[c].key
    BY <1>0, <2>1 DEF Ownership
  <2>4. Rows' = Rows /\ \A k : Found(k)' = Found(k)
    BY <2>1 DEF Rows, Found
  <2>5. OneDeliveryPerKey'
    BY <1>0, <1>1, <2>1, <2>2, <2>3, <2>4 DEF OneDeliveryPerKey, Found
  <2>6. \A d \in Caller : pc'[d] = "created" => ask[d].key # ask[c].key
    BY <1>0, <1>1, <2>1, <2>3 DEF Ownership, Owns
  <2>7. \A d \in Caller : pc'[d] \in {"created", "sent", "refused"} =>
            /\ row[d] \in Rows
            /\ commands[row[d]].key = ask[d].key
            /\ pc'[d] = "created" => delivered'[ask[d].key] = 0
            /\ pc'[d] = "sent" => delivered'[ask[d].key] = 1
    BY <1>0, <1>1, <2>1, <2>2, <2>6 DEF Ownership, Request
  <2>8. \A d \in Caller, i \in Rows : Owns(d, i)' => Owns(d, i)
    BY <1>1, <2>1 DEF Owns
  <2>9. Ownership'
    BY <1>0, <2>1, <2>4, <2>7, <2>8 DEF Ownership
  <2>. QED  BY <2>5, <2>9
<1>6. ASSUME NEW c \in Caller, Refuse(c) PROVE Ownership' /\ OneDeliveryPerKey'
  BY <1>1, <1>6, OwnershipStable DEF Refuse, store
<1>7. ASSUME NEW c \in Caller, Ack(c) PROVE Ownership' /\ OneDeliveryPerKey'
  <2>1. Len(commands') = Len(commands) /\ \A i \in Rows : commands'[i].key = commands[i].key
    BY <1>1, <1>7, SetStatusRows DEF Ack, Transition
  <2>. QED  BY <1>1, <1>7, <2>1, OwnershipStable DEF Ack
<1>8. ASSUME NEW e \in Entity, NEW v \in Value, NEW t \in Time, Report(e, v, t)
      PROVE  Ownership' /\ OneDeliveryPerKey'
  <2>1. Len(commands') = Len(commands) /\ \A i \in Rows : commands'[i].key = commands[i].key
    BY <1>1, <1>8, SetStatusRows DEF Report
  <2>. QED  BY <1>1, <1>8, <2>1, OwnershipStable DEF Report, calls
<1>9. ASSUME Expire PROVE Ownership' /\ OneDeliveryPerKey'
  <2>1. Len(commands') = Len(commands) /\ \A i \in Rows : commands'[i].key = commands[i].key
    BY <1>1, <1>9, SetStatusRows DEF Expire
  <2>. QED  BY <1>1, <1>9, <2>1, OwnershipStable DEF Expire, calls
<1>10. ASSUME \/ \E s \in DeviceStatus : SetAdapterDevicesStatus(s)
              \/ \E e \in Entity : RemoveDevice(e) \/ RegisterDiscovery(e)
              \/ Tick \/ UNCHANGED vars
       PROVE  Ownership' /\ OneDeliveryPerKey'
  <2>1. UNCHANGED <<commands, delivered, calls>>
    BY <1>10 DEF SetAdapterDevicesStatus, RemoveDevice, RegisterDiscovery, Tick, store, vars, calls
  <2>. QED  BY <2>1, OwnershipStable DEF calls
<1>11. ASSUME Crash PROVE Ownership' /\ OneDeliveryPerKey'
  BY <1>1, <1>11, OwnershipStable DEF Crash, store, Running
<1>. QED
  BY <1>2, <1>3, <1>4, <1>5, <1>6, <1>7, <1>8, <1>9, <1>10, <1>11 DEF Next, Proceed

\* However many calls share a key, and wherever the process dies, the adapter
\* gets the command of a key at most once, and only if it is in the store.
THEOREM DeliveredAtMostOnce == Spec => []OneDeliveryPerKey
<1>1. Spec => []DeliveryInv
  BY InitDelivery, NextDelivery, PTL DEF Spec
<1>. QED
  BY <1>1, PTL DEF DeliveryInv
-----------------------------------------------------------------------------
(* A settled command nobody is working on stays settled. *)

LEMMA NextSettled ==
  DeliveryInv /\ [Next]_vars =>
     [\A i \in Rows : commands[i].status \in Settled /\ ~InFlight(i)
         => commands'[i].status = commands[i].status]_vars
<1> SUFFICES ASSUME DeliveryInv, Next,
                    NEW i \in Rows, commands[i].status \in Settled, ~InFlight(i)
             PROVE  commands'[i].status = commands[i].status
  OBVIOUS
<1>1. /\ commands \in Seq(Command) /\ TypeOK /\ Ownership
  BY DEF DeliveryInv, TypeOK
<1>2. ASSUME NEW c \in Caller, Create(c) PROVE commands'[i].status = commands[i].status
  <2>1. CASE UNCHANGED commands
    BY <2>1
  <2>2. CASE commands' = Append(commands, RowOf(c))
    <3>1. RowOf(c) \in Command
      BY <1>1 DEF RowOf, Command, Request, TypeOK
    <3>. QED  BY <1>1, <2>2, <3>1, AppendProperties DEF Rows
  <2>. QED  BY <1>2, <2>1, <2>2 DEF Create
<1>3. ASSUME NEW c \in Caller, Ack(c) PROVE commands'[i].status = commands[i].status
  <2>1. row[c] # i
    BY <1>3 DEF Ack, InFlight, Owns
  <2>. QED  BY <1>1, <1>3, <2>1, SetStatusRows DEF Ack, Transition
<1>4. ASSUME NEW e \in Entity, NEW v \in Value, NEW t \in Time, Report(e, v, t)
      PROVE  commands'[i].status = commands[i].status
  <2>1. i \notin Confirmable(e, v)
    BY DEF Confirmable
  <2>. QED  BY <1>1, <1>4, <2>1, SetStatusRows DEF Report
<1>5. ASSUME Expire PROVE commands'[i].status = commands[i].status
  <2>1. i \notin Stale
    BY DEF Stale
  <2>. QED  BY <1>1, <1>5, <2>1, SetStatusRows DEF Expire
<1>6. CASE UNCHANGED commands
  BY <1>6
<1>. QED
  BY <1>2, <1>3, <1>4, <1>5, <1>6
     DEF Next, Proceed, Lookup, Check, Deliver, Refuse, SetAdapterDevicesStatus,
         RemoveDevice, RegisterDiscovery, Tick, Crash, store

\* After the call that created it has returned or died, a confirmed, failed or
\* expired command is never touched again.
THEOREM SettledStaysSettled == Spec => SettledIsFinal
<1>1. Spec => []DeliveryInv
  BY InitDelivery, NextDelivery, PTL DEF Spec
<1>. QED
  BY <1>1, NextSettled, PTL DEF Spec, SettledIsFinal

-----------------------------------------------------------------------------
(* The journal explains the table of commands. *)

\* One transaction that gives the status s to the rows of S and logs it.
LEMMA LoggedStatus ==
  ASSUME TypeOK, JournalExplainsCommands,
         NEW S \in SUBSET Rows, NEW s \in CommandStatus,
         NEW reports \in SUBSET [entity : Entity, value : Value, at : Time, version : Nat],
         commands' = SetStatus(S, s), Log(reports, Changed(S, s))
  PROVE  JournalExplainsCommands'
<1>1. commands \in Seq(Command) /\ journal \in Seq(Entry) /\ Len(journal) \in Nat
  BY RowsType DEF TypeOK
<1>2. Changed(S, s) \in SUBSET [row : Nat, status : CommandStatus]
  BY <1>1, RowsType, ChangedType
<1>3. /\ Len(journal') = Len(journal) + 1
      /\ \A n \in 1..Len(journal) : journal'[n] = journal[n]
      /\ journal'[Len(journal) + 1].changes = Changed(S, s)
  BY <1>1, <1>2, LogType
<1>4. /\ Len(commands') = Len(commands)
      /\ \A i \in Rows : commands'[i].status = IF i \in S THEN s ELSE commands[i].status
  BY <1>1, SetStatusRows
<1>5. Rows' = Rows
  BY <1>4 DEF Rows
<1>6. ASSUME NEW i \in Rows
      PROVE  \E n \in 1..Len(journal') :
                /\ Gives(journal'[n], i, commands'[i].status)
                /\ \A r \in CommandStatus : Gives(journal'[n], i, r) => r = commands'[i].status
                /\ \A m \in (n+1)..Len(journal') : ~Mentions(journal'[m], i)
  <2> DEFINE last == Len(journal) + 1
  <2>1. CASE i \in S
    <3>1. last \in 1..Len(journal') /\ (last + 1)..Len(journal') = {}
      BY <1>1, <1>3
    <3>2. Gives(journal'[last], i, s)
      BY <1>3, <2>1 DEF Gives, Changed
    <3>3. \A r \in CommandStatus : Gives(journal'[last], i, r) => r = s
      BY <1>3, <2>1 DEF Gives, Changed
    <3>. QED  BY <1>1, <1>4, <2>1, <3>1, <3>2, <3>3
  <2>2. CASE i \notin S
    <3>1. PICK n \in 1..Len(journal) :
            /\ Gives(journal[n], i, commands[i].status)
            /\ \A r \in CommandStatus : Gives(journal[n], i, r) => r = commands[i].status
            /\ \A m \in (n+1)..Len(journal) : ~Mentions(journal[m], i)
      BY DEF JournalExplainsCommands
    <3>2. ~Mentions(journal'[last], i)
      BY <1>3, <2>2 DEF Mentions, Gives, Changed
    <3>3. \A m \in (n+1)..Len(journal') : m \in (n+1)..Len(journal) \/ m = last
      BY <1>1, <1>3
    <3>4. \A m \in (n+1)..Len(journal') : ~Mentions(journal'[m], i)
      BY <1>1, <1>3, <3>1, <3>2, <3>3
    <3>5. n \in 1..Len(journal') /\ journal'[n] = journal[n] /\ commands'[i].status = commands[i].status
      BY <1>1, <1>3, <1>4, <2>2
    <3>. QED  BY <3>1, <3>4, <3>5
  <2>. QED  BY <2>1, <2>2
<1>7. \A n \in 1..Len(journal') : \A ch \in journal'[n].changes : ch.row \in Rows
  BY <1>1, <1>3 DEF JournalExplainsCommands, Changed
<1>. QED
  BY <1>5, <1>6, <1>7 DEF JournalExplainsCommands

\* The same transaction keeps the requests logged, and its confirmations are
\* justified if its own report is.
LEMMA LoggedConfirmation ==
  ASSUME TypeOK, RequestsLogged, ConfirmedByMatchingReport,
         NEW S \in SUBSET Rows, NEW s \in CommandStatus,
         NEW reports \in SUBSET [entity : Entity, value : Value, at : Time, version : Nat],
         commands' = SetStatus(S, s), Log(reports, Changed(S, s)),
         s = "confirmed" => \A i \in S : \E r \in reports :
            r.entity = commands[i].entity /\ r.value = commands[i].value
  PROVE  RequestsLogged' /\ ConfirmedByMatchingReport'
<1> DEFINE last == Len(journal) + 1
<1>1. commands \in Seq(Command) /\ journal \in Seq(Entry) /\ Len(journal) \in Nat
  BY RowsType DEF TypeOK
<1>2. Changed(S, s) \in SUBSET [row : Nat, status : CommandStatus]
  BY <1>1, RowsType, ChangedType
<1>3. /\ Len(journal') = last
      /\ \A n \in 1..Len(journal) : journal'[n] = journal[n]
      /\ journal'[last].changes = Changed(S, s)
      /\ journal'[last].reports = reports
  BY <1>1, <1>2, LogType
<1>4. /\ Rows' = Rows
      /\ \A i \in Rows : /\ commands'[i].entity = commands[i].entity
                         /\ commands'[i].value = commands[i].value
  <2>1. /\ Len(commands') = Len(commands)
        /\ \A i \in Rows : /\ commands'[i].entity = commands[i].entity
                           /\ commands'[i].value = commands[i].value
    BY <1>1, SetStatusRows
  <2>. QED  BY <2>1 DEF Rows
<1>5. ASSUME NEW i \in Rows
      PROVE  \E m \in 1..Len(journal) : Gives(journal[m], i, "requested") /\ Gives(journal'[m], i, "requested")
  BY <1>3 DEF RequestsLogged
<1>6. RequestsLogged'
  BY <1>1, <1>3, <1>4, <1>5 DEF RequestsLogged
<1>7. ASSUME NEW n \in 1..Len(journal'), NEW i \in Rows, Gives(journal'[n], i, "confirmed")
      PROVE  /\ \E r \in journal'[n].reports :
                   r.entity = commands'[i].entity /\ r.value = commands'[i].value
             /\ \E m \in 1..(n-1) : Gives(journal'[m], i, "requested")
  <2>1. CASE n = last
    <3>1. s = "confirmed" /\ i \in S
      BY <1>3, <1>7, <2>1 DEF Gives, Changed
    <3>. QED  BY <1>1, <1>3, <1>4, <1>5, <2>1, <3>1
  <2>2. CASE n \in 1..Len(journal)
    <3>1. /\ \E r \in journal[n].reports :
                r.entity = commands[i].entity /\ r.value = commands[i].value
          /\ \E m \in 1..(n-1) : Gives(journal[m], i, "requested")
      BY <1>3, <1>7, <2>2 DEF ConfirmedByMatchingReport
    <3>. QED  BY <1>1, <1>3, <1>4, <2>2, <3>1
  <2>. QED  BY <1>1, <1>3, <2>1, <2>2
<1>. QED
  BY <1>4, <1>6, <1>7 DEF ConfirmedByMatchingReport

JournalInv == /\ DeliveryInv
              /\ JournalExplainsCommands
              /\ RequestsLogged
              /\ ConfirmedByMatchingReport

\* The transaction that inserts a row logs its request.
LEMMA CreateLogged ==
  ASSUME JournalInv, NEW c \in Caller,
         commands' = Append(commands, RowOf(c)),
         Log({}, Changed({Len(commands) + 1}, "requested"))
  PROVE  JournalExplainsCommands' /\ RequestsLogged' /\ ConfirmedByMatchingReport'
<1> DEFINE last == Len(journal) + 1
           new == Len(commands) + 1
<1>1. /\ TypeOK /\ commands \in Seq(Command) /\ journal \in Seq(Entry)
      /\ Len(journal) \in Nat /\ Len(commands) \in Nat
  BY RowsType DEF JournalInv, DeliveryInv, TypeOK
<1>2. Changed({new}, "requested") \in SUBSET [row : Nat, status : CommandStatus]
  BY <1>1, ChangedType
<1>3. /\ Len(journal') = last
      /\ \A n \in 1..Len(journal) : journal'[n] = journal[n]
      /\ journal'[last].changes = Changed({new}, "requested")
      /\ \A n \in 1..Len(journal') : n \in 1..Len(journal) \/ n = last
      /\ last \in 1..Len(journal') /\ (last + 1)..Len(journal') = {}
      /\ \A n \in 1..Len(journal) :
            /\ n \in 1..Len(journal')
            /\ \A m \in (n+1)..Len(journal') : m \in (n+1)..Len(journal) \/ m = last
            /\ \A m \in (n+1)..Len(journal) : m \in 1..Len(journal)
            /\ \A m \in 1..(n-1) : m \in 1..Len(journal)
  <2>1. /\ Len(journal') = last
        /\ \A n \in 1..Len(journal) : journal'[n] = journal[n]
        /\ journal'[last].changes = Changed({new}, "requested")
    BY <1>1, <1>2, LogType
  <2>. QED  BY <1>1, <2>1
<1>4. RowOf(c) \in Command /\ RowOf(c).status = "requested"
  BY <1>1 DEF RowOf, Command, Request, TypeOK
<1>5. /\ Len(commands') = new
      /\ \A i \in Rows : commands'[i] = commands[i]
      /\ commands'[new].status = "requested"
  BY <1>1, <1>4, AppendProperties DEF Rows
<1>6. Rows' = Rows \cup {new} /\ new \notin Rows
  BY <1>1, <1>5 DEF Rows
<1>7. /\ \A i, s : Gives(journal'[last], i, s) <=> i = new /\ s = "requested"
      /\ \A i : Mentions(journal'[last], i) <=> i = new
  BY <1>3 DEF Gives, Mentions, Changed
<1>8. \A n \in 1..Len(journal) : \A s : ~Gives(journal[n], new, s)
  BY <1>6 DEF JournalInv, JournalExplainsCommands, Gives
<1> HIDE DEF last, new
<1>9. ASSUME NEW i \in Rows'
      PROVE  \E n \in 1..Len(journal') :
                /\ Gives(journal'[n], i, commands'[i].status)
                /\ \A r \in CommandStatus : Gives(journal'[n], i, r) => r = commands'[i].status
                /\ \A m \in (n+1)..Len(journal') : ~Mentions(journal'[m], i)
  <2>1. CASE i = new
    BY <1>3, <1>5, <1>7, <2>1
  <2>2. CASE i \in Rows
    <3>1. PICK n \in 1..Len(journal) :
            /\ Gives(journal[n], i, commands[i].status)
            /\ \A r \in CommandStatus : Gives(journal[n], i, r) => r = commands[i].status
            /\ \A m \in (n+1)..Len(journal) : ~Mentions(journal[m], i)
      BY <2>2 DEF JournalInv, JournalExplainsCommands
    <3>2. i # new
      BY <1>6, <2>2
    <3>3. \A m \in (n+1)..Len(journal') : ~Mentions(journal'[m], i)
      <4> TAKE m \in (n+1)..Len(journal')
      <4>1. CASE m = last
        BY <1>7, <3>2, <4>1
      <4>2. CASE m \in (n+1)..Len(journal)
        <5>1. journal'[m] = journal[m]
          BY <1>3, <4>2
        <5>. QED  BY <3>1, <4>2, <5>1
      <4>. QED  BY <1>3, <4>1, <4>2
    <3>4. n \in 1..Len(journal') /\ journal'[n] = journal[n] /\ commands'[i] = commands[i]
      BY <1>3, <1>5, <2>2
    <3>. QED  BY <3>1, <3>3, <3>4
  <2>. QED  BY <1>6, <2>1, <2>2
<1>10. \A n \in 1..Len(journal') : \A ch \in journal'[n].changes : ch.row \in Rows'
  <2>1. \A n \in 1..Len(journal) : \A ch \in journal'[n].changes : ch.row \in Rows'
    BY <1>3, <1>6 DEF JournalInv, JournalExplainsCommands
  <2>2. \A ch \in journal'[last].changes : ch.row \in Rows'
    BY <1>3, <1>6 DEF Changed
  <2>. QED  BY <1>3, <2>1, <2>2
<1>11. JournalExplainsCommands'
  BY <1>9, <1>10 DEF JournalExplainsCommands
<1>12. \A i \in Rows' : \E m \in 1..Len(journal') : Gives(journal'[m], i, "requested")
  <2>1. \A i \in Rows : \E m \in 1..Len(journal) : Gives(journal[m], i, "requested")
    BY DEF JournalInv, RequestsLogged
  <2>2. \A i \in Rows : \E m \in 1..Len(journal') : Gives(journal'[m], i, "requested")
    BY <1>3, <2>1
  <2>3. Gives(journal'[last], new, "requested")
    BY <1>7
  <2>. QED  BY <1>3, <1>6, <2>2, <2>3
<1>13. ASSUME NEW n \in 1..Len(journal'), NEW i \in Rows', Gives(journal'[n], i, "confirmed")
       PROVE  /\ \E r \in journal'[n].reports :
                    r.entity = commands'[i].entity /\ r.value = commands'[i].value
              /\ \E m \in 1..(n-1) : Gives(journal'[m], i, "requested")
  <2>1. n \in 1..Len(journal)
    BY <1>1, <1>3, <1>7, <1>13
  <2>2. journal'[n] = journal[n]
    BY <1>3, <2>1
  <2>3. i \in Rows
    BY <1>6, <1>8, <1>13, <2>1, <2>2
  <2>4. /\ \E r \in journal[n].reports :
               r.entity = commands[i].entity /\ r.value = commands[i].value
        /\ \E m \in 1..(n-1) : Gives(journal[m], i, "requested")
    BY <1>13, <2>1, <2>2, <2>3 DEF JournalInv, ConfirmedByMatchingReport
  <2>5. \E m \in 1..(n-1) : Gives(journal'[m], i, "requested")
    BY <1>3, <2>1, <2>4
  <2>. QED  BY <1>5, <2>2, <2>3, <2>4, <2>5
<1>. QED
  BY <1>11, <1>12, <1>13 DEF RequestsLogged, ConfirmedByMatchingReport

LEMMA InitJournal == Init => JournalInv
<1> SUFFICES ASSUME Init
             PROVE  JournalExplainsCommands /\ RequestsLogged /\ ConfirmedByMatchingReport
  BY InitDelivery DEF JournalInv
<1>1. Rows = {} /\ Len(journal) = 0
  BY DEF Init, Rows
<1>. QED
  BY <1>1 DEF JournalExplainsCommands, RequestsLogged, ConfirmedByMatchingReport

LEMMA NextJournal == JournalInv /\ [Next]_vars => JournalInv'
<1> SUFFICES ASSUME JournalInv, [Next]_vars
             PROVE  JournalExplainsCommands' /\ RequestsLogged' /\ ConfirmedByMatchingReport'
  BY NextDelivery DEF JournalInv
<1>1. /\ TypeOK /\ Ownership /\ JournalExplainsCommands
      /\ RequestsLogged /\ ConfirmedByMatchingReport
  BY DEF JournalInv, DeliveryInv
<1>2. CASE UNCHANGED <<commands, journal>>
  <2>1. Rows' = Rows
    BY <1>2 DEF Rows
  <2>. QED
    BY <1>1, <1>2, <2>1 DEF JournalExplainsCommands, RequestsLogged, ConfirmedByMatchingReport
<1>3. ASSUME NEW c \in Caller, Create(c)
      PROVE  JournalExplainsCommands' /\ RequestsLogged' /\ ConfirmedByMatchingReport'
  BY <1>2, <1>3, CreateLogged DEF Create
<1>4. ASSUME NEW c \in Caller, Ack(c)
      PROVE  JournalExplainsCommands' /\ RequestsLogged' /\ ConfirmedByMatchingReport'
  <2>1. {row[c]} \in SUBSET Rows
    BY <1>1, <1>4 DEF Ack, Ownership
  <2>2. PICK s \in {"dispatched", "failed"} : Transition(row[c], s)
    BY <1>4 DEF Ack
  <2>. QED  BY <1>1, <2>1, <2>2, LoggedStatus, LoggedConfirmation DEF Transition
<1>5. ASSUME NEW e \in Entity, NEW v \in Value, NEW t \in Time, Report(e, v, t)
      PROVE  JournalExplainsCommands' /\ RequestsLogged' /\ ConfirmedByMatchingReport'
  <2> DEFINE reports == {[entity |-> e, value |-> v, at |-> t, version |-> state[e].version + 1]}
  <2>1. reports \in SUBSET [entity : Entity, value : Value, at : Time, version : Nat]
    BY <1>1 DEF TypeOK, StateProperty
  <2>2. Confirmable(e, v) \in SUBSET Rows
    BY SelectedRows
  <2>3. \A i \in Confirmable(e, v) : \E r \in reports :
            r.entity = commands[i].entity /\ r.value = commands[i].value
    BY DEF Confirmable
  <2>4. commands' = SetStatus(Confirmable(e, v), "confirmed")
        /\ Log(reports, Changed(Confirmable(e, v), "confirmed"))
    BY <1>5 DEF Report
  <2> HIDE DEF reports
  <2>. QED  BY <1>1, <2>1, <2>2, <2>3, <2>4, LoggedStatus, LoggedConfirmation
<1>6. ASSUME Expire
      PROVE  JournalExplainsCommands' /\ RequestsLogged' /\ ConfirmedByMatchingReport'
  <2>1. Stale \in SUBSET Rows
    BY SelectedRows
  <2>. QED  BY <1>1, <1>6, <2>1, LoggedStatus, LoggedConfirmation DEF Expire
<1>. QED
  BY <1>2, <1>3, <1>4, <1>5, <1>6
     DEF Next, Proceed, Lookup, Check, Deliver, Refuse, SetAdapterDevicesStatus,
         RemoveDevice, RegisterDiscovery, Tick, Crash, store, vars

LEMMA JournalInvariant == Spec => []JournalInv
BY InitJournal, NextJournal, PTL DEF Spec

\* The table of commands is always what a replay of the journal gives: no
\* status without its event, no event without its row.
THEOREM CommandsRebuiltFromJournal == Spec => []JournalExplainsCommands
BY JournalInvariant, PTL DEF JournalInv

\* No command is ever confirmed by anything but a state its device reported,
\* with the value asked for, after the request was journalled.
THEOREM ConfirmationNeedsReport == Spec => []ConfirmedByMatchingReport
BY JournalInvariant, PTL DEF JournalInv

-----------------------------------------------------------------------------
(* The journal and the projection of states. *)

\* What JournalExplainsState says of one entity.
StateInvOf(e) ==
    /\ \A n \in 1..Len(journal) : \A r \in journal[n].reports :
          r.entity = e =>
             /\ r.version \in 1..state[e].version
             /\ r.at <= state[e].at
             /\ r.version = state[e].version =>
                   state[e] = [value |-> r.value, at |-> r.at, version |-> r.version]
    /\ \A n, m \in 1..Len(journal) :
          \A r \in journal[n].reports, q \in journal[m].reports :
             r.entity = e /\ q.entity = e /\ n < m =>
                r.version < q.version /\ r.at <= q.at
    /\ \A v \in 1..state[e].version : \E n \in 1..Len(journal) :
          \E r \in journal[n].reports : r.entity = e /\ r.version = v

\* An entry without a report of the entity changes nothing for it.
LEMMA OtherEntry ==
  ASSUME TypeOK, NEW e \in Entity, StateInvOf(e), state'[e] = state[e],
         NEW reports \in SUBSET [entity : Entity, value : Value, at : Time, version : Nat],
         \A r \in reports : r.entity # e,
         Len(journal') = Len(journal) + 1,
         \A n \in 1..Len(journal) : journal'[n] = journal[n],
         journal'[Len(journal) + 1].reports = reports
  PROVE  StateInvOf(e)'
<1>1. Len(journal) \in Nat
  BY DEF TypeOK
<1>2. \A n \in 1..Len(journal') : n \in 1..Len(journal) \/ n = Len(journal) + 1
  BY <1>1
<1>3. \A n \in 1..Len(journal') : \A r \in journal'[n].reports :
        r.entity = e => n \in 1..Len(journal) /\ r \in journal[n].reports
  BY <1>2
<1>4. 1..Len(journal) \subseteq 1..Len(journal')
  BY <1>1
<1>5. \A n \in 1..Len(journal') : \A r \in journal'[n].reports :
        r.entity = e =>
           /\ r.version \in 1..state'[e].version
           /\ r.at <= state'[e].at
           /\ r.version = state'[e].version =>
                 state'[e] = [value |-> r.value, at |-> r.at, version |-> r.version]
  BY <1>3 DEF StateInvOf
<1>6. \A n, m \in 1..Len(journal') :
        \A r \in journal'[n].reports, q \in journal'[m].reports :
           r.entity = e /\ q.entity = e /\ n < m => r.version < q.version /\ r.at <= q.at
  BY <1>3 DEF StateInvOf
<1>7. \A v \in 1..state'[e].version : \E n \in 1..Len(journal') :
        \E r \in journal'[n].reports : r.entity = e /\ r.version = v
  BY <1>4 DEF StateInvOf
<1>. QED
  BY <1>5, <1>6, <1>7 DEF StateInvOf

\* A report is the next version, at a source time that is not older.
LEMMA ReportedEntry ==
  ASSUME TypeOK, NEW e \in Entity, NEW v \in Value, NEW t \in Time, StateInvOf(e), IsFresh(e, t),
         state'[e] = [value |-> v, at |-> t, version |-> state[e].version + 1],
         Len(journal') = Len(journal) + 1,
         \A n \in 1..Len(journal) : journal'[n] = journal[n],
         journal'[Len(journal) + 1].reports =
            {[entity |-> e, value |-> v, at |-> t, version |-> state[e].version + 1]}
  PROVE  StateInvOf(e)'
<1> DEFINE new == [entity |-> e, value |-> v, at |-> t, version |-> state[e].version + 1]
           last == Len(journal) + 1
<1>1. /\ Len(journal) \in Nat /\ state[e].version \in Nat /\ state[e].at \in Nat /\ t \in Nat
      /\ \A n \in 1..Len(journal) : \A r \in journal[n].reports : r.version \in Nat /\ r.at \in Nat
  <2>1. Len(journal) \in Nat /\ \A n \in 1..Len(journal) : journal[n] \in Entry
    BY DEF TypeOK
  <2>2. Time \subseteq Nat
    BY ConstantsAssumption DEF Time
  <2>3. state[e].version \in Nat /\ state[e].at \in Time
    BY DEF TypeOK, StateProperty
  <2>4. \A n \in 1..Len(journal) : \A r \in journal[n].reports : r.version \in Nat /\ r.at \in Time
    BY <2>1 DEF Entry
  <2>. QED  BY <2>1, <2>2, <2>3, <2>4
<1>2. /\ new.entity = e /\ new.value = v /\ new.at = t /\ new.version = state[e].version + 1
      /\ state'[e].version = state[e].version + 1 /\ state'[e].at = t
  OBVIOUS
<1>3. \A n \in 1..Len(journal') : \A r \in journal'[n].reports :
        \/ n \in 1..Len(journal) /\ r \in journal[n].reports
        \/ n = last /\ r = new
  BY <1>1
<1>4. \A n \in 1..Len(journal) : \A r \in journal[n].reports : r.entity = e =>
        /\ r.version \in 1..state[e].version
        /\ r.version < new.version /\ r.at <= t
  <2>1. ASSUME NEW n \in 1..Len(journal), NEW r \in journal[n].reports, r.entity = e
        PROVE  /\ r.version \in 1..state[e].version
               /\ r.version < new.version /\ r.at <= t
    <3>1. r.version \in 1..state[e].version /\ r.at <= state[e].at
      BY <2>1 DEF StateInvOf
    <3>2. state[e].at <= t
      BY <1>1, <3>1 DEF IsFresh
    <3>. QED  BY <1>1, <1>2, <3>1, <3>2
  <2>. QED  BY <2>1
<1> HIDE DEF new
<1>5. \A n \in 1..Len(journal') : \A r \in journal'[n].reports :
        r.entity = e =>
           /\ r.version \in 1..state'[e].version
           /\ r.at <= state'[e].at
           /\ r.version = state'[e].version =>
                 state'[e] = [value |-> r.value, at |-> r.at, version |-> r.version]
  <2>1. ASSUME NEW n \in 1..Len(journal), NEW r \in journal[n].reports, r.entity = e
        PROVE  /\ r.version \in 1..state'[e].version /\ r.at <= state'[e].at
               /\ r.version # state'[e].version
    BY <1>1, <1>2, <1>4, <2>1
  <2>2. /\ new.version \in 1..state'[e].version /\ new.at <= state'[e].at
        /\ state'[e] = [value |-> new.value, at |-> new.at, version |-> new.version]
    BY <1>1, <1>2
  <2>. QED  BY <1>3, <2>1, <2>2
<1>6. \A n, m \in 1..Len(journal') :
        \A r \in journal'[n].reports, q \in journal'[m].reports :
           r.entity = e /\ q.entity = e /\ n < m => r.version < q.version /\ r.at <= q.at
  <2>1. ASSUME NEW n \in 1..Len(journal'), NEW m \in 1..Len(journal'),
               NEW r \in journal'[n].reports, NEW q \in journal'[m].reports,
               r.entity = e, q.entity = e, n < m
        PROVE  r.version < q.version /\ r.at <= q.at
    <3>1. n \in 1..Len(journal) /\ r \in journal[n].reports
      BY <1>1, <1>3, <2>1
    <3>2. CASE m \in 1..Len(journal) /\ q \in journal[m].reports
      BY <2>1, <3>1, <3>2 DEF StateInvOf
    <3>3. CASE q = new
      BY <1>2, <1>4, <2>1, <3>1, <3>3
    <3>. QED  BY <1>3, <3>2, <3>3
  <2>. QED  BY <2>1
<1>7. \A x \in 1..state'[e].version : \E n \in 1..Len(journal') :
        \E r \in journal'[n].reports : r.entity = e /\ r.version = x
  <2>1. ASSUME NEW x \in 1..state'[e].version
        PROVE  \E n \in 1..Len(journal') : \E r \in journal'[n].reports : r.entity = e /\ r.version = x
    <3>1. CASE x \in 1..state[e].version
      <4>1. PICK n \in 1..Len(journal) : \E r \in journal[n].reports : r.entity = e /\ r.version = x
        BY <3>1 DEF StateInvOf
      <4>2. n \in 1..Len(journal') /\ journal'[n] = journal[n]
        BY <1>1
      <4>. QED  BY <4>1, <4>2
    <3>2. CASE x = new.version
      <4>1. last \in 1..Len(journal') /\ new \in journal'[last].reports
        BY <1>1 DEF new
      <4>. QED  BY <1>2, <3>2, <4>1
    <3>. QED  BY <1>1, <1>2, <2>1, <3>1, <3>2
  <2>. QED  BY <2>1
<1>. QED
  BY <1>5, <1>6, <1>7 DEF StateInvOf

StateInv == TypeOK /\ \A e \in Entity : StateInvOf(e)

LEMMA InitState == Init => StateInv
<1> SUFFICES ASSUME Init PROVE \A e \in Entity : StateInvOf(e)
  BY InitType DEF StateInv
<1>1. Len(journal) = 0 /\ \A e \in Entity : state[e].version = 0
  BY DEF Init, NoState
<1>. QED
  BY <1>1 DEF StateInvOf

LEMMA NextState == StateInv /\ [Next]_vars => StateInv'
<1> SUFFICES ASSUME StateInv, [Next]_vars, NEW e \in Entity PROVE StateInvOf(e)'
  BY NextType DEF StateInv
<1>1. /\ TypeOK /\ StateInvOf(e) /\ commands \in Seq(Command) /\ journal \in Seq(Entry)
      /\ state \in [Entity -> StateProperty] /\ row \in [Caller -> Nat]
  BY DEF StateInv, TypeOK
<1>2. CASE UNCHANGED <<state, journal>>
  BY <1>1, <1>2 DEF StateInvOf
<1>3. ASSUME NEW S \in SUBSET Nat, NEW s \in CommandStatus, Log({}, Changed(S, s)), UNCHANGED state
      PROVE  StateInvOf(e)'
  <2>1. /\ Len(journal') = Len(journal) + 1
        /\ \A n \in 1..Len(journal) : journal'[n] = journal[n]
        /\ journal'[Len(journal) + 1].reports = {}
    BY <1>1, <1>3, ChangedType, LogType
  <2>. QED  BY <1>1, <1>3, <2>1, OtherEntry
<1>4. ASSUME NEW c \in Caller, Create(c) PROVE StateInvOf(e)'
  <2>1. {Len(commands) + 1} \in SUBSET Nat
    BY <1>1, LenProperties
  <2>2. \/ UNCHANGED <<state, journal>>
        \/ Log({}, Changed({Len(commands) + 1}, "requested")) /\ UNCHANGED state
    BY <1>4 DEF Create
  <2>. QED  BY <1>2, <1>3, <2>1, <2>2
<1>5. ASSUME NEW c \in Caller, Ack(c) PROVE StateInvOf(e)'
  <2>1. {row[c]} \in SUBSET Nat
    BY <1>1
  <2>2. PICK s \in {"dispatched", "failed"} : Log({}, Changed({row[c]}, s)) /\ UNCHANGED state
    BY <1>5 DEF Ack, Transition
  <2>. QED  BY <1>3, <2>1, <2>2
<1>6. ASSUME NEW f \in Entity, NEW v \in Value, NEW t \in Time, Report(f, v, t)
      PROVE  StateInvOf(e)'
  <2> DEFINE reports == {[entity |-> f, value |-> v, at |-> t, version |-> state[f].version + 1]}
  <2>1. reports \in SUBSET [entity : Entity, value : Value, at : Time, version : Nat]
    BY <1>1 DEF StateProperty
  <2>2. Confirmable(f, v) \in SUBSET Nat
    BY <1>1, SelectedRows, RowsType
  <2>3. /\ Len(journal') = Len(journal) + 1
        /\ \A n \in 1..Len(journal) : journal'[n] = journal[n]
        /\ journal'[Len(journal) + 1].reports = reports
    <3>1. Log(reports, Changed(Confirmable(f, v), "confirmed"))
      BY <1>6 DEF Report
    <3> HIDE DEF reports
    <3>2. Changed(Confirmable(f, v), "confirmed") \in SUBSET [row : Nat, status : CommandStatus]
      BY <2>2, ChangedType
    <3>. QED  BY <1>1, <2>1, <3>1, <3>2, LogType
  <2>4. CASE e = f
    <3>1. IsFresh(e, t) /\ state'[e] = [value |-> v, at |-> t, version |-> state[e].version + 1]
      BY <1>1, <1>6, <2>4 DEF Report
    <3>. QED  BY <1>1, <2>3, <2>4, <3>1, ReportedEntry
  <2>5. CASE e # f
    <3>1. state'[e] = state[e] /\ \A r \in reports : r.entity # e
      BY <1>1, <1>6, <2>5 DEF Report
    <3> HIDE DEF reports
    <3>. QED  BY <1>1, <2>1, <2>3, <3>1, OtherEntry
  <2>. QED  BY <2>4, <2>5
<1>7. CASE Expire
  <2>1. Stale \in SUBSET Nat
    BY <1>1, SelectedRows, RowsType
  <2>2. Log({}, Changed(Stale, "expired")) /\ UNCHANGED state
    BY <1>7 DEF Expire
  <2>. QED  BY <1>3, <2>1, <2>2
<1>. QED
  BY <1>2, <1>4, <1>5, <1>6, <1>7
     DEF Next, Proceed, Lookup, Check, Deliver, Refuse, SetAdapterDevicesStatus,
         RemoveDevice, RegisterDiscovery, Tick, Crash, store, vars

\* The reports of an entity carry the versions 1, 2, ... in the order of the
\* journal, without a hole and with source times that never go back, and the
\* last one is the state the store shows.
THEOREM StateRebuiltFromJournal == Spec => []JournalExplainsState
<1>1. StateInv => JournalExplainsState
  BY DEF StateInv, StateInvOf, JournalExplainsState
<1>. QED
  BY InitState, NextState, <1>1, PTL DEF Spec

-----------------------------------------------------------------------------
(* The contract. *)

\* The abstract state a concrete state stands for.
MappedStatus == [k \in IdemKey |-> StatusOf(k)]
Open(k) == \E i \in Found(k) : InFlight(i)
MappedOpen == [k \in IdemKey |-> Open(k)]

-----------------------------------------------------------------------------
(* The mapping, row by row. *)

\* A row is the only one of its key, so it is the command of that key.
LEMMA RowOfKey ==
  ASSUME Ownership, NEW i \in Rows
  PROVE  /\ Found(commands[i].key) = {i}
         /\ StatusOf(commands[i].key) = commands[i].status
         /\ Open(commands[i].key) <=> InFlight(i)
<1>1. Found(commands[i].key) = {i}
  BY DEF Found, Ownership
<1>. QED
  BY <1>1 DEF StatusOf, Open

LEMMA KeyWithoutRow ==
  ASSUME NEW k, Found(k) = {}
  PROVE  StatusOf(k) = "absent" /\ ~Open(k)
BY DEF StatusOf, Open

\* Rewriting the status of some rows changes the status of their keys and of
\* no other.
LEMMA MappedSetStatus ==
  ASSUME DeliveryInv, NEW S \in SUBSET Rows, NEW s \in CommandStatus,
         commands' = SetStatus(S, s)
  PROVE  \A k \in IdemKey :
            /\ Found(k)' = Found(k)
            /\ StatusOf(k)' = IF \E i \in S : commands[i].key = k THEN s ELSE StatusOf(k)
<1> SUFFICES ASSUME NEW k \in IdemKey
             PROVE  /\ Found(k)' = Found(k)
                    /\ StatusOf(k)' = IF \E i \in S : commands[i].key = k THEN s ELSE StatusOf(k)
  OBVIOUS
<1>1. commands \in Seq(Command) /\ Ownership
  BY DEF DeliveryInv, TypeOK
<1>2. /\ Len(commands') = Len(commands)
      /\ \A i \in Rows : /\ commands'[i].key = commands[i].key
                         /\ commands'[i].status = IF i \in S THEN s ELSE commands[i].status
  BY <1>1, SetStatusRows
<1>3. Rows' = Rows
  BY <1>2 DEF Rows
<1>4. Found(k)' = Found(k)
  BY <1>2, <1>3 DEF Found
<1>5. CASE Found(k) = {}
  <2>1. ~ \E i \in S : commands[i].key = k
    BY <1>5 DEF Found
  <2>. QED  BY <1>4, <1>5, <2>1 DEF StatusOf
<1>6. ASSUME NEW i \in Rows, commands[i].key = k
      PROVE  StatusOf(k)' = IF \E j \in S : commands[j].key = k THEN s ELSE StatusOf(k)
  <2>1. Found(k) = {i} /\ StatusOf(k) = commands[i].status
    BY <1>1, <1>6, RowOfKey
  <2>2. StatusOf(k)' = commands'[i].status
    BY <1>4, <2>1 DEF StatusOf
  <2>3. (\E j \in S : commands[j].key = k) <=> i \in S
    BY <1>6, <2>1 DEF Found
  <2>. QED  BY <1>2, <2>1, <2>2, <2>3
<1>. QED
  BY <1>4, <1>5, <1>6 DEF Found

\* The abstract steps, over the mapped variables.
LEMMA ContractNextExpanded ==
  Contract!ContractNext <=>
     \/ \E k \in IdemKey : Contract!Accept(k) \/ Contract!Hand(k) \/ Contract!Acknowledge(k)
     \/ \E K \in SUBSET IdemKey : Contract!Settle(K)
     \/ Contract!Abandon
BY DEF Contract!ContractNext

\* A step that changes neither the rows, nor the deliveries, nor which call is
\* working on which row, is a stutter of the contract.
LEMMA Stutters ==
  ASSUME UNCHANGED <<commands, delivered>>,
         \A c \in Caller, i \in Rows : Owns(c, i)' <=> Owns(c, i)
  PROVE  UNCHANGED Contract!contractVars
<1>1. Rows' = Rows
  BY DEF Rows
<1>2. \A k \in IdemKey : Found(k)' = Found(k) /\ StatusOf(k)' = StatusOf(k)
  BY <1>1 DEF Found, StatusOf
<1>3. \A i \in Rows : InFlight(i)' <=> InFlight(i)
  BY DEF InFlight
<1>4. \A k \in IdemKey : (\E i \in Found(k) : InFlight(i))' = (\E i \in Found(k) : InFlight(i))
  BY <1>2, <1>3 DEF Found
<1>. QED
  BY <1>2, <1>4 DEF Contract!contractVars

-----------------------------------------------------------------------------
(* One lemma per step that the contract sees. *)

\* Inserting a row accepts its key.
LEMMA CreateAccepts ==
  ASSUME DeliveryInv, NEW c \in Caller, Create(c), commands' = Append(commands, RowOf(c)),
         KeyIsFree(ask[c].key), row' = [row EXCEPT ![c] = Len(commands) + 1],
         pc' = [pc EXCEPT ![c] = "created"]
  PROVE  Contract!Accept(ask[c].key)
<1>0. /\ commands \in Seq(Command) /\ Len(commands) \in Nat /\ Ownership
      /\ ask \in [Caller -> Request] /\ at \in [Caller -> Time]
      /\ pc \in [Caller -> CallState] /\ row \in [Caller -> Nat]
  BY RowsType DEF DeliveryInv, TypeOK
<1>k. PICK k \in IdemKey : k = ask[c].key
  BY <1>0 DEF Request
<1>n. PICK new \in Nat : new = Len(commands) + 1
  BY <1>0
<1>1. /\ commands \in Seq(Command) /\ Len(commands) \in Nat /\ Ownership
      /\ pc \in [Caller -> CallState] /\ row \in [Caller -> Nat]
  BY <1>0
<1>2. RowOf(c) \in Command /\ RowOf(c).key = k /\ RowOf(c).status = "requested"
  BY <1>0, <1>k DEF RowOf, Command, Request
<1>3. /\ Len(commands') = new
      /\ \A i \in Rows : commands'[i] = commands[i]
      /\ commands'[new].key = k /\ commands'[new].status = "requested"
  BY <1>1, <1>2, <1>n, AppendProperties DEF Rows
<1>4. Rows' = Rows \cup {new} /\ new \notin Rows
  BY <1>1, <1>3, <1>n DEF Rows
<1>5. \A i \in Rows : InFlight(i)' <=> InFlight(i)
  <2>1. \A d \in Caller, i \in Rows : Owns(d, i)' <=> Owns(d, i)
    BY <1>1, <1>4, <1>n DEF Owns, Create
  <2>. QED  BY <2>1 DEF InFlight
<1>6. InFlight(new)'
  <2>1. pc'[c] = "created" /\ row'[c] = new
    BY <1>1, <1>n
  <2>. QED  BY <2>1 DEF InFlight, Owns
<1>7. Found(k) = {} /\ Found(k)' = {new}
  BY <1>3, <1>4, <1>k DEF Found, KeyIsFree
<1>8. \A m \in IdemKey : m # k => Found(m)' = Found(m)
  BY <1>3, <1>4 DEF Found
<1>9. StatusOf(k) = "absent" /\ StatusOf(k)' = "requested"
  BY <1>3, <1>7 DEF StatusOf
<1>10. \A m \in IdemKey : m # k => StatusOf(m)' = StatusOf(m)
  <2> SUFFICES ASSUME NEW m \in IdemKey, m # k PROVE StatusOf(m)' = StatusOf(m)
    OBVIOUS
  <2>1. CASE Found(m) = {}
    BY <1>8, <2>1 DEF StatusOf
  <2>2. ASSUME NEW i \in Rows, commands[i].key = m PROVE StatusOf(m)' = StatusOf(m)
    <3>1. Found(m) = {i}
      BY <1>1, <2>2, RowOfKey
    <3>2. StatusOf(m) = commands[i].status
      BY <3>1 DEF StatusOf
    <3>3. StatusOf(m)' = commands'[i].status
      <4>1. Found(m)' = {i}
        BY <1>8, <3>1
      <4>. QED  BY <4>1 DEF StatusOf
    <3>. QED  BY <1>3, <2>2, <3>2, <3>3
  <2>. QED  BY <2>1, <2>2 DEF Found
<1>11. [m \in IdemKey |-> StatusOf(m)]' = [[m \in IdemKey |-> StatusOf(m)] EXCEPT ![k] = "requested"]
  BY <1>1, <1>9, <1>10
<1>12. \A m \in IdemKey : (\E i \in Found(m) : InFlight(i))' =
                          IF m = k THEN TRUE ELSE \E i \in Found(m) : InFlight(i)
  BY <1>5, <1>6, <1>7, <1>8 DEF Found
<1>13. [m \in IdemKey |-> \E i \in Found(m) : InFlight(i)]' =
       [[m \in IdemKey |-> \E i \in Found(m) : InFlight(i)] EXCEPT ![k] = TRUE]
  BY <1>1, <1>12
<1>14. UNCHANGED delivered
  BY DEF Create
<1>. QED
  BY <1>9, <1>11, <1>13, <1>14, <1>k DEF Contract!Accept

\* Handing the command over is the first delivery of its key.
LEMMA DeliverHands ==
  ASSUME DeliveryInv, NEW c \in Caller, Deliver(c)
  PROVE  Contract!Hand(ask[c].key)
<1>1. /\ Ownership /\ ask \in [Caller -> Request] /\ pc \in [Caller -> CallState]
      /\ delivered \in [IdemKey -> Nat]
  BY DEF DeliveryInv, TypeOK
<1>2. ask[c].key \in IdemKey /\ pc[c] = "created"
  BY <1>1 DEF Request, Deliver
<1>3. row[c] \in Rows /\ commands[row[c]].key = ask[c].key /\ delivered[ask[c].key] = 0
  BY <1>1, <1>2 DEF Ownership
<1>4. \E i \in Found(ask[c].key) : InFlight(i)
  BY <1>2, <1>3 DEF Found, InFlight, Owns
<1>5. UNCHANGED <<commands, row>>
  BY DEF Deliver, store
<1>6. \A k \in IdemKey : Found(k)' = Found(k) /\ StatusOf(k)' = StatusOf(k)
  BY <1>5 DEF Found, StatusOf, Rows
<1>7. \A d \in Caller, i \in Rows : Owns(d, i)' <=> Owns(d, i)
  BY <1>1, <1>2, <1>5 DEF Deliver, Owns
<1>8. \A k \in IdemKey : (\E i \in Found(k) : InFlight(i))' = (\E i \in Found(k) : InFlight(i))
  BY <1>6, <1>7 DEF InFlight, Found
<1>9. delivered' = [delivered EXCEPT ![ask[c].key] = 1]
  BY <1>1, <1>3 DEF Deliver
<1>. QED
  BY <1>2, <1>3, <1>4, <1>6, <1>8, <1>9 DEF Contract!Hand

\* Which call works on which row, when the rows keep their keys.
LEMMA OpenUnchanged ==
  ASSUME \A k \in IdemKey : Found(k)' = Found(k), UNCHANGED <<pc, row>>
  PROVE  \A k \in IdemKey : (\E i \in Found(k) : InFlight(i))' = (\E i \in Found(k) : InFlight(i))
BY DEF InFlight, Owns

\* Recording the result of the transport closes the command of the call.
LEMMA AckAcknowledges ==
  ASSUME DeliveryInv, NEW c \in Caller, Ack(c)
  PROVE  Contract!Acknowledge(ask[c].key)
<1>1. /\ Ownership /\ ask \in [Caller -> Request] /\ pc \in [Caller -> CallState]
  BY DEF DeliveryInv, TypeOK
<1>k. PICK k \in IdemKey : k = ask[c].key
  BY <1>1 DEF Request
<1>i. PICK i \in Rows : i = row[c] /\ commands[i].key = k
  BY <1>1, <1>k DEF Ack, Ownership
<1>2. PICK s \in {"dispatched", "failed"} :
        /\ Transition(i, s)
        /\ s = "dispatched" => pc[c] = "sent"
        /\ pc' = [pc EXCEPT ![c] = IF s = "dispatched" THEN "accepted" ELSE "failed"]
  BY <1>i DEF Ack
<1>3. /\ Found(k) = {i} /\ Owns(c, i)
      /\ \A d \in Caller : Owns(d, i) => d = c
  BY <1>1, <1>i, RowOfKey DEF Ack, Owns, Ownership
<1>4. \A m \in IdemKey : /\ Found(m)' = Found(m)
                         /\ StatusOf(m)' = IF m = k THEN s ELSE StatusOf(m)
  <2>1. {i} \in SUBSET Rows /\ commands' = SetStatus({i}, s)
    BY <1>2 DEF Transition
  <2>. QED  BY <1>i, <2>1, MappedSetStatus
<1>5. [m \in IdemKey |-> StatusOf(m)]' = [[m \in IdemKey |-> StatusOf(m)] EXCEPT ![k] = s]
  BY <1>4
<1>6. ASSUME NEW m \in IdemKey
      PROVE  (\E j \in Found(m) : InFlight(j))' = IF m = k THEN FALSE ELSE \E j \in Found(m) : InFlight(j)
  <2>0. UNCHANGED row
    BY DEF Ack
  <2>1. CASE m = k
    <3>1. \A d \in Caller : ~Owns(d, i)'
      BY <1>1, <1>2, <1>3, <2>0 DEF Owns
    <3>. QED  BY <1>3, <1>4, <2>1, <3>1 DEF InFlight
  <2>2. CASE m # k
    <3>1. \A j \in Found(m) : j # i
      BY <1>i, <2>2 DEF Found
    <3>2. \A j \in Found(m), d \in Caller : Owns(d, j)' <=> Owns(d, j)
      BY <1>1, <1>2, <1>i, <2>0, <3>1 DEF Owns
    <3>. QED  BY <1>4, <2>2, <3>2 DEF InFlight
  <2>. QED  BY <2>1, <2>2
<1>7. [m \in IdemKey |-> \E j \in Found(m) : InFlight(j)]' =
      [[m \in IdemKey |-> \E j \in Found(m) : InFlight(j)] EXCEPT ![k] = FALSE]
  BY <1>6
<1>8. \E j \in Found(k) : InFlight(j)
  BY <1>3 DEF InFlight
<1>9. s = "dispatched" => delivered[k] = 1
  BY <1>1, <1>2, <1>k DEF Ownership
<1>10. UNCHANGED delivered
  BY DEF Ack
<1>. QED
  BY <1>5, <1>7, <1>8, <1>9, <1>10, <1>k DEF Contract!Acknowledge

\* A report that confirms, or a tick that expires, settles the keys of its
\* rows; if there are none the contract stutters.
LEMMA SetStatusSettles ==
  ASSUME DeliveryInv, NEW S \in SUBSET Rows, NEW s \in {"confirmed", "expired"},
         \A i \in S : commands[i].status \in Pending,
         commands' = SetStatus(S, s), UNCHANGED <<delivered, pc, row>>
  PROVE  \/ \E K \in SUBSET IdemKey : Contract!Settle(K)
         \/ UNCHANGED Contract!contractVars
<1> DEFINE K == {commands[i].key : i \in S}
<1>1. Ownership /\ K \in SUBSET IdemKey
  BY RowsType DEF DeliveryInv, TypeOK, Command
<1>2. \A k \in IdemKey : /\ Found(k)' = Found(k)
                         /\ StatusOf(k)' = IF k \in K THEN s ELSE StatusOf(k)
  BY MappedSetStatus
<1>3. \A k \in IdemKey : (\E i \in Found(k) : InFlight(i))' = (\E i \in Found(k) : InFlight(i))
  BY <1>2, OpenUnchanged
<1>4. \A k \in K : StatusOf(k) \in Pending
  BY <1>1, RowOfKey
<1> HIDE DEF K
<1>5. CASE K = {}
  BY <1>2, <1>3, <1>5 DEF Contract!contractVars
<1>6. CASE K # {}
  <2>1. \A k \in K : [m \in IdemKey |-> StatusOf(m)][k] \in Contract!Pending
    BY <1>1, <1>4 DEF Contract!Pending
  <2>2. [m \in IdemKey |-> StatusOf(m)]' =
        [k \in IdemKey |-> IF k \in K THEN s ELSE [m \in IdemKey |-> StatusOf(m)][k]]
    BY <1>2
  <2>3. Contract!Settle(K)
    BY <1>3, <1>6, <2>1, <2>2 DEF Contract!Settle
  <2>. QED  BY <1>1, <2>3
<1>. QED  BY <1>5, <1>6

\* After a crash no call works on any row.
LEMMA CrashAbandons ==
  ASSUME DeliveryInv, Crash
  PROVE  Contract!Abandon
<1>1. pc \in [Caller -> CallState]
  BY DEF DeliveryInv, TypeOK
<1>2. UNCHANGED <<commands, delivered>>
  BY DEF Crash, store
<1>3. \A c \in Caller, i \in Rows : ~Owns(c, i)'
  BY <1>1 DEF Crash, Running, Owns
<1>4. \A k \in IdemKey : Found(k)' = Found(k) /\ StatusOf(k)' = StatusOf(k)
  BY <1>2 DEF Found, StatusOf, Rows
<1>5. \A k \in IdemKey : (\E i \in Found(k) : InFlight(i))' = FALSE
  BY <1>3, <1>4 DEF InFlight, Found
<1>. QED
  BY <1>2, <1>4, <1>5 DEF Contract!Abandon

-----------------------------------------------------------------------------
(* The refinement. *)

LEMMA InitContract == Init => Contract!ContractInit
<1> SUFFICES ASSUME Init PROVE Contract!ContractInit
  OBVIOUS
<1>1. \A k \in IdemKey : Found(k) = {}
  BY DEF Init, Found, Rows
<1>2. \A k \in IdemKey : StatusOf(k) = "absent" /\ (\E i \in Found(k) : InFlight(i)) = FALSE
  BY <1>1 DEF StatusOf
<1>. QED
  BY <1>2 DEF Init, Contract!ContractInit

LEMMA NextContract ==
  DeliveryInv /\ [Next]_vars => [Contract!ContractNext]_(Contract!contractVars)
<1> DEFINE Step == Contract!ContractNext \/ UNCHANGED Contract!contractVars
<1> SUFFICES ASSUME DeliveryInv, [Next]_vars PROVE Step
  OBVIOUS
<1>1. Ownership /\ TypeOK /\ ask \in [Caller -> Request] /\ pc \in [Caller -> CallState]
  BY DEF DeliveryInv, TypeOK
<1>2. \A c \in Caller : ask[c].key \in IdemKey
  BY <1>1 DEF Request
<1>3. ASSUME NEW c \in Caller, Lookup(c) \/ Check(c) \/ Refuse(c) PROVE Step
  <2>1. UNCHANGED <<commands, delivered, row>>
    BY <1>3 DEF Lookup, Check, Refuse, store
  <2>2. \A d \in Caller, i \in Rows : Owns(d, i)' <=> Owns(d, i)
    BY <1>1, <1>3, <2>1 DEF Lookup, Check, Refuse, Owns
  <2>. QED  BY <2>1, <2>2, Stutters
<1>4. ASSUME NEW c \in Caller, Create(c) PROVE Step
  <2>1. CASE KeyIsFree(ask[c].key)
    <3>1. Contract!Accept(ask[c].key)
      BY <1>4, <2>1, CreateAccepts DEF Create
    <3>. QED  BY <1>2, <3>1, ContractNextExpanded
  <2>2. CASE ~KeyIsFree(ask[c].key)
    <3>1. UNCHANGED <<commands, delivered, row>> /\ pc[c] = "admitted"
          /\ pc' = [pc EXCEPT ![c] = "conflict"]
      BY <1>4, <2>2 DEF Create
    <3>2. \A d \in Caller, i \in Rows : Owns(d, i)' <=> Owns(d, i)
      BY <1>1, <3>1 DEF Owns
    <3>. QED  BY <3>1, <3>2, Stutters
  <2>. QED  BY <2>1, <2>2
<1>5. ASSUME NEW c \in Caller, Deliver(c) PROVE Step
  BY <1>2, <1>5, DeliverHands, ContractNextExpanded
<1>6. ASSUME NEW c \in Caller, Ack(c) PROVE Step
  BY <1>2, <1>6, AckAcknowledges, ContractNextExpanded
<1>7. ASSUME NEW e \in Entity, NEW v \in Value, NEW t \in Time, Report(e, v, t) PROVE Step
  <2>1. /\ commands' = SetStatus(Confirmable(e, v), "confirmed")
        /\ UNCHANGED <<delivered, pc, row>>
    BY <1>7 DEF Report, calls
  <2>2. Confirmable(e, v) \in SUBSET Rows
        /\ \A i \in Confirmable(e, v) : commands[i].status \in Pending
    BY DEF Confirmable
  <2>. QED  BY <2>1, <2>2, SetStatusSettles, ContractNextExpanded
<1>8. ASSUME Expire PROVE Step
  <2>1. commands' = SetStatus(Stale, "expired") /\ UNCHANGED <<delivered, pc, row>>
    BY <1>8 DEF Expire, calls
  <2>2. Stale \in SUBSET Rows /\ \A i \in Stale : commands[i].status \in Pending
    BY DEF Stale
  <2>. QED  BY <2>1, <2>2, SetStatusSettles, ContractNextExpanded
<1>9. ASSUME \/ \E s \in DeviceStatus : SetAdapterDevicesStatus(s)
             \/ \E e \in Entity : RemoveDevice(e) \/ RegisterDiscovery(e)
             \/ Tick \/ UNCHANGED vars
      PROVE  Step
  <2>1. UNCHANGED <<commands, delivered, pc, row>>
    BY <1>9 DEF SetAdapterDevicesStatus, RemoveDevice, RegisterDiscovery, Tick, store, vars, calls
  <2>2. \A d \in Caller, i \in Rows : Owns(d, i)' <=> Owns(d, i)
    BY <2>1 DEF Owns
  <2>. QED  BY <2>1, <2>2, Stutters
<1>10. ASSUME Crash PROVE Step
  BY <1>10, CrashAbandons, ContractNextExpanded
<1>. QED
  BY <1>3, <1>4, <1>5, <1>6, <1>7, <1>8, <1>9, <1>10 DEF Next, Proceed

\* Whatever the callers, the adapters, the clock and the crashes do, they only
\* do what the contract of a command allows: accept a key once, hand it over
\* once, acknowledge it at most once while it is open, settle it from pending.
THEOREM LifecycleImplementsContract == Spec => ImplementsContract
<1>1. Spec => []DeliveryInv
  BY InitDelivery, NextDelivery, PTL DEF Spec
<1>. QED
  BY <1>1, InitContract, NextContract, PTL DEF Spec, ImplementsContract, Contract!ContractSpec
=============================================================================
