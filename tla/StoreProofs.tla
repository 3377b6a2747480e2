----------------------------- MODULE StoreProofs -----------------------------
(***************************************************************************)
(* Theorems about what the store keeps on disk and lists: the schema after *)
(* any number of interrupted starts (SchemaMigrations), the definitions of *)
(* the automations (FlowDefinitions), the files a restore moves            *)
(* (DatabaseFiles) and the pages of devices (DevicePages), for any         *)
(* versions, writers, archives, devices, sizes and bounds.                 *)
(***************************************************************************)
EXTENDS SchemaMigrations, FlowDefinitions, DatabaseFiles, DevicePages, FiniteSetTheorems, TLAPS

-----------------------------------------------------------------------------
(* SchemaMigrations. *)

\* A start that works at version v has all the versions before it on record,
\* with this program's checksums, and each statement those before it behind it.
Preceded(v) == v \in Version /\ 1..(v - 1) \subseteq recorded /\ 1..(v - 1) \cap foreign = {}

OpeningInv ==
    LET v == opening.version
        next == opening.next
    IN  /\ next # "closed" => Preceded(v)
        /\ next = "fill" => v \in changed /\ v \in Filling
        /\ next = "record" => v \in changed /\ (v \in Filling => v \in filled)
        /\ next = "verify" => v \in recorded
        /\ next \in {"check", "serve"} => v = LastVersion /\ v \in recorded /\ v \notin foreign

RecordInv ==
    /\ recorded \subseteq changed /\ recorded \cap Filling \subseteq filled
    /\ \A v \in recorded : 1..v \subseteq recorded

MigrationsInv == MigrationsTypeOK /\ OpeningInv /\ RecordInv

LEMMA MigrationsInvInit == MigrationsInit => MigrationsInv
<1> SUFFICES ASSUME MigrationsInit PROVE MigrationsInv
  OBVIOUS
<1>. USE MigrationsAssumption
<1>1. PICK v \in 0..LastVersion : changed = 1..v
  BY DEF MigrationsInit
<1>2. opening = Closed /\ opens = 0 /\ filled = changed \cap Filling /\ recorded = changed
      /\ foreign \subseteq recorded
  BY DEF MigrationsInit
<1>3. MigrationsTypeOK
  BY <1>1, <1>2 DEF MigrationsTypeOK, Closed, Version
<1>4. OpeningInv
  BY <1>2 DEF OpeningInv, Closed
<1>5. RecordInv
  BY <1>1, <1>2 DEF RecordInv
<1>. QED  BY <1>3, <1>4, <1>5 DEF MigrationsInv

LEMMA MigrationsInvStep == MigrationsInv /\ [MigrationsNext]_migrationVars => MigrationsInv'
<1> SUFFICES ASSUME MigrationsInv, [MigrationsNext]_migrationVars PROVE MigrationsInv'
  OBVIOUS
<1>. USE MigrationsAssumption DEF MigrationsInv, MigrationsTypeOK, OpeningInv, RecordInv, Preceded
<1>1. CASE Open
  BY <1>1 DEF Open, Then, Version
<1>2. ASSUME NEW v \in Version, ChangeSchema(v) PROVE MigrationsInv'
  BY <1>2 DEF ChangeSchema, Doing, Then, Version
<1>3. ASSUME NEW v \in Version, FillRows(v) PROVE MigrationsInv'
  BY <1>3 DEF FillRows, Doing, Then, Version
<1>4. ASSUME NEW v \in Version, RecordVersion(v) PROVE MigrationsInv'
  <2>1. /\ opening.version = v /\ opening.next = "record" /\ recorded' = recorded \cup {v}
        /\ opening' = [version |-> v, next |-> "verify"]
        /\ UNCHANGED <<changed, filled, foreign, opens>>
    BY <1>4 DEF RecordVersion, Doing, Then
  <2>2. MigrationsTypeOK'
    BY <2>1 DEF Version
  <2>3. OpeningInv'
    BY <2>1
  <2>4. 1..v \subseteq recorded'
    <3>1. \A w \in 1..v : w = v \/ w \in 1..(v - 1)
      BY DEF Version
    <3>. QED  BY <2>1, <3>1
  <2>5. RecordInv'
    BY <2>1, <2>4
  <2>. QED  BY <2>2, <2>3, <2>5
<1>5. ASSUME NEW v \in Version, VerifyChecksum(v) PROVE MigrationsInv'
  <2>1. /\ opening.version = v /\ opening.next = "verify" /\ v \in recorded
        /\ UNCHANGED <<changed, filled, recorded, foreign, opens>>
    BY <1>5 DEF VerifyChecksum, Doing
  <2>2. CASE v \in foreign
    BY <1>5, <2>1, <2>2 DEF VerifyChecksum, Closed
  <2>3. CASE v \notin foreign /\ v = LastVersion
    BY <1>5, <2>1, <2>3 DEF VerifyChecksum, Then, Version
  <2>4. CASE v \notin foreign /\ v # LastVersion
    <3>1. opening' = [version |-> v + 1, next |-> "change"] /\ v + 1 \in Version
      BY <1>5, <2>4 DEF VerifyChecksum, Then, Version
    <3>2. \A w \in 1..((v + 1) - 1) : w = v \/ w \in 1..(v - 1)
      BY DEF Version
    <3>3. Preceded(v + 1)
      BY <2>1, <2>4, <3>1, <3>2
    <3>. QED  BY <2>1, <3>1, <3>3 DEF Version
  <2>. QED  BY <2>2, <2>3, <2>4
<1>6. CASE CheckIntegrity
  BY <1>6 DEF CheckIntegrity, Doing, Then, Closed
<1>7. CASE DieOpening
  BY <1>7 DEF DieOpening, Closed
<1>8. CASE UNCHANGED migrationVars
  BY <1>8 DEF migrationVars
<1>. QED  BY <1>1, <1>2, <1>3, <1>4, <1>5, <1>6, <1>7, <1>8 DEF MigrationsNext

\* A version on record and verified is followed by all, so what serves is whole.
LEMMA MigrationsWhole == MigrationsInv => MigrationsConverge
<1> SUFFICES ASSUME MigrationsInv PROVE MigrationsConverge
  OBVIOUS
<1>. USE MigrationsAssumption DEF MigrationsInv, MigrationsTypeOK, OpeningInv, RecordInv, Preceded
<1>1. ASSUME opening.next = "serve"
      PROVE  changed = Version /\ filled = Filling /\ recorded = Version /\ foreign = {}
  <2>1. /\ 1..(LastVersion - 1) \subseteq recorded /\ LastVersion \in recorded
        /\ 1..(LastVersion - 1) \cap foreign = {} /\ LastVersion \notin foreign
    BY <1>1
  <2>2. \A w \in Version : w = LastVersion \/ w \in 1..(LastVersion - 1)
    BY DEF Version
  <2>3. recorded = Version /\ foreign = {}
    BY <2>1, <2>2
  <2>. QED  BY <2>3 DEF Version
<1>. QED  BY <1>1 DEF MigrationsConverge

LEMMA MigrationsInvariant == MigrationsSpec => []MigrationsInv
BY MigrationsInvInit, MigrationsInvStep, PTL DEF MigrationsSpec

\* Every state of an opening store has its type.
THEOREM MigrationsTypeCorrect == MigrationsSpec => []MigrationsTypeOK
<1>1. MigrationsInv => MigrationsTypeOK
  BY DEF MigrationsInv
<1>. QED  BY MigrationsInvariant, <1>1, PTL

\* SqliteStore::open: although none of its migrations is a transaction, starts
\* that die anywhere leave no version on record without its change, and the one
\* that serves has all of them.
THEOREM StartsConverge == MigrationsSpec => []MigrationsConverge
BY MigrationsInvariant, MigrationsWhole, PTL

-----------------------------------------------------------------------------
(* FlowDefinitions. *)

USE FlowsAssumption

\* A writer has read a definition that was there, and unless writers overlapped
\* what it has read is no newer than what the store holds.
DraftsBehind ==
    \A w \in Writer : step[w] # "idle" =>
        LET f == draft[w].flow
        IN  /\ Exists(f)
            /\ f \notin overlapped =>
                  /\ draft[w].seen <= flows[f].revision
                  /\ step[w] = "write" =>
                        draft[w].seen <= draft[w].base /\ draft[w].base <= flows[f].revision

WrittenExists == \A f \in FlowId : Exists(f) <=> Written(f) # {}

DefinitionsInv == FlowTypeOK /\ DraftsBehind /\ WrittenExists /\ RevisionsNumberDefinitions

\* One definition more at the end of the journal.
LEMMA AppendedDefinition ==
  ASSUME FlowTypeOK, NEW f \in FlowId, NEW d \in Definition,
         flowEvents' = Append(flowEvents, [flow |-> f, definition |-> d])
  PROVE  /\ flowEvents' \in Seq([flow : FlowId, definition : Definition])
         /\ \A g \in FlowId : Written(g)' = Written(g) \cup
                                (IF g = f THEN {Len(flowEvents) + 1} ELSE {})
         /\ \A i \in 1..Len(flowEvents) : flowEvents'[i] = flowEvents[i]
         /\ flowEvents'[Len(flowEvents) + 1] = [flow |-> f, definition |-> d]
         /\ Len(flowEvents) \in Nat
<1> DEFINE e == [flow |-> f, definition |-> d]
           n == Len(flowEvents)
<1>1. flowEvents \in Seq([flow : FlowId, definition : Definition])
      /\ e \in [flow : FlowId, definition : Definition]
  BY DEF FlowTypeOK
<1>. HIDE DEF e
<1>2. flowEvents' = Append(flowEvents, e)
  BY DEF e
<1>3. /\ flowEvents' \in Seq([flow : FlowId, definition : Definition])
      /\ n \in Nat /\ Len(flowEvents') = n + 1
      /\ \A i \in 1..n : flowEvents'[i] = flowEvents[i]
      /\ flowEvents'[n + 1] = e
  BY <1>1, <1>2
<1>4. e.flow = f
  BY DEF e
<1>5. \A g \in FlowId : Written(g)' = Written(g) \cup (IF g = f THEN {n + 1} ELSE {})
  BY <1>3, <1>4 DEF Written
<1>. QED  BY <1>3, <1>5 DEF e

\* A definition written one revision above the one it replaces.
LEMMA StoredDefinition ==
  ASSUME FlowTypeOK, WrittenExists, RevisionsNumberDefinitions,
         NEW f \in FlowId, NEW d \in Definition, d.revision # 0, Store(f, d),
         overlapped \subseteq overlapped',
         f \notin overlapped' => d.revision = flows[f].revision + 1
  PROVE  /\ flows' \in [FlowId -> Definition]
         /\ flowEvents' \in Seq([flow : FlowId, definition : Definition])
         /\ flows'[f] = d /\ \A g \in FlowId : g # f => flows'[g] = flows[g]
         /\ WrittenExists' /\ RevisionsNumberDefinitions'
<1> DEFINE n == Len(flowEvents)
<1>1. /\ flowEvents' = Append(flowEvents, [flow |-> f, definition |-> d])
      /\ flows' \in [FlowId -> Definition]
      /\ flows'[f] = d /\ \A g \in FlowId : g # f => flows'[g] = flows[g]
  BY DEF Store, FlowTypeOK
<1>2. /\ flowEvents' \in Seq([flow : FlowId, definition : Definition])
      /\ \A g \in FlowId : Written(g)' = Written(g) \cup (IF g = f THEN {n + 1} ELSE {})
      /\ \A i \in 1..n : flowEvents'[i] = flowEvents[i]
      /\ flowEvents'[n + 1] = [flow |-> f, definition |-> d] /\ n \in Nat
  BY <1>1, AppendedDefinition
<1>3. \A g \in FlowId : Written(g) \subseteq 1..n
  BY DEF Written
<1>4. WrittenExists'
  BY <1>1, <1>2 DEF WrittenExists, Exists
<1>5. /\ \A i \in 1..n : Revision(i)' = Revision(i)
      /\ \A i : i = n + 1 => Revision(i)' = d.revision
  BY <1>2 DEF Revision
<1>6. ASSUME NEW g \in FlowId \ overlapped', NEW i \in Written(g)'
      PROVE  /\ (\A j \in Written(g)' : i <= j) => Revision(i)' = 1
             /\ (\A j \in Written(g)' : j <= i) => flows'[g] = flowEvents'[i].definition
             /\ \A j \in Written(g)' :
                   i < j /\ (\A k \in Written(g)' : k <= i \/ j <= k)
                      => Revision(j)' = Revision(i)' + 1
  <2>0. g \in FlowId \ overlapped
    BY <1>6
  <2>1. CASE g # f
    <3>1. Written(g)' = Written(g)
      BY <1>2, <2>1
    <3>2. i \in Written(g) /\ i \in 1..n
      BY <1>3, <1>6, <3>1
    <3>3. /\ (\A j \in Written(g) : i <= j) => Revision(i) = 1
          /\ (\A j \in Written(g) : j <= i) => flows[g] = flowEvents[i].definition
          /\ \A j \in Written(g) :
                i < j /\ (\A k \in Written(g) : k <= i \/ j <= k) => Revision(j) = Revision(i) + 1
      BY <2>0, <3>2 DEF RevisionsNumberDefinitions
    <3>4. flows'[g] = flows[g] /\ flowEvents'[i] = flowEvents[i] /\ Revision(i)' = Revision(i)
          /\ \A j \in Written(g) : Revision(j)' = Revision(j)
      BY <1>1, <1>2, <1>3, <1>5, <2>1, <3>2
    <3>. QED  BY <3>1, <3>3, <3>4
  <2>2. CASE g = f
    <3>1. Written(f)' = Written(f) \cup {n + 1} /\ Written(f) \subseteq 1..n
          /\ d.revision = flows[f].revision + 1
      BY <1>2, <1>3, <1>6, <2>2
    <3>2. ASSUME \A j \in Written(f)' : i <= j PROVE Revision(i)' = 1
      <4>1. CASE i \in Written(f)
        BY <1>5, <2>0, <2>2, <3>1, <3>2, <4>1 DEF RevisionsNumberDefinitions
      <4>2. CASE i = n + 1
        <5>1. Written(f) = {}
          BY <1>2, <3>1, <3>2, <4>2
        <5>2. flows[f].revision = 0
          BY <5>1 DEF WrittenExists, Exists
        <5>. QED  BY <1>5, <3>1, <4>2, <5>2
      <4>. QED  BY <1>6, <2>2, <3>1, <4>1, <4>2
    <3>3. ASSUME \A j \in Written(f)' : j <= i PROVE flows'[f] = flowEvents'[i].definition
      <4>1. i = n + 1
        BY <1>2, <1>6, <2>2, <3>1, <3>3
      <4>. QED  BY <1>1, <1>2, <4>1
    <3>4. ASSUME NEW j \in Written(f)', i < j, \A k \in Written(f)' : k <= i \/ j <= k
          PROVE  Revision(j)' = Revision(i)' + 1
      <4>1. i \in Written(f)
        BY <1>2, <1>6, <2>2, <3>1, <3>4
      <4>2. CASE j \in Written(f)
        BY <1>5, <2>0, <2>2, <3>1, <3>4, <4>1, <4>2 DEF RevisionsNumberDefinitions
      <4>3. CASE j = n + 1
        <5>1. \A k \in Written(f) : k <= i
          BY <1>2, <3>1, <3>4, <4>3
        <5>2. flows[f] = flowEvents[i].definition
          BY <2>0, <2>2, <4>1, <5>1 DEF RevisionsNumberDefinitions
        <5>. QED  BY <1>5, <3>1, <4>1, <4>3, <5>2 DEF Revision
      <4>. QED  BY <3>1, <3>4, <4>2, <4>3
    <3>. QED  BY <2>2, <3>2, <3>3, <3>4
  <2>. QED  BY <2>1, <2>2
<1>. QED  BY <1>1, <1>2, <1>4, <1>6 DEF RevisionsNumberDefinitions

LEMMA DefinitionsInvInit == FlowInit => DefinitionsInv
<1> SUFFICES ASSUME FlowInit PROVE DefinitionsInv
  OBVIOUS
<1>1. FlowTypeOK
  BY DEF FlowInit, FlowTypeOK, NoFlow, Definition, Draft
<1>2. \A f \in FlowId : Written(f) = {} /\ ~Exists(f)
  BY DEF FlowInit, Written, Exists, NoFlow
<1>. QED
  BY <1>1, <1>2 DEF FlowInit, DefinitionsInv, DraftsBehind, WrittenExists, RevisionsNumberDefinitions

\* A writer that reads takes the revision it finds.
LEMMA DraftTaken ==
  ASSUME DefinitionsInv, NEW w \in Writer, NEW d \in Draft, NEW s \in {"update", "write"},
         draft' = [draft EXCEPT ![w] = d], step' = [step EXCEPT ![w] = s],
         UNCHANGED <<flows, flowEvents, overlapped>>, flows[d.flow].revision # 0,
         d.flow \notin overlapped =>
             d.seen <= flows[d.flow].revision
             /\ (s = "write" => d.seen <= d.base /\ d.base <= flows[d.flow].revision)
  PROVE  DefinitionsInv'
<1>1. FlowTypeOK'
  BY DEF DefinitionsInv, FlowTypeOK
<1>2. DraftsBehind'
  BY DEF DefinitionsInv, FlowTypeOK, DraftsBehind, Exists
<1>3. WrittenExists' /\ RevisionsNumberDefinitions'
  BY DEF DefinitionsInv, WrittenExists, RevisionsNumberDefinitions, Written, Exists, Revision
<1>. QED  BY <1>1, <1>2, <1>3 DEF DefinitionsInv

LEMMA ReadForUpdateStep ==
  ASSUME DefinitionsInv, NEW w \in Writer, NEW f \in FlowId, NEW source \in Source \cup {"none"},
         NEW enabled \in BOOLEAN, NEW seen \in 0..MaxWrites,
         ReadForUpdate(w, f, source, enabled, seen),
         f \notin overlapped => seen <= flows[f].revision
  PROVE  DefinitionsInv'
<1>1. Exists(f) /\ UNCHANGED <<flows, flowEvents, overlapped>>
  BY DEF ReadForUpdate
<1>2. CASE step' = [step EXCEPT ![w] = "idle"] /\ UNCHANGED draft
  BY <1>1, <1>2 DEF DefinitionsInv, FlowTypeOK, DraftsBehind, WrittenExists,
                    RevisionsNumberDefinitions, Written, Exists, Revision
<1>3. CASE ~(step' = [step EXCEPT ![w] = "idle"] /\ UNCHANGED draft)
  <2>0. PICK d : d = [flow |-> f, source |-> source, enabled |-> enabled,
                      base |-> flows[f].revision, seen |-> seen]
    OBVIOUS
  <2>1. draft' = [draft EXCEPT ![w] = d] /\ step' = [step EXCEPT ![w] = "write"]
    BY <1>3, <2>0 DEF ReadForUpdate
  <2>2. flows[f].revision \in 0..MaxWrites
    BY DEF DefinitionsInv, FlowTypeOK, Definition
  <2>3. d \in Draft
    BY <2>0, <2>2 DEF Draft
  <2>4. d.flow = f /\ d.seen = seen /\ d.base = flows[f].revision
    BY <2>0
  <2>5. d.flow \notin overlapped =>
             d.seen <= flows[d.flow].revision
             /\ d.seen <= d.base /\ d.base <= flows[d.flow].revision
    BY <2>2, <2>4
  <2>6. flows[d.flow].revision # 0
    BY <1>1, <2>4 DEF Exists
  <2>. QED  BY <1>1, <2>1, <2>3, <2>5, <2>6, DraftTaken
<1>. QED  BY <1>2, <1>3

LEMMA DefinitionsInvStep == DefinitionsInv /\ [FlowNext]_flowVars => DefinitionsInv'
<1> SUFFICES ASSUME DefinitionsInv, [FlowNext]_flowVars PROVE DefinitionsInv'
  OBVIOUS
<1>0. /\ FlowTypeOK /\ DraftsBehind /\ WrittenExists /\ RevisionsNumberDefinitions
      /\ \A f \in FlowId : /\ flows[f].revision \in 0..MaxWrites
                           /\ flows[f].source \in Source \cup {"none"}
      /\ \A w \in Writer : draft[w] \in Draft
  BY DEF DefinitionsInv, FlowTypeOK, Definition
<1>1. ASSUME NEW f \in FlowId, NEW source \in Source, NEW enabled \in BOOLEAN,
             CreateFlow(f, source, enabled)
      PROVE  DefinitionsInv'
  <2>0. PICK d : d = [revision |-> 1, source |-> source, enabled |-> enabled]
    OBVIOUS
  <2>1. ~Exists(f) /\ Store(f, d) /\ UNCHANGED <<draft, step, overlapped>>
    BY <1>1, <2>0 DEF CreateFlow
  <2>2. d \in Definition /\ d.revision = 1
    <3>1. Len(flowEvents) < MaxWrites /\ Len(flowEvents) \in Nat
      BY <1>0, <2>1 DEF Store, FlowTypeOK
    <3>. QED  BY <2>0, <3>1 DEF Definition
  <2>3. flows[f].revision = 0
    BY <2>1 DEF Exists
  <2>4. /\ flows' \in [FlowId -> Definition]
        /\ flowEvents' \in Seq([flow : FlowId, definition : Definition])
        /\ flows'[f] = d /\ \A g \in FlowId : g # f => flows'[g] = flows[g]
        /\ WrittenExists' /\ RevisionsNumberDefinitions'
    <3>1. /\ FlowTypeOK /\ WrittenExists /\ RevisionsNumberDefinitions
          /\ d \in Definition /\ d.revision # 0 /\ Store(f, d) /\ overlapped \subseteq overlapped'
          /\ d.revision = flows[f].revision + 1
      BY <1>0, <2>1, <2>2, <2>3
    <3>. QED  BY <3>1, StoredDefinition
  <2>5. FlowTypeOK'
    BY <1>0, <2>1, <2>4 DEF FlowTypeOK
  <2>6. \A w \in Writer : step[w] # "idle" => draft[w].flow \in FlowId \ {f}
    BY <1>0, <2>1 DEF DraftsBehind, Draft
  <2>7. DraftsBehind'
    BY <1>0, <2>1, <2>4, <2>6 DEF DraftsBehind, Exists
  <2>. QED  BY <2>4, <2>5, <2>7 DEF DefinitionsInv
<1>2. ASSUME NEW w \in Writer, NEW f \in FlowId, NEW source \in Source, NEW enabled \in BOOLEAN,
             Update(w, f, source, enabled)
      PROVE  DefinitionsInv'
  BY <1>0, <1>2, ReadForUpdateStep DEF Update
<1>3. ASSUME NEW w \in Writer, NEW f \in FlowId, NEW enabled \in BOOLEAN, ReadSource(w, f, enabled)
      PROVE  DefinitionsInv'
  <2>0. PICK d : d = [flow |-> f, source |-> flows[f].source, enabled |-> enabled,
                      base |-> 0, seen |-> flows[f].revision]
    OBVIOUS
  <2>1. d \in Draft /\ d.flow = f /\ d.seen = flows[f].revision
    BY <1>0, <2>0 DEF Draft
  <2>2. /\ draft' = [draft EXCEPT ![w] = d] /\ step' = [step EXCEPT ![w] = "update"]
        /\ Exists(f) /\ UNCHANGED <<flows, flowEvents, overlapped>>
    BY <1>3, <2>0 DEF ReadSource
  <2>3. flows[d.flow].revision # 0 /\ d.seen <= flows[d.flow].revision
    BY <1>0, <2>1, <2>2 DEF Exists
  <2>. QED  BY <2>1, <2>2, <2>3, DraftTaken
<1>4. ASSUME NEW w \in Writer, UpdateWithSource(w) PROVE DefinitionsInv'
  <2>1. /\ step[w] = "update"
        /\ draft[w].flow \in FlowId /\ draft[w].source \in Source \cup {"none"}
        /\ draft[w].enabled \in BOOLEAN /\ draft[w].seen \in 0..MaxWrites
    BY <1>0, <1>4 DEF UpdateWithSource, Draft
  <2>2. draft[w].flow \notin overlapped => draft[w].seen <= flows[draft[w].flow].revision
    BY <1>0, <2>1 DEF DraftsBehind
  <2>3. PICK f \in FlowId, source \in Source \cup {"none"}, enabled \in BOOLEAN,
             seen \in 0..MaxWrites :
             /\ f = draft[w].flow /\ source = draft[w].source
             /\ enabled = draft[w].enabled /\ seen = draft[w].seen
    BY <2>1
  <2>4. ReadForUpdate(w, f, source, enabled, seen)
    BY <1>4, <2>3 DEF UpdateWithSource
  <2>. QED  BY <2>2, <2>3, <2>4, ReadForUpdateStep DEF ReadForUpdate
<1>5. ASSUME NEW w \in Writer, NEW f \in FlowId, NEW enabled \in BOOLEAN, ReadForFlow(w, f, enabled)
      PROVE  DefinitionsInv'
  <2>0. PICK d : d = [flow |-> f, source |-> flows[f].source, enabled |-> enabled,
                      base |-> flows[f].revision, seen |-> flows[f].revision]
    OBVIOUS
  <2>1. d \in Draft /\ d.flow = f /\ d.seen = flows[f].revision /\ d.base = flows[f].revision
    BY <1>0, <2>0 DEF Draft
  <2>2. /\ draft' = [draft EXCEPT ![w] = d] /\ step' = [step EXCEPT ![w] = "write"]
        /\ Exists(f) /\ UNCHANGED <<flows, flowEvents, overlapped>>
    BY <1>5, <2>0 DEF ReadForFlow
  <2>3. /\ flows[d.flow].revision # 0 /\ d.seen <= flows[d.flow].revision
        /\ d.seen <= d.base /\ d.base <= flows[d.flow].revision
    BY <1>0, <2>1, <2>2 DEF Exists
  <2>. QED  BY <2>1, <2>2, <2>3, DraftTaken
<1>6. ASSUME NEW w \in Writer, WriteFlow(w) PROVE DefinitionsInv'
  <2>0. PICK f, d : /\ f = draft[w].flow
                    /\ d = [revision |-> NextRevision(w), source |-> draft[w].source,
                            enabled |-> draft[w].enabled]
    OBVIOUS
  <2>1. /\ step[w] = "write" /\ NextRevision(w) <= MaxWrites /\ Store(f, d)
        /\ overlapped' = IF draft[w].seen # flows[f].revision
                            THEN overlapped \cup {f} ELSE overlapped
        /\ step' = [step EXCEPT ![w] = "idle"] /\ UNCHANGED draft
    BY <1>6, <2>0 DEF WriteFlow
  <2>2. /\ f \in FlowId /\ draft[w].base \in Nat /\ NextRevision(w) = draft[w].base + 1
        /\ d.revision = draft[w].base + 1
    BY <1>0, <2>0 DEF Draft, NextRevision
  <2>3. d \in Definition
    BY <1>0, <2>0, <2>1, <2>2 DEF Draft, Definition
  <2>4. f \notin overlapped' => f \notin overlapped /\ draft[w].base = flows[f].revision
    <3>1. f \notin overlapped' => f \notin overlapped /\ draft[w].seen = flows[f].revision
      BY <2>1
    <3>2. f \notin overlapped => draft[w].seen <= draft[w].base
                                 /\ draft[w].base <= flows[f].revision
      BY <1>0, <2>0, <2>1 DEF DraftsBehind
    <3>3. flows[f].revision \in Nat
      BY <1>0, <2>2
    <3>. QED  BY <2>2, <3>1, <3>2, <3>3
  <2>5. overlapped \subseteq overlapped'
    BY <2>1
  <2>6. /\ flows' \in [FlowId -> Definition]
        /\ flowEvents' \in Seq([flow : FlowId, definition : Definition])
        /\ flows'[f] = d /\ \A g \in FlowId : g # f => flows'[g] = flows[g]
        /\ WrittenExists' /\ RevisionsNumberDefinitions'
    <3>1. /\ FlowTypeOK /\ WrittenExists /\ RevisionsNumberDefinitions
          /\ f \in FlowId /\ d \in Definition /\ d.revision # 0 /\ Store(f, d)
          /\ overlapped \subseteq overlapped'
          /\ f \notin overlapped' => d.revision = flows[f].revision + 1
      BY <1>0, <2>1, <2>2, <2>3, <2>4, <2>5
    <3>. QED  BY <3>1, StoredDefinition
  <2>7. FlowTypeOK'
    BY <1>0, <2>1, <2>2, <2>6 DEF FlowTypeOK
  <2>8. ASSUME NEW u \in Writer, step'[u] # "idle"
        PROVE  /\ flows'[draft'[u].flow].revision # 0
               /\ draft'[u].flow \notin overlapped' =>
                     /\ draft'[u].seen <= flows'[draft'[u].flow].revision
                     /\ step'[u] = "write" => draft'[u].seen <= draft'[u].base
                           /\ draft'[u].base <= flows'[draft'[u].flow].revision
    <3> DEFINE g == draft[u].flow
    <3>1. /\ u # w /\ step'[u] = step[u] /\ draft'[u] = draft[u]
          /\ g \in FlowId /\ draft[u].seen \in Nat /\ draft[u].base \in Nat
      BY <1>0, <2>1, <2>8 DEF FlowTypeOK, Draft
    <3>2. /\ Exists(g)
          /\ g \notin overlapped => /\ draft[u].seen <= flows[g].revision
                                    /\ step[u] = "write" => draft[u].seen <= draft[u].base
                                          /\ draft[u].base <= flows[g].revision
      BY <1>0, <2>8, <3>1 DEF DraftsBehind
    <3>3. flows'[g].revision # 0
      BY <2>2, <2>6, <3>1, <3>2 DEF Exists
    <3>4. g \notin overlapped' => flows[g].revision <= flows'[g].revision
      BY <1>0, <2>2, <2>4, <2>6, <3>1
    <3>5. flows'[g].revision \in Nat /\ flows[g].revision \in Nat
      BY <1>0, <2>7, <3>1 DEF FlowTypeOK, Definition
    <3>. QED  BY <2>5, <3>1, <3>2, <3>3, <3>4, <3>5
  <2>9. DraftsBehind'
    BY <2>8 DEF DraftsBehind, Exists
  <2>. QED  BY <2>6, <2>7, <2>9 DEF DefinitionsInv
<1>7. CASE ForgetDrafts
  BY <1>0, <1>7 DEF ForgetDrafts, DefinitionsInv, FlowTypeOK, DraftsBehind, WrittenExists,
                    RevisionsNumberDefinitions, Written, Exists, Revision
<1>8. CASE UNCHANGED flowVars
  BY <1>0, <1>8 DEF flowVars, DefinitionsInv, FlowTypeOK, DraftsBehind, WrittenExists,
                    RevisionsNumberDefinitions, Written, Exists, Revision
<1>. QED  BY <1>1, <1>2, <1>3, <1>4, <1>5, <1>6, <1>7, <1>8 DEF FlowNext

LEMMA DefinitionsInvariant == FlowSpec => []DefinitionsInv
BY DefinitionsInvInit, DefinitionsInvStep, PTL DEF FlowSpec

\* The definitions, their journal and the drafts of their writers have their types.
THEOREM DefinitionsTypeCorrect == FlowSpec => []FlowTypeOK
<1>1. DefinitionsInv => FlowTypeOK
  BY DEF DefinitionsInv
<1>. QED  BY DefinitionsInvariant, <1>1, PTL

\* FlowService and set_enabled_from_flow: as long as no two writers of an
\* automation overlap, its definitions in the journal carry the revisions 1, 2, 3
\* and the store holds the last of them.
THEOREM RevisionsAreNumbered == FlowSpec => []RevisionsNumberDefinitions
<1>1. DefinitionsInv => RevisionsNumberDefinitions
  BY DEF DefinitionsInv
<1>. QED  BY DefinitionsInvariant, <1>1, PTL

-----------------------------------------------------------------------------
(* DatabaseFiles. *)

USE FilesAssumption

Place == {"free", "serving", "verified", "staged", "checked", "aside", "vacant"}

ArchiveRecord == [content : SUBSET Commit, manifest : BOOLEAN,
                  state : {"absent", "whole", "damaged", "mixed"}]

\* The types, but for what the last server found; and what a restore has verified
\* is the name of an archive.
FilesShape ==
    /\ process \in [at : Place, archive : Archive \cup {"none"}]
    /\ {database, copy} \cup aside \subseteq FileRecord
    /\ log.of \in 0..MaxRestores /\ log.content \subseteq Commit
    /\ archives \in [Archive -> ArchiveRecord]
    /\ commits \in 0..MaxCommits /\ checkpointed \subseteq Commit
    /\ identity \in 0..MaxRestores
    /\ process.at = "verified" => process.archive \in Archive /\ identity < MaxRestores

LEMMA FilesShapeInit == FilesInit => FilesShape
BY DEF FilesInit, FilesShape, Place, ArchiveRecord, Free, NoFile, NoLog, NoArchive, FileOf, FileRecord

LEMMA FilesShapeStep == FilesShape /\ [FilesNext]_fileVars => FilesShape'
<1> SUFFICES ASSUME FilesShape, [FilesNext]_fileVars PROVE FilesShape'
  OBVIOUS
<1>. USE DEF FilesShape, Place, ArchiveRecord, At, FileRecord
<1>1. CASE OpenDatabase
  <2>1. log.content \subseteq Commit /\ identity + 1 \in 0..MaxRestores
    BY <1>1 DEF OpenDatabase
  <2>2. database' \in FileRecord
    <3>1. CASE database = NoFile
      BY <1>1, <2>1, <3>1 DEF OpenDatabase, FileOf
    <3>2. CASE database # NoFile
      BY <1>1, <2>1, <3>2 DEF OpenDatabase, FileOf
    <3>. QED  BY <3>1, <3>2
  <2>3. identity' \in 0..MaxRestores
    BY <1>1, <2>1 DEF OpenDatabase
  <2>4. /\ process' = [at |-> "serving", archive |-> "none"] /\ log' = NoLog
        /\ checkpointed' \subseteq Commit /\ UNCHANGED <<aside, copy, archives, commits>>
    BY <1>1, <2>1 DEF OpenDatabase
  <2>. QED  BY <2>2, <2>3, <2>4 DEF NoLog
<1>2. CASE CommitOne
  BY <1>2 DEF CommitOne, Commit
<1>3. CASE Checkpoint
  BY <1>3 DEF Checkpoint, NoLog
<1>4. ASSUME NEW a \in Archive, CopySnapshot(a) PROVE FilesShape'
  BY <1>4 DEF CopySnapshot
<1>5. ASSUME NEW a \in Archive, WriteManifest(a) \/ DamageArchive(a) PROVE FilesShape'
  <2>1. archives[a] \in ArchiveRecord
    BY DEF ArchiveRecord
  <2>2. /\ [archives[a] EXCEPT !.manifest = TRUE] \in ArchiveRecord
        /\ [archives[a] EXCEPT !.state = "damaged"] \in ArchiveRecord
    BY <2>1 DEF ArchiveRecord
  <2>3. archives' \in [Archive -> ArchiveRecord]
    BY <1>5, <2>2 DEF WriteManifest, DamageArchive, ArchiveRecord
  <2>. QED  BY <1>5, <2>3 DEF WriteManifest, DamageArchive, ArchiveRecord
<1>6. ASSUME NEW a \in Archive, BeginRestore(a) PROVE FilesShape'
  BY <1>6 DEF BeginRestore
<1>7. CASE StageCopy
  <2>1. /\ identity + 1 \in 0..MaxRestores
        /\ archives[process.archive] \in [content : SUBSET Commit, manifest : BOOLEAN,
                                        state : {"absent", "whole", "damaged", "mixed"}]
    BY <1>7 DEF StageCopy
  <2>. QED  BY <1>7, <2>1 DEF StageCopy, FileOf, GoTo
<1>8. CASE CheckCopy
  BY <1>8 DEF CheckCopy, GoTo, Free, NoFile, FileOf
<1>9. CASE MoveAside
  BY <1>9 DEF MoveAside, SetAside, GoTo, NoFile, FileOf
<1>10. CASE PutInPlace
  BY <1>10 DEF PutInPlace, Free, NoFile, FileOf
<1>11. ASSUME NEW previous \in aside, PutBack(previous) PROVE FilesShape'
  BY <1>11 DEF PutBack, Free
<1>12. CASE Abandon
  BY <1>12 DEF Abandon, Free, NoFile, FileOf
<1>13. CASE UNCHANGED fileVars
  BY <1>13 DEF fileVars
<1>. QED  BY <1>1, <1>2, <1>3, <1>4, <1>5, <1>6, <1>7, <1>8, <1>9, <1>10, <1>11, <1>12, <1>13 DEF FilesNext

Kept == checkpointed \subseteq database.content \cup UNION {file.content : file \in aside}
Mixed == \E file \in aside \cup {database} : file.state = "mixed"

\* A restore works on a copy that is not damaged once it is checked, and puts it
\* in place only where no database is.
FilesInv ==
    /\ At("checked") \/ At("aside") \/ At("vacant") => copy.state # "damaged"
    /\ At("aside") \/ At("vacant") => database = NoFile
    /\ \A file \in aside \cup {database} : file.state # "damaged"
    /\ Mixed \/ Kept

LEMMA FilesInvStep == FilesShape /\ FilesInv /\ [FilesNext]_fileVars => FilesInv'
<1> SUFFICES ASSUME FilesShape, FilesInv, [FilesNext]_fileVars PROVE FilesInv'
  OBVIOUS
<1>0. process.at \in Place /\ process \in [at : Place, archive : Archive \cup {"none"}]
  BY DEF FilesShape, Place
<1>. USE <1>0 DEF FilesInv, Mixed, Kept, At
<1>1. CASE OpenDatabase
  <2>1. CASE database = NoFile
    <3>1. /\ database'.content = {} /\ database'.state = "whole"
          /\ aside' = aside /\ checkpointed' = checkpointed
          /\ process'.at = "serving"
      BY <1>1, <2>1 DEF OpenDatabase, FileOf
    <3>2. database.content = {} /\ database.state = "absent"
      BY <2>1 DEF NoFile, FileOf
    <3>. QED  BY <3>1, <3>2
  <2>2. CASE database # NoFile
    <3>1. /\ database'.content = database.content \cup log.content
          /\ database'.state = database.state \/ database'.state = "mixed"
          /\ aside' = aside /\ checkpointed' = checkpointed \cup log.content
          /\ process'.at = "serving"
      BY <1>1, <2>2 DEF OpenDatabase, FileOf
    <3>. QED  BY <3>1
  <2>. QED  BY <2>1, <2>2
<1>2. CASE CommitOne
  BY <1>2 DEF CommitOne
<1>3. CASE Checkpoint
  <2>1. /\ database'.content = database.content \cup log.content
        /\ database'.state = database.state
    BY <1>3 DEF Checkpoint, FilesShape, FileRecord
  <2>. QED  BY <1>3, <2>1 DEF Checkpoint
<1>4. ASSUME NEW a \in Archive, CopySnapshot(a) \/ WriteManifest(a) \/ DamageArchive(a) PROVE FilesInv'
  BY <1>4 DEF CopySnapshot, WriteManifest, DamageArchive
<1>5. ASSUME NEW a \in Archive, BeginRestore(a) PROVE FilesInv'
  BY <1>5 DEF BeginRestore
<1>6. CASE StageCopy
  BY <1>6 DEF StageCopy, GoTo
<1>7. CASE CheckCopy
  BY <1>7 DEF CheckCopy, GoTo, Free
<1>8. CASE MoveAside
  BY <1>8 DEF MoveAside, SetAside, GoTo, NoFile, FileOf
<1>9. CASE PutInPlace
  BY <1>9 DEF PutInPlace, Free, NoFile, FileOf
<1>10. ASSUME NEW previous \in aside, PutBack(previous) PROVE FilesInv'
  BY <1>10 DEF PutBack, Free, NoFile, FileOf
<1>11. CASE Abandon
  BY <1>11 DEF Abandon, Free
<1>12. CASE UNCHANGED fileVars
  BY <1>12 DEF fileVars
<1>. QED  BY <1>1, <1>2, <1>3, <1>4, <1>5, <1>6, <1>7, <1>8, <1>9, <1>10, <1>11, <1>12 DEF FilesNext

\* verify_snapshot and restore: wherever a restore fails or dies, no damaged archive
\* becomes the database and no transaction that reached a database is lost, until
\* a server replays a log that is not its own.
THEOREM RestoresKeepData == FilesSpec => []RestoreKeepsData
<1>1. FilesInit => FilesInv
  BY DEF FilesInit, FilesInv, At, Free, NoFile, FileOf, Mixed, Kept
<1>2. FilesInv => RestoreKeepsData
  BY DEF FilesInv, RestoreKeepsData, Mixed, Kept
<1>3. FilesShape /\ FilesInv /\ [FilesNext]_fileVars => (FilesShape /\ FilesInv)'
  BY FilesShapeStep, FilesInvStep
<1>. QED  BY FilesShapeInit, <1>1, <1>2, <1>3, PTL DEF FilesSpec

\* What the last server found: a database there is, a copy that was checked, and
\* an archive with a manifest are never nothing.
FoundInv ==
    /\ started \in {"never", "whole", "empty", "mixed"}
    /\ database = NoFile \/ database.state \in {"whole", "mixed"}
    /\ \A file \in aside : file.state \in {"whole", "mixed"}
    /\ At("serving") => database.state \in {"whole", "mixed"}
    /\ \A a \in Archive : archives[a] # NoArchive => archives[a].state # "absent"
    /\ At("verified") => archives[process.archive].state # "absent"
    /\ At("staged") => copy.state # "absent"
    /\ At("checked") \/ At("aside") \/ At("vacant") => copy.state \in {"whole", "mixed"}

LEMMA FoundStep == FilesShape /\ FoundInv /\ [FilesNext]_fileVars => FoundInv'
<1> SUFFICES ASSUME FilesShape, FoundInv, [FilesNext]_fileVars PROVE FoundInv'
  OBVIOUS
<1>0. process \in [at : Place, archive : Archive \cup {"none"}] /\ archives \in [Archive -> ArchiveRecord]
  BY DEF FilesShape
<1>. USE <1>0 DEF FoundInv, At
<1>1. CASE OpenDatabase
  <2>1. CASE database = NoFile
    <3>1. /\ database'.state = "whole" /\ process'.at = "serving"
          /\ started' \in {"whole", "empty"} /\ UNCHANGED <<aside, copy, archives>>
      BY <1>1, <2>1 DEF OpenDatabase, FileOf
    <3>. QED  BY <3>1
  <2>2. CASE database # NoFile
    <3>1. /\ database'.state \in {"whole", "mixed"} /\ process'.at = "serving"
          /\ started' \in {"whole", "mixed"} /\ UNCHANGED <<aside, copy, archives>>
      BY <1>1, <2>2 DEF OpenDatabase, FileOf
    <3>. QED  BY <3>1
  <2>. QED  BY <2>1, <2>2
<1>2. CASE CommitOne
  BY <1>2 DEF CommitOne
<1>3. CASE Checkpoint
  <2>1. database'.state = database.state
    BY <1>3 DEF Checkpoint, FilesShape, FileRecord
  <2>2. database.state \in {"whole", "mixed"}
    BY <1>3 DEF Checkpoint
  <2>. QED  BY <1>3, <2>1, <2>2 DEF Checkpoint
<1>4. ASSUME NEW a \in Archive, CopySnapshot(a) PROVE FoundInv'
  <2>1. /\ \A b \in Archive : b # a => archives'[b] = archives[b]
        /\ archives'[a].state = database.state /\ database.state \in {"whole", "mixed"}
        /\ At("serving")
    BY <1>4 DEF CopySnapshot, ArchiveRecord
  <2>. QED  BY <1>4, <2>1 DEF CopySnapshot
<1>5. ASSUME NEW a \in Archive, WriteManifest(a) \/ DamageArchive(a) PROVE FoundInv'
  <2>1. archives[a] \in ArchiveRecord /\ archives[a].state # "absent"
    BY <1>5 DEF WriteManifest, DamageArchive
  <2>2. /\ \A b \in Archive : b # a => archives'[b] = archives[b]
        /\ archives'[a].state \in {archives[a].state, "damaged"}
    BY <1>5, <2>1 DEF WriteManifest, DamageArchive, ArchiveRecord
  <2>3. ASSUME NEW b \in Archive, archives[b].state # "absent" PROVE archives'[b].state # "absent"
    BY <2>1, <2>2, <2>3
  <2>4. ASSUME NEW b \in Archive, archives'[b] # NoArchive PROVE archives'[b].state # "absent"
    <3>1. CASE b = a
      BY <2>1, <2>2, <3>1
    <3>2. CASE b # a
      BY <2>2, <2>4, <3>2
    <3>. QED  BY <3>1, <3>2
  <2>5. UNCHANGED <<process, database, aside, copy, started>>
    BY <1>5 DEF WriteManifest, DamageArchive
  <2>6. At("verified") => process.archive \in Archive
    BY DEF FilesShape
  <2>. QED  BY <2>3, <2>4, <2>5, <2>6
<1>6. ASSUME NEW a \in Archive, BeginRestore(a) PROVE FoundInv'
  <2>1. archives[a] # NoArchive
    BY <1>6 DEF BeginRestore, Verified, NoArchive
  <2>. QED  BY <1>6, <2>1 DEF BeginRestore
<1>7. CASE StageCopy
  BY <1>7 DEF StageCopy, GoTo, FileOf
<1>8. CASE CheckCopy
  <2>1. copy.state \in {"absent", "whole", "damaged", "mixed"}
    BY DEF FilesShape, FileRecord
  <2>. QED  BY <1>8, <2>1 DEF CheckCopy, GoTo, Free
<1>9. CASE MoveAside
  BY <1>9 DEF MoveAside, SetAside, GoTo
<1>10. CASE PutInPlace
  BY <1>10 DEF PutInPlace, Free
<1>11. ASSUME NEW previous \in aside, PutBack(previous) PROVE FoundInv'
  BY <1>11 DEF PutBack, Free
<1>12. CASE Abandon
  BY <1>12 DEF Abandon, Free
<1>13. CASE UNCHANGED fileVars
  BY <1>13 DEF fileVars
<1>. QED  BY <1>1, <1>2, <1>3, <1>4, <1>5, <1>6, <1>7, <1>8, <1>9, <1>10, <1>11, <1>12, <1>13 DEF FilesNext

\* open and restore: files and archives keep their types, and no server ever
\* opens a damaged file (in place of one that is missing it opens an empty one).
THEOREM FilesTypeCorrect == FilesSpec => []FilesTypeOK
<1>1. FilesInit => FoundInv
  BY DEF FilesInit, FoundInv, At, Free
<1>2. FilesShape /\ FoundInv => FilesTypeOK
  BY DEF FilesShape, FoundInv, FilesTypeOK, Place, ArchiveRecord
<1>3. FilesShape /\ FoundInv /\ [FilesNext]_fileVars => (FilesShape /\ FoundInv)'
  BY FilesShapeStep, FoundStep
<1>. QED  BY FilesShapeInit, <1>1, <1>2, <1>3, PTL DEF FilesSpec

-----------------------------------------------------------------------------
(* DevicePages. *)

USE PagesAssumption

\* What has been read so far is what comes no later than the cursor.
Read(i) == \/ reader.at = "done"
           \/ reader.at = "reading" /\ (i = reader.cursor \/ Before(i, reader.cursor))

CursorInv ==
    /\ reader.at = "none" => reader.cursor = 0
    /\ reader.at = "reading" => reader.cursor \in PageId

ListedInv ==
    /\ reader.at = "none" => \A i \in PageId : listed[i] = 0
    /\ ~cursorMoved =>
          \A i \in PageId \ touched :
              listed[i] = IF Read(i) /\ Matches(i, reader.status) THEN 1 ELSE 0

PagesInv == PagesTypeOK /\ CursorInv /\ ListedInv

\* Names and identifiers put the devices in one order.
LEMMA RowsOrdered ==
  ASSUME PagesTypeOK, NEW i \in PageId, NEW j \in PageId, NEW k \in PageId
  PROVE  /\ ~Before(i, i)
         /\ i = j \/ Before(i, j) \/ Before(j, i)
         /\ ~(Before(i, j) /\ Before(j, i))
         /\ Before(i, j) /\ Before(j, k) => Before(i, k)
<1>1. \A x \in PageId : rows[x].name \in SortName \cup {0}
  BY DEF PagesTypeOK
<1>2. PageId \subseteq Nat /\ SortName \cup {0} \subseteq Nat
  OBVIOUS
<1>3. /\ rows[i].name \in Nat /\ rows[j].name \in Nat /\ rows[k].name \in Nat
      /\ i \in Nat /\ j \in Nat /\ k \in Nat
  BY <1>1, <1>2
<1>. QED  BY <1>3 DEF Before

Earlier(S, i) == {j \in S : Before(j, i)}
Later(S, i) == {j \in S : Before(i, j)}
LastOf(S) == CHOOSE i \in S : \A j \in S : ~Before(i, j)

\* Some row of a selection comes first, some last.
LEMMA FirstAndLast ==
  ASSUME PagesTypeOK, NEW S \in SUBSET PageId, S # {}
  PROVE  /\ \E i \in S : Earlier(S, i) = {}
         /\ \E i \in S : Later(S, i) = {}
<1>1. IsWellFoundedOn(StrictSubsetOrdering(PageId), FiniteSubsetsOf(PageId))
  BY FS_StrictSubsetOrderingWellFounded
<1>2. \A T \in SUBSET PageId : T \in FiniteSubsetsOf(PageId)
  BY FS_Subset DEF FiniteSubsetsOf
<1>3. \E i \in S : Earlier(S, i) = {}
  <2> DEFINE sets == {Earlier(S, i) : i \in S}
  <2>1. sets \subseteq FiniteSubsetsOf(PageId) /\ sets # {}
    <3>1. \A i \in S : Earlier(S, i) \subseteq S /\ IsFiniteSet(Earlier(S, i))
      <4>1. \A i \in S : Earlier(S, i) \subseteq S
        BY DEF Earlier
      <4>. QED  BY <4>1, <1>2, FS_Subset
    <3>2. \A x \in sets : x \in SUBSET PageId /\ IsFiniteSet(x)
      BY <3>1
    <3>3. sets # {}
      OBVIOUS
    <3>. QED  BY <3>2, <3>3 DEF FiniteSubsetsOf
  <2>2. \E x \in sets : \A y \in sets : <<y, x>> \notin StrictSubsetOrdering(PageId)
    BY <1>1, <2>1, WFMin
  <2>3. PICK i \in S : \A k \in S :
            <<Earlier(S, k), Earlier(S, i)>> \notin StrictSubsetOrdering(PageId)
    BY <2>2
  <2>4. ASSUME NEW k \in Earlier(S, i) PROVE FALSE
    <3>1. k \in S /\ k \in PageId /\ i \in PageId /\ Before(k, i)
      BY DEF Earlier
    <3>2. k \notin Earlier(S, k)
      BY <3>1, RowsOrdered DEF Earlier
    <3>3. \A j \in Earlier(S, k) : j \in Earlier(S, i)
      BY <3>1, RowsOrdered DEF Earlier
    <3>4. Earlier(S, k) \in SUBSET PageId /\ Earlier(S, i) \in SUBSET PageId
      BY DEF Earlier
    <3>. QED  BY <2>3, <3>1, <3>2, <3>3, <3>4 DEF StrictSubsetOrdering
  <2>. QED  BY <2>4
<1>4. \E i \in S : Later(S, i) = {}
  <2> DEFINE sets == {Later(S, i) : i \in S}
  <2>1. sets \subseteq FiniteSubsetsOf(PageId) /\ sets # {}
    <3>1. \A i \in S : Later(S, i) \subseteq S /\ IsFiniteSet(Later(S, i))
      <4>1. \A i \in S : Later(S, i) \subseteq S
        BY DEF Later
      <4>. QED  BY <4>1, <1>2, FS_Subset
    <3>2. \A x \in sets : x \in SUBSET PageId /\ IsFiniteSet(x)
      BY <3>1
    <3>3. sets # {}
      OBVIOUS
    <3>. QED  BY <3>2, <3>3 DEF FiniteSubsetsOf
  <2>2. \E x \in sets : \A y \in sets : <<y, x>> \notin StrictSubsetOrdering(PageId)
    BY <1>1, <2>1, WFMin
  <2>3. PICK i \in S : \A k \in S :
            <<Later(S, k), Later(S, i)>> \notin StrictSubsetOrdering(PageId)
    BY <2>2
  <2>4. ASSUME NEW k \in Later(S, i) PROVE FALSE
    <3>1. k \in S /\ k \in PageId /\ i \in PageId /\ Before(i, k)
      BY DEF Later
    <3>2. k \notin Later(S, k)
      BY <3>1, RowsOrdered DEF Later
    <3>3. \A j \in Later(S, k) : j \in Later(S, i)
      BY <3>1, RowsOrdered DEF Later
    <3>4. Later(S, k) \in SUBSET PageId /\ Later(S, i) \in SUBSET PageId
      BY DEF Later
    <3>. QED  BY <2>3, <3>1, <3>2, <3>3, <3>4 DEF StrictSubsetOrdering
  <2>. QED  BY <2>4
<1>. QED  BY <1>3, <1>4

\* A row has more rows before it than any of those.
LEMMA CountsGrow ==
  ASSUME PagesTypeOK, NEW S \in SUBSET PageId, NEW i \in S
  PROVE  /\ Cardinality(Earlier(S, i)) \in Nat /\ Cardinality(S) \in Nat
         /\ Cardinality(Earlier(S, i)) < Cardinality(S)
         /\ \A k \in Earlier(S, i) :
               /\ Cardinality(Earlier(S, k)) \in Nat
               /\ Cardinality(Earlier(S, k)) < Cardinality(Earlier(S, i))
<1>0. IsFiniteSet(S)
  BY FS_Subset
<1>1. ASSUME NEW k \in S, NEW T \in SUBSET S, Earlier(S, k) \subseteq T, k \in T
      PROVE  /\ Cardinality(Earlier(S, k)) \in Nat /\ Cardinality(T) \in Nat
             /\ Cardinality(Earlier(S, k)) < Cardinality(T)
  <2>1. IsFiniteSet(T) /\ IsFiniteSet(Earlier(S, k))
    BY <1>0, FS_Subset DEF Earlier
  <2>2. k \notin Earlier(S, k)
    BY RowsOrdered DEF Earlier
  <2>3. Cardinality(Earlier(S, k) \cup {k}) = Cardinality(Earlier(S, k)) + 1
    BY <2>1, <2>2, FS_AddElement
  <2>4. Earlier(S, k) \cup {k} \in SUBSET T
    BY <1>1
  <2>5. Cardinality(Earlier(S, k) \cup {k}) <= Cardinality(T)
    BY <2>1, <2>4, FS_Subset
  <2>6. Cardinality(Earlier(S, k)) \in Nat /\ Cardinality(T) \in Nat
    BY <2>1, FS_CardinalityType
  <2>. QED  BY <2>3, <2>5, <2>6
<1>2. Earlier(S, i) \subseteq S
  BY DEF Earlier
<1>3. ASSUME NEW k \in Earlier(S, i)
      PROVE  k \in S /\ Earlier(S, k) \subseteq Earlier(S, i)
  BY RowsOrdered DEF Earlier
<1>. QED  BY <1>1, <1>2, <1>3

\* The query with its LIMIT: everything, or what comes no later than the last
\* row of the page, which is there.
LEMMA PageOfRows ==
  ASSUME PagesTypeOK, NEW S \in SUBSET PageId
  PROVE  /\ Cardinality(S) <= Limit => Page(S) = S
         /\ Cardinality(S) > Limit =>
               \E last \in Page(S) :
                   /\ last = LastOf(Page(S))
                   /\ Page(S) = {i \in S : i = last \/ Before(i, last)}
<1>1. Page(S) = {i \in S : Cardinality(Earlier(S, i)) < Limit}
  BY DEF Page, Earlier
<1>2. ASSUME Cardinality(S) <= Limit PROVE Page(S) = S
  <2>1. ASSUME NEW i \in S PROVE Cardinality(Earlier(S, i)) < Limit
    <3>1. /\ Cardinality(Earlier(S, i)) \in Nat /\ Cardinality(S) \in Nat
          /\ Cardinality(Earlier(S, i)) < Cardinality(S)
      BY CountsGrow
    <3>. QED  BY <1>2, <3>1
  <2>. QED  BY <1>1, <2>1
<1>3. ASSUME Cardinality(S) > Limit
      PROVE  \E last \in Page(S) :
                 /\ last = LastOf(Page(S))
                 /\ Page(S) = {i \in S : i = last \/ Before(i, last)}
  <2>0. Cardinality({}) = 0 /\ 0 < Limit /\ Limit \in Nat
    BY FS_EmptySet
  <2>1. S # {}
    BY <1>3, <2>0
  <2>2. PICK first \in S : Earlier(S, first) = {}
    BY <2>1, FirstAndLast
  <2>3. Page(S) \in SUBSET PageId /\ first \in Page(S)
    BY <1>1, <2>0, <2>2
  <2>4. \E i \in Page(S) : Later(Page(S), i) = {}
    BY <2>3, FirstAndLast
  <2>5. \E i \in Page(S) : \A j \in Page(S) : ~Before(i, j)
    BY <2>4 DEF Later
  <2>6. PICK last \in Page(S) :
            /\ last = LastOf(Page(S))
            /\ \A j \in Page(S) : ~Before(last, j)
    BY <2>5 DEF LastOf
  <2>7. last \in S /\ Cardinality(Earlier(S, last)) < Limit
    BY <1>1, <2>6
  <2>8. ASSUME NEW i \in S
        PROVE  i \in Page(S) <=> i = last \/ Before(i, last)
    <3>1. CASE i \in Page(S)
      BY <2>6, <2>7, <3>1, RowsOrdered
    <3>2. CASE Before(i, last)
      <4>1. i \in Earlier(S, last)
        BY <3>2 DEF Earlier
      <4>2. Cardinality(Earlier(S, i)) < Cardinality(Earlier(S, last))
            /\ Cardinality(Earlier(S, i)) \in Nat /\ Cardinality(Earlier(S, last)) \in Nat
        BY <2>7, <4>1, CountsGrow
      <4>. QED  BY <1>1, <2>7, <3>2, <4>2
    <3>. QED  BY <2>6, <3>1, <3>2
  <2>9. Page(S) = {i \in S : i = last \/ Before(i, last)}
    BY <1>1, <2>8
  <2>. QED  BY <2>6, <2>9
<1>. QED  BY <1>2, <1>3

LEMMA PagesInvInit == PagesInit => PagesInv
<1> SUFFICES ASSUME PagesInit PROVE PagesInv
  OBVIOUS
<1>1. /\ reader.at = "none" /\ reader.cursor = 0 /\ \A i \in PageId : listed[i] = 0
      /\ reader \in [at : {"none", "reading", "done"}, cursor : PageId \cup {0},
                     status : PageStatus \cup {AnyStatus}]
  BY DEF PagesInit
<1>2. rows \in [PageId -> [name : SortName \cup {0}, status : PageStatus \cup {"absent"}]]
  BY DEF PagesInit, NoRow
<1>3. listed \in [PageId -> Nat] /\ changes \in 0..MaxChanges
  BY DEF PagesInit
<1>3a. touched \subseteq PageId /\ cursorMoved \in BOOLEAN
  BY DEF PagesInit
<1>4. PagesTypeOK
  BY <1>1, <1>2, <1>3, <1>3a DEF PagesTypeOK
<1>5. CursorInv
  BY <1>1 DEF CursorInv
<1>6. ListedInv
  BY <1>1 DEF ListedInv, Read
<1>. QED  BY <1>4, <1>5, <1>6 DEF PagesInv

LEMMA ChangeRowStep ==
  ASSUME PagesInv, NEW i \in PageId, NEW name \in SortName, NEW status \in PageStatus,
         ChangeRow(i, name, status)
  PROVE  PagesInv'
<1>0. PagesTypeOK /\ CursorInv /\ ListedInv
  BY DEF PagesInv
<1>1. /\ rows'[i] = [name |-> name, status |-> status]
      /\ \A j \in PageId : j # i => rows'[j] = rows[j]
      /\ reader' = reader /\ listed' = listed
  BY <1>0 DEF ChangeRow, PagesTypeOK
<1>2. PagesTypeOK'
  <2>1. [name |-> name, status |-> status]
          \in [name : SortName \cup {0}, status : PageStatus \cup {"absent"}]
    OBVIOUS
  <2>2. rows' \in [PageId -> [name : SortName \cup {0}, status : PageStatus \cup {"absent"}]]
    BY <1>0, <2>1 DEF ChangeRow, PagesTypeOK
  <2>3. changes' \in 0..MaxChanges
    BY <1>0 DEF ChangeRow, PagesTypeOK
  <2>4. touched' \subseteq PageId /\ cursorMoved' \in BOOLEAN
    BY <1>0 DEF ChangeRow, PagesTypeOK
  <2>. QED  BY <1>0, <1>1, <2>2, <2>3, <2>4 DEF PagesTypeOK
<1>3. CursorInv'
  BY <1>0, <1>1 DEF CursorInv
<1>4. ASSUME ~cursorMoved', NEW j \in PageId \ touched'
      PROVE  listed'[j] = IF Read(j)' /\ Matches(j, reader.status)' THEN 1 ELSE 0
  <2>1. CASE reader.at = "none"
    BY <1>0, <1>1, <2>1 DEF ListedInv, Read
  <2>2. CASE reader.at # "none"
    <3>0. touched' = touched \cup {i}
          /\ cursorMoved' = (cursorMoved \/ (i = reader.cursor /\ name # rows[i].name))
      BY <2>2 DEF ChangeRow
    <3>1. j \in PageId \ touched /\ j # i /\ ~cursorMoved
          /\ (i = reader.cursor => name = rows[i].name)
      BY <1>4, <3>0
    <3>2. rows'[j] = rows[j]
      BY <1>1, <3>1
    <3>2a. reader.at = "reading" => rows'[reader.cursor].name = rows[reader.cursor].name
      <4>1. CASE reader.cursor = i
        BY <1>1, <3>1, <4>1
      <4>2. CASE reader.cursor # i
        BY <1>0, <1>1, <4>2 DEF CursorInv
      <4>. QED  BY <4>1, <4>2
    <3>3. (Read(j)' <=> Read(j)) /\ (Matches(j, reader.status)' <=> Matches(j, reader.status))
      BY <1>1, <3>2, <3>2a DEF Read, Before, Matches
    <3>4. listed[j] = IF Read(j) /\ Matches(j, reader.status) THEN 1 ELSE 0
      BY <1>0, <3>1 DEF ListedInv
    <3>. QED  BY <1>1, <3>3, <3>4
  <2>. QED  BY <2>1, <2>2
<1>5. ListedInv'
  BY <1>0, <1>1, <1>4 DEF ListedInv
<1>. QED  BY <1>2, <1>3, <1>5 DEF PagesInv

\* One more page: no row again that was read, and none passed over.
LEMMA ReadPageStep ==
  ASSUME PagesInv, NEW status \in PageStatus \cup {AnyStatus}, NEW cursor, cursor = reader.cursor,
         ReadPage(cursor, status),
         \/ reader.at = "none"
         \/ reader.at = "reading" /\ status = reader.status
  PROVE  PagesInv'
<1>0. /\ PagesTypeOK /\ CursorInv /\ ListedInv
      /\ 0 \notin PageId /\ cursor \in PageId \cup {0}
      /\ (cursor = 0) <=> (reader.at = "none")
  BY DEF PagesInv, PagesTypeOK, CursorInv
<1>1. PICK S \in SUBSET PageId : S = Selected(cursor, status)
  BY DEF Selected
<1>2. /\ listed' = [i \in PageId |-> IF i \in Page(S) THEN listed[i] + 1 ELSE listed[i]]
      /\ reader'.at = IF Cardinality(S) > Limit THEN "reading" ELSE "done"
      /\ reader'.status = status
      /\ Cardinality(S) > Limit =>
            reader'.cursor = LastOf(Page(S))
      /\ UNCHANGED <<rows, changes, touched, cursorMoved>>
  BY <1>1 DEF ReadPage, LastOf
<1>3. \A i \in PageId : i \in S <=> Matches(i, status) /\ (cursor = 0 \/ Before(cursor, i))
  BY <1>1 DEF Selected, Behind
<1>4. IsFiniteSet(S) /\ Cardinality(S) \in Nat /\ Page(S) \subseteq S
  <2>1. IsFiniteSet(S)
    BY FS_Subset
  <2>. QED  BY <2>1, FS_CardinalityType DEF Page
<1>4a. /\ Cardinality(S) <= Limit => Page(S) = S
       /\ Cardinality(S) > Limit =>
             /\ LastOf(Page(S)) \in Page(S)
             /\ Page(S) = {i \in S : i = LastOf(Page(S)) \/ Before(i, LastOf(Page(S)))}
  BY <1>0, PageOfRows
<1>5. Cardinality(S) > Limit => reader'.cursor \in Page(S)
  BY <1>2, <1>4a
<1>6. PagesTypeOK'
  <2>1. listed' \in [PageId -> Nat]
    BY <1>0, <1>2 DEF PagesTypeOK
  <2>2. reader' = [at |-> IF Cardinality(S) > Limit THEN "reading" ELSE "done", status |-> status,
                   cursor |-> IF Cardinality(S) > Limit
                                 THEN LastOf(Page(S))
                                 ELSE 0]
    BY <1>1 DEF ReadPage, LastOf
  <2>3. reader' \in [at : {"none", "reading", "done"}, cursor : PageId \cup {0},
                     status : PageStatus \cup {AnyStatus}]
    <3>1. reader'.cursor \in PageId \cup {0}
      <4>1. CASE Cardinality(S) > Limit
        BY <1>4, <1>5, <4>1
      <4>2. CASE ~(Cardinality(S) > Limit)
        BY <2>2, <4>2
      <4>. QED  BY <4>1, <4>2
    <3>2. reader'.at \in {"none", "reading", "done"}
      BY <1>2
    <3>3. reader' = [at |-> reader'.at, status |-> status, cursor |-> reader'.cursor]
      BY <2>2
    <3>. QED  BY <3>1, <3>2, <3>3
  <2>. QED  BY <1>0, <1>2, <2>1, <2>3 DEF PagesTypeOK
<1>7. CursorInv'
  BY <1>2, <1>4, <1>5 DEF CursorInv
<1>8. ASSUME ~cursorMoved', NEW i \in PageId \ touched'
      PROVE  listed'[i] = IF Read(i)' /\ Matches(i, reader.status)' THEN 1 ELSE 0
  <2>1. (Matches(i, reader.status)' <=> Matches(i, status))
        /\ \A k \in PageId : Before(i, k)' <=> Before(i, k)
    BY <1>2 DEF Matches, Before
  <2>2. i \in PageId \ touched /\ ~cursorMoved
    BY <1>2, <1>8
  <2>3. listed[i] = IF cursor # 0 /\ (i = cursor \/ Before(i, cursor)) /\ Matches(i, status)
                       THEN 1 ELSE 0
    BY <1>0, <2>2 DEF ListedInv, Read
  <2>4. cursor # 0 => (i = cursor \/ Before(i, cursor) \/ Before(cursor, i))
                      /\ ~Before(i, i) /\ ~(Before(i, cursor) /\ Before(cursor, i))
    BY <1>0, RowsOrdered
  <2>5. listed[i] = IF Matches(i, status) /\ i \notin S THEN 1 ELSE 0
    BY <1>3, <2>3, <2>4
  <2>6. listed'[i] = IF i \in Page(S) THEN listed[i] + 1 ELSE listed[i]
    BY <1>2
  <2>7. listed'[i] = IF Matches(i, status) /\ (i \in S => i \in Page(S)) THEN 1 ELSE 0
    BY <1>3, <1>4, <2>5, <2>6
  <2>8. CASE Cardinality(S) <= Limit
    <3>1. Page(S) = S /\ reader'.at = "done"
      BY <1>2, <1>4, <1>4a, <2>8
    <3>. QED  BY <2>1, <2>7, <3>1 DEF Read
  <2>9. CASE Cardinality(S) > Limit
    <3>1. PICK last \in Page(S) :
              /\ last = reader'.cursor
              /\ Page(S) = {j \in S : j = last \/ Before(j, last)}
      BY <1>2, <1>4a, <2>9
    <3>2. reader'.at = "reading" /\ last \in PageId /\ last \in S
      BY <1>2, <1>4, <2>9, <3>1
    <3>3. Read(i)' <=> i = last \/ Before(i, last)
      BY <2>1, <3>1, <3>2 DEF Read
    <3>4. ASSUME i \notin S, Matches(i, status) PROVE Before(i, last)
      <4>1. cursor \in PageId /\ Before(cursor, last) /\ (i = cursor \/ Before(i, cursor))
        BY <1>0, <1>3, <2>4, <3>2, <3>4
      <4>. QED  BY <1>0, <3>2, <4>1, RowsOrdered
    <3>5. Matches(i, status) => ((i \in S => i \in Page(S)) <=> i = last \/ Before(i, last))
      BY <3>1, <3>4
    <3>. QED  BY <2>1, <2>7, <3>3, <3>5
  <2>. QED  BY <1>4, <2>8, <2>9
<1>9. ListedInv'
  BY <1>2, <1>8 DEF ListedInv
<1>. QED  BY <1>6, <1>7, <1>9 DEF PagesInv

LEMMA PagesInvStep == PagesInv /\ [PagesNext]_pageVars => PagesInv'
<1> SUFFICES ASSUME PagesInv, [PagesNext]_pageVars PROVE PagesInv'
  OBVIOUS
<1>1. ASSUME NEW i \in PageId, NEW name \in SortName, NEW status \in PageStatus,
             ChangeRow(i, name, status)
      PROVE  PagesInv'
  BY <1>1, ChangeRowStep
<1>2. ASSUME NEW status \in PageStatus \cup {AnyStatus}, FirstPage(status) PROVE PagesInv'
  <2>1. reader.at = "none" /\ reader.cursor = 0 /\ ReadPage(0, status)
    BY <1>2 DEF FirstPage, PagesInv, CursorInv
  <2>. QED  BY <2>1, ReadPageStep
<1>3. CASE NextPage
  <2>1. /\ reader.at = "reading" /\ reader.status \in PageStatus \cup {AnyStatus}
        /\ ReadPage(reader.cursor, reader.status)
    BY <1>3 DEF NextPage, PagesInv, PagesTypeOK
  <2>. QED  BY <2>1, ReadPageStep
<1>4. CASE UNCHANGED pageVars
  BY <1>4 DEF pageVars, PagesInv, PagesTypeOK, CursorInv, ListedInv, Read, Matches, Before
<1>. QED  BY <1>1, <1>2, <1>3, <1>4 DEF PagesNext

\* list_devices_page: however many pages there are and whatever changes between
\* them, a device that stays as it was is listed once and only once, as long as
\* the device of the cursor keeps its name.
THEOREM PagesListEachOnce == PagesSpec => []PagesListOnce
<1>1. PagesInv => PagesListOnce
  BY DEF PagesInv, PagesTypeOK, ListedInv, PagesListOnce, Read
<1>. QED  BY PagesInvInit, PagesInvStep, <1>1, PTL DEF PagesSpec

\* Rows of devices, the client's list and its cursor keep their types, for any
\* devices, names and page size.
THEOREM PagesTypeCorrect == PagesSpec => []PagesTypeOK
<1>1. PagesInv => PagesTypeOK
  BY DEF PagesInv
<1>. QED  BY PagesInvInit, PagesInvStep, <1>1, PTL DEF PagesSpec
=============================================================================
