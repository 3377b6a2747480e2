--------------------------- MODULE McpServerProofs ---------------------------
(***************************************************************************)
(* Theorems about McpServer, for any tokens, policies, calls, quotas and   *)
(* number of requests handled at the same time.                            *)
(***************************************************************************)
EXTENDS McpServer, FiniteSetTheorems, TLAPS

USE McpAssumption

-----------------------------------------------------------------------------
(* Counting. *)

\* An index set of a sequence grows by one with an element at its end.
LEMMA Grown ==
  ASSUME NEW n \in Nat, NEW I \in SUBSET (1..n)
  PROVE  /\ IsFiniteSet(I) /\ Cardinality(I) \in Nat
         /\ Cardinality(I \cup {n + 1}) = Cardinality(I) + 1
<1>1. IsFiniteSet(1..n)
  BY FS_Interval
<1>2. IsFiniteSet(I)
  BY <1>1, FS_Subset
<1>3. n + 1 \notin I
  OBVIOUS
<1>. QED  BY <1>2, <1>3, FS_AddElement, FS_CardinalityType

LEMMA Requests ==
  ASSUME NEW G \in SUBSET Request
  PROVE  /\ IsFiniteSet(G) /\ Cardinality(G) \in Nat
         /\ \A r \in G : Cardinality(G) > 0 /\ Cardinality(G \ {r}) = Cardinality(G) - 1
         /\ \A r \in Request \ G : Cardinality(G \cup {r}) = Cardinality(G) + 1
<1>1. IsFiniteSet(G)
  BY FS_Subset
<1>2. Cardinality(G) \in Nat
  BY <1>1, FS_CardinalityType
<1>3. ASSUME NEW r \in G PROVE Cardinality(G) > 0 /\ Cardinality(G \ {r}) = Cardinality(G) - 1
  <2>1. Cardinality(G \ {r}) = Cardinality(G) - 1
    BY <1>1, FS_RemoveElement
  <2>2. Cardinality(G) # 0
    BY <1>1, FS_EmptySet
  <2>. QED  BY <1>2, <2>1, <2>2
<1>4. ASSUME NEW r \in Request \ G PROVE Cardinality(G \cup {r}) = Cardinality(G) + 1
  BY <1>1, FS_AddElement
<1>. QED  BY <1>1, <1>2, <1>3, <1>4

\* An instant of the model lies in a window of the model.
LEMMA InWindow == ASSUME NEW t \in Instants PROVE HourOf(t) \in Windows
<1>1. Hour \in Nat /\ Hour > 0 /\ t \in Nat /\ MaxTime \in Nat /\ t <= MaxTime
  BY DEF Instants
<1>2. ASSUME NEW h \in Nat, h > 0, NEW x \in Nat, NEW y \in Nat, x <= y
      PROVE  x \div h \in Nat /\ y \div h \in Nat /\ x \div h <= y \div h
  <2>1. /\ x = h * (x \div h) + (x % h) /\ y = h * (y \div h) + (y % h)
        /\ x % h \in 0..(h - 1) /\ y % h \in 0..(h - 1)
        /\ x \div h \in Nat /\ y \div h \in Nat
    BY <1>2
  <2>2. ASSUME NEW p \in Nat, NEW q \in Nat, q + 1 <= p, NEW i \in 0..(h - 1), NEW j \in 0..(h - 1)
        PROVE  h * p + i > h * q + j
    <3>1. h * p >= h * (q + 1)
      BY <1>2, <2>2
    <3>. QED  BY <1>2, <2>2, <3>1
  <2>. QED  BY <1>2, <2>1, <2>2
<1>. QED  BY <1>1, <1>2 DEF HourOf, Windows

-----------------------------------------------------------------------------
(* Types. *)

AskRecord == [at : {"authenticated", "granted"}, token : McpToken, call : Call,
              approval : ApprovalId]

LEMMA McpTypeInit == McpInit => McpTypeOK
BY DEF McpInit, McpTypeOK, Instants

LEMMA Asking ==
  ASSUME McpTypeOK, NEW r \in Request, requests[r].at \in {"authenticated", "granted"}
  PROVE  /\ requests[r] \in AskRecord
         /\ requests[r].token \in McpToken /\ requests[r].call \in Call
         /\ requests[r].approval \in ApprovalId
BY DEF McpTypeOK, Idle, AskRecord

LEMMA Ask ==
  ASSUME NEW r \in AskRecord, NEW s \in AskRecord, NEW place \in {"authenticated", "granted"},
         s = [r EXCEPT !.at = place]
  PROVE  s.at = place /\ s.token = r.token /\ s.call = r.call /\ s.approval = r.approval
BY DEF AskRecord

\* What a granted request becomes.
LEMMA Granted ==
  ASSUME McpTypeOK, NEW r \in Request, requests[r].at = "authenticated", Proceed(r)
  PROVE  /\ requests' \in [Request -> {Idle} \cup AskRecord]
         /\ requests'[r].at = "granted" /\ requests'[r].token = requests[r].token
         /\ requests'[r].call = requests[r].call /\ requests'[r].approval = requests[r].approval
         /\ \A q \in Request : q # r => requests'[q] = requests[q]
<1>1. requests[r] \in AskRecord
  BY Asking
<1>2. PICK s : s = [requests[r] EXCEPT !.at = "granted"]
  OBVIOUS
<1>3. s \in AskRecord /\ s.at = "granted" /\ s.token = requests[r].token
      /\ s.call = requests[r].call /\ s.approval = requests[r].approval
  BY <1>1, <1>2 DEF AskRecord
<1>4. requests' = [requests EXCEPT ![r] = s]
  BY <1>2 DEF Proceed
<1>5. requests \in [Request -> {Idle} \cup AskRecord]
  BY DEF McpTypeOK, AskRecord
<1>. QED  BY <1>3, <1>4, <1>5

LEMMA Ended ==
  ASSUME McpTypeOK, NEW r \in Request, requests' = [requests EXCEPT ![r] = Idle]
  PROVE  /\ requests' \in [Request -> {Idle} \cup AskRecord]
         /\ requests'[r] = Idle /\ \A q \in Request : q # r => requests'[q] = requests[q]
BY DEF McpTypeOK, AskRecord

Outcome == {"approved", "denied", "allow_listed", "quota_denied"}
AuditRecord == [token : McpToken, call : Call, at : Instants, outcome : Outcome]

\* What an audit leaves.
LEMMA Audits ==
  ASSUME McpTypeOK, NEW r \in Request, requests[r].at = "authenticated",
         NEW outcome \in Outcome, Audit(r, outcome)
  PROVE  /\ audit' \in Seq(AuditRecord)
         /\ Len(audit) \in Nat /\ Len(audit') = Len(audit) + 1
         /\ \A i \in 1..Len(audit) : audit'[i] = audit[i]
         /\ \A i : i = Len(audit) + 1 =>
               /\ audit'[i].token = requests[r].token /\ audit'[i].call = requests[r].call
               /\ audit'[i].outcome = outcome /\ audit'[i].at = clock
<1>1. PICK e : e = [token |-> requests[r].token, call |-> requests[r].call,
                    outcome |-> outcome, at |-> clock]
  OBVIOUS
<1>2. /\ e \in AuditRecord /\ e.token = requests[r].token /\ e.call = requests[r].call
      /\ e.outcome = outcome /\ e.at = clock
  BY <1>1, Asking DEF McpTypeOK, AuditRecord
<1>3. audit' = Append(audit, e) /\ audit \in Seq(AuditRecord)
  BY <1>1 DEF Audit, McpTypeOK, AuditRecord, Outcome
<1>. QED  BY <1>2, <1>3

EffectRecord == [token : McpToken, call : Call, approval : ApprovalId]

\* A call takes effect.
Effects(r) == effects' = Append(effects, [token |-> requests[r].token,
                                          call |-> requests[r].call,
                                          approval |-> requests[r].approval])

LEMMA ActCases ==
  ASSUME NEW r \in Request, Act(r)
  PROVE  /\ requests[r].at = "granted" /\ requests' = [requests EXCEPT ![r] = Idle]
         /\ effects' = effects \/ Effects(r)
         /\ UNCHANGED <<clock, expires, approvals, usage, audit, refused>>
BY DEF Act, Effects

LEMMA EffectsGrow ==
  ASSUME McpTypeOK, NEW r \in Request, requests[r].at = "granted", Effects(r)
  PROVE  /\ effects' \in Seq(EffectRecord)
         /\ Len(effects) \in Nat /\ Len(effects') = Len(effects) + 1
         /\ \A i \in 1..Len(effects) : effects'[i] = effects[i]
         /\ \A i : i = Len(effects) + 1 =>
               /\ effects'[i].token = requests[r].token /\ effects'[i].call = requests[r].call
               /\ effects'[i].approval = requests[r].approval
<1>1. PICK e : e = [token |-> requests[r].token, call |-> requests[r].call,
                    approval |-> requests[r].approval]
  OBVIOUS
<1>2. /\ e \in EffectRecord /\ e.token = requests[r].token /\ e.call = requests[r].call
      /\ e.approval = requests[r].approval
  BY <1>1, Asking DEF EffectRecord
<1>3. effects' = Append(effects, e) /\ effects \in Seq(EffectRecord)
  BY <1>1 DEF Effects, McpTypeOK, EffectRecord
<1>. QED  BY <1>2, <1>3

ApprovalRecord == [token : McpToken, call : Call, until : Nat, consumed : BOOLEAN]

LEMMA ApprovalsType ==
  ASSUME McpTypeOK
  PROVE  /\ approvals \in Seq(ApprovalRecord) /\ Len(approvals) \in Nat
         /\ \A a \in 1..Len(approvals) : approvals[a] \in ApprovalRecord
<1>1. approvals \in Seq(ApprovalRecord)
  BY DEF McpTypeOK, ApprovalRecord
<1>. QED  BY <1>1

LEMMA McpTypeStep == McpTypeOK /\ [McpNext]_mcpVars => McpTypeOK'
<1> SUFFICES ASSUME McpTypeOK, [McpNext]_mcpVars PROVE McpTypeOK'
  OBVIOUS
<1>0. /\ clock \in Instants /\ clock \in Nat
      /\ expires \in [McpToken -> Nat]
      /\ approvals \in Seq(ApprovalRecord)
      /\ usage \in [McpToken -> [Windows -> Nat]]
      /\ audit \in Seq(AuditRecord)
      /\ requests \in [Request -> {Idle} \cup AskRecord]
      /\ effects \in Seq(EffectRecord)
      /\ refused \in Nat
  BY DEF McpTypeOK, ApprovalRecord, AuditRecord, AskRecord, EffectRecord, Instants, Outcome
<1>. USE DEF mcpStore
<1>10. McpTypeOK' <=> /\ clock' \in Instants
                      /\ expires' \in [McpToken -> Nat]
                      /\ approvals' \in Seq(ApprovalRecord)
                      /\ usage' \in [McpToken -> [Windows -> Nat]]
                      /\ audit' \in Seq(AuditRecord)
                      /\ requests' \in [Request -> {Idle} \cup AskRecord]
                      /\ effects' \in Seq(EffectRecord)
                      /\ refused' \in Nat
  BY DEF McpTypeOK, ApprovalRecord, AuditRecord, AskRecord, EffectRecord, Outcome
<1>1. ASSUME NEW t \in McpToken, IssueMcpToken(t) PROVE McpTypeOK'
  BY <1>0, <1>1, <1>10 DEF IssueMcpToken
<1>2. ASSUME NEW t \in McpToken, NEW call \in Call, CreateMcpApproval(t, call) PROVE McpTypeOK'
  <2>0. PICK e : e = [token |-> t, call |-> call, until |-> clock + ApprovalLife, consumed |-> FALSE]
    OBVIOUS
  <2>1. e \in ApprovalRecord /\ approvals' = Append(approvals, e)
    BY <1>0, <1>2, <2>0 DEF CreateMcpApproval, ApprovalRecord
  <2>2. approvals' \in Seq(ApprovalRecord)
    BY <1>0, <2>1
  <2>. QED  BY <1>0, <1>2, <1>10, <2>2 DEF CreateMcpApproval
<1>3. ASSUME NEW r \in Request, NEW t \in McpToken, NEW call \in Call, NEW a \in ApprovalId,
             Authenticate(r, t, call, a)
      PROVE  McpTypeOK'
  <2>1. requests' \in [Request -> {Idle} \cup AskRecord]
    BY <1>0, <1>3 DEF Authenticate, Asks, AskRecord
  <2>. QED  BY <1>0, <1>3, <1>10, <2>1 DEF Authenticate
<1>4. ASSUME NEW r \in Request, ConsumeMcpApproval(r) PROVE McpTypeOK'
  <2>1. /\ requests[r].at = "authenticated" /\ UNCHANGED <<clock, expires, usage, keys, effects>>
        /\ \E outcome \in Outcome : Audit(r, outcome)
        /\ \/ Proceed(r) /\ UNCHANGED refused
           \/ TurnDown(r)
    BY <1>4 DEF ConsumeMcpApproval, Outcome
  <2>2. approvals' \in Seq(ApprovalRecord)
    <3>1. CASE approvals' = approvals
      BY <1>0, <3>1
    <3>2. CASE approvals' # approvals
      <4>1. PICK a \in 1..Len(approvals) : approvals' = [approvals EXCEPT ![a].consumed = TRUE]
        BY <1>4, <3>2 DEF ConsumeMcpApproval, Spendable
      <4>2. approvals[a] \in ApprovalRecord
        BY <1>0
      <4>3. [approvals[a] EXCEPT !.consumed = TRUE] \in ApprovalRecord
        BY <4>2 DEF ApprovalRecord
      <4>. QED  BY <1>0, <4>1, <4>3
    <3>. QED  BY <3>1, <3>2
  <2>3. audit' \in Seq(AuditRecord)
    BY <2>1, Audits
  <2>4. requests' \in [Request -> {Idle} \cup AskRecord] /\ refused' \in Nat
    <3>1. CASE Proceed(r) /\ UNCHANGED refused
      BY <1>0, <2>1, <3>1, Granted
    <3>2. CASE TurnDown(r)
      <4>1. refused' = refused + 1 /\ refused \in Nat
        BY <1>0, <3>2 DEF TurnDown
      <4>2. requests' \in [Request -> {Idle} \cup AskRecord]
        BY <3>2, Ended DEF TurnDown
      <4>. QED  BY <4>1, <4>2
    <3>. QED  BY <2>1, <3>1, <3>2
  <2>. QED  BY <1>0, <1>10, <2>1, <2>2, <2>3, <2>4
<1>5. ASSUME NEW r \in Request, ClaimAllowListed(r) PROVE McpTypeOK'
  <2>1. /\ requests[r].at = "authenticated"
        /\ UNCHANGED <<clock, expires, approvals, keys, effects>>
        /\ \E outcome \in Outcome : Audit(r, outcome)
        /\ \/ Proceed(r) /\ UNCHANGED refused
           \/ TurnDown(r)
        /\ \/ usage' = usage
           \/ usage' = [usage EXCEPT ![requests[r].token][HourOf(clock)] = @ + 1]
    BY <1>5 DEF ClaimAllowListed, Outcome
  <2>2. usage' \in [McpToken -> [Windows -> Nat]]
    <3>1. PICK t \in McpToken, w \in Windows : t = requests[r].token /\ w = HourOf(clock)
      BY <1>0, <2>1, Asking, InWindow
    <3>2. usage[t] \in [Windows -> Nat] /\ usage[t][w] \in Nat
      BY <1>0
    <3>3. [usage[t] EXCEPT ![w] = usage[t][w] + 1] \in [Windows -> Nat]
      BY <3>2
    <3>. QED  BY <1>0, <2>1, <3>1, <3>3
  <2>3. audit' \in Seq(AuditRecord)
    BY <2>1, Audits
  <2>4. requests' \in [Request -> {Idle} \cup AskRecord] /\ refused' \in Nat
    <3>1. CASE Proceed(r) /\ UNCHANGED refused
      BY <1>0, <2>1, <3>1, Granted
    <3>2. CASE TurnDown(r)
      <4>1. refused' = refused + 1 /\ refused \in Nat
        BY <1>0, <3>2 DEF TurnDown
      <4>2. requests' \in [Request -> {Idle} \cup AskRecord]
        BY <3>2, Ended DEF TurnDown
      <4>. QED  BY <4>1, <4>2
    <3>. QED  BY <2>1, <3>1, <3>2
  <2>. QED  BY <1>0, <1>10, <2>1, <2>2, <2>3, <2>4
<1>6. ASSUME NEW r \in Request, Deny(r) PROVE McpTypeOK'
  BY <1>0, <1>6, <1>10, Ended DEF Deny, TurnDown
<1>7. ASSUME NEW r \in Request, Act(r) PROVE McpTypeOK'
  BY <1>0, <1>7, <1>10, Ended, ActCases, EffectsGrow
<1>8. CASE McpTick
  BY <1>0, <1>8, <1>10 DEF McpTick, Instants
<1>9. CASE McpCrash \/ UNCHANGED mcpVars
  <2>1. requests' \in [Request -> {Idle} \cup AskRecord]
    BY <1>0, <1>9 DEF McpCrash, mcpVars
  <2>. QED  BY <1>0, <1>9, <1>10, <2>1 DEF McpCrash, mcpVars
<1>. QED  BY <1>1, <1>2, <1>3, <1>4, <1>5, <1>6, <1>7, <1>8, <1>9 DEF McpNext

-----------------------------------------------------------------------------
(* An approval is spent once. *)

Confirmed(x) == Policy[x.token] = "confirm_each"

EffectsOf(a) == {i \in 1..Len(effects) : effects[i].approval = a /\ Confirmed(effects[i])}

GrantsOf(a) == {r \in Request : /\ requests[r].at = "granted"
                                /\ Confirmed(requests[r])
                                /\ requests[r].approval = a}

\* What acts or has acted by an approval is what the approval was given for.
Bound(x) ==
    LET a == x.approval
    IN  /\ a \in 1..Len(approvals)
        /\ x.call = approvals[a].call /\ x.token = approvals[a].token

ApprovalInv ==
    /\ \A a \in 1..Len(approvals) : Uses(a) <= IF approvals[a].consumed THEN 1 ELSE 0
    /\ \A i \in 1..Len(effects) : Confirmed(effects[i]) => Bound(effects[i])
    /\ \A r \in Request :
          requests[r].at = "granted" /\ Confirmed(requests[r]) => Bound(requests[r])

LEMMA UsesCounts ==
  ASSUME McpTypeOK, NEW a
  PROVE  /\ Uses(a) = Cardinality(EffectsOf(a)) + Cardinality(GrantsOf(a))
         /\ EffectsOf(a) \in SUBSET (1..Len(effects)) /\ GrantsOf(a) \in SUBSET Request
         /\ Len(effects) \in Nat
         /\ Cardinality(EffectsOf(a)) \in Nat /\ Cardinality(GrantsOf(a)) \in Nat
         /\ Uses(a) = 0 => EffectsOf(a) = {} /\ GrantsOf(a) = {}
         /\ EffectsOf(a) = {} /\ GrantsOf(a) = {} => Uses(a) = 0
<1>1. Uses(a) = Cardinality(EffectsOf(a)) + Cardinality(GrantsOf(a))
  BY DEF Uses, EffectsOf, GrantsOf, Confirmed
<1>2. EffectsOf(a) \in SUBSET (1..Len(effects)) /\ GrantsOf(a) \in SUBSET Request
      /\ Len(effects) \in Nat
  BY DEF EffectsOf, GrantsOf, McpTypeOK
<1>3. /\ IsFiniteSet(EffectsOf(a)) /\ Cardinality(EffectsOf(a)) \in Nat
      /\ IsFiniteSet(GrantsOf(a)) /\ Cardinality(GrantsOf(a)) \in Nat
  BY <1>2, Grown, Requests
<1>4. /\ Cardinality(EffectsOf(a)) = 0 <=> EffectsOf(a) = {}
      /\ Cardinality(GrantsOf(a)) = 0 <=> GrantsOf(a) = {}
  BY <1>3, FS_EmptySet
<1>. QED  BY <1>1, <1>2, <1>3, <1>4

LEMMA UsesNext ==
  ASSUME NEW a
  PROVE  Uses(a)' = Cardinality(EffectsOf(a)') + Cardinality(GrantsOf(a)')
<1>1. (Uses(a) = Cardinality(EffectsOf(a)) + Cardinality(GrantsOf(a)))'
  BY DEF Uses, EffectsOf, GrantsOf, Confirmed
<1>. QED  BY <1>1

\* Nothing about approvals happens.
LEMMA SameUses ==
  ASSUME McpTypeOK, McpTypeOK', ApprovalInv, UNCHANGED <<approvals, effects>>,
         \A r \in Request : requests'[r].at = "granted" =>
             ~Confirmed(requests'[r])
             \/ (requests[r].at = "granted" /\ requests'[r] = requests[r])
  PROVE  ApprovalInv'
<1>1. \A a : EffectsOf(a)' = EffectsOf(a) /\ GrantsOf(a)' \subseteq GrantsOf(a)
  BY DEF EffectsOf, GrantsOf, Confirmed
<1>2. ASSUME NEW a PROVE Uses(a)' <= Uses(a)
  <2>1. /\ Uses(a) = Cardinality(EffectsOf(a)) + Cardinality(GrantsOf(a))
        /\ Cardinality(EffectsOf(a)) \in Nat /\ Cardinality(GrantsOf(a)) \in Nat
        /\ GrantsOf(a) \in SUBSET Request
    BY UsesCounts
  <2>2. Uses(a)' = Cardinality(EffectsOf(a)') + Cardinality(GrantsOf(a)')
    BY UsesNext
  <2>3. Cardinality(GrantsOf(a)') <= Cardinality(GrantsOf(a)) /\ Cardinality(GrantsOf(a)') \in Nat
    BY <1>1, <2>1, Requests, FS_Subset
  <2>. QED  BY <1>1, <2>1, <2>2, <2>3
<1>3. ASSUME NEW a \in 1..Len(approvals)' PROVE Uses(a)' <= IF approvals'[a].consumed THEN 1 ELSE 0
  <2>1. Uses(a) <= IF approvals[a].consumed THEN 1 ELSE 0
    BY <1>3 DEF ApprovalInv
  <2>2. Uses(a) \in Nat /\ Uses(a)' \in Nat
    <3>1. Uses(a) \in Nat
      BY UsesCounts
    <3>2. Cardinality(EffectsOf(a)') \in Nat /\ Cardinality(GrantsOf(a)') \in Nat
      BY <1>1, UsesCounts, Requests
    <3>. QED  BY <3>1, <3>2, UsesNext
  <2>. QED  BY <1>2, <2>1, <2>2
<1>4. /\ \A i \in 1..Len(effects)' : Confirmed(effects'[i]) => Bound(effects[i])
      /\ \A r \in Request : requests'[r].at = "granted" /\ Confirmed(requests'[r])
                             => requests'[r] = requests[r] /\ Bound(requests[r])
  BY DEF ApprovalInv, Confirmed
<1>. QED  BY SMTT(30), <1>3, <1>4 DEF ApprovalInv, Bound, Confirmed

LEMMA ApprovalGiven ==
  ASSUME McpTypeOK, ApprovalInv, NEW t \in McpToken, NEW call \in Call, CreateMcpApproval(t, call)
  PROVE  ApprovalInv'
<1>1. PICK e : e = [token |-> t, call |-> call, until |-> clock + ApprovalLife, consumed |-> FALSE]
  OBVIOUS
<1>2. approvals' = Append(approvals, e) /\ e.consumed = FALSE
      /\ UNCHANGED <<effects, requests>>
  BY <1>1 DEF CreateMcpApproval
<1>3. PICK n \in Nat : n = Len(approvals)
  BY DEF McpTypeOK
<1>4. /\ Len(approvals') = n + 1 /\ approvals'[n + 1] = e
      /\ \A a \in 1..n : approvals'[a] = approvals[a]
  BY <1>2, <1>3 DEF McpTypeOK
<1>5. \A a : Uses(a)' = Uses(a)
  BY <1>2 DEF Uses
<1>6. EffectsOf(n + 1) = {} /\ GrantsOf(n + 1) = {}
  BY <1>3 DEF ApprovalInv, Bound, EffectsOf, GrantsOf
<1>7. Uses(n + 1) = 0
  BY <1>6, UsesCounts
<1>8. \A a \in 1..(n + 1) : Uses(a) <= IF approvals'[a].consumed THEN 1 ELSE 0
  BY <1>2, <1>3, <1>4, <1>7 DEF ApprovalInv
<1>9. \A i \in 1..Len(effects) : Confirmed(effects[i]) =>
          /\ effects[i].approval \in 1..(n + 1)
          /\ effects[i].call = approvals'[effects[i].approval].call
          /\ effects[i].token = approvals'[effects[i].approval].token
  <2> SUFFICES ASSUME NEW i \in 1..Len(effects), Confirmed(effects[i])
               PROVE  /\ effects[i].approval \in 1..(n + 1)
                      /\ effects[i].call = approvals'[effects[i].approval].call
                      /\ effects[i].token = approvals'[effects[i].approval].token
    OBVIOUS
  <2>1. PICK b \in 1..n : b = effects[i].approval
    BY <1>3 DEF ApprovalInv, Bound
  <2>2. effects[i].call = approvals[b].call /\ effects[i].token = approvals[b].token
    BY <2>1 DEF ApprovalInv, Bound
  <2>. QED  BY SMTT(30), <1>4, <2>1, <2>2
<1>10. \A r \in Request : requests[r].at = "granted" /\ Confirmed(requests[r]) =>
          /\ requests[r].approval \in 1..(n + 1)
          /\ requests[r].call = approvals'[requests[r].approval].call
          /\ requests[r].token = approvals'[requests[r].approval].token
  BY <1>3, <1>4 DEF ApprovalInv, Bound
<1>. QED  BY <1>2, <1>4, <1>5, <1>8, <1>9, <1>10 DEF ApprovalInv, Bound, Confirmed

\* The one request that finds the approval unspent is granted.
LEMMA ApprovalTaken ==
  ASSUME McpTypeOK, McpTypeOK', ApprovalInv, NEW r \in Request, ConsumeMcpApproval(r)
  PROVE  ApprovalInv'
<1>1. PICK a \in ApprovalId : a = requests[r].approval /\ requests[r].at = "authenticated"
                              /\ Confirmed(requests[r]) /\ effects' = effects
  BY Asking DEF ConsumeMcpApproval, Confirmed
<1>2. CASE ~Spendable(a, requests[r].token, requests[r].call)
  <2>1. approvals' = approvals /\ TurnDown(r)
    BY <1>1, <1>2 DEF ConsumeMcpApproval
  <2>2. requests'[r].at # "granted" /\ \A q \in Request : q # r => requests'[q] = requests[q]
    BY <2>1, Ended DEF TurnDown, Idle
  <2>. QED  BY <1>1, <2>1, <2>2, SameUses
<1>3. CASE Spendable(a, requests[r].token, requests[r].call)
  <2>1. /\ a \in 1..Len(approvals)
        /\ approvals[a].token = requests[r].token /\ approvals[a].call = requests[r].call
        /\ ~approvals[a].consumed
        /\ approvals' = [approvals EXCEPT ![a].consumed = TRUE] /\ Proceed(r)
    BY <1>1, <1>3 DEF Spendable, ConsumeMcpApproval
  <2>2. /\ Len(approvals') = Len(approvals) /\ approvals'[a].consumed = TRUE
        /\ \A b \in 1..Len(approvals) :
              /\ approvals'[b].token = approvals[b].token /\ approvals'[b].call = approvals[b].call
              /\ b # a => approvals'[b] = approvals[b]
    <3>1. approvals[a] \in ApprovalRecord
      BY <2>1, ApprovalsType
    <3>2. PICK e : e = [approvals[a] EXCEPT !.consumed = TRUE]
      OBVIOUS
    <3>3. e.consumed = TRUE /\ e.token = approvals[a].token /\ e.call = approvals[a].call
      BY <3>1, <3>2 DEF ApprovalRecord
    <3>4. approvals' = [approvals EXCEPT ![a] = e]
      BY <2>1, <3>2
    <3>. QED  BY <2>1, <3>3, <3>4, ApprovalsType
  <2>3. /\ requests'[r].at = "granted" /\ requests'[r].token = requests[r].token
        /\ requests'[r].call = requests[r].call /\ requests'[r].approval = a
        /\ Confirmed(requests'[r])
        /\ \A q \in Request : q # r => requests'[q] = requests[q]
    BY <1>1, <2>1, Granted DEF Confirmed
  <2>4. EffectsOf(a) = {} /\ GrantsOf(a) = {}
    <3>1. Uses(a) <= 0
      BY <2>1 DEF ApprovalInv
    <3>. QED  BY <3>1, UsesCounts
  <2>5. \A b : EffectsOf(b)' = EffectsOf(b)
    BY <1>1 DEF EffectsOf, Confirmed
  <2>6. GrantsOf(a)' = {r} /\ \A b : b # a => GrantsOf(b)' = GrantsOf(b)
    BY <1>1, <2>3, <2>4 DEF GrantsOf, Confirmed
  <2>7. Uses(a)' = 1
    <3>1. Cardinality(EffectsOf(a)') = 0
      BY <2>4, <2>5, FS_EmptySet
    <3>2. Cardinality(GrantsOf(a)') = 1
      BY <2>6, FS_Singleton
    <3>. QED  BY <3>1, <3>2, UsesNext
  <2>8. \A b : b # a => Uses(b)' = Uses(b)
    BY <2>5, <2>6, UsesNext, UsesCounts
  <2>9. \A b \in 1..Len(approvals') : Uses(b)' <= IF approvals'[b].consumed THEN 1 ELSE 0
    BY <2>2, <2>7, <2>8 DEF ApprovalInv
  <2>10. \A i \in 1..Len(effects) : Confirmed(effects[i]) =>
            /\ effects[i].approval \in 1..Len(approvals')
            /\ effects[i].call = approvals'[effects[i].approval].call
            /\ effects[i].token = approvals'[effects[i].approval].token
    <3> SUFFICES ASSUME NEW i \in 1..Len(effects), Confirmed(effects[i])
                 PROVE  /\ effects[i].approval \in 1..Len(approvals')
                        /\ effects[i].call = approvals'[effects[i].approval].call
                        /\ effects[i].token = approvals'[effects[i].approval].token
      OBVIOUS
    <3>1. PICK b \in 1..Len(approvals) : b = effects[i].approval
      BY DEF ApprovalInv, Bound
    <3>2. effects[i].call = approvals[b].call /\ effects[i].token = approvals[b].token
      BY <3>1 DEF ApprovalInv, Bound
    <3>. QED  BY <2>2, <3>1, <3>2
  <2>11. \A q \in Request : requests'[q].at = "granted" /\ Confirmed(requests'[q]) =>
            /\ requests'[q].approval \in 1..Len(approvals')
            /\ requests'[q].call = approvals'[requests'[q].approval].call
            /\ requests'[q].token = approvals'[requests'[q].approval].token
    BY <2>1, <2>2, <2>3 DEF ApprovalInv, Bound
  <2>. QED  BY <1>1, <2>9, <2>10, <2>11 DEF ApprovalInv, Bound, Confirmed
<1>. QED  BY <1>2, <1>3

\* The granted request acts, and is over.
LEMMA ApprovalActs ==
  ASSUME McpTypeOK, McpTypeOK', ApprovalInv, NEW r \in Request, Act(r)
  PROVE  ApprovalInv'
<1>1. /\ requests[r].at = "granted" /\ approvals' = approvals
      /\ requests'[r].at # "granted" /\ \A q \in Request : q # r => requests'[q] = requests[q]
  BY ActCases, Ended DEF Idle
<1>2. CASE effects' = effects
  BY <1>1, <1>2, SameUses
<1>3. CASE Effects(r)
  <2>1. PICK n \in Nat : n = Len(effects)
    BY DEF McpTypeOK
  <2>2. /\ Len(effects') = n + 1 /\ \A i \in 1..n : effects'[i] = effects[i]
        /\ effects'[n + 1].token = requests[r].token /\ effects'[n + 1].call = requests[r].call
        /\ effects'[n + 1].approval = requests[r].approval
    BY <1>1, <1>3, <2>1, EffectsGrow
  <2>3. ASSUME NEW a PROVE Uses(a)' = Uses(a)
    <3>1. CASE Confirmed(requests[r]) /\ requests[r].approval = a
      <4>1. EffectsOf(a)' = EffectsOf(a) \cup {n + 1}
        BY <2>1, <2>2, <3>1 DEF EffectsOf, Confirmed
      <4>2. GrantsOf(a)' = GrantsOf(a) \ {r} /\ r \in GrantsOf(a)
        BY <1>1, <3>1 DEF GrantsOf, Confirmed
      <4>3. EffectsOf(a) \in SUBSET (1..n) /\ GrantsOf(a) \in SUBSET Request
        BY <2>1, UsesCounts
      <4>4. /\ Cardinality(EffectsOf(a)') = Cardinality(EffectsOf(a)) + 1
            /\ Cardinality(GrantsOf(a)') = Cardinality(GrantsOf(a)) - 1
            /\ Cardinality(EffectsOf(a)) \in Nat /\ Cardinality(GrantsOf(a)) \in Nat
        BY <4>1, <4>2, <4>3, Grown, Requests
      <4>. QED  BY <4>4, UsesNext, UsesCounts
    <3>2. CASE ~(Confirmed(requests[r]) /\ requests[r].approval = a)
      <4>1. EffectsOf(a)' = EffectsOf(a)
        BY <2>1, <2>2, <3>2 DEF EffectsOf, Confirmed
      <4>2. GrantsOf(a)' = GrantsOf(a)
        BY <1>1, <3>2 DEF GrantsOf, Confirmed
      <4>. QED  BY <4>1, <4>2, UsesNext, UsesCounts
    <3>. QED  BY <3>1, <3>2
  <2>4. \A i \in 1..(n + 1) : Confirmed(effects'[i]) =>
            /\ effects'[i].approval \in 1..Len(approvals)
            /\ effects'[i].call = approvals[effects'[i].approval].call
            /\ effects'[i].token = approvals[effects'[i].approval].token
    <3>1. ASSUME NEW i \in 1..n, Confirmed(effects'[i])
          PROVE  /\ effects'[i].approval \in 1..Len(approvals)
                 /\ effects'[i].call = approvals[effects'[i].approval].call
                 /\ effects'[i].token = approvals[effects'[i].approval].token
      BY SMTT(30), <2>1, <2>2, <3>1 DEF ApprovalInv, Bound, Confirmed
    <3>2. ASSUME Confirmed(effects'[n + 1])
          PROVE  /\ effects'[n + 1].approval \in 1..Len(approvals)
                 /\ effects'[n + 1].call = approvals[effects'[n + 1].approval].call
                 /\ effects'[n + 1].token = approvals[effects'[n + 1].approval].token
      BY <1>1, <2>2, <3>2 DEF ApprovalInv, Bound, Confirmed
    <3>. QED  BY <3>1, <3>2
  <2>5. \A q \in Request : requests'[q].at = "granted" /\ Confirmed(requests'[q]) =>
            /\ requests'[q].approval \in 1..Len(approvals)
            /\ requests'[q].call = approvals[requests'[q].approval].call
            /\ requests'[q].token = approvals[requests'[q].approval].token
    BY SMTT(30), <1>1 DEF ApprovalInv, Bound, Confirmed
  <2>6. \A a \in 1..Len(approvals) : Uses(a)' <= IF approvals[a].consumed THEN 1 ELSE 0
    BY <2>3 DEF ApprovalInv
  <2>. QED  BY <1>1, <2>2, <2>4, <2>5, <2>6 DEF ApprovalInv, Bound, Confirmed
<1>. QED  BY <1>2, <1>3, ActCases

LEMMA ApprovalStep == McpTypeOK /\ McpTypeOK' /\ ApprovalInv /\ [McpNext]_mcpVars => ApprovalInv'
<1> SUFFICES ASSUME McpTypeOK, McpTypeOK', ApprovalInv, [McpNext]_mcpVars PROVE ApprovalInv'
  OBVIOUS
<1>. USE DEF mcpStore
<1>1. ASSUME NEW t \in McpToken, IssueMcpToken(t) PROVE ApprovalInv'
  BY <1>1, SameUses DEF IssueMcpToken
<1>2. ASSUME NEW t \in McpToken, NEW call \in Call, CreateMcpApproval(t, call) PROVE ApprovalInv'
  BY <1>2, ApprovalGiven
<1>3. ASSUME NEW r \in Request, NEW t \in McpToken, NEW call \in Call, NEW a \in ApprovalId,
             Authenticate(r, t, call, a)
      PROVE  ApprovalInv'
  <2>1. requests'[r].at # "granted" /\ \A q \in Request : q # r => requests'[q] = requests[q]
    BY <1>3 DEF Authenticate, Asks, McpTypeOK
  <2>. QED  BY <1>3, <2>1, SameUses DEF Authenticate
<1>4. ASSUME NEW r \in Request, ConsumeMcpApproval(r) PROVE ApprovalInv'
  BY <1>4, ApprovalTaken
<1>5. ASSUME NEW r \in Request, ClaimAllowListed(r) PROVE ApprovalInv'
  <2>1. /\ requests[r].at = "authenticated" /\ UNCHANGED <<approvals, effects>>
        /\ Policy[requests[r].token] = "allow_listed" /\ (Proceed(r) \/ TurnDown(r))
    BY <1>5 DEF ClaimAllowListed
  <2>2. \A q \in Request : q # r => requests'[q] = requests[q]
    BY <2>1, Granted, Ended DEF TurnDown
  <2>3. requests'[r].at = "granted" => ~Confirmed(requests'[r])
    BY <2>1, Granted, Ended DEF TurnDown, Confirmed, Idle
  <2>. QED  BY <2>1, <2>2, <2>3, SameUses
<1>6. ASSUME NEW r \in Request, Deny(r) PROVE ApprovalInv'
  <2>1. requests'[r].at # "granted" /\ \A q \in Request : q # r => requests'[q] = requests[q]
    BY <1>6, Ended DEF Deny, TurnDown, Idle
  <2>. QED  BY <1>6, <2>1, SameUses DEF Deny
<1>7. ASSUME NEW r \in Request, Act(r) PROVE ApprovalInv'
  BY <1>7, ApprovalActs
<1>8. CASE McpTick
  BY <1>8, SameUses DEF McpTick
<1>9. CASE McpCrash
  BY <1>9, SameUses DEF McpCrash, Idle
<1>10. CASE UNCHANGED mcpVars
  BY <1>10, SameUses DEF mcpVars
<1>. QED  BY <1>1, <1>2, <1>3, <1>4, <1>5, <1>6, <1>7, <1>8, <1>9, <1>10 DEF McpNext

LEMMA ApprovalInit == McpInit => ApprovalInv
<1> SUFFICES ASSUME McpInit PROVE ApprovalInv
  OBVIOUS
<1>1. Len(approvals) = 0 /\ Len(effects) = 0
  BY DEF McpInit
<1>2. \A r \in Request : requests[r].at # "granted"
  BY DEF McpInit, Idle
<1>. QED  BY <1>1, <1>2 DEF ApprovalInv

\* Every state of the tokens, approvals, quotas, audits and requests has its type.
THEOREM McpTypeCorrect == McpSpec => []McpTypeOK
BY McpTypeInit, McpTypeStep, PTL DEF McpSpec

\* consume_mcp_approval: however many requests race for an approval, repeat it or
\* die with it, it leads to one action at most, the one it was given for.
THEOREM ApprovalsAreSpentOnce == McpSpec => []ApprovalSpentOnce
<1>1. McpTypeOK /\ ApprovalInv /\ [McpNext]_mcpVars => (McpTypeOK /\ ApprovalInv)'
  BY McpTypeStep, ApprovalStep
<1>2. McpInit => McpTypeOK /\ ApprovalInv
  BY McpTypeInit, ApprovalInit
<1>3. ApprovalInv => ApprovalSpentOnce
  BY DEF ApprovalInv, ApprovalSpentOnce, Bound, Confirmed
<1>. QED  BY <1>1, <1>2, <1>3, PTL DEF McpSpec

-----------------------------------------------------------------------------
(* The audit and the quotas. *)

Granting == {"approved", "allow_listed"}

EffectsFor(t, call) == {i \in 1..Len(effects) : effects[i].token = t /\ effects[i].call = call}
AuditsFor(t, call) ==
    {i \in 1..Len(audit) : audit[i].token = t /\ audit[i].call = call /\ audit[i].outcome \in Granting}
GrantsFor(t, call) ==
    {r \in Request : requests[r].at = "granted" /\ requests[r].token = t /\ requests[r].call = call}
ListedIn(t, w) ==
    {i \in 1..Len(audit) :
        audit[i].token = t /\ audit[i].outcome = "allow_listed" /\ HourOf(audit[i].at) = w}

\* What is granted and has not acted yet is audited too.
EffectInv ==
    \A t \in McpToken, call \in Call :
        Cardinality(EffectsFor(t, call)) + Cardinality(GrantsFor(t, call))
            <= Cardinality(AuditsFor(t, call))

LEMMA CountedSets ==
  ASSUME McpTypeOK, NEW t, NEW x
  PROVE  /\ EffectsFor(t, x) \in SUBSET (1..Len(effects)) /\ Len(effects) \in Nat
         /\ AuditsFor(t, x) \in SUBSET (1..Len(audit)) /\ Len(audit) \in Nat
         /\ ListedIn(t, x) \in SUBSET (1..Len(audit))
         /\ GrantsFor(t, x) \in SUBSET Request
         /\ Cardinality(EffectsFor(t, x)) \in Nat /\ Cardinality(AuditsFor(t, x)) \in Nat
         /\ Cardinality(ListedIn(t, x)) \in Nat /\ Cardinality(GrantsFor(t, x)) \in Nat
<1>1. /\ EffectsFor(t, x) \in SUBSET (1..Len(effects)) /\ Len(effects) \in Nat
      /\ AuditsFor(t, x) \in SUBSET (1..Len(audit)) /\ Len(audit) \in Nat
      /\ ListedIn(t, x) \in SUBSET (1..Len(audit))
      /\ GrantsFor(t, x) \in SUBSET Request
  BY DEF EffectsFor, AuditsFor, ListedIn, GrantsFor, McpTypeOK
<1>. QED  BY <1>1, Grown, Requests

\* No effect, no audit, nothing granted.
LEMMA SameCounts ==
  ASSUME McpTypeOK, EffectInv, QuotaIsKept, UNCHANGED <<audit, effects, usage>>,
         \A r \in Request : requests'[r].at = "granted" =>
             requests[r].at = "granted" /\ requests'[r] = requests[r]
  PROVE  EffectInv' /\ QuotaIsKept'
<1>1. ASSUME NEW t \in McpToken, NEW call \in Call
      PROVE  /\ EffectsFor(t, call)' = EffectsFor(t, call)
             /\ AuditsFor(t, call)' = AuditsFor(t, call)
             /\ Cardinality(GrantsFor(t, call)') <= Cardinality(GrantsFor(t, call))
             /\ Cardinality(GrantsFor(t, call)') \in Nat
  <2>1. GrantsFor(t, call)' \subseteq GrantsFor(t, call)
    BY DEF GrantsFor
  <2>2. IsFiniteSet(GrantsFor(t, call))
    BY CountedSets, Requests
  <2>. QED  BY <2>1, <2>2, FS_Subset, FS_CardinalityType DEF EffectsFor, AuditsFor
<1>2. EffectInv'
  <2> SUFFICES ASSUME NEW t \in McpToken, NEW call \in Call
               PROVE  Cardinality(EffectsFor(t, call)') + Cardinality(GrantsFor(t, call)')
                         <= Cardinality(AuditsFor(t, call)')
    BY DEF EffectInv
  <2>. QED  BY SMTT(30), <1>1, CountedSets DEF EffectInv
<1>3. QuotaIsKept'
  BY DEF QuotaIsKept
<1>. QED  BY <1>2, <1>3

LEMMA AuditsGrow ==
  ASSUME McpTypeOK, NEW r \in Request, requests[r].at = "authenticated",
         NEW outcome \in Outcome, Audit(r, outcome), NEW t, NEW x
  PROVE  /\ Cardinality(AuditsFor(t, x)') = Cardinality(AuditsFor(t, x)) +
              (IF t = requests[r].token /\ x = requests[r].call /\ outcome \in Granting
                  THEN 1 ELSE 0)
         /\ Cardinality(ListedIn(t, x)') = Cardinality(ListedIn(t, x)) +
              (IF t = requests[r].token /\ x = HourOf(clock) /\ outcome = "allow_listed"
                  THEN 1 ELSE 0)
<1>1. PICK n \in Nat : n = Len(audit)
  BY DEF McpTypeOK
<1>2. /\ Len(audit') = n + 1 /\ \A i \in 1..n : audit'[i] = audit[i]
      /\ audit'[n + 1].token = requests[r].token /\ audit'[n + 1].call = requests[r].call
      /\ audit'[n + 1].outcome = outcome /\ audit'[n + 1].at = clock
  BY <1>1, Audits
<1>3. AuditsFor(t, x)' = AuditsFor(t, x) \cup
          (IF t = requests[r].token /\ x = requests[r].call /\ outcome \in Granting
              THEN {n + 1} ELSE {})
  BY <1>1, <1>2 DEF AuditsFor
<1>4. ListedIn(t, x)' = ListedIn(t, x) \cup
          (IF t = requests[r].token /\ x = HourOf(clock) /\ outcome = "allow_listed"
              THEN {n + 1} ELSE {})
  BY <1>1, <1>2 DEF ListedIn, HourOf
<1>5. /\ AuditsFor(t, x) \in SUBSET (1..n) /\ ListedIn(t, x) \in SUBSET (1..n)
      /\ Cardinality(AuditsFor(t, x)) \in Nat /\ Cardinality(ListedIn(t, x)) \in Nat
  BY <1>1, CountedSets
<1>6. /\ Cardinality(AuditsFor(t, x) \cup {n + 1}) = Cardinality(AuditsFor(t, x)) + 1
      /\ Cardinality(ListedIn(t, x) \cup {n + 1}) = Cardinality(ListedIn(t, x)) + 1
  BY <1>5, Grown
<1>7. /\ Cardinality(AuditsFor(t, x)') = Cardinality(AuditsFor(t, x)) +
            (IF t = requests[r].token /\ x = requests[r].call /\ outcome \in Granting
                THEN 1 ELSE 0)
  <2>1. CASE t = requests[r].token /\ x = requests[r].call /\ outcome \in Granting
    BY <1>3, <1>6, <2>1
  <2>2. CASE ~(t = requests[r].token /\ x = requests[r].call /\ outcome \in Granting)
    <3>1. AuditsFor(t, x)' = AuditsFor(t, x)
      BY <1>3, <2>2
    <3>. QED  BY <1>5, <2>2, <3>1
  <2>. QED  BY <2>1, <2>2
<1>8. /\ Cardinality(ListedIn(t, x)') = Cardinality(ListedIn(t, x)) +
            (IF t = requests[r].token /\ x = HourOf(clock) /\ outcome = "allow_listed"
                THEN 1 ELSE 0)
  <2>1. CASE t = requests[r].token /\ x = HourOf(clock) /\ outcome = "allow_listed"
    BY <1>4, <1>6, <2>1
  <2>2. CASE ~(t = requests[r].token /\ x = HourOf(clock) /\ outcome = "allow_listed")
    <3>1. ListedIn(t, x)' = ListedIn(t, x)
      BY <1>4, <2>2
    <3>. QED  BY <1>5, <2>2, <3>1
  <2>. QED  BY <2>1, <2>2
<1>. QED  BY <1>7, <1>8

\* A request is granted and audited, or turned down and audited.
LEMMA DecisionCounts ==
  ASSUME McpTypeOK, EffectInv, NEW r \in Request, requests[r].at = "authenticated",
         NEW outcome \in Outcome, Audit(r, outcome), UNCHANGED effects,
         \/ outcome \in Granting /\ Proceed(r)
         \/ outcome \notin Granting /\ TurnDown(r)
  PROVE  EffectInv'
<1> SUFFICES ASSUME NEW t \in McpToken, NEW call \in Call
             PROVE  Cardinality(EffectsFor(t, call)') + Cardinality(GrantsFor(t, call)')
                       <= Cardinality(AuditsFor(t, call)')
  BY DEF EffectInv
<1> DEFINE mine == t = requests[r].token /\ call = requests[r].call /\ outcome \in Granting
<1>1. EffectsFor(t, call)' = EffectsFor(t, call)
  BY DEF EffectsFor
<1>2. Cardinality(AuditsFor(t, call)') = Cardinality(AuditsFor(t, call)) + (IF mine THEN 1 ELSE 0)
  BY AuditsGrow
<1>3. Cardinality(GrantsFor(t, call)') = Cardinality(GrantsFor(t, call)) + (IF mine THEN 1 ELSE 0)
  <2>0. r \notin GrantsFor(t, call) /\ GrantsFor(t, call) \in SUBSET Request
        /\ Cardinality(GrantsFor(t, call)) \in Nat
    <3>1. r \notin GrantsFor(t, call)
      BY DEF GrantsFor
    <3>. QED  BY <3>1, CountedSets
  <2>1. CASE mine
    <3>1. GrantsFor(t, call)' = GrantsFor(t, call) \cup {r}
      BY <2>1, Granted DEF GrantsFor
    <3>. QED  BY <2>0, <2>1, <3>1, Requests
  <2>2. CASE ~mine /\ outcome \in Granting
    <3>1. GrantsFor(t, call)' = GrantsFor(t, call)
      BY <2>2, Granted DEF GrantsFor
    <3>. QED  BY <2>0, <2>2, <3>1
  <2>3. CASE outcome \notin Granting
    <3>1. GrantsFor(t, call)' = GrantsFor(t, call)
      BY <2>3, Ended DEF GrantsFor, TurnDown, Idle
    <3>. QED  BY <2>0, <2>3, <3>1
  <2>. QED  BY <2>1, <2>2, <2>3
<1>4. Cardinality(EffectsFor(t, call)) + Cardinality(GrantsFor(t, call))
         <= Cardinality(AuditsFor(t, call))
  BY DEF EffectInv
<1>. QED  BY SMTT(30), <1>1, <1>2, <1>3, <1>4, CountedSets

QuotaInv ==
    \A t \in McpToken, w \in Windows :
        usage[t][w] <= Quota[t] /\ usage[t][w] = Cardinality(ListedIn(t, w))

LEMMA QuotaCounts == QuotaIsKept <=> QuotaInv
BY DEF QuotaIsKept, QuotaInv, ListedIn

LEMMA QuotaNext == QuotaIsKept' <=> QuotaInv'
BY DEF QuotaIsKept, QuotaInv, ListedIn

\* Only allow_listed takes of the quota, and only where some is left.
LEMMA DecisionQuota ==
  ASSUME McpTypeOK, QuotaInv, NEW r \in Request, requests[r].at = "authenticated",
         NEW outcome \in Outcome, Audit(r, outcome),
         \/ outcome # "allow_listed" /\ UNCHANGED usage
         \/ /\ outcome = "allow_listed" /\ HasQuota(requests[r].token)
            /\ usage' = [usage EXCEPT ![requests[r].token][HourOf(clock)] = @ + 1]
  PROVE  QuotaInv'
<1> SUFFICES ASSUME NEW t \in McpToken, NEW w \in Windows
             PROVE  usage'[t][w] <= Quota[t] /\ usage'[t][w] = Cardinality(ListedIn(t, w)')
  BY DEF QuotaInv
<1>1. /\ usage[t][w] \in Nat /\ usage[t][w] <= Quota[t]
      /\ usage[t][w] = Cardinality(ListedIn(t, w))
  BY DEF McpTypeOK, QuotaInv
<1>2. Cardinality(ListedIn(t, w)') = Cardinality(ListedIn(t, w)) +
         (IF t = requests[r].token /\ w = HourOf(clock) /\ outcome = "allow_listed" THEN 1 ELSE 0)
  BY AuditsGrow
<1>3. CASE outcome # "allow_listed"
  BY <1>1, <1>2, <1>3
<1>4. CASE outcome = "allow_listed"
  <2>1. PICK u \in McpToken, h \in Windows :
          u = requests[r].token /\ h = HourOf(clock)
    BY Asking, InWindow DEF McpTypeOK
  <2>2. /\ usage[u][h] < Quota[u]
        /\ usage' = [usage EXCEPT ![u][h] = usage[u][h] + 1]
    BY <1>4, <2>1 DEF HasQuota
  <2>3. usage \in [McpToken -> [Windows -> Nat]] /\ usage[u][h] \in Nat /\ Quota[u] \in Nat
    BY DEF McpTypeOK
  <2>4. usage'[t][w] = IF t = u /\ w = h THEN usage[u][h] + 1 ELSE usage[t][w]
    BY <2>2, <2>3
  <2>. QED  BY <1>1, <1>2, <1>4, <2>1, <2>2, <2>3, <2>4
<1>. QED  BY <1>3, <1>4

\* A granted call that acts is a granted call no more.
LEMMA ActCounts ==
  ASSUME McpTypeOK, EffectInv, NEW r \in Request, Act(r), Effects(r)
  PROVE  EffectInv'
<1> SUFFICES ASSUME NEW t \in McpToken, NEW call \in Call
             PROVE  Cardinality(EffectsFor(t, call)') + Cardinality(GrantsFor(t, call)')
                       <= Cardinality(AuditsFor(t, call)')
  BY DEF EffectInv
<1>1. /\ requests[r].at = "granted" /\ audit' = audit
      /\ requests'[r].at # "granted" /\ \A q \in Request : q # r => requests'[q] = requests[q]
  BY ActCases, Ended DEF Idle
<1>2. AuditsFor(t, call)' = AuditsFor(t, call)
  BY <1>1 DEF AuditsFor
<1>3. PICK n \in Nat : n = Len(effects)
  BY DEF McpTypeOK
<1>4. /\ Len(effects') = n + 1 /\ \A i \in 1..n : effects'[i] = effects[i]
      /\ effects'[n + 1].token = requests[r].token /\ effects'[n + 1].call = requests[r].call
  BY <1>1, <1>3, EffectsGrow
<1>5. /\ EffectsFor(t, call) \in SUBSET (1..n) /\ GrantsFor(t, call) \in SUBSET Request
      /\ Cardinality(EffectsFor(t, call)) \in Nat /\ Cardinality(GrantsFor(t, call)) \in Nat
  BY <1>3, CountedSets
<1>6. Cardinality(EffectsFor(t, call)') + Cardinality(GrantsFor(t, call)')
         = Cardinality(EffectsFor(t, call)) + Cardinality(GrantsFor(t, call))
  <2>1. CASE t = requests[r].token /\ call = requests[r].call
    <3>1. EffectsFor(t, call)' = EffectsFor(t, call) \cup {n + 1}
      BY <1>3, <1>4, <2>1 DEF EffectsFor
    <3>2. GrantsFor(t, call)' = GrantsFor(t, call) \ {r} /\ r \in GrantsFor(t, call)
      BY <1>1, <2>1 DEF GrantsFor
    <3>3. /\ Cardinality(EffectsFor(t, call)') = Cardinality(EffectsFor(t, call)) + 1
          /\ Cardinality(GrantsFor(t, call)') = Cardinality(GrantsFor(t, call)) - 1
      BY ZenonT(30), <1>5, <3>1, <3>2, Grown, Requests
    <3>. QED  BY <1>5, <3>3
  <2>2. CASE ~(t = requests[r].token /\ call = requests[r].call)
    <3>1. EffectsFor(t, call)' = EffectsFor(t, call)
      BY <1>3, <1>4, <2>2 DEF EffectsFor
    <3>2. GrantsFor(t, call)' = GrantsFor(t, call)
      BY <1>1, <2>2 DEF GrantsFor
    <3>. QED  BY <3>1, <3>2
  <2>. QED  BY <2>1, <2>2
<1>. QED  BY <1>2, <1>6 DEF EffectInv

CountInv == EffectInv /\ QuotaIsKept

LEMMA CountStep == McpTypeOK /\ CountInv /\ [McpNext]_mcpVars => CountInv'
<1> SUFFICES ASSUME McpTypeOK, EffectInv, QuotaIsKept, [McpNext]_mcpVars
             PROVE  EffectInv' /\ QuotaIsKept'
  BY DEF CountInv
<1>. USE DEF mcpStore
<1>0. QuotaInv
  BY QuotaCounts
<1>1. ASSUME NEW t \in McpToken, IssueMcpToken(t) PROVE EffectInv' /\ QuotaIsKept'
  BY <1>1, SameCounts DEF IssueMcpToken
<1>2. ASSUME NEW t \in McpToken, NEW call \in Call, CreateMcpApproval(t, call)
      PROVE  EffectInv' /\ QuotaIsKept'
  BY <1>2, SameCounts DEF CreateMcpApproval
<1>3. ASSUME NEW r \in Request, NEW t \in McpToken, NEW call \in Call, NEW a \in ApprovalId,
             Authenticate(r, t, call, a)
      PROVE  EffectInv' /\ QuotaIsKept'
  <2>1. requests'[r].at # "granted" /\ \A q \in Request : q # r => requests'[q] = requests[q]
    BY <1>3 DEF Authenticate, Asks, McpTypeOK
  <2>. QED  BY <1>3, <2>1, SameCounts DEF Authenticate
<1>4. ASSUME NEW r \in Request, ConsumeMcpApproval(r) PROVE EffectInv' /\ QuotaIsKept'
  <2>1. /\ requests[r].at = "authenticated" /\ UNCHANGED <<effects, usage>>
        /\ \/ Audit(r, "approved") /\ Proceed(r)
           \/ Audit(r, "denied") /\ TurnDown(r)
    BY <1>4 DEF ConsumeMcpApproval
  <2>2. PICK outcome \in {"approved", "denied"} :
          /\ Audit(r, outcome)
          /\ \/ outcome \in Granting /\ Proceed(r)
             \/ outcome \notin Granting /\ TurnDown(r)
    <3>1. CASE Audit(r, "approved") /\ Proceed(r)
      BY <3>1 DEF Granting
    <3>2. CASE Audit(r, "denied") /\ TurnDown(r)
      BY <3>2 DEF Granting
    <3>. QED  BY <2>1, <3>1, <3>2
  <2>3. outcome \in Outcome /\ outcome # "allow_listed"
    BY DEF Outcome
  <2>4. EffectInv'
    BY <2>1, <2>2, <2>3, DecisionCounts
  <2>5. QuotaInv'
    BY <1>0, <2>1, <2>2, <2>3, DecisionQuota
  <2>. QED  BY <2>4, <2>5, QuotaNext
<1>5. ASSUME NEW r \in Request, ClaimAllowListed(r) PROVE EffectInv' /\ QuotaIsKept'
  <2>1. /\ requests[r].at = "authenticated" /\ UNCHANGED effects
        /\ \/ /\ HasQuota(requests[r].token) /\ Audit(r, "allow_listed") /\ Proceed(r)
              /\ usage' = [usage EXCEPT ![requests[r].token][HourOf(clock)] = @ + 1]
           \/ Audit(r, "quota_denied") /\ TurnDown(r) /\ UNCHANGED usage
    BY <1>5 DEF ClaimAllowListed
  <2>2. {"allow_listed", "quota_denied"} \subseteq Outcome
        /\ "allow_listed" \in Granting /\ "quota_denied" \notin Granting
    BY DEF Outcome, Granting
  <2>3. EffectInv'
    <3>1. CASE Audit(r, "allow_listed") /\ Proceed(r)
      BY <2>1, <2>2, <3>1, DecisionCounts
    <3>2. CASE Audit(r, "quota_denied") /\ TurnDown(r)
      BY <2>1, <2>2, <3>2, DecisionCounts
    <3>. QED  BY <2>1, <3>1, <3>2
  <2>4. QuotaInv'
    BY <1>0, <2>1, <2>2, DecisionQuota
  <2>. QED  BY <2>3, <2>4, QuotaNext
<1>6. ASSUME NEW r \in Request, Deny(r) PROVE EffectInv' /\ QuotaIsKept'
  <2>1. requests'[r].at # "granted" /\ \A q \in Request : q # r => requests'[q] = requests[q]
    BY <1>6, Ended DEF Deny, TurnDown, Idle
  <2>. QED  BY <1>6, <2>1, SameCounts DEF Deny
<1>7. ASSUME NEW r \in Request, Act(r) PROVE EffectInv' /\ QuotaIsKept'
  <2>1. /\ requests'[r].at # "granted" /\ \A q \in Request : q # r => requests'[q] = requests[q]
        /\ UNCHANGED <<usage, audit>>
    BY <1>7, ActCases, Ended DEF Idle
  <2>2. QuotaIsKept'
    BY <2>1 DEF QuotaIsKept
  <2>3. CASE effects' = effects
    BY <2>1, <2>3, SameCounts
  <2>4. CASE Effects(r)
    BY <1>7, <2>2, <2>4, ActCounts
  <2>. QED  BY <1>7, <2>3, <2>4, ActCases
<1>8. CASE McpTick
  BY <1>8, SameCounts DEF McpTick
<1>9. CASE McpCrash
  BY <1>9, SameCounts DEF McpCrash, Idle
<1>10. CASE UNCHANGED mcpVars
  BY <1>10, SameCounts DEF mcpVars
<1>. QED  BY <1>1, <1>2, <1>3, <1>4, <1>5, <1>6, <1>7, <1>8, <1>9, <1>10 DEF McpNext

LEMMA CountInit == McpInit => CountInv
<1> SUFFICES ASSUME McpInit PROVE CountInv
  OBVIOUS
<1>1. ASSUME NEW t \in McpToken, NEW x
      PROVE  EffectsFor(t, x) = {} /\ GrantsFor(t, x) = {} /\ AuditsFor(t, x) = {} /\ ListedIn(t, x) = {}
  BY DEF McpInit, EffectsFor, GrantsFor, AuditsFor, ListedIn, Idle
<1>2. Cardinality({}) = 0
  BY FS_EmptySet
<1>3. ASSUME NEW t \in McpToken, NEW x
      PROVE  /\ Cardinality(EffectsFor(t, x)) = 0 /\ Cardinality(GrantsFor(t, x)) = 0
             /\ Cardinality(AuditsFor(t, x)) = 0 /\ Cardinality(ListedIn(t, x)) = 0
  BY <1>1, <1>2
<1>4. EffectInv
  BY <1>3 DEF EffectInv
<1>5. ASSUME NEW t \in McpToken, NEW w \in Windows PROVE usage[t][w] = 0 /\ 0 <= Quota[t]
  BY DEF McpInit
<1>6. QuotaInv
  BY <1>3, <1>5 DEF QuotaInv
<1>. QED  BY <1>4, <1>6, QuotaCounts DEF CountInv

\* consume_mcp_approval and the allow-list: whatever requests race or die, no call
\* acts without an audit of its own, and no window of a token holds more audited
\* calls than its quota.
THEOREM AuditCountsAreKept == McpSpec => []AuditCountsEffects
<1>1. McpTypeOK /\ CountInv /\ [McpNext]_mcpVars => (McpTypeOK /\ CountInv)'
  BY McpTypeStep, CountStep
<1>2. McpInit => McpTypeOK /\ CountInv
  BY McpTypeInit, CountInit
<1>3. McpTypeOK /\ CountInv => AuditCountsEffects
  <2> SUFFICES ASSUME McpTypeOK, CountInv PROVE AuditCountsEffects
    OBVIOUS
  <2>1. \A t, call : /\ Effected(t, call) = Cardinality(EffectsFor(t, call))
                     /\ Audited(t, call, Granting) = Cardinality(AuditsFor(t, call))
    BY DEF Effected, Audited, EffectsFor, AuditsFor
  <2>2. EffectsAreAudited
    BY <2>1, CountedSets DEF EffectsAreAudited, CountInv, EffectInv, Granting
  <2>. QED  BY <2>2 DEF AuditCountsEffects, CountInv
<1>. QED  BY <1>1, <1>2, <1>3, PTL DEF McpSpec
=============================================================================
