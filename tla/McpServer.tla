------------------------------ MODULE McpServer ------------------------------
(***************************************************************************)
(* The writes an assistant asks for through POST /mcp: tokens with scopes  *)
(* and a write policy, the approvals an administrator gives for one call,  *)
(* the hourly quota of an allow-list, the audit, and the command or the    *)
(* switch of an automation that follows.  A request authenticates, is      *)
(* authorised and acts in three transactions.                              *)
(*                                                                         *)
(* Abstractions.  A call stands for a tool and its canonical arguments, so *)
(* two calls are equal exactly when their hashes are.  Reading tools change*)
(* nothing.  What becomes of a command after its creation belongs to       *)
(* CommandLifecycle, how an automation is switched to FlowDefinitions.     *)
(* MaxApprovals, MaxTries and MaxTime bound the model.                     *)
(***************************************************************************)
EXTENDS Naturals, Sequences, FiniteSets

CONSTANTS
    McpToken,          \* tokens the administrator may issue
    Scopes,         \* their scopes: "read", "control", "automation_write"
    Policy,         \* their policy: "read_only", "confirm_each", "allow_listed"
    Listed,         \* the calls their allow-list names
    Quota,          \* max_commands_per_hour
    Call,           \* calls an assistant may make
    Tool,           \* their tool: "command" or "toggle"
    Request,        \* requests handled at the same time
    TokenLife,      \* lifetimes, and the length of a quota window
    ApprovalLife,
    Hour,
    MaxApprovals,   \* bound: approvals ever created
    MaxTries,       \* bound: requests that reach a tool that writes
    MaxTime         \* bound: last instant of the model

ASSUME McpAssumption ==
    /\ Scopes \in [McpToken -> SUBSET {"read", "control", "automation_write"}]
    /\ Policy \in [McpToken -> {"read_only", "confirm_each", "allow_listed"}]
    /\ Listed \in [McpToken -> SUBSET Call]
    /\ Quota \in [McpToken -> Nat]
    /\ \A call \in Call : Tool[call] \in {"command", "toggle"}
    /\ {TokenLife, ApprovalLife, Hour} \subseteq Nat \ {0}
    /\ {MaxApprovals, MaxTries, MaxTime} \subseteq Nat
    /\ IsFiniteSet(Request)

VARIABLES
    clock,
    expires,        \* durable: expiry of each token, 0 before it is issued
    approvals,      \* durable: the approvals, in the order they were given
    usage,          \* durable: commands of each token in each window
    audit,          \* durable: mcp_audit, oldest first
    keys,           \* durable: idempotency keys of the commands created
    requests,       \* what each request asks, and how far it is
    effects,        \* history: commands handed over and automations switched
    refused         \* history: write requests that were turned down

mcpStore == <<expires, approvals, usage, audit, keys>>
mcpVars == <<clock, expires, approvals, usage, audit, keys, requests, effects, refused>>

-----------------------------------------------------------------------------

Instants == 0..MaxTime
Windows == 0..(MaxTime \div Hour)
HourOf(t) == t \div Hour
ApprovalId == 0..MaxApprovals

\* A scope is what a tool requires.
Needs(call) == IF Tool[call] = "command" THEN "control" ELSE "automation_write"

Writes(t) == Scopes[t] \cap {"control", "automation_write"} # {}

\* validate_for: which policies go with which scopes.
ValidPolicy(t) ==
    CASE Policy[t] = "read_only" -> ~Writes(t)
      [] Policy[t] = "confirm_each" -> Writes(t)
      [] Policy[t] = "allow_listed" -> "control" \in Scopes[t] /\ Listed[t] # {} /\ Quota[t] > 0

Idle == [at |-> "idle"]
Asks(t, call, a, at) == [at |-> at, token |-> t, call |-> call, approval |-> a]

McpInit ==
    /\ clock = 0
    /\ expires = [t \in McpToken |-> 0]
    /\ approvals = <<>>
    /\ usage = [t \in McpToken |-> [w \in Windows |-> 0]]
    /\ audit = <<>> /\ keys = {}
    /\ requests = [r \in Request |-> Idle]
    /\ effects = <<>> /\ refused = 0

-----------------------------------------------------------------------------
(* The administrator. *)

IssueMcpToken(t) ==
    /\ expires[t] = 0
    /\ ValidPolicy(t)
    /\ expires' = [expires EXCEPT ![t] = clock + TokenLife]
    /\ UNCHANGED <<clock, approvals, usage, audit, keys, requests, effects, refused>>

\* create_mcp_approval: for one call of a live token that has the scope.
CreateMcpApproval(t, call) ==
    /\ Len(approvals) < MaxApprovals
    /\ expires[t] > clock
    /\ Policy[t] # "allow_listed"
    /\ Needs(call) \in Scopes[t]
    /\ approvals' = Append(approvals, [token |-> t, call |-> call,
                                       until |-> clock + ApprovalLife, consumed |-> FALSE])
    /\ UNCHANGED <<clock, expires, usage, audit, keys, requests, effects, refused>>

-----------------------------------------------------------------------------
(* A request to a tool that writes. *)

\* The bearer is looked up once, then the token is not read again.  Without
\* the scope, and without an approval for an automation, the call ends here.
Authenticate(r, t, call, a) ==
    /\ requests[r] = Idle
    /\ Len(audit) + refused < MaxTries
    /\ expires[t] > clock
    /\ Needs(call) \in Scopes[t]
    /\ Tool[call] = "toggle" => a # 0
    /\ requests' = [requests EXCEPT ![r] = Asks(t, call, a, "authenticated")]
    /\ UNCHANGED <<clock, mcpStore, effects, refused>>

\* Mutant: an approval is good until it expires.
SpendableAgain(a, t, call) ==
    /\ a \in 1..Len(approvals)
    /\ approvals[a].token = t /\ approvals[a].call = call
    /\ approvals[a].until > clock

\* The row the UPDATE of consume_mcp_approval finds.
Spendable(a, t, call) ==
    /\ a \in 1..Len(approvals)
    /\ approvals[a].token = t /\ approvals[a].call = call
    /\ ~approvals[a].consumed
    /\ approvals[a].until > clock

Audit(r, outcome) ==
    audit' = Append(audit, [token |-> requests[r].token, call |-> requests[r].call,
                            outcome |-> outcome, at |-> clock])

Proceed(r) == requests' = [requests EXCEPT ![r].at = "granted"]
TurnDown(r) == requests' = [requests EXCEPT ![r] = Idle] /\ refused' = refused + 1

\* confirm_each: the approval is consumed and the outcome audited together.
ConsumeMcpApproval(r) ==
    /\ requests[r].at = "authenticated"
    /\ Policy[requests[r].token] = "confirm_each"
    /\ requests[r].approval # 0
    /\ LET a == requests[r].approval
       IN  \/ /\ Spendable(a, requests[r].token, requests[r].call)
              /\ approvals' = [approvals EXCEPT ![a].consumed = TRUE]
              /\ Audit(r, "approved")
              /\ Proceed(r)
              /\ UNCHANGED refused
           \/ /\ ~Spendable(a, requests[r].token, requests[r].call)
              /\ Audit(r, "denied")
              /\ TurnDown(r)
              /\ UNCHANGED approvals
    /\ UNCHANGED <<clock, expires, usage, keys, effects>>

\* Mutant: off by one.
HasQuotaForOneMore(t) == usage[t][HourOf(clock)] <= Quota[t]

HasQuota(t) == usage[t][HourOf(clock)] < Quota[t]

\* allow_listed: a slot of the window is taken and the outcome audited together.
ClaimAllowListed(r) ==
    /\ requests[r].at = "authenticated"
    /\ Policy[requests[r].token] = "allow_listed"
    /\ Tool[requests[r].call] = "command"
    /\ requests[r].call \in Listed[requests[r].token]
    /\ LET t == requests[r].token
       IN  \/ /\ HasQuota(t)
              /\ usage' = [usage EXCEPT ![t][HourOf(clock)] = @ + 1]
              /\ Audit(r, "allow_listed")
              /\ Proceed(r)
              /\ UNCHANGED refused
           \/ /\ ~HasQuota(t)
              /\ Audit(r, "quota_denied")
              /\ TurnDown(r)
              /\ UNCHANGED usage
    /\ UNCHANGED <<clock, expires, approvals, keys, effects>>

\* Turned down before the store is asked: no approval, a command that is not
\* listed, or an automation for a token with an allow-list.
Deny(r) ==
    /\ requests[r].at = "authenticated"
    /\ LET t == requests[r].token
       IN  \/ Policy[t] = "confirm_each" /\ requests[r].approval = 0
           \/ Policy[t] = "allow_listed" /\ requests[r].call \notin Listed[t]
           \/ Policy[t] = "allow_listed" /\ Tool[requests[r].call] = "toggle"
    /\ TurnDown(r)
    /\ UNCHANGED <<clock, mcpStore, effects>>

\* The idempotency key of a command: its approval, or its arguments.
KeyOf(r) ==
    IF requests[r].approval # 0
    THEN <<"approval", requests[r].approval>>
    ELSE <<"allow-listed", requests[r].call>>

\* request_command hands over a command whose key is new and returns the known
\* one otherwise; set_automation_enabled switches.  Either may refuse.
Act(r) ==
    /\ requests[r].at = "granted"
    /\ requests' = [requests EXCEPT ![r] = Idle]
    /\ \/ UNCHANGED <<keys, effects>>
       \/ /\ Tool[requests[r].call] = "command"
          /\ KeyOf(r) \notin keys
          /\ keys' = keys \cup {KeyOf(r)}
          /\ effects' = Append(effects, [token |-> requests[r].token, call |-> requests[r].call,
                                         approval |-> requests[r].approval])
       \/ /\ Tool[requests[r].call] = "toggle"
          /\ UNCHANGED keys
          /\ effects' = Append(effects, [token |-> requests[r].token, call |-> requests[r].call,
                                         approval |-> requests[r].approval])
    /\ UNCHANGED <<clock, expires, approvals, usage, audit, refused>>

McpTick ==
    /\ clock < MaxTime
    /\ clock' = clock + 1
    /\ UNCHANGED <<mcpStore, requests, effects, refused>>

\* The process dies with its requests; what is spent stays spent.
McpCrash ==
    /\ \E r \in Request : requests[r] # Idle
    /\ requests' = [r \in Request |-> Idle]
    /\ UNCHANGED <<clock, mcpStore, effects, refused>>

McpNext ==
    \/ \E t \in McpToken : IssueMcpToken(t)
    \/ \E t \in McpToken, call \in Call : CreateMcpApproval(t, call)
    \/ \E r \in Request :
          \/ \E t \in McpToken, call \in Call, a \in ApprovalId : Authenticate(r, t, call, a)
          \/ ConsumeMcpApproval(r) \/ ClaimAllowListed(r) \/ Deny(r) \/ Act(r)
    \/ McpTick
    \/ McpCrash

McpSpec == McpInit /\ [][McpNext]_mcpVars

-----------------------------------------------------------------------------
(* Properties. *)

McpTypeOK ==
    /\ clock \in Instants
    /\ expires \in [McpToken -> Nat]
    /\ approvals \in Seq([token : McpToken, call : Call, until : Nat, consumed : BOOLEAN])
    /\ usage \in [McpToken -> [Windows -> Nat]]
    /\ audit \in Seq([token : McpToken, call : Call, at : Instants,
                      outcome : {"approved", "denied", "allow_listed", "quota_denied"}])
    /\ requests \in [Request -> {Idle} \cup [at : {"authenticated", "granted"}, token : McpToken,
                                             call : Call, approval : ApprovalId]]
    /\ effects \in Seq([token : McpToken, call : Call, approval : ApprovalId])
    /\ refused \in Nat

\* An approval is spent: its one request acts, or has acted.
Uses(a) ==
    Cardinality({i \in 1..Len(effects) :
                   effects[i].approval = a /\ Policy[effects[i].token] = "confirm_each"})
    + Cardinality({r \in Request : /\ requests[r].at = "granted"
                                   /\ Policy[requests[r].token] = "confirm_each"
                                   /\ requests[r].approval = a})

\* mcp/0001: an approval is bound to a token, a tool and its arguments, and
\* consumed once.  Whatever requests race for it, repeat it or die with it, a
\* token that confirms each call acts with an approval only, one approval leads
\* to one action at most, and that is the call it was given for.
ApprovalSpentOnce ==
    /\ \A a \in 1..Len(approvals) : Uses(a) <= IF approvals[a].consumed THEN 1 ELSE 0
    /\ \A i \in 1..Len(effects) :
          LET a == effects[i].approval
          IN  Policy[effects[i].token] = "confirm_each" =>
                  /\ a \in 1..Len(approvals)
                  /\ effects[i].call = approvals[a].call
                  /\ effects[i].token = approvals[a].token

Audited(t, call, outcomes) ==
    Cardinality({i \in 1..Len(audit) :
                   audit[i].token = t /\ audit[i].call = call /\ audit[i].outcome \in outcomes})
Effected(t, call) ==
    Cardinality({i \in 1..Len(effects) : effects[i].token = t /\ effects[i].call = call})

EffectsAreAudited ==
    \A t \in McpToken, call \in Call :
        Effected(t, call) <= Audited(t, call, {"approved", "allow_listed"})

QuotaIsKept ==
    \A t \in McpToken, w \in Windows :
        /\ usage[t][w] <= Quota[t]
        /\ usage[t][w] = Cardinality({i \in 1..Len(audit) :
                audit[i].token = t /\ audit[i].outcome = "allow_listed" /\ HourOf(audit[i].at) = w})

\* mcp/0001: a call that acts is audited, and an allow-list is capped by the
\* hour.  Whatever requests race or die between their transactions, there may be
\* an audited call without effect, never an effect without its audit; and in no
\* window does the audit show more commands for a token than its quota, which is
\* what the counter says.
AuditCountsEffects == EffectsAreAudited /\ QuotaIsKept
=============================================================================
