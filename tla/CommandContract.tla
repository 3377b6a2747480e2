--------------------------- MODULE CommandContract ---------------------------
(***************************************************************************)
(* What Robine promises about a command, whoever asks for it and whatever  *)
(* interrupts it: the abstract specification that CommandLifecycle         *)
(* implements.  A command is named by its idempotency key.  It is accepted *)
(* once, reaches the device at most once, and is settled either by the     *)
(* device (confirmed), by time (expired), or by the call that created it,  *)
(* which acknowledges the transport exactly once while it is still open.   *)
(*                                                                         *)
(* The acknowledgement is deliberately allowed in every status: that is    *)
(* what the code does (transition_command writes unconditionally), and     *)
(* CommandLifecycle!ReportPrevails shows what it costs.                    *)
(***************************************************************************)
EXTENDS Naturals

CONSTANT IdemKey        \* idempotency keys clients send

VARIABLES
    status,             \* status of the command of each key, or "absent"
    delivered,          \* how often the command of a key reached the adapter
    open                \* the call that created the command has not returned

contractVars == <<status, delivered, open>>

Pending == {"requested", "dispatched"}
Settled == {"confirmed", "failed", "expired"}

ContractInit ==
    /\ status = [k \in IdemKey |-> "absent"]
    /\ delivered = [k \in IdemKey |-> 0]
    /\ open = [k \in IdemKey |-> FALSE]

\* A key that names no command yet is given one.
Accept(k) ==
    /\ status[k] = "absent"
    /\ status' = [status EXCEPT ![k] = "requested"]
    /\ open' = [open EXCEPT ![k] = TRUE]
    /\ UNCHANGED delivered

\* The open call hands the command to the adapter, once.
Hand(k) ==
    /\ open[k]
    /\ delivered[k] = 0
    /\ delivered' = [delivered EXCEPT ![k] = 1]
    /\ UNCHANGED <<status, open>>

\* The open call records the result of the transport and returns.
Acknowledge(k) ==
    /\ open[k]
    /\ \/ /\ delivered[k] = 1
          /\ status' = [status EXCEPT ![k] = "dispatched"]
       \/ status' = [status EXCEPT ![k] = "failed"]
    /\ open' = [open EXCEPT ![k] = FALSE]
    /\ UNCHANGED delivered

\* A reported state confirms, or the delay expires, a set of pending commands.
Settle(K) ==
    /\ K # {}
    /\ \A k \in K : status[k] \in Pending
    /\ \E s \in {"confirmed", "expired"} :
          status' = [k \in IdemKey |-> IF k \in K THEN s ELSE status[k]]
    /\ UNCHANGED <<delivered, open>>

\* The process stops: nobody will acknowledge the open commands any more.
Abandon ==
    /\ open' = [k \in IdemKey |-> FALSE]
    /\ UNCHANGED <<status, delivered>>

ContractNext ==
    \/ \E k \in IdemKey : Accept(k) \/ Hand(k) \/ Acknowledge(k)
    \/ \E K \in SUBSET IdemKey : Settle(K)
    \/ Abandon

ContractSpec == ContractInit /\ [][ContractNext]_contractVars
=============================================================================
