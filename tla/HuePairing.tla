----------------------------- MODULE HuePairing -----------------------------
(***************************************************************************)
(* How a Hue bridge comes to be followed: the administrator pairs it, the  *)
(* server finds it again after a restart.  A pairing leaves a key in the   *)
(* secret store, a row in hue_bridges, a dispatcher, the active adapter    *)
(* and a listening thread, one after the other; each step may fail, two    *)
(* pairings may overlap and the process may die between any two.           *)
(*                                                                         *)
(* Abstractions.  A key is the number of its creation.  A synchronisation  *)
(* is one step here (see HueSupervisor), and so is what a thread does.     *)
(* The pinned certificate stays that of the bridge.  Locks are not         *)
(* poisoned.  MaxAppKeys and MaxLives bound the model.                     *)
(***************************************************************************)
EXTENDS Naturals, Sequences, SequencesExt

CONSTANTS
    Host,           \* authorities of bridges
    PairRequest,    \* calls of pair
    MaxAppKeys,     \* bound: application keys created
    MaxLives        \* bound: starts of the server

ASSUME PairingAssumption == MaxAppKeys \in Nat /\ MaxLives \in Nat

VARIABLES
    appKeys,        \* the bridge each application key was created by, in order
    accepted,       \* keys the bridges still accept
    keychain,       \* durable: the secret hue:<authority> of each host, 0 for none
    bridges,        \* durable: the rows of hue_bridges
    server,         \* "down", "starting" or "serving"
    lives,          \* starts of the server
    restoring,      \* rows restore_paired_bridges has read and not yet tried
    pairing,        \* where each call of pair is, and its key
    dispatchers,    \* keys whose dispatcher is registered, in order
    active,         \* key of the adapter the administrator synchronises, 0 for none
    threads,        \* keys a thread listens with
    synced          \* history: keys an inventory was read with

pairingVars == <<appKeys, accepted, keychain, bridges, server, lives, restoring, pairing,
                 dispatchers, active, threads, synced>>

-----------------------------------------------------------------------------

AppKey == 1..Len(appKeys)
AppKeysOf(h) == {k \in AppKey : appKeys[k] = h}
NotPairing == [at |-> "idle", key |-> 0]

\* HueAdapter::synchronize with key k.
Synchronised(k) ==
    /\ k \in accepted
    /\ synced' = synced \cup {k}

\* The call of pair goes on to its next step, or ends with an error.
PairGoes(r, place) == pairing' = [pairing EXCEPT ![r].at = place]
PairEnds(r) == pairing' = [pairing EXCEPT ![r] = NotPairing]
PairAt(r, place) == pairing[r].at = place

\* Dispatcher, active adapter and thread of an adapter that is synchronised.
Follow(k) ==
    /\ dispatchers' = Append(dispatchers, k)
    /\ active' = k
    /\ threads' = threads \cup {k}

PairingInit ==
    /\ appKeys = <<>> /\ accepted = {}
    /\ keychain = [h \in Host |-> 0] /\ bridges = {}
    /\ server = "down" /\ lives = 0 /\ restoring = {}
    /\ pairing = [r \in PairRequest |-> NotPairing]
    /\ dispatchers = <<>> /\ active = 0 /\ threads = {}
    /\ synced = {}

-----------------------------------------------------------------------------
(* pair. *)

\* create_application_key: the button of the bridge was pressed.
CreateKey(r, h) ==
    /\ server = "serving" /\ PairAt(r, "idle")
    /\ Len(appKeys) < MaxAppKeys
    /\ appKeys' = Append(appKeys, h)
    /\ accepted' = accepted \cup {Len(appKeys) + 1}
    /\ pairing' = [pairing EXCEPT ![r] = [at |-> "created", key |-> Len(appKeys) + 1]]
    /\ UNCHANGED <<keychain, bridges, server, lives, restoring, dispatchers, active, threads, synced>>

FirstInventory(r) ==
    /\ PairAt(r, "created")
    /\ \/ Synchronised(pairing[r].key) /\ PairGoes(r, "synchronised")
       \/ PairEnds(r) /\ UNCHANGED synced
    /\ UNCHANGED <<appKeys, accepted, keychain, bridges, server, lives, restoring, dispatchers,
                   active, threads>>

\* Mutant: the pairing goes on without the secret.
StoreSecretOrNot(r) ==
    /\ PairAt(r, "synchronised")
    /\ \/ keychain' = [keychain EXCEPT ![appKeys[pairing[r].key]] = pairing[r].key]
       \/ UNCHANGED keychain
    /\ PairGoes(r, "stored")
    /\ UNCHANGED <<appKeys, accepted, bridges, server, lives, restoring, dispatchers, active,
                   threads, synced>>

\* secrets.put, which replaces the key of an earlier pairing.
StoreSecret(r) ==
    /\ PairAt(r, "synchronised")
    /\ \/ /\ keychain' = [keychain EXCEPT ![appKeys[pairing[r].key]] = pairing[r].key]
          /\ PairGoes(r, "stored")
       \/ PairEnds(r) /\ UNCHANGED keychain
    /\ UNCHANGED <<appKeys, accepted, bridges, server, lives, restoring, dispatchers, active,
                   threads, synced>>

SaveHueBridge(r) ==
    /\ PairAt(r, "stored")
    /\ \/ /\ bridges' = bridges \cup {appKeys[pairing[r].key]}
          /\ PairGoes(r, "saved")
       \/ PairEnds(r) /\ UNCHANGED bridges
    /\ UNCHANGED <<appKeys, accepted, keychain, server, lives, restoring, dispatchers, active,
                   threads, synced>>

\* A thread of an earlier pairing goes on listening with its own key.
FollowPaired(r) ==
    /\ PairAt(r, "saved")
    /\ Follow(pairing[r].key)
    /\ PairEnds(r)
    /\ UNCHANGED <<appKeys, accepted, keychain, bridges, server, lives, restoring, synced>>

-----------------------------------------------------------------------------
(* restore_paired_bridges, before the server serves. *)

StartServer ==
    /\ server = "down" /\ lives < MaxLives
    /\ lives' = lives + 1
    /\ server' = "starting"
    /\ restoring' \in {bridges, {}}     \* the rows are read, or cannot be
    /\ UNCHANGED <<appKeys, accepted, keychain, bridges, pairing, dispatchers, active, threads, synced>>

\* A row whose key is not found or whose bridge does not answer is passed over,
\* until the next start.
RestoreBridge(h) ==
    /\ server = "starting" /\ h \in restoring
    /\ restoring' = restoring \ {h}
    /\ \/ Synchronised(keychain[h]) /\ Follow(keychain[h])
       \/ UNCHANGED <<dispatchers, active, threads, synced>>
    /\ UNCHANGED <<appKeys, accepted, keychain, bridges, server, lives, pairing>>

Serve ==
    /\ server = "starting" /\ restoring = {}
    /\ server' = "serving"
    /\ UNCHANGED <<appKeys, accepted, keychain, bridges, lives, restoring, pairing, dispatchers,
                   active, threads, synced>>

Die ==
    /\ server # "down"
    /\ server' = "down" /\ restoring' = {}
    /\ pairing' = [r \in PairRequest |-> NotPairing]
    /\ dispatchers' = <<>> /\ active' = 0 /\ threads' = {}
    /\ UNCHANGED <<appKeys, accepted, keychain, bridges, lives, synced>>

-----------------------------------------------------------------------------
(* Around it. *)

\* The bridge forgets a key: it was reset, or its owner removed the access.
Revoke(k) ==
    /\ k \in accepted
    /\ accepted' = accepted \ {k}
    /\ UNCHANGED <<appKeys, keychain, bridges, server, lives, restoring, pairing, dispatchers,
                   active, threads, synced>>

PairingNext ==
    \/ \E r \in PairRequest :
          \/ \E h \in Host : CreateKey(r, h)
          \/ FirstInventory(r) \/ StoreSecret(r) \/ SaveHueBridge(r) \/ FollowPaired(r)
    \/ StartServer \/ \E h \in Host : RestoreBridge(h)
    \/ Serve \/ Die
    \/ \E k \in accepted : Revoke(k)

PairingSpec == PairingInit /\ [][PairingNext]_pairingVars

-----------------------------------------------------------------------------
(* Properties. *)

PairingTypeOK ==
    /\ appKeys \in Seq(Host) /\ Len(appKeys) \in 0..MaxAppKeys
    /\ accepted \subseteq AppKey /\ synced \subseteq AppKey
    /\ keychain \in [Host -> AppKey \cup {0}] /\ bridges \subseteq Host
    /\ server \in {"down", "starting", "serving"} /\ lives \in 0..MaxLives
    /\ restoring \subseteq Host
    /\ pairing \in [PairRequest -> [at : {"idle", "created", "synchronised", "stored", "saved"},
                                    key : AppKey \cup {0}]]
    /\ dispatchers \in Seq(AppKey) /\ active \in AppKey \cup {0} /\ threads \subseteq AppKey

\* The key is written only after TLS and the synchronisation are validated, and
\* restarts must not need a new pairing: whichever step of whichever of two
\* pairings fails or dies, a bridge on record has a key of its own that was good
\* for an inventory, and what is followed is on record and has its dispatcher.
FollowedBridgesComeBack ==
    /\ \A h \in bridges : keychain[h] \in synced \cap AppKeysOf(h)
    /\ \A k \in threads : appKeys[k] \in bridges /\ k \in ToSet(dispatchers)
    /\ active # 0 => active \in threads
=============================================================================
