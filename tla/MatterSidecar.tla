---------------------------- MODULE MatterSidecar ----------------------------
(***************************************************************************)
(* The Matter sidecar and the two threads of work that depend on it: the   *)
(* supervisor of the server, which launches robine-matterd and             *)
(* synchronises its endpoints every few seconds, and the commissioning     *)
(* jobs clients start, which the daemon keeps in a file for later.  Server *)
(* and daemon die independently: a daemon outlives the server that         *)
(* launched it, and the next server launches another on the same socket    *)
(* and the same file.                                                      *)
(*                                                                         *)
(* Abstractions.  The backend, a Matter controller, is external: it is     *)
(* available or not and commissions or fails; the one that is shipped      *)
(* never does either.  The store of the server answers, the secret of the  *)
(* socket is there or not.  A job has the name of its request.             *)
(* MaxDaemons and MaxStarts bound the model.                               *)
(***************************************************************************)
EXTENDS Naturals

CONSTANTS
    JobRequest,     \* calls of start_commissioning
    Node,           \* Matter nodes on the fabric
    Outcomes,       \* how the backend may end a commissioning
    MaxDaemons,     \* bound: daemons launched
    MaxStarts       \* bound: starts of the server

ASSUME SidecarAssumption ==
    /\ Outcomes \subseteq {"succeeded", "failed"}
    /\ MaxDaemons \in Nat /\ MaxStarts \in Nat

VARIABLES
    supervisor,     \* "down", "idle", "starting" or "registering" during a
                    \* synchronisation, or "off" for want of the secret
    starts,         \* starts of the server
    launched,       \* daemons launched
    daemons,        \* those that are alive
    binding,        \* those that have yet to bind the socket
    child,          \* the one this server launched, 0 without one
    socket,         \* the one that is bound to the socket, 0 without one
    unregistered,   \* nodes of the inventory that are not yet registered
    inventory,      \* nodes of the last inventory
    registered,     \* durable: nodes in the registry
    routed,         \* nodes the dispatcher has a route to
    matterHealth,   \* durable: adapter health of matter:local
    jobCalls,       \* where each request is, in which daemon, what it knows
    jobFile,        \* durable: *.jobs.json
    told,           \* history: jobs a client was told the name of
    crossed         \* history: two daemons wrote the file at the same time

sidecarVars == <<supervisor, starts, launched, daemons, binding, child, socket, unregistered, inventory,
                 registered, routed, matterHealth, jobCalls, jobFile, told, crossed>>

fleet == <<launched, daemons, binding, socket>>
home == <<inventory, registered, routed, matterHealth>>
jobs == <<jobCalls, jobFile, told, crossed>>

-----------------------------------------------------------------------------

JobStatus == {"none", "succeeded", "failed"}
JobFile == [JobRequest -> JobStatus]
NoJobs == [r \in JobRequest |-> "none"]
NotAsked == [at |-> "new", daemon |-> 0, outcome |-> "none", copy |-> NoJobs, waiting |-> FALSE]

JobAt(r, place) == jobCalls[r].at = place
JobGoes(r, place) == jobCalls' = [jobCalls EXCEPT ![r].at = place]

SidecarInit ==
    /\ supervisor = "down" /\ starts = 0
    /\ launched = 0 /\ daemons = {} /\ binding = {} /\ child = 0 /\ socket = 0
    /\ unregistered = {} /\ inventory = {} /\ registered = {} /\ routed = {}
    /\ matterHealth = "none"
    /\ jobCalls = [r \in JobRequest |-> NotAsked] /\ jobFile = NoJobs
    /\ told = {} /\ crossed = FALSE

-----------------------------------------------------------------------------
(* The supervisor in the server. *)

\* ensure_matter_sidecar: a child that runs is kept, one that does not is
\* replaced unless that fails; only a child of this server is known.
Launch ==
    \/ UNCHANGED <<launched, daemons, binding, child>>
    \/ /\ child \notin daemons /\ launched < MaxDaemons
       /\ launched' = launched + 1
       /\ daemons' = daemons \cup {launched + 1}
       /\ binding' = binding \cup {launched + 1}
       /\ child' = launched + 1

Synchronizing == supervisor \in {"starting", "registering"}

Degrade ==
    /\ matterHealth' = "degraded"
    /\ UNCHANGED <<inventory, registered, routed>>

\* MatterAdapter::synchronize: the daemon does not answer, or its backend is
\* not available ...
BeginSynchronize ==
    \/ Degrade /\ UNCHANGED unregistered /\ supervisor' = "idle"
    \* ... or its nodes are listed.
    \/ /\ socket # 0
       /\ \E S \in SUBSET Node : unregistered' = S /\ inventory' = S
       /\ supervisor' = IF supervisor = "down" THEN "starting" ELSE "registering"
       /\ UNCHANGED <<registered, routed, matterHealth>>

\* start_configured_matter; without the secret there is no supervisor.
StartMatter ==
    /\ supervisor = "down" /\ starts < MaxStarts
    /\ starts' = starts + 1
    /\ Launch
    /\ \/ BeginSynchronize
       \/ Degrade /\ UNCHANGED unregistered /\ supervisor' = "off"
    /\ UNCHANGED <<socket, jobs>>

Supervise ==
    /\ supervisor = "idle"
    /\ Launch
    /\ BeginSynchronize
    /\ UNCHANGED <<starts, socket, jobs>>

\* register_discovery of a node, and the routes to its endpoints.
RegisterNode(n) ==
    /\ Synchronizing /\ n \in unregistered
    /\ unregistered' = unregistered \ {n}
    /\ registered' = registered \cup {n}
    /\ routed' = routed \cup {n}
    /\ UNCHANGED <<supervisor, starts, fleet, child, inventory, matterHealth, jobs>>

\* A node is refused: the rest is not looked at.
FailSynchronize ==
    /\ Synchronizing /\ unregistered # {}
    /\ unregistered' = {}
    /\ Degrade
    /\ supervisor' = "idle"
    /\ UNCHANGED <<starts, fleet, child, jobs>>

EndSynchronize ==
    /\ Synchronizing /\ unregistered = {}
    /\ matterHealth' = "available"
    /\ supervisor' = "idle"
    /\ UNCHANGED <<starts, fleet, child, unregistered, inventory, registered, routed, jobs>>

\* The daemon is left alone, clients are gone.
ServerDies ==
    /\ supervisor # "down"
    /\ supervisor' = "down"
    /\ child' = 0 /\ unregistered' = {} /\ inventory' = {} /\ routed' = {}
    /\ jobCalls' = [r \in JobRequest |-> [jobCalls[r] EXCEPT !.waiting = FALSE]]
    /\ UNCHANGED <<starts, fleet, registered, matterHealth, jobFile, told, crossed>>

-----------------------------------------------------------------------------
(* The daemon. *)

\* bind_private_socket removes the socket of another daemon.
Bind(g) ==
    /\ g \in binding
    /\ binding' = binding \ {g}
    /\ socket' = g
    /\ UNCHANGED <<supervisor, starts, launched, daemons, child, unregistered, home, jobs>>

\* Its requests die with it.
DaemonDies(g) ==
    /\ g \in daemons
    /\ daemons' = daemons \ {g} /\ binding' = binding \ {g}
    /\ socket' = IF socket = g THEN 0 ELSE socket
    /\ jobCalls' = [r \in JobRequest |->
          IF jobCalls[r].daemon = g /\ ~JobAt(r, "answered")
          THEN [jobCalls[r] EXCEPT !.at = "lost", !.waiting = FALSE] ELSE jobCalls[r]]
    /\ UNCHANGED <<supervisor, starts, launched, child, unregistered, home, jobFile, told, crossed>>

\* A client connects, through the server, to the daemon at the socket.
AskJob(r) ==
    /\ JobAt(r, "new") /\ socket # 0 /\ supervisor \in {"idle", "registering"}
    /\ jobCalls' = [jobCalls EXCEPT ![r].at = "sent", ![r].daemon = socket, ![r].waiting = TRUE]
    /\ UNCHANGED <<supervisor, starts, fleet, child, unregistered, home, jobFile, told, crossed>>

Commission(r) ==
    /\ JobAt(r, "sent")
    /\ \E outcome \in Outcomes :
          jobCalls' = [jobCalls EXCEPT ![r].at = "commissioned", ![r].outcome = outcome]
    /\ UNCHANGED <<supervisor, starts, fleet, child, unregistered, home, jobFile, told, crossed>>

\* Mutant: the lock of the job store is not taken.
NeverLocked(g) == FALSE

\* The lock of a FileJobStore is that of one daemon.
Locked(g) == \E r \in JobRequest : JobAt(r, "read") /\ jobCalls[r].daemon = g

ReadJobs(r) ==
    /\ JobAt(r, "commissioned")
    /\ ~Locked(jobCalls[r].daemon)
    /\ jobCalls' = [jobCalls EXCEPT ![r].at = "read", ![r].copy = jobFile]
    /\ UNCHANGED <<supervisor, starts, fleet, child, unregistered, home, jobFile, told, crossed>>

\* The file is replaced, or it cannot be and the client is told so.
WriteJobs(r) ==
    /\ JobAt(r, "read")
    /\ \/ /\ jobFile' = [jobCalls[r].copy EXCEPT ![r] = jobCalls[r].outcome]
          /\ crossed' = (crossed \/ \E s \in JobRequest :
                            JobAt(s, "read") /\ jobCalls[s].daemon # jobCalls[r].daemon)
          /\ JobGoes(r, "saved")
       \/ JobGoes(r, "lost") /\ UNCHANGED <<jobFile, crossed>>
    /\ UNCHANGED <<supervisor, starts, fleet, child, unregistered, home, told>>

\* CommissioningStarted, to a client that may have given up after its timeout.
AnswerJob(r) ==
    /\ JobAt(r, "saved")
    /\ JobGoes(r, "answered")
    /\ told' = IF jobCalls[r].waiting THEN told \cup {r} ELSE told
    /\ UNCHANGED <<supervisor, starts, fleet, child, unregistered, home, jobFile, crossed>>

TimeOut(r) ==
    /\ jobCalls[r].waiting /\ ~JobAt(r, "answered")
    /\ jobCalls' = [jobCalls EXCEPT ![r].waiting = FALSE]
    /\ UNCHANGED <<supervisor, starts, fleet, child, unregistered, home, jobFile, told, crossed>>

SidecarNext ==
    \/ StartMatter \/ Supervise \/ FailSynchronize \/ EndSynchronize \/ ServerDies
    \/ \E n \in Node : RegisterNode(n)
    \/ \E g \in daemons : Bind(g) \/ DaemonDies(g)
    \/ \E r \in JobRequest : \/ AskJob(r) \/ Commission(r) \/ ReadJobs(r) \/ WriteJobs(r)
                             \/ AnswerJob(r) \/ TimeOut(r)

SidecarSpec == SidecarInit /\ [][SidecarNext]_sidecarVars

-----------------------------------------------------------------------------
(* Properties. *)

SidecarTypeOK ==
    /\ supervisor \in {"down", "off", "idle", "starting", "registering"} /\ starts \in 0..MaxStarts
    /\ launched \in 0..MaxDaemons /\ daemons \subseteq 1..launched /\ binding \subseteq daemons
    /\ child \in 0..launched /\ socket \in daemons \cup {0}
    /\ unregistered \subseteq inventory /\ inventory \cup registered \subseteq Node
    /\ routed \subseteq registered
    /\ matterHealth \in {"none", "available", "degraded"}
    /\ jobCalls \in [JobRequest -> [at : {"new", "sent", "commissioned", "read", "saved",
                                          "answered", "lost"},
                                    daemon : 0..launched, outcome : JobStatus,
                                    copy : JobFile, waiting : BOOLEAN]]
    /\ jobFile \in JobFile /\ told \subseteq JobRequest /\ crossed \in BOOLEAN

\* What the sidecar has promised holds whoever dies and comes back: a job whose
\* name a client was given is found with the outcome it had, unless an orphaned
\* daemon and its successor rewrote the file at the same time
\* (infrastructure/0004); and while the server supervises an adapter that is
\* available, commands have a route to every node of the last inventory.
SidecarKeepsPromises ==
    /\ ~crossed => \A r \in told : jobFile[r] = jobCalls[r].outcome
    /\ supervisor = "idle" /\ matterHealth = "available" => inventory \subseteq routed
=============================================================================
