------------------------------ MODULE MqttIngest ------------------------------
(***************************************************************************)
(* The MQTT adapter between a broker and the registry: it subscribes to    *)
(* the announcements of devices, registers what they announce, subscribes  *)
(* to the topics of their components and stores the states that arrive.    *)
(* The thread of the connection hands messages over through a bounded      *)
(* queue, without waiting for room; another thread takes them one by one.  *)
(*                                                                         *)
(* Abstractions.  The broker and rumqttc are external: the broker retains  *)
(* announcements and states and sends them to each new subscription; the   *)
(* client gets a clean session on every connection and never subscribes    *)
(* again by itself.  An entity keeps its topic, which others may share.    *)
(* The values one payload holds are one reading.  Native and imported Home *)
(* Assistant announcements differ in the payloads they accept only.        *)
(* MaxPublications and MaxBreaks bound the model.                          *)
(***************************************************************************)
EXTENDS Registry, Sequences, SequencesExt

CONSTANTS
    MqttAdapter,
    Topic,              \* of states
    StateTopic,         \* the topic of each entity
    Readable,            \* payloads the profile of an entity understands
    QueueLimit,         \* of the inbound queue, 512 in the code
    MaxPublications,    \* bound: messages published by devices
    MaxBreaks           \* bound: connections lost and deaths of the process

ASSUME MqttAssumption ==
    /\ MqttAdapter \in Adapter
    /\ IsFiniteSet(Device) /\ IsFiniteSet(Entity)
    /\ StateTopic \in [Entity -> Topic]
    /\ "discovery" \notin Topic
    /\ "nothing" \notin Entity \cup Readable /\ "unreadable" \notin Readable
    /\ QueueLimit \in Nat \ {0}
    /\ {MaxPublications, MaxBreaks} \subseteq Nat

VARIABLES
    configs,            \* broker: the announcement retained for each device
    said,               \* broker: the payload retained on each topic
    subscriptions,      \* broker: of the present session
    asked,              \* subscriptions asked for and not yet granted
    queue,              \* messages the ingest thread has yet to take
    stateRoutes,        \* components_by_state_topic
    announced,          \* an announcement is stored, its health report is not
    reported,           \* durable: the state of each entity
    lost,               \* history: this process may have missed a message
    publications, breaks

brokerVars == <<configs, said, publications>>
mqttVars == <<brokerVars, subscriptions, asked, queue, stateRoutes, announced, reported, lost, breaks>>

-----------------------------------------------------------------------------

Nothing == "nothing"
Unreadable == "unreadable"      \* a template, or no JSON the profile understands
Discovery == "discovery"        \* robine/v1/discovery/+/config and homeassistant/#
Payload == Readable \cup {Unreadable}

NoConfig == [device |-> Nothing, sound |-> FALSE, components |-> <<>>]

\* An announcement lists distinct components; one that breaks a rule of the
\* contract or holds a template is not sound.
Announcement ==
    UNION {[device : {d}, sound : BOOLEAN,
            components : {s \in SetToAllKPermutations({e \in Entity : Owner[e] = d}) : s # <<>>}]
              : d \in {x \in Device : AdapterOf[x] = MqttAdapter}}

Config(c) == [about |-> "config", config |-> c]
State(t, v) == [about |-> "state", topic |-> t, payload |-> v]

MqttInit ==
    /\ configs = [d \in Device |-> NoConfig] /\ said = [t \in Topic |-> Nothing]
    /\ subscriptions = {} /\ asked = {Discovery}
    /\ queue = <<>> /\ stateRoutes = [t \in Topic |-> Nothing] /\ announced = FALSE
    /\ reported = [e \in Entity |-> Nothing]
    /\ lost = FALSE /\ publications = 0 /\ breaks = 0

\* try_send: messages that find the queue full are dropped without a word.
LeastOf(m, n) == IF m < n THEN m ELSE n
Fitting(messages) == SubSeq(messages, 1, LeastOf(Len(messages), QueueLimit - Len(queue)))

Deliver(messages) ==
    /\ queue' = queue \o Fitting(messages)
    /\ lost' = (lost \/ Fitting(messages) # messages)

DeliverTo(topic, message) ==
    IF topic \in subscriptions THEN Deliver(<<message>>) ELSE UNCHANGED <<queue, lost>>

-----------------------------------------------------------------------------
(* The devices and the broker. *)

CountPublication ==
    /\ publications < MaxPublications
    /\ publications' = publications + 1

Announce(c) ==
    /\ CountPublication
    /\ configs' = [configs EXCEPT ![c.device] = c]
    /\ DeliverTo(Discovery, Config(c))
    /\ UNCHANGED <<registryVars, said, subscriptions, asked, stateRoutes, announced, reported, breaks>>

PublishState(t, v) ==
    /\ CountPublication
    /\ said' = [said EXCEPT ![t] = v]
    /\ DeliverTo(t, State(t, v))
    /\ UNCHANGED <<registryVars, configs, subscriptions, asked, stateRoutes, announced, reported, breaks>>

\* Another message below homeassistant/, which the wildcard brings along.
PublishNoise ==
    /\ CountPublication
    /\ DeliverTo(Discovery, State(Discovery, Unreadable))
    /\ UNCHANGED <<registryVars, configs, said, subscriptions, asked, stateRoutes, announced, reported, breaks>>

Retained(x) ==
    IF x = Discovery
    THEN {Config(configs[d]) : d \in {d \in Device : configs[d] # NoConfig}}
    ELSE {State(t, said[t]) : t \in {x} \cap {t \in Topic : said[t] # Nothing}}

\* The broker takes a SUBSCRIBE and sends what it retains for it.
Grant(x) ==
    /\ x \in asked
    /\ asked' = asked \ {x}
    /\ subscriptions' = subscriptions \cup {x}
    /\ \E messages \in SetToSeqs(Retained(x)) : Deliver(messages)
    /\ UNCHANGED <<registryVars, brokerVars, stateRoutes, announced, reported, breaks>>

-----------------------------------------------------------------------------
(* The ingest thread. *)

Take(about) ==
    /\ ~announced /\ queue # <<>> /\ Head(queue).about = about
    /\ queue' = Tail(queue)

\* Mutant: only what the registry does not know yet is subscribed to.
TopicsOfNewDevice(c) ==
    IF Registered(c.device) THEN {} ELSE {StateTopic[e] : e \in ToSet(c.components)}

TopicsOf(c) == {StateTopic[e] : e \in ToSet(c.components)}

\* Components that share a topic take each other's place: the last prevails.
RoutesWith(c) ==
    LET On(t) == {i \in DOMAIN c.components : StateTopic[c.components[i]] = t}
    IN  [t \in Topic |->
            IF On(t) = {} THEN stateRoutes[t]
            ELSE c.components[CHOOSE i \in On(t) : \A j \in On(t) : j <= i]]

\* ingest_discovery.
IngestDiscovery ==
    /\ Take("config")
    /\ LET c == Head(queue).config
       IN  /\ c.sound
           /\ \E name \in GivenName : RegisterDiscovery(c.device, ToSet(c.components), name)
           /\ stateRoutes' = RoutesWith(c)
           /\ asked' = asked \cup TopicsOf(c)
    /\ announced' = TRUE
    /\ UNCHANGED <<brokerVars, subscriptions, reported, lost, breaks>>

\* Its last call, a transaction of its own.
ReportAvailable ==
    /\ announced
    /\ announced' = FALSE
    /\ UpsertAdapterHealth(MqttAdapter, "available")
    /\ UNCHANGED <<brokerVars, subscriptions, asked, queue, stateRoutes, reported, lost, breaks>>

HasRoute(message) == message.topic \in Topic /\ stateRoutes[message.topic] # Nothing
Accepted(message) == HasRoute(message) /\ message.payload \in Readable

IngestState ==
    /\ Take("state")
    /\ Accepted(Head(queue))
    /\ reported' = [reported EXCEPT ![stateRoutes[Head(queue).topic]] = Head(queue).payload]
    /\ UNCHANGED <<registryVars, brokerVars, subscriptions, asked, stateRoutes, announced, lost, breaks>>

\* Whatever is refused degrades the adapter until the next announcement.
Refuse ==
    /\ \/ Take("config") /\ ~Head(queue).config.sound
       \/ Take("state") /\ ~Accepted(Head(queue))
    /\ UpsertAdapterHealth(MqttAdapter, "degraded")
    /\ UNCHANGED <<brokerVars, subscriptions, asked, stateRoutes, announced, reported, lost, breaks>>

-----------------------------------------------------------------------------

CountBreak ==
    /\ breaks < MaxBreaks
    /\ breaks' = breaks + 1

\* The connection is lost and comes back with a session that hears nothing.
Reconnect ==
    /\ CountBreak
    /\ subscriptions' = {}
    /\ lost' = TRUE
    /\ UNCHANGED <<registryVars, brokerVars, asked, queue, stateRoutes, announced, reported>>

\* A new process, under a new client id, knows the registry and no route.
Restart ==
    /\ CountBreak
    /\ subscriptions' = {} /\ asked' = {Discovery}
    /\ queue' = <<>> /\ stateRoutes' = [t \in Topic |-> Nothing] /\ announced' = FALSE
    /\ lost' = FALSE
    /\ UNCHANGED <<registryVars, brokerVars, reported>>

MqttNext ==
    \/ \E c \in Announcement : Announce(c)
    \/ \E t \in Topic, v \in Payload : PublishState(t, v)
    \/ PublishNoise
    \/ \E x \in asked : Grant(x)
    \/ IngestDiscovery \/ ReportAvailable \/ IngestState \/ Refuse
    \/ Reconnect \/ Restart

MqttSpec == RegistryInit /\ MqttInit /\ [][MqttNext]_<<registryVars, mqttVars>>

-----------------------------------------------------------------------------
(* Properties. *)

Message ==
    {Config(c) : c \in Announcement}
    \cup {State(t, v) : t \in Topic \cup {Discovery}, v \in Payload}

MqttTypeOK ==
    /\ configs \in [Device -> Announcement \cup {NoConfig}]
    /\ said \in [Topic -> Payload \cup {Nothing}]
    /\ subscriptions \subseteq Topic \cup {Discovery} /\ asked \subseteq Topic \cup {Discovery}
    /\ ToSet(queue) \subseteq Message /\ Len(queue) <= QueueLimit
    /\ stateRoutes \in [Topic -> Entity \cup {Nothing}]
    /\ reported \in [Entity -> Readable \cup {Nothing}]
    /\ announced \in BOOLEAN /\ lost \in BOOLEAN
    /\ publications \in 0..MaxPublications /\ breaks \in 0..MaxBreaks

\* Nothing is under way between the broker and the store, and this process has
\* missed nothing.
Quiet == ~lost /\ queue = <<>> /\ asked = {}

Alone(e) == \A f \in Entity \ {e} : StateTopic[f] # StateTopic[e]

\* infrastructure/0003: retained messages serve as the initial state, and a
\* device finds its identity again after a restart.  When all is quiet, every
\* soundly announced device is registered, its components have the route of
\* their topic unless they share it, and an entity with a route shows what its
\* topic last said - whatever was announced, published, granted and restarted
\* in whatever order.
QuietMeansCurrent ==
    Quiet =>
        \A d \in Device : configs[d].sound =>
            /\ Registered(d)
            /\ \A e \in ToSet(configs[d].components) :
                  LET t == StateTopic[e]
                  IN  /\ Alone(e) => stateRoutes[t] = e
                      /\ stateRoutes[t] = e /\ said[t] \in Readable => reported[e] = said[t]
=============================================================================
