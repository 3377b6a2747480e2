------------------------------- MODULE MCHome -------------------------------
(***************************************************************************)
(* One TLC run for the components of the home that share no state: a       *)
(* behaviour follows one of them, chosen at the start, so that the state   *)
(* spaces add up instead of multiplying.                                   *)
(***************************************************************************)
EXTENDS McpServer, FlowDefinitions, HueDispatch, HueSupervisor, DevicePages, DatabaseFiles,
        MqttIngest, HuePairing, MatterSidecar, SchemaMigrations, FlowSyntax, MCFlowTrees

CONSTANTS
    confirmer, lister,      \* MCP tokens
    light, lock, toggle,    \* calls of an assistant
    r1, r2,                 \* its requests
    f1,                     \* automations
    s1, s2,                 \* their sources
    w1, w2,                 \* those who write them
    t1, t2, t3,             \* threads that send commands to a bridge
    d1, d2,                 \* devices
    e1, e2, e3,             \* their entities
    adapter,                \* their adapter, the Hue bridge or MQTT as the part needs
    hall, attic,            \* MQTT topics
    a1, a2,                 \* archives
    h1,                     \* bridges to be paired
    p1, p2,                 \* calls of pair
    j1, j2,                 \* calls of start_commissioning
    n1                      \* Matter nodes

VARIABLE part               \* the component this behaviour follows

MCScopes == [t \in {confirmer, lister} |-> {"control", "automation_write"}]
MCPolicy == [t \in {confirmer, lister} |-> IF t = confirmer THEN "confirm_each" ELSE "allow_listed"]
MCListed == [t \in {confirmer, lister} |-> IF t = confirmer THEN {} ELSE {light}]
MCQuota == [t \in {confirmer, lister} |-> IF t = confirmer THEN 0 ELSE 1]
MCTool == [call \in {light, lock, toggle} |-> IF call = toggle THEN "toggle" ELSE "command"]
MCOwner == [e \in {e1, e2, e3} |-> IF e = e3 THEN d2 ELSE d1]
MCAdapterOf == [d \in {d1, d2} |-> adapter]
MCStateTopic == [e \in {e1, e2, e3} |-> IF e = e3 THEN attic ELSE hall]

\* Bound: names and places the user chooses.
MCFewChoices ==
    Cardinality({x \in Device \cup Entity : names[x] # NoName})
    + Cardinality({e \in Entity : places[e] # Undecided}) <= 2

homeVars == <<part, mcpVars, flowVars, hueVars, registryVars, supervisorVars, pageVars, fileVars,
              migrationVars, syntaxVars, validationVars, mqttVars,
              pairingVars, sidecarVars>>

HomeInit ==
    /\ part \in {"assistants", "automations", "dispatcher", "registry", "bridge", "mqtt", "pages", "files",
                 "migrations", "text", "trees", "pairing", "sidecar"}
    /\ McpInit /\ FlowInit /\ HueInit /\ RegistryInit /\ SupervisorInit /\ PagesInit /\ FilesInit
    /\ IF part = "migrations" THEN MigrationsInit
       ELSE /\ changed = {} /\ filled = {} /\ recorded = {} /\ foreign = {}
            /\ opening = Closed /\ opens = 0
    /\ SyntaxInit /\ ValidationInit /\ MqttInit /\ PairingInit /\ SidecarInit

HomeNext ==
    /\ UNCHANGED part
    /\ \/ /\ part = "assistants" /\ McpNext
          /\ UNCHANGED <<flowVars, hueVars, registryVars, supervisorVars, pageVars,
                         fileVars, migrationVars, syntaxVars, validationVars, mqttVars,
                         pairingVars, sidecarVars>>
       \/ /\ part = "automations" /\ FlowNext
          /\ UNCHANGED <<mcpVars, hueVars, registryVars, supervisorVars, pageVars,
                         fileVars, migrationVars, syntaxVars, validationVars, mqttVars,
                         pairingVars, sidecarVars>>
       \/ /\ part = "dispatcher" /\ HueNext
          /\ UNCHANGED <<mcpVars, flowVars, registryVars, supervisorVars, pageVars,
                         fileVars, migrationVars, syntaxVars, validationVars, mqttVars,
                         pairingVars, sidecarVars>>
       \/ /\ part = "registry" /\ RegistryNext
          /\ UNCHANGED <<mcpVars, flowVars, hueVars, supervisorVars, pageVars,
                         fileVars, migrationVars, syntaxVars, validationVars, mqttVars,
                         pairingVars, sidecarVars>>
       \/ /\ part = "bridge" /\ SupervisorNext
          /\ UNCHANGED <<mcpVars, flowVars, hueVars, pageVars, fileVars,
                         migrationVars, syntaxVars, validationVars, mqttVars,
                         pairingVars, sidecarVars>>
       \/ /\ part = "mqtt" /\ MqttNext
          /\ UNCHANGED <<mcpVars, flowVars, hueVars, supervisorVars, pageVars, fileVars,
                         migrationVars, syntaxVars, validationVars,
                         pairingVars, sidecarVars>>
       \/ /\ part = "pages" /\ PagesNext
          /\ UNCHANGED <<mcpVars, flowVars, hueVars, registryVars, supervisorVars,
                         fileVars, migrationVars, syntaxVars, validationVars, mqttVars,
                         pairingVars, sidecarVars>>
       \/ /\ part = "files" /\ FilesNext
          /\ UNCHANGED <<mcpVars, flowVars, hueVars, registryVars, supervisorVars,
                         pageVars, migrationVars, syntaxVars, validationVars, mqttVars,
                         pairingVars, sidecarVars>>
       \/ /\ part = "migrations" /\ MigrationsNext
          /\ UNCHANGED <<mcpVars, flowVars, hueVars, registryVars, supervisorVars,
                         pageVars, fileVars, syntaxVars, validationVars, mqttVars,
                         pairingVars, sidecarVars>>
       \/ /\ part = "text" /\ SyntaxNext
          /\ UNCHANGED <<mcpVars, flowVars, hueVars, registryVars, supervisorVars,
                         pageVars, fileVars, migrationVars, validationVars, mqttVars,
                         pairingVars, sidecarVars>>
       \/ /\ part = "trees" /\ ValidationNext
          /\ UNCHANGED <<mcpVars, flowVars, hueVars, registryVars, supervisorVars,
                         pageVars, fileVars, migrationVars, syntaxVars, mqttVars,
                         pairingVars, sidecarVars>>
       \/ /\ part = "pairing" /\ PairingNext
          /\ UNCHANGED <<mcpVars, flowVars, hueVars, registryVars, supervisorVars, pageVars, fileVars,
                         migrationVars, syntaxVars, validationVars, mqttVars, sidecarVars>>
       \/ /\ part = "sidecar" /\ SidecarNext
          /\ UNCHANGED <<mcpVars, flowVars, hueVars, registryVars, supervisorVars, pageVars, fileVars,
                         migrationVars, syntaxVars, validationVars, mqttVars, pairingVars>>

HomeSpec == HomeInit /\ [][HomeNext]_homeVars

-----------------------------------------------------------------------------

\* The variables of the component a behaviour follows keep their types.
HomeTypeOK ==
    CASE part = "assistants" -> McpTypeOK
      [] part = "automations" -> FlowTypeOK
      [] part = "dispatcher" -> HueTypeOK
      [] part = "registry" -> RegistryTypeOK
      [] part = "bridge" -> RegistryTypeOK /\ SupervisorTypeOK
      [] part = "mqtt" -> RegistryTypeOK /\ MqttTypeOK
      [] part = "pages" -> PagesTypeOK
      [] part = "files" -> FilesTypeOK
      [] part = "migrations" -> MigrationsTypeOK
      [] part = "text" -> SyntaxTypeOK
      [] part = "trees" -> ValidationTypeOK
      [] part = "pairing" -> PairingTypeOK
      [] part = "sidecar" -> SidecarTypeOK
=============================================================================
