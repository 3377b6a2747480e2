------------------------------ MODULE Registry ------------------------------
(***************************************************************************)
(* The devices, entities and areas of the home.  Adapters announce devices *)
(* again and again; the user names them, places their entities in areas    *)
(* and removes devices.  The record of an entity is stored twice, in its   *)
(* own row and in the JSON of its device, and every change appends events  *)
(* from which a client keeps its own picture of the home.                  *)
(*                                                                         *)
(* Abstractions.  A device stands for its adapter and protocol address, an *)
(* entity for its device and address; areas are numbered.  A device and its*)
(* entities are announced under one name, as every adapter does; kinds and *)
(* capabilities, which are always those last announced, are left out.      *)
(* The journal is represented by what its events add up to (known).        *)
(* MaxAreas bounds the model.                                              *)
(***************************************************************************)
EXTENDS Naturals, FiniteSets

CONSTANTS
    Device,         \* (adapter, protocol address) pairs
    Entity,         \* (device, protocol address) pairs
    Adapter,
    Owner,          \* the device of each entity
    AdapterOf,      \* the adapter of each device
    GivenName,      \* names adapters announce
    ChosenName,     \* names users choose
    HealthReport,   \* what adapters report of themselves
    MaxAreas        \* bound: areas ever created

ASSUME RegistryAssumption ==
    /\ Owner \in [Entity -> Device]
    /\ AdapterOf \in [Device -> Adapter]
    /\ HealthReport \subseteq {"available", "degraded"}
    /\ MaxAreas \in Nat
    /\ Device \cap Entity = {}
    /\ "none" \notin GivenName \cup ChosenName

VARIABLES
    devices,        \* durable: the payload of each device
    entities,       \* durable: the payload of each entity
    areas,          \* durable: number of areas
    health,         \* durable: the state of each adapter
    known,          \* history: what a client knows from the events
    names,          \* history: names the user gave
    places          \* history: areas the user chose

registryVars == <<devices, entities, areas, health, known, names, places>>

-----------------------------------------------------------------------------

NoName == "none"
Area == 0..MaxAreas                 \* 0 for no area
Undecided == MaxAreas + 1
Status == {"available", "unavailable", "removed"}
Health == {"unknown", "available", "degraded"}

DisplayName == GivenName \cup ChosenName
EntityRecord == [name : DisplayName, area : Area]
NoEntity == [name |-> NoName, area |-> 0]
NoDevice == [name |-> NoName, status |-> "absent", entities |-> [e \in {} |-> NoEntity]]

Registered(d) == devices[d] # NoDevice
Stored(e) == entities[e] # NoEntity
OfAdapter(a) == {d \in Device : AdapterOf[d] = a /\ Registered(d)}

\* Is the entity in the JSON of its device?  The transactions that change an
\* entity give up otherwise ("device and entity records are inconsistent").
InDevice(e) == Registered(Owner[e]) /\ e \in DOMAIN devices[Owner[e]].entities

RegistryInit ==
    /\ devices = [d \in Device |-> NoDevice]
    /\ entities = [e \in Entity |-> NoEntity]
    /\ areas = 0
    /\ health = [a \in Adapter |-> "unknown"]
    /\ known = [devices |-> devices, areas |-> 0, health |-> health]
    /\ names = [x \in Device \cup Entity |-> NoName]
    /\ places = [e \in Entity |-> Undecided]

\* Mutant: an announcement brings its name along.
AnnouncedRecord(e, name) ==
    [name |-> name, area |-> IF Stored(e) THEN entities[e].area ELSE 0]

\* The row of a known entity prevails over what is announced.
RecordOf(e, name) == IF Stored(e) THEN entities[e] ELSE [name |-> name, area |-> 0]

\* register_discovery: the announced entities are the device's, rows of others
\* remain; a removed device is back.
RegisterDiscovery(d, announced, name) ==
    LET records == [e \in announced |-> RecordOf(e, name)]
        device == [name |-> IF Registered(d) THEN devices[d].name ELSE name,
                   status |-> "available",
                   entities |-> records]
    IN  /\ \A e \in announced : Owner[e] = d
        /\ devices' = [devices EXCEPT ![d] = device]
        /\ entities' = [e \in Entity |-> IF e \in announced THEN records[e] ELSE entities[e]]
        /\ known' = [known EXCEPT !.devices[d] = device]
        /\ UNCHANGED <<areas, health, names, places>>

Marked(a, status) ==
    [d \in Device |-> IF d \in OfAdapter(a) /\ devices[d].status # "removed"
                         THEN [devices[d] EXCEPT !.status = status] ELSE devices[d]]

\* set_adapter_devices_status: an event for each device whose status changes.
SetAdapterDevicesStatus(a, status) ==
    /\ status # "removed"
    /\ devices' = Marked(a, status)
    /\ known' = [known EXCEPT !.devices =
          [d \in Device |-> IF devices'[d] # devices[d] THEN devices'[d] ELSE known.devices[d]]]
    /\ UNCHANGED <<entities, areas, health, names, places>>

UpsertAdapterHealth(a, status) ==
    /\ health' = [health EXCEPT ![a] = status]
    /\ known' = [known EXCEPT !.health[a] = status]
    /\ UNCHANGED <<devices, entities, areas, names, places>>

\* rename_device and remove_device, of any device that was ever registered.
RenameDevice(d, name) ==
    /\ Registered(d)
    /\ devices' = [devices EXCEPT ![d].name = name]
    /\ known' = [known EXCEPT !.devices[d] = devices'[d]]
    /\ names' = [names EXCEPT ![d] = name]
    /\ UNCHANGED <<entities, areas, health, places>>

RemoveDevice(d) ==
    /\ Registered(d)
    /\ devices' = [devices EXCEPT ![d].status = "removed"]
    /\ known' = [known EXCEPT !.devices[d] = devices'[d]]
    /\ UNCHANGED <<entities, areas, health, names, places>>

\* rename_entity publishes the whole device.
RenameEntity(e, name) ==
    /\ InDevice(e)
    /\ entities' = [entities EXCEPT ![e].name = name]
    /\ devices' = [devices EXCEPT ![Owner[e]].entities[e] = entities'[e]]
    /\ known' = [known EXCEPT !.devices[Owner[e]] = devices'[Owner[e]]]
    /\ names' = [names EXCEPT ![e] = name]
    /\ UNCHANGED <<areas, health, places>>

CreateArea ==
    /\ areas < MaxAreas
    /\ areas' = areas + 1
    /\ known' = [known EXCEPT !.areas = areas + 1]
    /\ UNCHANGED <<devices, entities, health, names, places>>

\* The entities of S move to area a, in their rows and in their devices; the
\* events carry the entities only.
MoveTo(S, a) ==
    LET moved(e) == [entities[e] EXCEPT !.area = a]
        with(device, d) ==
            [device EXCEPT !.entities =
                [e \in DOMAIN device.entities |->
                    IF e \in S /\ Owner[e] = d THEN moved(e) ELSE device.entities[e]]]
    IN  /\ entities' = [e \in Entity |-> IF e \in S THEN moved(e) ELSE entities[e]]
        /\ devices' = [d \in Device |-> with(devices[d], d)]
        /\ known' = [known EXCEPT !.devices = [d \in Device |-> with(known.devices[d], d)],
                                  !.areas = areas']
        /\ places' = [e \in Entity |-> IF e \in S THEN a ELSE places[e]]
        /\ UNCHANGED <<health, names>>

AssignEntityArea(e, a) ==
    /\ InDevice(e)
    /\ a <= areas
    /\ areas' = areas
    /\ MoveTo({e}, a)

\* create_area_with_entities: all or nothing.  That the entities belong to different
\* devices is no check of it: its one caller imports a Hue room, which holds lights,
\* each the one entity of its device.
CreateAreaWithEntities(S) ==
    /\ S # {}
    /\ \A e \in S : InDevice(e)
    /\ \A e1, e2 \in S : Owner[e1] = Owner[e2] => e1 = e2
    /\ areas < MaxAreas
    /\ areas' = areas + 1
    /\ MoveTo(S, areas + 1)

RegistryNext ==
    \/ \E d \in Device :
          \/ \E S \in SUBSET {e \in Entity : Owner[e] = d}, name \in GivenName :
                RegisterDiscovery(d, S, name)
          \/ \E name \in ChosenName : RenameDevice(d, name)
          \/ RemoveDevice(d)
    \/ \E a \in Adapter : \/ \E status \in Status : SetAdapterDevicesStatus(a, status)
                          \/ \E status \in HealthReport : UpsertAdapterHealth(a, status)
    \/ \E e \in Entity : \/ \E name \in ChosenName : RenameEntity(e, name)
                         \/ \E a \in Area : AssignEntityArea(e, a)
    \/ CreateArea
    \/ \E S \in SUBSET Entity : CreateAreaWithEntities(S)

RegistrySpec == RegistryInit /\ [][RegistryNext]_registryVars

-----------------------------------------------------------------------------
(* Properties. *)

DeviceOK(device) ==
    \/ device = NoDevice
    \/ /\ device.name \in DisplayName /\ device.status \in Status
       /\ DOMAIN device.entities \subseteq Entity
       /\ \A e \in DOMAIN device.entities : device.entities[e] \in EntityRecord

RegistryTypeOK ==
    /\ DOMAIN devices = Device /\ \A d \in Device : DeviceOK(devices[d])
    /\ entities \in [Entity -> EntityRecord \cup {NoEntity}]
    /\ areas \in Area
    /\ health \in [Adapter -> Health]
    /\ known.areas \in Area /\ known.health \in [Adapter -> Health]
    /\ DOMAIN known.devices = Device /\ \A d \in Device : DeviceOK(known.devices[d])
    /\ names \in [Device \cup Entity -> DisplayName \cup {NoName}]
    /\ places \in [Entity -> Area \cup {Undecided}]

\* The two copies of an entity agree, and only the entities of a device are in it.
CopiesAgree ==
    \A d \in Device : \A e \in DOMAIN devices[d].entities :
        Owner[e] = d /\ Stored(e) /\ devices[d].entities[e] = entities[e]

\* core/0001: names and areas the user chose belong to the user.
ChoicesSurvive ==
    /\ \A d \in Device : names[d] # NoName => devices[d].name = names[d]
    /\ \A e \in Entity : /\ names[e] # NoName => entities[e].name = names[e]
                         /\ places[e] # Undecided => entities[e].area = places[e]

\* Whatever is announced again, renamed, placed, removed or marked, in whatever
\* order: a client that has applied every event knows the home as the store
\* holds it, both records of an entity say the same, and the choices of the
\* user are still there.
JournalExplainsRegistry ==
    /\ known = [devices |-> devices, areas |-> areas, health |-> health]
    /\ CopiesAgree
    /\ ChoicesSurvive
=============================================================================
