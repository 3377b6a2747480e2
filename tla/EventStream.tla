----------------------------- MODULE EventStream -----------------------------
(***************************************************************************)
(* How a client follows the journal: the WebSocket session of              *)
(* robine-api-http (subscribe, three reads of the store, replay, then the  *)
(* broadcast channel through a bounded queue), the pages of GET /events,   *)
(* the retention that deletes the oldest events meanwhile, and the cursor  *)
(* the application keeps.                                                  *)
(*                                                                         *)
(* Abstractions.  An event is its sequence number; Wanted holds those of a *)
(* topic the client subscribed to.  The ages of events rise with their     *)
(* sequence, so retention deletes a prefix.  The socket hands over one     *)
(* event at a time.  Reading every resource again makes the client know    *)
(* all that was committed.  Who may subscribe is not modelled.             *)
(* MaxEvents and MaxDrops bound the model.                                 *)
(***************************************************************************)
EXTENDS Naturals, Sequences, SequencesExt

CONSTANTS
    Publisher,      \* threads that change the store and publish its events
    Wanted,         \* events of the topics subscribed to
    Transports,     \* how the client may follow: "stream", "page"
    Capacity,       \* of the broadcast channel, 512 in the code
    Queue,          \* events waiting for one socket, 128 in the code
    Window,         \* events one replay may hold, 500 in the code
    Page,           \* events of one page, at most 500 in the code
    Faults,         \* which reads may fail: "latest", "earliest", "replay"
    MaxEvents,      \* bound: events ever committed
    MaxDrops        \* bound: connections lost and deaths of the server

ASSUME ConstantsAssumption ==
    /\ {Capacity, Queue, Window, Page} \subseteq Nat \ {0}
    /\ Transports \subseteq {"stream", "page"}
    /\ Faults \subseteq {"latest", "earliest", "replay"}
    /\ Wanted \subseteq Nat \ {0}
    /\ {MaxEvents, MaxDrops} \subseteq Nat

VARIABLES
    latest,         \* durable: sequence of the last event committed
    floor,          \* durable: events up to here are deleted
    pending,        \* events a thread has committed and not yet published
    buffer,         \* events the session's receiver has yet to take
    lagged,         \* the channel overwrote an event before it was taken
    transport,      \* how this client follows the journal
    pc,             \* where the session or the page request is
    after,          \* the cursor the client asked with
    top,            \* what the request read first: the last event, or for a
                    \* page the first one left
    base,           \* the session's cursor: its last replayed event
    unsent,         \* events of the replay the session has yet to send
    queue,          \* outbound_receiver: events waiting for the socket
    overflow,       \* the producer task gave up and said so
    wire,           \* events in the socket
    cursor,         \* the client's cursor
    known,          \* events whose effect the client shows
    drops,
    sent,           \* history: events handed to this socket, in order
    overtaken,      \* history: events sent by the channel after a later one
    skipped         \* history: events a replay or page should have held

journal == <<latest, floor>>
channel == <<pending, buffer, lagged>>
session == <<after, top, base, unsent, queue, overflow, wire, sent>>
client == <<transport, cursor, known>>
history == <<overtaken, skipped>>
vars == <<latest, floor, pending, buffer, lagged, transport, pc, after, top, base,
          unsent, queue, overflow, wire, cursor, known, drops, sent, overtaken, skipped>>

-----------------------------------------------------------------------------

Event == 1..MaxEvents

Following == {"replaying", "live"}
Listening == {"subscribed", "checked", "ready"} \cup Following
Place == {"off", "told"} \cup Listening \cup {"page latest", "page read"}

\* The cursor has been compared with the window, the events are not yet read.
Checked == {"ready", "page latest", "page read"}

\* MIN(sequence) and MAX(sequence) of the rows that are left, 0 for no row.
Earliest == IF floor < latest THEN floor + 1 ELSE 0
Latest == IF floor < latest THEN latest ELSE 0

\* Mutant: a cursor below the window is served what is left.
NeverOutside(a, earliest) == FALSE

\* cursor_is_outside_retention; no earliest event is 0 here.
OutsideRetention(a, earliest) == a # 0 /\ earliest # 0 /\ a + 1 < earliest

\* events_after(a, n): the first n events left above a.
EventsAfter(a, n) ==
    LET from == IF a > floor THEN a ELSE floor
        to == IF latest < from + n THEN latest ELSE from + n
    IN  [i \in 1..(IF to > from THEN to - from ELSE 0) |-> from + i]

\* Events above a that a read no longer finds.
Gone(a) == {e \in Event : a < e /\ e <= floor}

LastOr(s, default) == IF s = <<>> THEN default ELSE Last(s)

IsWanted(e) == e \in Wanted

Overtakes(e) ==
    {f \in Event : f < e /\ \E p \in Publisher : f \in ToSet(pending[p])}

Init ==
    /\ latest = 0 /\ floor = 0
    /\ pending = [p \in Publisher |-> <<>>] /\ buffer = <<>> /\ lagged = FALSE
    /\ transport \in Transports
    /\ pc = "off" /\ after = 0 /\ top = 0 /\ base = 0
    /\ unsent = <<>> /\ queue = <<>> /\ overflow = FALSE /\ wire = <<>> /\ sent = <<>>
    /\ cursor = 0 /\ known = {}
    /\ drops = 0 /\ overtaken = {} /\ skipped = {}

-----------------------------------------------------------------------------
(* The threads that change the store, and retention. *)

Commit(p) ==
    /\ pending[p] = <<>>
    /\ latest < MaxEvents
    /\ latest' = latest + 1
    /\ pending' = [pending EXCEPT ![p] = <<latest + 1>>]
    /\ UNCHANGED <<floor, buffer, lagged, pc, session, client, drops, history>>

\* A full channel forgets its oldest event; without a receiver nothing stays.
Publish(p) ==
    /\ pending[p] # <<>>
    /\ pending' = [pending EXCEPT ![p] = Tail(@)]
    /\ \/ /\ pc \notin Listening
          /\ UNCHANGED <<buffer, lagged, overtaken>>
       \/ /\ pc \in Listening
          /\ overtaken' = overtaken \cup Overtakes(Head(pending[p]))
          /\ buffer' = Append(IF Len(buffer) < Capacity THEN buffer ELSE Tail(buffer),
                              Head(pending[p]))
          /\ lagged' = (lagged \/ Len(buffer) = Capacity)
    /\ UNCHANGED <<journal, pc, session, client, drops, skipped>>

\* prune_retained_data deletes the oldest events once they are 30 days old.
Prune ==
    /\ floor < latest
    /\ floor' = floor + 1
    /\ skipped' = IF pc \in Checked /\ after < floor + 1 THEN skipped \cup {floor + 1} ELSE skipped
    /\ UNCHANGED <<latest, channel, pc, session, client, drops, overtaken>>

-----------------------------------------------------------------------------
(* The WebSocket session. *)

\* The session or the request ends; what waited for the socket is gone with it.
End(place) ==
    /\ pc' = place
    /\ after' = 0 /\ top' = 0 /\ base' = 0 /\ unsent' = <<>> /\ sent' = <<>>
    /\ buffer' = <<>> /\ lagged' = FALSE /\ queue' = <<>> /\ overflow' = FALSE

\* The client subscribes; the receiver exists before the store is read.
Subscribe ==
    /\ transport = "stream" /\ pc = "off"
    /\ pc' = "subscribed"
    /\ after' = cursor
    /\ UNCHANGED <<journal, channel, top, base, unsent, queue, overflow, wire, sent, client, drops, history>>

\* latest_event_sequence; a failed read counts as an empty journal.
ReadLatest ==
    /\ pc = "subscribed"
    /\ pc' = "checked"
    /\ \/ top' = Latest
       \/ "latest" \in Faults /\ top' = 0
    /\ UNCHANGED <<journal, channel, after, base, unsent, queue, overflow, wire, sent, client, drops, history>>

\* earliest_event_sequence, whose failure passes for no event at all, and the
\* check of the cursor against both reads.  Where no event is left the check
\* cannot tell what is missing, and cursor 0 asks for whatever is left.
CheckCursor ==
    /\ pc = "checked"
    /\ \E earliest \in {Earliest} \cup (IF "earliest" \in Faults THEN {0} ELSE {}) :
         IF after > top \/ OutsideRetention(after, earliest)
         THEN /\ End("told")
              /\ UNCHANGED skipped
         ELSE /\ pc' = "ready"
              /\ skipped' = IF after # 0 /\ earliest # 0 THEN skipped ELSE skipped \cup Gone(after)
              /\ top' = 0
              /\ UNCHANGED <<buffer, lagged, after, base, unsent, sent, queue, overflow>>
    /\ UNCHANGED <<journal, pending, wire, client, drops, overtaken>>

\* events_after(after, 501).  More than a window is refused; a failed read is
\* an empty replay.  Retention may have deleted what the check saw.
Replay ==
    /\ pc = "ready"
    /\ \E read \in {EventsAfter(after, Window + 1)} \cup
                   (IF "replay" \in Faults THEN {<<>>} ELSE {}) :
         IF Len(read) > Window
         THEN /\ End("told")
              /\ UNCHANGED skipped
         ELSE /\ pc' = "replaying"
              /\ base' = LastOr(read, after)
              /\ unsent' = read
              /\ skipped' = IF read # <<>> THEN skipped
                            ELSE skipped \cup ToSet(EventsAfter(after, MaxEvents))
              /\ UNCHANGED <<buffer, lagged, after, top, queue, overflow, sent>>
    /\ UNCHANGED <<journal, pending, wire, client, drops, overtaken>>

\* The session sends the wanted events of the replay, then starts the producer.
SendReplayed ==
    /\ pc = "replaying" /\ wire = <<>>
    /\ \/ /\ unsent = <<>>
          /\ pc' = "live"
          /\ UNCHANGED <<unsent, wire, sent>>
       \/ /\ unsent # <<>>
          /\ unsent' = Tail(unsent)
          /\ IF IsWanted(Head(unsent))
             THEN wire' = <<Head(unsent)>> /\ sent' = Append(sent, Head(unsent))
             ELSE UNCHANGED <<wire, sent>>
          /\ UNCHANGED pc
    /\ UNCHANGED <<journal, channel, after, top, base, queue, overflow, client, drops, history>>

\* Mutants: the seam between the replay and the channel.
AboveAfter(e) == e > after
AboveNextOfBase(e) == e > base + 1

\* The live events the replay did not hold.
AboveBase(e) == e > base

\* Mutant: off by one.
HasRoomForOneMore == Len(queue) <= Queue

\* try_send finds room.
HasRoom == Len(queue) < Queue

\* Mutant: an event that finds the queue full is dropped.
GiveUpNever == UNCHANGED overflow

\* The producer tells the session that it cannot follow, and ends.
GiveUp == overflow' = TRUE

\* The producer task takes one event of the channel.  It filters, queues, and
\* gives up when the queue is full or the channel has forgotten an event.
Produce ==
    /\ pc = "live" /\ ~overflow
    /\ \/ /\ lagged
          /\ lagged' = FALSE
          /\ GiveUp
          /\ UNCHANGED <<buffer, queue>>
       \/ /\ ~lagged /\ buffer # <<>>
          /\ buffer' = Tail(buffer)
          /\ UNCHANGED lagged
          /\ IF ~(AboveBase(Head(buffer)) /\ IsWanted(Head(buffer)))
             THEN UNCHANGED <<queue, overflow>>
             ELSE IF HasRoom
                  THEN queue' = Append(queue, Head(buffer)) /\ UNCHANGED overflow
                  ELSE GiveUp /\ UNCHANGED queue
    /\ UNCHANGED <<journal, pending, pc, after, top, base, unsent, wire, sent, client, drops, history>>

\* The session sends the next queued event once the socket has room.
Send ==
    /\ pc = "live" /\ wire = <<>> /\ queue # <<>>
    /\ wire' = <<Head(queue)>>
    /\ sent' = Append(sent, Head(queue))
    /\ queue' = Tail(queue)
    /\ UNCHANGED <<journal, channel, pc, after, top, base, unsent, overflow, client, drops, history>>

\* The other branch of the same select: resync_required, then the close.
SendResync ==
    /\ pc = "live" /\ wire = <<>> /\ overflow
    /\ End("told")
    /\ UNCHANGED <<journal, pending, wire, client, drops, history>>

-----------------------------------------------------------------------------
(* GET /events?after=cursor&limit=Page. *)

PageEarliest ==
    /\ transport = "page" /\ pc = "off"
    /\ pc' = "page latest"
    /\ after' = cursor
    /\ top' = Earliest
    /\ skipped' = IF cursor # 0 /\ Earliest # 0 THEN skipped ELSE skipped \cup Gone(cursor)
    /\ UNCHANGED <<journal, channel, base, unsent, queue, overflow, wire, sent, client, drops, overtaken>>

\* 409 resync_required, or go on to read the page.
PageLatest ==
    /\ pc = "page latest"
    /\ IF after > Latest \/ OutsideRetention(after, top)
       THEN End("told")
       ELSE pc' = "page read" /\ top' = 0 /\ UNCHANGED <<buffer, lagged, after, base, unsent, sent, queue, overflow>>
    /\ UNCHANGED <<journal, pending, wire, client, drops, history>>

PageRead ==
    /\ pc = "page read"
    /\ LET read == EventsAfter(after, Page)
       IN  /\ known' = known \cup ToSet(read)
           /\ cursor' = LastOr(read, after)
    /\ End("off")
    /\ UNCHANGED <<journal, pending, wire, transport, drops, history>>

-----------------------------------------------------------------------------
(* The client. *)

\* It applies an event, keeps its id as the cursor, and acknowledges.
Apply ==
    /\ wire # <<>>
    /\ wire' = Tail(wire)
    /\ known' = known \cup {Head(wire)}
    /\ cursor' = Head(wire)
    /\ UNCHANGED <<journal, channel, transport, pc, after, top, base, unsent, queue, overflow, sent, drops, history>>

\* After resync_required it reads every resource.  The application then asks
\* from 0; a reader of pages goes on from the end of the journal (tail=1).
Resync ==
    /\ pc = "told" /\ wire = <<>>
    /\ pc' = "off"
    /\ known' = 1..latest
    /\ cursor' = IF transport = "stream" THEN 0 ELSE Latest
    /\ UNCHANGED <<journal, channel, session, transport, drops, history>>

\* The connection is lost; with the server, what it had not published is lost.
Drop ==
    /\ pc # "off"
    /\ drops < MaxDrops
    /\ drops' = drops + 1
    /\ End("off")
    /\ wire' = <<>>
    /\ \/ UNCHANGED pending
       \/ pending' = [p \in Publisher |-> <<>>]
    /\ UNCHANGED <<journal, client, history>>

Next ==
    \/ \E p \in Publisher : Commit(p) \/ Publish(p)
    \/ Prune
    \/ Subscribe \/ ReadLatest \/ CheckCursor \/ Replay \/ SendReplayed
    \/ Produce \/ Send \/ SendResync
    \/ PageEarliest \/ PageLatest \/ PageRead
    \/ Apply \/ Resync \/ Drop

Spec == Init /\ [][Next]_vars

\* Every thread, task and client goes on as long as it can.  Nothing forces a
\* commit, a deletion or a lost connection.
FairSpec ==
    /\ Spec
    /\ \A p \in Publisher : WF_vars(Publish(p))
    /\ WF_vars(Subscribe) /\ WF_vars(ReadLatest) /\ WF_vars(CheckCursor) /\ WF_vars(Replay)
    /\ WF_vars(SendReplayed)
    /\ WF_vars(Produce) /\ WF_vars(Send) /\ WF_vars(SendResync)
    /\ WF_vars(PageEarliest) /\ WF_vars(PageLatest) /\ WF_vars(PageRead)
    /\ WF_vars(Apply) /\ WF_vars(Resync)

-----------------------------------------------------------------------------
(* Properties. *)

TypeOK ==
    /\ floor \in 0..latest /\ latest \in 0..MaxEvents
    /\ pending \in [Publisher -> Seq(Event)]
    /\ buffer \in Seq(Event) /\ Len(buffer) <= Capacity /\ lagged \in BOOLEAN
    /\ transport \in Transports /\ pc \in Place
    /\ {after, top, base, cursor} \subseteq 0..MaxEvents
    /\ unsent \in Seq(Event) /\ queue \in Seq(Event) /\ Len(queue) <= Queue /\ overflow \in BOOLEAN
    /\ wire \in Seq(Event) /\ sent \in Seq(Event)
    /\ known \subseteq Event /\ overtaken \subseteq Event /\ skipped \subseteq Event
    /\ drops \in 0..MaxDrops

Waiting(e) == e \in ToSet(unsent) \/ e \in ToSet(queue) \/ e \in ToSet(buffer)
              \/ \E p \in Publisher : e \in ToSet(pending[p])

\* api/0001: the server replays what follows the cursor and then joins the
\* live stream without a hole.  A session that has not given up owes its client
\* no event: each one was sent, or still waits in the replay, in the queue, in
\* the channel or with the thread that committed it.
SessionOwesNothing ==
    pc \in Following /\ ~lagged /\ ~overflow =>
        \A e \in Wanted : after < e /\ e <= latest => e \in ToSet(sent) \cup skipped \/ Waiting(e)

\* One connection hands over each event once, above the cursor it was asked
\* for, and in the order of the journal unless the channel had overtaken it.
OnceAndInOrder ==
    \A i \in 1..Len(sent) :
        /\ after < sent[i]
        /\ \A j \in 1..(i - 1) : sent[j] # sent[i] /\ (sent[j] < sent[i] \/ sent[i] \in overtaken)

\* A client never keeps a cursor past an event it does not know of, however its
\* connections broke, the channel overflowed and retention worked, but for
\* events the channel sent late and those a read lost without a word.
MissesNothing == \A e \in Wanted : e <= cursor => e \in known \cup overtaken \cup skipped

CaughtUp == \A e \in Wanted : e <= latest => e \in known \cup overtaken \cup skipped

\* Lost connections, overflows and refusals do not keep a client behind for
\* ever, as long as the journal does not outgrow one replay.
CatchesUp == []<>CaughtUp \/ <>[](latest - floor > Window)

-----------------------------------------------------------------------------
(* What the documentation says and the code does not keep. *)

\* api/0001: after resync_required the client reads its resources, saves the
\* new cursor and connects again.
ResyncLeadsToStream == pc = "told" ~> pc = "live"
=============================================================================
