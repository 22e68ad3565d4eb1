----------------------------- MODULE RealtimeHub ----------------------------
(***************************************************************************)
(* The realtime service: the Hub goroutine (hub/hub.go), the read and      *)
(* write pumps of every WebSocket connection (handler/websocket.go), the   *)
(* admin call that disconnects a user (handler/api.go) and the Redis       *)
(* listener that feeds the hub (subscription/manager.go).                  *)
(*                                                                         *)
(* The hub's select loop takes one request at a time, under h.mu.  The     *)
(* pumps run beside it and touch the hub through Subscribe and Unsubscribe *)
(* (under h.mu too), through client.Send, and by blocking on the           *)
(* unbuffered register and unregister channels.  One action is one turn of *)
(* a loop, cut where a goroutine releases h.mu or blocks.  A registration  *)
(* is two: its sender goes on once the hub has received it, before the hub *)
(* has taken h.mu to enter the client in its tables.                       *)
(*                                                                         *)
(* Left out: payloads, metrics, and what a message says beyond its         *)
(* routing.                                                                *)
(***************************************************************************)
EXTENDS Naturals, Sequences, FiniteSets

CONSTANTS
  Clients,       \* connections, each with an id of its own
  Profile,       \* [Clients -> [user, org, workspace]]
  Events,        \* events that may be published
  Route,         \* [Events -> [users, org, workspace, channel, entity]]
  Channels,      \* names a client can subscribe to
  Note,          \* a message that is not an event: welcome, reply, heartbeat
  None,          \* the empty string
  SendCap,       \* capacity of client.Send (256)
  BroadcastCap,  \* capacity of h.broadcast (256)
  MaxKicks,      \* bound on the goroutines that unregister one slow client
  ClockSteps     \* whether the wall clock may be set forward

\* Nothing is assumed of profiles: user, organization and workspace are what the
\* connection's request says, each for itself.
ASSUME HubAssumption ==
  /\ Note \notin Events
  /\ {SendCap, BroadcastCap, MaxKicks} \subseteq Nat \ {0}

VARIABLES
  hub,           \* the hub goroutine: running, stuck for good, or stopped
  admitting,     \* the client it has received from h.register, if any
  clients,       \* h.clients
  index,         \* which clients h.userClients, orgClients, workspaceClients hold
  channels,      \* h.channels
  subs,          \* client.Subscriptions
  queue,         \* the messages in client.Send
  closed,        \* the clients whose Send channel is closed
  reader,        \* where each readPump is
  writer,        \* where each writePump is
  wire,          \* the connections that are open
  welcoming,     \* the clients still to be sent their welcome
  stale,         \* the clients whose LastPing is two minutes old
  pending,       \* h.broadcast
  kicks,         \* goroutines that wait to unregister a slow client
  disconnecting, \* what is left of the list of DisconnectUser
  crash          \* which goroutine, if any, has panicked and ended the process

tables == <<clients, index, channels, subs>>
pumps  == <<reader, writer, wire, welcoming>>
vars   == <<hub, admitting, tables, queue, closed, pumps, stale, pending, kicks, disconnecting, crash>>

Indexes == {"user", "org", "workspace"}

Init ==
  /\ hub = "running"
  /\ admitting = {}
  /\ clients = {}
  /\ index = [i \in Indexes |-> {}]
  /\ channels = [ch \in Channels |-> {}]
  /\ subs = [c \in Clients |-> {}]
  /\ queue = [c \in Clients |-> <<>>]
  /\ closed = {}
  /\ reader = [c \in Clients |-> "new"]
  /\ writer = [c \in Clients |-> "new"]
  /\ wire = {}
  /\ welcoming = {}
  /\ stale = {}
  /\ pending = <<>>
  /\ kicks = [c \in Clients |-> 0]
  /\ disconnecting = {}
  /\ crash = "none"

Alive   == crash = "none"
Running == Alive /\ hub = "running"
\* The hub is in its select.
Idle    == Running /\ admitting = {}

-----------------------------------------------------------------------------
(* Sending.                                                                *)

\* Mutant of Full: one message too many fits.
FullTooLate(c) == Len(queue[c]) > SendCap

Full(c) == Len(queue[c]) >= SendCap

\* The hub's non-blocking send of m to each client of the set: a client whose
\* buffer is full gets a goroutine that unregisters it, and a send on a closed
\* channel panics.
SendToClients(targets, m) ==
  IF targets \cap closed # {}
    THEN crash' = "hub" /\ UNCHANGED <<queue, kicks>>
    ELSE /\ queue' = [c \in Clients |->
              IF c \in targets /\ ~Full(c) THEN Append(queue[c], m) ELSE queue[c]]
         /\ kicks' = [c \in Clients |->
              IF c \in targets /\ Full(c) /\ kicks[c] < MaxKicks THEN kicks[c] + 1 ELSE kicks[c]]
         /\ UNCHANGED crash

-----------------------------------------------------------------------------
(* The hub goroutine.                                                      *)

\* The indexes a client belongs in: user always, the others if it has a value.
IndexedIn(c) == {i \in Indexes : i = "user" \/ Profile[c][i] # None}

\* The hub receives from h.register; Register returns and the pumps start.
HubReceive(c) ==
  /\ Idle
  /\ reader[c] = "registering"
  /\ admitting' = {c}
  /\ reader' = [reader EXCEPT ![c] = "reading"]
  /\ writer' = [writer EXCEPT ![c] = "writing"]
  /\ welcoming' = welcoming \cup {c}
  /\ UNCHANGED <<hub, tables, queue, closed, wire, stale, pending, kicks, disconnecting, crash>>

\* registerClient.
HubRegister(c) ==
  /\ Running
  /\ c \in admitting
  /\ admitting' = admitting \ {c}
  /\ clients' = clients \cup {c}
  /\ index' = [i \in Indexes |-> IF i \in IndexedIn(c) THEN index[i] \cup {c} ELSE index[i]]
  /\ UNCHANGED <<hub, channels, subs, queue, closed, pumps, stale, pending, kicks,
                 disconnecting, crash>>

\* Mutant of UnregisterClient: a client that is gone already is not left alone.
UnregisterClientTwice(c) ==
  /\ channels' = [ch \in Channels |-> IF ch \in subs[c] THEN channels[ch] \ {c} ELSE channels[ch]]
  /\ clients' = clients \ {c}
  /\ index' = [i \in Indexes |-> index[i] \ {c}]
  /\ IF c \in closed THEN crash' = "hub" /\ UNCHANGED closed
                     ELSE closed' = closed \cup {c} /\ UNCHANGED crash
  /\ UNCHANGED subs

\* unregisterClient: drop the client everywhere and close its Send channel.
UnregisterClient(c) ==
  IF c \notin clients
    THEN UNCHANGED <<tables, closed, crash>>
    ELSE /\ channels' = [ch \in Channels |->
              IF ch \in subs[c] THEN channels[ch] \ {c} ELSE channels[ch]]
         /\ clients' = clients \ {c}
         /\ index' = [i \in Indexes |-> index[i] \ {c}]
         /\ IF c \in closed THEN crash' = "hub" /\ UNCHANGED closed
                            ELSE closed' = closed \cup {c} /\ UNCHANGED crash
         /\ UNCHANGED subs

\* The hub receives from h.unregister, and takes the client out; what others do in
\* between they might as well have done before the receipt.  The sender is the
\* client's read pump, which then closes the connection and ends, a goroutine of
\* sendToClient, or DisconnectUser.
HubUnregister(c) ==
  /\ Idle
  /\ \/ /\ reader[c] = "leaving"
        /\ reader' = [reader EXCEPT ![c] = "done"]
        /\ wire' = wire \ {c}
        /\ UNCHANGED <<kicks, disconnecting>>
     \/ /\ kicks[c] > 0
        /\ kicks' = [kicks EXCEPT ![c] = @ - 1]
        /\ UNCHANGED <<reader, wire, disconnecting>>
     \/ /\ c \in disconnecting
        /\ disconnecting' = disconnecting \ {c}
        /\ UNCHANGED <<reader, wire, kicks>>
  /\ UnregisterClient(c)
  /\ UNCHANGED <<hub, admitting, queue, writer, welcoming, stale, pending>>

\* Mutant of Targets: subscribers to the type are not filtered by scope.
TargetsUnscoped(e) ==
  IF Route[e].users # {}
    THEN {c \in index["user"] : Profile[c].user \in Route[e].users}
    ELSE {c \in index["workspace"] : Profile[c].workspace = Route[e].workspace}
           \cup (channels[Route[e].channel] \cap clients)

InOrg(c, e)       == Route[e].org \in {None, Profile[c].org}
InWorkspace(c, e) == Route[e].workspace \in {None, Profile[c].workspace}

\* findTargetClients.
Targets(e) ==
  IF Route[e].users # {}
    THEN {c \in index["user"] : Profile[c].user \in Route[e].users}
    ELSE (IF Route[e].workspace # None
            THEN {c \in index["workspace"] : Profile[c].workspace = Route[e].workspace}
            ELSE {c \in index["org"] : Profile[c].org = Route[e].org})
         \cup {c \in channels[Route[e].channel] \cap clients : InOrg(c, e) /\ InWorkspace(c, e)}
         \cup (IF Route[e].entity # None
                 THEN {c \in channels[Route[e].entity] \cap clients : InOrg(c, e)}
                 ELSE {})

HubBroadcast ==
  /\ Idle
  /\ pending # <<>>
  /\ SendToClients(Targets(Head(pending)), Head(pending))
  /\ pending' = Tail(pending)
  /\ UNCHANGED <<hub, admitting, tables, closed, pumps, stale, disconnecting>>

HubHeartbeat ==
  /\ Idle
  /\ SendToClients(clients, Note)
  /\ UNCHANGED <<hub, admitting, tables, closed, pumps, stale, pending, disconnecting>>

\* cleanupStaleConnections calls Unregister, which sends on h.unregister from
\* the only goroutine that receives from it.
HubCleanup ==
  /\ Idle
  /\ stale \cap clients # {}
  /\ hub' = "stuck"
  /\ UNCHANGED <<admitting, tables, queue, closed, pumps, stale, pending, kicks, disconnecting,
                 crash>>

\* The context is cancelled.  The indexes and h.channels are left as they are.
HubShutdown ==
  /\ Idle
  /\ hub' = "stopped"
  /\ closed' = closed \cup clients
  /\ clients' = {}
  /\ UNCHANGED <<admitting, index, channels, subs, queue, pumps, stale, pending, kicks,
                 disconnecting, crash>>

-----------------------------------------------------------------------------
(* Connections.                                                            *)

\* ServeWS upgrades the request and blocks in Register.
Connect(c) ==
  /\ Alive
  /\ reader[c] = "new"
  /\ reader' = [reader EXCEPT ![c] = "registering"]
  /\ wire' = wire \cup {c}
  /\ UNCHANGED <<hub, admitting, tables, queue, closed, writer, welcoming, stale, pending, kicks,
                 disconnecting, crash>>

\* A send that drops the message when the buffer is full.
OfferNote(c) == queue' = IF Full(c) THEN queue ELSE [queue EXCEPT ![c] = Append(@, Note)]

\* sendWelcome runs in the request's goroutine, where a panic is recovered.
Welcome(c) ==
  /\ Alive
  /\ c \in welcoming
  /\ welcoming' = welcoming \ {c}
  /\ IF c \in closed THEN UNCHANGED queue ELSE OfferNote(c)
  /\ UNCHANGED <<hub, admitting, tables, closed, reader, writer, wire, stale, pending, kicks,
                 disconnecting, crash>>

\* Mutant of Subscribe: the client does not record its subscription.
SubscribeHubOnly(c, ch) ==
  /\ channels' = [channels EXCEPT ![ch] = @ \cup {c}]
  /\ UNCHANGED subs

Subscribe(c, ch) ==
  /\ channels' = [channels EXCEPT ![ch] = @ \cup {c}]
  /\ subs' = [subs EXCEPT ![c] = @ \cup {ch}]

Unsubscribe(c, ch) ==
  /\ channels' = [channels EXCEPT ![ch] = @ \ {c}]
  /\ subs' = [subs EXCEPT ![c] = @ \ {ch}]

\* readPump hands a message to handleMessage, which changes what it asks for
\* and goes on to answer.  A ping, and any message not understood, changes no
\* table.
ReadMessage(c) ==
  /\ Alive
  /\ reader[c] = "reading"
  /\ c \in wire
  /\ reader' = [reader EXCEPT ![c] = "replying"]
  /\ \/ \E ch \in Channels : (Subscribe(c, ch) \/ Unsubscribe(c, ch)) /\ UNCHANGED stale
     \/ stale' = stale \ {c} /\ UNCHANGED <<channels, subs>>
  /\ UNCHANGED <<hub, admitting, clients, index, queue, closed, writer, wire, welcoming,
                 pending, kicks,
                 disconnecting, crash>>

\* sendResponse: nothing has kept the hub from closing Send meanwhile, and
\* nothing recovers a panic of this goroutine.
Reply(c) ==
  /\ Alive
  /\ reader[c] = "replying"
  /\ reader' = [reader EXCEPT ![c] = "reading"]
  /\ IF c \in closed THEN crash' = "reply" /\ UNCHANGED queue
                     ELSE OfferNote(c) /\ UNCHANGED crash
  /\ UNCHANGED <<hub, admitting, tables, closed, writer, wire, welcoming, stale, pending,
                 kicks, disconnecting>>

\* Mutant of ReadFails: the deferred Unregister is missing.
ReadFailsSilently(c) ==
  /\ Alive
  /\ reader[c] = "reading"
  /\ reader' = [reader EXCEPT ![c] = "done"]
  /\ wire' = wire \ {c}
  /\ UNCHANGED <<hub, admitting, tables, queue, closed, writer, welcoming, stale, pending, kicks,
                 disconnecting, crash>>

\* The peer leaves, the read deadline passes or the connection is closed: the
\* read pump ends its loop and blocks in Unregister.
ReadFails(c) ==
  /\ Alive
  /\ reader[c] = "reading"
  /\ reader' = [reader EXCEPT ![c] = "leaving"]
  /\ UNCHANGED <<hub, admitting, tables, queue, closed, writer, wire, welcoming, stale,
                 pending, kicks,
                 disconnecting, crash>>

\* writePump writes the next message.
WriteMessage(c) ==
  /\ Alive
  /\ writer[c] = "writing"
  /\ queue[c] # <<>>
  /\ queue' = [queue EXCEPT ![c] = Tail(@)]
  /\ UNCHANGED <<hub, admitting, tables, closed, pumps, stale, pending, kicks, disconnecting,
                 crash>>

\* A write or a ping fails, which may happen at any time, or Send is closed and
\* drained: writePump closes the connection and ends.
WriterEnds(c) ==
  /\ Alive
  /\ writer[c] = "writing"
  /\ writer' = [writer EXCEPT ![c] = "done"]
  /\ wire' = wire \ {c}
  /\ UNCHANGED <<hub, admitting, tables, queue, closed, reader, welcoming, stale, pending, kicks,
                 disconnecting, crash>>

-----------------------------------------------------------------------------
(* Everything else.                                                        *)

\* LastPing falls two minutes behind while the client is still registered.  A
\* read pump that gets no pong fails after one minute, on the monotonic clock;
\* but LastPing is a wall-clock time, so the client is stale at once when the
\* clock is set forward.
GoStale(c) ==
  /\ Alive
  /\ ClockSteps
  /\ c \in clients \ stale
  /\ stale' = stale \cup {c}
  /\ UNCHANGED <<hub, admitting, tables, queue, closed, pumps, pending, kicks, disconnecting,
                 crash>>

\* The manager's listener, or PublishEvent without Redis, calls Broadcast: it
\* blocks while the channel is full.
Publish(e) ==
  /\ Alive
  /\ Len(pending) < BroadcastCap
  /\ pending' = Append(pending, e)
  /\ UNCHANGED <<hub, admitting, tables, queue, closed, pumps, stale, kicks, disconnecting,
                 crash>>

\* DisconnectUser takes the list of a user's clients and unregisters them one
\* after the other.
DisconnectUser(u) ==
  LET found == {c \in index["user"] : Profile[c].user = u} IN
  /\ Alive
  /\ disconnecting = {}
  /\ found # {}
  /\ disconnecting' = found
  /\ UNCHANGED <<hub, admitting, tables, queue, closed, pumps, stale, pending, kicks, crash>>

-----------------------------------------------------------------------------
Next ==
  \/ HubBroadcast \/ HubHeartbeat \/ HubCleanup \/ HubShutdown
  \/ \E c \in Clients :
       \/ HubReceive(c) \/ HubRegister(c) \/ HubUnregister(c)
       \/ Connect(c) \/ Welcome(c) \/ ReadMessage(c) \/ Reply(c) \/ ReadFails(c)
       \/ WriteMessage(c) \/ WriterEnds(c) \/ GoStale(c)
       \/ DisconnectUser(Profile[c].user)
  \/ \E e \in Events : Publish(e)

Spec == Init /\ [][Next]_vars

\* Go runs every goroutine; the select of Run picks among the cases that are
\* ready at random, so none of them is passed over for ever; what it has received
\* it carries out; reading from a connection that is closed fails; the cleanup
\* ticker ticks.
FairSpec ==
  /\ Spec
  /\ WF_vars(HubCleanup)
  /\ \A c \in Clients :
       /\ WF_vars(HubRegister(c)) /\ WF_vars(HubUnregister(c))
       /\ WF_vars(Reply(c))
       /\ WF_vars(c \notin wire /\ ReadFails(c))

-----------------------------------------------------------------------------
(* Properties.                                                             *)

\* The tables hold connections, and no Send channel holds more than it can.
TypeOK ==
  /\ hub \in {"running", "stuck", "stopped"}
  /\ admitting \subseteq Clients /\ clients \subseteq Clients
  /\ index \in [Indexes -> SUBSET Clients]
  /\ channels \in [Channels -> SUBSET Clients]
  /\ subs \in [Clients -> SUBSET Channels]
  /\ queue \in [Clients -> Seq(Events \cup {Note})]
  /\ \A c \in Clients : Len(queue[c]) <= SendCap
  /\ closed \subseteq Clients
  /\ reader \in [Clients -> {"new", "registering", "reading", "replying", "leaving", "done"}]
  /\ writer \in [Clients -> {"new", "writing", "done"}]
  /\ {wire, welcoming, stale, disconnecting} \subseteq SUBSET Clients
  /\ pending \in Seq(Events) /\ Len(pending) <= BroadcastCap
  /\ kicks \in [Clients -> 0..MaxKicks]
  /\ crash \in {"none", "hub", "reply"}

\* A client can be unregistered by its read pump, by goroutines of slow sends
\* and by an administrator, in any order: the hub never closes a Send channel
\* twice and never sends on one that is closed.
HubNeverPanics == crash # "hub"

\* While the hub runs, a subscription is on record on both sides, also of a client
\* that subscribes before it is registered, and unregistering takes a client out of
\* every channel.  A Subscribe that comes after it (hub.go:293) leaves the client in
\* one channel; it cannot leave it in another, as the answer to the first, which is
\* still to be sent, ends the process.
SubscriptionsMatch ==
  Running =>
    /\ \A c \in Clients \ closed, ch \in Channels : c \in channels[ch] <=> ch \in subs[c]
    /\ \A c \in closed, ch \in Channels :
         c \in channels[ch] =>
           reader[c] = "replying" /\ \A x \in Channels \ {ch} : c \notin channels[x]

\* An event for users reaches none but them.  Any other reaches those who say that they
\* are of its workspace, whatever organization they name; beyond them it reaches clients
\* of its own organization, and those only if it names an entity or no workspace.
InScope(c, e) ==
  IF Route[e].users # {}
    THEN Profile[c].user \in Route[e].users
    ELSE \/ Route[e].workspace # None /\ Profile[c].workspace = Route[e].workspace
         \/ InOrg(c, e) /\ (Route[e].workspace = None \/ Route[e].entity # None)

EventsStayInScope ==
  \A c \in Clients : \A i \in DOMAIN queue[c] : queue[c][i] # Note => InScope(c, queue[c][i])

\* A registered client whose connection is closed, or that a slow send gave up
\* on, is unregistered, unless the hub or the process has ended.
ConnectionsEnd ==
  \A c \in Clients :
    c \in clients /\ (c \notin wire \/ kicks[c] > 0) ~> c \notin clients \/ ~Running
=============================================================================
