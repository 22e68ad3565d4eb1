-------------------------- MODULE RealtimeHubProofs -------------------------
(***************************************************************************)
(* What RealtimeHub guarantees for any clients, profiles, events, routes,  *)
(* channels and capacities, and with a clock that is set forward or not.   *)
(***************************************************************************)
EXTENDS RealtimeHub, TLAPS

USE HubAssumption

-----------------------------------------------------------------------------
(* Types.                                                                  *)

Messages == Seq(Events \cup {Note})

\* What a queue of messages is and what its capacity allows.
Bounded(q) == q \in Messages /\ Len(q) <= SendCap

Queues == [Clients -> Messages]

LEMMA NotFullAppends ==
  ASSUME NEW c \in Clients, Bounded(queue[c]), ~Full(c), NEW m \in Events \cup {Note}
  PROVE  Bounded(Append(queue[c], m))
<1>1. Len(queue[c]) \in Nat /\ SendCap \in Nat /\ Len(queue[c]) < SendCap
  BY DEF Bounded, Messages, Full
<1>2. Append(queue[c], m) \in Messages /\ Len(Append(queue[c], m)) = Len(queue[c]) + 1
  BY DEF Bounded, Messages
<1> QED
  BY <1>1, <1>2 DEF Bounded

LEMMA TailBounded ==
  ASSUME NEW q, Bounded(q), q # <<>>
  PROVE  Bounded(Tail(q))
<1>1. Tail(q) \in Messages /\ Len(Tail(q)) = Len(q) - 1 /\ Len(q) \in Nat
  BY DEF Bounded, Messages
<1> QED
  BY <1>1 DEF Bounded

\* A send of the hub leaves queues that are bounded, and counts within bounds.
LEMMA SendTyped ==
  ASSUME TypeOK, NEW targets, NEW m \in Events \cup {Note}, SendToClients(targets, m)
  PROVE  /\ queue' \in Queues /\ \A c \in Clients : Bounded(queue'[c])
         /\ kicks' \in [Clients -> 0..MaxKicks]
         /\ crash' \in {"none", "hub", "reply"}
<1>1. \A c \in Clients : Bounded(queue[c])
  BY DEF TypeOK, Bounded, Messages
<1>2. CASE targets \cap closed # {}
  BY <1>1, <1>2 DEF SendToClients, TypeOK, Queues, Messages
<1>3. CASE targets \cap closed = {}
  <2>1. ASSUME NEW c \in Clients PROVE Bounded(queue'[c])
    BY <1>1, <1>3, NotFullAppends DEF SendToClients
  <2>2. \A c \in Clients : kicks[c] < MaxKicks => kicks[c] + 1 \in 0..MaxKicks
    BY DEF TypeOK
  <2>3. kicks' \in [Clients -> 0..MaxKicks]
    <3>1. kicks \in [Clients -> 0..MaxKicks]
      BY DEF TypeOK
    <3>2. kicks' = [c \in Clients |->
             IF c \in targets /\ Full(c) /\ kicks[c] < MaxKicks THEN kicks[c] + 1 ELSE kicks[c]]
      BY <1>3 DEF SendToClients
    <3> QED
      BY <2>2, <3>1, <3>2
  <2>4. queue' \in Queues
    BY <1>3, <2>1 DEF SendToClients, Bounded, Queues
  <2> QED
    BY <1>3, <2>1, <2>3, <2>4 DEF SendToClients, TypeOK
<1> QED
  BY <1>2, <1>3

LEMMA OfferTyped ==
  ASSUME TypeOK, NEW c \in Clients, OfferNote(c) \/ UNCHANGED queue
  PROVE  queue' \in Queues /\ \A d \in Clients : Bounded(queue'[d])
<1>1. \A d \in Clients : Bounded(queue[d])
  BY DEF TypeOK, Bounded, Messages
<1>2. ~Full(c) => Bounded(Append(queue[c], Note))
  BY <1>1, NotFullAppends
<1>3. queue \in Queues
  BY DEF TypeOK, Queues, Messages
<1>4. CASE UNCHANGED queue
  BY <1>1, <1>3, <1>4
<1>5. CASE ~Full(c) /\ queue' = [queue EXCEPT ![c] = Append(@, Note)]
  <2>1. ASSUME NEW d \in Clients PROVE Bounded(queue'[d])
    BY <1>1, <1>2, <1>3, <1>5 DEF Queues
  <2> QED
    BY <2>1, <1>3, <1>5 DEF Queues, Bounded
<1> QED
  BY <1>4, <1>5 DEF OfferNote

LEMMA UnregisterTyped ==
  ASSUME TypeOK, NEW c \in Clients, UnregisterClient(c)
  PROVE  /\ clients' \subseteq Clients
         /\ index' \in [Indexes -> SUBSET Clients]
         /\ channels' \in [Channels -> SUBSET Clients]
         /\ subs' = subs /\ closed' \subseteq Clients
         /\ crash' \in {"none", "hub", "reply"}
<1>1. CASE c \notin clients
  BY <1>1 DEF TypeOK, UnregisterClient, tables
<1>2. CASE c \in clients
  <2>1. index' \in [Indexes -> SUBSET Clients]
    BY <1>2 DEF TypeOK, UnregisterClient
  <2>2. channels' \in [Channels -> SUBSET Clients]
    <3>1. \A ch \in Channels : channels[ch] \subseteq Clients
      BY DEF TypeOK
    <3> QED
      BY <1>2, <3>1 DEF UnregisterClient
  <2>3. clients' \subseteq Clients /\ subs' = subs
    BY <1>2 DEF TypeOK, UnregisterClient
  <2>4. closed' \subseteq Clients /\ crash' \in {"none", "hub", "reply"}
    BY <1>2 DEF TypeOK, UnregisterClient
  <2> QED
    BY <2>1, <2>2, <2>3, <2>4
<1> QED
  BY <1>1, <1>2

LEMMA TypePreserved ==
  TypeOK /\ [Next]_vars => TypeOK'
<1> SUFFICES ASSUME TypeOK, [Next]_vars PROVE TypeOK'
  OBVIOUS
<1> USE DEF TypeOK, tables, pumps
<1>q. \A c \in Clients : Bounded(queue[c])
  BY DEF Bounded, Queues, Messages
<1>1. CASE HubBroadcast
  <2>1. Head(pending) \in Events /\ Tail(pending) \in Seq(Events) /\ Len(Tail(pending)) <= BroadcastCap
    BY <1>1 DEF HubBroadcast
  <2>2. /\ queue' \in Queues /\ \A c \in Clients : Bounded(queue'[c])
        /\ kicks' \in [Clients -> 0..MaxKicks]
        /\ crash' \in {"none", "hub", "reply"}
    BY <1>1, <2>1, SendTyped DEF HubBroadcast
  <2> QED
    BY <1>1, <2>1, <2>2 DEF HubBroadcast, Bounded, Queues, Messages
<1>2. CASE HubHeartbeat
  <2>1. /\ queue' \in Queues /\ \A c \in Clients : Bounded(queue'[c])
        /\ kicks' \in [Clients -> 0..MaxKicks]
        /\ crash' \in {"none", "hub", "reply"}
    BY <1>2, SendTyped DEF HubHeartbeat
  <2> QED
    BY <1>2, <2>1 DEF HubHeartbeat, Bounded, Queues, Messages
<1>3. CASE HubCleanup
  BY <1>3 DEF HubCleanup
<1>4. CASE HubShutdown
  BY <1>4 DEF HubShutdown
<1>5. ASSUME NEW c \in Clients, HubReceive(c) \/ HubRegister(c) PROVE TypeOK'
  <2>1. CASE HubReceive(c)
    BY <2>1 DEF HubReceive
  <2>2. CASE HubRegister(c)
    BY <2>2 DEF HubRegister
  <2> QED
    BY <1>5, <2>1, <2>2
<1>6. ASSUME NEW c \in Clients, HubUnregister(c) PROVE TypeOK'
  <2>1. /\ clients' \subseteq Clients
        /\ index' \in [Indexes -> SUBSET Clients]
        /\ channels' \in [Channels -> SUBSET Clients]
        /\ subs' = subs /\ closed' \subseteq Clients
        /\ crash' \in {"none", "hub", "reply"}
    BY <1>6, UnregisterTyped DEF HubUnregister
  <2>2. kicks[c] > 0 => kicks[c] - 1 \in 0..MaxKicks
    OBVIOUS
  <2>3. /\ reader' \in [Clients -> {"new", "registering", "reading", "replying", "leaving", "done"}]
        /\ wire' \subseteq Clients /\ disconnecting' \subseteq Clients
        /\ kicks' \in [Clients -> 0..MaxKicks]
    BY <1>6, <2>2 DEF HubUnregister
  <2> QED
    BY <1>6, <2>1, <2>3 DEF HubUnregister
<1>7. ASSUME NEW c \in Clients, Connect(c) PROVE TypeOK'
  BY <1>7 DEF Connect
<1>8. ASSUME NEW c \in Clients, Welcome(c) PROVE TypeOK'
  <2>1. queue' \in Queues /\ \A d \in Clients : Bounded(queue'[d])
    BY <1>8, OfferTyped DEF Welcome
  <2> QED
    BY <1>8, <2>1 DEF Welcome, Bounded, Queues, Messages
<1>9. ASSUME NEW c \in Clients, ReadMessage(c) PROVE TypeOK'
  <2>1. channels' \in [Channels -> SUBSET Clients] /\ subs' \in [Clients -> SUBSET Channels]
    <3>1. CASE UNCHANGED <<channels, subs>>
      BY <3>1
    <3>2. ASSUME NEW ch \in Channels, Subscribe(c, ch) \/ Unsubscribe(c, ch)
          PROVE channels' \in [Channels -> SUBSET Clients] /\ subs' \in [Clients -> SUBSET Channels]
      <4>1. channels[ch] \cup {c} \subseteq Clients /\ channels[ch] \ {c} \subseteq Clients
        OBVIOUS
      <4>2. subs[c] \cup {ch} \subseteq Channels /\ subs[c] \ {ch} \subseteq Channels
        OBVIOUS
      <4>3. \E X \in SUBSET Clients : channels' = [channels EXCEPT ![ch] = X]
        BY <3>2, <4>1 DEF Subscribe, Unsubscribe
      <4>4. \E X \in SUBSET Channels : subs' = [subs EXCEPT ![c] = X]
        BY <3>2, <4>2 DEF Subscribe, Unsubscribe
      <4> QED
        BY <4>3, <4>4
    <3> QED
      BY <1>9, <3>1, <3>2 DEF ReadMessage
  <2>2. reader' \in [Clients -> {"new", "registering", "reading", "replying", "leaving", "done"}]
    BY <1>9 DEF ReadMessage
  <2>3. stale' \subseteq Clients
    BY <1>9 DEF ReadMessage
  <2> QED
    BY <1>9, <2>1, <2>2, <2>3 DEF ReadMessage
<1>10. ASSUME NEW c \in Clients, Reply(c) PROVE TypeOK'
  <2>1. queue' \in Queues /\ \A d \in Clients : Bounded(queue'[d])
    BY <1>10, OfferTyped DEF Reply
  <2> QED
    BY <1>10, <2>1 DEF Reply, Bounded, Queues, Messages
<1>11. ASSUME NEW c \in Clients, ReadFails(c) PROVE TypeOK'
  BY <1>11 DEF ReadFails
<1>12. ASSUME NEW c \in Clients, WriteMessage(c) PROVE TypeOK'
  <2>1. Bounded(Tail(queue[c]))
    BY <1>12, <1>q, TailBounded DEF WriteMessage
  <2>2. queue' \in Queues /\ \A d \in Clients : Bounded(queue'[d])
    BY <1>12, <1>q, <2>1 DEF WriteMessage, Queues, Messages, Bounded
  <2> QED
    BY <1>12, <2>2 DEF WriteMessage, Bounded, Queues, Messages
<1>13. ASSUME NEW c \in Clients, WriterEnds(c) PROVE TypeOK'
  BY <1>13 DEF WriterEnds
<1>14. ASSUME NEW c \in Clients, GoStale(c) PROVE TypeOK'
  BY <1>14 DEF GoStale
<1>15. ASSUME NEW u, DisconnectUser(u) PROVE TypeOK'
  BY <1>15 DEF DisconnectUser, Indexes
<1>16. ASSUME NEW e \in Events, Publish(e) PROVE TypeOK'
  BY <1>16 DEF Publish
<1>17. CASE UNCHANGED vars
  BY <1>17 DEF vars
<1> QED
  BY <1>1, <1>2, <1>3, <1>4, <1>5, <1>6, <1>7, <1>8, <1>9, <1>10, <1>11, <1>12, <1>13, <1>14,
     <1>15, <1>16, <1>17 DEF Next

LEMMA TypeInit == Init => TypeOK
BY DEF Init, TypeOK, Indexes

\* The tables of the hub hold known connections, and no Send channel, and not the
\* broadcast channel, is ever over its capacity, however slow the clients are.
THEOREM HubTypeCorrect == Spec => []TypeOK
BY TypeInit, TypePreserved, PTL DEF Spec

-----------------------------------------------------------------------------
(* The inductive invariant.  From the moment the hub has received its        *)
(* registration a connection is about to be entered, registered, or its Send *)
(* channel is closed, and only one of these; as long as the hub runs the     *)
(* indexes hold only clients it knows.  After a shutdown they hold clients   *)
(* whose channels are closed, and only the end of the goroutine keeps it     *)
(* from sending to them.                                                     *)

Begun(c) == reader[c] \notin {"new", "registering"}

Tracked ==
  /\ clients \cap closed = {}
  /\ admitting \cap (clients \cup closed) = {}
  /\ \A c \in Clients : ~Begun(c) => c \notin admitting \cup clients \cup closed
  /\ hub = "running" =>
       /\ \A c \in Clients : Begun(c) => c \in admitting \cup clients \cup closed
       /\ \A i \in Indexes : index[i] \subseteq clients

HubInv == TypeOK /\ Tracked /\ HubNeverPanics /\ SubscriptionsMatch /\ EventsStayInScope

\* Whom a broadcast goes to is registered, hence has an open Send channel.
LEMMA TargetsRegistered ==
  ASSUME Tracked, hub = "running", NEW e \in Events
  PROVE  Targets(e) \subseteq clients
BY DEF Tracked, Targets, Indexes

\* What a client may be sent.
Fits(c, m) == m # Note => InScope(c, m)

LEMMA TargetsFit ==
  ASSUME NEW e \in Events, NEW c \in Clients, c \in Targets(e)
  PROVE  Fits(c, e)
<1>1. CASE Route[e].users # {}
  BY <1>1 DEF Targets, Fits, InScope
<1>2. CASE Route[e].users = {}
  <2>1. CASE Route[e].workspace # None /\ Profile[c].workspace = Route[e].workspace
    BY <1>2, <2>1 DEF Fits, InScope
  <2>2. CASE Route[e].workspace = None /\ Profile[c].org = Route[e].org
    BY <1>2, <2>2 DEF Fits, InScope, InOrg
  <2>3. CASE InOrg(c, e) /\ InWorkspace(c, e)
    BY <1>2, <2>3 DEF Fits, InScope, InWorkspace
  <2>4. CASE InOrg(c, e) /\ Route[e].entity # None
    BY <1>2, <2>4 DEF Fits, InScope
  <2> QED
    BY <1>2, <2>1, <2>2, <2>3, <2>4 DEF Targets
<1> QED
  BY <1>1, <1>2

LEMMA UnregisterTracks ==
  ASSUME TypeOK, Tracked, NEW c \in Clients, UnregisterClient(c)
  PROVE  /\ clients' = clients \ {c} /\ subs' = subs /\ crash' = crash
         /\ closed' = IF c \in clients THEN closed \cup {c} ELSE closed
         /\ \A i \in Indexes : index'[i] = IF c \in clients THEN index[i] \ {c} ELSE index[i]
         /\ \A ch \in Channels :
              channels'[ch] = IF c \in clients /\ ch \in subs[c] THEN channels[ch] \ {c} ELSE channels[ch]
<1>1. CASE c \notin clients
  BY <1>1 DEF UnregisterClient, tables
<1>2. CASE c \in clients
  <2>1. c \notin closed
    BY <1>2 DEF Tracked
  <2> QED
    BY <1>2, <2>1 DEF UnregisterClient
<1> QED
  BY <1>1, <1>2

LEMMA TrackedPreserved ==
  ASSUME TypeOK, Tracked, [Next]_vars
  PROVE  Tracked'
<1> USE DEF Tracked, Begun, tables, pumps, TypeOK
<1>1. CASE HubBroadcast
  BY <1>1 DEF HubBroadcast
<1>2. CASE HubHeartbeat
  BY <1>2 DEF HubHeartbeat
<1>3. CASE HubCleanup
  BY <1>3 DEF HubCleanup
<1>4. CASE HubShutdown
  BY <1>4 DEF HubShutdown
<1>5. ASSUME NEW c \in Clients, HubReceive(c) \/ HubRegister(c) PROVE Tracked'
  <2>1. CASE HubReceive(c)
    <3>1. /\ ~Begun(c) /\ admitting = {} /\ admitting' = {c}
          /\ UNCHANGED <<clients, closed, index, hub>>
      BY <2>1 DEF HubReceive, Idle
    <3>2. \A d \in Clients : Begun(d)' <=> Begun(d) \/ d = c
      BY <2>1 DEF HubReceive
    <3> QED
      BY <3>1, <3>2
  <2>2. CASE HubRegister(c)
    <3>1. /\ c \in admitting /\ c \notin clients \cup closed /\ admitting' = admitting \ {c}
          /\ clients' = clients \cup {c} /\ UNCHANGED <<closed, hub, reader>>
      BY <2>2 DEF HubRegister
    <3>2. \A i \in Indexes : index'[i] \subseteq index[i] \cup {c}
      BY <2>2 DEF HubRegister
    <3> QED
      BY <3>1, <3>2
  <2> QED
    BY <1>5, <2>1, <2>2
<1>6. ASSUME NEW c \in Clients, HubUnregister(c) PROVE Tracked'
  <2>1. /\ hub' = hub /\ admitting' = admitting /\ admitting = {}
        /\ \A d \in Clients : Begun(d)' <=> Begun(d)
    BY <1>6 DEF HubUnregister, Idle
  <2>2. /\ clients' = clients \ {c} /\ subs' = subs
        /\ closed' = IF c \in clients THEN closed \cup {c} ELSE closed
        /\ \A i \in Indexes : index'[i] = IF c \in clients THEN index[i] \ {c} ELSE index[i]
    BY <1>6, UnregisterTracks DEF HubUnregister
  <2>3. clients' \cap closed' = {}
    BY <2>2
  <2>4. \A d \in Clients : ~Begun(d)' => d \notin admitting' \cup clients' \cup closed'
    BY <2>1, <2>2
  <2>5. hub' = "running" => \A d \in Clients : Begun(d)' => d \in admitting' \cup clients' \cup closed'
    BY <2>1, <2>2
  <2>6. ASSUME hub' = "running", NEW i \in Indexes PROVE index'[i] \subseteq clients'
    <3>1. index[i] \subseteq clients
      BY <2>1, <2>6
    <3> HIDE DEF Tracked, TypeOK
    <3>2. CASE c \in clients
      BY <2>2, <2>6, <3>1, <3>2
    <3>3. CASE c \notin clients
      BY <2>2, <2>6, <3>1, <3>3
    <3> QED
      BY <3>2, <3>3
  <2>7. admitting' \cap (clients' \cup closed') = {}
    BY <2>1
  <2> HIDE DEF TypeOK, Begun
  <2> QED
    BY <2>3, <2>4, <2>5, <2>6, <2>7
<1>7. ASSUME NEW c \in Clients, Connect(c) PROVE Tracked'
  BY <1>7 DEF Connect
<1>8. ASSUME NEW c \in Clients, Welcome(c) PROVE Tracked'
  BY <1>8 DEF Welcome
<1>9. ASSUME NEW c \in Clients, ReadMessage(c) PROVE Tracked'
  <2>1. Begun(c) /\ UNCHANGED <<admitting, clients, closed, hub, index>>
    BY <1>9 DEF ReadMessage
  <2>2. \A d \in Clients : Begun(d)' <=> Begun(d)
    BY <1>9 DEF ReadMessage
  <2> QED
    BY <2>1, <2>2
<1>10. ASSUME NEW c \in Clients, Reply(c) PROVE Tracked'
  BY <1>10 DEF Reply
<1>11. ASSUME NEW c \in Clients, ReadFails(c) PROVE Tracked'
  BY <1>11 DEF ReadFails
<1>12. ASSUME NEW c \in Clients, WriteMessage(c) PROVE Tracked'
  BY <1>12 DEF WriteMessage
<1>13. ASSUME NEW c \in Clients, WriterEnds(c) PROVE Tracked'
  BY <1>13 DEF WriterEnds
<1>14. ASSUME NEW c \in Clients, GoStale(c) PROVE Tracked'
  BY <1>14 DEF GoStale
<1>15. ASSUME NEW u, DisconnectUser(u) PROVE Tracked'
  BY <1>15 DEF DisconnectUser
<1>16. ASSUME NEW e \in Events, Publish(e) PROVE Tracked'
  BY <1>16 DEF Publish
<1>17. CASE UNCHANGED vars
  BY <1>17 DEF vars
<1> QED
  BY <1>1, <1>2, <1>3, <1>4, <1>5, <1>6, <1>7, <1>8, <1>9, <1>10, <1>11, <1>12, <1>13, <1>14,
     <1>15, <1>16, <1>17 DEF Next

\* A send of the hub reaches open channels only.
LEMMA SendNeverPanics ==
  ASSUME Tracked, NEW targets \in SUBSET clients, NEW m, SendToClients(targets, m)
  PROVE  /\ crash' = crash
         /\ queue' = [c \in Clients |->
              IF c \in targets /\ ~Full(c) THEN Append(queue[c], m) ELSE queue[c]]
BY DEF Tracked, SendToClients

LEMMA NoPanicPreserved ==
  ASSUME TypeOK, Tracked, HubNeverPanics, [Next]_vars
  PROVE  HubNeverPanics'
<1> USE DEF HubNeverPanics
<1>1. CASE HubBroadcast
  <2>1. Head(pending) \in Events
    BY <1>1 DEF HubBroadcast, TypeOK
  <2> QED
    BY <1>1, <2>1, TargetsRegistered, SendNeverPanics DEF HubBroadcast, Idle, Running
<1>2. CASE HubHeartbeat
  BY <1>2, SendNeverPanics DEF HubHeartbeat
<1>3. ASSUME NEW c \in Clients, HubUnregister(c) PROVE HubNeverPanics'
  BY <1>3, UnregisterTracks DEF HubUnregister
<1>4. ASSUME NEW c \in Clients, Reply(c) PROVE HubNeverPanics'
  BY <1>4 DEF Reply
<1>5. CASE UNCHANGED crash
  BY <1>5
<1> QED
  BY <1>1, <1>2, <1>3, <1>4, <1>5
  DEF Next, vars, HubCleanup, HubShutdown, HubReceive, HubRegister, Connect, Welcome, ReadMessage,
      ReadFails, WriteMessage, WriterEnds, GoStale, DisconnectUser, Publish

\* What SubscriptionsMatch says of one client.
In(c, ch) == c \in channels[ch]

Matches(c) ==
  \A ch \in Channels :
    IF c \in closed
      THEN In(c, ch) => reader[c] = "replying" /\ \A x \in Channels \ {ch} : ~In(c, x)
      ELSE In(c, ch) <=> ch \in subs[c]

LEMMA MatchPreserved ==
  ASSUME TypeOK, Tracked, SubscriptionsMatch, [Next]_vars
  PROVE  SubscriptionsMatch'
<1> SUFFICES ASSUME Running', NEW d \in Clients PROVE Matches(d)'
  BY TypePreserved DEF SubscriptionsMatch, Matches, In, TypeOK
<1>r. Running
  BY DEF Running, Idle, Alive, Next, vars, HubBroadcast, HubHeartbeat, HubCleanup, HubShutdown, HubReceive,
         HubRegister, HubUnregister, Connect, Welcome, ReadMessage, Reply, ReadFails, WriteMessage,
         WriterEnds, GoStale, DisconnectUser, Publish
<1>m. Matches(d)
  BY <1>r DEF SubscriptionsMatch, Matches, In, TypeOK
<1> USE <1>r, <1>m DEF Matches, In, tables, pumps
<1>1. CASE UNCHANGED <<channels, subs, closed, reader>>
  BY <1>1
<1>2. ASSUME NEW c \in Clients, HubReceive(c) \/ Connect(c) PROVE Matches(d)'
  <2>1. UNCHANGED <<channels, subs, closed>> /\ (d # c => reader'[d] = reader[d]) /\ c \notin closed
    BY <1>2 DEF HubReceive, Connect, TypeOK, Tracked, Begun
  <2> QED
    BY <2>1
<1>3. ASSUME NEW c \in Clients, HubUnregister(c) PROVE Matches(d)'
  <2>1. reader[d] = "replying" => reader'[d] = "replying"
    BY <1>3 DEF HubUnregister, TypeOK
  <2>2. /\ subs' = subs
        /\ closed' = IF c \in clients THEN closed \cup {c} ELSE closed
        /\ \A ch \in Channels :
             channels'[ch] = IF c \in clients /\ ch \in subs[c] THEN channels[ch] \ {c} ELSE channels[ch]
    BY <1>3, UnregisterTracks DEF HubUnregister
  <2>3. c \in clients => c \notin closed
    BY DEF Tracked
  <2>4. CASE d = c /\ c \in clients
    BY <2>2, <2>3, <2>4
  <2>5. CASE d # c \/ c \notin clients
    <3>1. \A ch \in Channels : In(d, ch)' <=> In(d, ch)
      BY <2>2, <2>5
    <3>2. (d \in closed' <=> d \in closed) /\ subs' = subs
      BY <2>2, <2>5
    <3> QED
      BY <2>1, <3>1, <3>2
  <2> QED
    BY <2>4, <2>5
<1>5. ASSUME NEW c \in Clients, ReadMessage(c) PROVE Matches(d)'
  <2>1. /\ closed' = closed /\ reader'[d] = IF d = c THEN "replying" ELSE reader[d]
        /\ reader[c] = "reading"
    BY <1>5 DEF ReadMessage, TypeOK
  <2>2. \/ UNCHANGED <<channels, subs>>
        \/ \E ch \in Channels : Subscribe(c, ch) \/ Unsubscribe(c, ch)
    BY <1>5 DEF ReadMessage
  <2>3. CASE UNCHANGED <<channels, subs>>
    BY <2>1, <2>3
  <2>4. ASSUME NEW ch \in Channels, Subscribe(c, ch) \/ Unsubscribe(c, ch) PROVE Matches(d)'
    <3>1. \A x \in Channels : d # c \/ x # ch => (d \in channels'[x] <=> d \in channels[x])
                                          /\ (x \in subs'[d] <=> x \in subs[d])
      BY <2>4 DEF Subscribe, Unsubscribe, TypeOK
    <3>2. c \in channels'[ch] <=> ch \in subs'[c]
      BY <2>4 DEF Subscribe, Unsubscribe, TypeOK
    <3>3. CASE d \notin closed
      BY <2>1, <3>1, <3>2, <3>3
    <3>4. CASE d \in closed /\ d # c
      BY <2>1, <3>1, <3>4
    <3>5. CASE d \in closed /\ d = c
      <4>1. \A x \in Channels : In(d, x) => reader[d] = "replying"
        BY <3>5
      <4>2. \A x \in Channels : ~In(d, x)
        BY <2>1, <3>5, <4>1
      <4>3. \A x \in Channels \ {ch} : ~In(d, x)'
        BY <3>1, <4>2
      <4>4. d \in closed' /\ reader'[d] = "replying"
        BY <2>1, <3>5
      <4> QED
        BY <4>3, <4>4
    <3> QED
      BY <3>3, <3>4, <3>5
  <2> QED
    BY <2>2, <2>3, <2>4
<1>6. ASSUME NEW c \in Clients, Reply(c) PROVE Matches(d)'
  <2>1. UNCHANGED <<channels, subs, closed>> /\ reader'[d] = IF d = c THEN "reading" ELSE reader[d]
    BY <1>6 DEF Reply, TypeOK
  <2>2. c \notin closed
    BY <1>6 DEF Reply, Running, Alive
  <2> QED
    BY <2>1, <2>2
<1>7. ASSUME NEW c \in Clients, ReadFails(c) PROVE Matches(d)'
  <2>1. /\ UNCHANGED <<channels, subs, closed>> /\ reader[c] = "reading"
        /\ reader'[d] = IF d = c THEN "leaving" ELSE reader[d]
    BY <1>7 DEF ReadFails, TypeOK
  <2> QED
    BY <2>1
<1>8. CASE HubShutdown
  BY <1>8 DEF HubShutdown, Running
<1> QED
  BY <1>1, <1>2, <1>3, <1>5, <1>6, <1>7, <1>8
  DEF Next, vars, HubBroadcast, HubHeartbeat, HubCleanup, HubRegister, Welcome, WriteMessage, WriterEnds,
      GoStale, DisconnectUser, Publish

\* A queue of c that holds only what may be sent to c.
Proper(c, q) == \A i \in DOMAIN q : Fits(c, q[i])

LEMMA AppendProper ==
  ASSUME NEW c, NEW q \in Messages, Proper(c, q), NEW m \in Events \cup {Note}, Fits(c, m)
  PROVE  Proper(c, Append(q, m))
<1>1. ASSUME NEW i \in DOMAIN Append(q, m) PROVE Fits(c, Append(q, m)[i])
  <2>1. CASE i = Len(q) + 1
    BY <2>1 DEF Messages
  <2>2. CASE i \in DOMAIN q
    BY <2>2 DEF Messages, Proper
  <2> QED
    BY <1>1, <2>1, <2>2 DEF Messages
<1> QED
  BY <1>1 DEF Proper

LEMMA TailProper ==
  ASSUME NEW c, NEW q \in Messages, Proper(c, q), q # <<>>
  PROVE  Proper(c, Tail(q))
<1>1. ASSUME NEW i \in DOMAIN Tail(q) PROVE Fits(c, Tail(q)[i])
  <2>1. i + 1 \in DOMAIN q /\ Tail(q)[i] = q[i + 1]
    BY <1>1 DEF Messages
  <2> QED
    BY <2>1 DEF Proper
<1> QED
  BY <1>1 DEF Proper

LEMMA ScopePreserved ==
  ASSUME TypeOK, Tracked, EventsStayInScope, [Next]_vars
  PROVE  EventsStayInScope'
<1>1. \A c \in Clients : queue[c] \in Messages /\ Proper(c, queue[c])
  BY DEF TypeOK, Messages, EventsStayInScope, Proper, Fits
<1> SUFFICES ASSUME NEW d \in Clients PROVE Proper(d, queue'[d])
  BY DEF EventsStayInScope, Proper, Fits, InScope, InOrg
<1>n. \A c : Fits(c, Note)
  BY DEF Fits
<1>2. ASSUME NEW targets \in SUBSET clients, NEW m \in Events \cup {Note}, SendToClients(targets, m),
             \A c \in targets : Fits(c, m)
      PROVE Proper(d, queue'[d])
  <2>1. queue'[d] = IF d \in targets /\ ~Full(d) THEN Append(queue[d], m) ELSE queue[d]
    BY <1>2, SendNeverPanics
  <2> QED
    BY <1>1, <1>2, <2>1, AppendProper
<1>3. CASE HubBroadcast
  <2>1. Head(pending) \in Events
    BY <1>3 DEF HubBroadcast, TypeOK
  <2>2. Targets(Head(pending)) \subseteq clients
    BY <1>3, <2>1, TargetsRegistered DEF HubBroadcast, Idle, Running
  <2>3. \A c \in Targets(Head(pending)) : Fits(c, Head(pending))
    BY <2>1, <2>2, TargetsFit DEF TypeOK
  <2> QED
    BY <1>3, <2>1, <2>2, <2>3, <1>2 DEF HubBroadcast
<1>4. CASE HubHeartbeat
  BY <1>4, <1>n, <1>2 DEF HubHeartbeat
<1>5. ASSUME NEW c \in Clients, OfferNote(c) PROVE Proper(d, queue'[d])
  <2>1. queue'[d] = queue[d] \/ (d = c /\ queue'[d] = Append(queue[d], Note))
    BY <1>5 DEF OfferNote, TypeOK
  <2>2. Proper(d, Append(queue[d], Note))
    BY <1>1, <1>n, AppendProper
  <2> QED
    BY <1>1, <2>1, <2>2
<1>6. ASSUME NEW c \in Clients, WriteMessage(c) PROVE Proper(d, queue'[d])
  <2>1. queue'[d] = IF d = c THEN Tail(queue[d]) ELSE queue[d]
    BY <1>6 DEF WriteMessage, TypeOK
  <2>2. queue[c] # <<>>
    BY <1>6 DEF WriteMessage
  <2> QED
    BY <1>1, <2>1, <2>2, TailProper
<1>7. CASE UNCHANGED queue
  BY <1>1, <1>7
<1> QED
  BY <1>3, <1>4, <1>5, <1>6, <1>7
  DEF Next, vars, HubCleanup, HubShutdown, HubReceive, HubRegister, HubUnregister, Connect, Welcome, ReadMessage,
      Reply, ReadFails, WriterEnds, GoStale, DisconnectUser, Publish

LEMMA HubInvInductive == HubInv /\ [Next]_vars => HubInv'
BY TypePreserved, TrackedPreserved, NoPanicPreserved, MatchPreserved, ScopePreserved DEF HubInv

LEMMA HubInvInit == Init => HubInv
<1> SUFFICES ASSUME Init PROVE HubInv
  OBVIOUS
<1>1. TypeOK
  BY TypeInit
<1>2. Tracked
  BY DEF Init, Tracked, Begun, Indexes
<1>3. HubNeverPanics /\ SubscriptionsMatch /\ EventsStayInScope
  BY DEF Init, HubNeverPanics, SubscriptionsMatch, EventsStayInScope
<1> QED
  BY <1>1, <1>2, <1>3 DEF HubInv

LEMMA HubInvariant == Spec => []HubInv
BY HubInvInit, HubInvInductive, PTL DEF Spec

-----------------------------------------------------------------------------
(* The theorems.                                                           *)

\* However clients come and go, and whoever unregisters them in whatever order, the
\* hub goroutine never closes a Send channel twice and never sends on a closed one.
THEOREM HubGoroutineNeverPanics == Spec => []HubNeverPanics
<1>1. HubInv => HubNeverPanics
  BY DEF HubInv
<1> QED
  BY <1>1, HubInvariant, PTL

\* While the hub runs, both records of a subscription agree for every connection that
\* has not been unregistered, registered yet or not; one that has been is in no channel,
\* or in one, by a Subscribe that came later and whose answer ends the process.
THEOREM SubscriptionsAlwaysMatch == Spec => []SubscriptionsMatch
<1>1. HubInv => SubscriptionsMatch
  BY DEF HubInv
<1> QED
  BY <1>1, HubInvariant, PTL

\* Whatever is published, whoever subscribes to what, and whatever connections say of
\* themselves: an event reaches the users it names, or those who say they are of its
\* workspace, or subscribers who say they are of its organization.
THEOREM ScopesHold == Spec => []EventsStayInScope
<1>1. HubInv => EventsStayInScope
  BY DEF HubInv
<1> QED
  BY <1>1, HubInvariant, PTL
=============================================================================
