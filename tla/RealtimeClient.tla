---------------------------- MODULE RealtimeClient ---------------------------
(***************************************************************************)
(* useRealtime (apps/key/src/hooks/useRealtime.ts): the WebSocket that one *)
(* component keeps to the realtime service while it is mounted and a user  *)
(* is signed in, with its reconnection timers and its subscriptions.       *)
(*                                                                         *)
(* The handlers run to completion one at a time, but the close event of a  *)
(* socket comes some time after close() was called on it, and a timer some *)
(* time after it was set: by then the hook may have another socket, user   *)
(* or component.  The handlers of a socket and its timer keep the user of  *)
(* the render that created them.                                           *)
(***************************************************************************)
EXTENDS Naturals, FiniteSets

CONSTANTS
  Sockets,               \* bound on the sockets and timers that exist at once
  Users,                 \* values the store gives as its user
  Channels,              \* channels a component subscribes to
  None,                  \* no user, no socket
  maxReconnectAttempts,
  MaxChanges             \* bound on what the component and its user do

ASSUME RealtimeAssumption ==
  /\ None \notin Users \cup Sockets
  /\ maxReconnectAttempts \in Nat /\ MaxChanges \in Nat

VARIABLES
  mounted,      \* whether the component is
  user,         \* the user of the store, None when nobody is signed in
  off,          \* the component has called disconnect, and not connect since
  socket,       \* readyState of each socket
  as,           \* the user that a socket's handlers have captured
  told,         \* the channels the service holds for the socket, once it has read all it was sent
  wsRef,
  timers,       \* the sockets whose close event has set a timer that has not fired
  timeoutRef,   \* reconnectTimeoutRef: the timer set last
  attempts,     \* reconnectAttempts
  isConnected,
  wanted,       \* subscriptions
  changes

hook == <<mounted, user, off, changes>>
vars == <<hook, socket, as, told, wsRef, timers, timeoutRef, attempts, isConnected, wanted>>

TypeOK ==
  /\ mounted \in BOOLEAN /\ off \in BOOLEAN /\ isConnected \in BOOLEAN
  /\ user \in Users \cup {None}
  /\ socket \in [Sockets -> {"connecting", "open", "closing", "closed"}]
  /\ as \in [Sockets -> Users \cup {None}]
  /\ told \in [Sockets -> SUBSET Channels]
  /\ wsRef \in Sockets \cup {None} /\ timeoutRef \in Sockets \cup {None}
  /\ timers \subseteq Sockets
  /\ wanted \subseteq Channels
  /\ attempts \in Nat /\ changes \in 0..MaxChanges

Init ==
  /\ mounted = FALSE /\ user = None /\ off = FALSE /\ changes = 0
  /\ socket = [s \in Sockets |-> "closed"]
  /\ as = [s \in Sockets |-> None]
  /\ told = [s \in Sockets |-> {}]
  /\ wsRef = None /\ timers = {} /\ timeoutRef = None
  /\ attempts = 0 /\ isConnected = FALSE /\ wanted = {}

IsOpen(s) == s # None /\ socket[s] = "open"
\* A socket that is gone, and its timer with it: the name of the next one.
Spare(waiting) == {s \in Sockets : socket[s] = "closed" /\ s \notin waiting}

-----------------------------------------------------------------------------
(* connect and disconnect.                                                 *)

\* connect(), as the render of user u made it, when the hook holds `ref`, the
\* sockets are `was` and the timers `waiting`.
Connect(u, ref, was, waiting) ==
  IF u = None \/ (ref # None /\ was[ref] = "open")
    THEN socket' = was /\ wsRef' = ref /\ UNCHANGED <<as, told>>
    ELSE \E s \in Spare(waiting) :
           /\ socket' = [was EXCEPT ![s] = "connecting"]
           /\ as' = [as EXCEPT ![s] = u]
           /\ told' = [told EXCEPT ![s] = {}]
           /\ wsRef' = s

\* disconnect() clears the timer set last and closes the socket of the ref.
Closed == IF wsRef = None \/ socket[wsRef] = "closed"
            THEN socket ELSE [socket EXCEPT ![wsRef] = "closing"]
Cleared == timers \ {timeoutRef}

\* The cleanup of the effect: disconnect(), and then the effect, if any.
Restart(u) ==
  /\ timers' = Cleared /\ timeoutRef' = None
  /\ isConnected' = FALSE
  /\ Connect(u, None, Closed, Cleared)
  /\ UNCHANGED <<attempts, wanted>>

-----------------------------------------------------------------------------
(* The component and the store.                                            *)

Change == changes < MaxChanges /\ changes' = changes + 1

\* Refs do not outlive the component; sockets and timers do, but with refs of
\* their own, which a component mounted later does not see.
Mount ==
  /\ Change /\ ~mounted
  /\ timers = {} /\ \A s \in Sockets : socket[s] = "closed"
  /\ mounted' = TRUE /\ off' = FALSE
  /\ attempts' = 0 /\ wanted' = {} /\ timeoutRef' = None
  /\ Connect(user, None, socket, timers)
  /\ UNCHANGED <<user, timers, isConnected>>

Unmount ==
  /\ Change /\ mounted
  /\ mounted' = FALSE
  /\ Restart(None)
  /\ UNCHANGED <<user, off>>

\* Somebody signs in or out, or the store gets a new user object: connect is
\* a new callback and the effect runs again.
UserChanges(u) ==
  /\ Change
  /\ user' = u
  /\ IF mounted THEN Restart(u) /\ off' = FALSE
     ELSE UNCHANGED <<off, socket, as, told, wsRef, timers, timeoutRef, attempts, isConnected, wanted>>
  /\ UNCHANGED mounted

\* What the hook returns to the component.
CallConnect ==
  /\ Change /\ mounted
  /\ off' = FALSE
  /\ Connect(user, wsRef, socket, timers)
  /\ UNCHANGED <<mounted, user, timers, timeoutRef, attempts, isConnected, wanted>>

CallDisconnect ==
  /\ Change /\ mounted
  /\ off' = TRUE
  /\ Restart(None)
  /\ UNCHANGED <<mounted, user>>

Subscribe(ch) ==
  /\ mounted /\ ch \notin wanted
  /\ wanted' = wanted \cup {ch}
  /\ told' = IF IsOpen(wsRef) THEN [told EXCEPT ![wsRef] = @ \cup {ch}] ELSE told
  /\ UNCHANGED <<hook, socket, as, wsRef, timers, timeoutRef, attempts, isConnected>>

Unsubscribe(ch) ==
  /\ mounted /\ ch \in wanted
  /\ wanted' = wanted \ {ch}
  /\ told' = IF IsOpen(wsRef) THEN [told EXCEPT ![wsRef] = @ \ {ch}] ELSE told
  /\ UNCHANGED <<hook, socket, as, wsRef, timers, timeoutRef, attempts, isConnected>>

-----------------------------------------------------------------------------
(* The events of a socket, and its timer.                                  *)

\* Mutant of Opened: nothing is asked for again on a new socket.
OpenedSilently(s) ==
  /\ socket[s] = "connecting"
  /\ socket' = [socket EXCEPT ![s] = "open"]
  /\ isConnected' = TRUE /\ attempts' = 0
  /\ UNCHANGED <<hook, as, told, wsRef, timers, timeoutRef, wanted>>

\* onopen: what is wanted by now is asked for again.
Opened(s) ==
  /\ socket[s] = "connecting"
  /\ socket' = [socket EXCEPT ![s] = "open"]
  /\ isConnected' = TRUE
  /\ attempts' = 0
  /\ told' = [told EXCEPT ![s] = wanted]
  /\ UNCHANGED <<hook, as, wsRef, timers, timeoutRef, wanted>>

\* The service starts the closing handshake (it gives up on a client with a close
\* message): the socket is closing, and no handler is told before its close event.
ServiceCloses(s) ==
  /\ socket[s] = "open"
  /\ socket' = [socket EXCEPT ![s] = "closing"]
  /\ UNCHANGED <<hook, as, told, wsRef, timers, timeoutRef, attempts, isConnected, wanted>>

\* Mutant of CloseEvent: the hook goes on saying that it is connected.
CloseEventUnnoticed(s) ==
  /\ socket[s] # "closed"
  /\ socket' = [socket EXCEPT ![s] = "closed"]
  /\ wsRef' = None
  /\ IF attempts < maxReconnectAttempts
       THEN timers' = timers \cup {s} /\ timeoutRef' = s
       ELSE UNCHANGED <<timers, timeoutRef>>
  /\ UNCHANGED <<hook, as, told, attempts, isConnected, wanted>>

\* Mutant of CloseEvent: it tries again without counting.
CloseEventUncounted(s) ==
  /\ socket[s] # "closed"
  /\ socket' = [socket EXCEPT ![s] = "closed"]
  /\ isConnected' = FALSE /\ wsRef' = None
  /\ timers' = timers \cup {s} /\ timeoutRef' = s
  /\ UNCHANGED <<hook, as, told, attempts, wanted>>

\* Mutant of CloseEvent: only a connection that was open is tried again.
CloseEventOfOpen(s) ==
  /\ socket[s] # "closed"
  /\ socket' = [socket EXCEPT ![s] = "closed"]
  /\ isConnected' = FALSE /\ wsRef' = None
  /\ IF attempts < maxReconnectAttempts /\ IsOpen(s)
       THEN timers' = timers \cup {s} /\ timeoutRef' = s
       ELSE UNCHANGED <<timers, timeoutRef>>
  /\ UNCHANGED <<hook, as, told, attempts, wanted>>

\* onclose, of a socket that the service, the network or close() has ended.
\* It does not ask whether the hook has another socket by now.
CloseEvent(s) ==
  /\ socket[s] # "closed"
  /\ socket' = [socket EXCEPT ![s] = "closed"]
  /\ isConnected' = FALSE
  /\ wsRef' = None
  /\ IF attempts < maxReconnectAttempts
       THEN timers' = timers \cup {s} /\ timeoutRef' = s
       ELSE UNCHANGED <<timers, timeoutRef>>
  /\ UNCHANGED <<hook, as, told, attempts, wanted>>

\* Mutant of TimerFires: the attempts are counted down.
TimerFiresDown(s) ==
  /\ s \in timers
  /\ timers' = timers \ {s}
  /\ attempts' = attempts - 1
  /\ Connect(as[s], wsRef, socket, timers \ {s})
  /\ UNCHANGED <<hook, timeoutRef, isConnected, wanted>>

\* The timer set by the close event of s: connect, as s was connected.
TimerFires(s) ==
  /\ s \in timers
  /\ timers' = timers \ {s}
  /\ attempts' = attempts + 1
  /\ Connect(as[s], wsRef, socket, timers \ {s})
  /\ UNCHANGED <<hook, timeoutRef, isConnected, wanted>>

Next ==
  \/ Mount \/ Unmount \/ CallConnect \/ CallDisconnect
  \/ \E u \in Users \cup {None} : UserChanges(u)
  \/ \E ch \in Channels : Subscribe(ch) \/ Unsubscribe(ch)
  \/ \E s \in Sockets : Opened(s) \/ ServiceCloses(s) \/ CloseEvent(s) \/ TimerFires(s)

Spec == Init /\ [][Next]_vars

\* A handshake succeeds or fails, a closing socket gets its event, and a
\* timer fires.
FairSpec ==
  /\ Spec
  /\ \A s \in Sockets :
       /\ WF_vars(socket[s] = "connecting" /\ (Opened(s) \/ CloseEvent(s)))
       /\ WF_vars(socket[s] = "closing" /\ CloseEvent(s))
       /\ WF_vars(TimerFires(s))

-----------------------------------------------------------------------------
(* Properties.                                                             *)

\* The service holds for the socket in use exactly the channels the component
\* wants, whatever was subscribed before, during or between connections.
UsedSocketSubscribed == IsOpen(wsRef) => told[wsRef] = wanted

\* isConnected is true while the socket in use is open, and is never true when no
\* socket of the hook is open or has yet to get the close event of one that was being
\* closed, though the events of every socket set it (lines 96-112, 143-153).  It is no
\* promise about a socket that wsRef has let go of: such a one may be open while
\* isConnected is false, or be the reason that it is true.
ConnectedAgrees ==
  /\ IsOpen(wsRef) => isConnected
  /\ isConnected => \E s \in Sockets : socket[s] \in {"open", "closing"}

\* Every chain of reconnections counts in the same reconnectAttempts: what the
\* component does can make more of them, but each change of it adds at most
\* one attempt to the maximum.
RetriesBounded == attempts <= maxReconnectAttempts + changes

\* While the component is mounted and a user signed in the hook gets a socket
\* open again, however the earlier ones ended, until it has made the maximum
\* number of attempts in a row.
KeepsTrying ==
  (mounted /\ user # None /\ ~off)
    ~> \/ \E s \in Sockets : socket[s] = "open"
       \/ attempts >= maxReconnectAttempts
       \/ ~mounted \/ user = None \/ off
=============================================================================
