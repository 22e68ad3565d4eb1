------------------------ MODULE RealtimeClientProofs ------------------------
(***************************************************************************)
(* What RealtimeClient guarantees for any number of sockets, users,        *)
(* channels and retries.                                                   *)
(***************************************************************************)
EXTENDS RealtimeClient, FiniteSetTheorems, TLAPS

USE RealtimeAssumption

\* The two safety properties, with the types, are inductive together.
SocketInv == TypeOK /\ UsedSocketSubscribed /\ ConnectedAgrees

\* connect() from a hook whose used socket, if open, is in order leaves it in
\* order: a new socket is connecting, and no other changes.
LEMMA ConnectKeeps ==
  ASSUME TypeOK, NEW u \in Users \cup {None}, NEW ref \in Sockets \cup {None},
         NEW was \in [Sockets -> {"connecting", "open", "closing", "closed"}],
         NEW waiting, Connect(u, ref, was, waiting),
         \A s \in Sockets : was[s] # socket[s] => was[s] = "closing" /\ s = wsRef
  PROVE  /\ socket' \in [Sockets -> {"connecting", "open", "closing", "closed"}]
         /\ as' \in [Sockets -> Users \cup {None}]
         /\ told' \in [Sockets -> SUBSET Channels]
         /\ wsRef' \in Sockets \cup {None}
         /\ \A s \in Sockets : socket'[s] = "open" => was[s] = "open" /\ told'[s] = told[s]
         /\ \A s \in Sockets : socket[s] # "closed" => socket'[s] = was[s]
         /\ wsRef' # None /\ socket'[wsRef'] = "open" => wsRef' = ref
<1>1. CASE u = None \/ (ref # None /\ was[ref] = "open")
  BY <1>1 DEF Connect, TypeOK
<1>2. CASE ~(u = None \/ (ref # None /\ was[ref] = "open"))
  <2>1. PICK s \in Spare(waiting) :
           /\ socket' = [was EXCEPT ![s] = "connecting"]
           /\ as' = [as EXCEPT ![s] = u]
           /\ told' = [told EXCEPT ![s] = {}]
           /\ wsRef' = s
    BY <1>2 DEF Connect
  <2>2. s \in Sockets /\ socket[s] = "closed"
    BY DEF Spare
  <2> QED
    BY <2>1, <2>2 DEF TypeOK
<1> QED
  BY <1>1, <1>2

\* disconnect() and connect() leave no socket in use that is open.
LEMMA RestartKeeps ==
  ASSUME SocketInv, NEW u \in Users \cup {None}, Restart(u)
  PROVE  /\ socket' \in [Sockets -> {"connecting", "open", "closing", "closed"}]
         /\ as' \in [Sockets -> Users \cup {None}]
         /\ told' \in [Sockets -> SUBSET Channels]
         /\ wsRef' \in Sockets \cup {None} /\ timeoutRef' \in Sockets \cup {None}
         /\ timers' \subseteq Sockets /\ attempts' = attempts /\ wanted' = wanted
         /\ isConnected' = FALSE
         /\ ~(wsRef' # None /\ socket'[wsRef'] = "open")
<1>1. /\ Closed \in [Sockets -> {"connecting", "open", "closing", "closed"}]
      /\ \A s \in Sockets : Closed[s] # socket[s] => Closed[s] = "closing" /\ s = wsRef
  BY DEF Closed, SocketInv, TypeOK
<1>2. None \in Sockets \cup {None} /\ TypeOK
  BY DEF SocketInv
<1>3. Connect(u, None, Closed, Cleared)
  BY DEF Restart
<1> HIDE DEF Closed, Cleared
<1>4. /\ socket' \in [Sockets -> {"connecting", "open", "closing", "closed"}]
      /\ as' \in [Sockets -> Users \cup {None}]
      /\ told' \in [Sockets -> SUBSET Channels]
      /\ wsRef' \in Sockets \cup {None}
      /\ wsRef' # None /\ socket'[wsRef'] = "open" => wsRef' = None
  BY <1>1, <1>2, <1>3, ConnectKeeps
<1> QED
  BY <1>2, <1>4 DEF Restart, Cleared, TypeOK

LEMMA SocketInvPreserved ==
  SocketInv /\ [Next]_vars => SocketInv'
<1> SUFFICES ASSUME SocketInv, [Next]_vars PROVE SocketInv'
  OBVIOUS
<1>y. TypeOK /\ None \in Users \cup {None} /\ None \in Sockets \cup {None}
  BY DEF SocketInv
<1>o. ASSUME NEW s \in Sockets PROVE IsOpen(s) <=> socket[s] = "open"
  BY DEF IsOpen
<1>c. ASSUME Change PROVE changes' \in 0..MaxChanges
  BY <1>y, <1>c DEF Change, TypeOK
<1>1. CASE Mount
  <2>1. user \in Users \cup {None} /\ socket \in [Sockets -> {"connecting", "open", "closing", "closed"}]
    BY <1>y DEF TypeOK
  <2>2. Connect(user, None, socket, timers) /\ \A s \in Sockets : socket[s] = "closed"
    BY <1>1 DEF Mount
  <2>3. /\ socket' \in [Sockets -> {"connecting", "open", "closing", "closed"}]
        /\ as' \in [Sockets -> Users \cup {None}]
        /\ told' \in [Sockets -> SUBSET Channels]
        /\ wsRef' \in Sockets \cup {None}
        /\ wsRef' # None /\ socket'[wsRef'] = "open" => wsRef' = None
    BY <1>y, <2>1, <2>2, ConnectKeeps
  <2>4. TypeOK'
    BY <1>1, <1>y, <1>c, <2>3 DEF Mount, TypeOK
  <2>5. ~isConnected'
    BY <1>1, <2>2 DEF Mount, SocketInv, ConnectedAgrees
  <2> QED
    BY <2>3, <2>4, <2>5 DEF SocketInv, UsedSocketSubscribed, ConnectedAgrees, IsOpen
<1>2. ASSUME NEW u \in Users \cup {None}, Restart(u), Change,
             mounted' \in BOOLEAN, off' \in BOOLEAN, user' \in Users \cup {None}
      PROVE  SocketInv'
  <2>1. TypeOK'
    BY <1>2, <1>y, <1>c, RestartKeeps DEF TypeOK
  <2>2. isConnected' = FALSE /\ ~(wsRef' # None /\ socket'[wsRef'] = "open")
    BY <1>2, RestartKeeps
  <2> QED
    BY <2>1, <2>2 DEF SocketInv, UsedSocketSubscribed, ConnectedAgrees, IsOpen
<1>3. CASE Unmount
  BY <1>2, <1>3, <1>y DEF Unmount, TypeOK
<1>4. ASSUME NEW u \in Users \cup {None}, UserChanges(u) PROVE SocketInv'
  <2>1. CASE mounted
    BY <1>2, <1>4, <1>y, <2>1 DEF UserChanges, TypeOK
  <2>2. CASE ~mounted
    BY <1>4, <1>y, <1>c, <2>2
       DEF UserChanges, TypeOK, SocketInv, UsedSocketSubscribed, ConnectedAgrees, IsOpen
  <2> QED
    BY <2>1, <2>2
<1>5. CASE CallDisconnect
  BY <1>2, <1>5, <1>y DEF CallDisconnect, TypeOK
<1>6. ASSUME NEW u \in Users \cup {None}, NEW waiting, Connect(u, wsRef, socket, waiting),
             isConnected' = isConnected, wanted' = wanted, TypeOK'
      PROVE  SocketInv'
  <2>1. wsRef \in Sockets \cup {None} /\ socket \in [Sockets -> {"connecting", "open", "closing", "closed"}]
    BY <1>y DEF TypeOK
  <2>2. /\ \A s \in Sockets : socket'[s] = "open" => socket[s] = "open" /\ told'[s] = told[s]
        /\ \A s \in Sockets : socket[s] # "closed" => socket'[s] = socket[s]
        /\ wsRef' # None /\ socket'[wsRef'] = "open" => wsRef' = wsRef
    BY <1>6, <1>y, <2>1, ConnectKeeps
  <2>3. IsOpen(wsRef)' => IsOpen(wsRef) /\ wsRef' = wsRef /\ told'[wsRef] = told[wsRef]
    BY <2>1, <2>2 DEF IsOpen
  <2> QED
    BY <1>6, <2>2, <2>3 DEF SocketInv, UsedSocketSubscribed, ConnectedAgrees
<1>7. CASE CallConnect
  <2>1. user \in Users \cup {None} /\ Connect(user, wsRef, socket, timers)
    BY <1>7, <1>y DEF CallConnect, TypeOK
  <2>2. wsRef \in Sockets \cup {None} /\ socket \in [Sockets -> {"connecting", "open", "closing", "closed"}]
    BY <1>y DEF TypeOK
  <2>3. /\ socket' \in [Sockets -> {"connecting", "open", "closing", "closed"}]
        /\ as' \in [Sockets -> Users \cup {None}]
        /\ told' \in [Sockets -> SUBSET Channels]
        /\ wsRef' \in Sockets \cup {None}
    BY <1>y, <2>1, <2>2, ConnectKeeps
  <2>4. TypeOK'
    BY <1>7, <1>y, <1>c, <2>3 DEF CallConnect, TypeOK
  <2> QED
    BY <1>6, <1>7, <2>1, <2>4 DEF CallConnect
<1>8. ASSUME NEW s \in Sockets, TimerFires(s) PROVE SocketInv'
  <2>1. as[s] \in Users \cup {None} /\ Connect(as[s], wsRef, socket, timers \ {s})
    BY <1>8, <1>y DEF TimerFires, TypeOK
  <2>2. wsRef \in Sockets \cup {None} /\ socket \in [Sockets -> {"connecting", "open", "closing", "closed"}]
    BY <1>y DEF TypeOK
  <2>3. /\ socket' \in [Sockets -> {"connecting", "open", "closing", "closed"}]
        /\ as' \in [Sockets -> Users \cup {None}]
        /\ told' \in [Sockets -> SUBSET Channels]
        /\ wsRef' \in Sockets \cup {None}
    BY <1>y, <2>1, <2>2, ConnectKeeps
  <2>4. TypeOK'
    BY <1>8, <1>y, <2>3 DEF TimerFires, hook, TypeOK
  <2> QED
    BY <1>6, <1>8, <2>1, <2>4 DEF TimerFires
<1>9. ASSUME NEW ch \in Channels, Subscribe(ch) \/ Unsubscribe(ch) PROVE SocketInv'
  <2>0. /\ UNCHANGED <<mounted, user, off, changes, socket, as, wsRef, timers, timeoutRef,
                       attempts, isConnected>>
        /\ wanted' \subseteq Channels
        /\ told' = told \/ (wsRef \in Sockets /\ \E now \in SUBSET Channels : told' = [told EXCEPT ![wsRef] = now])
    <3>1. CASE Subscribe(ch)
      <4>1. wsRef \in Sockets => told[wsRef] \cup {ch} \in SUBSET Channels
        BY <1>y DEF TypeOK
      <4> QED
        BY <3>1, <4>1, <1>y DEF Subscribe, hook, TypeOK, IsOpen
    <3>2. CASE Unsubscribe(ch)
      <4>1. wsRef \in Sockets => told[wsRef] \ {ch} \in SUBSET Channels
        BY <1>y DEF TypeOK
      <4> QED
        BY <3>2, <4>1, <1>y DEF Unsubscribe, hook, TypeOK, IsOpen
    <3> QED
      BY <1>9, <3>1, <3>2
  <2>1. TypeOK'
    <3>1. told' \in [Sockets -> SUBSET Channels]
      BY <2>0, <1>y DEF TypeOK
    <3>2. UNCHANGED <<mounted, user, off, changes, socket, as, wsRef, timers, timeoutRef,
                      attempts, isConnected>> /\ wanted' \subseteq Channels
      BY <2>0
    <3> QED
      BY <3>1, <3>2, <1>y DEF TypeOK
  <2>2. ConnectedAgrees'
    BY <2>0 DEF SocketInv, ConnectedAgrees, IsOpen
  <2>3. UsedSocketSubscribed'
    BY <1>9, <1>y DEF SocketInv, UsedSocketSubscribed, Subscribe, Unsubscribe, IsOpen, TypeOK
  <2> QED
    BY <2>1, <2>2, <2>3 DEF SocketInv
<1>10. ASSUME NEW s \in Sockets, Opened(s) PROVE SocketInv'
  <2>1. TypeOK'
    BY <1>10, <1>y DEF Opened, hook, TypeOK
  <2>2. socket'[s] = "open" /\ told'[s] = wanted' /\ isConnected' = TRUE
    BY <1>10, <1>y DEF Opened, TypeOK
  <2>3. ASSUME IsOpen(wsRef)' PROVE told'[wsRef'] = wanted'
    <3>1. CASE wsRef = s
      BY <1>10, <2>2, <3>1 DEF Opened
    <3>2. CASE wsRef # s
      BY <1>10, <1>y, <2>3, <3>2 DEF Opened, IsOpen, TypeOK, SocketInv, UsedSocketSubscribed
    <3> QED
      BY <3>1, <3>2
  <2> QED
    BY <2>1, <2>2, <2>3 DEF SocketInv, UsedSocketSubscribed, ConnectedAgrees
<1>11. ASSUME NEW s \in Sockets, CloseEvent(s) PROVE SocketInv'
  <2>1. TypeOK'
    BY <1>11, <1>y DEF CloseEvent, hook, TypeOK
  <2>2. isConnected' = FALSE /\ wsRef' = None
    BY <1>11 DEF CloseEvent
  <2> QED
    BY <2>1, <2>2 DEF SocketInv, UsedSocketSubscribed, ConnectedAgrees, IsOpen
<1>12. ASSUME NEW s \in Sockets, ServiceCloses(s) PROVE SocketInv'
  <2>1. TypeOK'
    BY <1>12, <1>y DEF ServiceCloses, hook, TypeOK
  <2>2. /\ socket'[s] = "closing" /\ UNCHANGED <<wsRef, told, wanted, isConnected>>
        /\ \A q \in Sockets : q # s => socket'[q] = socket[q]
    BY <1>12, <1>y DEF ServiceCloses, TypeOK
  <2>3. IsOpen(wsRef)' => IsOpen(wsRef)
    BY <1>y, <2>2 DEF IsOpen, TypeOK
  <2> QED
    BY <2>1, <2>2, <2>3 DEF SocketInv, UsedSocketSubscribed, ConnectedAgrees
<1>13. CASE UNCHANGED vars
  BY <1>13 DEF SocketInv, TypeOK, UsedSocketSubscribed, ConnectedAgrees, IsOpen, vars, hook
<1> QED
  BY <1>1, <1>3, <1>4, <1>5, <1>7, <1>8, <1>9, <1>10, <1>11, <1>12, <1>13 DEF Next

LEMMA SocketInvInitially == Init => SocketInv
<1>1. Init => TypeOK
  <2>1. Init => changes \in 0..MaxChanges /\ attempts \in Nat
    BY DEF Init
  <2>2. Init => /\ mounted \in BOOLEAN /\ off \in BOOLEAN /\ isConnected \in BOOLEAN
                /\ user \in Users \cup {None} /\ wanted \subseteq Channels
                /\ wsRef \in Sockets \cup {None} /\ timeoutRef \in Sockets \cup {None}
                /\ timers \subseteq Sockets
    BY DEF Init
  <2>3. Init => /\ socket \in [Sockets -> {"connecting", "open", "closing", "closed"}]
                /\ as \in [Sockets -> Users \cup {None}]
                /\ told \in [Sockets -> SUBSET Channels]
    BY DEF Init
  <2> QED
    BY <2>1, <2>2, <2>3 DEF TypeOK
<1>2. Init => UsedSocketSubscribed /\ ConnectedAgrees
  BY DEF Init, UsedSocketSubscribed, ConnectedAgrees, IsOpen
<1> QED
  BY <1>1, <1>2 DEF SocketInv

\* The variables of the hook keep their types.
THEOREM ClientTypeCorrect == Spec => []TypeOK
BY SocketInvInitially, SocketInvPreserved, PTL DEF Spec, SocketInv

\* However often the component, its user and the network change, the socket
\* in use is subscribed to what the component wants.
THEOREM ClientSubscribed == Spec => []UsedSocketSubscribed
BY SocketInvInitially, SocketInvPreserved, PTL DEF Spec, SocketInv

\* However late events come, isConnected is true while the socket in use is open, and
\* false when every socket has had its close event.
THEOREM ClientConnectedAgrees == Spec => []ConnectedAgrees
BY SocketInvInitially, SocketInvPreserved, PTL DEF Spec, SocketInv

-----------------------------------------------------------------------------
(* The attempts to reconnect are bounded.                                    *)

\* The sockets that still owe the hook an event: that of the socket itself, or that
\* of the timer its close event has set.
Busy == {s \in Sockets : socket[s] # "closed" \/ s \in timers}

\* Each change of the component starts at most one chain of reconnections, and a
\* timer that waits, after its socket is gone, is an attempt to come.
Counts ==
  /\ \A s \in timers : socket[s] = "closed"
  /\ IsFiniteSet(Busy) /\ Cardinality(Busy) <= changes
  /\ attempts + Cardinality(timers) <= maxReconnectAttempts + changes

LEMMA OneMoreAtMost ==
  ASSUME NEW S, IsFiniteSet(S), NEW x, NEW T, T \subseteq S \cup {x}
  PROVE  /\ IsFiniteSet(T) /\ Cardinality(T) \in Nat /\ Cardinality(S) \in Nat
         /\ Cardinality(T) <= Cardinality(S) + 1
<1>1. /\ IsFiniteSet(S \cup {x})
      /\ Cardinality(S \cup {x}) = IF x \in S THEN Cardinality(S) ELSE Cardinality(S) + 1
  BY FS_AddElement
<1>2. IsFiniteSet(T) /\ Cardinality(T) <= Cardinality(S \cup {x})
  BY <1>1, FS_Subset
<1>3. Cardinality(T) \in Nat /\ Cardinality(S) \in Nat
  BY <1>2, FS_CardinalityType
<1> QED
  BY <1>1, <1>2, <1>3

LEMMA NoMoreThan ==
  ASSUME NEW S, IsFiniteSet(S), NEW T, T \subseteq S
  PROVE  IsFiniteSet(T) /\ Cardinality(T) \in Nat /\ Cardinality(S) \in Nat
         /\ Cardinality(T) <= Cardinality(S)
BY FS_Subset, FS_CardinalityType

LEMMA OneForAnother ==
  ASSUME NEW S, IsFiniteSet(S), NEW x \in S, NEW y, NEW T, T \subseteq (S \ {x}) \cup {y}
  PROVE  IsFiniteSet(T) /\ Cardinality(T) <= Cardinality(S)
<1>1. IsFiniteSet(S \ {x}) /\ Cardinality(S \ {x}) = Cardinality(S) - 1
  BY FS_RemoveElement
<1>2. IsFiniteSet(T) /\ Cardinality(T) <= Cardinality(S \ {x}) + 1
  BY <1>1, OneMoreAtMost
<1>3. Cardinality(S) \in Nat
  BY FS_CardinalityType
<1> QED
  BY <1>1, <1>2, <1>3

\* connect() makes at most one socket, and one that owed nothing.
LEMMA ConnectAddsOne ==
  ASSUME NEW u, NEW ref,
         NEW was \in [Sockets -> {"connecting", "open", "closing", "closed"}],
         NEW waiting, Connect(u, ref, was, waiting),
         \A s \in Sockets : was[s] # "closed" <=> socket[s] # "closed"
  PROVE  /\ \E x : \A s \in Sockets : socket'[s] # "closed" => socket[s] # "closed" \/ s = x
         /\ \A s \in Sockets : s \in waiting /\ socket[s] = "closed" => socket'[s] = "closed"
<1>1. CASE u = None \/ (ref # None /\ was[ref] = "open")
  BY <1>1 DEF Connect
<1>2. CASE ~(u = None \/ (ref # None /\ was[ref] = "open"))
  <2>1. PICK s \in Spare(waiting) : socket' = [was EXCEPT ![s] = "connecting"]
    BY <1>2 DEF Connect
  <2>2. /\ \A q \in Sockets : socket'[q] # "closed" => socket[q] # "closed" \/ q = s
        /\ s \notin waiting
    BY <2>1 DEF Spare
  <2> QED
    BY <2>2
<1> QED
  BY <1>1, <1>2

LEMMA CountsPreserved ==
  SocketInv /\ Counts /\ [Next]_vars => Counts'
<1> SUFFICES ASSUME SocketInv, Counts, [Next]_vars PROVE Counts'
  OBVIOUS
<1>t. TypeOK
  BY DEF SocketInv
<1>f. /\ IsFiniteSet(timers) /\ timers \subseteq Sockets
      /\ Cardinality(timers) \in Nat /\ Cardinality(Busy) \in Nat
      /\ Cardinality(timers) <= Cardinality(Busy) /\ Cardinality(Busy) <= changes
      /\ attempts + Cardinality(timers) <= maxReconnectAttempts + changes
  <2>1. timers \subseteq Busy /\ timers \subseteq Sockets
    BY <1>t DEF TypeOK, Busy
  <2> QED
    BY <2>1, NoMoreThan DEF Counts
<1>n. changes \in Nat /\ attempts \in Nat
  BY <1>t DEF TypeOK
<1>z. IsFiniteSet({}) /\ Cardinality({}) = 0
  BY FS_EmptySet
\* a change of the component, which adds at most one socket and no timer
<1>1. ASSUME Change, timers' \subseteq timers, \A s \in timers' : socket'[s] = "closed", attempts' = attempts,
             NEW x, \A s \in Sockets : socket'[s] # "closed" => socket[s] # "closed" \/ s = x
      PROVE  Counts'
  <2>1. Busy' \subseteq Busy \cup {x}
    BY <1>1 DEF Busy
  <2>2. IsFiniteSet(Busy') /\ Cardinality(Busy') \in Nat /\ Cardinality(Busy') <= Cardinality(Busy) + 1
    BY <2>1, OneMoreAtMost DEF Counts
  <2>3. Cardinality(timers') \in Nat /\ Cardinality(timers') <= Cardinality(timers)
    BY <1>1, <1>f, NoMoreThan
  <2>4. changes' = changes + 1
    BY <1>1 DEF Change
  <2>5. Cardinality(Busy') <= changes'
    BY <1>f, <1>n, <2>2, <2>4
  <2>6. attempts' + Cardinality(timers') <= maxReconnectAttempts + changes'
    BY <1>f, <1>n, <1>1, <2>3, <2>4
  <2> QED
    BY <1>1, <2>2, <2>5, <2>6 DEF Counts
<1>2. ASSUME NEW u, Restart(u), Change PROVE Counts'
  <2>1. /\ Closed \in [Sockets -> {"connecting", "open", "closing", "closed"}]
        /\ \A s \in Sockets : Closed[s] # "closed" <=> socket[s] # "closed"
    BY <1>t DEF Closed, TypeOK
  <2>2. /\ Connect(u, None, Closed, Cleared) /\ attempts' = attempts
        /\ timers' = Cleared /\ timers' \subseteq timers
    BY <1>2 DEF Restart, Cleared
  <2> HIDE DEF Closed, Cleared
  <2>3. /\ \E x : \A s \in Sockets : socket'[s] # "closed" => socket[s] # "closed" \/ s = x
        /\ \A s \in Sockets : s \in Cleared /\ socket[s] = "closed" => socket'[s] = "closed"
    BY <2>1, <2>2, ConnectAddsOne
  <2>4. \A s \in timers' : socket'[s] = "closed"
    BY <1>f, <2>2, <2>3 DEF Counts
  <2> QED
    BY <1>1, <1>2, <2>2, <2>3, <2>4
<1>3. CASE Mount
  <2>1. socket \in [Sockets -> {"connecting", "open", "closing", "closed"}]
    BY <1>t DEF TypeOK
  <2>2. PICK x : \A s \in Sockets : socket'[s] # "closed" => socket[s] # "closed" \/ s = x
    BY <1>3, <2>1, ConnectAddsOne DEF Mount
  <2>3. timers' = {} /\ attempts' = 0 /\ changes' = changes + 1 /\ Busy' \subseteq Busy \cup {x}
    BY <1>3, <2>2 DEF Mount, Change, Busy
  <2>4. IsFiniteSet(Busy') /\ Cardinality(Busy') \in Nat /\ Cardinality(Busy') <= Cardinality(Busy) + 1
    BY <2>3, OneMoreAtMost DEF Counts
  <2>5. Cardinality(Busy') <= changes'
    BY <1>f, <1>n, <2>3, <2>4
  <2>6. attempts' + Cardinality(timers') <= maxReconnectAttempts + changes'
    BY <1>n, <1>z, <2>3
  <2> QED
    BY <2>3, <2>4, <2>5, <2>6 DEF Counts
<1>4. CASE Unmount
  BY <1>2, <1>4 DEF Unmount
<1>5. CASE CallDisconnect
  BY <1>2, <1>5 DEF CallDisconnect
<1>6. ASSUME NEW u \in Users \cup {None}, UserChanges(u) PROVE Counts'
  <2>1. CASE mounted
    BY <1>2, <1>6, <2>1 DEF UserChanges
  <2>2. CASE ~mounted
    BY <1>1, <1>6, <2>2 DEF UserChanges, Counts
  <2> QED
    BY <2>1, <2>2
<1>7. CASE CallConnect
  <2>1. socket \in [Sockets -> {"connecting", "open", "closing", "closed"}]
    BY <1>t DEF TypeOK
  <2>2. /\ \E x : \A s \in Sockets : socket'[s] # "closed" => socket[s] # "closed" \/ s = x
        /\ \A s \in Sockets : s \in timers /\ socket[s] = "closed" => socket'[s] = "closed"
    BY <1>7, <2>1, ConnectAddsOne DEF CallConnect
  <2>3. \A s \in timers' : socket'[s] = "closed"
    BY <1>7, <1>f, <2>2 DEF CallConnect, Counts
  <2> QED
    BY <1>1, <1>7, <2>2, <2>3 DEF CallConnect
<1>8. ASSUME NEW s \in Sockets, TimerFires(s) PROVE Counts'
  <2>1. socket \in [Sockets -> {"connecting", "open", "closing", "closed"}]
    BY <1>t DEF TypeOK
  <2>2. PICK x : \A q \in Sockets : socket'[q] # "closed" => socket[q] # "closed" \/ q = x
    BY <1>8, <2>1, ConnectAddsOne DEF TimerFires
  <2>3. s \in timers /\ timers' = timers \ {s} /\ attempts' = attempts + 1 /\ changes' = changes
    BY <1>8 DEF TimerFires, hook
  <2>4. Cardinality(timers') = Cardinality(timers) - 1
    BY <1>f, <2>3, FS_RemoveElement
  <2>5. attempts' + Cardinality(timers') <= maxReconnectAttempts + changes'
    BY <1>f, <1>n, <2>3, <2>4
  <2>6. IsFiniteSet(Busy') /\ Cardinality(Busy') <= Cardinality(Busy)
    <3>1. s \in Busy /\ Busy' \subseteq (Busy \ {s}) \cup {x}
      BY <1>f, <2>2, <2>3 DEF Busy, Counts
    <3> QED
      BY <3>1, OneForAnother DEF Counts
  <2>7. \A q \in Sockets : q \in timers \ {s} /\ socket[q] = "closed" => socket'[q] = "closed"
    BY <1>8, <2>1, ConnectAddsOne DEF TimerFires
  <2>8. \A q \in timers' : socket'[q] = "closed"
    BY <1>f, <2>3, <2>7 DEF Counts
  <2>9. Cardinality(Busy') <= changes'
    BY <1>f, <1>n, <2>3, <2>6, FS_CardinalityType
  <2> QED
    BY <2>5, <2>6, <2>8, <2>9 DEF Counts
<1>9. ASSUME NEW s \in Sockets, CloseEvent(s) PROVE Counts'
  <2>1. changes' = changes /\ attempts' = attempts /\ Busy' \subseteq Busy /\ timers \cup {s} \subseteq Busy
    BY <1>9, <1>t DEF CloseEvent, hook, TypeOK, Busy
  <2>2. IsFiniteSet(Busy') /\ Cardinality(Busy') \in Nat /\ Cardinality(Busy') <= Cardinality(Busy)
    BY <2>1, NoMoreThan DEF Counts
  <2>3. Cardinality(timers \cup {s}) \in Nat /\ Cardinality(timers \cup {s}) <= Cardinality(Busy)
    BY <2>1, NoMoreThan DEF Counts
  <2>4. attempts' + Cardinality(timers') <= maxReconnectAttempts + changes'
    <3>1. CASE attempts < maxReconnectAttempts
      <4>1. timers' = timers \cup {s}
        BY <1>9, <3>1 DEF CloseEvent
      <4> QED
        BY <1>f, <1>n, <2>1, <2>3, <3>1, <4>1
    <3>2. CASE ~(attempts < maxReconnectAttempts)
      BY <1>9, <1>f, <2>1, <3>2 DEF CloseEvent
    <3> QED
      BY <3>1, <3>2
  <2>5. Cardinality(Busy') <= changes'
    BY <1>f, <1>n, <2>1, <2>2
  <2>6. \A q \in timers' : socket'[q] = "closed"
    BY <1>9, <1>f, <1>t DEF CloseEvent, Counts, TypeOK
  <2> QED
    BY <2>2, <2>4, <2>5, <2>6 DEF Counts
<1>10. ASSUME NEW s \in Sockets, Opened(s) PROVE Counts'
  <2>1. Busy' = Busy /\ timers' = timers /\ changes' = changes /\ attempts' = 0
    BY <1>10, <1>t DEF Opened, hook, TypeOK, Busy
  <2>2. attempts' + Cardinality(timers') <= maxReconnectAttempts + changes'
    BY <1>f, <1>n, <2>1
  <2>3. \A q \in timers' : socket'[q] = "closed"
    BY <1>10, <1>f, <1>t DEF Opened, Counts, TypeOK
  <2> QED
    BY <2>1, <2>2, <2>3 DEF Counts
<1>11. ASSUME NEW ch \in Channels, Subscribe(ch) \/ Unsubscribe(ch) PROVE Counts'
  BY <1>11 DEF Subscribe, Unsubscribe, hook, Counts, Busy
<1>12. ASSUME NEW s \in Sockets, ServiceCloses(s) PROVE Counts'
  <2>1. Busy' = Busy /\ timers' = timers /\ changes' = changes /\ attempts' = attempts
    BY <1>12, <1>t DEF ServiceCloses, hook, TypeOK, Busy
  <2>2. \A q \in timers' : socket'[q] = "closed"
    BY <1>12, <1>f, <1>t DEF ServiceCloses, Counts, TypeOK
  <2> QED
    BY <2>1, <2>2 DEF Counts
<1>13. CASE UNCHANGED vars
  BY <1>13 DEF vars, hook, Counts, Busy
<1> QED
  BY <1>3, <1>4, <1>5, <1>6, <1>7, <1>8, <1>9, <1>10, <1>11, <1>12, <1>13 DEF Next

LEMMA CountsInitially == Init => Counts
<1> SUFFICES ASSUME Init PROVE Counts
  OBVIOUS
<1>1. Busy = {} /\ timers = {} /\ changes = 0 /\ attempts = 0
  BY DEF Init, Busy
<1>2. IsFiniteSet({}) /\ Cardinality({}) = 0
  BY FS_EmptySet
<1> QED
  BY <1>1, <1>2 DEF Counts

\* However many sockets of earlier users and renders are still about, the hook makes
\* at most one attempt more than the maximum for every change of the component.
THEOREM RetriesAreBounded == Spec => []RetriesBounded
<1>1. SocketInv /\ Counts => RetriesBounded
  <2> SUFFICES ASSUME SocketInv, Counts PROVE RetriesBounded
    OBVIOUS
  <2>1. timers \subseteq Busy /\ attempts \in Nat /\ changes \in Nat
    BY DEF SocketInv, TypeOK, Busy
  <2>2. Cardinality(timers) \in Nat
    BY <2>1, NoMoreThan DEF Counts
  <2> QED
    BY <2>1, <2>2 DEF Counts, RetriesBounded
<1> QED
  BY <1>1, SocketInvInitially, SocketInvPreserved, CountsInitially, CountsPreserved, PTL DEF Spec
=============================================================================
