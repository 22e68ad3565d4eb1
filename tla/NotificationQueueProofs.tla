----------------------- MODULE NotificationQueueProofs ----------------------
(***************************************************************************)
(* What NotificationQueue guarantees for any notifications, workers,       *)
(* requests and number of faults.                                          *)
(***************************************************************************)
EXTENDS NotificationQueue, FiniteSetTheorems, TLAPS

USE QueueAssumption

-----------------------------------------------------------------------------
(* What one action does to the actor that takes it, written out, and to the  *)
(* others, whom it leaves alone.                                             *)

Moves(a, pc, then, ids, batch, id, copy) ==
  /\ actor'[a] = [pc |-> pc, then |-> then, ids |-> ids, batch |-> batch, id |-> id, copy |-> copy]
  /\ \A b \in Actors \ {a} : actor'[b] = actor[b]

Typed == actor \in [Actors -> Actor]

LEMMA BecomeMoves ==
  ASSUME Typed, NEW a \in Actors, NEW x \in Actor, Become(a, x)
  PROVE  /\ Typed'
         /\ Moves(a, x.pc, x.then, x.ids, x.batch, x.id, x.copy)
BY DEF Typed, Become, Actor, Moves

LEMMA BeginSaveMoves ==
  ASSUME Typed, NEW a \in Actors, NEW n \in Notes, NEW copy \in Notification,
         NEW then \in {"idle", "process", "marking"}, BeginSave(a, n, copy, then)
  PROVE  Typed' /\ Moves(a, "set", then, actor[a].ids, actor[a].batch, n, copy)
<1> DEFINE x == [actor[a] EXCEPT !.pc = "set", !.id = n, !.copy = copy, !.then = then]
<1>1. actor[a] \in Actor
  BY DEF Typed
<1>2. /\ x \in Actor /\ x.pc = "set" /\ x.then = then /\ x.ids = actor[a].ids
      /\ x.batch = actor[a].batch /\ x.id = n /\ x.copy = copy
  BY <1>1 DEF Actor
<1> QED
  BY <1>2, BecomeMoves DEF BeginSave

\* Where Save leads, whether it succeeds or fails.
After(a) ==
  \/ /\ actor[a].then = "idle"
     /\ Moves(a, "idle", "idle", {}, [n \in Notes |-> None], None, None)
  \/ /\ actor[a].then # "idle"
     /\ Moves(a, actor[a].then, "idle", actor[a].ids, actor[a].batch, None, None)

LEMMA AfterSaveMoves ==
  ASSUME Typed, NEW a \in Actors, AfterSave(a)
  PROVE  Typed' /\ After(a)
<1> DEFINE x == [actor[a] EXCEPT !.pc = actor[a].then, !.then = "idle", !.id = None, !.copy = None]
<1>1. actor[a] \in Actor
  BY DEF Typed
<1>2. /\ Idle \in Actor /\ Idle.pc = "idle" /\ Idle.then = "idle" /\ Idle.ids = {}
      /\ Idle.batch = [n \in Notes |-> None] /\ Idle.id = None /\ Idle.copy = None
  BY DEF Idle, Actor
<1>3. /\ x \in Actor /\ x.pc = actor[a].then /\ x.then = "idle" /\ x.ids = actor[a].ids
      /\ x.batch = actor[a].batch /\ x.id = None /\ x.copy = None
  BY <1>1 DEF Actor
<1>4. CASE actor[a].then = "idle"
  BY <1>2, <1>4, BecomeMoves DEF AfterSave, After
<1>5. CASE actor[a].then # "idle"
  BY <1>3, <1>5, BecomeMoves DEF AfterSave, After
<1> QED
  BY <1>4, <1>5

Stops(a) == Moves(a, "idle", "idle", {}, [n \in Notes |-> None], None, None)

LEMMA StopMoves ==
  ASSUME Typed, NEW a \in Actors, Become(a, Idle)
  PROVE  Typed' /\ Stops(a)
BY BecomeMoves DEF Stops, Idle, Actor

LEMMA SaveSetMoves ==
  ASSUME Typed, NEW a \in Actors, SaveSet(a)
  PROVE  Typed' /\ Moves(a, "list", actor[a].then, actor[a].ids, actor[a].batch, actor[a].id, actor[a].copy)
<1> DEFINE x == [actor[a] EXCEPT !.pc = "list"]
<1>1. actor[a] \in Actor
  BY DEF Typed
<1>2. /\ x \in Actor /\ x.pc = "list" /\ x.then = actor[a].then /\ x.ids = actor[a].ids
      /\ x.batch = actor[a].batch /\ x.id = actor[a].id /\ x.copy = actor[a].copy
  BY <1>1 DEF Actor
<1> QED
  BY <1>2, BecomeMoves DEF SaveSet

LEMMA SaveListMoves ==
  ASSUME Typed, NEW a \in Actors, SaveList(a)
  PROVE  Typed' /\ Moves(a, "pend", actor[a].then, actor[a].ids, actor[a].batch, actor[a].id, actor[a].copy)
<1> DEFINE x == [actor[a] EXCEPT !.pc = "pend"]
<1>1. actor[a] \in Actor
  BY DEF Typed
<1>2. /\ x \in Actor /\ x.pc = "pend" /\ x.then = actor[a].then /\ x.ids = actor[a].ids
      /\ x.batch = actor[a].batch /\ x.id = actor[a].id /\ x.copy = actor[a].copy
  BY <1>1 DEF Actor
<1> QED
  BY <1>2, BecomeMoves DEF SaveList

LEMMA NewTyped ==
  ASSUME NEW kind \in Kinds, NEW status \in Status, NEW scheduled \in BOOLEAN
  PROVE  /\ NewNotification(kind, status, scheduled) \in Notification
         /\ NewNotification(kind, status, scheduled).status = status
         /\ NewNotification(kind, status, scheduled).scheduled = scheduled
         /\ NewNotification(kind, status, scheduled).retries = 0
BY DEF NewNotification, Notification

LEMMA MarkedTyped ==
  ASSUME NEW copy \in Notification
  PROVE  /\ MarkedRead(copy) \in Notification
         /\ MarkedRead(copy).status = "read"
         /\ MarkedRead(copy).scheduled = copy.scheduled
         /\ MarkedRead(copy).retries = copy.retries
BY DEF MarkedRead, Notification, Status

\* An attempt ends in a status that is not queued, and counts if it fails.
LEMMA AttemptTyped ==
  ASSUME NEW copy \in Notification, NEW outcome \in Outcomes(copy.kind)
  PROVE  /\ AfterAttempt(copy, outcome) \in Notification
         /\ AfterAttempt(copy, outcome).status # "queued"
         /\ AfterAttempt(copy, outcome).retries =
              IF outcome = "error" THEN copy.retries + 1 ELSE copy.retries
<1>1. outcome \in {"sent", "error", "delivered"}
  BY DEF Outcomes, Notification
<1>2. CASE outcome = "error"
  <2> DEFINE status == IF copy.retries + 1 >= RetryLimit THEN "failed" ELSE "sending"
  <2>1. status \in Status \ {"queued"} /\ copy.retries + 1 \in Nat
    BY DEF Status, Notification
  <2>2. AfterAttempt(copy, outcome) = [copy EXCEPT !.retries = copy.retries + 1, !.status = status]
    BY <1>2 DEF AfterAttempt
  <2> HIDE DEF status
  <2> QED
    BY <1>2, <2>1, <2>2 DEF Notification
<1>3. CASE outcome # "error"
  BY <1>1, <1>3 DEF AfterAttempt, Notification, Status
<1> QED
  BY <1>2, <1>3

LEMMA ScheduleMoves ==
  ASSUME Typed, NEW r \in Requests, NEW n \in Notes, NEW kind \in Kinds, NEW soon \in BOOLEAN,
         Schedule(r, n, kind, soon)
  PROVE  Typed' /\ Moves(r, "set", "idle", actor[r].ids, actor[r].batch, n,
                         NewNotification(kind, "queued", TRUE))
BY NewTyped, BeginSaveMoves DEF Schedule, Status, Actors

LEMMA SendNowMoves ==
  ASSUME Typed, NEW r \in Requests, NEW n \in Notes, NEW kind \in Kinds, SendNow(r, n, kind)
  PROVE  /\ Typed'
         /\ \E status \in Status \ {"queued"} :
              Moves(r, "set", "idle", actor[r].ids, actor[r].batch, n,
                    NewNotification(kind, status, FALSE))
<1>1. PICK outcome \in Outcomes(kind) :
        BeginSave(r, n, NewNotification(kind, IF outcome = "error" THEN "failed" ELSE outcome, FALSE), "idle")
  BY DEF SendNow
<1> DEFINE status == IF outcome = "error" THEN "failed" ELSE outcome
<1>2. status \in Status \ {"queued"}
  BY DEF Outcomes, Status
<1>3. NewNotification(kind, status, FALSE) \in Notification
  BY <1>2, NewTyped
<1> HIDE DEF status
<1>4. Typed' /\ Moves(r, "set", "idle", actor[r].ids, actor[r].batch, n, NewNotification(kind, status, FALSE))
  BY <1>1, <1>3, BeginSaveMoves DEF Actors, status
<1> QED
  BY <1>2, <1>4

\* The part of TypeOK about the stored notifications and the ids.
Stored ==
  /\ store \in [Notes -> Notification \cup {None}]
  /\ {listed, pending, due} \subseteq SUBSET Notes

LEMMA MarkAsReadMoves ==
  ASSUME Typed, Stored, NEW r \in Requests, NEW n \in Notes, MarkAsRead(r, n)
  PROVE  /\ store[n] \in Notification
         /\ Typed' /\ Moves(r, "set", "idle", actor[r].ids, actor[r].batch, n, MarkedRead(store[n]))
<1>1. store[n] \in Notification
  BY DEF MarkAsRead, Exists, Stored
<1> QED
  BY <1>1, MarkedTyped, BeginSaveMoves DEF MarkAsRead, Actors

LEMMA MarkAllListMoves ==
  ASSUME Typed, Stored, NEW r \in Requests, MarkAllList(r)
  PROVE  Typed' /\ Moves(r, "marking", "idle", listed, [n \in Notes |-> None], None, None)
<1> DEFINE x == [Idle EXCEPT !.pc = "marking", !.ids = listed]
<1>1. /\ x \in Actor /\ x.pc = "marking" /\ x.then = "idle" /\ x.ids = listed
      /\ x.batch = [n \in Notes |-> None] /\ x.id = None /\ x.copy = None
  BY DEF Idle, Actor, Stored
<1>2. Become(r, x)
  BY DEF MarkAllList
<1> HIDE DEF x
<1> QED
  BY <1>1, <1>2, BecomeMoves DEF Actors

LEMMA MarkAllNextMoves ==
  ASSUME Typed, Stored, NEW r \in Requests, NEW n \in Notes, MarkAllNext(r, n)
  PROVE  /\ Typed'
         /\ \/ /\ store[n] \in Notification
               /\ Moves(r, "set", "marking", actor[r].ids \ {n}, actor[r].batch, n, MarkedRead(store[n]))
            \/ Moves(r, "marking", actor[r].then, actor[r].ids \ {n}, actor[r].batch,
                     actor[r].id, actor[r].copy)
<1> DEFINE rest == [actor[r] EXCEPT !.ids = @ \ {n}]
           x    == [rest EXCEPT !.pc = "set", !.id = n, !.copy = MarkedRead(store[n]), !.then = "marking"]
<1>1. actor[r] \in Actor /\ actor[r].pc = "marking"
  BY DEF Typed, Actors, MarkAllNext, At
<1>2. /\ rest \in Actor /\ rest.pc = "marking" /\ rest.then = actor[r].then /\ rest.ids = actor[r].ids \ {n}
      /\ rest.batch = actor[r].batch /\ rest.id = actor[r].id /\ rest.copy = actor[r].copy
  BY <1>1 DEF Actor
<1>3. CASE Exists(n) /\ ~store[n].read
  <2>1. store[n] \in Notification /\ MarkedRead(store[n]) \in Notification
    BY <1>3, MarkedTyped DEF Exists, Stored
  <2>2. /\ x \in Actor /\ x.pc = "set" /\ x.then = "marking" /\ x.ids = actor[r].ids \ {n}
        /\ x.batch = actor[r].batch /\ x.id = n /\ x.copy = MarkedRead(store[n])
    BY <1>2, <2>1 DEF Actor
  <2>3. Become(r, x)
    BY <1>3 DEF MarkAllNext
  <2> HIDE DEF x, rest
  <2> QED
    BY <2>1, <2>2, <2>3, BecomeMoves DEF Actors
<1>4. CASE ~(Exists(n) /\ ~store[n].read)
  <2>1. Become(r, rest)
    BY <1>4 DEF MarkAllNext
  <2> HIDE DEF rest, x
  <2>2. Typed' /\ Moves(r, rest.pc, rest.then, rest.ids, rest.batch, rest.id, rest.copy)
    BY <1>2, <2>1, BecomeMoves DEF Actors
  <2> QED
    BY <1>2, <2>2
<1> QED
  BY <1>3, <1>4

LEMMA DeleteReadMoves ==
  ASSUME Typed, NEW r \in Requests, NEW n \in Notes, DeleteRead(r, n)
  PROVE  Typed' /\ Moves(r, "delete", "idle", {}, [m \in Notes |-> None], n, None)
<1> DEFINE x == [Idle EXCEPT !.pc = "delete", !.id = n]
<1>1. /\ x \in Actor /\ x.pc = "delete" /\ x.then = "idle" /\ x.ids = {}
      /\ x.batch = [m \in Notes |-> None] /\ x.id = n /\ x.copy = None
  BY DEF Idle, Actor
<1>2. Become(r, x)
  BY DEF DeleteRead
<1> HIDE DEF x
<1> QED
  BY <1>1, <1>2, BecomeMoves DEF Actors

LEMMA TickMoves ==
  ASSUME Typed, Stored, NEW w \in Workers, Tick(w)
  PROVE  Typed' /\ Moves(w, "fetch", "idle", pending \cap due, [n \in Notes |-> None], None, None)
<1> DEFINE x == [Idle EXCEPT !.pc = "fetch", !.ids = Ready]
<1>1. /\ x \in Actor /\ x.pc = "fetch" /\ x.then = "idle" /\ x.ids = pending \cap due
      /\ x.batch = [n \in Notes |-> None] /\ x.id = None /\ x.copy = None
  BY DEF Idle, Actor, Stored, Ready
<1>2. Become(w, x)
  BY DEF Tick
<1> HIDE DEF x
<1>3. Typed' /\ Moves(w, x.pc, x.then, x.ids, x.batch, x.id, x.copy)
  BY <1>1, <1>2, BecomeMoves DEF Actors
<1> QED
  BY <1>1, <1>3

LEMMA FetchMoves ==
  ASSUME Typed, Stored, NEW w \in Workers, NEW n \in Notes, Fetch(w, n)
  PROVE  Typed' /\ Moves(w, IF actor[w].ids = {n} THEN "process" ELSE "fetch", actor[w].then,
                         actor[w].ids \ {n}, [actor[w].batch EXCEPT ![n] = store[n]],
                         actor[w].id, actor[w].copy)
<1> DEFINE pc == IF actor[w].ids = {n} THEN "process" ELSE "fetch"
           x  == [actor[w] EXCEPT !.ids = @ \ {n}, !.batch[n] = store[n], !.pc = pc]
<1>1. actor[w] \in Actor
  BY DEF Typed, Actors
<1>2. [actor[w].batch EXCEPT ![n] = store[n]] \in [Notes -> Notification \cup {None}]
  BY <1>1 DEF Actor, Stored
<1>3. /\ x \in Actor /\ x.pc = pc /\ x.then = actor[w].then /\ x.ids = actor[w].ids \ {n}
      /\ x.batch = [actor[w].batch EXCEPT ![n] = store[n]] /\ x.id = actor[w].id /\ x.copy = actor[w].copy
  BY <1>1, <1>2 DEF Actor
<1>4. Become(w, x)
  BY DEF Fetch
<1> HIDE DEF x
<1> QED
  BY <1>3, <1>4, BecomeMoves DEF Actors

\* The worker attempts to deliver n from the copy it fetched.
Attempts(w, n, copy, outcome) ==
  /\ copy = actor[w].batch[n] /\ copy \in Notification /\ outcome \in Outcomes(copy.kind)
  /\ Delivered(n, outcome)
  /\ Moves(w, "set", "process", actor[w].ids, [actor[w].batch EXCEPT ![n] = None], n,
           AfterAttempt(copy, outcome))

LEMMA ProcessMoves ==
  ASSUME Typed, NEW w \in Workers, NEW n \in Notes, Process(w, n)
  PROVE  Typed' /\ \E copy, outcome : Attempts(w, n, copy, outcome)
<1> DEFINE copy == actor[w].batch[n]
<1>1. actor[w] \in Actor /\ copy \in Notification
  BY DEF Typed, Actors, Process, Actor
<1>2. PICK outcome \in Outcomes(copy.kind) :
        /\ Delivered(n, outcome)
        /\ Become(w, [actor[w] EXCEPT !.batch[n] = None, !.pc = "set", !.id = n,
                         !.copy = AfterAttempt(copy, outcome), !.then = "process"])
  BY DEF Process
<1> DEFINE x == [actor[w] EXCEPT !.batch[n] = None, !.pc = "set", !.id = n,
                   !.copy = AfterAttempt(copy, outcome), !.then = "process"]
<1>3. AfterAttempt(copy, outcome) \in Notification
  BY <1>1, AttemptTyped
<1>4. [actor[w].batch EXCEPT ![n] = None] \in [Notes -> Notification \cup {None}]
  BY <1>1 DEF Actor
<1>5. /\ x \in Actor /\ x.pc = "set" /\ x.then = "process" /\ x.ids = actor[w].ids
      /\ x.batch = [actor[w].batch EXCEPT ![n] = None] /\ x.id = n /\ x.copy = AfterAttempt(copy, outcome)
  BY <1>1, <1>3, <1>4 DEF Actor
<1>6. Become(w, x)
  BY <1>2
<1> HIDE DEF x
<1>7. Typed' /\ Moves(w, "set", "process", actor[w].ids, [actor[w].batch EXCEPT ![n] = None], n,
                      AfterAttempt(copy, outcome))
  BY <1>5, <1>6, BecomeMoves DEF Actors
<1> QED
  BY <1>1, <1>2, <1>7 DEF Attempts

-----------------------------------------------------------------------------
(* Types, and which fields are set where.                                    *)

Saves == {"set", "list", "pend"}

Shape(pc, id, copy) ==
  /\ pc \in Saves <=> copy # None
  /\ pc \in Saves \cup {"delete"} <=> id # None

\* A worker has an id once: on its list, in its batch or in hand.
WorkerShape(pc, ids, batch, id) ==
  /\ pc # "delete"
  /\ pc # "fetch" => ids = {}
  /\ \A n \in Notes : batch[n] # None => id # n /\ n \notin ids

Shaped ==
  /\ \A a \in Actors : Shape(actor[a].pc, actor[a].id, actor[a].copy)
  /\ \A w \in Workers : WorkerShape(actor[w].pc, actor[w].ids, actor[w].batch, actor[w].id)

LEMMA ShapeMoves ==
  ASSUME Shaped, NEW a \in Actors, NEW pc, NEW then, NEW ids, NEW batch, NEW id, NEW copy,
         Moves(a, pc, then, ids, batch, id, copy),
         Shape(pc, id, copy), a \in Workers => WorkerShape(pc, ids, batch, id)
  PROVE  Shaped'
<1>1. ASSUME NEW b \in Actors PROVE Shape(actor'[b].pc, actor'[b].id, actor'[b].copy)
  <2>1. CASE b = a
    BY <2>1 DEF Moves
  <2>2. CASE b # a
    BY <2>2 DEF Moves, Shaped
  <2> QED
    BY <2>1, <2>2
<1>2. ASSUME NEW w \in Workers
      PROVE WorkerShape(actor'[w].pc, actor'[w].ids, actor'[w].batch, actor'[w].id)
  <2>1. CASE w = a
    BY <2>1 DEF Moves
  <2>2. CASE w # a
    BY <2>2 DEF Moves, Shaped, Actors
  <2> QED
    BY <2>1, <2>2
<1> QED
  BY <1>1, <1>2 DEF Shaped

\* The type of an actor at work.
LEMMA ActorTyped ==
  ASSUME Typed, Shaped, NEW a \in Actors
  PROVE  /\ actor[a].pc \in {"idle", "fetch", "process", "marking", "delete", "set", "list", "pend"}
         /\ actor[a].then \in {"idle", "process", "marking"}
         /\ actor[a].ids \subseteq Notes
         /\ actor[a].batch \in [Notes -> Notification \cup {None}]
         /\ actor[a].id \in Notes \cup {None} /\ actor[a].copy \in Notification \cup {None}
         /\ actor[a].pc \in Saves => actor[a].id \in Notes /\ actor[a].copy \in Notification
         /\ actor[a].pc = "delete" => actor[a].id \in Notes
<1>1. actor[a] \in Actor
  BY DEF Typed
<1>2. Shape(actor[a].pc, actor[a].id, actor[a].copy)
  BY DEF Shaped
<1> QED
  BY <1>1, <1>2 DEF Actor, Shape, Saves

LEMMA SavingTyped ==
  ASSUME Typed, Shaped, NEW a \in Actors, actor[a].pc \in Saves
  PROVE  actor[a].id \in Notes /\ actor[a].copy \in Notification
BY ActorTyped

LEMMA StopShape ==
  ASSUME Shaped, NEW a \in Actors, Stops(a)
  PROVE  Shaped'
<1>1. Shape("idle", None, None)
  BY DEF Shape, Saves
<1>2. WorkerShape("idle", {}, [n \in Notes |-> None], None)
  BY DEF WorkerShape
<1> QED
  BY <1>1, <1>2, ShapeMoves DEF Stops

LEMMA AfterShape ==
  ASSUME Typed, Shaped, NEW a \in Actors, actor[a].pc \in Saves, After(a)
  PROVE  Shaped'
<1>1. CASE Stops(a)
  BY <1>1, StopShape
<1>2. CASE /\ actor[a].then # "idle"
           /\ Moves(a, actor[a].then, "idle", actor[a].ids, actor[a].batch, None, None)
  <2>1. actor[a].then \in {"process", "marking"}
    BY <1>2, ActorTyped
  <2>2. Shape(actor[a].then, None, None)
    BY <2>1 DEF Shape, Saves
  <2>3. a \in Workers => WorkerShape(actor[a].then, actor[a].ids, actor[a].batch, None)
    BY <2>1 DEF Shaped, WorkerShape, Saves
  <2> QED
    BY <1>2, <2>2, <2>3, ShapeMoves
<1> QED
  BY <1>1, <1>2 DEF After, Stops

\* An actor that goes on to save the copy of a notification.
LEMMA SaveShape ==
  ASSUME Shaped, NEW r \in Requests, NEW then, NEW ids, NEW batch, NEW n \in Notes,
         NEW copy \in Notification, Moves(r, "set", then, ids, batch, n, copy)
  PROVE  Shaped'
<1>1. Shape("set", n, copy)
  BY DEF Shape, Saves
<1> QED
  BY <1>1, ShapeMoves DEF Actors

LEMMA ShapePreserved ==
  ASSUME Typed, Stored, Shaped, [Next]_vars
  PROVE  Typed' /\ Shaped'
<1>1. ASSUME NEW a \in Actors, SaveSet(a) PROVE Typed' /\ Shaped'
  <2>1. Shape("list", actor[a].id, actor[a].copy)
    BY <1>1 DEF SaveSet, At, Shaped, Shape, Saves
  <2>2. a \in Workers => WorkerShape("list", actor[a].ids, actor[a].batch, actor[a].id)
    BY <1>1 DEF SaveSet, At, Shaped, WorkerShape
  <2> QED
    BY <1>1, <2>1, <2>2, SaveSetMoves, ShapeMoves
<1>2. ASSUME NEW a \in Actors, SaveList(a) PROVE Typed' /\ Shaped'
  <2>1. Shape("pend", actor[a].id, actor[a].copy)
    BY <1>2 DEF SaveList, At, Shaped, Shape, Saves
  <2>2. a \in Workers => WorkerShape("pend", actor[a].ids, actor[a].batch, actor[a].id)
    BY <1>2 DEF SaveList, At, Shaped, WorkerShape
  <2> QED
    BY <1>2, <2>1, <2>2, SaveListMoves, ShapeMoves
<1>3. ASSUME NEW a \in Actors, SavePend(a) \/ SaveFails(a) PROVE Typed' /\ Shaped'
  BY <1>3, AfterSaveMoves, AfterShape DEF SavePend, SaveFails, At, Saves
<1>4. ASSUME NEW r \in Requests, NEW n \in Notes, NEW kind \in Kinds, NEW soon \in BOOLEAN,
             Schedule(r, n, kind, soon)
      PROVE Typed' /\ Shaped'
  <2>1. Typed' /\ Moves(r, "set", "idle", actor[r].ids, actor[r].batch, n,
                        NewNotification(kind, "queued", TRUE))
    BY <1>4, ScheduleMoves
  <2>2. NewNotification(kind, "queued", TRUE) \in Notification
    BY NewTyped DEF Status
  <2> QED
    BY <2>1, <2>2, SaveShape
<1>5. ASSUME NEW r \in Requests, NEW n \in Notes, NEW kind \in Kinds, SendNow(r, n, kind)
      PROVE Typed' /\ Shaped'
  BY <1>5, SendNowMoves, SaveShape, NewTyped
<1>6. ASSUME NEW r \in Requests, NEW n \in Notes, MarkAsRead(r, n) PROVE Typed' /\ Shaped'
  BY <1>6, MarkAsReadMoves, SaveShape, MarkedTyped
<1>7. ASSUME NEW r \in Requests, MarkAllList(r) PROVE Typed' /\ Shaped'
  <2>1. Shape("marking", None, None)
    BY DEF Shape, Saves
  <2> QED
    BY <1>7, <2>1, MarkAllListMoves, ShapeMoves DEF Actors
<1>8. ASSUME NEW r \in Requests, NEW n \in Notes, MarkAllNext(r, n) PROVE Typed' /\ Shaped'
  <2>1. Shape("marking", actor[r].id, actor[r].copy)
    BY <1>8 DEF MarkAllNext, At, Shaped, Actors
  <2>2. CASE /\ store[n] \in Notification
             /\ Moves(r, "set", "marking", actor[r].ids \ {n}, actor[r].batch, n, MarkedRead(store[n]))
    BY <1>8, <2>2, MarkAllNextMoves, SaveShape, MarkedTyped
  <2>3. CASE Moves(r, "marking", actor[r].then, actor[r].ids \ {n}, actor[r].batch,
                   actor[r].id, actor[r].copy)
    BY <1>8, <2>1, <2>3, MarkAllNextMoves, ShapeMoves DEF Actors
  <2> QED
    BY <1>8, <2>2, <2>3, MarkAllNextMoves
<1>9. ASSUME NEW a \in Actors, Become(a, Idle) PROVE Typed' /\ Shaped'
  BY <1>9, StopMoves, StopShape
<1>10. ASSUME NEW r \in Requests, NEW n \in Notes, DeleteRead(r, n) PROVE Typed' /\ Shaped'
  <2>1. Shape("delete", n, None)
    BY DEF Shape, Saves
  <2> QED
    BY <1>10, <2>1, DeleteReadMoves, ShapeMoves DEF Actors
<1>11. ASSUME NEW w \in Workers, Tick(w) PROVE Typed' /\ Shaped'
  <2>1. Shape("fetch", None, None) /\ WorkerShape("fetch", pending \cap due, [n \in Notes |-> None], None)
    BY DEF Shape, Saves, WorkerShape
  <2> QED
    BY <1>11, <2>1, TickMoves, ShapeMoves DEF Actors
<1>12. ASSUME NEW w \in Workers, NEW n \in Notes, Fetch(w, n) PROVE Typed' /\ Shaped'
  <2> DEFINE pc == IF actor[w].ids = {n} THEN "process" ELSE "fetch"
             batch == [actor[w].batch EXCEPT ![n] = store[n]]
  <2>1. actor[w].pc = "fetch" /\ n \in actor[w].ids
    BY <1>12 DEF Fetch, At
  <2>2. Shape(pc, actor[w].id, actor[w].copy)
    BY <2>1 DEF Shaped, Shape, Saves, Actors
  <2>3. actor[w].id = None
    BY <2>1 DEF Shaped, Shape, Saves, Actors
  <2>4. \A m \in Notes : batch[m] = IF m = n THEN store[n] ELSE actor[w].batch[m]
    BY ActorTyped DEF Actors
  <2>5. WorkerShape(pc, actor[w].ids \ {n}, batch, actor[w].id)
    BY <2>1, <2>3, <2>4 DEF Shaped, WorkerShape
  <2> HIDE DEF pc, batch
  <2>6. Typed' /\ Moves(w, pc, actor[w].then, actor[w].ids \ {n}, batch, actor[w].id, actor[w].copy)
    BY <1>12, FetchMoves DEF pc, batch
  <2> QED
    BY <2>2, <2>5, <2>6, ShapeMoves DEF Actors
<1>13. ASSUME NEW w \in Workers, NEW n \in Notes, Process(w, n) PROVE Typed' /\ Shaped'
  <2>1. PICK copy, outcome : Typed' /\ Attempts(w, n, copy, outcome)
    BY <1>13, ProcessMoves
  <2> DEFINE batch == [actor[w].batch EXCEPT ![n] = None]
  <2>2. AfterAttempt(copy, outcome) \in Notification
    BY <2>1, AttemptTyped DEF Attempts
  <2>3. Shape("set", n, AfterAttempt(copy, outcome))
    BY <2>2 DEF Shape, Saves
  <2>4. \A m \in Notes : batch[m] = IF m = n THEN None ELSE actor[w].batch[m]
    BY ActorTyped DEF Actors
  <2>5. actor[w].ids = {}
    BY <1>13 DEF Process, At, Shaped, WorkerShape
  <2>6. WorkerShape("set", actor[w].ids, batch, n)
    BY <2>4, <2>5 DEF WorkerShape
  <2> HIDE DEF batch
  <2>7. Moves(w, "set", "process", actor[w].ids, batch, n, AfterAttempt(copy, outcome))
    BY <2>1 DEF Attempts, batch
  <2> QED
    BY <2>1, <2>3, <2>6, <2>7, ShapeMoves DEF Actors
<1>14. CASE UNCHANGED actor
  BY <1>14 DEF Typed, Shaped
<1> QED
  BY <1>1, <1>2, <1>3, <1>4, <1>5, <1>6, <1>7, <1>8, <1>9, <1>10, <1>11, <1>12, <1>13, <1>14
  DEF Next, vars, Work, Save, Request, Continue, MarkAllDone, DeleteWrite, ProcessDone, Die, ComeDue,
      Actors

QueueInv == TypeOK /\ Shaped

LEMMA TypePreserved ==
  ASSUME QueueInv, [Next]_vars
  PROVE  QueueInv'
<1> USE DEF TypeOK, QueueInv
<1>1. Typed /\ Stored
  BY DEF Typed, Stored
<1>2. Typed' /\ Shaped'
  BY <1>1, ShapePreserved
<1>t. \A a \in Actors : /\ actor[a].pc \in Saves => actor[a].id \in Notes /\ actor[a].copy \in Notification
                       /\ actor[a].pc = "delete" => actor[a].id \in Notes
  BY <1>1, ActorTyped
<1>3. CASE UNCHANGED <<store, listed, pending, due, sends, faults>>
  BY <1>2, <1>3 DEF Typed
<1>4. ASSUME NEW a \in Actors, SaveSet(a) PROVE TypeOK'
  <2>1. actor[a].id \in Notes /\ actor[a].copy \in Notification
    <3>1. actor[a].pc \in Saves
      BY <1>4 DEF SaveSet, At, Saves
    <3> QED
      BY <1>1, <3>1, SavingTyped DEF QueueInv
  <2>2. store' \in [Notes -> Notification \cup {None}]
    BY <1>4, <2>1 DEF SaveSet
  <2> QED
    BY <1>2, <1>4, <2>2 DEF SaveSet, Typed
<1>5. ASSUME NEW a \in Actors, SaveList(a) PROVE TypeOK'
  <2>1. actor[a].id \in Notes /\ actor[a].copy \in Notification
    <3>1. actor[a].pc \in Saves
      BY <1>5 DEF SaveList, At, Saves
    <3> QED
      BY <1>1, <3>1, SavingTyped DEF QueueInv
  <2>2. listed' \subseteq Notes
    BY <1>5, <2>1 DEF SaveList
  <2> QED
    BY <1>2, <1>5, <2>2 DEF SaveList, Typed
<1>6. ASSUME NEW a \in Actors, SavePend(a) PROVE TypeOK'
  <2>1. actor[a].id \in Notes /\ actor[a].copy \in Notification
    <3>1. actor[a].pc \in Saves
      BY <1>6 DEF SavePend, At, Saves
    <3> QED
      BY <1>1, <3>1, SavingTyped DEF QueueInv
  <2>2. pending' \subseteq Notes
    BY <1>6, <2>1 DEF PendingAfter, SavePend
  <2> QED
    BY <1>2, <1>6, <2>2 DEF SavePend, Typed
<1>7. ASSUME NEW a \in Actors, SaveFails(a) \/ Die(a) PROVE TypeOK'
  <2>1. faults' \in 0..MaxFaults
    BY <1>7 DEF SaveFails, Die, Fault
  <2> QED
    BY <1>2, <1>7, <2>1 DEF SaveFails, Die, Typed
<1>8. ASSUME NEW n \in Notes, NEW outcome, Delivered(n, outcome) PROVE sends' \in [Notes -> Nat]
  BY <1>8 DEF Delivered, TypeOK
<1>9. ASSUME NEW r \in Requests, NEW n \in Notes, NEW kind \in Kinds, SendNow(r, n, kind) PROVE TypeOK'
  <2>1. sends' \in [Notes -> Nat]
    BY <1>8, <1>9 DEF SendNow
  <2> QED
    BY <1>2, <1>9, <2>1 DEF SendNow, Typed
<1>10. ASSUME NEW w \in Workers, NEW n \in Notes, Process(w, n) PROVE TypeOK'
  <2>1. sends' \in [Notes -> Nat]
    BY <1>8, <1>10 DEF Process
  <2> QED
    BY <1>2, <1>10, <2>1 DEF Process, Typed
<1>11. ASSUME NEW r \in Requests, DeleteWrite(r) PROVE TypeOK'
  BY <1>2, <1>11 DEF DeleteWrite, Typed
<1>12. ASSUME NEW n \in Notes, ComeDue(n) PROVE TypeOK'
  BY <1>2, <1>12 DEF ComeDue, Typed
<1>13. ASSUME NEW r \in Requests, NEW n \in Notes, NEW kind \in Kinds, NEW soon \in BOOLEAN,
              Schedule(r, n, kind, soon)
       PROVE TypeOK'
  BY <1>2, <1>13 DEF Schedule, Typed
<1>14. ASSUME NEW r \in Requests, Request(r) PROVE TypeOK'
  <2>1. CASE MarkAllList(r)
    BY <1>3, <2>1 DEF MarkAllList
  <2>2. CASE \E n \in Notes : MarkAsRead(r, n) \/ DeleteRead(r, n)
    BY <1>3, <2>2 DEF MarkAsRead, DeleteRead
  <2>3. CASE \E n \in Notes, kind \in Kinds : SendNow(r, n, kind)
    BY <1>9, <2>3
  <2>4. CASE \E n \in Notes, kind \in Kinds, soon \in BOOLEAN : Schedule(r, n, kind, soon)
    BY <1>13, <2>4
  <2> QED
    BY <1>14, <2>1, <2>2, <2>3, <2>4 DEF Request
<1>15. ASSUME NEW r \in Requests, Continue(r) PROVE TypeOK'
  BY <1>2, <1>3, <1>4, <1>5, <1>6, <1>11, <1>15 DEF Continue, Save, MarkAllDone, MarkAllNext, Actors
<1>16. ASSUME NEW w \in Workers, Work(w) PROVE TypeOK'
  BY <1>2, <1>3, <1>4, <1>5, <1>6, <1>10, <1>16 DEF Work, Save, Tick, Fetch, ProcessDone, Actors
<1>17. TypeOK'
  <2>1. CASE \E w \in Workers : Work(w)
    BY <1>16, <2>1
  <2>2. CASE \E r \in Requests : Request(r) \/ Continue(r)
    BY <1>14, <1>15, <2>2
  <2>3. CASE \E a \in Actors : SaveFails(a) \/ Die(a)
    BY <1>7, <2>3
  <2>4. CASE \E n \in Notes : ComeDue(n)
    BY <1>12, <2>4
  <2>5. CASE UNCHANGED vars
    BY <1>3, <2>5 DEF vars
  <2> QED
    BY <2>1, <2>2, <2>3, <2>4, <2>5 DEF Next
<1> QED
  BY <1>2, <1>17

LEMMA QueueInvInit == Init => QueueInv
<1> SUFFICES ASSUME Init PROVE QueueInv
  OBVIOUS
<1>1. Idle \in Actor
  BY DEF Idle, Actor
<1>2. TypeOK
  BY <1>1 DEF Init, TypeOK
<1>3. Shape("idle", None, None) /\ WorkerShape("idle", {}, [n \in Notes |-> None], None)
  BY DEF Shape, Saves, WorkerShape
<1>4. Shaped
  BY <1>3 DEF Init, Shaped, Idle, Actors
<1> QED
  BY <1>2, <1>4 DEF QueueInv

LEMMA QueueInvariant == Spec => []QueueInv
BY QueueInvInit, TypePreserved, PTL DEF Spec

\* Whatever is stored has the type of a notification, and no actor saves without a
\* copy in hand or deletes without an id.
THEOREM QueueTypeCorrect == Spec => []TypeOK
<1>1. QueueInv => TypeOK
  BY DEF QueueInv
<1> QED
  BY <1>1, QueueInvariant, PTL

-----------------------------------------------------------------------------
(* The kinds of steps, by what they do to the copies in hand.                *)

Others(a) == \A b \in Actors \ {a} : actor'[b] = actor[b]

\* The actor goes on to the next command of its Save.
GoesOn(a, pc) ==
  /\ Others(a)
  /\ actor'[a].pc = pc /\ actor'[a].id = actor[a].id /\ actor'[a].copy = actor[a].copy
  /\ actor'[a].ids = actor[a].ids /\ actor'[a].batch = actor[a].batch

Sets(a) ==
  /\ actor[a].pc = "set" /\ GoesOn(a, "list")
  /\ store' = [store EXCEPT ![actor[a].id] = actor[a].copy]
  /\ UNCHANGED <<listed, pending, due, sends, faults>>

Lists(a) ==
  /\ actor[a].pc = "list" /\ GoesOn(a, "pend")
  /\ UNCHANGED <<store, pending, due, sends, faults>>

\* The actor has nothing in hand any more.
Drops(a) ==
  /\ Others(a)
  /\ actor'[a].pc \notin Saves /\ actor'[a].id = None /\ actor'[a].copy = None
  /\ actor'[a].ids \subseteq actor[a].ids
  /\ \A n \in Notes : actor'[a].batch[n] \in {actor[a].batch[n], None}

Pends(a) ==
  /\ actor[a].pc = "pend" /\ Drops(a)
  /\ pending' = PendingAfter(actor[a].id, actor[a].copy)
  /\ UNCHANGED <<store, listed, due, sends, faults>>

Faults(a) ==
  /\ Drops(a)
  /\ faults' = faults + 1
  /\ UNCHANGED <<store, listed, pending, due, sends>>

Deletes(r) ==
  /\ r \in Requests /\ actor[r].pc = "delete" /\ Drops(r)
  /\ store' = [store EXCEPT ![actor[r].id] = None]
  /\ pending' = pending \ {actor[r].id}
  /\ UNCHANGED <<due, sends, faults>>

\* The actor turns to another list, or reads an entry of it.
Browses(a) ==
  /\ Others(a)
  /\ actor[a].pc \notin Saves /\ actor'[a].pc \notin Saves
  /\ a \in Workers =>
       /\ actor'[a].id = None
       /\ \A n \in Notes :
            /\ n \in actor'[a].ids => n \in actor[a].ids \cup (pending \cap due)
            /\ actor'[a].batch[n] # None =>
                 \/ actor'[a].batch[n] = actor[a].batch[n]
                 \/ n \in actor[a].ids /\ actor'[a].batch[n] = store[n]
  /\ UNCHANGED <<store, listed, pending, due, sends, faults>>

\* A request begins to save a notification that is new, or a copy of a stored one.
Begins(r, n, copy) ==
  /\ r \in Requests /\ actor[r].pc \notin Saves /\ Others(r)
  /\ copy \in Notification
  /\ actor'[r].pc = "set" /\ actor'[r].id = n /\ actor'[r].copy = copy
  /\ due \subseteq due'
  /\ UNCHANGED <<store, listed, pending, faults>>
  /\ \/ /\ Fresh(n) /\ copy.status = "queued" /\ copy.retries = 0
        /\ UNCHANGED sends
     \/ /\ Fresh(n) /\ copy.status # "queued" /\ ~copy.scheduled /\ copy.retries = 0
        /\ sends'[n] \in {0, 1} /\ \A m \in Notes \ {n} : sends'[m] = sends[m]
     \/ /\ store[n] \in Notification /\ copy.status = "read"
        /\ copy.scheduled = store[n].scheduled /\ copy.retries = store[n].retries
        /\ UNCHANGED sends

\* A worker has attempted to deliver n, and goes on to save the outcome.
Tries(w, n) ==
  /\ w \in Workers /\ actor[w].pc = "process" /\ Others(w)
  /\ actor[w].batch[n] \in Notification
  /\ actor'[w].pc = "set" /\ actor'[w].id = n /\ actor'[w].ids = actor[w].ids
  /\ actor'[w].copy \in Notification /\ actor'[w].copy.status # "queued"
  /\ actor'[w].batch[n] = None
  /\ \A m \in Notes \ {n} : actor'[w].batch[m] = actor[w].batch[m] /\ sends'[m] = sends[m]
  /\ \/ sends'[n] = sends[n] /\ actor'[w].copy.retries = actor[w].batch[n].retries + 1
     \/ sends'[n] = sends[n] + 1 /\ actor'[w].copy.retries = actor[w].batch[n].retries
  /\ UNCHANGED <<store, listed, pending, due, faults>>

ComesDue == due \subseteq due' /\ UNCHANGED <<store, listed, pending, actor, sends, faults>>

AnyStep ==
  \/ \E a \in Actors : Sets(a) \/ Lists(a) \/ Pends(a) \/ Faults(a) \/ Deletes(a) \/ Browses(a)
  \/ \E r \in Requests, n \in Notes, copy \in Notification : Begins(r, n, copy)
  \/ \E w \in Workers, n \in Notes : Tries(w, n)
  \/ ComesDue

LEMMA StopDrops ==
  ASSUME NEW a \in Actors, Stops(a)
  PROVE  Drops(a)
BY DEF Stops, Drops, Moves, Others, Saves

LEMMA AfterDrops ==
  ASSUME Typed, Shaped, NEW a \in Actors, After(a)
  PROVE  Drops(a)
<1>1. actor[a].then \in {"idle", "process", "marking"}
  BY ActorTyped
<1>2. CASE Stops(a)
  BY <1>2, StopDrops
<1>3. CASE /\ actor[a].then # "idle"
           /\ Moves(a, actor[a].then, "idle", actor[a].ids, actor[a].batch, None, None)
  BY <1>1, <1>3 DEF Drops, Moves, Others, Saves
<1> QED
  BY <1>2, <1>3 DEF After, Stops

LEMMA EveryStep ==
  ASSUME QueueInv, [Next]_vars
  PROVE  AnyStep
<1>1. Typed /\ Stored /\ Shaped
  BY DEF QueueInv, TypeOK, Typed, Stored
<1>2. sends \in [Notes -> Nat]
  BY DEF QueueInv, TypeOK
<1>3. ASSUME NEW a \in Actors, SaveSet(a) PROVE Sets(a)
  <2>1. GoesOn(a, "list")
    <3>1. Moves(a, "list", actor[a].then, actor[a].ids, actor[a].batch, actor[a].id, actor[a].copy)
      BY <1>1, <1>3, SaveSetMoves
    <3> QED
      BY <3>1 DEF GoesOn, Moves, Others
  <2> QED
    BY <1>3, <2>1 DEF SaveSet, At, Sets
<1>4. ASSUME NEW a \in Actors, SaveList(a) PROVE Lists(a)
  <2>1. GoesOn(a, "pend")
    <3>1. Moves(a, "pend", actor[a].then, actor[a].ids, actor[a].batch, actor[a].id, actor[a].copy)
      BY <1>1, <1>4, SaveListMoves
    <3> QED
      BY <3>1 DEF GoesOn, Moves, Others
  <2> QED
    BY <1>4, <2>1 DEF SaveList, At, Lists
<1>5. ASSUME NEW a \in Actors, SavePend(a) PROVE Pends(a)
  BY <1>1, <1>5, AfterSaveMoves, AfterDrops DEF SavePend, At, Pends
<1>6. ASSUME NEW a \in Actors, SaveFails(a) PROVE Faults(a)
  BY <1>1, <1>6, AfterSaveMoves, AfterDrops DEF SaveFails, Fault, Faults
<1>7. ASSUME NEW a \in Actors, Die(a) PROVE Faults(a)
  BY <1>1, <1>7, StopMoves, StopDrops DEF Die, Fault, Faults
<1>8. ASSUME NEW r \in Requests, DeleteWrite(r) PROVE Deletes(r)
  BY <1>1, <1>8, StopMoves, StopDrops DEF DeleteWrite, At, Deletes, Actors
<1>9. ASSUME NEW r \in Requests, NEW n \in Notes, NEW then, NEW ids, NEW batch, NEW copy \in Notification,
             Moves(r, "set", then, ids, batch, n, copy), actor[r].pc \in {"idle", "marking"}
      PROVE /\ actor[r].pc \notin Saves /\ Others(r)
            /\ actor'[r].pc = "set" /\ actor'[r].id = n /\ actor'[r].copy = copy
  BY <1>9 DEF Saves, Others, Moves
<1>10. ASSUME NEW r \in Requests, NEW n \in Notes, NEW kind \in Kinds, NEW soon \in BOOLEAN,
              Schedule(r, n, kind, soon)
       PROVE \E copy \in Notification : Begins(r, n, copy)
  <2> DEFINE copy == NewNotification(kind, "queued", TRUE)
  <2>1. copy \in Notification /\ copy.status = "queued" /\ copy.retries = 0
    BY NewTyped DEF Status
  <2>2. Moves(r, "set", "idle", actor[r].ids, actor[r].batch, n, copy)
    BY <1>1, <1>10, ScheduleMoves
  <2> HIDE DEF copy
  <2>3. Begins(r, n, copy)
    BY <1>9, <1>10, <2>1, <2>2 DEF Schedule, At, Begins
  <2> QED
    BY <2>1, <2>3
<1>11. ASSUME NEW r \in Requests, NEW n \in Notes, NEW kind \in Kinds, SendNow(r, n, kind)
       PROVE \E copy \in Notification : Begins(r, n, copy)
  <2>1. PICK status \in Status \ {"queued"} :
          Moves(r, "set", "idle", actor[r].ids, actor[r].batch, n, NewNotification(kind, status, FALSE))
    BY <1>1, <1>11, SendNowMoves
  <2> DEFINE copy == NewNotification(kind, status, FALSE)
  <2>2. /\ copy \in Notification /\ copy.status # "queued" /\ ~copy.scheduled /\ copy.retries = 0
        /\ Moves(r, "set", "idle", actor[r].ids, actor[r].batch, n, copy)
    <3>1. copy \in Notification /\ copy.status = status /\ copy.retries = 0
      BY NewTyped
    <3>2. copy.scheduled = FALSE
      BY DEF NewNotification
    <3> QED
      BY <2>1, <3>1, <3>2
  <2> HIDE DEF copy
  <2>3. sends[n] = 0
    BY <1>11 DEF SendNow, Fresh
  <2>4. sends'[n] \in {0, 1} /\ \A m \in Notes \ {n} : sends'[m] = sends[m]
    BY <1>2, <1>11, <2>3 DEF SendNow, Delivered
  <2>5. Begins(r, n, copy)
    BY <1>9, <1>11, <2>2, <2>4 DEF SendNow, At, Begins
  <2> QED
    BY <2>2, <2>5
<1>12. ASSUME NEW r \in Requests, NEW n \in Notes, NEW then, NEW ids, store[n] \in Notification,
              Moves(r, "set", then, ids, actor[r].batch, n, MarkedRead(store[n])),
              actor[r].pc \in {"idle", "marking"}, UNCHANGED <<store, listed, pending, due, sends, faults>>
       PROVE \E copy \in Notification : Begins(r, n, copy)
  <2> DEFINE copy == MarkedRead(store[n])
  <2>1. /\ copy \in Notification /\ copy.status = "read" /\ copy.scheduled = store[n].scheduled
        /\ copy.retries = store[n].retries /\ Moves(r, "set", then, ids, actor[r].batch, n, copy)
    BY <1>12, MarkedTyped
  <2> HIDE DEF copy
  <2>2. Begins(r, n, copy)
    BY <1>9, <1>12, <2>1 DEF Begins
  <2> QED
    BY <2>1, <2>2
<1>13. ASSUME NEW r \in Requests, NEW n \in Notes, MarkAsRead(r, n)
       PROVE \E copy \in Notification : Begins(r, n, copy)
  BY <1>1, <1>12, <1>13, MarkAsReadMoves DEF MarkAsRead, At
<1>14. ASSUME NEW r \in Requests, Others(r), actor[r].pc \notin Saves, actor'[r].pc \notin Saves,
              UNCHANGED <<store, listed, pending, due, sends, faults>>
       PROVE Browses(r)
  BY <1>14 DEF Browses
<1>15. ASSUME NEW r \in Requests, NEW n \in Notes, MarkAllNext(r, n)
       PROVE Browses(r) \/ \E copy \in Notification : Begins(r, n, copy)
  <2>1. actor[r].pc = "marking" /\ UNCHANGED <<store, listed, pending, due, sends, faults>>
    BY <1>15 DEF MarkAllNext, At
  <2>2. CASE /\ store[n] \in Notification
             /\ Moves(r, "set", "marking", actor[r].ids \ {n}, actor[r].batch, n, MarkedRead(store[n]))
    BY <1>12, <2>1, <2>2
  <2>3. CASE Moves(r, "marking", actor[r].then, actor[r].ids \ {n}, actor[r].batch, actor[r].id, actor[r].copy)
    <3>1. Others(r) /\ actor[r].pc \notin Saves /\ actor'[r].pc \notin Saves
      BY <2>1, <2>3 DEF Moves, Others, Saves
    <3> QED
      BY <1>14, <2>1, <3>1
  <2> QED
    BY <1>1, <1>15, <2>2, <2>3, MarkAllNextMoves
<1>16. ASSUME NEW r \in Requests, MarkAllList(r) PROVE Browses(r)
  <2>1. Others(r) /\ actor[r].pc \notin Saves /\ actor'[r].pc \notin Saves
    <3>1. Moves(r, "marking", "idle", listed, [n \in Notes |-> None], None, None) /\ actor[r].pc = "idle"
      BY <1>1, <1>16, MarkAllListMoves DEF MarkAllList, At
    <3> QED
      BY <3>1 DEF Moves, Others, Saves
  <2> QED
    BY <1>14, <1>16, <2>1 DEF MarkAllList
<1>17. ASSUME NEW r \in Requests, MarkAllDone(r) PROVE Browses(r)
  <2>1. Others(r) /\ actor[r].pc \notin Saves /\ actor'[r].pc \notin Saves
    <3>1. r \in Actors /\ Become(r, Idle) /\ actor[r].pc = "marking"
      BY <1>17 DEF MarkAllDone, At, Actors
    <3>2. Drops(r)
      BY <1>1, <3>1, StopMoves, StopDrops
    <3> QED
      BY <3>1, <3>2 DEF Drops, Saves
  <2> QED
    BY <1>14, <1>17, <2>1 DEF MarkAllDone
<1>18. ASSUME NEW r \in Requests, NEW n \in Notes, DeleteRead(r, n) PROVE Browses(r)
  <2>1. Others(r) /\ actor[r].pc \notin Saves /\ actor'[r].pc \notin Saves
    <3>1. Moves(r, "delete", "idle", {}, [m \in Notes |-> None], n, None) /\ actor[r].pc = "idle"
      BY <1>1, <1>18, DeleteReadMoves DEF DeleteRead, At
    <3> QED
      BY <3>1 DEF Moves, Others, Saves
  <2> QED
    BY <1>14, <1>18, <2>1 DEF DeleteRead
<1>19. ASSUME NEW w \in Workers, Tick(w) PROVE Browses(w)
  BY <1>1, <1>19, TickMoves DEF Tick, At, Moves, Others, Saves, Browses
<1>20. ASSUME NEW w \in Workers, ProcessDone(w) PROVE Browses(w)
  BY <1>1, <1>20, StopMoves DEF ProcessDone, At, Stops, Moves, Others, Saves, Browses, Actors
<1>21. ASSUME NEW w \in Workers, NEW n \in Notes, Fetch(w, n) PROVE Browses(w)
  <2>1. actor[w].pc = "fetch" /\ n \in actor[w].ids /\ w \in Actors
    BY <1>21 DEF Fetch, At, Actors
  <2>2. actor[w].id = None
    BY <1>1, <2>1 DEF Shaped, Shape, Saves
  <2> DEFINE pc == IF actor[w].ids = {n} THEN "process" ELSE "fetch"
             batch == [actor[w].batch EXCEPT ![n] = store[n]]
  <2>3. \A m \in Notes : batch[m] = IF m = n THEN store[n] ELSE actor[w].batch[m]
    BY <1>1, <2>1, ActorTyped
  <2>4. pc \notin Saves
    BY DEF Saves
  <2>5. Moves(w, pc, actor[w].then, actor[w].ids \ {n}, batch, actor[w].id, actor[w].copy)
    BY <1>1, <1>21, FetchMoves
  <2> HIDE DEF pc, batch
  <2>6. /\ Others(w) /\ actor'[w].pc = pc /\ actor'[w].id = None /\ actor'[w].ids = actor[w].ids \ {n}
        /\ actor'[w].batch = batch
    BY <2>2, <2>5 DEF Moves, Others
  <2>7. actor[w].pc \notin Saves
    BY <2>1 DEF Saves
  <2> QED
    BY <1>21, <2>1, <2>3, <2>4, <2>6, <2>7 DEF Browses, Fetch
<1>22. ASSUME NEW w \in Workers, NEW n \in Notes, Process(w, n) PROVE Tries(w, n)
  <2>1. actor[w].pc = "process" /\ UNCHANGED <<store, listed, pending, due, faults>> /\ w \in Actors
    BY <1>22 DEF Process, At, Actors
  <2>2. PICK copy, outcome : Attempts(w, n, copy, outcome)
    BY <1>1, <1>22, ProcessMoves
  <2> DEFINE batch == [actor[w].batch EXCEPT ![n] = None]
             result == AfterAttempt(copy, outcome)
  <2>3. \A m \in Notes : batch[m] = IF m = n THEN None ELSE actor[w].batch[m]
    BY <1>1, <2>1, ActorTyped
  <2>4. /\ copy = actor[w].batch[n] /\ copy \in Notification /\ Delivered(n, outcome)
        /\ result \in Notification /\ result.status # "queued"
        /\ result.retries = IF outcome = "error" THEN copy.retries + 1 ELSE copy.retries
        /\ Moves(w, "set", "process", actor[w].ids, batch, n, result)
    BY <2>2, AttemptTyped DEF Attempts
  <2> HIDE DEF batch, result
  <2>5. /\ Others(w) /\ actor'[w].pc = "set" /\ actor'[w].id = n /\ actor'[w].ids = actor[w].ids
        /\ actor'[w].batch = batch /\ actor'[w].copy = result
    BY <2>4 DEF Moves, Others
  <2>6. sends'[n] = IF outcome = "error" THEN sends[n] ELSE sends[n] + 1
    BY <1>2, <2>4 DEF Delivered
  <2>7. \A m \in Notes \ {n} : sends'[m] = sends[m]
    BY <1>2, <2>4 DEF Delivered
  <2> QED
    BY <2>1, <2>3, <2>4, <2>5, <2>6, <2>7 DEF Tries
<1>23. ASSUME NEW n \in Notes, ComeDue(n) PROVE ComesDue
  BY <1>23 DEF ComeDue, ComesDue
<1>24. CASE UNCHANGED vars
  BY <1>24 DEF vars, ComesDue, AnyStep
<1>25. ASSUME NEW w \in Workers, Work(w) PROVE AnyStep
  BY <1>3, <1>4, <1>5, <1>19, <1>20, <1>21, <1>22, <1>25 DEF AnyStep, Work, Save, Actors
<1>26. ASSUME NEW r \in Requests, Request(r) PROVE AnyStep
  BY <1>10, <1>11, <1>13, <1>16, <1>18, <1>26 DEF AnyStep, Request, Actors
<1>27. ASSUME NEW r \in Requests, Continue(r) PROVE AnyStep
  BY <1>3, <1>4, <1>5, <1>8, <1>15, <1>17, <1>27 DEF AnyStep, Continue, Save, Actors
<1> QED
  BY <1>6, <1>7, <1>23, <1>24, <1>25, <1>26, <1>27 DEF AnyStep, Next

-----------------------------------------------------------------------------
(* Nothing that is queued is forgotten.                                      *)

\* The actor has n in hand, on its list or in its batch.
Holds(a, n) == actor[a].id = n \/ n \in actor[a].ids \/ actor[a].batch[n] # None

LEMMA HoldsMoves ==
  ASSUME NEW a \in Actors, NEW pc, NEW then, NEW ids, NEW batch, NEW id, NEW copy,
         Moves(a, pc, then, ids, batch, id, copy), NEW n
  PROVE  /\ Holds(a, n)' <=> id = n \/ n \in ids \/ batch[n] # None
         /\ \A b \in Actors \ {a} : Holds(b, n)' <=> Holds(b, n)
BY DEF Moves, Holds

\* Only r knows of n.
Unborn(r, n) ==
  /\ n \notin listed \cup pending
  /\ ~Exists(n)
  /\ \A a \in Actors \ {r} : ~Holds(a, n)

LEMMA UnbornKept ==
  ASSUME QueueInv, [Next]_vars, NEW r \in Requests, NEW n \in Notes,
         actor[r].pc = "set", actor'[r].pc = "set", actor[r].id = n, Unborn(r, n)
  PROVE  Unborn(r, n)'
<1>1. Typed /\ Stored /\ Shaped /\ r \in Actors
  BY DEF QueueInv, TypeOK, Typed, Stored, Actors
<1> USE DEF Unborn, Exists
<1>2. ASSUME NEW a \in Actors, SaveSet(a) PROVE Unborn(r, n)'
  <2>1. Moves(a, "list", actor[a].then, actor[a].ids, actor[a].batch, actor[a].id, actor[a].copy)
    BY <1>1, <1>2, SaveSetMoves
  <2>2. a # r
    BY <2>1 DEF Moves
  <2>3. actor[a].id # n /\ store'[n] = store[n]
    BY <1>1, <1>2, <2>2 DEF Holds, SaveSet, Stored
  <2>4. \A b \in Actors : Holds(b, n)' <=> Holds(b, n)
    BY <2>1, HoldsMoves DEF Holds
  <2> QED
    BY <1>2, <2>3, <2>4 DEF SaveSet
<1>3. ASSUME NEW a \in Actors, SaveList(a) PROVE Unborn(r, n)'
  <2>1. Moves(a, "pend", actor[a].then, actor[a].ids, actor[a].batch, actor[a].id, actor[a].copy)
    BY <1>1, <1>3, SaveListMoves
  <2>2. a # r
    BY <2>1 DEF Moves
  <2>3. actor[a].id # n /\ (n \in listed' <=> n \in listed)
    BY <1>3, <2>2 DEF Holds, SaveList
  <2>4. \A b \in Actors : Holds(b, n)' <=> Holds(b, n)
    BY <2>1, HoldsMoves DEF Holds
  <2> QED
    BY <1>3, <2>3, <2>4 DEF SaveList
<1>4. ASSUME NEW a \in Actors, Stops(a) PROVE a # r /\ \A b \in Actors \ {r} : ~Holds(b, n)'
  <2>1. a # r
    BY <1>4 DEF Stops, Moves
  <2>2. ~Holds(a, n)'
    BY <1>4, HoldsMoves DEF Stops
  <2> QED
    BY <1>4, <2>1, <2>2, HoldsMoves DEF Stops
<1>5. ASSUME NEW a \in Actors, After(a) PROVE a # r /\ \A b \in Actors \ {r} : ~Holds(b, n)'
  <2>1. CASE Stops(a)
    BY <2>1, <1>4
  <2>2. CASE /\ actor[a].then # "idle"
             /\ Moves(a, actor[a].then, "idle", actor[a].ids, actor[a].batch, None, None)
    <3>1. a # r
      BY <1>1, <2>2, ActorTyped DEF Moves
    <3>2. ~Holds(a, n)'
      BY <2>2, <3>1, HoldsMoves DEF Holds
    <3> QED
      BY <2>2, <3>1, <3>2, HoldsMoves
  <2> QED
    BY <1>5, <2>1, <2>2 DEF After, Stops
<1>6. ASSUME NEW a \in Actors, SavePend(a) PROVE Unborn(r, n)'
  <2>1. a # r /\ \A b \in Actors \ {r} : ~Holds(b, n)'
    BY <1>1, <1>5, <1>6, AfterSaveMoves DEF SavePend
  <2>2. actor[a].id # n
    BY <2>1 DEF Holds
  <2> QED
    BY <1>6, <2>1, <2>2 DEF SavePend, PendingAfter
<1>7. ASSUME NEW a \in Actors, SaveFails(a) PROVE Unborn(r, n)'
  BY <1>1, <1>5, <1>7, AfterSaveMoves DEF SaveFails
<1>8. ASSUME NEW q \in Requests, NEW m \in Notes, m # n, NEW then, NEW ids \in SUBSET actor[q].ids,
             NEW copy, Moves(q, "set", then, ids, actor[q].batch, m, copy), actor[q].pc # "set",
             UNCHANGED <<store, listed, pending>>
      PROVE Unborn(r, n)'
  <2>1. q # r /\ q \in Actors
    BY <1>8 DEF Actors
  <2>2. ~Holds(q, n)'
    BY <1>8, <2>1, HoldsMoves DEF Holds
  <2> QED
    BY <1>8, <2>1, <2>2, HoldsMoves
<1>9. ASSUME NEW q \in Requests, NEW m \in Notes, NEW kind \in Kinds, NEW soon \in BOOLEAN,
             Schedule(q, m, kind, soon)
      PROVE Unborn(r, n)'
  <2>1. actor[q].pc # "set" /\ m # n /\ UNCHANGED <<store, listed, pending>>
    BY <1>1, <1>9 DEF Schedule, At, Fresh
  <2>2. Moves(q, "set", "idle", actor[q].ids, actor[q].batch, m, NewNotification(kind, "queued", TRUE))
    BY <1>1, <1>9, ScheduleMoves
  <2> QED
    BY <1>8, <2>1, <2>2
<1>10. ASSUME NEW q \in Requests, NEW m \in Notes, NEW kind \in Kinds, SendNow(q, m, kind)
       PROVE Unborn(r, n)'
  <2>1. actor[q].pc # "set" /\ m # n /\ UNCHANGED <<store, listed, pending>>
    BY <1>1, <1>10 DEF SendNow, At, Fresh
  <2>2. PICK status : Moves(q, "set", "idle", actor[q].ids, actor[q].batch, m,
                            NewNotification(kind, status, FALSE))
    BY <1>1, <1>10, SendNowMoves
  <2> QED
    BY <1>8, <2>1, <2>2
<1>11. ASSUME NEW q \in Requests, NEW m \in Notes, MarkAsRead(q, m) PROVE Unborn(r, n)'
  <2>1. actor[q].pc # "set" /\ m # n /\ UNCHANGED <<store, listed, pending>>
    BY <1>11 DEF MarkAsRead, At
  <2>2. Moves(q, "set", "idle", actor[q].ids, actor[q].batch, m, MarkedRead(store[m]))
    BY <1>1, <1>11, MarkAsReadMoves
  <2> QED
    BY <1>8, <2>1, <2>2
<1>12. ASSUME NEW q \in Requests, MarkAllList(q) PROVE Unborn(r, n)'
  <2>1. Moves(q, "marking", "idle", listed, [m \in Notes |-> None], None, None) /\ q \in Actors
    BY <1>1, <1>12, MarkAllListMoves DEF Actors
  <2>2. ~Holds(q, n)'
    BY <2>1, HoldsMoves
  <2> QED
    BY <1>12, <2>1, <2>2, HoldsMoves DEF MarkAllList
<1>13. ASSUME NEW q \in Requests, NEW m \in Notes, MarkAllNext(q, m) PROVE Unborn(r, n)'
  <2>1. /\ actor[q].pc = "marking" /\ m \in actor[q].ids /\ q # r /\ q \in Actors
        /\ UNCHANGED <<store, listed, pending>>
    BY <1>13 DEF MarkAllNext, At, Actors
  <2>2. m # n
    BY <2>1 DEF Holds
  <2>3. CASE Moves(q, "set", "marking", actor[q].ids \ {m}, actor[q].batch, m, MarkedRead(store[m]))
    BY <1>8, <2>1, <2>2, <2>3
  <2>4. CASE Moves(q, "marking", actor[q].then, actor[q].ids \ {m}, actor[q].batch, actor[q].id, actor[q].copy)
    <3>1. ~Holds(q, n)'
      BY <2>1, <2>4, HoldsMoves DEF Holds
    <3> QED
      BY <2>1, <2>4, <3>1, HoldsMoves
  <2> QED
    BY <1>1, <1>13, <2>3, <2>4, MarkAllNextMoves
<1>14. ASSUME NEW q \in Requests, NEW m \in Notes, DeleteRead(q, m) PROVE Unborn(r, n)'
  <2>1. Moves(q, "delete", "idle", {}, [x \in Notes |-> None], m, None) /\ q \in Actors /\ m # n
    BY <1>1, <1>14, DeleteReadMoves DEF Actors, DeleteRead
  <2>2. ~Holds(q, n)'
    BY <2>1, HoldsMoves
  <2> QED
    BY <1>14, <2>1, <2>2, HoldsMoves DEF DeleteRead
<1>15. ASSUME NEW q \in Requests, DeleteWrite(q) PROVE Unborn(r, n)'
  <2>1. q \in Actors /\ Stops(q)
    BY <1>1, <1>15, StopMoves DEF DeleteWrite, Actors
  <2>2. store'[n] = None
    BY <1>1, <1>15 DEF DeleteWrite, Stored
  <2> QED
    BY <1>4, <1>15, <2>1, <2>2 DEF DeleteWrite
<1>16. ASSUME NEW w \in Workers, Tick(w) PROVE Unborn(r, n)'
  <2>1. Moves(w, "fetch", "idle", pending \cap due, [m \in Notes |-> None], None, None) /\ w \in Actors
    BY <1>1, <1>16, TickMoves DEF Actors
  <2>2. ~Holds(w, n)'
    BY <2>1, HoldsMoves
  <2> QED
    BY <1>16, <2>1, <2>2, HoldsMoves DEF Tick
<1>17. ASSUME NEW w \in Workers, NEW m \in Notes, Fetch(w, m) PROVE Unborn(r, n)'
  <2>1. w \in Actors /\ w # r
    BY DEF Actors
  <2>2. Moves(w, IF actor[w].ids = {m} THEN "process" ELSE "fetch", actor[w].then,
              actor[w].ids \ {m}, [actor[w].batch EXCEPT ![m] = store[m]], actor[w].id, actor[w].copy)
    BY <1>1, <1>17, FetchMoves
  <2>3. m # n
    BY <1>17, <2>1 DEF Fetch, Holds
  <2> DEFINE batch == [actor[w].batch EXCEPT ![m] = store[m]]
  <2>5. batch[n] = None
    BY <1>1, <2>1, <2>3, ActorTyped DEF Holds
  <2> HIDE DEF batch
  <2>6. actor[w].id # n /\ n \notin actor[w].ids \ {m}
    BY <2>1 DEF Holds
  <2>7. Moves(w, IF actor[w].ids = {m} THEN "process" ELSE "fetch", actor[w].then,
              actor[w].ids \ {m}, batch, actor[w].id, actor[w].copy)
    BY <2>2 DEF batch
  <2>4. ~Holds(w, n)'
    BY <2>1, <2>5, <2>6, <2>7, HoldsMoves
  <2> QED
    BY <1>17, <2>1, <2>2, <2>4, HoldsMoves DEF Fetch
<1>18. ASSUME NEW w \in Workers, NEW m \in Notes, Process(w, m) PROVE Unborn(r, n)'
  <2>1. w \in Actors /\ w # r
    BY DEF Actors
  <2>2. PICK copy, outcome : Attempts(w, m, copy, outcome)
    BY <1>1, <1>18, ProcessMoves
  <2>3. m # n
    BY <1>18, <2>1 DEF Process, Holds
  <2>4. Moves(w, "set", "process", actor[w].ids, [actor[w].batch EXCEPT ![m] = None], m,
              AfterAttempt(copy, outcome))
    BY <2>2 DEF Attempts
  <2> DEFINE batch == [actor[w].batch EXCEPT ![m] = None]
  <2>6. batch[n] = None
    BY <1>1, <2>1, <2>3, ActorTyped DEF Holds
  <2> HIDE DEF batch
  <2>7. n \notin actor[w].ids
    BY <2>1 DEF Holds
  <2>8. Moves(w, "set", "process", actor[w].ids, batch, m, AfterAttempt(copy, outcome))
    BY <2>4 DEF batch
  <2>5. ~Holds(w, n)'
    BY <2>1, <2>3, <2>6, <2>7, <2>8, HoldsMoves
  <2> QED
    BY <1>18, <2>1, <2>4, <2>5, HoldsMoves DEF Process
<1>19. ASSUME NEW a \in Actors, Become(a, Idle), UNCHANGED <<store, listed, pending>> PROVE Unborn(r, n)'
  BY <1>1, <1>4, <1>19, StopMoves
<1>20. CASE UNCHANGED <<store, listed, pending, actor>>
  BY <1>20 DEF Holds
<1> QED
  BY <1>2, <1>3, <1>6, <1>7, <1>9, <1>10, <1>11, <1>12, <1>13, <1>14, <1>15, <1>16, <1>17, <1>18, <1>19, <1>20
  DEF Next, vars, Work, Save, Request, Continue, MarkAllDone, ProcessDone, Die, ComeDue, Actors

\* The actor is about to store a notification as queued.
Queueing(a) == actor[a].pc \in Saves /\ actor[a].copy.status = "queued"

\* Only a request that schedules a notification stores it as queued, and until it
\* has, nobody else knows of the notification.
Announced ==
  /\ \A w \in Workers : ~Queueing(w)
  /\ \A r \in Requests : Queueing(r) /\ actor[r].pc = "set" => Unborn(r, actor[r].id)

\* What an actor has stored, and still has to list, is not overwritten by a copy
\* that is queued.
Overtaken ==
  \A a \in Actors :
    actor[a].pc \in {"list", "pend"} /\ ~Queueing(a) /\ Exists(actor[a].id)
      => store[actor[a].id].status # "queued"

\* A copy that is queued was so before the step, unless a request has just begun.
LEMMA QueueingBefore ==
  ASSUME QueueInv, [Next]_vars, NEW a \in Actors, Queueing(a)',
         \A n \in Notes, copy \in Notification : ~Begins(a, n, copy),
         \A n \in Notes : ~Tries(a, n)
  PROVE  Queueing(a) /\ actor'[a].id = actor[a].id /\ (actor'[a].pc = "set" => actor[a].pc = "set")
<1> DEFINE Goal == Queueing(a) /\ actor'[a].id = actor[a].id /\ (actor'[a].pc = "set" => actor[a].pc = "set")
<1> USE DEF Queueing
<1>1. ASSUME actor'[a].id = actor[a].id, actor'[a].copy = actor[a].copy, actor[a].pc \in Saves,
             actor'[a].pc = "set" => actor[a].pc = "set"
      PROVE Goal
  BY <1>1
<1>2. ASSUME actor'[a] = actor[a] PROVE Goal
  BY <1>2
<1> HIDE DEF Goal
<1>3. ASSUME NEW b \in Actors, Sets(b) \/ Lists(b) PROVE Goal
  BY <1>1, <1>2, <1>3 DEF Sets, Lists, GoesOn, Others, Saves
<1>4. ASSUME NEW b \in Actors, Pends(b) \/ Faults(b) \/ Deletes(b) PROVE Goal
  BY <1>2, <1>4 DEF Pends, Faults, Deletes, Drops, Others
<1>5. ASSUME NEW b \in Actors, Browses(b) PROVE Goal
  BY <1>2, <1>5 DEF Browses, Others
<1>6. ASSUME NEW r \in Requests, NEW n \in Notes, NEW copy \in Notification, Begins(r, n, copy) PROVE Goal
  BY <1>2, <1>6 DEF Begins, Others
<1>7. ASSUME NEW w \in Workers, NEW n \in Notes, Tries(w, n) PROVE Goal
  BY <1>2, <1>7 DEF Tries, Others
<1>8. ASSUME ComesDue PROVE Goal
  BY <1>2, <1>8 DEF ComesDue
<1>9. Goal
  BY <1>3, <1>4, <1>5, <1>6, <1>7, <1>8, EveryStep DEF AnyStep
<1> QED
  BY <1>9 DEF Goal

LEMMA AnnouncedKept ==
  ASSUME QueueInv, Announced, [Next]_vars
  PROVE  Announced'
<1>1. Typed /\ Stored /\ Shaped /\ AnyStep
  BY EveryStep DEF QueueInv, TypeOK, Typed, Stored
<1>2. ASSUME NEW w \in Workers, Queueing(w)' PROVE FALSE
  <2>1. w \in Actors /\ \A n \in Notes, copy \in Notification : ~Begins(w, n, copy)
    BY DEF Actors, Begins
  <2>2. \A n \in Notes : ~Tries(w, n)
    BY <1>2 DEF Tries, Queueing
  <2>3. Queueing(w)
    BY <1>2, <2>1, <2>2, QueueingBefore
  <2> QED
    BY <2>3 DEF Announced
<1>3. ASSUME NEW r \in Requests, Queueing(r)', actor'[r].pc = "set", NEW n, n = actor'[r].id
      PROVE Unborn(r, n)'
  <2>1. r \in Actors /\ \A m \in Notes : ~Tries(r, m)
    BY DEF Actors, Tries
  <2>2. CASE \A m \in Notes, copy \in Notification : ~Begins(r, m, copy)
    <3>1. Queueing(r) /\ actor[r].id = n /\ actor[r].pc = "set"
      BY <1>3, <2>1, <2>2, QueueingBefore
    <3>2. n \in Notes
      BY <1>1, <2>1, <3>1, SavingTyped DEF Queueing
    <3>3. Unborn(r, n)
      BY <3>1 DEF Announced
    <3> QED
      BY <1>3, <3>1, <3>2, <3>3, UnbornKept
  <2>3. ASSUME NEW m \in Notes, NEW copy \in Notification, Begins(r, m, copy) PROVE Unborn(r, n)'
    <3>1. Fresh(n) /\ UNCHANGED <<store, listed, pending>> /\ Others(r)
      BY <1>3, <2>3 DEF Begins, Queueing
    <3>2. \A b \in Actors \ {r} : ~Holds(b, n)'
      BY <3>1 DEF Fresh, Others, Holds
    <3> QED
      BY <3>1, <3>2 DEF Fresh, Unborn, Exists
  <2> QED
    BY <2>2, <2>3
<1> QED
  BY <1>2, <1>3 DEF Announced

LEMMA OvertakenKept ==
  ASSUME QueueInv, Announced, Overtaken, [Next]_vars
  PROVE  Overtaken'
<1>1. Typed /\ Stored /\ Shaped /\ AnyStep
  BY EveryStep DEF QueueInv, TypeOK, Typed, Stored
<1> SUFFICES ASSUME NEW a \in Actors, NEW n, n = actor'[a].id, actor'[a].pc \in {"list", "pend"},
                    ~(actor'[a].copy.status = "queued"), store'[n] # None
             PROVE  store'[n].status # "queued"
  BY DEF Overtaken, Queueing, Exists, Saves
<1>2. ASSUME actor[a].pc \in {"list", "pend"}, actor[a].id = n, actor'[a].copy = actor[a].copy,
             store'[n] \in {store[n], None}
      PROVE store'[n].status # "queued"
  BY <1>2 DEF Overtaken, Queueing, Exists, Saves
<1>3. ASSUME NEW b \in Actors, Sets(b) PROVE store'[n].status # "queued"
  <2> DEFINE m == actor[b].id
  <2>1. m \in Notes /\ actor[b].copy \in Notification
    BY <1>1, <1>3, SavingTyped DEF Sets, Saves
  <2>2. store'[m] = actor[b].copy
    BY <1>1, <1>3, <2>1 DEF Sets, Stored
  <2>3. CASE a = b
    BY <1>3, <2>2, <2>3 DEF Sets, GoesOn
  <2>4. CASE a # b /\ m = n
    <3>1. actor'[a] = actor[a]
      BY <1>3, <2>4 DEF Sets, GoesOn, Others
    <3>2. Holds(a, n)
      BY <3>1 DEF Holds
    <3>3. ~Queueing(b)
      BY <1>3, <2>4, <3>2 DEF Announced, Actors, Unborn, Sets
    <3> QED
      BY <1>3, <2>2, <2>4, <3>3 DEF Sets, Saves, Queueing
  <2>5. CASE a # b /\ m # n
    <3>1. actor'[a] = actor[a]
      BY <1>3, <2>5 DEF Sets, GoesOn, Others
    <3>2. n \in Notes
      BY <1>1, <3>1, SavingTyped DEF Saves
    <3>3. store'[n] = store[n]
      BY <1>1, <1>3, <2>5, <3>2 DEF Sets, Stored
    <3> QED
      BY <1>2, <3>1, <3>3
  <2> QED
    BY <2>3, <2>4, <2>5
<1>4. ASSUME NEW b \in Actors, Lists(b) PROVE store'[n].status # "queued"
  <2>1. actor[a].pc \in {"list", "pend"} /\ actor[a].id = n /\ actor'[a].copy = actor[a].copy
    BY <1>4 DEF Lists, GoesOn, Others
  <2> QED
    BY <1>2, <1>4, <2>1 DEF Lists
<1>5. ASSUME NEW b \in Actors, Pends(b) \/ Faults(b) \/ Deletes(b) PROVE store'[n].status # "queued"
  <2>1. actor'[a] = actor[a]
    BY <1>5 DEF Pends, Faults, Deletes, Drops, Others, Saves
  <2>2. n \in Notes
    BY <1>1, <2>1, SavingTyped DEF Saves
  <2>3. store'[n] \in {store[n], None}
    BY <1>1, <1>5, <2>2 DEF Pends, Faults, Deletes, Stored
  <2> QED
    BY <1>2, <2>1, <2>3
<1>6. ASSUME NEW b \in Actors, Browses(b) PROVE store'[n].status # "queued"
  BY <1>2, <1>6 DEF Browses, Others, Saves
<1>7. ASSUME NEW r \in Requests, NEW m \in Notes, NEW copy \in Notification, Begins(r, m, copy)
      PROVE store'[n].status # "queued"
  BY <1>2, <1>7 DEF Begins, Others
<1>8. ASSUME NEW w \in Workers, NEW m \in Notes, Tries(w, m) PROVE store'[n].status # "queued"
  BY <1>2, <1>8 DEF Tries, Others
<1>9. CASE ComesDue
  BY <1>2, <1>9 DEF ComesDue
<1> QED
  BY <1>1, <1>3, <1>4, <1>5, <1>6, <1>7, <1>8, <1>9 DEF AnyStep

\* A request is about to put n into the pending set.
Pledged(n) ==
  \E r \in Requests : actor[r].id = n /\ actor[r].copy # None /\ actor[r].copy.status = "queued"

LEMMA QueuedKept ==
  ASSUME QueueInv, Announced, Overtaken, QueuedIsPending, [Next]_vars
  PROVE  QueuedIsPending'
<1>1. Typed /\ Stored /\ Shaped /\ AnyStep /\ faults \in Nat
  BY EveryStep DEF QueueInv, TypeOK, Typed, Stored
<1> SUFFICES ASSUME faults' = 0, NEW n \in Notes, Exists(n)', store'[n].status = "queued"
             PROVE  n \in pending' \/ Pledged(n)'
  BY DEF QueuedIsPending, Pledged
<1> USE DEF Exists
<1>2. ASSUME faults = 0, store'[n] = store[n] PROVE n \in pending \/ Pledged(n)
  BY <1>2 DEF QueuedIsPending, Pledged
<1>3. ASSUME NEW a \in Actors, Sets(a) PROVE n \in pending' \/ Pledged(n)'
  <2>1. actor[a].id \in Notes /\ actor[a].copy \in Notification
    BY <1>1, <1>3, SavingTyped DEF Sets, Saves
  <2>2. CASE actor[a].id = n
    <3>1. store'[n] = actor[a].copy
      BY <1>1, <1>3, <2>2 DEF Sets, Stored
    <3>2. a \in Requests
      BY <1>3, <3>1 DEF Announced, Queueing, Sets, Saves, Actors
    <3> QED
      BY <1>3, <2>1, <2>2, <3>1, <3>2 DEF Sets, GoesOn, Pledged
  <2>3. CASE actor[a].id # n
    <3>1. store'[n] = store[n]
      BY <1>1, <1>3, <2>3 DEF Sets, Stored
    <3>2. Pledged(n) => Pledged(n)'
      BY <1>3 DEF Pledged, Sets, GoesOn, Others, Actors
    <3> QED
      BY <1>2, <1>3, <3>1, <3>2 DEF Sets
  <2> QED
    BY <2>2, <2>3
<1>4. ASSUME NEW a \in Actors, Lists(a) PROVE n \in pending' \/ Pledged(n)'
  <2>1. Pledged(n) => Pledged(n)'
    BY <1>4 DEF Pledged, Lists, GoesOn, Others, Actors
  <2> QED
    BY <1>2, <1>4, <2>1 DEF Lists
<1>5. ASSUME NEW a \in Actors, Pends(a) PROVE n \in pending' \/ Pledged(n)'
  <2>1. n \in pending \/ Pledged(n)
    BY <1>2, <1>5 DEF Pends
  <2>2. actor[a].pc \in Saves
    BY <1>5 DEF Pends, Saves
  <2>3. CASE actor[a].id = n /\ actor[a].copy.status = "queued"
    BY <1>5, <2>3 DEF Pends, PendingAfter
  <2>4. CASE actor[a].id = n /\ actor[a].copy.status # "queued"
    BY <1>5, <2>4 DEF Pends, Overtaken, Queueing
  <2>5. CASE actor[a].id # n
    <3>1. Pledged(n) => Pledged(n)'
      BY <1>5, <2>5 DEF Pledged, Pends, Drops, Others, Actors
    <3>2. n \in pending => n \in pending'
      BY <1>5, <2>5 DEF Pends, PendingAfter
    <3> QED
      BY <2>1, <3>1, <3>2
  <2> QED
    BY <2>3, <2>4, <2>5
<1>6. ASSUME NEW a \in Actors PROVE ~Faults(a)
  BY <1>1 DEF Faults
<1>7. ASSUME NEW r \in Actors, Deletes(r) PROVE n \in pending' \/ Pledged(n)'
  <2>1. actor[r].id # n /\ store'[n] = store[n]
    BY <1>1, <1>7, ActorTyped DEF Deletes, Stored
  <2>2. Pledged(n) => Pledged(n)'
    BY <1>7, <2>1 DEF Pledged, Deletes, Drops, Others, Actors
  <2> QED
    BY <1>2, <1>7, <2>1, <2>2 DEF Deletes
<1>8. ASSUME NEW a \in Actors, actor[a].pc \notin Saves, Others(a), UNCHANGED <<store, pending, faults>>
      PROVE n \in pending' \/ Pledged(n)'
  <2>1. actor[a].copy = None
    BY <1>1, <1>8 DEF Shaped, Shape
  <2>2. Pledged(n) => Pledged(n)'
    BY <1>8, <2>1 DEF Pledged, Others, Actors
  <2> QED
    BY <1>2, <1>8, <2>2
<1>9. ASSUME NEW a \in Actors, Browses(a) PROVE n \in pending' \/ Pledged(n)'
  BY <1>8, <1>9 DEF Browses
<1>10. ASSUME NEW r \in Requests, NEW m \in Notes, NEW copy \in Notification, Begins(r, m, copy)
       PROVE n \in pending' \/ Pledged(n)'
  BY <1>8, <1>10 DEF Begins, Actors
<1>11. ASSUME NEW w \in Workers, NEW m \in Notes, Tries(w, m) PROVE n \in pending' \/ Pledged(n)'
  BY <1>8, <1>11 DEF Tries, Actors, Saves
<1>12. CASE ComesDue
  BY <1>2, <1>12 DEF ComesDue, Pledged
<1> QED
  BY <1>1, <1>3, <1>4, <1>5, <1>6, <1>7, <1>9, <1>10, <1>11, <1>12 DEF AnyStep

SavedInv == QueueInv /\ Announced /\ Overtaken /\ QueuedIsPending

LEMMA SavedInit == Init => SavedInv
<1> SUFFICES ASSUME Init PROVE SavedInv
  OBVIOUS
<1>1. \A a \in Actors : actor[a].pc = "idle"
  BY DEF Init, Idle
<1>2. Announced /\ Overtaken
  BY <1>1 DEF Announced, Overtaken, Queueing, Saves, Actors
<1>3. QueuedIsPending
  BY DEF Init, QueuedIsPending, Exists
<1> QED
  BY <1>2, <1>3, QueueInvInit DEF SavedInv

LEMMA SavedInductive == SavedInv /\ [Next]_vars => SavedInv'
BY TypePreserved, AnnouncedKept, OvertakenKept, QueuedKept DEF SavedInv

\* As long as no command fails and no process dies, a notification that is stored as
\* queued is in the pending set or about to get there, with any number of requests
\* and of workers.
THEOREM QueuedAlwaysPending == Spec => []QueuedIsPending
<1>1. SavedInv => QueuedIsPending
  BY DEF SavedInv
<1> QED
  BY <1>1, SavedInit, SavedInductive, PTL DEF Spec

-----------------------------------------------------------------------------
(* Nothing is sent early.                                                    *)

\* What a worker deals with is due, and no copy of a notification that was handed
\* over before its time is a scheduled one.
OnTime ==
  /\ \A w \in Workers, n \in Notes : Holds(w, n) => n \in due
  /\ \A n \in Notes \ due : sends[n] > 0 =>
       /\ Exists(n) => ~store[n].scheduled
       /\ \A r \in Requests : actor[r].id = n /\ actor[r].copy # None => ~actor[r].copy.scheduled

LEMMA OnTimeKept ==
  ASSUME QueueInv, OnTime, [Next]_vars
  PROVE  OnTime'
<1>1. Typed /\ Stored /\ Shaped /\ AnyStep /\ sends \in [Notes -> Nat]
  BY EveryStep DEF QueueInv, TypeOK, Typed, Stored
<1>2. ASSUME NEW w \in Workers, NEW n \in Notes, Holds(w, n)' PROVE n \in due'
  <2>0. w \in Actors
    BY DEF Actors
  <2>n. n # None
    BY QueueAssumption
  <2>1. Holds(w, n) => n \in due
    BY DEF OnTime
  <2>2. CASE actor'[w] = actor[w] /\ due \subseteq due'
    BY <1>2, <2>1, <2>2 DEF Holds
  <2>3. ASSUME NEW a \in Actors, Sets(a) \/ Lists(a) PROVE n \in due'
    BY <1>2, <2>0, <2>1, <2>3 DEF Holds, Sets, Lists, GoesOn, Others
  <2>4. ASSUME NEW a \in Actors, Pends(a) \/ Faults(a) \/ Deletes(a) PROVE n \in due'
    <3>1. due' = due /\ Drops(a)
      BY <2>4 DEF Pends, Faults, Deletes
    <3>2. CASE a = w
      <4>1. Holds(w, n)
        BY <1>2, <2>n, <3>1, <3>2 DEF Holds, Drops
      <4> QED
        BY <2>1, <3>1, <4>1
    <3>3. CASE a # w
      BY <2>0, <2>2, <3>1, <3>3 DEF Drops, Others
    <3> QED
      BY <3>2, <3>3
  <2>5. ASSUME NEW a \in Actors, Browses(a) PROVE n \in due'
    <3>1. CASE a = w
      <4>1. n \in actor'[w].ids \/ actor'[w].batch[n] # None
        BY <1>2, <2>n, <2>5, <3>1 DEF Holds, Browses
      <4>2. Holds(w, n) \/ n \in due
        BY <2>5, <3>1, <4>1 DEF Holds, Browses
      <4> QED
        BY <2>1, <2>5, <4>2 DEF Browses
    <3>2. CASE a # w
      BY <2>0, <2>2, <2>5, <3>2 DEF Browses, Others
    <3> QED
      BY <3>1, <3>2
  <2>6. ASSUME NEW r \in Requests, NEW m \in Notes, NEW copy \in Notification, Begins(r, m, copy)
        PROVE n \in due'
    BY <2>0, <2>2, <2>6 DEF Begins, Others
  <2>7. ASSUME NEW v \in Workers, NEW m \in Notes, Tries(v, m) PROVE n \in due'
    <3>1. CASE v = w
      <4>1. Holds(w, m)
        BY <2>7, <3>1 DEF Tries, Holds
      <4>2. m \in due /\ due' = due
        BY <2>7, <4>1 DEF OnTime, Tries
      <4>3. CASE n # m
        BY <1>2, <2>1, <2>7, <3>1, <4>2, <4>3 DEF Tries, Holds
      <4> QED
        BY <4>2, <4>3
    <3>2. CASE v # w
      BY <2>0, <2>2, <2>7, <3>2 DEF Tries, Others
    <3> QED
      BY <3>1, <3>2
  <2>8. CASE ComesDue
    BY <2>2, <2>8 DEF ComesDue
  <2> QED
    BY <1>1, <2>3, <2>4, <2>5, <2>6, <2>7, <2>8 DEF AnyStep
<1>3. ASSUME NEW n \in Notes \ due', sends'[n] > 0
      PROVE /\ Exists(n)' => ~store'[n].scheduled
            /\ \A r \in Requests : actor'[r].id = n /\ actor'[r].copy # None => ~actor'[r].copy.scheduled
  <2> DEFINE Unscheduled ==
        /\ store'[n] # None => ~store'[n].scheduled
        /\ \A r \in Requests : actor'[r].id = n /\ actor'[r].copy # None => ~actor'[r].copy.scheduled
  <2>1. ASSUME n \notin due, sends[n] > 0
        PROVE /\ store[n] # None => ~store[n].scheduled
              /\ \A r \in Requests : actor[r].id = n /\ actor[r].copy # None => ~actor[r].copy.scheduled
    BY <2>1 DEF OnTime, Exists
  <2>2. ASSUME NEW a \in Actors, Sets(a) PROVE Unscheduled
    <3>1. actor[a].id \in Notes /\ actor[a].copy \in Notification
      BY <1>1, <2>2, SavingTyped DEF Sets, Saves
    <3>2. n \notin due /\ sends[n] > 0
      BY <1>3, <2>2 DEF Sets
    <3>3. store'[n] = IF actor[a].id = n THEN actor[a].copy ELSE store[n]
      BY <1>1, <2>2, <3>1 DEF Sets, Stored
    <3>4. actor[a].id = n => a \in Requests
      BY <3>2 DEF OnTime, Holds, Actors
    <3>5. \A r \in Requests : actor'[r].id = actor[r].id /\ actor'[r].copy = actor[r].copy
      BY <2>2 DEF Sets, GoesOn, Others, Actors
    <3> QED
      BY <2>1, <3>1, <3>2, <3>3, <3>4, <3>5
  <2>3. ASSUME NEW a \in Actors, Lists(a) PROVE Unscheduled
    <3>1. \A r \in Requests : actor'[r].id = actor[r].id /\ actor'[r].copy = actor[r].copy
      BY <2>3 DEF Lists, GoesOn, Others, Actors
    <3> QED
      BY <1>3, <2>1, <2>3, <3>1 DEF Lists
  <2>4. ASSUME NEW a \in Actors, Pends(a) \/ Faults(a) \/ Deletes(a) PROVE Unscheduled
    <3>1. n \notin due /\ sends[n] > 0 /\ Drops(a)
      BY <1>3, <2>4 DEF Pends, Faults, Deletes
    <3>2. store'[n] \in {store[n], None}
      BY <1>1, <2>4, ActorTyped DEF Pends, Faults, Deletes, Stored
    <3>3. \A r \in Requests : actor'[r] = actor[r] \/ actor'[r].copy = None
      BY <3>1 DEF Drops, Others, Actors
    <3> QED
      BY <2>1, <3>1, <3>2, <3>3
  <2>5. ASSUME NEW a \in Actors, Browses(a) PROVE Unscheduled
    <3>1. a \in Actors /\ Shaped'
      BY TypePreserved DEF QueueInv
    <3>2. actor'[a].copy = None
      BY <2>5, <3>1 DEF Browses, Shaped, Shape
    <3>3. \A r \in Requests : actor'[r] = actor[r] \/ actor'[r].copy = None
      BY <2>5, <3>2 DEF Browses, Others, Actors
    <3> QED
      BY <1>3, <2>1, <2>5, <3>3 DEF Browses
  <2>6. ASSUME NEW q \in Requests, NEW m \in Notes, NEW copy \in Notification, Begins(q, m, copy)
        PROVE Unscheduled
    <3>1. n \notin due /\ store' = store
      BY <1>3, <2>6 DEF Begins
    <3>2. \A r \in Requests \ {q} : actor'[r] = actor[r]
      BY <2>6 DEF Begins, Others, Actors
    <3>3. actor'[q].id = m /\ actor'[q].copy = copy
      BY <2>6 DEF Begins
    <3>4. CASE m # n
      <4>1. sends'[n] = sends[n]
        BY <2>6, <3>4 DEF Begins
      <4> QED
        BY <1>3, <2>1, <3>1, <3>2, <3>3, <3>4, <4>1
    <3>5. CASE m = n /\ Fresh(n)
      <4>1. sends[n] = 0 /\ store[n] = None /\ \A r \in Requests : actor[r].id # n
        BY <3>5 DEF Fresh, Exists, Actors
      <4>2. ~copy.scheduled
        BY <1>3, <2>6, <3>5, <4>1 DEF Begins, Notification
      <4> QED
        BY <3>1, <3>2, <3>3, <4>1, <4>2
    <3>6. CASE m = n /\ ~Fresh(n)
      <4>1. store[n] # None /\ copy.scheduled = store[n].scheduled /\ sends'[n] = sends[n]
        BY <2>6, <3>6 DEF Begins
      <4> QED
        BY <1>3, <2>1, <3>1, <3>2, <3>3, <4>1
    <3> QED
      BY <3>4, <3>5, <3>6
  <2>7. ASSUME NEW w \in Workers, NEW m \in Notes, Tries(w, m) PROVE Unscheduled
    <3>1. Holds(w, m)
      BY <2>7 DEF Tries, Holds
    <3>2. n \notin due /\ m \in due
      BY <1>3, <2>7, <3>1 DEF Tries, OnTime
    <3>3. sends'[n] = sends[n] /\ store' = store
      BY <2>7, <3>2 DEF Tries
    <3>4. \A r \in Requests : actor'[r] = actor[r]
      BY <2>7 DEF Tries, Others, Actors
    <3> QED
      BY <1>3, <2>1, <3>2, <3>3, <3>4
  <2>8. ASSUME ComesDue PROVE Unscheduled
    BY <1>3, <2>1, <2>8 DEF ComesDue
  <2>9. Unscheduled
    BY <1>1, <2>2, <2>3, <2>4, <2>5, <2>6, <2>7, <2>8 DEF AnyStep
  <2> QED
    BY <2>9 DEF Exists
<1> QED
  BY <1>2, <1>3 DEF OnTime

LEMMA OnTimeInit == Init => OnTime
BY DEF Init, OnTime, Holds, Idle, Actors

\* Whatever is stored as scheduled has not been handed over before the second of its
\* scheduled time, for any number of workers, and after any faults.
THEOREM NeverSentEarly == Spec => []NeverEarly
<1>1. QueueInv /\ OnTime => NeverEarly
  BY DEF OnTime, NeverEarly
<1>2. Init => QueueInv /\ OnTime
  BY QueueInvInit, OnTimeInit
<1>3. (QueueInv /\ OnTime) /\ [Next]_vars => (QueueInv /\ OnTime)'
  BY TypePreserved, OnTimeKept
<1> QED
  BY <1>1, <1>2, <1>3, PTL DEF Spec

-----------------------------------------------------------------------------
(* A worker sends nothing twice without a fault.                             *)

\* The attempts to deliver n are at most k: the times it was handed over, and on top
\* of them the failures that any copy of n has on record.
Within(n, k) ==
  /\ sends[n] <= k
  /\ Exists(n) => sends[n] + store[n].retries <= k
  /\ \A a \in Actors : actor[a].id = n /\ actor[a].copy # None => sends[n] + actor[a].copy.retries <= k
  /\ \A w \in Workers : actor[w].batch[n] # None => sends[n] + actor[w].batch[n].retries <= k

\* The workers that may attempt to deliver n without being asked to again.
Trying(n) == {w \in Workers : n \in actor[w].ids \/ actor[w].batch[n] # None}

\* The workers that save the outcome of an attempt.
Saving(n) == {w \in Workers : actor[w].id = n}

\* No worker knows of n, nor can find it.
Unclaimed(n) == n \notin pending /\ Trying(n) = {} /\ Saving(n) = {}

\* A request sends at once also where there is no worker.
Replicas == IF Workers = {} THEN 1 ELSE Cardinality(Workers)

\* The attempts that faults and the workers not trying may account for: an attempt
\* takes n out of what a worker holds, and it does not get it back while n is not pending.
Rest(n) == faults + (Replicas - Cardinality(Trying(n)))

\* While n is pending each attempt is a fault's, or its worker has yet to save it.
Spent(n) == faults + Cardinality(Saving(n))

\* A notification that is about to be scheduled has had no attempt.
Counted ==
  /\ \A r \in Requests, n \in Notes : Queueing(r) /\ actor[r].id = n =>
       /\ Within(n, 0) /\ Unclaimed(n)
       /\ \A q \in Requests : Queueing(q) /\ actor[q].id = n => q = r
  /\ \A n \in Notes :
       /\ Within(n, Rest(n))
       /\ n \in pending => Within(n, Spent(n))

Sizes ==
  /\ sends \in [Notes -> Nat] /\ faults \in Nat
  /\ \A n \in Notes : Exists(n) => store[n].retries \in Nat
  /\ \A a \in Actors : actor[a].copy # None => actor[a].copy.retries \in Nat
  /\ \A w \in Workers, n \in Notes : actor[w].batch[n] # None => actor[w].batch[n].retries \in Nat

LEMMA SizesTyped == QueueInv => Sizes
<1> SUFFICES ASSUME QueueInv PROVE Sizes
  OBVIOUS
<1>1. Typed /\ Shaped /\ Stored
  BY DEF QueueInv, TypeOK, Typed, Stored
<1>2. \A x \in Notification \cup {None} : x # None => x.retries \in Nat
  BY DEF Notification
<1>3. sends \in [Notes -> Nat] /\ faults \in Nat
  BY DEF QueueInv, TypeOK
<1>4. \A n \in Notes : Exists(n) => store[n].retries \in Nat
  BY <1>1, <1>2 DEF Stored, Exists
<1>5. ASSUME NEW a \in Actors PROVE
        /\ actor[a].copy # None => actor[a].copy.retries \in Nat
        /\ \A n \in Notes : actor[a].batch[n] # None => actor[a].batch[n].retries \in Nat
  BY <1>1, <1>2, ActorTyped
<1> QED
  BY <1>3, <1>4, <1>5 DEF Sizes, Actors

LEMMA WithinMore ==
  ASSUME Sizes, NEW n \in Notes, NEW k \in Nat, NEW j \in Nat, k <= j, Within(n, k)
  PROVE  Within(n, j)
<1>1. \A x \in Nat : x <= k => x <= j
  OBVIOUS
<1>2. /\ sends[n] \in Nat
      /\ Exists(n) => sends[n] + store[n].retries \in Nat
      /\ \A a \in Actors : actor[a].copy # None => sends[n] + actor[a].copy.retries \in Nat
      /\ \A w \in Workers : actor[w].batch[n] # None => sends[n] + actor[w].batch[n].retries \in Nat
  BY DEF Sizes
<1> QED
  BY <1>1, <1>2 DEF Within

\* Every copy is made from another, so no step but an attempt adds to the count.
LEMMA WithinKept ==
  ASSUME QueueInv, [Next]_vars, NEW n \in Notes, NEW k \in Nat, Within(n, k),
         \A w \in Workers : ~Tries(w, n),
         \A r \in Requests, copy \in Notification : Begins(r, n, copy) => ~Fresh(n)
  PROVE  Within(n, k)'
<1>1. Typed /\ Stored /\ Shaped /\ AnyStep
  BY EveryStep DEF QueueInv, TypeOK, Typed, Stored
<1> DEFINE Kept ==
      /\ sends'[n] <= k
      /\ store'[n] # None => sends'[n] + store'[n].retries <= k
      /\ \A a \in Actors : actor'[a].id = n /\ actor'[a].copy # None => sends'[n] + actor'[a].copy.retries <= k
      /\ \A w \in Workers : actor'[w].batch[n] # None => sends'[n] + actor'[w].batch[n].retries <= k
<1> USE DEF Within, Exists
<1>2. ASSUME sends'[n] = sends[n],
             \/ store'[n] \in {store[n], None}
             \/ \E a \in Actors : actor[a].id = n /\ actor[a].copy # None /\ store'[n] = actor[a].copy,
             \A a \in Actors : actor'[a].id = n /\ actor'[a].copy # None =>
               \/ actor[a].id = n /\ actor'[a].copy = actor[a].copy
               \/ store[n] # None /\ actor'[a].copy.retries = store[n].retries,
             \A w \in Workers : actor'[w].batch[n] # None =>
               \/ actor'[w].batch[n] = actor[w].batch[n]
               \/ actor'[w].batch[n] = store[n]
      PROVE Kept
  <2>1. store'[n] # None => sends'[n] + store'[n].retries <= k
    BY <1>2
  <2>2. ASSUME NEW a \in Actors, actor'[a].id = n, actor'[a].copy # None
        PROVE sends'[n] + actor'[a].copy.retries <= k
    BY <1>2, <2>2
  <2>3. ASSUME NEW w \in Workers, actor'[w].batch[n] # None
        PROVE sends'[n] + actor'[w].batch[n].retries <= k
    BY <1>2, <2>3
  <2> QED
    BY <1>2, <2>1, <2>2, <2>3
<1> HIDE DEF Kept, Within
<1>3. ASSUME NEW a \in Actors, Sets(a) PROVE Kept
  <2>1. actor[a].id \in Notes /\ actor[a].copy \in Notification
    BY <1>1, <1>3, SavingTyped DEF Sets, Saves
  <2>2. store'[n] = IF actor[a].id = n THEN actor[a].copy ELSE store[n]
    BY <1>1, <1>3, <2>1 DEF Sets, Stored
  <2>3. \A b \in Actors : /\ actor'[b].id = actor[b].id /\ actor'[b].copy = actor[b].copy
                         /\ actor'[b].batch = actor[b].batch
    BY <1>3 DEF Sets, GoesOn, Others
  <2>4. actor[a].copy # None
    BY <2>1
  <2>5. sends' = sends
    BY <1>3 DEF Sets
  <2> QED
    BY <1>2, <2>2, <2>3, <2>4, <2>5 DEF Actors
<1>4. ASSUME NEW a \in Actors, Lists(a) PROVE Kept
  <2>1. \A b \in Actors : /\ actor'[b].id = actor[b].id /\ actor'[b].copy = actor[b].copy
                         /\ actor'[b].batch = actor[b].batch
    BY <1>4 DEF Lists, GoesOn, Others
  <2> QED
    BY <1>2, <1>4, <2>1 DEF Lists, Actors
<1>5. ASSUME NEW a \in Actors, Pends(a) \/ Faults(a) \/ Deletes(a) PROVE Kept
  <2>1. Drops(a) /\ sends' = sends
    BY <1>5 DEF Pends, Faults, Deletes
  <2>2. store'[n] \in {store[n], None}
    BY <1>1, <1>5, ActorTyped DEF Pends, Faults, Deletes, Stored
  <2>3. \A b \in Actors : actor'[b].copy # None => actor'[b] = actor[b]
    BY <2>1 DEF Drops, Others
  <2>4. \A b \in Actors : actor'[b].batch[n] # None => actor'[b].batch[n] = actor[b].batch[n]
    BY <2>1 DEF Drops, Others
  <2> QED
    BY <1>2, <2>1, <2>2, <2>3, <2>4 DEF Actors
<1>6. ASSUME NEW a \in Actors, Browses(a) PROVE Kept
  <2>1. actor'[a].copy = None
    <3>1. Shaped'
      BY TypePreserved DEF QueueInv
    <3> QED
      BY <1>6, <3>1 DEF Browses, Shaped, Shape
  <2>2. \A b \in Actors : actor'[b].copy # None => actor'[b] = actor[b]
    BY <1>6, <2>1 DEF Browses, Others
  <2>3. \A w \in Workers : actor'[w].batch[n] # None =>
          actor'[w].batch[n] = actor[w].batch[n] \/ actor'[w].batch[n] = store[n]
    BY <1>6 DEF Browses, Others, Actors
  <2> QED
    BY <1>2, <1>6, <2>2, <2>3 DEF Browses
<1>7. ASSUME NEW r \in Requests, NEW m \in Notes, NEW copy \in Notification, Begins(r, m, copy) PROVE Kept
  <2>1. \A b \in Actors \ {r} : actor'[b] = actor[b]
    BY <1>7 DEF Begins, Others
  <2>2. actor'[r].id = m /\ actor'[r].copy = copy /\ store' = store
    BY <1>7 DEF Begins
  <2>3. \A w \in Workers : actor'[w].batch = actor[w].batch
    BY <2>1 DEF Actors
  <2>4. CASE m # n
    <3>1. sends'[n] = sends[n]
      BY <1>7, <2>4 DEF Begins
    <3> QED
      BY <1>2, <2>1, <2>2, <2>3, <2>4, <3>1
  <2>5. CASE m = n
    <3>1. sends'[n] = sends[n] /\ store[n] # None /\ copy.retries = store[n].retries
      BY <1>7, <2>5 DEF Begins
    <3> QED
      BY <1>2, <2>1, <2>2, <2>3, <3>1
  <2> QED
    BY <2>4, <2>5
<1>8. ASSUME NEW w \in Workers, NEW m \in Notes, Tries(w, m) PROVE Kept
  <2>1. m # n /\ sends'[n] = sends[n] /\ store' = store
    BY <1>8 DEF Tries
  <2>2. \A b \in Actors : actor'[b].id = n => actor'[b] = actor[b]
    BY <1>8, <2>1 DEF Tries, Others
  <2>3. \A v \in Workers : actor'[v].batch[n] = actor[v].batch[n]
    BY <1>8, <2>1 DEF Tries, Others, Actors
  <2> QED
    BY <1>2, <2>1, <2>2, <2>3
<1>9. ASSUME ComesDue PROVE Kept
  BY <1>2, <1>9 DEF ComesDue
<1>10. Kept
  BY <1>1, <1>3, <1>4, <1>5, <1>6, <1>7, <1>8, <1>9 DEF AnyStep
<1> QED
  BY <1>10 DEF Kept, Within

LEMMA WithinTries ==
  ASSUME QueueInv, [Next]_vars, NEW n \in Notes, NEW k \in Nat, Within(n, k),
         NEW w \in Workers, Tries(w, n)
  PROVE  Within(n, k + 1)'
<1>1. Sizes
  BY SizesTyped
<1>2. store' = store /\ w \in Actors
  BY DEF Tries, Actors
<1>3. sends'[n] <= sends[n] + 1 /\ sends[n] \in Nat /\ sends'[n] \in Nat
  BY <1>1 DEF Tries, Sizes
<1>4. sends'[n] <= k + 1
  BY <1>3 DEF Within
<1>5. store'[n] # None => sends'[n] + store'[n].retries <= k + 1
  BY <1>1, <1>2, <1>3 DEF Within, Exists, Sizes
<1>6. sends'[n] + actor'[w].copy.retries = sends[n] + actor[w].batch[n].retries + 1
      /\ actor[w].batch[n] # None
  BY <1>1 DEF Tries, Sizes
<1>7. sends'[n] + actor'[w].copy.retries <= k + 1
  BY <1>1, <1>6 DEF Within, Sizes
<1>8. ASSUME NEW a \in Actors, a # w, actor'[a].id = n, actor'[a].copy # None
      PROVE sends'[n] + actor'[a].copy.retries <= k + 1
  <2>1. actor'[a] = actor[a]
    BY <1>8 DEF Tries, Others
  <2> QED
    BY <1>1, <1>3, <1>8, <2>1 DEF Within, Sizes
<1>9. ASSUME NEW v \in Workers, actor'[v].batch[n] # None
      PROVE sends'[n] + actor'[v].batch[n].retries <= k + 1
  <2>1. v # w /\ actor'[v] = actor[v]
    BY <1>9 DEF Tries, Others, Actors
  <2> QED
    BY <1>1, <1>3, <1>9, <2>1 DEF Within, Sizes
<1> QED
  BY <1>4, <1>5, <1>7, <1>8, <1>9 DEF Within, Exists

\* A notification that a request makes up has had no attempt, or the one of the request.
LEMMA WithinFresh ==
  ASSUME QueueInv, NEW r \in Requests, NEW n \in Notes, NEW copy \in Notification,
         Begins(r, n, copy), Fresh(n)
  PROVE  /\ Within(n, 1)'
         /\ copy.status = "queued" => Within(n, 0)'
<1>1. /\ sends[n] = 0 /\ store'[n] = None /\ \A w \in Workers : actor'[w].batch[n] = None
  BY DEF Fresh, Exists, Begins, Others, Actors
<1>2. \A a \in Actors : actor'[a].id = n => a = r /\ actor'[a].copy = copy
  BY DEF Fresh, Begins, Others
<1>3. sends'[n] \in {0, 1} /\ (copy.status = "queued" => sends'[n] = 0) /\ copy.retries = 0
  BY <1>1 DEF Begins, Exists, Fresh
<1> QED
  BY <1>1, <1>2, <1>3 DEF Within, Exists

LEMMA ScheduledCounted ==
  ASSUME QueueInv, Announced, Counted, [Next]_vars,
         NEW r \in Requests, NEW n \in Notes, Queueing(r)', actor'[r].id = n
  PROVE  /\ Within(n, 0)' /\ Unclaimed(n)'
         /\ \A q \in Requests : Queueing(q)' /\ actor'[q].id = n => q = r
<1>1. Typed /\ Stored /\ Shaped /\ AnyStep /\ r \in Actors
  BY EveryStep DEF QueueInv, TypeOK, Typed, Stored, Actors
<1>2. \A q \in Requests, m \in Notes : ~Tries(q, m)
  BY DEF Tries
<1>3. CASE \A m \in Notes, copy \in Notification : ~Begins(r, m, copy)
  <2>1. Queueing(r) /\ actor[r].id = n
    BY <1>1, <1>2, <1>3, QueueingBefore
  <2>2. /\ Within(n, 0) /\ Unclaimed(n)
        /\ \A q \in Requests : Queueing(q) /\ actor[q].id = n => q = r
    BY <2>1 DEF Counted
  <2>3. ~Fresh(n)
    BY <1>1, <2>1 DEF Fresh
  <2>4. \A w \in Workers : ~Tries(w, n)
    BY <2>2 DEF Unclaimed, Trying, Tries
  <2>5. Within(n, 0)'
    BY <2>2, <2>3, <2>4, WithinKept
  <2>6. n \notin pending'
    <3>1. n \notin pending
      BY <2>2 DEF Unclaimed
    <3>2. ASSUME NEW a \in Actors, Pends(a), n \in pending' PROVE FALSE
      <4>1. actor[a].id = n /\ actor[a].copy.status = "queued" /\ actor[a].pc = "pend"
        BY <3>1, <3>2 DEF Pends, PendingAfter
      <4>2. Queueing(a)
        BY <4>1 DEF Queueing, Saves
      <4>3. a \in Requests
        BY <4>2 DEF Announced, Actors
      <4>4. a = r
        BY <2>2, <4>1, <4>2, <4>3
      <4> QED
        BY <3>2, <4>4 DEF Pends, Drops, Queueing
    <3> QED
      BY <1>1, <3>1, <3>2 DEF AnyStep, Sets, Lists, Faults, Deletes, Browses, Begins, Tries, ComesDue
  <2>7. ASSUME NEW w \in Workers PROVE n \notin actor'[w].ids /\ actor'[w].batch[n] = None /\ actor'[w].id # n
    <3>1. n \notin actor[w].ids /\ actor[w].batch[n] = None /\ actor[w].id # n /\ n \notin pending /\ w \in Actors
      BY <2>2 DEF Unclaimed, Trying, Saving, Actors
    <3>2. n # None
      BY QueueAssumption
    <3>3. ASSUME NEW a \in Actors, Sets(a) \/ Lists(a) PROVE <2>7!2
      BY <3>1, <3>3 DEF Sets, Lists, GoesOn, Others
    <3>4. ASSUME NEW a \in Actors, Pends(a) \/ Faults(a) \/ Deletes(a) PROVE <2>7!2
      <4>1. Drops(a)
        BY <3>4 DEF Pends, Faults, Deletes
      <4> QED
        BY <3>1, <3>2, <4>1 DEF Drops, Others
    <3>5. ASSUME NEW a \in Actors, Browses(a) PROVE <2>7!2
      BY <3>1, <3>2, <3>5 DEF Browses, Others
    <3>6. ASSUME NEW q \in Requests, NEW m \in Notes, NEW copy \in Notification, Begins(q, m, copy) PROVE <2>7!2
      BY <3>1, <3>6 DEF Begins, Others
    <3>7. ASSUME NEW v \in Workers, NEW m \in Notes, Tries(v, m) PROVE <2>7!2
      <4>1. m # n
        BY <2>4, <3>7
      <4> QED
        BY <3>1, <3>7, <4>1 DEF Tries, Others
    <3>8. ASSUME ComesDue PROVE <2>7!2
      BY <3>1, <3>8 DEF ComesDue
    <3> QED
      BY <1>1, <3>3, <3>4, <3>5, <3>6, <3>7, <3>8 DEF AnyStep
  <2>8. ASSUME NEW q \in Requests, Queueing(q)', actor'[q].id = n PROVE q = r
    <3>1. q \in Actors
      BY DEF Actors
    <3>2. CASE \A m \in Notes, copy \in Notification : ~Begins(q, m, copy)
      BY <1>2, <2>2, <2>8, <3>1, <3>2, QueueingBefore
    <3>3. ASSUME NEW m \in Notes, NEW copy \in Notification, Begins(q, m, copy) PROVE q = r
      BY <2>3, <2>8, <3>3 DEF Begins, Queueing
    <3> QED
      BY <3>2, <3>3
  <2> QED
    BY <2>5, <2>6, <2>7, <2>8 DEF Unclaimed, Trying, Saving
<1>4. ASSUME NEW m \in Notes, NEW copy \in Notification, Begins(r, m, copy)
      PROVE /\ Within(n, 0)' /\ Unclaimed(n)'
            /\ \A q \in Requests : Queueing(q)' /\ actor'[q].id = n => q = r
  <2>1. m = n /\ copy.status = "queued" /\ Fresh(n) /\ pending' = pending /\ Others(r)
    BY <1>4 DEF Begins, Queueing
  <2>2. Within(n, 0)'
    BY <1>4, <2>1, WithinFresh
  <2>3. \A a \in Actors : a # r => actor'[a].id # n /\ n \notin actor'[a].ids /\ actor'[a].batch[n] = None
    BY <2>1 DEF Fresh, Others
  <2>4. \A w \in Workers : w # r /\ w \in Actors
    BY DEF Actors
  <2>5. \A q \in Requests : q \in Actors
    BY DEF Actors
  <2> QED
    BY <2>1, <2>2, <2>3, <2>4, <2>5 DEF Unclaimed, Trying, Saving, Fresh
<1> QED
  BY <1>3, <1>4

\* Sets of workers.
Fleet == IsFiniteSet(Workers)

LEMMA SomeWorkers ==
  ASSUME Fleet, NEW S \in SUBSET Workers
  PROVE  /\ IsFiniteSet(S) /\ Cardinality(S) \in Nat
         /\ Replicas \in Nat /\ 1 <= Replicas /\ Cardinality(S) <= Replicas
<1>1. IsFiniteSet(S) /\ Cardinality(S) <= Cardinality(Workers)
  BY FS_Subset DEF Fleet
<1>2. Cardinality(S) \in Nat /\ Cardinality(Workers) \in Nat
  BY <1>1, FS_CardinalityType DEF Fleet
<1>3. Cardinality(Workers) = 0 <=> Workers = {}
  BY FS_EmptySet DEF Fleet
<1> QED
  BY <1>1, <1>2, <1>3 DEF Replicas

LEMMA FewerWorkers ==
  ASSUME Fleet, NEW T \in SUBSET Workers, NEW S \in SUBSET T
  PROVE  Cardinality(S) <= Cardinality(T)
BY SomeWorkers, FS_Subset

LEMMA OneWorkerMore ==
  ASSUME Fleet, NEW S \in SUBSET Workers, NEW w \in Workers
  PROVE  /\ w \notin S => Cardinality(S \cup {w}) = Cardinality(S) + 1
         /\ w \in S => Cardinality(S \ {w}) = Cardinality(S) - 1
         /\ Cardinality(S \cup {w}) <= Cardinality(S) + 1
BY SomeWorkers, FS_AddElement, FS_RemoveElement

LEMMA ApartWorkers ==
  ASSUME Fleet, NEW S \in SUBSET Workers, NEW T \in SUBSET Workers, S \cap T = {}
  PROVE  Cardinality(S) + Cardinality(T) <= Replicas
<1>1. Cardinality(S \cup T) = Cardinality(S) + Cardinality(T) - Cardinality({})
  BY SomeWorkers, FS_Union
<1>2. Cardinality({}) = 0
  BY FS_EmptySet
<1>3. Cardinality(S \cup T) <= Replicas
  BY SomeWorkers
<1> QED
  BY <1>1, <1>2, <1>3, SomeWorkers

\* A worker that saves the outcome of an attempt no longer holds what it attempted.
LEMMA TryingApart ==
  ASSUME QueueInv, NEW n \in Notes
  PROVE  Trying(n) \cap Saving(n) = {}
<1>1. ASSUME NEW w \in Workers, actor[w].id = n
      PROVE  n \notin actor[w].ids /\ actor[w].batch[n] = None
  <2>1. /\ WorkerShape(actor[w].pc, actor[w].ids, actor[w].batch, actor[w].id)
        /\ Shape(actor[w].pc, actor[w].id, actor[w].copy)
    BY DEF QueueInv, Shaped, Actors
  <2>2. n # None
    BY QueueAssumption
  <2> QED
    BY <1>1, <2>1, <2>2 DEF WorkerShape, Shape, Saves
<1> QED
  BY <1>1 DEF Trying, Saving

Countable(n) ==
  /\ faults \in Nat /\ Replicas \in Nat /\ 1 <= Replicas
  /\ Cardinality(Trying(n)) \in Nat /\ Cardinality(Saving(n)) \in Nat
  /\ Cardinality(Trying(n)) + Cardinality(Saving(n)) <= Replicas
  /\ Rest(n) \in Nat /\ Spent(n) \in Nat

AllCountable == \A n \in Notes : Countable(n)

LEMMA CountsTyped == Fleet /\ QueueInv => AllCountable
<1> SUFFICES ASSUME Fleet, QueueInv, NEW n \in Notes PROVE Countable(n)
  BY DEF AllCountable
<1>1. Trying(n) \subseteq Workers /\ Saving(n) \subseteq Workers
  BY DEF Trying, Saving
<1>2. faults \in Nat
  BY SizesTyped DEF Sizes
<1>3. /\ Replicas \in Nat /\ 1 <= Replicas
      /\ Cardinality(Trying(n)) \in Nat /\ Cardinality(Saving(n)) \in Nat
      /\ Cardinality(Trying(n)) + Cardinality(Saving(n)) <= Replicas
  BY <1>1, SomeWorkers, ApartWorkers, TryingApart
<1> QED
  BY <1>2, <1>3 DEF Rest, Spent, Countable

\* What a step that attempts nothing does to those who hold n.
LEMMA ClaimsMove ==
  ASSUME QueueInv, Announced, Counted, [Next]_vars, NEW n \in Notes, \A w \in Workers : ~Tries(w, n)
  PROVE  /\ \/ Trying(n)' \subseteq Trying(n)
            \/ n \in pending /\ Saving(n)' = Saving(n) /\ faults' = faults
         /\ n \in pending' =>
              \/ Within(n, 0)
              \/ /\ n \in pending
                 /\ \/ Saving(n) \subseteq Saving(n)'
                    \/ /\ faults' = faults + 1
                       /\ \E w \in Workers : Saving(n) \subseteq Saving(n)' \cup {w}
<1> DEFINE Claims ==
      /\ \/ Trying(n)' \subseteq Trying(n)
         \/ n \in pending /\ Saving(n)' = Saving(n) /\ faults' = faults
      /\ n \in pending' =>
           \/ Within(n, 0)
           \/ /\ n \in pending
              /\ \/ Saving(n) \subseteq Saving(n)'
                 \/ /\ faults' = faults + 1
                    /\ \E w \in Workers : Saving(n) \subseteq Saving(n)' \cup {w}
<1>1. Typed /\ Stored /\ Shaped /\ AnyStep
  BY EveryStep DEF QueueInv, TypeOK, Typed, Stored
<1>2. \A w \in Workers : w \in Actors /\ w \notin Requests
  BY DEF Actors
<1>3. ASSUME n \in pending' => n \in pending,
             \A w \in Workers : /\ actor'[w].ids = actor[w].ids /\ actor'[w].id = actor[w].id
                               /\ actor'[w].batch[n] = actor[w].batch[n]
      PROVE  Claims
  BY <1>3 DEF Trying, Saving
<1>4. ASSUME NEW a \in Actors, Drops(a)
      PROVE  /\ Trying(n)' \subseteq Trying(n)
             /\ Saving(n) \ {a} \subseteq Saving(n)'
  BY <1>2, <1>4 DEF Drops, Others, Trying, Saving
<1> HIDE DEF Claims
<1>5. ASSUME NEW a \in Actors, Sets(a) \/ Lists(a) PROVE Claims
  <2>1. pending' = pending
    BY <1>5 DEF Sets, Lists
  <2> QED
    BY <1>2, <1>3, <1>5, <2>1 DEF Sets, Lists, GoesOn, Others
<1>6. ASSUME NEW a \in Actors, Pends(a) PROVE Claims
  <2>1. actor[a].pc \in Saves /\ Drops(a) /\ n # None
    BY <1>6, QueueAssumption DEF Pends, Saves
  <2>2. CASE a \in Workers /\ actor[a].id = n
    <3>1. actor[a].copy.status # "queued"
      BY <2>1, <2>2 DEF Announced, Queueing
    <3>2. n \notin pending'
      BY <1>6, <2>2, <3>1 DEF Pends, PendingAfter
    <3> QED
      BY <1>4, <2>1, <3>2 DEF Claims
  <2>3. CASE a \in Requests /\ actor[a].id = n /\ actor[a].copy.status = "queued"
    <3>1. Within(n, 0)
      BY <2>1, <2>3 DEF Counted, Queueing
    <3> QED
      BY <1>4, <2>1, <3>1 DEF Claims
  <2>4. CASE /\ a \in Workers => actor[a].id # n
             /\ a \in Requests => actor[a].id # n \/ actor[a].copy.status # "queued"
    <3>1. n \in pending' => n \in pending
      BY <1>6, <2>4 DEF Pends, PendingAfter, Actors
    <3>2. a \notin Saving(n)
      BY <2>4 DEF Saving
    <3> QED
      BY <1>4, <2>1, <3>1, <3>2 DEF Claims
  <2> QED
    BY <1>2, <2>2, <2>3, <2>4 DEF Actors
<1>7. ASSUME NEW a \in Actors, Faults(a) PROVE Claims
  <2>1. Drops(a) /\ faults' = faults + 1 /\ pending' = pending
    BY <1>7 DEF Faults
  <2>2. Saving(n) \subseteq Saving(n)' \/ (a \in Workers /\ Saving(n) \subseteq Saving(n)' \cup {a})
    <3>1. Saving(n) \subseteq Workers
      BY DEF Saving
    <3> QED
      BY <1>4, <2>1, <3>1
  <2> QED
    BY <1>4, <2>1, <2>2 DEF Claims
<1>8. ASSUME NEW a \in Actors, Deletes(a) PROVE Claims
  <2>1. (n \in pending' => n \in pending) /\ a \in Requests /\ Others(a)
    BY <1>8 DEF Deletes, Drops
  <2>2. \A w \in Workers : actor'[w] = actor[w]
    BY <1>2, <2>1 DEF Others
  <2> QED
    BY <1>3, <2>1, <2>2
<1>9. ASSUME NEW a \in Actors, Browses(a) PROVE Claims
  <2>1. pending' = pending /\ faults' = faults /\ Others(a)
    BY <1>9 DEF Browses
  <2>2. CASE a \in Requests
    <3>1. \A w \in Workers : actor'[w] = actor[w]
      BY <1>2, <2>1, <2>2 DEF Others
    <3> QED
      BY <1>3, <2>1, <3>1
  <2>3. CASE a \in Workers
    <3>1. actor[a].id = None /\ actor'[a].id = None
      <4>1. actor[a].pc \notin Saves \cup {"delete"}
        BY <1>1, <1>9, <2>3 DEF Browses, Shaped, WorkerShape
      <4> QED
        BY <1>1, <1>9, <2>3, <4>1 DEF Browses, Shaped, Shape
    <3>2. Saving(n)' = Saving(n)
      BY <1>2, <2>1, <3>1 DEF Saving, Others
    <3>3. n \in pending \/ Trying(n)' \subseteq Trying(n)
      BY <1>2, <1>9, <2>3 DEF Browses, Others, Trying
    <3> QED
      BY <2>1, <3>2, <3>3 DEF Claims
  <2> QED
    BY <2>2, <2>3 DEF Actors
<1>10. ASSUME NEW r \in Requests, NEW m \in Notes, NEW copy \in Notification, Begins(r, m, copy)
       PROVE  Claims
  <2>1. pending' = pending /\ \A w \in Workers : actor'[w] = actor[w]
    BY <1>2, <1>10 DEF Begins, Others
  <2> QED
    BY <1>3, <2>1
<1>11. ASSUME NEW v \in Workers, NEW m \in Notes, Tries(v, m) PROVE Claims
  <2>1. m # n /\ pending' = pending /\ Others(v)
    BY <1>11 DEF Tries
  <2>2. actor'[v].ids = actor[v].ids /\ actor'[v].batch[n] = actor[v].batch[n]
    BY <1>11, <2>1 DEF Tries
  <2>3. actor[v].id # n /\ actor'[v].id # n
    BY <1>1, <1>2, <1>11, <2>1, QueueAssumption DEF Tries, Shaped, Shape, Saves
  <2>4. Trying(n)' = Trying(n) /\ Saving(n)' = Saving(n)
    BY <1>2, <2>1, <2>2, <2>3 DEF Trying, Saving, Others
  <2> QED
    BY <2>1, <2>4 DEF Claims
<1>12. ASSUME ComesDue PROVE Claims
  BY <1>3, <1>12 DEF ComesDue
<1>13. Claims
  BY <1>1, <1>5, <1>6, <1>7, <1>8, <1>9, <1>10, <1>11, <1>12 DEF AnyStep
<1> QED
  BY <1>13 DEF Claims

\* What keeps a notification from having been attempted once too often: an attempt
\* takes it out of what the worker holds, and the end of the Save that follows out of
\* the pending set, unless there is a fault.
LEMMA ClaimsKept ==
  ASSUME Fleet, QueueInv, Announced, Counted, [Next]_vars, NEW n \in Notes,
         NEW i, i = Rest(n), NEW j, j = Rest(n)', NEW s, s = Spent(n), NEW t, t = Spent(n)'
  PROVE  /\ Within(n, j)'
         /\ n \in pending' => Within(n, t)'
<1>1. QueueInv' /\ AnyStep /\ Shaped
  BY TypePreserved, EveryStep DEF QueueInv
<1>2. /\ faults \in Nat /\ Replicas \in Nat /\ 1 <= Replicas
      /\ Cardinality(Trying(n)) \in Nat /\ Cardinality(Saving(n)) \in Nat
      /\ i \in Nat /\ s \in Nat
  BY CountsTyped DEF Countable, AllCountable
<1>3. /\ faults' \in Nat
      /\ Cardinality(Trying(n)') \in Nat /\ Cardinality(Saving(n)') \in Nat
      /\ Cardinality(Trying(n)') + Cardinality(Saving(n)') <= Replicas
      /\ j \in Nat /\ t \in Nat
  <2>1. Fleet'
    BY DEF Fleet
  <2>2. AllCountable'
    BY <1>1, <2>1, CountsTyped, PTL
  <2>3. Countable(n)'
    BY <2>2 DEF AllCountable
  <2> QED
    BY <2>3 DEF Countable, Replicas
<1>4. /\ i = faults + (Replicas - Cardinality(Trying(n))) /\ s = faults + Cardinality(Saving(n))
      /\ j = faults' + (Replicas - Cardinality(Trying(n)')) /\ t = faults' + Cardinality(Saving(n)')
  BY DEF Rest, Spent, Replicas
<1>5. Within(n, i) /\ (n \in pending => Within(n, s))
  BY DEF Counted
<1>6. faults' \in {faults, faults + 1}
  BY <1>1 DEF AnyStep, Sets, Lists, Pends, Faults, Deletes, Browses, Begins, Tries, ComesDue
<1>7. Trying(n) \subseteq Workers /\ Saving(n) \subseteq Workers
      /\ Trying(n)' \subseteq Workers /\ Saving(n)' \subseteq Workers
  BY DEF Trying, Saving
<1>8. Sizes /\ Sizes'
  BY <1>1, SizesTyped, PTL
<1>9. ASSUME NEW w \in Workers, Tries(w, n)
      PROVE  /\ Within(n, j)'
             /\ n \in pending' => Within(n, t)'
  <2>1. faults' = faults /\ pending' = pending /\ Others(w) /\ w \in Actors
    BY <1>9 DEF Tries, Actors
  <2>2. n \notin actor[w].ids /\ actor[w].id # n
    BY <1>1, <1>9, <2>1, QueueAssumption DEF Tries, Shaped, Shape, WorkerShape, Saves
  <2>3. w \in Trying(n) /\ Trying(n)' = Trying(n) \ {w}
    BY <1>9, <2>1, <2>2, QueueAssumption DEF Tries, Trying, Others, Actors, Notification
  <2>4. w \notin Saving(n) /\ Saving(n)' = Saving(n) \cup {w}
    BY <1>9, <2>1, <2>2 DEF Tries, Saving, Others, Actors
  <2>5. /\ Cardinality(Trying(n)') = Cardinality(Trying(n)) - 1
        /\ Cardinality(Saving(n)') = Cardinality(Saving(n)) + 1
    BY <1>7, <2>3, <2>4, OneWorkerMore
  <2>6. j = i + 1 /\ t = s + 1
    BY <1>2, <1>3, <1>4, <2>1, <2>5
  <2> QED
    BY <1>2, <1>5, <1>9, <2>1, <2>6, WithinTries
<1>10. ASSUME NEW r \in Requests, NEW copy \in Notification, Begins(r, n, copy), Fresh(n)
       PROVE  Within(n, j)' /\ n \notin pending'
  <2>1. n \notin pending'
    BY <1>10 DEF Begins, Fresh
  <2>2. Trying(n)' = {}
    BY <1>10 DEF Begins, Others, Fresh, Trying, Actors
  <2>3. Cardinality(Trying(n)') = 0
    BY <2>2, FS_EmptySet
  <2>4. 1 <= j
    <3>1. j = faults' + (Replicas - 0)
      BY <1>4, <2>3
    <3>2. \A x, y \in Nat : 1 <= y => 1 <= x + (y - 0)
      OBVIOUS
    <3>3. faults' \in Nat /\ Replicas \in Nat /\ 1 <= Replicas
      BY <1>2, <1>3
    <3>4. 1 <= faults' + (Replicas - 0)
      BY <3>2, <3>3, Zenon
    <3> QED
      BY <3>1, <3>4, Zenon
  <2>5. \A x \in Nat : x <= 1 => x <= j
    BY <1>3, <2>4
  <2>6. /\ sends'[n] \in Nat
        /\ Exists(n)' => sends'[n] + store'[n].retries \in Nat
        /\ \A a \in Actors : actor'[a].copy # None => sends'[n] + actor'[a].copy.retries \in Nat
        /\ \A w \in Workers : actor'[w].batch[n] # None => sends'[n] + actor'[w].batch[n].retries \in Nat
    BY <1>8 DEF Sizes
  <2>7. Within(n, 1)'
    BY <1>10, WithinFresh
  <2> QED
    BY <2>1, <2>5, <2>6, <2>7 DEF Within
<1>11. ASSUME \A w \in Workers : ~Tries(w, n),
              \A r \in Requests, copy \in Notification : Begins(r, n, copy) => ~Fresh(n)
       PROVE  /\ Within(n, j)'
              /\ n \in pending' => Within(n, t)'
  <2>1. ASSUME NEW k \in Nat, NEW l \in Nat, Within(n, k), k <= l PROVE Within(n, l)'
    <3>1. Within(n, l)
      BY <1>8, <2>1, WithinMore
    <3> QED
      BY <1>11, <3>1, WithinKept
  <2>2. Within(n, j)'
    <3>1. CASE Trying(n)' \subseteq Trying(n)
      <4>1. Cardinality(Trying(n)') <= Cardinality(Trying(n))
        BY <1>7, <3>1, FewerWorkers
      <4>2. i <= j
        BY <1>2, <1>3, <1>4, <1>6, <4>1
      <4> QED
        BY <1>2, <1>3, <1>5, <2>1, <4>2
    <3>2. CASE n \in pending /\ Saving(n)' = Saving(n) /\ faults' = faults
      <4>1. s <= j
        BY <1>2, <1>3, <1>4, <3>2
      <4> QED
        BY <1>2, <1>3, <1>5, <2>1, <3>2, <4>1
    <3> QED
      BY <1>11, <3>1, <3>2, ClaimsMove
  <2>3. ASSUME n \in pending' PROVE Within(n, t)'
    <3>1. CASE Within(n, 0)
      BY <1>3, <2>1, <3>1
    <3>2. CASE n \in pending /\ Saving(n) \subseteq Saving(n)'
      <4>1. Cardinality(Saving(n)) <= Cardinality(Saving(n)')
        BY <1>7, <3>2, FewerWorkers
      <4>2. s <= t
        BY <1>2, <1>3, <1>4, <1>6, <4>1
      <4> QED
        BY <1>2, <1>3, <1>5, <2>1, <3>2, <4>2
    <3>3. ASSUME n \in pending, faults' = faults + 1,
                 NEW w \in Workers, Saving(n) \subseteq Saving(n)' \cup {w}
          PROVE  Within(n, t)'
      <4>1. /\ Cardinality(Saving(n)) <= Cardinality(Saving(n)' \cup {w})
            /\ Cardinality(Saving(n)' \cup {w}) <= Cardinality(Saving(n)') + 1
            /\ Cardinality(Saving(n)' \cup {w}) \in Nat
        <5>1. Saving(n)' \cup {w} \subseteq Workers
          BY <1>7
        <5> QED
          BY <1>7, <3>3, <5>1, FewerWorkers, OneWorkerMore, SomeWorkers
      <4>2. s <= t
        BY <1>2, <1>3, <1>4, <3>3, <4>1
      <4> QED
        BY <1>2, <1>3, <1>5, <2>1, <3>3, <4>2
    <3> QED
      BY <1>11, <2>3, <3>1, <3>2, <3>3, ClaimsMove
  <2> QED
    BY <2>2, <2>3
<1> QED
  BY <1>9, <1>10, <1>11

CountedInv == QueueInv /\ Announced /\ Counted

LEMMA CountedKept ==
  ASSUME Fleet, CountedInv, [Next]_vars
  PROVE  CountedInv'
<1>1. QueueInv' /\ Announced'
  BY TypePreserved, AnnouncedKept DEF CountedInv
<1>2. Counted'
  <2>1. ASSUME NEW n \in Notes
        PROVE  /\ Within(n, Rest(n))'
               /\ n \in pending' => Within(n, Spent(n))'
    <3>1. PICK i, j, s, t : i = Rest(n) /\ j = Rest(n)' /\ s = Spent(n) /\ t = Spent(n)'
      OBVIOUS
    <3>2. Within(n, j)' /\ (n \in pending' => Within(n, t)')
      BY <3>1, ClaimsKept DEF CountedInv
    <3> QED
      BY <3>1, <3>2 DEF Within
  <2> QED
    BY <2>1, ScheduledCounted DEF Counted, CountedInv
<1> QED
  BY <1>1, <1>2 DEF CountedInv

LEMMA CountedInit ==
  ASSUME Fleet
  PROVE  Init => CountedInv
<1> SUFFICES ASSUME Init PROVE CountedInv
  OBVIOUS
<1>1. \A a \in Actors : actor[a] = Idle
  BY DEF Init
<1>2. \A a \in Actors : /\ actor[a].pc = "idle" /\ actor[a].copy = None /\ actor[a].ids = {}
                       /\ \A n \in Notes : actor[a].batch[n] = None
  BY <1>1 DEF Idle
<1>3. Announced
  BY <1>2 DEF Announced, Queueing, Saves, Actors
<1>4. ASSUME NEW n \in Notes PROVE Within(n, Rest(n))
  <2>1. Rest(n) \in Nat
    BY QueueInvInit, CountsTyped DEF Countable, AllCountable
  <2> QED
    BY <1>2, <2>1 DEF Within, Init, Exists, Actors
<1>5. Counted
  BY <1>2, <1>4 DEF Counted, Queueing, Saves, Init, Actors
<1> QED
  BY <1>3, <1>5, QueueInvInit DEF CountedInv

LEMMA CountedInvariant ==
  ASSUME Fleet
  PROVE  Spec => []CountedInv
<1>1. Init => CountedInv
  BY CountedInit
<1>2. CountedInv /\ [Next]_vars => CountedInv'
  BY CountedKept
<1> QED
  BY <1>1, <1>2, PTL DEF Spec

LEMMA AttemptsCounted ==
  ASSUME Fleet, CountedInv, NEW n \in Notes
  PROVE  sends[n] + (IF Exists(n) THEN store[n].retries ELSE 0) <= Replicas + faults
<1>1. Within(n, Rest(n)) /\ Sizes
  BY SizesTyped DEF CountedInv, Counted
<1>2. /\ Replicas \in Nat /\ faults \in Nat /\ Cardinality(Trying(n)) \in Nat
      /\ Rest(n) \in Nat
  BY CountsTyped DEF CountedInv, Countable, AllCountable
<1>3. Rest(n) <= Replicas + faults
  BY <1>2 DEF Rest
<1>4. sends[n] \in Nat /\ (Exists(n) => store[n].retries \in Nat)
  BY <1>1 DEF Sizes
<1>5. sends[n] <= Rest(n) /\ (Exists(n) => sends[n] + store[n].retries <= Rest(n))
  BY <1>1 DEF Within
<1> HIDE DEF Rest
<1> QED
  BY <1>2, <1>3, <1>4, <1>5

\* No more attempts of a notification than there are workers and faults.
SentOncePerReplica ==
  \A n \in Notes :
    sends[n] + (IF Exists(n) THEN store[n].retries ELSE 0) <= Cardinality(Workers) + faults

\* Replicas of the worker each fetch what is pending and deliver it, but that is the
\* worst they do: however many there are, a notification is attempted at most once for
\* each, and once more for each fault, whatever is scheduled, marked and deleted meanwhile.
THEOREM ReplicasSendOnceEach ==
  ASSUME Fleet, Workers # {}
  PROVE  Spec => []SentOncePerReplica
<1>1. CountedInv => SentOncePerReplica
  BY AttemptsCounted DEF SentOncePerReplica, Replicas
<1> QED
  BY <1>1, CountedInvariant, PTL

\* At most one worker.
Lone == \A v, w \in Workers : v = w

\* With one worker a notification is attempted at most once more than there were faults:
\* no interleaving of requests with the worker makes it send anything twice.
THEOREM SentOnceByOneWorker ==
  ASSUME Lone
  PROVE  Spec => []SentOnce
<1>1. Fleet /\ Replicas = 1
  <2>1. CASE Workers = {}
    BY <2>1, FS_EmptySet DEF Fleet, Replicas
  <2>2. CASE Workers # {}
    <3>1. PICK w \in Workers : TRUE
      BY <2>2
    <3>2. Workers = {w}
      BY <3>1 DEF Lone
    <3> QED
      BY <2>2, <3>2, FS_Singleton DEF Fleet, Replicas
  <2> QED
    BY <2>1, <2>2
<1>2. CountedInv => SentOnce
  BY <1>1, AttemptsCounted DEF SentOnce
<1> QED
  BY <1>1, <1>2, CountedInvariant, PTL
=============================================================================
