-------------------------- MODULE NotificationQueue -------------------------
(***************************************************************************)
(* The notification service: NotificationService (service/notification.go) *)
(* with the worker that sends what is scheduled (worker/worker.go), over   *)
(* NotificationRepository (repository/notification.go) in Redis.           *)
(*                                                                         *)
(* A notification is one JSON value under its own key, an entry of its     *)
(* user's sorted set, and an entry of the sorted set of pending ones.      *)
(* Every change is a GET, a change of the copy and a Save, and Save is     *)
(* three commands: SET, ZADD to the user's set, ZADD to or ZREM from the   *)
(* pending set.  One action is one command, with the local code up to the  *)
(* next; nothing keeps the commands of two actors apart.                   *)
(*                                                                         *)
(* Left out: contents, templates, preferences (nothing reads them), the    *)
(* 30-day expiry of the keys, and the event that follows a send.           *)
(***************************************************************************)
EXTENDS Naturals, FiniteSets

CONSTANTS
  Notes,       \* notification ids (uuids)
  Workers,     \* processScheduledNotifications loops, one per replica
  Requests,    \* API calls and trigger events in flight
  Kinds,       \* types of notification in use
  None,
  MaxFaults    \* bound: how many Redis commands fail and processes die

Actors == Workers \cup Requests

RetryLimit == 3

Status == {"queued", "sending", "sent", "delivered", "failed", "read"}

Notification ==
  [kind : Kinds, status : Status, scheduled : BOOLEAN, read : BOOLEAN, retries : Nat]

\* Notifications of type sms and slack are accepted but nothing delivers them.
ASSUME QueueAssumption ==
  /\ Kinds \subseteq {"email", "in_app", "push", "sms"}
  /\ None \notin Notes \cup Notification
  /\ Workers \cap Requests = {}
  /\ MaxFaults \in Nat

VARIABLES
  store,       \* what is stored under each notification's key
  listed,      \* the ids in the sorted sets of the users
  pending,     \* the ids in the sorted set of pending notifications
  due,         \* the ids whose scheduled time lies in a second that has begun
  actor,       \* what each worker and each request is doing
  sends,       \* how often each notification was handed to its recipient
  faults       \* how many commands have failed and processes have died

vars == <<store, listed, pending, due, actor, sends, faults>>

\* "set", "list" and "pend" are the commands of Save that come next.
Actor == [pc    : {"idle", "fetch", "process", "marking", "delete", "set", "list", "pend"},
          then  : {"idle", "process", "marking"},      \* where Save returns to
          ids   : SUBSET Notes,                        \* what is left of the list it read
          batch : [Notes -> Notification \cup {None}], \* what it has fetched
          id    : Notes \cup {None},                   \* the notification in hand
          copy  : Notification \cup {None}]            \* and its copy

Idle == [pc |-> "idle", then |-> "idle", ids |-> {}, batch |-> [n \in Notes |-> None],
         id |-> None, copy |-> None]

Init ==
  /\ store = [n \in Notes |-> None]
  /\ listed = {}
  /\ pending = {}
  /\ due = {}
  /\ actor = [a \in Actors |-> Idle]
  /\ sends = [n \in Notes |-> 0]
  /\ faults = 0

At(a, label) == actor[a].pc = label
Become(a, x) == actor' = [actor EXCEPT ![a] = x]
Exists(n)    == store[n] # None
Fault        == faults < MaxFaults /\ faults' = faults + 1

-----------------------------------------------------------------------------
(* Delivery: processNotification.                                          *)

\* What the attempt to deliver a notification of a type may end in.
Outcomes(kind) ==
  CASE kind = "email"  -> {"sent", "error"}
    [] kind = "in_app" -> {"delivered"}
    [] kind = "push"   -> {"sent"}
    [] OTHER           -> {"error"}

Delivered(n, outcome) ==
  sends' = IF outcome = "error" THEN sends ELSE [sends EXCEPT ![n] = @ + 1]

-----------------------------------------------------------------------------
(* Save.                                                                   *)

BeginSave(a, n, copy, then) ==
  Become(a, [actor[a] EXCEPT !.pc = "set", !.id = n, !.copy = copy, !.then = then])

\* What an actor does once a Save is over, successful or not.
AfterSave(a) ==
  Become(a, IF actor[a].then = "idle" THEN Idle
            ELSE [actor[a] EXCEPT !.pc = actor[a].then, !.then = "idle",
                                  !.id = None, !.copy = None])

SaveSet(a) ==
  /\ At(a, "set")
  /\ store' = [store EXCEPT ![actor[a].id] = actor[a].copy]
  /\ Become(a, [actor[a] EXCEPT !.pc = "list"])
  /\ UNCHANGED <<listed, pending, due, sends, faults>>

SaveList(a) ==
  /\ At(a, "list")
  /\ listed' = listed \cup {actor[a].id}
  /\ Become(a, [actor[a] EXCEPT !.pc = "pend"])
  /\ UNCHANGED <<store, pending, due, sends, faults>>

\* Mutant of PendingAfter: nothing is removed from the pending set.
PendingAfterKept(n, copy) == IF copy.status = "queued" THEN pending \cup {n} ELSE pending

\* Mutant of PendingAfter: the status of a scheduled notification is forgotten.
PendingAfterNever(n, copy) == pending \ {n}

\* The last command of Save.  Status pending is never saved.
PendingAfter(n, copy) == IF copy.status = "queued" THEN pending \cup {n} ELSE pending \ {n}

SavePend(a) ==
  /\ At(a, "pend")
  /\ pending' = PendingAfter(actor[a].id, actor[a].copy)
  /\ AfterSave(a)
  /\ UNCHANGED <<store, listed, due, sends, faults>>

\* A command of Save fails: the rest is skipped.
SaveFails(a) ==
  /\ actor[a].pc \in {"set", "list", "pend"}
  /\ Fault
  /\ AfterSave(a)
  /\ UNCHANGED <<store, listed, pending, due, sends>>

-----------------------------------------------------------------------------
(* Requests.                                                               *)

\* The id of a new notification is a fresh uuid.
Fresh(n) ==
  /\ n \notin listed \cup pending
  /\ ~Exists(n)
  /\ sends[n] = 0
  /\ \A a \in Actors : actor[a].id # n /\ n \notin actor[a].ids /\ actor[a].batch[n] = None

NewNotification(kind, status, scheduled) ==
  [kind |-> kind, status |-> status, scheduled |-> scheduled, read |-> FALSE, retries |-> 0]

\* Send, for a time in the future.  The times are compared as they are: the
\* scheduled one may be later in the second that has begun (soon).
Schedule(r, n, kind, soon) ==
  /\ At(r, "idle")
  /\ Fresh(n)
  /\ n \notin due
  /\ due' = IF soon THEN due \cup {n} ELSE due
  /\ BeginSave(r, n, NewNotification(kind, "queued", TRUE), "idle")
  /\ UNCHANGED <<store, listed, pending, sends, faults>>

\* Send, at once: it is delivered first and saved afterwards.
SendNow(r, n, kind) ==
  /\ At(r, "idle")
  /\ Fresh(n)
  /\ \E outcome \in Outcomes(kind) :
       /\ Delivered(n, outcome)
       /\ LET status == IF outcome = "error" THEN "failed" ELSE outcome
          IN BeginSave(r, n, NewNotification(kind, status, FALSE), "idle")
  /\ UNCHANGED <<store, listed, pending, due, faults>>

MarkedRead(copy) == [copy EXCEPT !.status = "read", !.read = TRUE]

MarkAsRead(r, n) ==
  /\ At(r, "idle")
  /\ Exists(n)
  /\ BeginSave(r, n, MarkedRead(store[n]), "idle")
  /\ UNCHANGED <<store, listed, pending, due, sends, faults>>

MarkAllList(r) ==
  /\ At(r, "idle")
  /\ listed # {}
  /\ Become(r, [Idle EXCEPT !.pc = "marking", !.ids = listed])
  /\ UNCHANGED <<store, listed, pending, due, sends, faults>>

\* The next notification of the list is read; one that is gone, or has been
\* read, is skipped, and the others are marked and saved one at a time.
MarkAllNext(r, n) ==
  /\ At(r, "marking")
  /\ n \in actor[r].ids
  /\ LET rest == [actor[r] EXCEPT !.ids = @ \ {n}] IN
       Become(r, IF Exists(n) /\ ~store[n].read
                   THEN [rest EXCEPT !.pc = "set", !.id = n, !.copy = MarkedRead(store[n]),
                                     !.then = "marking"]
                   ELSE rest)
  /\ UNCHANGED <<store, listed, pending, due, sends, faults>>

MarkAllDone(r) ==
  /\ At(r, "marking")
  /\ actor[r].ids = {}
  /\ Become(r, Idle)
  /\ UNCHANGED <<store, listed, pending, due, sends, faults>>

DeleteRead(r, n) ==
  /\ At(r, "idle")
  /\ Exists(n)
  /\ Become(r, [Idle EXCEPT !.pc = "delete", !.id = n])
  /\ UNCHANGED <<store, listed, pending, due, sends, faults>>

\* The three commands are sent as one pipeline, and taken here as one step.
DeleteWrite(r) ==
  /\ At(r, "delete")
  /\ store' = [store EXCEPT ![actor[r].id] = None]
  /\ listed' = listed \ {actor[r].id}
  /\ pending' = pending \ {actor[r].id}
  /\ Become(r, Idle)
  /\ UNCHANGED <<due, sends, faults>>

-----------------------------------------------------------------------------
(* The worker: ProcessPendingNotifications, every 30 seconds.              *)

\* Mutant of Ready: the comparison with the clock is the wrong way round.
ReadyEarly == pending \ due

\* ZRANGEBYSCORE up to now.  The scores and the bound are Unix seconds: the
\* fractions are cut off, and what is due later in this second is found.
Ready == pending \cap due

Tick(w) ==
  /\ At(w, "idle")
  /\ Ready # {}
  /\ Become(w, [Idle EXCEPT !.pc = "fetch", !.ids = Ready])
  /\ UNCHANGED <<store, listed, pending, due, sends, faults>>

\* GetPending reads the notifications of the list, and skips one it does not
\* find; the status is not looked at.
Fetch(w, n) ==
  /\ At(w, "fetch")
  /\ n \in actor[w].ids
  /\ Become(w, [actor[w] EXCEPT
       !.ids = @ \ {n},
       !.batch[n] = store[n],
       !.pc = IF actor[w].ids = {n} THEN "process" ELSE "fetch"])
  /\ UNCHANGED <<store, listed, pending, due, sends, faults>>

\* Mutant of AfterAttempt: the outcome is taken for a status.
AfterAttemptRaw(copy, outcome) ==
  [copy EXCEPT !.status = outcome, !.retries = IF outcome = "error" THEN @ + 1 ELSE @]

\* The copy after an attempt.  processNotification has set the status to
\* sending, and an error below the limit leaves it there.
AfterAttempt(copy, outcome) ==
  IF outcome # "error" THEN [copy EXCEPT !.status = outcome]
  ELSE [copy EXCEPT !.retries = @ + 1,
                    !.status = IF copy.retries + 1 >= RetryLimit THEN "failed" ELSE "sending"]

Process(w, n) ==
  /\ At(w, "process")
  /\ actor[w].batch[n] # None
  /\ LET copy == actor[w].batch[n] IN
     \E outcome \in Outcomes(copy.kind) :
       /\ Delivered(n, outcome)
       /\ Become(w, [actor[w] EXCEPT
            !.batch[n] = None,
            !.pc = "set", !.id = n, !.copy = AfterAttempt(copy, outcome), !.then = "process"])
  /\ UNCHANGED <<store, listed, pending, due, faults>>

ProcessDone(w) ==
  /\ At(w, "process")
  /\ \A n \in Notes : actor[w].batch[n] = None
  /\ Become(w, Idle)
  /\ UNCHANGED <<store, listed, pending, due, sends, faults>>

-----------------------------------------------------------------------------
\* The second of a notification's scheduled time begins.
ComeDue(n) ==
  /\ n \notin due
  /\ due' = due \cup {n}
  /\ UNCHANGED <<store, listed, pending, actor, sends, faults>>

\* The process dies, or the context of a request is cancelled.
Die(a) ==
  /\ ~At(a, "idle")
  /\ Fault
  /\ Become(a, Idle)
  /\ UNCHANGED <<store, listed, pending, due, sends>>

Save(a) == SaveSet(a) \/ SaveList(a) \/ SavePend(a)

Work(w) ==
  \/ Tick(w) \/ Save(w) \/ ProcessDone(w)
  \/ \E n \in Notes : Fetch(w, n) \/ Process(w, n)

Request(r) ==
  \/ \E n \in Notes, kind \in Kinds :
       SendNow(r, n, kind) \/ \E soon \in BOOLEAN : Schedule(r, n, kind, soon)
  \/ \E n \in Notes : MarkAsRead(r, n) \/ DeleteRead(r, n)
  \/ MarkAllList(r)

Continue(r) ==
  \/ Save(r) \/ MarkAllDone(r) \/ DeleteWrite(r)
  \/ \E n \in Notes : MarkAllNext(r, n)

Next ==
  \/ \E w \in Workers : Work(w)
  \/ \E r \in Requests : Request(r) \/ Continue(r)
  \/ \E a \in Actors : SaveFails(a) \/ Die(a)
  \/ \E n \in Notes : ComeDue(n)

Spec == Init /\ [][Next]_vars

\* Time passes, the worker's ticker keeps ticking, and Go runs the goroutines
\* of the requests.
FairSpec ==
  /\ Spec
  /\ \A n \in Notes : WF_vars(ComeDue(n))
  /\ \A w \in Workers : WF_vars(Work(w))
  /\ \A r \in Requests : WF_vars(Continue(r))

-----------------------------------------------------------------------------
(* Properties.                                                             *)

\* Stored notifications and the actors at work have their types.
TypeOK ==
  /\ store \in [Notes -> Notification \cup {None}]
  /\ listed \subseteq Notes
  /\ pending \subseteq Notes
  /\ due \subseteq Notes
  /\ actor \in [Actors -> Actor]
  /\ sends \in [Notes -> Nat]
  /\ faults \in 0..MaxFaults

\* One worker attempts to deliver a notification at most once more than there were
\* faults, whatever users schedule, read, mark and delete meanwhile: the times it
\* was handed over and the failures it has on record together.  Only a failure
\* between an attempt and the end of its Save repeats the attempt.
SentOnce ==
  \A n \in Notes : sends[n] + (IF Exists(n) THEN store[n].retries ELSE 0) <= 1 + faults

\* A notification that is stored as queued is in the pending set, or is about
\* to be put there by the request that schedules it: as long as nothing fails,
\* none is forgotten, however the commands of the saves interleave.
QueuedIsPending ==
  faults = 0 =>
    \A n \in Notes :
      Exists(n) /\ store[n].status = "queued" =>
        \/ n \in pending
        \/ \E r \in Requests : actor[r].id = n /\ actor[r].copy # None
                                 /\ actor[r].copy.status = "queued"

\* A scheduled notification is not handed over before the second of its scheduled
\* time begins, however old the worker's list and whatever is deleted, marked and
\* scheduled meanwhile.  It may be handed over before the time itself, by less than a
\* second: the scores and the worker's bound are whole seconds.
NeverEarly ==
  \A n \in Notes : Exists(n) /\ store[n].scheduled /\ sends[n] > 0 => n \in due

\* A scheduled notification that has reached the pending set does not stay
\* queued, even if the worker dies and restarts on the way.  One whose delivery failed
\* and is left as sending counts as handled: nothing tries it again.
ScheduledIsHandled ==
  \A n \in Notes : (n \in pending /\ Exists(n) /\ store[n].status = "queued")
                     ~> (~Exists(n) \/ store[n].status # "queued")
=============================================================================
