------------------------------- MODULE WebPages -----------------------------
(***************************************************************************)
(* What the pages of the web applications do.  They have in common React   *)
(* state that lives as long as the page is shown, handlers that await      *)
(* something, and awaits that go on after the page has been left: one set  *)
(* of actions gives all the pages that Pages describes their behaviour.    *)
(*                                                                         *)
(* The fields of a form are independent of one another, and so are the     *)
(* pages: a behaviour follows one field of one page, any of them, through  *)
(* some visits of that page in one tab; of a list, one of its records.     *)
(***************************************************************************)
EXTENDS Pages

CONSTANT MaxVisits  \* bound on the visits of the page

ASSUME PagesAssumption == MaxVisits \in Nat

(***************************************************************************)
(* State                                                                   *)
(***************************************************************************)
VARIABLES
  page,       \* the page that is followed
  field,      \* the field of it that is followed
  item,       \* the status of the record that is followed, or "none"
  visits,     \* visits so far; the last is going on unless the page is away
  shown,      \* what the tab shows
  value,      \* what the field holds
  busy,       \* isSubmitting, isLoading, isSaving, isUpdating, isProcessing, isExporting
  opened,     \* showDeleteConfirm, isMenuOpen
  submitted,  \* something has been submitted in this visit
  flights     \* awaits that go on: of which visit, for which act, with which value

subject == <<page, field, item>>
vars == <<subject, visits, shown, value, busy, opened, submitted, flights>>
local == <<value, busy, opened, submitted>>

\* "none": the page has no field to follow.
Fields(p) == IF p.state = {} THEN {"none"}
             ELSE p.state \cup p.record \cup p.loaded \cup {i.name : i \in p.inputs}
InputsOf(f) == {i \in page.inputs : i.name = f}
Values == {"blank", "default", "record", "typed", "emptied", "all", "pending"} \cup OrderStatus
          \cup page.options
Blank  == {"blank", "emptied"}
\* A choice without a blank one starts with a choice, a filter with all.
Initial(p, f) ==
  CASE \E i \in p.inputs : i.name = f /\ i.kind \in {"pick", "given"} -> "default"
    [] [name |-> f, kind |-> "choice"] \in p.inputs                    -> "all"
    [] OTHER                                                           -> "blank"
\* What may be entered.  What is searched for either fits the record that is followed
\* ("record") or does not.
Entered(i) ==
  CASE i.kind = "pick"   -> {"typed"}
    [] i.kind = "search" -> {"blank", "record", "typed"}
    [] i.kind = "choice" -> {"all"} \cup page.options
    [] OTHER             -> {"typed", "emptied"}
FromRecord(f) == IF f = "currentStatus" THEN OrderStatus ELSE {"record"}
\* What an answer leaves out stays as it was.
FromAnswer(f) == IF f = "currentStatus" THEN OrderStatus ELSE {"record", value}

Here    == shown # "away"
InFlight(v) == {f \in flights : f.visit = v}

TypeOK ==
  /\ page \in Pages /\ field \in page.state \cup {"none"} /\ item \in page.statuses \cup {"none"}
  /\ visits \in 0..MaxVisits
  /\ shown \in {"away", "loading", "failed", "form", "done", "hidden"}
  /\ value \in Values
  /\ busy \in BOOLEAN /\ opened \in BOOLEAN /\ submitted \in BOOLEAN
  /\ flights \subseteq [visit : 1..visits, act : page.acts, value : Values]

Init ==
  /\ page \in Pages
  /\ field \in Fields(page)
  /\ item \in IF page.statuses = {} THEN {"none"} ELSE page.statuses
  /\ visits = 0 /\ shown = "away"
  /\ value = "blank" /\ busy = FALSE /\ opened = FALSE /\ submitted = FALSE
  /\ flights = {}

(***************************************************************************)
(* Coming and going.  React mounts the page with the state of useState,    *)
(* runs its effect before the user can do anything, and drops the state    *)
(* when the page is left, by a link or by router.back(), busy or not.      *)
(***************************************************************************)
Open ==
  /\ ~Here /\ visits < MaxVisits
  /\ visits' = visits + 1
  /\ shown' \in CASE page.starts = "fetch" -> {"loading"}
                  [] page.starts = "link"  -> {"form", "failed"}
                  [] OTHER                 -> {"form"}
  /\ value' \in IF page.starts = "effect" /\ field \in page.loaded
                   THEN FromRecord(field) ELSE {Initial(page, field)}
  /\ busy' = FALSE /\ opened' = FALSE /\ submitted' = FALSE
  /\ UNCHANGED <<subject, flights>>

\* What is left of a page that is not shown.
Unmounted ==
  /\ shown' = "away" /\ value' = "blank"
  /\ busy' = FALSE /\ opened' = FALSE /\ submitted' = FALSE

Leave ==
  /\ Here /\ Unmounted
  /\ UNCHANGED <<subject, visits, flights>>

\* The effect's try ... catch ... finally.
Loads ==
  /\ shown = "loading"
  /\ shown' = "form"
  /\ value' \in IF field \in page.loaded THEN FromAnswer(field) ELSE {value}
  /\ UNCHANGED <<subject, visits, busy, opened, submitted, flights>>

LoadFails ==
  /\ shown = "loading"
  /\ shown' = "failed"
  /\ UNCHANGED <<subject, visits, local, flights>>

(***************************************************************************)
(* The form.  Nothing in it is disabled while the page is busy, but for    *)
(* the buttons that start an act.                                          *)
(***************************************************************************)
\* handleChange
Change ==
  /\ shown = "form"
  /\ \E i \in InputsOf(field) : value' \in Entered(i)
  /\ UNCHANGED <<subject, visits, shown, busy, opened, submitted, flights>>

\* The dialog before a deletion, for an upload, or the menu: opened and closed again.
Toggle ==
  /\ shown = "form" /\ (page.dialog \/ \E a \in page.acts : a.opened)
  /\ opened' = ~opened
  /\ UNCHANGED <<subject, visits, shown, value, busy, submitted, flights>>

\* What the browser or the schema asks before the handler is called; other acts than the
\* form's own do not ask.
Accepted(a) ==
  /\ \A i \in InputsOf(field) : i.kind = "must" /\ ~a.opened => value \notin Blank
  /\ field = "currentStatus" => canProgress(value)

Start(a) ==
  /\ shown = "form"
  /\ a.guarded => ~busy
  /\ a.opened => opened
  /\ Accepted(a)
  /\ IF a.waits
        THEN /\ busy' = TRUE
             /\ flights' = flights \cup {[visit |-> visits, act |-> a, value |-> value]}
             /\ UNCHANGED <<shown, value, opened, submitted>>
        ELSE /\ Unmounted
             /\ UNCHANGED flights
  /\ UNCHANGED <<subject, visits>>

(***************************************************************************)
(* The rest of the handler.  A push takes the tab along whatever it shows  *)
(* by then; setting state does nothing once the visit is over.             *)
(***************************************************************************)
\* Mutant of BusyAfter: only a success makes the page free again.
BusyAfterFailing(f, ok) == ~ok
\* finally, or the end of a handler that cannot fail
BusyAfter(f, ok) == FALSE

Pushed(f) ==
  /\ f.act.ends = "push"
  /\ Unmounted

\* Mutant of Ends: nothing happens when the menu of the act is closed by then.
EndsIfOpened(f, ok) ==
  /\ f.act.ends # "push" /\ Here /\ f.visit = visits
  /\ f.act.opened => opened
  /\ busy' = BusyAfter(f, ok)
  /\ shown' = IF ok /\ f.act.ends = "done" THEN "done" ELSE shown
  /\ submitted' = (submitted \/ (ok /\ f.act.ends = "done"))
  /\ opened' = (opened /\ ~(f.act.opened /\ (ok \/ ~f.act.stays)))
  /\ value' = value

Ends(f, ok) ==
  /\ f.act.ends # "push" /\ Here /\ f.visit = visits
  /\ busy' = BusyAfter(f, ok)
  /\ shown' = IF ok /\ f.act.ends = "done" THEN "done" ELSE shown
  /\ submitted' = (submitted \/ (ok /\ f.act.ends = "done"))
  /\ opened' = (opened /\ ~(f.act.opened /\ (ok \/ ~f.act.stays)))
  /\ value' = CASE field \in page.clears   -> "blank"
                 [] field = "currentStatus" -> nextStatus(f.value)
                 [] OTHER                   -> value

TooLate(f) ==
  /\ f.act.ends # "push" /\ ~(Here /\ f.visit = visits)
  /\ UNCHANGED <<shown, local>>

Land(f, ok) ==
  /\ ok \/ f.act.mayFail
  /\ flights' = flights \ {f}
  /\ Pushed(f) \/ Ends(f, ok) \/ TooLate(f)
  /\ UNCHANGED <<subject, visits>>

\* From the message back to the form, if the page has a way back.
Again ==
  /\ shown = "done" /\ page.again # "no"
  /\ shown' = "form"
  /\ value' = IF page.again = "blank" THEN Initial(page, field) ELSE value
  /\ UNCHANGED <<subject, visits, busy, opened, submitted, flights>>

\* setShowQuoteForm(false), or the deadline has passed: the form goes, the message stays.
Hide ==
  /\ shown = "form" /\ page.hides
  /\ shown' = IF submitted THEN "done" ELSE "hidden"
  /\ UNCHANGED <<subject, visits, local, flights>>

LandIn(v) == \E f \in InFlight(v), ok \in BOOLEAN : Land(f, ok)

Next ==
  \/ Open \/ Leave \/ Loads \/ LoadFails
  \/ Change \/ Toggle \/ Again \/ Hide
  \/ \E a \in page.acts : Start(a)
  \/ \E v \in 1..MaxVisits : LandIn(v)

Spec == Init /\ [][Next]_vars

\* A timer runs out and a request is answered or fails in the end.
FairSpec ==
  /\ Spec
  /\ WF_vars(Loads \/ LoadFails)
  /\ \A v \in 1..MaxVisits : WF_vars(LandIn(v))

(***************************************************************************)
(* Properties                                                              *)
(***************************************************************************)
\* A page is busy exactly while one act of this visit is under way: no second click, no
\* deletion while the same form is being saved (the buttons of a page share its busy flag);
\* an answer to an earlier visit does not free the button, a failure does not leave it disabled.
BusyAgrees == Here => Cardinality(InFlight(visits)) = IF busy THEN 1 ELSE 0

\* What is saved of a field that the record has is the record's value, or what was entered in
\* its place: a field that the page's effect forgets would be saved as blank.
SavedIsShown ==
  \A f \in flights :
    field \in page.record => /\ InputsOf(field) # {}
                             /\ f.value \notin {"blank", "default"}

\* The badge stays empty: of an RFQ that is cancelled or expired, of a vessel, whose status
\* the AIS provider words, and in the portal of a port call that is a draft or cancelled.
NoBadge ==
  \/ page = RfqView /\ item \in {"cancelled", "expired"}
  \/ page = VesselView
  \/ page = PortalPortCallView /\ item \in {"draft", "cancelled"}

\* A record that the search and the filters let pass is listed, and listed once: every status
\* has a tab or column, and no status has two; a filter asks for no status that no record has.
\* On a page of its own it has a badge, but for NoBadge.
Passes == IF field = "statusFilter" THEN value \in {"all", item}
          ELSE field = "viewMode" \/ value # "typed"
ListedOnce ==
  Here /\ page.groups # {} =>
    /\ page.options \subseteq page.statuses
    /\ Passes /\ ~NoBadge => Cardinality({g \in page.groups : item \in g}) = 1

\* A page that is loading or busy comes to rest, or is left.
PagesComeToRest == (busy \/ shown = "loading") ~> (~busy /\ shown # "loading")
=============================================================================
