----------------------------- MODULE RfqService -----------------------------
(***************************************************************************)
(* The RFQ part of the core service: RFQService (service/rfq.go) over      *)
(* RFQRepository (repository/rfq.go).                                      *)
(*                                                                         *)
(* Every operation of the service is a handler invocation (a request) that *)
(* reads a row, checks what it read, and then writes with an UPDATE whose  *)
(* WHERE clause names only the id.  The repository runs each statement on  *)
(* the connection pool, outside the transaction that the RLS middleware    *)
(* opens, so every statement commits on its own.  One action of this       *)
(* module is one statement together with the local code up to the next     *)
(* statement; between two actions of a request any other request may run.  *)
(*                                                                         *)
(* Left out: prices, texts, references and audit records (no property is   *)
(* about them) and the final SELECT that builds an operation's answer.     *)
(***************************************************************************)
EXTENDS FiniteSets

CONSTANTS
  Requests,   \* handler invocations that may be in flight at the same time
  Rfqs,       \* ids a row of table rfqs can have
  Quotes,     \* ids a row of table quotes can have
  Vendors,    \* vendor ids
  Nil,        \* NULL
  MayFail     \* whether statements may fail and requests may die midway

ASSUME RfqAssumption ==
  /\ Nil \notin Rfqs
  /\ Nil \notin Quotes
  /\ Nil \notin Vendors
  /\ MayFail \in BOOLEAN

VARIABLES
  rfqs,       \* table rfqs
  quotes,     \* table quotes
  req         \* what each request has in hand

vars == <<rfqs, quotes, req>>

RfqStatus   == {"draft", "open", "closed", "awarded", "cancelled", "expired"}
QuoteStatus == {"submitted", "accepted", "rejected", "withdrawn"}

\* "absent" marks an id with no row yet; "overdue" is deadline.Before(now).
RfqRow == [status  : RfqStatus \cup {"absent"},
           invited : SUBSET Vendors,
           overdue : BOOLEAN,
           awarded : Quotes \cup {Nil}]

QuoteRow == [status : QuoteStatus \cup {"absent"},
             rfq    : Rfqs \cup {Nil},
             vendor : Vendors \cup {Nil}]

\* The statement a request runs next.
Label == {"idle", "update", "status", "submit_check", "submit_insert",
          "award_accept", "award_list", "award_reject",
          "withdraw_check", "withdraw", "expire"}

Request == [pc        : Label,
            rfq       : Rfqs \cup {Nil},
            quote     : Quotes \cup {Nil},
            vendor    : Vendors \cup {Nil},
            to        : {"open", "closed", "cancelled", "none"},
            rejecting : SUBSET Quotes,
            expiring  : SUBSET Rfqs]

Idle == [pc |-> "idle", rfq |-> Nil, quote |-> Nil, vendor |-> Nil,
         to |-> "none", rejecting |-> {}, expiring |-> {}]

At(r, label) == req[r].pc = label
Return(r)    == req' = [req EXCEPT ![r] = Idle]

\* No row and no request in flight has this id (generateCUID).
Fresh(q) == quotes[q].status = "absent" /\ \A r \in Requests : req[r].quote # q

Init ==
  /\ rfqs = [f \in Rfqs |-> [status |-> "absent", invited |-> {},
                             overdue |-> FALSE, awarded |-> Nil]]
  /\ quotes = [q \in Quotes |-> [status |-> "absent", rfq |-> Nil, vendor |-> Nil]]
  /\ req = [r \in Requests |-> Idle]

-----------------------------------------------------------------------------
(* Operations on the RFQ row.                                              *)

\* One INSERT: a draft, with a deadline in the future.
Create(f) ==
  /\ rfqs[f].status = "absent"
  /\ \E vs \in SUBSET Vendors :
       rfqs' = [rfqs EXCEPT ![f] = [status |-> "draft", invited |-> vs,
                                    overdue |-> FALSE, awarded |-> Nil]]
  /\ UNCHANGED <<quotes, req>>

\* Time passes the deadline of an RFQ.
DeadlinePasses(f) ==
  /\ rfqs[f].status # "absent"
  /\ ~rfqs[f].overdue
  /\ rfqs' = [rfqs EXCEPT ![f].overdue = TRUE]
  /\ UNCHANGED <<quotes, req>>

\* Mutant of UpdateRead: an RFQ can be edited in any status.
UpdateReadAnyStatus(r, f) ==
  /\ At(r, "idle")
  /\ rfqs[f].status # "absent"
  /\ req' = [req EXCEPT ![r] = [Idle EXCEPT !.pc = "update", !.rfq = f]]
  /\ UNCHANGED <<rfqs, quotes>>

\* The one check that the RFQ is a draft; it may be published and quoted on before
\* the UPDATE runs.
UpdateRead(r, f) ==
  /\ At(r, "idle")
  /\ rfqs[f].status = "draft"
  /\ req' = [req EXCEPT ![r] = [Idle EXCEPT !.pc = "update", !.rfq = f]]
  /\ UNCHANGED <<rfqs, quotes>>

\* Mutant of UpdateWrite: the row that was read is written back whole, status included.
UpdateWriteWholeRow(r) ==
  /\ At(r, "update")
  /\ \E vs \in SUBSET Vendors, late \in BOOLEAN :
       rfqs' = [rfqs EXCEPT ![req[r].rfq].invited = vs, ![req[r].rfq].overdue = late,
                            ![req[r].rfq].status = "draft"]
  /\ Return(r)
  /\ UNCHANGED quotes

\* Only the fields that can be edited are written, whatever has become of the others.
\* The new deadline is not compared with the clock; a field that the input
\* leaves out keeps its value, which the choice includes.
UpdateWrite(r) ==
  /\ At(r, "update")
  /\ \E vs \in SUBSET Vendors, late \in BOOLEAN :
       rfqs' = [rfqs EXCEPT ![req[r].rfq].invited = vs, ![req[r].rfq].overdue = late]
  /\ Return(r)
  /\ UNCHANGED quotes

\* Mutant of StatusRead: the status to write is left at its zero value.
StatusReadUnset(r, f, to) ==
  /\ At(r, "idle")
  /\ req' = [req EXCEPT ![r] = [Idle EXCEPT !.pc = "status", !.rfq = f]]
  /\ UNCHANGED <<rfqs, quotes>>

\* The read that precedes UpdateStatus(to).
StatusRead(r, f, to) ==
  /\ At(r, "idle")
  /\ req' = [req EXCEPT ![r] = [Idle EXCEPT !.pc = "status", !.rfq = f, !.to = to]]
  /\ UNCHANGED <<rfqs, quotes>>

PublishRead(r, f) ==
  /\ rfqs[f].status = "draft"
  /\ rfqs[f].invited # {}
  /\ ~rfqs[f].overdue
  /\ StatusRead(r, f, "open")

CloseRead(r, f) ==
  /\ rfqs[f].status = "open"
  /\ StatusRead(r, f, "closed")

\* Mutant of CancelRead: an awarded RFQ can be cancelled.
CancelReadAwarded(r, f) ==
  /\ rfqs[f].status \notin {"absent", "cancelled"}
  /\ StatusRead(r, f, "cancelled")

CancelRead(r, f) ==
  /\ rfqs[f].status \notin {"absent", "awarded", "cancelled"}
  /\ StatusRead(r, f, "cancelled")

\* Publish, Close and Cancel end in the same unconditional UPDATE.
StatusWrite(r) ==
  /\ At(r, "status")
  /\ rfqs' = [rfqs EXCEPT ![req[r].rfq].status = req[r].to]
  /\ Return(r)
  /\ UNCHANGED quotes

-----------------------------------------------------------------------------
(* Quotes.                                                                 *)

\* Quotes is the bound here: a request is only taken up while an id is left
\* for the row it may insert.
SubmitRead(r, f, v, q) ==
  /\ At(r, "idle")
  /\ Fresh(q)
  /\ rfqs[f].status = "open"
  /\ ~rfqs[f].overdue
  /\ v \in rfqs[f].invited
  /\ req' = [req EXCEPT ![r] = [Idle EXCEPT !.pc = "submit_check", !.rfq = f,
                                            !.quote = q, !.vendor = v]]
  /\ UNCHANGED <<rfqs, quotes>>

\* GetQuoteByVendor finds a quote in any status, a withdrawn one too.
HasQuoted(f, v) == \E q \in Quotes : quotes[q].rfq = f /\ quotes[q].vendor = v

SubmitCheck(r) ==
  /\ At(r, "submit_check")
  /\ IF HasQuoted(req[r].rfq, req[r].vendor)
       THEN Return(r)
       ELSE req' = [req EXCEPT ![r].pc = "submit_insert"]
  /\ UNCHANGED <<rfqs, quotes>>

SubmitInsert(r) ==
  /\ At(r, "submit_insert")
  /\ quotes' = [quotes EXCEPT ![req[r].quote] =
                  [status |-> "submitted", rfq |-> req[r].rfq, vendor |-> req[r].vendor]]
  /\ Return(r)
  /\ UNCHANGED rfqs

SetQuoteStatus(q, status) == quotes' = [quotes EXCEPT ![q].status = status]

WithdrawRead(r, q) ==
  /\ At(r, "idle")
  /\ quotes[q].status = "submitted"
  /\ req' = [req EXCEPT ![r] = [Idle EXCEPT !.pc = "withdraw_check",
                                            !.rfq = quotes[q].rfq, !.quote = q]]
  /\ UNCHANGED <<rfqs, quotes>>

WithdrawCheck(r) ==
  /\ At(r, "withdraw_check")
  /\ IF rfqs[req[r].rfq].status = "open"
       THEN req' = [req EXCEPT ![r].pc = "withdraw"]
       ELSE Return(r)
  /\ UNCHANGED <<rfqs, quotes>>

WithdrawWrite(r) ==
  /\ At(r, "withdraw")
  /\ SetQuoteStatus(req[r].quote, "withdrawn")
  /\ Return(r)
  /\ UNCHANGED rfqs

-----------------------------------------------------------------------------
(* Awarding.                                                               *)

\* Mutant of AwardRead: the quote may belong to another RFQ.
AwardReadAnyQuote(r, f, q) ==
  /\ At(r, "idle")
  /\ rfqs[f].status \in {"open", "closed"}
  /\ quotes[q].status # "absent"
  /\ req' = [req EXCEPT ![r] = [Idle EXCEPT !.pc = "award_accept", !.rfq = f, !.quote = q]]
  /\ UNCHANGED <<rfqs, quotes>>

\* Reads the RFQ and the quote.  A quote never moves to another RFQ, so the
\* second SELECT sees nothing that the first could not.  The status of the
\* quote is not looked at.
AwardRead(r, f, q) ==
  /\ At(r, "idle")
  /\ rfqs[f].status \in {"open", "closed"}
  /\ quotes[q].rfq = f
  /\ req' = [req EXCEPT ![r] = [Idle EXCEPT !.pc = "award_accept", !.rfq = f, !.quote = q]]
  /\ UNCHANGED <<rfqs, quotes>>

AwardAccept(r) ==
  /\ At(r, "award_accept")
  /\ SetQuoteStatus(req[r].quote, "accepted")
  /\ req' = [req EXCEPT ![r].pc = "award_list"]
  /\ UNCHANGED rfqs

\* Mutant of Losers: the status of the other quotes is not looked at.
LosersAnyStatus(f, c) == {q \in Quotes \ {c} : quotes[q].rfq = f}

\* The quotes that the award of quote c on f finds to reject.
Losers(f, c) == {q \in Quotes \ {c} : quotes[q].rfq = f /\ quotes[q].status = "submitted"}

\* An error of this SELECT is dropped, and the loop then has nothing to do.
AwardList(r) ==
  /\ At(r, "award_list")
  /\ \E found \in {Losers(req[r].rfq, req[r].quote)} \cup (IF MayFail THEN {{}} ELSE {}) :
       req' = [req EXCEPT ![r].pc = "award_reject", ![r].rejecting = found]
  /\ UNCHANGED <<rfqs, quotes>>

\* Mutant of AwardReject: the loop does not advance.
AwardRejectAgain(r, q) ==
  /\ At(r, "award_reject")
  /\ q \in req[r].rejecting
  /\ SetQuoteStatus(q, "rejected")
  /\ UNCHANGED <<rfqs, req>>

\* One UPDATE per quote of the list; its error is dropped too.
AwardReject(r, q) ==
  /\ At(r, "award_reject")
  /\ q \in req[r].rejecting
  /\ req' = [req EXCEPT ![r].rejecting = @ \ {q}]
  /\ \/ SetQuoteStatus(q, "rejected")
     \/ MayFail /\ UNCHANGED quotes
  /\ UNCHANGED rfqs

\* Mutant of AwardFinish: the UPDATE leaves awarded_quote_id out.
AwardFinishNoQuote(r) ==
  /\ At(r, "award_reject")
  /\ req[r].rejecting = {}
  /\ rfqs' = [rfqs EXCEPT ![req[r].rfq].status = "awarded"]
  /\ Return(r)
  /\ UNCHANGED quotes

AwardFinish(r) ==
  /\ At(r, "award_reject")
  /\ req[r].rejecting = {}
  /\ rfqs' = [rfqs EXCEPT ![req[r].rfq].status = "awarded",
                          ![req[r].rfq].awarded = req[r].quote]
  /\ Return(r)
  /\ UNCHANGED quotes

-----------------------------------------------------------------------------
(* The expiry sweep, and failures.                                         *)

ExpireList(r) ==
  LET due == {f \in Rfqs : rfqs[f].status = "open" /\ rfqs[f].overdue} IN
  /\ At(r, "idle")
  /\ due # {}
  /\ req' = [req EXCEPT ![r] = [Idle EXCEPT !.pc = "expire", !.expiring = due]]
  /\ UNCHANGED <<rfqs, quotes>>

\* An RFQ whose UPDATE fails is left for the next sweep.
ExpireWrite(r, f) ==
  /\ At(r, "expire")
  /\ f \in req[r].expiring
  /\ \/ rfqs' = [rfqs EXCEPT ![f].status = "expired"]
     \/ MayFail /\ UNCHANGED rfqs
  /\ IF req[r].expiring = {f}
       THEN Return(r)
       ELSE req' = [req EXCEPT ![r].expiring = @ \ {f}]
  /\ UNCHANGED quotes

\* A statement fails, the request's context is cancelled, or the process
\* dies: what the request has written stays, the rest is never written.
Fail(r) ==
  /\ MayFail
  /\ ~At(r, "idle")
  /\ Return(r)
  /\ UNCHANGED <<rfqs, quotes>>

-----------------------------------------------------------------------------
Start(r) ==
  \/ ExpireList(r)
  \/ \E f \in Rfqs : UpdateRead(r, f) \/ PublishRead(r, f) \/ CloseRead(r, f) \/ CancelRead(r, f)
  \/ \E f \in Rfqs, v \in Vendors, q \in Quotes : SubmitRead(r, f, v, q)
  \/ \E f \in Rfqs, q \in Quotes : AwardRead(r, f, q)
  \/ \E q \in Quotes : WithdrawRead(r, q)

Advance(r) ==
  \/ UpdateWrite(r) \/ StatusWrite(r)
  \/ SubmitCheck(r) \/ SubmitInsert(r)
  \/ WithdrawCheck(r) \/ WithdrawWrite(r)
  \/ AwardAccept(r) \/ AwardList(r) \/ AwardFinish(r)
  \/ \E q \in Quotes : AwardReject(r, q)
  \/ \E f \in Rfqs : ExpireWrite(r, f)

Next ==
  \/ \E f \in Rfqs : Create(f) \/ DeadlinePasses(f)
  \/ \E r \in Requests : Start(r) \/ Advance(r) \/ Fail(r)

Spec == Init /\ [][Next]_vars

\* Go runs every handler's goroutine: a request in flight is not starved.
FairSpec == Spec /\ \A r \in Requests : WF_vars(Advance(r))

-----------------------------------------------------------------------------
(* Properties.                                                             *)

\* The tables and the requests in flight have the types the code gives them.
TypeOK ==
  /\ rfqs \in [Rfqs -> RfqRow]
  /\ quotes \in [Quotes -> QuoteRow]
  /\ req \in [Requests -> Request]

\* However awards, withdrawals and failures overlap, an RFQ never ends up with
\* all its quotes rejected: where AwardQuote has rejected a quote, another quote
\* of the same RFQ is accepted, unless a vendor has withdrawn one.
RejectionLeavesAWinner ==
  \A q \in Quotes : quotes[q].status = "rejected" =>
    \E w \in Quotes : /\ quotes[w].rfq = quotes[q].rfq
                       /\ quotes[w].status \in {"accepted", "withdrawn"}

\* An awarded RFQ names a quote, and a quote an RFQ names was submitted to that
\* RFQ and has been decided on, also when a cancellation, a closure or a sweep
\* that read the row earlier has since overwritten the status.
AwardIntegrity ==
  \A f \in Rfqs :
    /\ rfqs[f].status = "awarded" => rfqs[f].awarded # Nil
    /\ rfqs[f].awarded # Nil =>
         /\ quotes[rfqs[f].awarded].rfq = f
         /\ quotes[rfqs[f].awarded].status \in {"accepted", "rejected", "withdrawn"}

Published(f) == rfqs[f].status \notin {"absent", "draft"}

\* The quote was accepted, rejected or withdrawn once; which of them may change.
Decided(q) == quotes[q].status \in {"accepted", "rejected", "withdrawn"}

\* The quotes of an RFQ that are accepted, or withdrawn by their vendors, and
\* that no award is about to reject.
Undisputed(f) ==
  {q \in Quotes : /\ quotes[q].rfq = f
                  /\ quotes[q].status \in {"accepted", "withdrawn"}
                  /\ \A r \in Requests : q \notin req[r].rejecting}

TakesNothingBack ==
  /\ \A f \in Rfqs :
       /\ rfqs[f].status # "absent" => rfqs'[f].status # "absent"
       /\ Published(f) => Published(f)'
       /\ rfqs[f].awarded # Nil => rfqs'[f].awarded # Nil
       /\ Undisputed(f) \subseteq Undisputed(f)'
  /\ \A q \in Quotes :
       /\ quotes[q].status # "absent" =>
            quotes'[q].rfq = quotes[q].rfq /\ quotes'[q].vendor = quotes[q].vendor
       /\ Decided(q) => Decided(q)'

\* However stale the rows are that a request goes by, its write takes back neither the
\* publication of an RFQ (an Update that read the draft included), nor that it was awarded,
\* nor that a quote was decided on; a quote stays with its RFQ and its vendor; and one that
\* is accepted or withdrawn, and on no award's list to reject, is never rejected.  What
\* was decided may change: a stale withdrawal makes an accepted quote a withdrawn one, a
\* stale award the reverse, and two awards overwrite each other's quote.
NothingTakenBack == [][TakesNothingBack]_vars

\* Once the requests are answered, the only accepted quote of an awarded RFQ is
\* the one it was awarded to: the award has rejected all the others.  The code
\* does not keep this when two awards overlap.
OneWinner ==
  (\A r \in Requests : At(r, "idle")) =>
    \A q \in Quotes : \A f \in Rfqs :
      /\ quotes[q].status = "accepted"
      /\ quotes[q].rfq = f
      /\ rfqs[f].status = "awarded"
      => rfqs[f].awarded = q

\* An award that has accepted a quote goes on to award the RFQ to it: the loop
\* over the other quotes ends and the last UPDATE is reached.
AcceptedLeadsToAwarded ==
  \A q \in Quotes : quotes[q].status = "accepted" ~>
    \E f \in Rfqs : /\ quotes[q].rfq = f
                    /\ rfqs[f].status = "awarded" /\ rfqs[f].awarded = q
=============================================================================
