-------------------------- MODULE RfqServiceProofs --------------------------
(***************************************************************************)
(* What RfqService guarantees for any number of requests, RFQs, quotes and *)
(* vendors, with failures or without; and that one request at a time, none *)
(* of them interrupted, gives the life cycle of RfqLifecycle.              *)
(***************************************************************************)
EXTENDS RfqSerial, TLAPS

USE RfqAssumption

-----------------------------------------------------------------------------
(* The inductive invariant.                                                *)

Submitting == {"submit_check", "submit_insert"}
Deciding   == {"award_accept", "award_list", "award_reject", "withdraw_check", "withdraw"}

\* A request in flight (what it has in hand is x) holds the ids that its next
\* statement needs.
HoldsIds(x) ==
  /\ x.pc \in {"update", "status"} \cup Submitting \cup Deciding => x.rfq \in Rfqs
  /\ x.pc \in Submitting \cup Deciding => x.quote \in Quotes
  /\ x.pc \in Submitting => x.vendor \in Vendors
  /\ x.pc = "status" => x.to # "none"
  /\ x.rejecting # {} => x.pc = "award_reject"

\* What a request has read of the tables and still holds when it writes.
HoldsRows(r) ==
  /\ req[r].pc \in Submitting => quotes[req[r].quote].status = "absent" /\ Published(req[r].rfq)
  /\ req[r].pc \in Deciding => quotes[req[r].quote].rfq = req[r].rfq
  /\ req[r].pc \in {"award_list", "award_reject"} => Decided(req[r].quote)
  /\ \A q \in req[r].rejecting : quotes[q].rfq = req[r].rfq

\* The id of a quote to be inserted is in the hands of one request.
Exclusive ==
  \A r, s \in Requests : req[r].pc \in Submitting /\ req[s].quote = req[r].quote => s = r

\* A quote row that exists belongs to an RFQ, and an id without a row to none.
RowsBelong ==
  \A q \in Quotes : quotes[q].status # "absent" <=> quotes[q].rfq \in Rfqs

\* An award of the RFQ rejects quotes, now or earlier.
Contested(f) ==
  \/ \E r \in Requests : req[r].pc \in {"award_list", "award_reject"} /\ req[r].rfq = f
  \/ \E q \in Quotes : quotes[q].rfq = f /\ quotes[q].status = "rejected"

WinnerKept == \A f \in Rfqs : Contested(f) => Undisputed(f) # {}

Coherent ==
  /\ TypeOK
  /\ RowsBelong
  /\ \A r \in Requests : HoldsIds(req[r]) /\ HoldsRows(r)
  /\ Exclusive

\* An RFQ that vendors have quoted on is no draft.  (An Update that read it as one may
\* still edit it.)
QuotedRfqIsPublished ==
  \A q \in Quotes : quotes[q].status # "absent" =>
    rfqs[quotes[q].rfq].status \notin {"absent", "draft"}

IInv == Coherent /\ WinnerKept /\ AwardIntegrity /\ QuotedRfqIsPublished

-----------------------------------------------------------------------------
(* What one step can do to each variable.                                  *)

LEMMA IdleHolds == Idle \in Request /\ HoldsIds(Idle)
BY DEF Idle, Request, Label, HoldsIds, Submitting, Deciding

\* A step moves one request, from one state that makes sense to another.
LEMMA RequestMoves ==
  ASSUME Coherent, NEW r \in Requests, Start(r) \/ Advance(r) \/ Fail(r)
  PROVE  \E x \in Request : HoldsIds(x) /\ req' = [req EXCEPT ![r] = x]
<1>a. /\ req \in [Requests -> Request]
      /\ quotes \in [Quotes -> QuoteRow]
      /\ req[r] \in Request
      /\ HoldsIds(req[r])
  BY DEF Coherent, TypeOK
<1>b. ASSUME NEW x \in Request, HoldsIds(x), req' = [req EXCEPT ![r] = x]
      PROVE  \E y \in Request : HoldsIds(y) /\ req' = [req EXCEPT ![r] = y]
  BY <1>b
<1>c. CASE Return(r)
  BY <1>c, IdleHolds, <1>b DEF Return
<1>d. CASE Start(r)
  <2>1. CASE ExpireList(r)
    <3> DEFINE x == [Idle EXCEPT !.pc = "expire",
                                 !.expiring = {f \in Rfqs : rfqs[f].status = "open" /\ rfqs[f].overdue}]
    <3>1. x \in Request /\ HoldsIds(x)
      BY DEF Idle, Request, Label, HoldsIds, Submitting, Deciding
    <3>2. req' = [req EXCEPT ![r] = x]
      BY <2>1 DEF ExpireList
    <3> QED BY <3>1, <3>2, <1>b
  <2>2. ASSUME NEW f \in Rfqs, UpdateRead(r, f)
        PROVE  \E x \in Request : HoldsIds(x) /\ req' = [req EXCEPT ![r] = x]
    <3> DEFINE x == [Idle EXCEPT !.pc = "update", !.rfq = f]
    <3>1. x \in Request /\ HoldsIds(x)
      BY DEF Idle, Request, Label, HoldsIds, Submitting, Deciding
    <3>2. req' = [req EXCEPT ![r] = x]
      BY <2>2 DEF UpdateRead
    <3> QED BY <3>1, <3>2, <1>b
  <2>3. ASSUME NEW f \in Rfqs, NEW to \in {"open", "closed", "cancelled"}, StatusRead(r, f, to)
        PROVE  \E x \in Request : HoldsIds(x) /\ req' = [req EXCEPT ![r] = x]
    <3> DEFINE x == [Idle EXCEPT !.pc = "status", !.rfq = f, !.to = to]
    <3>1. x \in Request /\ HoldsIds(x)
      BY DEF Idle, Request, Label, HoldsIds, Submitting, Deciding
    <3>2. req' = [req EXCEPT ![r] = x]
      BY <2>3 DEF StatusRead
    <3> QED BY <3>1, <3>2, <1>b
  <2>4. ASSUME NEW f \in Rfqs, NEW v \in Vendors, NEW q \in Quotes, SubmitRead(r, f, v, q)
        PROVE  \E x \in Request : HoldsIds(x) /\ req' = [req EXCEPT ![r] = x]
    <3> DEFINE x == [Idle EXCEPT !.pc = "submit_check", !.rfq = f, !.quote = q, !.vendor = v]
    <3>1. x \in Request /\ HoldsIds(x)
      BY DEF Idle, Request, Label, HoldsIds, Submitting, Deciding
    <3>2. req' = [req EXCEPT ![r] = x]
      BY <2>4 DEF SubmitRead
    <3> QED BY <3>1, <3>2, <1>b
  <2>5. ASSUME NEW f \in Rfqs, NEW q \in Quotes, AwardRead(r, f, q)
        PROVE  \E x \in Request : HoldsIds(x) /\ req' = [req EXCEPT ![r] = x]
    <3> DEFINE x == [Idle EXCEPT !.pc = "award_accept", !.rfq = f, !.quote = q]
    <3>1. x \in Request /\ HoldsIds(x)
      BY DEF Idle, Request, Label, HoldsIds, Submitting, Deciding
    <3>2. req' = [req EXCEPT ![r] = x]
      BY <2>5 DEF AwardRead
    <3> QED BY <3>1, <3>2, <1>b
  <2>6. ASSUME NEW q \in Quotes, WithdrawRead(r, q)
        PROVE  \E x \in Request : HoldsIds(x) /\ req' = [req EXCEPT ![r] = x]
    <3> DEFINE x == [Idle EXCEPT !.pc = "withdraw_check", !.rfq = quotes[q].rfq, !.quote = q]
    <3>1. quotes[q].rfq \in Rfqs
      BY <2>6 DEF WithdrawRead, Coherent, RowsBelong
    <3>2. x \in Request /\ HoldsIds(x)
      BY <3>1 DEF Idle, Request, Label, HoldsIds, Submitting, Deciding
    <3>3. req' = [req EXCEPT ![r] = x]
      BY <2>6 DEF WithdrawRead
    <3> QED BY <3>2, <3>3, <1>b
  <2> QED
    BY <1>d, <2>1, <2>2, <2>3, <2>4, <2>5, <2>6 DEF Start, PublishRead, CloseRead, CancelRead
<1>e. CASE Advance(r)
  <2>1. CASE UpdateWrite(r) \/ StatusWrite(r) \/ SubmitInsert(r) \/ WithdrawWrite(r) \/ AwardFinish(r)
    BY <2>1, <1>c DEF UpdateWrite, StatusWrite, SubmitInsert, WithdrawWrite, AwardFinish
  <2>2. ASSUME NEW from, NEW to,
               <<from, to>> \in {<<"submit_check", "submit_insert">>, <<"withdraw_check", "withdraw">>,
                                 <<"award_accept", "award_list">>},
               At(r, from), req' = [req EXCEPT ![r].pc = to]
        PROVE  \E x \in Request : HoldsIds(x) /\ req' = [req EXCEPT ![r] = x]
    <3> DEFINE x == [req[r] EXCEPT !.pc = to]
    <3>1. x \in Request /\ HoldsIds(x)
      BY <1>a, <2>2 DEF Request, Label, HoldsIds, Submitting, Deciding, At
    <3>2. req' = [req EXCEPT ![r] = x]
      BY <1>a, <2>2
    <3> QED BY <3>1, <3>2, <1>b
  <2>3. CASE SubmitCheck(r) \/ WithdrawCheck(r) \/ AwardAccept(r)
    BY <2>3, <1>c, <2>2 DEF SubmitCheck, WithdrawCheck, AwardAccept
  <2>4. CASE AwardList(r)
    <3>1. PICK found \in SUBSET Quotes :
                 req' = [req EXCEPT ![r].pc = "award_reject", ![r].rejecting = found]
      BY <2>4 DEF AwardList, Losers
    <3> DEFINE x == [req[r] EXCEPT !.pc = "award_reject", !.rejecting = found]
    <3>2. x \in Request /\ HoldsIds(x)
      BY <1>a, <2>4 DEF AwardList, Request, Label, HoldsIds, Submitting, Deciding, At
    <3>3. req' = [req EXCEPT ![r] = x]
      BY <1>a, <3>1
    <3> QED BY <3>2, <3>3, <1>b
  <2>5. ASSUME NEW q \in Quotes, AwardReject(r, q)
        PROVE  \E x \in Request : HoldsIds(x) /\ req' = [req EXCEPT ![r] = x]
    <3> DEFINE x == [req[r] EXCEPT !.rejecting = req[r].rejecting \ {q}]
    <3>1. x \in Request /\ HoldsIds(x)
      BY <1>a, <2>5 DEF AwardReject, Request, Label, HoldsIds, Submitting, Deciding, At
    <3>2. req' = [req EXCEPT ![r] = x]
      BY <1>a, <2>5 DEF AwardReject
    <3> QED BY <3>1, <3>2, <1>b
  <2>6. ASSUME NEW f \in Rfqs, ExpireWrite(r, f)
        PROVE  \E x \in Request : HoldsIds(x) /\ req' = [req EXCEPT ![r] = x]
    <3> DEFINE x == [req[r] EXCEPT !.expiring = req[r].expiring \ {f}]
    <3>1. x \in Request /\ HoldsIds(x)
      BY <1>a, <2>6 DEF ExpireWrite, Request, Label, HoldsIds, Submitting, Deciding, At
    <3>2. CASE req' = [req EXCEPT ![r].expiring = @ \ {f}]
      <4>1. req' = [req EXCEPT ![r] = x]
        BY <1>a, <3>2
      <4> QED BY <3>1, <4>1, <1>b
    <3> QED BY <2>6, <3>2, <1>c DEF ExpireWrite
  <2> QED BY <1>e, <2>1, <2>3, <2>4, <2>5, <2>6 DEF Advance
<1> QED BY <1>c, <1>d, <1>e DEF Fail

\* A quote row is inserted once, and then only its status is set.
LEMMA QuoteMoves ==
  ASSUME Coherent, NEW r \in Requests, Start(r) \/ Advance(r) \/ Fail(r)
  PROVE  \/ quotes' = quotes
         \/ SubmitInsert(r)
         \/ \E q \in Quotes, status \in {"accepted", "rejected", "withdrawn"} :
              /\ quotes[q].status # "absent"
              /\ SetQuoteStatus(q, status)
              /\ status = "rejected" => q \in req[r].rejecting
<1>a. req[r] \in Request /\ HoldsIds(req[r]) /\ HoldsRows(r)
  BY DEF Coherent, TypeOK
<1>1. CASE Start(r)
  BY <1>1 DEF Start, ExpireList, UpdateRead, PublishRead, CloseRead, CancelRead, StatusRead,
              SubmitRead, AwardRead, WithdrawRead
<1>2. CASE Fail(r)
  BY <1>2 DEF Fail
<1>3. CASE UpdateWrite(r) \/ StatusWrite(r) \/ SubmitCheck(r) \/ WithdrawCheck(r) \/ AwardList(r) \/ AwardFinish(r)
  BY <1>3 DEF UpdateWrite, StatusWrite, SubmitCheck, WithdrawCheck, AwardList, AwardFinish
<1>4. CASE req[r].pc \in Deciding
  <2>1. req[r].quote \in Quotes /\ req[r].rfq \in Rfqs /\ quotes[req[r].quote].rfq = req[r].rfq
    BY <1>a, <1>4 DEF HoldsIds, HoldsRows
  <2>2. quotes[req[r].quote].status # "absent"
    BY <2>1 DEF Coherent, RowsBelong
  <2>3. CASE WithdrawWrite(r)
    BY <2>1, <2>2, <2>3 DEF WithdrawWrite
  <2>4. CASE AwardAccept(r)
    BY <2>1, <2>2, <2>4 DEF AwardAccept
  <2>5. ASSUME NEW q \in Quotes, AwardReject(r, q), quotes' # quotes
        PROVE  quotes[q].status # "absent" /\ SetQuoteStatus(q, "rejected") /\ q \in req[r].rejecting
    BY <1>a, <2>1, <2>5 DEF AwardReject, HoldsRows, Coherent, RowsBelong
  <2> QED
    BY <1>1, <1>2, <1>3, <2>3, <2>4, <2>5 DEF Advance, ExpireWrite
<1> QED
  BY <1>1, <1>2, <1>3, <1>4
     DEF Advance, ExpireWrite, WithdrawWrite, AwardAccept, AwardReject, Deciding, At

\* A write of the row of an RFQ keeps it published if it was, and awards it
\* only to a quote of its own that was accepted.
RowFits(f, row) ==
  /\ Published(f) => row.status \notin {"absent", "draft"}
  /\ row.status = "awarded" => row.awarded # Nil
  /\ row.awarded # Nil => quotes[row.awarded].rfq = f /\ Decided(row.awarded)

\* Only rows that fit are written.
LEMMA RfqMoves ==
  ASSUME Coherent, AwardIntegrity, Next
  PROVE  \/ rfqs' = rfqs
         \/ \E f \in Rfqs, row \in RfqRow :
              rfqs' = [rfqs EXCEPT ![f] = row] /\ RowFits(f, row)
<1> DEFINE Moves ==
      \E f \in Rfqs, row \in RfqRow :
        rfqs' = [rfqs EXCEPT ![f] = row] /\ RowFits(f, row)
<1>a. rfqs \in [Rfqs -> RfqRow]
  BY DEF Coherent, TypeOK
<1>b. ASSUME NEW f \in Rfqs PROVE RowFits(f, rfqs[f])
  BY DEF AwardIntegrity, Decided, RowFits, Published
<1>1. ASSUME NEW f \in Rfqs, NEW row \in RfqRow, rfqs' = [rfqs EXCEPT ![f] = row],
             Published(f) => row.status \notin {"absent", "draft"},
             row.status # "awarded", row.awarded \in {rfqs[f].awarded, Nil}
      PROVE  Moves
  <2>1. RowFits(f, row)
    BY <1>1, <1>b DEF RowFits
  <2> QED BY <1>1, <2>1
<1>2. ASSUME NEW f \in Rfqs, Create(f) PROVE Moves
  <2>1. PICK vs \in SUBSET Vendors :
               rfqs' = [rfqs EXCEPT ![f] = [status |-> "draft", invited |-> vs,
                                            overdue |-> FALSE, awarded |-> Nil]]
    BY <1>2 DEF Create
  <2> DEFINE row == [status |-> "draft", invited |-> vs, overdue |-> FALSE, awarded |-> Nil]
  <2>2. row \in RfqRow
    BY DEF RfqRow, RfqStatus
  <2>3. ~Published(f)
    BY <1>2 DEF Create, Published
  <2> QED BY <2>1, <2>2, <2>3, <1>1
<1>3. ASSUME NEW f \in Rfqs, NEW vs \in SUBSET Vendors, NEW late \in BOOLEAN,
             rfqs' = [rfqs EXCEPT ![f].invited = vs, ![f].overdue = late]
      PROVE  Moves
  <2> DEFINE row == [rfqs[f] EXCEPT !.invited = vs, !.overdue = late]
  <2>1. row \in RfqRow /\ row.status = rfqs[f].status /\ row.awarded = rfqs[f].awarded
    BY <1>a DEF RfqRow
  <2>2. rfqs' = [rfqs EXCEPT ![f] = row]
    BY <1>a, <1>3
  <2>3. RowFits(f, row)
    BY <2>1, <1>b DEF RowFits
  <2> QED BY <2>1, <2>2, <2>3
<1>4. ASSUME NEW f \in Rfqs, DeadlinePasses(f) PROVE Moves
  <2> DEFINE row == [rfqs[f] EXCEPT !.overdue = TRUE]
  <2>1. row \in RfqRow /\ row.status = rfqs[f].status /\ row.awarded = rfqs[f].awarded
    BY <1>a DEF RfqRow
  <2>2. rfqs' = [rfqs EXCEPT ![f] = row]
    BY <1>a, <1>4 DEF DeadlinePasses
  <2>3. RowFits(f, row)
    BY <2>1, <1>b DEF RowFits
  <2> QED BY <2>1, <2>2, <2>3
<1>5. ASSUME NEW f \in Rfqs, NEW to \in {"open", "closed", "cancelled", "expired"},
             rfqs' = [rfqs EXCEPT ![f].status = to]
      PROVE  Moves
  <2> DEFINE row == [rfqs[f] EXCEPT !.status = to]
  <2>1. row \in RfqRow /\ row.status = to /\ row.awarded = rfqs[f].awarded
    BY <1>a DEF RfqRow, RfqStatus
  <2>2. rfqs' = [rfqs EXCEPT ![f] = row]
    BY <1>a, <1>5
  <2> QED BY <2>1, <2>2, <1>1
<1>6. ASSUME NEW r \in Requests, Start(r) PROVE rfqs' = rfqs
  BY <1>6 DEF Start, ExpireList, UpdateRead, PublishRead, CloseRead, CancelRead, StatusRead,
              SubmitRead, AwardRead, WithdrawRead
<1>7. ASSUME NEW r \in Requests, Advance(r) PROVE rfqs' = rfqs \/ Moves
  <2>a. req[r] \in Request /\ HoldsIds(req[r]) /\ HoldsRows(r)
    BY DEF Coherent, TypeOK
  <2>1. CASE UpdateWrite(r)
    <3>1. req[r].rfq \in Rfqs
      BY <2>a, <2>1 DEF UpdateWrite, At, HoldsIds
    <3> QED BY <3>1, <2>1, <1>3 DEF UpdateWrite
  <2>2. CASE StatusWrite(r)
    <3>1. req[r].rfq \in Rfqs /\ req[r].to \in {"open", "closed", "cancelled"}
      BY <2>a, <2>2 DEF StatusWrite, At, HoldsIds, Request
    <3> QED BY <3>1, <2>2, <1>5 DEF StatusWrite
  <2>3. CASE AwardFinish(r)
    <3> DEFINE row == [rfqs[req[r].rfq] EXCEPT !.status = "awarded", !.awarded = req[r].quote]
    <3>1. /\ req[r].rfq \in Rfqs
          /\ req[r].quote \in Quotes
          /\ quotes[req[r].quote].rfq = req[r].rfq
          /\ Decided(req[r].quote)
      BY <2>a, <2>3 DEF AwardFinish, At, HoldsIds, HoldsRows, Deciding
    <3>2. row \in RfqRow /\ row.status = "awarded" /\ row.awarded = req[r].quote
      BY <1>a, <3>1 DEF RfqRow, RfqStatus
    <3>3. rfqs' = [rfqs EXCEPT ![req[r].rfq] = row]
      BY <1>a, <2>3, <3>1 DEF AwardFinish
    <3>4. RowFits(req[r].rfq, row)
      BY <3>1, <3>2 DEF RowFits
    <3> QED BY <3>1, <3>2, <3>3, <3>4
  <2>4. ASSUME NEW f \in Rfqs, ExpireWrite(r, f) PROVE rfqs' = rfqs \/ Moves
    BY <2>4, <1>5 DEF ExpireWrite
  <2>5. CASE \/ SubmitCheck(r) \/ SubmitInsert(r) \/ WithdrawCheck(r) \/ WithdrawWrite(r)
             \/ AwardAccept(r) \/ AwardList(r) \/ \E q \in Quotes : AwardReject(r, q)
    BY <2>5 DEF SubmitCheck, SubmitInsert, WithdrawCheck, WithdrawWrite, AwardAccept, AwardList,
                AwardReject
  <2> QED BY <1>7, <2>1, <2>2, <2>3, <2>4, <2>5 DEF Advance
<1>8. ASSUME NEW r \in Requests, Fail(r) PROVE rfqs' = rfqs
  BY <1>8 DEF Fail
<1> QED BY <1>2, <1>4, <1>6, <1>7, <1>8 DEF Next

-----------------------------------------------------------------------------
(* The invariant is inductive.                                             *)

\* The quotes table keeps its type, no row leaves its RFQ, and a decision on a
\* quote is replaced only by another.
LEMMA QuotesStay ==
  ASSUME Coherent, Next
  PROVE  /\ quotes' \in [Quotes -> QuoteRow]
         /\ RowsBelong'
         /\ \A q \in Quotes : quotes[q].status # "absent" =>
              quotes'[q].status # "absent" /\ quotes'[q].rfq = quotes[q].rfq
         /\ \A q \in Quotes : Decided(q) => Decided(q)'
<1>a. quotes \in [Quotes -> QuoteRow] /\ RowsBelong
  BY DEF Coherent, TypeOK
<1>1. CASE quotes' = quotes
  BY <1>a, <1>1 DEF RowsBelong, Decided
<1>2. ASSUME NEW r \in Requests, SubmitInsert(r)
      PROVE  /\ req[r].quote \in Quotes /\ req[r].rfq \in Rfqs /\ req[r].vendor \in Vendors
             /\ quotes[req[r].quote].status = "absent"
             /\ quotes' = [quotes EXCEPT ![req[r].quote] =
                  [status |-> "submitted", rfq |-> req[r].rfq, vendor |-> req[r].vendor]]
  BY <1>2 DEF Coherent, SubmitInsert, At, HoldsIds, HoldsRows, Submitting
<1>3. CASE \E r \in Requests : SubmitInsert(r)
  <2>1. PICK r \in Requests : SubmitInsert(r)
    BY <1>3
  <2> DEFINE row == [status |-> "submitted", rfq |-> req[r].rfq, vendor |-> req[r].vendor]
  <2>2. row \in QuoteRow
    BY <1>2, <2>1 DEF QuoteRow, QuoteStatus
  <2> QED BY <1>a, <1>2, <2>1, <2>2 DEF RowsBelong, Decided
<1>4. ASSUME NEW q \in Quotes, NEW status \in {"accepted", "rejected", "withdrawn"},
             quotes[q].status # "absent", SetQuoteStatus(q, status)
      PROVE  /\ quotes' \in [Quotes -> QuoteRow]
             /\ RowsBelong'
             /\ \A p \in Quotes : quotes[p].status # "absent" =>
                  quotes'[p].status # "absent" /\ quotes'[p].rfq = quotes[p].rfq
             /\ \A p \in Quotes : Decided(p) => Decided(p)'
  <2> DEFINE row == [quotes[q] EXCEPT !.status = status]
  <2>1. row \in QuoteRow /\ row.rfq = quotes[q].rfq /\ row.status = status
    BY <1>a DEF QuoteRow, QuoteStatus
  <2>2. quotes' = [quotes EXCEPT ![q] = row]
    BY <1>a, <1>4 DEF SetQuoteStatus
  <2> QED BY <1>a, <1>4, <2>1, <2>2 DEF RowsBelong, Decided
<1>5. ASSUME NEW f \in Rfqs, Create(f) \/ DeadlinePasses(f) PROVE quotes' = quotes
  BY <1>5 DEF Create, DeadlinePasses
<1>6. quotes' = quotes \/ \E r \in Requests : Start(r) \/ Advance(r) \/ Fail(r)
  BY <1>5 DEF Next
<1> QED BY <1>1, <1>3, <1>4, <1>6, QuoteMoves

\* The rfqs table keeps its type and a published RFQ never returns to draft.
LEMMA RfqsStay ==
  ASSUME Coherent, AwardIntegrity, Next
  PROVE  /\ rfqs' \in [Rfqs -> RfqRow]
         /\ \A f \in Rfqs : Published(f) => Published(f)'
BY RfqMoves DEF Coherent, TypeOK, RowFits, Published

\* A request keeps its type, and the ids it needs.
LEMMA RequestsStay ==
  ASSUME Coherent, Next
  PROVE  /\ req' \in [Requests -> Request]
         /\ \A r \in Requests : HoldsIds(req'[r])
<1>1. req' = req \/ \E r \in Requests : Start(r) \/ Advance(r) \/ Fail(r)
  BY DEF Next, Create, DeadlinePasses
<1> QED BY <1>1, RequestMoves DEF Coherent, TypeOK

LEMMA TypeStep ==
  ASSUME Coherent, AwardIntegrity, Next
  PROVE  TypeOK'
BY QuotesStay, RfqsStay, RequestsStay DEF TypeOK

\* The statements that either end a request or move it on.
LEMMA Branches ==
  ASSUME NEW r \in Requests
  PROVE  /\ SubmitCheck(r) => \/ Return(r)
                              \/ req' = [req EXCEPT ![r].pc = "submit_insert"]
         /\ WithdrawCheck(r) => \/ Return(r)
                                \/ req' = [req EXCEPT ![r].pc = "withdraw"]
         /\ \A f \in Rfqs : ExpireWrite(r, f) =>
              \/ Return(r)
              \/ req' = [req EXCEPT ![r].expiring = req[r].expiring \ {f}]
<1>1. SubmitCheck(r) => Return(r) \/ req' = [req EXCEPT ![r].pc = "submit_insert"]
  BY Zenon DEF SubmitCheck
<1>2. WithdrawCheck(r) => Return(r) \/ req' = [req EXCEPT ![r].pc = "withdraw"]
  BY Zenon DEF WithdrawCheck
<1>3. ASSUME NEW f \in Rfqs, ExpireWrite(r, f)
      PROVE  Return(r) \/ req' = [req EXCEPT ![r].expiring = req[r].expiring \ {f}]
  BY <1>3 DEF ExpireWrite, Return
<1> QED BY <1>1, <1>2, <1>3

\* The new quote of a request is the one it had, one that exists, or a fresh
\* one that no other request has.
LEMMA QuoteTaken ==
  ASSUME Coherent, NEW r \in Requests, Start(r) \/ Advance(r) \/ Fail(r)
  PROVE  \/ req'[r].quote = Nil /\ req'[r].pc \notin Submitting
         \/ req'[r].quote = req[r].quote /\ (req'[r].pc \in Submitting => req[r].pc \in Submitting)
         \/ /\ req'[r].pc \notin Submitting
            /\ req'[r].quote \in Quotes
            /\ quotes[req'[r].quote].status # "absent"
         \/ req'[r].quote \in Quotes /\ Fresh(req'[r].quote)
<1>a. req \in [Requests -> Request]
  BY DEF Coherent, TypeOK
<1>1. CASE Return(r)
  BY <1>a, <1>1 DEF Return, Idle, Submitting
<1>2. CASE Start(r)
  <2>1. ASSUME NEW f \in Rfqs, NEW v \in Vendors, NEW q \in Quotes, SubmitRead(r, f, v, q)
        PROVE  req'[r].quote \in Quotes /\ Fresh(req'[r].quote)
    BY <1>a, <2>1 DEF SubmitRead, Idle
  <2>2. ASSUME NEW f \in Rfqs, NEW q \in Quotes, AwardRead(r, f, q)
        PROVE  /\ req'[r].pc \notin Submitting
               /\ req'[r].quote \in Quotes
               /\ quotes[req'[r].quote].status # "absent"
    BY <1>a, <2>2 DEF AwardRead, Idle, Submitting, Coherent, RowsBelong
  <2>3. ASSUME NEW q \in Quotes, WithdrawRead(r, q)
        PROVE  /\ req'[r].pc \notin Submitting
               /\ req'[r].quote \in Quotes
               /\ quotes[req'[r].quote].status # "absent"
    BY <1>a, <2>3 DEF WithdrawRead, Idle, Submitting
  <2>4. ASSUME NEW f \in Rfqs, UpdateRead(r, f)
        PROVE  req'[r].quote = Nil /\ req'[r].pc \notin Submitting
    BY <1>a, <2>4 DEF UpdateRead, Idle, Submitting
  <2>5. ASSUME NEW f \in Rfqs, NEW to, StatusRead(r, f, to)
        PROVE  req'[r].quote = Nil /\ req'[r].pc \notin Submitting
    BY <1>a, <2>5 DEF StatusRead, Idle, Submitting
  <2>6. CASE ExpireList(r)
    BY <1>a, <2>6 DEF ExpireList, Idle, Submitting
  <2> QED
    BY <1>2, <2>1, <2>2, <2>3, <2>4, <2>5, <2>6 DEF Start, PublishRead, CloseRead, CancelRead
<1>3. CASE Advance(r)
  <2>1. CASE SubmitCheck(r)
    <3>1. CASE req' = [req EXCEPT ![r].pc = "submit_insert"]
      BY <1>a, <2>1, <3>1 DEF SubmitCheck, At, Submitting
    <3> QED BY <1>1, <2>1, <3>1, Branches
  <2>4. CASE WithdrawCheck(r)
    <3>1. CASE req' = [req EXCEPT ![r].pc = "withdraw"]
      BY <1>a, <3>1 DEF Submitting
    <3> QED BY <1>1, <2>4, <3>1, Branches
  <2>5. CASE AwardAccept(r)
    BY <1>a, <2>5 DEF AwardAccept, Submitting
  <2>6. CASE AwardList(r)
    BY <1>a, <2>6 DEF AwardList, Submitting
  <2>2. ASSUME NEW q \in Quotes, AwardReject(r, q)
        PROVE  req'[r].quote = req[r].quote /\ req'[r].pc = req[r].pc
    BY <1>a, <2>2 DEF AwardReject
  <2>3. ASSUME NEW f \in Rfqs, ExpireWrite(r, f), ~Return(r)
        PROVE  req'[r].quote = req[r].quote /\ req'[r].pc = req[r].pc
    <3>1. req' = [req EXCEPT ![r].expiring = req[r].expiring \ {f}]
      BY <2>3, Branches
    <3> QED BY <1>a, <3>1
  <2> QED
    BY <1>1, <1>3, <2>1, <2>2, <2>3, <2>4, <2>5, <2>6
       DEF Advance, UpdateWrite, StatusWrite, SubmitInsert, WithdrawWrite, AwardFinish
<1> QED BY <1>1, <1>2, <1>3 DEF Fail

LEMMA ExclusiveStep ==
  ASSUME Coherent, Next
  PROVE  Exclusive'
<1>1. CASE req' = req
  BY <1>1 DEF Coherent, Exclusive
<1>2. ASSUME NEW r \in Requests, Start(r) \/ Advance(r) \/ Fail(r)
      PROVE  Exclusive'
  <2>1. \A s \in Requests \ {r} : req'[s] = req[s]
    BY <1>2, RequestMoves DEF Coherent, TypeOK
  <2>2. ASSUME NEW a \in Requests, NEW s \in Requests,
               req'[a].pc \in Submitting, req'[s].quote = req'[a].quote, s # a
        PROVE  FALSE
    <3>1. req'[a].quote \in Quotes
      BY <2>2, RequestsStay, <1>2 DEF Next, HoldsIds
    <3>2. \A c \in Requests : req[c].pc \in Submitting =>
            req[c].quote \in Quotes /\ quotes[req[c].quote].status = "absent"
      BY DEF Coherent, HoldsIds, HoldsRows
    <3>3. CASE a = r
      <4>1. req'[r].pc \in Submitting /\ req[s].quote = req'[r].quote
        BY <2>1, <2>2, <3>3
      <4>2. CASE req'[r].quote = req[r].quote /\ req[r].pc \in Submitting
        BY <2>2, <3>3, <4>1, <4>2 DEF Coherent, Exclusive
      <4>3. CASE Fresh(req'[r].quote)
        BY <4>1, <4>3 DEF Fresh
      <4> QED BY <1>2, <4>1, <4>2, <4>3, QuoteTaken
    <3>4. CASE s = r
      BY <1>2, <2>1, <2>2, <3>1, <3>2, <3>4, QuoteTaken DEF Coherent, Exclusive, Fresh
    <3> QED BY <2>1, <2>2, <3>3, <3>4 DEF Coherent, Exclusive
  <2> QED BY <2>2 DEF Exclusive
<1>3. req' = req \/ \E r \in Requests : Start(r) \/ Advance(r) \/ Fail(r)
  BY DEF Next, Create, DeadlinePasses
<1> QED BY <1>1, <1>2, <1>3

\* What a request has read of the tables stays true until it writes.
LEMMA HoldsRowsStep ==
  ASSUME Coherent, AwardIntegrity, Next, NEW r \in Requests
  PROVE  HoldsRows(r)'
<1>a. /\ req \in [Requests -> Request] /\ req' \in [Requests -> Request]
      /\ quotes \in [Quotes -> QuoteRow]
      /\ HoldsIds(req[r]) /\ HoldsIds(req'[r]) /\ HoldsRows(r)
  BY RequestsStay DEF Coherent, TypeOK
<1>1. ASSUME req'[r] = req[r],
             req[r].pc \in Submitting => quotes'[req[r].quote].status = "absent"
      PROVE  HoldsRows(r)'
  <2>1. req[r].pc \in Submitting => rfqs'[req[r].rfq].status \notin {"absent", "draft"}
    BY <1>a, RfqsStay DEF HoldsIds, HoldsRows, Published
  <2>2. req[r].pc \in Deciding => quotes'[req[r].quote].rfq = req[r].rfq
    BY <1>a, QuotesStay DEF HoldsIds, HoldsRows, Coherent, RowsBelong
  <2>3. req[r].pc \in {"award_list", "award_reject"} =>
          quotes'[req[r].quote].status \in {"accepted", "rejected", "withdrawn"}
    BY <1>a, QuotesStay DEF HoldsIds, HoldsRows, Deciding, Decided
  <2>4. \A q \in req[r].rejecting : quotes'[q].rfq = req[r].rfq
    <3>1. \A q \in req[r].rejecting : q \in Quotes /\ req[r].rfq \in Rfqs
      BY <1>a DEF HoldsIds, Deciding, Request
    <3> QED BY <1>a, <3>1, QuotesStay DEF HoldsRows, Coherent, RowsBelong
  <2> QED BY <1>1, <2>1, <2>2, <2>3, <2>4 DEF HoldsRows, Published, Decided
<1>2. CASE \E s \in Requests \ {r} : Start(s) \/ Advance(s) \/ Fail(s)
  <2>1. PICK s \in Requests \ {r} : Start(s) \/ Advance(s) \/ Fail(s)
    BY <1>2
  <2>2. req'[r] = req[r]
    BY <1>a, <2>1, RequestMoves
  <2>3. ASSUME req[r].pc \in Submitting PROVE quotes'[req[r].quote] = quotes[req[r].quote]
    <3>1. /\ req[r].quote \in Quotes /\ quotes[req[r].quote].status = "absent"
          /\ req[s].quote # req[r].quote
      BY <1>a, <2>1, <2>3 DEF HoldsIds, HoldsRows, Coherent, Exclusive
    <3> QED BY <1>a, <2>1, <3>1, QuoteMoves DEF SubmitInsert, SetQuoteStatus
  <2> QED BY <1>1, <1>a, <2>2, <2>3 DEF HoldsRows
<1>3. CASE \E f \in Rfqs : Create(f) \/ DeadlinePasses(f)
  BY <1>1, <1>3, <1>a DEF Create, DeadlinePasses, HoldsRows
<1>4. CASE Return(r)
  BY <1>a, <1>4 DEF Return, Idle, HoldsRows, Submitting, Deciding
<1>5. CASE Start(r)
  <2>1. ASSUME NEW f \in Rfqs, NEW v \in Vendors, NEW q \in Quotes, SubmitRead(r, f, v, q)
        PROVE  HoldsRows(r)'
    BY <1>a, <2>1 DEF SubmitRead, Idle, HoldsRows, Submitting, Deciding, Fresh, Published
  <2>2. ASSUME NEW f \in Rfqs, NEW q \in Quotes, AwardRead(r, f, q) PROVE HoldsRows(r)'
    BY <1>a, <2>2 DEF AwardRead, Idle, HoldsRows, Submitting, Deciding
  <2>3. ASSUME NEW q \in Quotes, WithdrawRead(r, q) PROVE HoldsRows(r)'
    BY <1>a, <2>3 DEF WithdrawRead, Idle, HoldsRows, Submitting, Deciding
  <2>4. ASSUME NEW f \in Rfqs, UpdateRead(r, f) PROVE HoldsRows(r)'
    <3>1. req'[r].pc = "update" /\ req'[r].rejecting = {}
      BY <1>a, <2>4 DEF UpdateRead, Idle
    <3> QED BY <3>1 DEF HoldsRows, Submitting, Deciding
  <2>6. ASSUME NEW f \in Rfqs, NEW to, StatusRead(r, f, to) PROVE HoldsRows(r)'
    <3>1. req'[r].pc = "status" /\ req'[r].rejecting = {}
      BY <1>a, <2>6 DEF StatusRead, Idle
    <3> QED BY <3>1 DEF HoldsRows, Submitting, Deciding
  <2>5. CASE ExpireList(r)
    <3>1. req'[r].pc = "expire" /\ req'[r].rejecting = {}
      BY <1>a, <2>5 DEF ExpireList, Idle
    <3> QED BY <3>1 DEF HoldsRows, Submitting, Deciding
  <2> QED
    BY <1>5, <2>1, <2>2, <2>3, <2>4, <2>5, <2>6 DEF Start, PublishRead, CloseRead, CancelRead
<1>6. CASE Advance(r)
  <2>0. ASSUME NEW to, req' = [req EXCEPT ![r].pc = to], UNCHANGED <<rfqs, quotes>>,
               \/ req[r].pc = "submit_check" /\ to = "submit_insert"
               \/ req[r].pc = "withdraw_check" /\ to = "withdraw"
        PROVE  HoldsRows(r)'
    BY <1>a, <2>0 DEF HoldsRows, Submitting, Deciding, Published
  <2>1. CASE SubmitCheck(r)
    BY <1>4, <2>0, <2>1, Branches DEF SubmitCheck, At
  <2>2. CASE WithdrawCheck(r)
    BY <1>4, <2>0, <2>2, Branches DEF WithdrawCheck, At
  <2>3. CASE AwardAccept(r)
    <3>1. req[r].quote \in Quotes /\ quotes[req[r].quote].rfq = req[r].rfq /\ req[r].rejecting = {}
      BY <1>a, <2>3 DEF AwardAccept, At, HoldsIds, HoldsRows, Deciding
    <3> QED BY <1>a, <2>3, <3>1
            DEF AwardAccept, SetQuoteStatus, HoldsRows, Submitting, Deciding, Decided, QuoteRow
  <2>4. CASE AwardList(r)
    BY <1>a, <2>4 DEF AwardList, Losers, At, HoldsRows, Submitting, Deciding, Decided
  <2>5. ASSUME NEW q \in Quotes, AwardReject(r, q) PROVE HoldsRows(r)'
    <3>1. /\ req'[r].pc = "award_reject" /\ req'[r].quote = req[r].quote /\ req'[r].rfq = req[r].rfq
          /\ req'[r].rejecting \subseteq req[r].rejecting
          /\ req[r].pc = "award_reject"
      BY <1>a, <2>5 DEF AwardReject, At
    <3>2. /\ req[r].rfq \in Rfqs /\ req[r].quote \in Quotes /\ Decided(req[r].quote)
          /\ quotes[req[r].quote].rfq = req[r].rfq
          /\ req[r].rejecting \subseteq Quotes
          /\ \A p \in req[r].rejecting : quotes[p].rfq = req[r].rfq
      BY <1>a, <3>1 DEF HoldsIds, HoldsRows, Deciding, Request
    <3>3. \A p \in Quotes : quotes[p].rfq = req[r].rfq => quotes'[p].rfq = req[r].rfq
      BY <3>2, QuotesStay DEF Coherent, RowsBelong
    <3>4. Decided(req[r].quote)'
      BY <3>1, <3>2, QuotesStay DEF Decided
    <3> QED BY <3>1, <3>2, <3>3, <3>4 DEF HoldsRows, Submitting, Decided
  <2>6. ASSUME NEW f \in Rfqs, ExpireWrite(r, f), ~Return(r) PROVE HoldsRows(r)'
    <3>1. req[r].pc = "expire" /\ req'[r].pc = "expire" /\ req'[r].rejecting = req[r].rejecting
      <4>1. req' = [req EXCEPT ![r].expiring = req[r].expiring \ {f}] /\ req[r].pc = "expire"
        BY <2>6, Branches DEF ExpireWrite, At
      <4> QED BY <1>a, <4>1
    <3> QED BY <1>a, <3>1 DEF HoldsIds, HoldsRows, Submitting, Deciding
  <2> QED
    BY <1>4, <1>6, <2>1, <2>2, <2>3, <2>4, <2>5, <2>6
       DEF Advance, UpdateWrite, StatusWrite, SubmitInsert, WithdrawWrite, AwardFinish
<1>7. CASE Fail(r)
  BY <1>4, <1>7 DEF Fail
<1> QED BY <1>2, <1>3, <1>5, <1>6, <1>7 DEF Next

LEMMA CoherentStep ==
  ASSUME Coherent, AwardIntegrity, Next
  PROVE  Coherent'
BY TypeStep, QuotesStay, RequestsStay, HoldsRowsStep, ExclusiveStep DEF Coherent

\* A request that starts is not yet past accepting a quote.
LEMMA StartRejectsNothing ==
  ASSUME Coherent, NEW r \in Requests, Start(r)
  PROVE  req'[r].rejecting = {} /\ req'[r].pc \notin {"award_list", "award_reject"}
<1>a. req \in [Requests -> Request]
  BY DEF Coherent, TypeOK
<1>1. CASE ExpireList(r)
  BY <1>a, <1>1 DEF ExpireList, Idle
<1>2. ASSUME NEW f \in Rfqs, UpdateRead(r, f)
      PROVE  req'[r].rejecting = {} /\ req'[r].pc \notin {"award_list", "award_reject"}
  BY <1>a, <1>2 DEF UpdateRead, Idle
<1>6. ASSUME NEW f \in Rfqs, NEW to, StatusRead(r, f, to)
      PROVE  req'[r].rejecting = {} /\ req'[r].pc \notin {"award_list", "award_reject"}
  BY <1>a, <1>6 DEF StatusRead, Idle
<1>3. ASSUME NEW f \in Rfqs, NEW v \in Vendors, NEW q \in Quotes, SubmitRead(r, f, v, q)
      PROVE  req'[r].rejecting = {} /\ req'[r].pc \notin {"award_list", "award_reject"}
  BY <1>a, <1>3 DEF SubmitRead, Idle
<1>4. ASSUME NEW f \in Rfqs, NEW q \in Quotes, AwardRead(r, f, q)
      PROVE  req'[r].rejecting = {} /\ req'[r].pc \notin {"award_list", "award_reject"}
  BY <1>a, <1>4 DEF AwardRead, Idle
<1>5. ASSUME NEW q \in Quotes, WithdrawRead(r, q)
      PROVE  req'[r].rejecting = {} /\ req'[r].pc \notin {"award_list", "award_reject"}
  BY <1>a, <1>5 DEF WithdrawRead, Idle
<1> QED
  BY <1>1, <1>2, <1>3, <1>4, <1>5, <1>6 DEF Start, PublishRead, CloseRead, CancelRead

\* Undisputed quotes stay undisputed: a request only rejects a quote it has
\* listed, and only lists quotes that are still submitted.
LEMMA UndisputedStay ==
  ASSUME Coherent, Next, NEW f \in Rfqs, NEW q \in Undisputed(f)
  PROVE  q \in Undisputed(f)'
<1>a. /\ quotes \in [Quotes -> QuoteRow] /\ req \in [Requests -> Request]
      /\ q \in Quotes /\ quotes[q].rfq = f /\ quotes[q].status \in {"accepted", "withdrawn"}
      /\ \A r \in Requests : q \notin req[r].rejecting
  BY DEF Coherent, TypeOK, Undisputed
<1>1. quotes'[q].rfq = f
  BY <1>a, QuotesStay
<1>2. CASE \E r \in Requests : Start(r) \/ Advance(r) \/ Fail(r)
  <2>1. PICK r \in Requests : Start(r) \/ Advance(r) \/ Fail(r)
    BY <1>2
  <2>2. quotes'[q].status \in {"accepted", "withdrawn"}
    <3>1. CASE quotes' = quotes
      BY <1>a, <3>1
    <3>2. CASE SubmitInsert(r)
      BY <1>a, <3>2 DEF SubmitInsert, At, Coherent, HoldsRows, Submitting
    <3>3. ASSUME NEW p \in Quotes, NEW status \in {"accepted", "rejected", "withdrawn"},
                 SetQuoteStatus(p, status), status = "rejected" => p \in req[r].rejecting
          PROVE  quotes'[q].status \in {"accepted", "withdrawn"}
      BY <1>a, <3>3 DEF SetQuoteStatus, QuoteRow
    <3> QED BY <2>1, <3>1, <3>2, <3>3, QuoteMoves
  <2>3. q \notin req'[r].rejecting
    <3>1. CASE Return(r)
      BY <1>a, <3>1 DEF Return, Idle
    <3>2. CASE Start(r)
      BY <3>2, StartRejectsNothing
    <3>3. CASE SubmitCheck(r)
      <4>1. CASE req' = [req EXCEPT ![r].pc = "submit_insert"]
        BY <1>a, <4>1
      <4> QED BY <3>1, <3>3, <4>1, Branches
    <3>4. CASE WithdrawCheck(r)
      <4>1. CASE req' = [req EXCEPT ![r].pc = "withdraw"]
        BY <1>a, <4>1
      <4> QED BY <3>1, <3>4, <4>1, Branches
    <3>5. CASE AwardAccept(r)
      BY <1>a, <3>5 DEF AwardAccept
    <3>6. CASE AwardList(r)
      <4>1. q \notin Losers(req[r].rfq, req[r].quote)
        BY <1>a DEF Losers
      <4> QED BY <1>a, <3>6, <4>1 DEF AwardList
    <3>7. ASSUME NEW p \in Quotes, AwardReject(r, p) PROVE q \notin req'[r].rejecting
      BY <1>a, <3>7 DEF AwardReject
    <3>8. ASSUME NEW g \in Rfqs, ExpireWrite(r, g) PROVE q \notin req'[r].rejecting
      <4>1. CASE req' = [req EXCEPT ![r].expiring = req[r].expiring \ {g}]
        BY <1>a, <4>1
      <4> QED BY <3>1, <3>8, <4>1, Branches
    <3> QED
      BY <2>1, <3>1, <3>2, <3>3, <3>4, <3>5, <3>6, <3>7, <3>8
         DEF Advance, Fail, UpdateWrite, StatusWrite, SubmitInsert, WithdrawWrite, AwardFinish
  <2>4. \A s \in Requests : q \notin req'[s].rejecting
    BY <1>a, <2>1, <2>3, RequestMoves
  <2> QED BY <1>1, <1>a, <2>2, <2>4 DEF Undisputed
<1>3. CASE \E g \in Rfqs : Create(g) \/ DeadlinePasses(g)
  BY <1>3, <1>a DEF Create, DeadlinePasses, Undisputed
<1> QED BY <1>2, <1>3 DEF Next

\* An RFQ comes to be contested only when an award accepts a quote of it, and
\* that quote is then undisputed.
LEMMA WinnerKeptStep ==
  ASSUME Coherent, WinnerKept, Next
  PROVE  WinnerKept'
<1> SUFFICES ASSUME NEW f \in Rfqs, Contested(f)', ~Contested(f)
             PROVE  Undisputed(f)' # {}
  <2>1. ASSUME NEW f \in Rfqs, Contested(f) PROVE Undisputed(f)' # {}
    BY <2>1, UndisputedStay DEF WinnerKept
  <2> QED BY <2>1 DEF WinnerKept
<1>a. /\ quotes \in [Quotes -> QuoteRow] /\ req \in [Requests -> Request]
      /\ req' \in [Requests -> Request]
      /\ \A r \in Requests : HoldsIds(req[r]) /\ HoldsRows(r) /\ HoldsIds(req'[r])
  BY RequestsStay DEF Coherent, TypeOK
<1>b. /\ \A r \in Requests : req[r].pc \in {"award_list", "award_reject"} => req[r].rfq # f
      /\ \A q \in Quotes : quotes[q].rfq = f => quotes[q].status # "rejected"
  BY DEF Contested
<1>1. PICK r \in Requests : Start(r) \/ Advance(r) \/ Fail(r)
  BY DEF Next, Create, DeadlinePasses, Contested
<1>2. \A s \in Requests \ {r} : req'[s] = req[s]
  BY <1>a, <1>1, RequestMoves
<1>3. ASSUME NEW q \in Quotes, quotes'[q].rfq = f, quotes'[q].status = "rejected"
      PROVE  FALSE
  <2>1. CASE quotes' = quotes
    BY <1>3, <1>b, <2>1
  <2>2. CASE SubmitInsert(r)
    BY <1>a, <1>3, <1>b, <2>2 DEF SubmitInsert, QuoteRow
  <2>3. ASSUME NEW p \in Quotes, NEW status \in {"accepted", "rejected", "withdrawn"},
               SetQuoteStatus(p, status), status = "rejected" => p \in req[r].rejecting
        PROVE  FALSE
    <3>1. quotes[q].rfq = f /\ p = q /\ status = "rejected"
      BY <1>a, <1>3, <1>b, <2>3 DEF SetQuoteStatus, QuoteRow
    <3>2. req[r].pc = "award_reject" /\ req[r].rfq = f
      BY <1>a, <2>3, <3>1 DEF HoldsIds, HoldsRows
    <3> QED BY <1>b, <3>2
  <2> QED BY <1>1, <2>1, <2>2, <2>3, QuoteMoves
<1>4. req'[r].pc \in {"award_list", "award_reject"} /\ req'[r].rfq = f
  BY <1>2, <1>3, <1>b DEF Contested
<1>5. AwardAccept(r)
  <2>1. CASE Return(r)
    BY <1>a, <1>4, <2>1 DEF Return, Idle
  <2>2. CASE Start(r)
    BY <1>4, <2>2, StartRejectsNothing
  <2>3. CASE SubmitCheck(r)
    <3>1. CASE req' = [req EXCEPT ![r].pc = "submit_insert"]
      BY <1>a, <1>4, <3>1
    <3> QED BY <2>1, <2>3, <3>1, Branches
  <2>4. CASE WithdrawCheck(r)
    <3>1. CASE req' = [req EXCEPT ![r].pc = "withdraw"]
      BY <1>a, <1>4, <3>1
    <3> QED BY <2>1, <2>4, <3>1, Branches
  <2>5. CASE AwardList(r)
    BY <1>a, <1>b, <1>4, <2>5 DEF AwardList, At
  <2>6. ASSUME NEW p \in Quotes, AwardReject(r, p) PROVE FALSE
    BY <1>a, <1>b, <1>4, <2>6 DEF AwardReject, At
  <2>7. ASSUME NEW g \in Rfqs, ExpireWrite(r, g) PROVE FALSE
    <3>1. CASE req' = [req EXCEPT ![r].expiring = req[r].expiring \ {g}]
      BY <1>a, <1>4, <2>7, <3>1 DEF ExpireWrite, At
    <3> QED BY <1>a, <1>4, <2>1, <2>7, <3>1, Branches DEF Return, Idle
  <2> QED
    BY <1>1, <2>1, <2>2, <2>3, <2>4, <2>5, <2>6, <2>7
       DEF Advance, Fail, UpdateWrite, StatusWrite, SubmitInsert, WithdrawWrite, AwardFinish
<1>6. req[r].quote \in Undisputed(f)'
  <2>1. /\ req[r].quote \in Quotes /\ quotes[req[r].quote].rfq = req[r].rfq
        /\ req'[r].rfq = req[r].rfq /\ req'[r].rejecting = req[r].rejecting
        /\ req[r].rejecting = {}
    BY <1>a, <1>5 DEF AwardAccept, At, HoldsIds, HoldsRows, Deciding
  <2>2. quotes'[req[r].quote].status = "accepted" /\ quotes'[req[r].quote].rfq = f
    BY <1>a, <1>4, <1>5, <2>1 DEF AwardAccept, SetQuoteStatus, QuoteRow
  <2>3. \A s \in Requests : req[r].quote \notin req[s].rejecting
    BY <1>a, <1>b, <1>4, <2>1 DEF HoldsIds, HoldsRows
  <2> QED BY <1>2, <2>1, <2>2, <2>3 DEF Undisputed
<1> QED BY <1>6

LEMMA AwardIntegrityStep ==
  ASSUME Coherent, AwardIntegrity, Next
  PROVE  AwardIntegrity'
<1>a. rfqs \in [Rfqs -> RfqRow] /\ rfqs' \in [Rfqs -> RfqRow] /\ quotes \in [Quotes -> QuoteRow]
  BY RfqsStay DEF Coherent, TypeOK
<1> SUFFICES ASSUME NEW f \in Rfqs
             PROVE  /\ rfqs'[f].status = "awarded" => rfqs'[f].awarded # Nil
                    /\ rfqs'[f].awarded # Nil =>
                         /\ quotes'[rfqs'[f].awarded].rfq = f
                         /\ quotes'[rfqs'[f].awarded].status \in {"accepted", "rejected", "withdrawn"}
  BY DEF AwardIntegrity
<1>1. RowFits(f, rfqs'[f])
  <2>1. RowFits(f, rfqs[f])
    BY DEF AwardIntegrity, Decided, RowFits, Published
  <2> QED BY <1>a, <2>1, RfqMoves
<1>2. ASSUME rfqs'[f].awarded # Nil
      PROVE  /\ quotes'[rfqs'[f].awarded].rfq = f
             /\ quotes'[rfqs'[f].awarded].status \in {"accepted", "rejected", "withdrawn"}
  <2>1. rfqs'[f].awarded \in Quotes
    BY <1>a, <1>2 DEF RfqRow
  <2>2. quotes[rfqs'[f].awarded].rfq = f /\ Decided(rfqs'[f].awarded)
    BY <1>1, <1>2 DEF RowFits
  <2>3. quotes[rfqs'[f].awarded].status # "absent"
    BY <2>2 DEF Decided
  <2>4. \A q \in Quotes : Decided(q) => quotes'[q].status \in {"accepted", "rejected", "withdrawn"}
    BY QuotesStay DEF Decided
  <2> QED BY <2>1, <2>2, <2>3, <2>4, QuotesStay
<1> QED BY <1>1, <1>2 DEF RowFits

LEMMA QuotedRfqIsPublishedStep ==
  ASSUME Coherent, AwardIntegrity, QuotedRfqIsPublished, Next
  PROVE  QuotedRfqIsPublished'
<1>a. quotes \in [Quotes -> QuoteRow]
  BY DEF Coherent, TypeOK
<1> SUFFICES ASSUME NEW q \in Quotes, quotes'[q].status # "absent"
             PROVE  rfqs'[quotes'[q].rfq].status \notin {"absent", "draft"}
  BY DEF QuotedRfqIsPublished
<1>1. CASE quotes[q].status # "absent"
  <2>1. quotes'[q].rfq = quotes[q].rfq /\ quotes[q].rfq \in Rfqs /\ Published(quotes[q].rfq)
    BY <1>1, QuotesStay DEF QuotedRfqIsPublished, Published, Coherent, RowsBelong
  <2> QED BY <2>1, RfqsStay DEF Published
<1>2. CASE quotes[q].status = "absent"
  <2>1. PICK r \in Requests : Start(r) \/ Advance(r) \/ Fail(r)
    BY <1>2 DEF Next, Create, DeadlinePasses
  <2>2. SubmitInsert(r) /\ q = req[r].quote
    BY <1>a, <1>2, <2>1, QuoteMoves DEF SubmitInsert, SetQuoteStatus, QuoteRow
  <2>3. req[r].rfq \in Rfqs /\ Published(req[r].rfq)
    BY <2>2 DEF SubmitInsert, At, Coherent, HoldsIds, HoldsRows, Submitting
  <2>4. quotes'[q].rfq = req[r].rfq
    BY <1>a, <2>2 DEF SubmitInsert
  <2> QED BY <2>3, <2>4, RfqsStay DEF Published
<1> QED BY <1>1, <1>2

-----------------------------------------------------------------------------
(* The theorems.                                                           *)

LEMMA InitHolds ==
  ASSUME Init
  PROVE  IInv
<1>1. TypeOK
  BY IdleHolds DEF Init, TypeOK, RfqRow, RfqStatus, QuoteRow, QuoteStatus
<1>2. \A r \in Requests : HoldsIds(req[r]) /\ HoldsRows(r)
  BY IdleHolds DEF Init, HoldsRows, Idle, Submitting, Deciding
<1>3. RowsBelong /\ Exclusive /\ QuotedRfqIsPublished
  BY DEF Init, RowsBelong, Exclusive, Idle, Submitting, QuotedRfqIsPublished
<1>4. WinnerKept /\ AwardIntegrity
  BY DEF Init, WinnerKept, Contested, Idle, AwardIntegrity
<1> QED BY <1>1, <1>2, <1>3, <1>4 DEF IInv, Coherent

LEMMA StutterHolds ==
  ASSUME IInv, UNCHANGED vars
  PROVE  IInv'
<1>1. Coherent'
  BY DEF vars, IInv, Coherent, TypeOK, RowsBelong, HoldsIds, HoldsRows, Exclusive, Published, Decided
<1>2. (WinnerKept /\ AwardIntegrity /\ QuotedRfqIsPublished)'
  BY DEF vars, IInv, WinnerKept, Contested, Undisputed, AwardIntegrity, QuotedRfqIsPublished
<1> QED BY <1>1, <1>2 DEF IInv

LEMMA StepHolds ==
  ASSUME IInv, Next
  PROVE  IInv'
BY CoherentStep, WinnerKeptStep, AwardIntegrityStep, QuotedRfqIsPublishedStep DEF IInv

\* Everything the following theorems rest on holds in every reachable state.
THEOREM Invariance == Spec => []IInv
BY InitHolds, StutterHolds, StepHolds, PTL DEF Spec

\* The tables and the requests in flight always have their types.
THEOREM TypeCorrect == Spec => []TypeOK
<1>1. IInv => TypeOK
  BY DEF IInv, Coherent
<1> QED BY <1>1, Invariance, PTL

\* No overlap of awards, withdrawals, retries and failures, by however many
\* requests, leaves an RFQ with a rejected quote and none accepted or withdrawn.
THEOREM SomeQuoteWins == Spec => []RejectionLeavesAWinner
<1>1. IInv => RejectionLeavesAWinner
  <2> SUFFICES ASSUME IInv, NEW q \in Quotes, quotes[q].status = "rejected"
               PROVE  \E w \in Quotes : /\ quotes[w].rfq = quotes[q].rfq
                                        /\ quotes[w].status \in {"accepted", "withdrawn"}
    BY DEF RejectionLeavesAWinner
  <2>1. quotes[q].rfq \in Rfqs /\ Contested(quotes[q].rfq)
    BY DEF IInv, Coherent, RowsBelong, Contested
  <2>2. Undisputed(quotes[q].rfq) # {}
    BY <2>1 DEF IInv, WinnerKept
  <2> QED BY <2>2 DEF Undisputed
<1> QED BY <1>1, Invariance, PTL

\* An awarded RFQ names a quote of its own that was accepted, whatever stale
\* status is written over it.
THEOREM AwardsAreSound == Spec => []AwardIntegrity
<1>1. IInv => AwardIntegrity
  BY DEF IInv
<1> QED BY <1>1, Invariance, PTL

\* An RFQ with quotes never has the status draft.
THEOREM NoQuoteOnADraft == Spec => []QuotedRfqIsPublished
<1>1. IInv => QuotedRfqIsPublished
  BY DEF IInv
<1> QED BY <1>1, Invariance, PTL

-----------------------------------------------------------------------------
(* What no step takes back.                                                *)

\* Only an award writes the awarded quote, and a row that has one is not inserted.
LEMMA RfqsLast ==
  ASSUME IInv, Next, NEW f \in Rfqs
  PROVE  /\ rfqs[f].status # "absent" => rfqs'[f].status # "absent"
         /\ rfqs[f].awarded # Nil => rfqs'[f].awarded # Nil
<1>a. /\ rfqs \in [Rfqs -> RfqRow] /\ req \in [Requests -> Request]
      /\ \A r \in Requests : HoldsIds(req[r])
  BY DEF IInv, Coherent, TypeOK
<1>1. ASSUME NEW g \in Rfqs, Create(g)
      PROVE  f = g => rfqs[f].status = "absent" /\ rfqs[f].awarded = Nil
  <2>1. ASSUME f = g, rfqs[f].awarded # Nil PROVE FALSE
    <3>1. rfqs[f].awarded \in Quotes /\ quotes[rfqs[f].awarded].rfq = f
          /\ quotes[rfqs[f].awarded].status # "absent"
      BY <1>a, <2>1 DEF IInv, AwardIntegrity, RfqRow
    <3>2. rfqs[f].status # "absent"
      BY <3>1 DEF IInv, QuotedRfqIsPublished
    <3> QED
      BY <1>1, <2>1, <3>2 DEF Create
  <2> QED
    BY <1>1, <2>1 DEF Create
<1>2. ASSUME NEW g \in Rfqs, Create(g) \/ DeadlinePasses(g)
      PROVE  /\ rfqs[f].status # "absent" => rfqs'[f].status # "absent"
             /\ rfqs[f].awarded # Nil => rfqs'[f].awarded # Nil
  <2>1. CASE Create(g)
    <3>1. PICK row : rfqs' = [rfqs EXCEPT ![g] = row]
      BY <2>1 DEF Create
    <3>2. f = g => rfqs[f].status = "absent" /\ rfqs[f].awarded = Nil
      BY <1>1, <2>1
    <3> QED
      BY <1>a, <3>1, <3>2
  <2>2. CASE DeadlinePasses(g)
    BY <1>a, <2>2 DEF DeadlinePasses, RfqRow
  <2> QED
    BY <1>2, <2>1, <2>2
<1>3. ASSUME NEW r \in Requests, Start(r) \/ Fail(r) PROVE rfqs' = rfqs
  BY <1>3 DEF Start, ExpireList, UpdateRead, PublishRead, CloseRead, CancelRead, StatusRead,
              SubmitRead, AwardRead, WithdrawRead, Fail
<1>4. ASSUME NEW r \in Requests, Advance(r)
      PROVE  /\ rfqs[f].status # "absent" => rfqs'[f].status # "absent"
             /\ rfqs[f].awarded # Nil => rfqs'[f].awarded # Nil
  <2>a. req[r] \in Request /\ HoldsIds(req[r])
    BY <1>a
  <2>1. CASE UpdateWrite(r)
    <3>1. PICK vs \in SUBSET Vendors, late \in BOOLEAN :
            rfqs' = [rfqs EXCEPT ![req[r].rfq].invited = vs, ![req[r].rfq].overdue = late]
      BY <2>1 DEF UpdateWrite
    <3> QED
      BY <1>a, <3>1 DEF RfqRow
  <2>2. CASE StatusWrite(r)
    <3>1. req[r].to # "absent"
      BY <2>a DEF Request
    <3> QED
      BY <1>a, <2>2, <3>1 DEF StatusWrite, RfqRow
  <2>3. CASE AwardFinish(r)
    <3>1. req[r].quote \in Quotes /\ req[r].quote # Nil
      BY <2>a, <2>3 DEF AwardFinish, At, HoldsIds, Deciding
    <3> QED
      BY <1>a, <2>3, <3>1 DEF AwardFinish, RfqRow
  <2>4. ASSUME NEW g \in Rfqs, ExpireWrite(r, g)
        PROVE  /\ rfqs[f].status # "absent" => rfqs'[f].status # "absent"
               /\ rfqs[f].awarded # Nil => rfqs'[f].awarded # Nil
    BY <1>a, <2>4 DEF ExpireWrite, RfqRow
  <2>5. CASE \/ SubmitCheck(r) \/ SubmitInsert(r) \/ WithdrawCheck(r) \/ WithdrawWrite(r)
             \/ AwardAccept(r) \/ AwardList(r) \/ \E q \in Quotes : AwardReject(r, q)
    BY <2>5 DEF SubmitCheck, SubmitInsert, WithdrawCheck, WithdrawWrite, AwardAccept, AwardList,
                AwardReject
  <2> QED
    BY <1>4, <2>1, <2>2, <2>3, <2>4, <2>5 DEF Advance
<1> QED
  BY <1>2, <1>3, <1>4 DEF Next

\* A quote keeps its vendor.
LEMMA VendorsLast ==
  ASSUME IInv, Next, NEW q \in Quotes, quotes[q].status # "absent"
  PROVE  quotes'[q].vendor = quotes[q].vendor
<1>a. quotes \in [Quotes -> QuoteRow] /\ Coherent
  BY DEF IInv, Coherent, TypeOK
<1>1. CASE \E f \in Rfqs : Create(f) \/ DeadlinePasses(f)
  BY <1>1 DEF Create, DeadlinePasses
<1>2. ASSUME NEW r \in Requests, Start(r) \/ Advance(r) \/ Fail(r)
      PROVE  quotes'[q].vendor = quotes[q].vendor
  <2>1. CASE SubmitInsert(r)
    BY <1>a, <2>1 DEF SubmitInsert, At, Coherent, HoldsRows, Submitting
  <2>2. ASSUME NEW p \in Quotes, NEW status, SetQuoteStatus(p, status)
        PROVE  quotes'[q].vendor = quotes[q].vendor
    BY <1>a, <2>2 DEF SetQuoteStatus, QuoteRow
  <2> QED
    BY <1>a, <1>2, <2>1, <2>2, QuoteMoves
<1> QED
  BY <1>1, <1>2 DEF Next

\* For any requests, and with failures: no step unpublishes an RFQ, forgets that it was
\* awarded, moves a quote or leaves a decided one undecided, or rejects a quote that is
\* accepted or withdrawn and on no list to reject.
THEOREM NoStepTakesBack == Spec => NothingTakenBack
<1>1. ASSUME IInv, Next PROVE TakesNothingBack
  <2>1. Coherent /\ AwardIntegrity
    BY <1>1 DEF IInv
  <2>2. ASSUME NEW f \in Rfqs
        PROVE  /\ Published(f) => Published(f)'
               /\ Undisputed(f) \subseteq Undisputed(f)'
    BY <1>1, <2>1, RfqsStay, UndisputedStay
  <2>3. ASSUME NEW q \in Quotes
        PROVE  /\ quotes[q].status # "absent" => quotes'[q].rfq = quotes[q].rfq
               /\ Decided(q) => Decided(q)'
    BY <1>1, <2>1, QuotesStay
  <2> QED
    BY <1>1, <2>2, <2>3, RfqsLast, VendorsLast DEF TakesNothingBack
<1> QED
  <2>1. TakesNothingBack \/ UNCHANGED vars => [TakesNothingBack]_vars
    OBVIOUS
  <2> QED
    BY <1>1, <2>1, Invariance, PTL DEF Spec, NothingTakenBack

-----------------------------------------------------------------------------
(* One request at a time.                                                  *)

\* Requests do not overlap, and no statement fails.
Serial == ~MayFail /\ \A r, s \in Requests : r = s

-----------------------------------------------------------------------------
(* What a request has read still holds when it writes.                       *)

MayMove(row, to) ==
  \/ to = "open" /\ row.status = "draft" /\ row.invited # {}
  \/ to = "closed" /\ row.status = "open"
  \/ to = "cancelled" /\ row.status \in {"draft", "open", "closed", "expired"}

\* The checks that a request has made, as they stand while it is alone.
Ready(r) ==
  /\ At(r, "update") => rfqs[req[r].rfq].status = "draft"
  /\ At(r, "status") => MayMove(rfqs[req[r].rfq], req[r].to)
  /\ req[r].pc \in Submitting =>
       rfqs[req[r].rfq].status = "open" /\ req[r].vendor \in rfqs[req[r].rfq].invited
  /\ At(r, "submit_insert") => ~HasQuoted(req[r].rfq, req[r].vendor)
  /\ req[r].pc \in {"withdraw_check", "withdraw"} => quotes[req[r].quote].status = "submitted"
  /\ At(r, "withdraw") => rfqs[req[r].rfq].status = "open"
  /\ req[r].pc \in {"award_accept", "award_list", "award_reject"} =>
       rfqs[req[r].rfq].status \in {"open", "closed"}
  /\ Awarding(r) => quotes[req[r].quote].status = "accepted"
  /\ At(r, "award_reject") => req[r].rejecting = Losers(req[r].rfq, req[r].quote)
  /\ At(r, "expire") => \A f \in req[r].expiring : rfqs[f].status = "open" /\ rfqs[f].overdue

Blank == \A f \in Rfqs : rfqs[f].status = "absent" => rfqs[f].overdue = FALSE /\ rfqs[f].awarded = Nil

SerialInv == IInv /\ Blank /\ \A r \in Requests : Ready(r)

LEMMA Known ==
  ASSUME IInv
  PROVE  /\ rfqs \in [Rfqs -> RfqRow] /\ quotes \in [Quotes -> QuoteRow]
         /\ req \in [Requests -> Request]
         /\ \A r \in Requests : HoldsIds(req[r]) /\ HoldsRows(r)
         /\ RowsBelong
BY DEF IInv, Coherent, TypeOK

LEMMA IdleReady ==
  ASSUME NEW r \in Requests, req'[r].pc = "idle"
  PROVE  Ready(r)'
BY DEF Ready, At, Awarding, Submitting

\* A step that leaves the requests and the quotes alone, and of the RFQs the
\* status and the vendors, leaves a request ready.
LEMMA RowsReady ==
  ASSUME IInv, NEW r \in Requests, Ready(r), req' = req, quotes' = quotes,
         \A f \in Rfqs : rfqs[f].status # "absent" =>
           /\ rfqs'[f].status = rfqs[f].status /\ rfqs'[f].invited = rfqs[f].invited
           /\ rfqs[f].overdue => rfqs'[f].overdue
  PROVE  Ready(r)'
<1>1. /\ req[r] \in Request /\ HoldsIds(req[r])
  BY Known
<1>2. req[r].pc \in {"update", "status"} \cup Submitting \cup Deciding => req[r].rfq \in Rfqs
  BY <1>1 DEF HoldsIds
<1>3. At(r, "status") => MayMove(rfqs'[req[r].rfq], req[r].to)
  BY <1>2 DEF Ready, At, MayMove
<1>4. /\ At(r, "update") => rfqs'[req[r].rfq].status = "draft"
      /\ req[r].pc \in Submitting =>
           rfqs'[req[r].rfq].status = "open" /\ req[r].vendor \in rfqs'[req[r].rfq].invited
      /\ At(r, "withdraw") => rfqs'[req[r].rfq].status = "open"
      /\ req[r].pc \in {"award_accept", "award_list", "award_reject"} =>
           rfqs'[req[r].rfq].status \in {"open", "closed"}
  BY <1>2 DEF Ready, At, Deciding
<1>5. At(r, "expire") => \A f \in req[r].expiring : rfqs'[f].status = "open" /\ rfqs'[f].overdue
  BY <1>1 DEF Ready, At, Request
<1>6. At(r, "submit_insert") => ~HasQuoted(req[r].rfq, req[r].vendor)'
  BY DEF Ready, At, HasQuoted
<1>7. At(r, "award_reject") => req[r].rejecting = Losers(req[r].rfq, req[r].quote)'
  BY DEF Ready, At, Losers
<1> QED
  BY <1>3, <1>4, <1>5, <1>6, <1>7 DEF Ready, At, Awarding, HasQuoted, Losers, MayMove

\* A request that starts has just read what it checks.
LEMMA StartReady ==
  ASSUME IInv, Blank, NEW r \in Requests, Start(r)
  PROVE  /\ Ready(r)'
         /\ rfqs' = rfqs /\ quotes' = quotes
         /\ req[r].pc = "idle" /\ req'[r].pc \notin {"award_list", "award_reject"}
<1>k. /\ rfqs \in [Rfqs -> RfqRow] /\ quotes \in [Quotes -> QuoteRow]
      /\ req \in [Requests -> Request] /\ RowsBelong
  BY Known
<1>0. /\ rfqs' = rfqs /\ quotes' = quotes /\ req[r].pc = "idle"
  BY DEF Start, ExpireList, UpdateRead, PublishRead, CloseRead, CancelRead, StatusRead,
         SubmitRead, AwardRead, WithdrawRead, At
<1> DEFINE Fine == Ready(r)' /\ req'[r].pc \notin {"award_list", "award_reject"}
<1>1. CASE ExpireList(r)
  BY <1>k, <1>0, <1>1 DEF ExpireList, Idle, Ready, At, Awarding, Submitting
<1>2. ASSUME NEW f \in Rfqs, UpdateRead(r, f) PROVE Fine
  BY <1>k, <1>0, <1>2 DEF UpdateRead, Idle, Ready, At, Awarding, Submitting
<1>3. ASSUME NEW f \in Rfqs, NEW to, StatusRead(r, f, to), MayMove(rfqs[f], to) PROVE Fine
  <2>1. req'[r].pc = "status" /\ req'[r].rfq = f /\ req'[r].to = to
    BY <1>k, <1>3 DEF StatusRead, Idle
  <2> QED
    BY <1>0, <1>3, <2>1 DEF Ready, At, Awarding, Submitting, MayMove
<1>4. ASSUME NEW f \in Rfqs, PublishRead(r, f) \/ CloseRead(r, f) \/ CancelRead(r, f) PROVE Fine
  <2>1. rfqs[f].status \in RfqStatus \cup {"absent"}
    BY <1>k DEF RfqRow
  <2>2. CASE PublishRead(r, f)
    BY <1>3, <2>2 DEF PublishRead, MayMove
  <2>3. CASE CloseRead(r, f)
    BY <1>3, <2>3 DEF CloseRead, MayMove
  <2>4. CASE CancelRead(r, f)
    BY <1>3, <2>1, <2>4 DEF CancelRead, MayMove, RfqStatus
  <2> QED
    BY <1>4, <2>2, <2>3, <2>4
<1>5. ASSUME NEW f \in Rfqs, NEW v \in Vendors, NEW q \in Quotes, SubmitRead(r, f, v, q) PROVE Fine
  BY <1>k, <1>0, <1>5 DEF SubmitRead, Idle, Ready, At, Awarding, Submitting
<1>6. ASSUME NEW f \in Rfqs, NEW q \in Quotes, AwardRead(r, f, q) PROVE Fine
  BY <1>k, <1>0, <1>6 DEF AwardRead, Idle, Ready, At, Awarding, Submitting
<1>7. ASSUME NEW q \in Quotes, WithdrawRead(r, q) PROVE Fine
  BY <1>k, <1>0, <1>7 DEF WithdrawRead, Idle, Ready, At, Awarding, Submitting
<1> QED
  BY <1>0, <1>1, <1>2, <1>4, <1>5, <1>6, <1>7 DEF Start

\* The rows that a step writes are not blank.
LEMMA BlankKept ==
  ASSUME Blank, \A f \in Rfqs : rfqs'[f] = rfqs[f] \/ rfqs'[f].status # "absent"
  PROVE  Blank'
BY DEF Blank

LEMMA AdvanceReady ==
  ASSUME SerialInv, Serial, NEW r \in Requests, Advance(r)
  PROVE  Ready(r)' /\ Blank'
<1>k. /\ rfqs \in [Rfqs -> RfqRow] /\ quotes \in [Quotes -> QuoteRow]
      /\ req \in [Requests -> Request] /\ RowsBelong
      /\ HoldsIds(req[r]) /\ HoldsRows(r) /\ Ready(r) /\ Blank
  BY Known DEF SerialInv
<1>r. ASSUME Return(r) PROVE Ready(r)'
  <2>1. req'[r].pc = "idle"
    BY <1>k, <1>r DEF Return, Idle
  <2> QED
    BY <2>1, IdleReady
<1>b. ASSUME rfqs' = rfqs PROVE Blank'
  BY <1>b, <1>k, BlankKept
<1>1. CASE UpdateWrite(r)
  <2>1. req[r].rfq \in Rfqs /\ rfqs[req[r].rfq].status = "draft"
    BY <1>k, <1>1 DEF UpdateWrite, HoldsIds, Ready, At
  <2>2. \A f \in Rfqs : rfqs'[f] = rfqs[f] \/ rfqs'[f].status # "absent"
    BY <1>k, <1>1, <2>1 DEF UpdateWrite, RfqRow
  <2> QED
    BY <1>k, <1>r, <1>1, <2>2, BlankKept DEF UpdateWrite
<1>2. CASE StatusWrite(r)
  <2>1. req[r].rfq \in Rfqs /\ req[r].to # "absent"
    BY <1>k, <1>2 DEF StatusWrite, HoldsIds, At, Request
  <2>2. \A f \in Rfqs : rfqs'[f] = rfqs[f] \/ rfqs'[f].status # "absent"
    BY <1>k, <1>2, <2>1 DEF StatusWrite, RfqRow
  <2> QED
    BY <1>k, <1>r, <1>2, <2>2, BlankKept DEF StatusWrite
<1>3. CASE SubmitInsert(r) \/ WithdrawWrite(r)
  BY <1>r, <1>b, <1>3 DEF SubmitInsert, WithdrawWrite
<1>4. CASE SubmitCheck(r)
  <2>1. rfqs' = rfqs /\ quotes' = quotes /\ req[r].pc = "submit_check"
    BY <1>4 DEF SubmitCheck, At
  <2>2. CASE HasQuoted(req[r].rfq, req[r].vendor)
    BY <1>r, <1>b, <1>4, <2>1, <2>2 DEF SubmitCheck
  <2>3. CASE ~HasQuoted(req[r].rfq, req[r].vendor)
    <3>1. req' = [req EXCEPT ![r].pc = "submit_insert"]
      BY <1>4, <2>3 DEF SubmitCheck
    <3>2. req'[r].pc = "submit_insert" /\ req'[r].rfq = req[r].rfq /\ req'[r].vendor = req[r].vendor
      BY <1>k, <3>1
    <3>3. rfqs[req[r].rfq].status = "open" /\ req[r].vendor \in rfqs[req[r].rfq].invited
      BY <1>k, <2>1 DEF Ready, Submitting
    <3>4. ~\E q \in Quotes : quotes'[q].rfq = req'[r].rfq /\ quotes'[q].vendor = req'[r].vendor
      BY <2>1, <2>3, <3>2 DEF HasQuoted
    <3>5. Ready(r)'
      BY <2>1, <3>2, <3>3, <3>4 DEF Ready, At, Awarding, Submitting, HasQuoted
    <3> QED
      BY <1>b, <2>1, <3>5
  <2> QED
    BY <2>2, <2>3
<1>5. CASE WithdrawCheck(r)
  <2>1. rfqs' = rfqs /\ quotes' = quotes /\ req[r].pc = "withdraw_check"
    BY <1>5 DEF WithdrawCheck, At
  <2>2. CASE rfqs[req[r].rfq].status # "open"
    BY <1>r, <1>b, <1>5, <2>1, <2>2 DEF WithdrawCheck
  <2>3. CASE rfqs[req[r].rfq].status = "open"
    <3>1. req' = [req EXCEPT ![r].pc = "withdraw"]
      BY <1>5, <2>3 DEF WithdrawCheck
    <3>2. req'[r].pc = "withdraw" /\ req'[r].rfq = req[r].rfq /\ req'[r].quote = req[r].quote
      BY <1>k, <3>1
    <3>3. Ready(r)'
      BY <1>k, <2>1, <2>3, <3>2 DEF Ready, At, Awarding, Submitting
    <3> QED
      BY <1>b, <2>1, <3>3
  <2> QED
    BY <2>2, <2>3
<1>6. CASE AwardAccept(r)
  <2>1. /\ rfqs' = rfqs /\ req[r].pc = "award_accept"
        /\ req' = [req EXCEPT ![r].pc = "award_list"]
        /\ quotes' = [quotes EXCEPT ![req[r].quote].status = "accepted"]
    BY <1>6 DEF AwardAccept, SetQuoteStatus, At
  <2>2. req'[r].pc = "award_list" /\ req'[r].rfq = req[r].rfq /\ req'[r].quote = req[r].quote
    BY <1>k, <2>1
  <2>3. req[r].quote \in Quotes
    BY <1>k, <2>1 DEF HoldsIds, Deciding
  <2>4. quotes'[req[r].quote].status = "accepted"
    BY <1>k, <2>1, <2>3 DEF QuoteRow
  <2>5. Ready(r)'
    BY <1>k, <2>1, <2>2, <2>4 DEF Ready, At, Awarding, Submitting
  <2> QED
    BY <1>b, <2>1, <2>5
<1>7. CASE AwardList(r)
  <2>1. /\ rfqs' = rfqs /\ quotes' = quotes /\ req[r].pc = "award_list"
        /\ req' = [req EXCEPT ![r].pc = "award_reject",
                              ![r].rejecting = Losers(req[r].rfq, req[r].quote)]
    BY <1>7 DEF AwardList, At, Serial
  <2>2. /\ req'[r].pc = "award_reject" /\ req'[r].rfq = req[r].rfq /\ req'[r].quote = req[r].quote
        /\ req'[r].rejecting = Losers(req[r].rfq, req[r].quote)
    BY <1>k, <2>1
  <2>3. req'[r].rejecting = {p \in Quotes \ {req'[r].quote} :
                               quotes'[p].rfq = req'[r].rfq /\ quotes'[p].status = "submitted"}
    BY <2>1, <2>2 DEF Losers
  <2>4. /\ rfqs'[req'[r].rfq].status \in {"open", "closed"}
        /\ quotes'[req'[r].quote].status = "accepted"
    BY <1>k, <2>1, <2>2 DEF Ready, Awarding
  <2>5. Ready(r)'
    BY <2>2, <2>3, <2>4 DEF Ready, At, Awarding, Submitting, Losers
  <2> QED
    BY <1>b, <2>1, <2>5
<1>8. ASSUME NEW q \in Quotes, AwardReject(r, q) PROVE Ready(r)' /\ Blank'
  <2>1. /\ rfqs' = rfqs /\ req[r].pc = "award_reject" /\ q \in req[r].rejecting
        /\ req' = [req EXCEPT ![r].rejecting = req[r].rejecting \ {q}]
        /\ quotes' = [quotes EXCEPT ![q].status = "rejected"]
    BY <1>8 DEF AwardReject, SetQuoteStatus, At, Serial
  <2>2. /\ req'[r].pc = "award_reject" /\ req'[r].rfq = req[r].rfq /\ req'[r].quote = req[r].quote
        /\ req'[r].rejecting = req[r].rejecting \ {q}
    BY <1>k, <2>1
  <2>3. req[r].rejecting = Losers(req[r].rfq, req[r].quote) /\ req[r].quote \in Quotes
    BY <1>k, <2>1 DEF Ready, At, HoldsIds, Deciding
  <2>4. \A p \in Quotes : /\ quotes'[p].rfq = quotes[p].rfq
                          /\ quotes'[p].status = IF p = q THEN "rejected" ELSE quotes[p].status
    BY <1>k, <2>1 DEF QuoteRow
  <2>5. req'[r].rejecting = {p \in Quotes \ {req'[r].quote} :
                               quotes'[p].rfq = req'[r].rfq /\ quotes'[p].status = "submitted"}
    BY <2>2, <2>3, <2>4 DEF Losers
  <2>6. q # req[r].quote
    BY <2>1, <2>3 DEF Losers
  <2>7. /\ rfqs'[req'[r].rfq].status \in {"open", "closed"}
        /\ quotes'[req'[r].quote].status = "accepted"
    BY <1>k, <2>1, <2>2, <2>3, <2>4, <2>6 DEF Ready, Awarding
  <2>8. Ready(r)'
    BY <2>2, <2>5, <2>7 DEF Ready, At, Awarding, Submitting, Losers
  <2> QED
    BY <1>b, <2>1, <2>8
<1>9. CASE AwardFinish(r)
  <2>1. req[r].rfq \in Rfqs
    BY <1>k, <1>9 DEF AwardFinish, HoldsIds, At, Deciding
  <2>2. \A f \in Rfqs : rfqs'[f] = rfqs[f] \/ rfqs'[f].status # "absent"
    BY <1>k, <1>9, <2>1 DEF AwardFinish, RfqRow
  <2> QED
    BY <1>k, <1>r, <1>9, <2>2, BlankKept DEF AwardFinish
<1>10. ASSUME NEW f \in Rfqs, ExpireWrite(r, f) PROVE Ready(r)' /\ Blank'
  <2>1. /\ req[r].pc = "expire" /\ f \in req[r].expiring
        /\ rfqs' = [rfqs EXCEPT ![f].status = "expired"] /\ quotes' = quotes
    BY <1>10 DEF ExpireWrite, At, Serial
  <2>2. \A g \in Rfqs : IF g = f THEN rfqs'[g].status = "expired" ELSE rfqs'[g] = rfqs[g]
    BY <1>k, <2>1 DEF RfqRow
  <2>3. Blank'
    BY <1>k, <2>2, BlankKept
  <2>4. CASE req' = [req EXCEPT ![r].expiring = req[r].expiring \ {f}]
    <3>1. req'[r].pc = "expire" /\ req'[r].expiring = req[r].expiring \ {f}
      BY <1>k, <2>1, <2>4
    <3>2. \A g \in req'[r].expiring : rfqs'[g].status = "open" /\ rfqs'[g].overdue
      BY <1>k, <2>1, <2>2, <3>1 DEF Ready, At, Request
    <3> QED
      BY <2>3, <3>1, <3>2 DEF Ready, At, Awarding, Submitting
  <2> QED
    BY <1>r, <1>10, <2>3, <2>4, Branches
<1> QED
  BY <1>1, <1>2, <1>3, <1>4, <1>5, <1>6, <1>7, <1>8, <1>9, <1>10 DEF Advance

\* What happens to the rows without a request.
LEMMA RowsAppear ==
  ASSUME IInv, Blank, NEW f \in Rfqs, Create(f) \/ DeadlinePasses(f)
  PROVE  /\ req' = req /\ quotes' = quotes /\ Blank'
         /\ \A g \in Rfqs : rfqs[g].status # "absent" =>
              /\ rfqs'[g].status = rfqs[g].status /\ rfqs'[g].invited = rfqs[g].invited
              /\ rfqs[g].overdue => rfqs'[g].overdue
<1>k. rfqs \in [Rfqs -> RfqRow]
  BY Known
<1>1. CASE Create(f)
  <2>1. \A g \in Rfqs : rfqs'[g] = rfqs[g] \/ (g = f /\ rfqs'[g].status = "draft")
    BY <1>k, <1>1 DEF Create
  <2>2. Blank'
    BY <2>1, BlankKept
  <2> QED
    BY <1>1, <2>1, <2>2 DEF Create
<1>2. CASE DeadlinePasses(f)
  <2>1. /\ rfqs[f].status # "absent"
        /\ \A g \in Rfqs : IF g = f THEN rfqs'[g] = [rfqs[g] EXCEPT !.overdue = TRUE]
                           ELSE rfqs'[g] = rfqs[g]
    BY <1>k, <1>2 DEF DeadlinePasses
  <2>2. rfqs'[f].status = rfqs[f].status /\ rfqs'[f].invited = rfqs[f].invited /\ rfqs'[f].overdue
    BY <1>k, <2>1 DEF RfqRow
  <2>3. Blank'
    BY <2>1, <2>2, BlankKept
  <2> QED
    BY <1>2, <2>1, <2>2, <2>3 DEF DeadlinePasses
<1> QED
  BY <1>1, <1>2

LEMMA SerialStep ==
  ASSUME SerialInv, Serial, Next
  PROVE  SerialInv'
<1>1. IInv'
  BY StepHolds DEF SerialInv
<1>2. Blank' /\ \A r \in Requests : Ready(r)'
  <2>1. CASE \E f \in Rfqs : Create(f) \/ DeadlinePasses(f)
    BY <2>1, RowsAppear, RowsReady DEF SerialInv
  <2>2. ASSUME NEW r \in Requests, Start(r) \/ Advance(r) PROVE Ready(r)' /\ Blank'
    BY <2>2, StartReady, AdvanceReady, BlankKept DEF SerialInv
  <2> QED
    BY <2>1, <2>2 DEF Next, Fail, Serial
<1> QED
  BY <1>1, <1>2 DEF SerialInv

-----------------------------------------------------------------------------
(* The life cycle keeps its promises.                                        *)

LifeTyped == settledRfqs \in [Rfqs -> RfqRow] /\ settledQuotes \in [Quotes -> QuoteRow]

\* Quotes belong to RFQs past their draft, whose invitations no longer change.
LifeInv ==
  /\ LifeTyped
  /\ \A q \in Quotes : settledQuotes[q].status # "absent" <=> settledQuotes[q].rfq \in Rfqs
  /\ \A q \in Quotes : settledQuotes[q].status # "absent" =>
       settledRfqs[settledQuotes[q].rfq].status \notin {"absent", "draft"}
  /\ Life!Settled
  /\ Life!QuotesAreInvited

LEMMA LifeRowKept ==
  ASSUME LifeInv, NEW f \in Rfqs, NEW row \in RfqRow,
         settledQuotes' = settledQuotes, settledRfqs' = [settledRfqs EXCEPT ![f] = row],
         row.invited = settledRfqs[f].invited \/ settledRfqs[f].status \in {"absent", "draft"},
         row.status \in {"absent", "draft"} => settledRfqs[f].status \in {"absent", "draft"},
         \/ row.status = settledRfqs[f].status /\ row.awarded = settledRfqs[f].awarded
         \/ row.status # "awarded" /\ settledRfqs[f].status # "awarded"
  PROVE  LifeInv'
<1>1. LifeTyped'
  BY DEF LifeInv, LifeTyped
<1>2. \A g \in Rfqs : settledRfqs'[g] = IF g = f THEN row ELSE settledRfqs[g]
  BY DEF LifeInv, LifeTyped
<1>3. Life!Settled'
  BY <1>2 DEF LifeInv, Life!Settled
<1>4. Life!QuotesAreInvited'
  BY <1>2 DEF LifeInv, Life!QuotesAreInvited
<1>5. \A q \in Quotes : settledQuotes'[q].status # "absent" =>
        settledRfqs'[settledQuotes'[q].rfq].status \notin {"absent", "draft"}
  BY <1>2 DEF LifeInv
<1> QED
  BY <1>1, <1>3, <1>4, <1>5 DEF LifeInv

LEMMA LifeStep ==
  ASSUME LifeInv, Life!Next
  PROVE  LifeInv'
<1>t. LifeTyped
  BY DEF LifeInv
<1>r. ASSUME NEW f \in Rfqs PROVE settledRfqs[f] \in RfqRow
  BY <1>t DEF LifeTyped
<1>1. ASSUME NEW f \in Rfqs, NEW to \in {"open", "closed", "cancelled", "expired"},
             Life!MoveRfq(f, to), settledRfqs[f].status # "awarded"
      PROVE  LifeInv'
  <2> DEFINE row == [settledRfqs[f] EXCEPT !.status = to]
  <2>1. row \in RfqRow /\ row.status = to /\ row.invited = settledRfqs[f].invited
    BY <1>r DEF RfqRow, RfqStatus
  <2>2. settledRfqs' = [settledRfqs EXCEPT ![f] = row] /\ settledQuotes' = settledQuotes
    BY <1>1 DEF Life!MoveRfq
  <2> HIDE DEF row
  <2> QED
    BY <1>1, <2>1, <2>2, LifeRowKept
<1>2. ASSUME NEW f \in Rfqs, NEW vs \in SUBSET Vendors, NEW late \in BOOLEAN, NEW status \in {"absent", "draft"},
             settledRfqs[f].status \in {"absent", "draft"}, settledQuotes' = settledQuotes,
             NEW row, row = [settledRfqs[f] EXCEPT !.status = status, !.invited = vs, !.overdue = late],
             settledRfqs' = [settledRfqs EXCEPT ![f] = row]
      PROVE  LifeInv'
  <2>1. row \in RfqRow /\ row.status = status
    BY <1>r, <1>2 DEF RfqRow, RfqStatus
  <2>2. row.status # "awarded" /\ settledRfqs[f].status # "awarded"
    BY <1>2, <2>1
  <2> QED
    BY <1>2, <2>1, <2>2, LifeRowKept
<1>3. ASSUME NEW f \in Rfqs, Life!Create(f) PROVE LifeInv'
  <2>1. PICK vs \in SUBSET Vendors :
               settledRfqs' = [settledRfqs EXCEPT ![f].status = "draft", ![f].invited = vs]
    BY <1>3 DEF Life!Create
  <2> DEFINE row == [settledRfqs[f] EXCEPT !.status = "draft", !.invited = vs,
                                          !.overdue = settledRfqs[f].overdue]
  <2>2. row = [settledRfqs[f] EXCEPT !.status = "draft", !.invited = vs] /\ settledRfqs[f].overdue \in BOOLEAN
    BY <1>r DEF RfqRow
  <2>3. settledRfqs' = [settledRfqs EXCEPT ![f] = row]
    BY <1>t, <2>1, <2>2 DEF LifeTyped
  <2> QED
    BY <1>2, <1>3, <2>2, <2>3 DEF Life!Create
<1>4. ASSUME NEW f \in Rfqs, Life!Edit(f) PROVE LifeInv'
  <2>1. PICK vs \in SUBSET Vendors, late \in BOOLEAN :
               settledRfqs' = [settledRfqs EXCEPT ![f].invited = vs, ![f].overdue = late]
    BY <1>4 DEF Life!Edit
  <2> DEFINE row == [settledRfqs[f] EXCEPT !.status = "draft", !.invited = vs, !.overdue = late]
  <2>2. row = [settledRfqs[f] EXCEPT !.invited = vs, !.overdue = late]
    BY <1>r, <1>4 DEF RfqRow, Life!Edit
  <2>3. settledRfqs' = [settledRfqs EXCEPT ![f] = row]
    BY <1>t, <2>1, <2>2 DEF LifeTyped
  <2> QED
    BY <1>2, <1>4, <2>3 DEF Life!Edit
<1>5. ASSUME NEW f \in Rfqs, Life!DeadlinePasses(f) PROVE LifeInv'
  <2> DEFINE row == [settledRfqs[f] EXCEPT !.overdue = TRUE]
  <2>1. /\ row \in RfqRow /\ row.status = settledRfqs[f].status
        /\ row.invited = settledRfqs[f].invited /\ row.awarded = settledRfqs[f].awarded
    BY <1>r DEF RfqRow
  <2>2. settledRfqs' = [settledRfqs EXCEPT ![f] = row] /\ settledQuotes' = settledQuotes
    BY <1>5 DEF Life!DeadlinePasses
  <2> HIDE DEF row
  <2> QED
    BY <2>1, <2>2, LifeRowKept
<1>6. ASSUME NEW f \in Rfqs, Life!Publish(f) \/ Life!Close(f) \/ Life!Cancel(f) \/ Life!Expire(f)
      PROVE  LifeInv'
  BY <1>1, <1>6 DEF Life!Publish, Life!Close, Life!Cancel, Life!Expire
<1>7. ASSUME NEW f \in Rfqs, NEW v \in Vendors, NEW q \in Quotes, Life!Submit(f, v, q) PROVE LifeInv'
  <2> DEFINE row == [status |-> "submitted", rfq |-> f, vendor |-> v]
  <2>1. row \in QuoteRow
    BY DEF QuoteRow, QuoteStatus
  <2>2. /\ settledRfqs' = settledRfqs /\ settledQuotes' = [settledQuotes EXCEPT ![q] = row]
        /\ settledRfqs[f].status = "open" /\ v \in settledRfqs[f].invited
        /\ \A p \in Quotes : ~(settledQuotes[p].rfq = f /\ settledQuotes[p].vendor = v)
    BY <1>7 DEF Life!Submit
  <2>3. LifeTyped'
    BY <1>t, <2>1, <2>2 DEF LifeTyped
  <2>4. \A p \in Quotes : settledQuotes'[p] = IF p = q THEN row ELSE settledQuotes[p]
    BY <1>t, <2>2 DEF LifeTyped
  <2>5. row.status = "submitted" /\ row.rfq = f /\ row.vendor = v
    OBVIOUS
  <2> HIDE DEF row
  <2>6. Life!Settled'
    BY <2>2, <2>4, <2>5 DEF LifeInv, Life!Settled
  <2>7. Life!QuotesAreInvited'
    BY <2>2, <2>4, <2>5 DEF LifeInv, Life!QuotesAreInvited
  <2>8. \A p \in Quotes : /\ settledQuotes'[p].status # "absent" <=> settledQuotes'[p].rfq \in Rfqs
                          /\ settledQuotes'[p].status # "absent" =>
                               settledRfqs'[settledQuotes'[p].rfq].status \notin {"absent", "draft"}
    BY <2>2, <2>4, <2>5 DEF LifeInv
  <2> QED
    BY <2>3, <2>6, <2>7, <2>8 DEF LifeInv
<1>8. ASSUME NEW q \in Quotes, Life!Withdraw(q) PROVE LifeInv'
  <2>1. /\ settledRfqs' = settledRfqs
        /\ settledQuotes' = [settledQuotes EXCEPT ![q].status = "withdrawn"]
        /\ settledQuotes[q].status = "submitted" /\ settledRfqs[settledQuotes[q].rfq].status = "open"
    BY <1>8 DEF Life!Withdraw
  <2>2. \A p \in Quotes : /\ settledQuotes'[p].rfq = settledQuotes[p].rfq
                          /\ settledQuotes'[p].vendor = settledQuotes[p].vendor
                          /\ settledQuotes'[p].status = IF p = q THEN "withdrawn" ELSE settledQuotes[p].status
    BY <1>t, <2>1 DEF LifeTyped, QuoteRow
  <2>3. LifeTyped'
    BY <1>t, <2>1 DEF LifeTyped, QuoteRow, QuoteStatus
  <2>4. Life!Settled'
    BY <2>1, <2>2 DEF LifeInv, Life!Settled
  <2>5. Life!QuotesAreInvited'
    BY <2>1, <2>2 DEF LifeInv, Life!QuotesAreInvited
  <2>6. \A p \in Quotes : /\ settledQuotes'[p].status # "absent" <=> settledQuotes'[p].rfq \in Rfqs
                          /\ settledQuotes'[p].status # "absent" =>
                               settledRfqs'[settledQuotes'[p].rfq].status \notin {"absent", "draft"}
    BY <2>1, <2>2 DEF LifeInv
  <2> QED
    BY <2>3, <2>4, <2>5, <2>6 DEF LifeInv
<1>9. ASSUME NEW f \in Rfqs, NEW c \in Quotes, Life!Award(f, c) PROVE LifeInv'
  <2>1. /\ settledRfqs[f].status \in {"open", "closed"} /\ settledQuotes[c].rfq = f
        /\ settledRfqs' = [settledRfqs EXCEPT ![f].status = "awarded", ![f].awarded = c]
        /\ settledQuotes' = [q \in Quotes |->
             IF q = c THEN [settledQuotes[q] EXCEPT !.status = "accepted"]
             ELSE IF settledQuotes[q].rfq = f /\ settledQuotes[q].status = "submitted"
               THEN [settledQuotes[q] EXCEPT !.status = "rejected"]
               ELSE settledQuotes[q]]
    BY <1>9 DEF Life!Award
  <2>2. \A p \in Quotes :
          /\ settledQuotes'[p].rfq = settledQuotes[p].rfq
          /\ settledQuotes'[p].vendor = settledQuotes[p].vendor
          /\ settledQuotes'[p].status = IF p = c THEN "accepted"
                ELSE IF settledQuotes[p].rfq = f /\ settledQuotes[p].status = "submitted" THEN "rejected"
                ELSE settledQuotes[p].status
          /\ settledQuotes'[p] \in QuoteRow
    BY <1>t, <2>1 DEF LifeTyped, QuoteRow, QuoteStatus
  <2>3. \A g \in Rfqs :
          /\ settledRfqs'[g].invited = settledRfqs[g].invited
          /\ settledRfqs'[g].status = IF g = f THEN "awarded" ELSE settledRfqs[g].status
          /\ settledRfqs'[g].awarded = IF g = f THEN c ELSE settledRfqs[g].awarded
          /\ settledRfqs'[g] \in RfqRow
    <3> DEFINE row == [settledRfqs[f] EXCEPT !.status = "awarded", !.awarded = c]
    <3>1. /\ row \in RfqRow /\ row.status = "awarded" /\ row.awarded = c
          /\ row.invited = settledRfqs[f].invited
      BY <1>r DEF RfqRow, RfqStatus
    <3>2. \A g \in Rfqs : settledRfqs'[g] = IF g = f THEN row ELSE settledRfqs[g]
      BY <1>t, <2>1 DEF LifeTyped
    <3> HIDE DEF row
    <3> QED
      BY <1>r, <3>1, <3>2
  <2>4. LifeTyped'
    <3>1. settledRfqs' \in [Rfqs -> RfqRow]
      BY <1>t, <2>1, <2>3 DEF LifeTyped
    <3>2. settledQuotes' \in [Quotes -> QuoteRow]
      BY <2>1, <2>2
    <3> QED
      BY <3>1, <3>2 DEF LifeTyped
  <2>5. \A q \in Quotes :
          /\ settledQuotes[q].status # "absent" <=> settledQuotes[q].rfq \in Rfqs
          /\ settledQuotes[q].status # "absent" =>
               settledRfqs[settledQuotes[q].rfq].status \notin {"absent", "draft"}
          /\ settledQuotes[q].status \in {"absent", "submitted", "accepted", "rejected", "withdrawn"}
    BY <1>t DEF LifeInv, LifeTyped, QuoteRow, QuoteStatus
  <2>6. \A q \in Quotes : settledQuotes'[q].status # "absent" <=> settledQuotes[q].status # "absent"
    <3>1. settledQuotes[c].status # "absent"
      BY <2>1, <2>5
    <3> QED
      BY <2>2, <3>1
  <2>7. Life!Settled'
    <3> SUFFICES ASSUME NEW q \in Quotes
                 PROVE  /\ settledQuotes'[q].status = "accepted" =>
                             /\ settledRfqs'[settledQuotes'[q].rfq].status = "awarded"
                             /\ settledRfqs'[settledQuotes'[q].rfq].awarded = q
                        /\ settledQuotes'[q].status # "absent"
                             /\ settledRfqs'[settledQuotes'[q].rfq].status = "awarded"
                             /\ settledRfqs'[settledQuotes'[q].rfq].awarded # q
                             => settledQuotes'[q].status \in {"rejected", "withdrawn"}
      BY DEF Life!Settled
    <3>1. /\ settledQuotes[q].status = "accepted" =>
               /\ settledRfqs[settledQuotes[q].rfq].status = "awarded"
               /\ settledRfqs[settledQuotes[q].rfq].awarded = q
          /\ settledQuotes[q].status # "absent"
               /\ settledRfqs[settledQuotes[q].rfq].status = "awarded"
               /\ settledRfqs[settledQuotes[q].rfq].awarded # q
               => settledQuotes[q].status \in {"rejected", "withdrawn"}
      BY DEF LifeInv, Life!Settled
    <3>2. CASE settledQuotes[q].rfq = f
      <4>1. /\ settledQuotes'[q].rfq = f /\ f \in Rfqs
            /\ settledRfqs'[f].status = "awarded" /\ settledRfqs'[f].awarded = c
        BY <2>2, <2>3, <3>2
      <4>2. settledQuotes[q].status \in {"submitted", "rejected", "withdrawn"}
        BY <2>1, <2>5, <3>1, <3>2
      <4>3. settledQuotes'[q].status = IF q = c THEN "accepted"
              ELSE IF settledQuotes[q].status = "submitted" THEN "rejected" ELSE settledQuotes[q].status
        BY <2>2, <3>2
      <4>4. IF q = c THEN settledQuotes'[q].status = "accepted"
                     ELSE settledQuotes'[q].status \in {"rejected", "withdrawn"}
        BY <4>2, <4>3
      <4> QED
        BY <4>1, <4>4
    <3>3. CASE settledQuotes[q].rfq # f
      <4>1. q # c
        BY <2>1, <3>3
      <4>2. settledQuotes'[q].status = settledQuotes[q].status /\ settledQuotes'[q].rfq = settledQuotes[q].rfq
        BY <2>2, <3>3, <4>1
      <4>3. CASE settledQuotes[q].status = "absent"
        BY <4>2, <4>3
      <4>4. CASE settledQuotes[q].status # "absent"
        BY <2>3, <2>5, <3>1, <3>3, <4>2, <4>4
      <4> QED
        BY <4>3, <4>4
    <3> QED
      BY <3>2, <3>3
  <2>8. Life!QuotesAreInvited'
    <3>1. \A q \in Quotes : /\ settledQuotes'[q].rfq = settledQuotes[q].rfq
                            /\ settledQuotes'[q].vendor = settledQuotes[q].vendor
      BY <2>2
    <3>2. \A g \in Rfqs : settledRfqs'[g].invited = settledRfqs[g].invited
      BY <2>3
    <3> QED
      BY <2>5, <2>6, <3>1, <3>2 DEF LifeInv, Life!QuotesAreInvited
  <2>9. \A p \in Quotes : /\ settledQuotes'[p].status # "absent" <=> settledQuotes'[p].rfq \in Rfqs
                          /\ settledQuotes'[p].status # "absent" =>
                               settledRfqs'[settledQuotes'[p].rfq].status \notin {"absent", "draft"}
    <3>1. \A q \in Quotes : settledQuotes'[q].rfq = settledQuotes[q].rfq
      BY <2>2
    <3>2. \A g \in Rfqs : settledRfqs'[g].status = "awarded" \/ settledRfqs'[g].status = settledRfqs[g].status
      BY <2>3
    <3> QED
      BY <2>5, <2>6, <3>1, <3>2
  <2> QED
    BY <2>4, <2>7, <2>8, <2>9 DEF LifeInv
<1> QED
  BY <1>3, <1>4, <1>5, <1>6, <1>7, <1>8, <1>9 DEF Life!Next

-----------------------------------------------------------------------------
(* The refinement, step by step.                                             *)

\* The mapping, row by row: that of the tables, with the award in progress done.
Mapped ==
  Serial =>
    /\ LifeTyped
    /\ (\A r \in Requests : ~Awarding(r)) => settledRfqs = rfqs /\ settledQuotes = quotes
    /\ \A r \in Requests : Awarding(r) =>
         /\ \A f \in Rfqs : settledRfqs[f] =
              IF f = req[r].rfq THEN [rfqs[f] EXCEPT !.status = "awarded", !.awarded = req[r].quote]
                                ELSE rfqs[f]
         /\ \A q \in Quotes : settledQuotes[q] =
              IF /\ q # req[r].quote
                 /\ quotes[q].rfq = req[r].rfq /\ quotes[q].status = "submitted"
                THEN [quotes[q] EXCEPT !.status = "rejected"] ELSE quotes[q]

LEMMA MappedHolds == IInv => Mapped
<1> SUFFICES ASSUME IInv, Serial PROVE Mapped
  BY DEF Mapped
<1>k. /\ rfqs \in [Rfqs -> RfqRow] /\ quotes \in [Quotes -> QuoteRow] /\ req \in [Requests -> Request]
      /\ \A r \in Requests : HoldsIds(req[r])
  BY Known
<1>1. CASE \A r \in Requests : ~Awarding(r)
  <2>1. settledRfqs = [f \in Rfqs |-> rfqs[f]] /\ settledQuotes = [q \in Quotes |-> quotes[q]]
    BY <1>1 DEF settledRfqs, settledQuotes
  <2>2. settledRfqs = rfqs /\ settledQuotes = quotes
    BY <1>k, <2>1
  <2> QED
    BY <1>k, <1>1, <2>2 DEF Mapped, LifeTyped
<1>2. ASSUME NEW r \in Requests, Awarding(r) PROVE Mapped
  <2>1. \A s \in Requests : s = r
    BY DEF Serial
  <2>2. (CHOOSE s \in Requests : Awarding(s)) = r
    BY <1>2, <2>1
  <2>3. settledRfqs = [f \in Rfqs |-> IF f = req[r].rfq
              THEN [rfqs[f] EXCEPT !.status = "awarded", !.awarded = req[r].quote] ELSE rfqs[f]]
    BY <1>2, <2>1, <2>2 DEF settledRfqs
  <2>4. settledQuotes = [q \in Quotes |->
              IF q \in Losers(req[r].rfq, req[r].quote)
                THEN [quotes[q] EXCEPT !.status = "rejected"] ELSE quotes[q]]
    BY <1>2, <2>1 DEF settledQuotes
  <2>5. req[r].quote \in Quotes
    BY <1>k, <1>2 DEF Awarding, HoldsIds, Deciding
  <2>6. ASSUME NEW f \in Rfqs
        PROVE  [rfqs[f] EXCEPT !.status = "awarded", !.awarded = req[r].quote] \in RfqRow
    BY <1>k, <2>5 DEF RfqRow, RfqStatus
  <2>7. ASSUME NEW q \in Quotes PROVE [quotes[q] EXCEPT !.status = "rejected"] \in QuoteRow
    BY <1>k DEF QuoteRow, QuoteStatus
  <2>8. settledRfqs \in [Rfqs -> RfqRow]
    BY <1>k, <2>3, <2>6
  <2>9. settledQuotes \in [Quotes -> QuoteRow]
    BY <1>k, <2>4, <2>7
  <2>10. \A q \in Quotes : q \in Losers(req[r].rfq, req[r].quote) <=>
           q # req[r].quote /\ quotes[q].rfq = req[r].rfq /\ quotes[q].status = "submitted"
    BY DEF Losers
  <2>11. \A q \in Quotes : settledQuotes[q] =
           IF q # req[r].quote /\ quotes[q].rfq = req[r].rfq /\ quotes[q].status = "submitted"
             THEN [quotes[q] EXCEPT !.status = "rejected"] ELSE quotes[q]
    BY <2>4, <2>10
  <2> QED
    BY <1>2, <2>1, <2>3, <2>8, <2>9, <2>11 DEF Mapped, LifeTyped
<1> QED
  BY <1>1, <1>2

\* A step of the abstract specification on tables that are not being awarded.
LEMMA PlainRefines ==
  ASSUME SerialInv, Serial, NEW r \in Requests, Advance(r), ~Awarding(r), ~Awarding(r)',
         settledRfqs = rfqs, settledQuotes = quotes, settledRfqs' = rfqs', settledQuotes' = quotes'
  PROVE  Life!Next \/ UNCHANGED Life!lifeVars
<1>k. /\ rfqs \in [Rfqs -> RfqRow] /\ quotes \in [Quotes -> QuoteRow]
      /\ req \in [Requests -> Request] /\ RowsBelong
      /\ HoldsIds(req[r]) /\ HoldsRows(r) /\ Ready(r) /\ Blank
  BY Known DEF SerialInv
<1> HIDE DEF settledRfqs, settledQuotes
<1>1. CASE UpdateWrite(r)
  <2>1. req[r].rfq \in Rfqs /\ rfqs[req[r].rfq].status = "draft"
    BY <1>k, <1>1 DEF UpdateWrite, HoldsIds, Ready, At
  <2>2. Life!Edit(req[r].rfq)
    BY <1>1, <2>1 DEF UpdateWrite, Life!Edit
  <2> QED
    BY <2>1, <2>2 DEF Life!Next
<1>2. CASE StatusWrite(r)
  <2>1. req[r].rfq \in Rfqs /\ MayMove(rfqs[req[r].rfq], req[r].to)
    BY <1>k, <1>2 DEF StatusWrite, HoldsIds, Ready, At
  <2>2. Life!MoveRfq(req[r].rfq, req[r].to)
    BY <1>2 DEF StatusWrite, Life!MoveRfq
  <2>3. Life!Publish(req[r].rfq) \/ Life!Close(req[r].rfq) \/ Life!Cancel(req[r].rfq)
    BY <2>1, <2>2 DEF MayMove, Life!Publish, Life!Close, Life!Cancel
  <2> QED
    BY <2>1, <2>3 DEF Life!Next
<1>3. CASE SubmitInsert(r)
  <2>1. /\ req[r].rfq \in Rfqs /\ req[r].quote \in Quotes /\ req[r].vendor \in Vendors
        /\ quotes[req[r].quote].status = "absent"
        /\ rfqs[req[r].rfq].status = "open" /\ req[r].vendor \in rfqs[req[r].rfq].invited
        /\ ~HasQuoted(req[r].rfq, req[r].vendor)
    BY <1>k, <1>3 DEF SubmitInsert, HoldsIds, HoldsRows, Ready, At, Submitting
  <2>2. Life!Submit(req[r].rfq, req[r].vendor, req[r].quote)
    BY <1>3, <2>1 DEF SubmitInsert, Life!Submit, HasQuoted
  <2> QED
    BY <2>1, <2>2 DEF Life!Next
<1>4. CASE WithdrawWrite(r)
  <2>1. /\ req[r].quote \in Quotes /\ quotes[req[r].quote].status = "submitted"
        /\ quotes[req[r].quote].rfq = req[r].rfq /\ rfqs[req[r].rfq].status = "open"
    BY <1>k, <1>4 DEF WithdrawWrite, HoldsIds, HoldsRows, Ready, At, Deciding
  <2>2. Life!Withdraw(req[r].quote)
    BY <1>4, <2>1 DEF WithdrawWrite, SetQuoteStatus, Life!Withdraw
  <2> QED
    BY <2>1, <2>2 DEF Life!Next
<1>5. ASSUME NEW f \in Rfqs, ExpireWrite(r, f) PROVE Life!Next
  <2>1. /\ rfqs' = [rfqs EXCEPT ![f].status = "expired"] /\ quotes' = quotes
        /\ rfqs[f].status = "open" /\ rfqs[f].overdue
    BY <1>k, <1>5 DEF ExpireWrite, Ready, At, Serial
  <2>2. Life!Expire(f)
    BY <2>1 DEF Life!Expire, Life!MoveRfq
  <2> QED
    BY <2>2 DEF Life!Next
<1>6. CASE SubmitCheck(r) \/ WithdrawCheck(r)
  BY <1>6 DEF SubmitCheck, WithdrawCheck, Life!lifeVars
<1>7. ~(AwardAccept(r) \/ AwardList(r) \/ AwardFinish(r) \/ \E q \in Quotes : AwardReject(r, q))
  <2>1. ASSUME AwardAccept(r) PROVE FALSE
    <3>1. req' = [req EXCEPT ![r].pc = "award_list"]
      BY <2>1 DEF AwardAccept
    <3>2. req'[r].pc = "award_list"
      BY <1>k, <3>1 DEF Request
    <3> QED
      BY <3>2 DEF Awarding
  <2>2. ~AwardList(r) /\ ~AwardFinish(r) /\ \A q \in Quotes : ~AwardReject(r, q)
    BY DEF AwardList, AwardFinish, AwardReject, At, Awarding
  <2> QED
    BY <2>1, <2>2
<1> QED
  BY <1>1, <1>2, <1>3, <1>4, <1>5, <1>6, <1>7 DEF Advance

\* Accepting the quote settles the RFQ, and what is left of the award changes nothing.
LEMMA AwardRefines ==
  ASSUME SerialInv, Serial, Mapped, Mapped', NEW r \in Requests,
         \/ AwardAccept(r) \/ AwardList(r) \/ AwardFinish(r)
         \/ \E q \in Quotes : AwardReject(r, q)
  PROVE  Life!Next \/ UNCHANGED Life!lifeVars
<1>k. /\ rfqs \in [Rfqs -> RfqRow] /\ quotes \in [Quotes -> QuoteRow]
      /\ req \in [Requests -> Request] /\ HoldsIds(req[r]) /\ HoldsRows(r) /\ Ready(r)
      /\ \A s \in Requests : s = r
      /\ LifeTyped /\ LifeTyped'
  BY Known DEF SerialInv, Serial, Mapped
<1>i. /\ req[r].rfq \in Rfqs /\ req[r].quote \in Quotes
      /\ quotes[req[r].quote].rfq = req[r].rfq
      /\ rfqs[req[r].rfq].status \in {"open", "closed"}
  BY <1>k DEF AwardAccept, AwardList, AwardFinish, AwardReject, At, HoldsIds, HoldsRows, Ready, Deciding
<1>a. ASSUME Awarding(r)
      PROVE  /\ \A f \in Rfqs : settledRfqs[f] =
                  IF f = req[r].rfq THEN [rfqs[f] EXCEPT !.status = "awarded", !.awarded = req[r].quote]
                                    ELSE rfqs[f]
             /\ \A q \in Quotes : settledQuotes[q] =
                  IF /\ q # req[r].quote
                     /\ quotes[q].rfq = req[r].rfq /\ quotes[q].status = "submitted"
                    THEN [quotes[q] EXCEPT !.status = "rejected"] ELSE quotes[q]
  BY <1>a DEF Mapped
<1>b. ASSUME Awarding(r)'
      PROVE  /\ \A f \in Rfqs : settledRfqs'[f] =
                  IF f = req'[r].rfq THEN [rfqs'[f] EXCEPT !.status = "awarded", !.awarded = req'[r].quote]
                                     ELSE rfqs'[f]
             /\ \A q \in Quotes : settledQuotes'[q] =
                  IF /\ q # req'[r].quote
                     /\ quotes'[q].rfq = req'[r].rfq /\ quotes'[q].status = "submitted"
                    THEN [quotes'[q] EXCEPT !.status = "rejected"] ELSE quotes'[q]
  BY <1>b DEF Mapped
<1>c. ASSUME ~Awarding(r) PROVE settledRfqs = rfqs /\ settledQuotes = quotes
  BY <1>c, <1>k DEF Mapped
<1>d. ASSUME ~Awarding(r)' PROVE settledRfqs' = rfqs' /\ settledQuotes' = quotes'
  BY <1>d, <1>k DEF Mapped
<1>s. ASSUME \A f \in Rfqs : settledRfqs'[f] = settledRfqs[f],
             \A q \in Quotes : settledQuotes'[q] = settledQuotes[q]
      PROVE  UNCHANGED Life!lifeVars
  BY <1>k, <1>s DEF LifeTyped, Life!lifeVars
<1>e. ASSUME Awarding(r), Awarding(r)', rfqs' = rfqs,
             req'[r].rfq = req[r].rfq, req'[r].quote = req[r].quote, NEW f \in Rfqs
      PROVE  settledRfqs'[f] = settledRfqs[f]
  <2>1. settledRfqs[f] = IF f = req[r].rfq
          THEN [rfqs[f] EXCEPT !.status = "awarded", !.awarded = req[r].quote] ELSE rfqs[f]
    BY <1>a, <1>e
  <2>2. settledRfqs'[f] = IF f = req'[r].rfq
          THEN [rfqs'[f] EXCEPT !.status = "awarded", !.awarded = req'[r].quote] ELSE rfqs'[f]
    BY <1>b, <1>e
  <2>3. settledRfqs'[f] = IF f = req[r].rfq
          THEN [rfqs[f] EXCEPT !.status = "awarded", !.awarded = req[r].quote] ELSE rfqs[f]
    BY <1>e, <2>2
  <2> QED
    BY <2>1, <2>3
<1>f. ASSUME Awarding(r)', req'[r].rfq = req[r].rfq, req'[r].quote = req[r].quote, NEW q \in Quotes
      PROVE  settledQuotes'[q] =
               IF q # req[r].quote /\ quotes'[q].rfq = req[r].rfq /\ quotes'[q].status = "submitted"
                 THEN [quotes'[q] EXCEPT !.status = "rejected"] ELSE quotes'[q]
  <2>1. settledQuotes'[q] =
          IF q # req'[r].quote /\ quotes'[q].rfq = req'[r].rfq /\ quotes'[q].status = "submitted"
            THEN [quotes'[q] EXCEPT !.status = "rejected"] ELSE quotes'[q]
    BY <1>b, <1>f
  <2> QED
    BY <1>f, <2>1
<1>g. ASSUME Awarding(r), NEW q \in Quotes
      PROVE  settledQuotes[q] =
               IF q # req[r].quote /\ quotes[q].rfq = req[r].rfq /\ quotes[q].status = "submitted"
                 THEN [quotes[q] EXCEPT !.status = "rejected"] ELSE quotes[q]
  BY <1>a, <1>g
<1> HIDE DEF settledRfqs, settledQuotes
<1>1. CASE AwardAccept(r)
  <2>1. /\ rfqs' = rfqs /\ quotes' = [quotes EXCEPT ![req[r].quote].status = "accepted"]
        /\ ~Awarding(r) /\ req'[r].pc = "award_list"
        /\ req'[r].rfq = req[r].rfq /\ req'[r].quote = req[r].quote
    BY <1>k, <1>1 DEF AwardAccept, SetQuoteStatus, At, Awarding
  <2>2. Awarding(r)'
    BY <2>1 DEF Awarding
  <2>3. settledRfqs = rfqs /\ settledQuotes = quotes
    BY <1>c, <2>1
  <2>4. \A f \in Rfqs : settledRfqs'[f] =
          IF f = req[r].rfq THEN [rfqs[f] EXCEPT !.status = "awarded", !.awarded = req[r].quote] ELSE rfqs[f]
    BY <1>b, <2>1, <2>2
  <2>5. \A q \in Quotes : quotes'[q] = IF q = req[r].quote THEN [quotes[q] EXCEPT !.status = "accepted"]
                                                           ELSE quotes[q]
    BY <1>k, <2>1
  <2>6. \A q \in Quotes : settledQuotes'[q] =
          IF q = req[r].quote THEN [quotes[q] EXCEPT !.status = "accepted"]
          ELSE IF quotes[q].rfq = req[r].rfq /\ quotes[q].status = "submitted"
            THEN [quotes[q] EXCEPT !.status = "rejected"]
            ELSE quotes[q]
    <3> SUFFICES ASSUME NEW q \in Quotes
                 PROVE  settledQuotes'[q] =
                          IF q = req[r].quote THEN quotes'[q]
                          ELSE IF quotes[q].rfq = req[r].rfq /\ quotes[q].status = "submitted"
                            THEN [quotes[q] EXCEPT !.status = "rejected"]
                            ELSE quotes[q]
      BY <2>5
    <3>1. settledQuotes'[q] =
            IF q # req[r].quote /\ quotes'[q].rfq = req[r].rfq /\ quotes'[q].status = "submitted"
              THEN [quotes'[q] EXCEPT !.status = "rejected"] ELSE quotes'[q]
      BY <1>f, <2>1, <2>2
    <3>2. CASE q = req[r].quote
      BY <3>1, <3>2
    <3>3. CASE q # req[r].quote
      <4>1. quotes'[q] = quotes[q]
        BY <2>5, <3>3
      <4> QED
        BY <3>1, <3>3, <4>1
    <3> QED
      BY <3>2, <3>3
  <2>7. settledRfqs' = [rfqs EXCEPT ![req[r].rfq].status = "awarded", ![req[r].rfq].awarded = req[r].quote]
    BY <1>k, <2>4 DEF LifeTyped
  <2>8. settledQuotes' = [q \in Quotes |->
          IF q = req[r].quote THEN [quotes[q] EXCEPT !.status = "accepted"]
          ELSE IF quotes[q].rfq = req[r].rfq /\ quotes[q].status = "submitted"
            THEN [quotes[q] EXCEPT !.status = "rejected"]
            ELSE quotes[q]]
    BY <1>k, <2>6 DEF LifeTyped
  <2>9. Life!Award(req[r].rfq, req[r].quote)
    BY <1>i, <2>3, <2>7, <2>8 DEF Life!Award
  <2> QED
    BY <1>i, <2>9 DEF Life!Next
<1>2. CASE AwardList(r)
  <2>1. /\ rfqs' = rfqs /\ quotes' = quotes
        /\ req[r].pc = "award_list" /\ req'[r].pc = "award_reject"
        /\ req'[r].rfq = req[r].rfq /\ req'[r].quote = req[r].quote
    <3>1. PICK found : req' = [req EXCEPT ![r].pc = "award_reject", ![r].rejecting = found]
      BY <1>2 DEF AwardList
    <3>2. req'[r] = [req[r] EXCEPT !.pc = "award_reject", !.rejecting = found] /\ req[r] \in Request
      BY <1>k, <3>1
    <3>3. req'[r].pc = "award_reject" /\ req'[r].rfq = req[r].rfq /\ req'[r].quote = req[r].quote
      BY <3>2 DEF Request
    <3>4. rfqs' = rfqs /\ quotes' = quotes
      BY <1>2 DEF AwardList
    <3>5. req[r].pc = "award_list"
      BY <1>2 DEF AwardList, At
    <3> QED
      BY <3>3, <3>4, <3>5
  <2>2. Awarding(r) /\ Awarding(r)'
    BY <2>1 DEF Awarding
  <2>3. \A f \in Rfqs : settledRfqs'[f] = settledRfqs[f]
    BY <1>e, <2>1, <2>2
  <2>4. ASSUME NEW q \in Quotes PROVE settledQuotes'[q] = settledQuotes[q]
    <3>1. settledQuotes'[q] =
            IF q # req[r].quote /\ quotes'[q].rfq = req[r].rfq /\ quotes'[q].status = "submitted"
              THEN [quotes'[q] EXCEPT !.status = "rejected"] ELSE quotes'[q]
      BY <1>f, <2>1, <2>2
    <3>2. quotes'[q] = quotes[q]
      BY <2>1
    <3>3. settledQuotes[q] =
            IF q # req[r].quote /\ quotes[q].rfq = req[r].rfq /\ quotes[q].status = "submitted"
              THEN [quotes[q] EXCEPT !.status = "rejected"] ELSE quotes[q]
      BY <1>g, <2>2
    <3> QED
      BY <3>1, <3>2, <3>3
  <2> QED
    BY <1>s, <2>3, <2>4
<1>3. ASSUME NEW p \in Quotes, AwardReject(r, p) PROVE UNCHANGED Life!lifeVars
  <2>1. /\ rfqs' = rfqs /\ quotes' = [quotes EXCEPT ![p].status = "rejected"]
        /\ req[r].pc = "award_reject" /\ req'[r].pc = "award_reject" /\ p \in req[r].rejecting
        /\ req'[r].rfq = req[r].rfq /\ req'[r].quote = req[r].quote
    BY <1>k, <1>3 DEF AwardReject, SetQuoteStatus, At, Serial
  <2>2. Awarding(r) /\ Awarding(r)'
    BY <2>1 DEF Awarding
  <2>3. p # req[r].quote /\ quotes[p].rfq = req[r].rfq /\ quotes[p].status = "submitted"
    BY <1>k, <2>1 DEF Ready, At, Losers
  <2>4. \A f \in Rfqs : settledRfqs'[f] = settledRfqs[f]
    BY <1>e, <2>1, <2>2
  <2>5. \A q \in Quotes : quotes'[q] = IF q = p THEN [quotes[q] EXCEPT !.status = "rejected"] ELSE quotes[q]
    BY <1>k, <2>1
  <2>6. ASSUME NEW q \in Quotes PROVE settledQuotes'[q] = settledQuotes[q]
    <3>1. settledQuotes'[q] =
            IF q # req[r].quote /\ quotes'[q].rfq = req[r].rfq /\ quotes'[q].status = "submitted"
              THEN [quotes'[q] EXCEPT !.status = "rejected"] ELSE quotes'[q]
      BY <1>f, <2>1, <2>2
    <3>2. settledQuotes[q] =
            IF q # req[r].quote /\ quotes[q].rfq = req[r].rfq /\ quotes[q].status = "submitted"
              THEN [quotes[q] EXCEPT !.status = "rejected"] ELSE quotes[q]
      BY <1>g, <2>2
    <3>3. CASE q = p
      <4>1. quotes'[q] = [quotes[q] EXCEPT !.status = "rejected"] /\ quotes'[q].status = "rejected"
        BY <1>k, <2>5, <3>3 DEF QuoteRow
      <4>2. settledQuotes'[q] = quotes'[q]
        BY <3>1, <4>1
      <4> QED
        BY <2>3, <3>2, <3>3, <4>1, <4>2
    <3>4. CASE q # p
      <4>1. quotes'[q] = quotes[q]
        BY <2>5, <3>4
      <4> QED
        BY <3>1, <3>2, <4>1
    <3> QED
      BY <3>3, <3>4
  <2> QED
    BY <1>s, <2>4, <2>6
<1>4. CASE AwardFinish(r)
  <2>1. /\ rfqs' = [rfqs EXCEPT ![req[r].rfq].status = "awarded", ![req[r].rfq].awarded = req[r].quote]
        /\ quotes' = quotes /\ req[r].pc = "award_reject" /\ req'[r].pc = "idle" /\ req[r].rejecting = {}
    BY <1>k, <1>4 DEF AwardFinish, Return, Idle, At
  <2>2. Awarding(r) /\ ~Awarding(r)'
    BY <2>1 DEF Awarding
  <2>3. \A q \in Quotes : ~(q # req[r].quote /\ quotes[q].rfq = req[r].rfq /\ quotes[q].status = "submitted")
    BY <1>k, <2>1 DEF Ready, At, Losers
  <2>4. \A q \in Quotes : settledQuotes'[q] = settledQuotes[q]
    BY <1>a, <1>d, <2>1, <2>2, <2>3
  <2>5. \A f \in Rfqs : rfqs'[f] = IF f = req[r].rfq
          THEN [rfqs[f] EXCEPT !.status = "awarded", !.awarded = req[r].quote] ELSE rfqs[f]
    BY <1>k, <2>1
  <2>6. \A f \in Rfqs : settledRfqs'[f] = settledRfqs[f]
    BY <1>a, <1>d, <2>2, <2>5
  <2> QED
    BY <1>s, <2>4, <2>6
<1> QED
  BY <1>1, <1>2, <1>3, <1>4

\* Rows with the same fields are the same row.
LEMMA DraftedRow ==
  ASSUME NEW x \in RfqRow, NEW y \in RfqRow, NEW vs,
         y.status = "draft", y.invited = vs, y.overdue = x.overdue, y.awarded = x.awarded
  PROVE  y = [x EXCEPT !.status = "draft", !.invited = vs]
BY DEF RfqRow

LEMMA AwardedOverdueRow ==
  ASSUME NEW x \in RfqRow, NEW c
  PROVE  [[x EXCEPT !.overdue = TRUE] EXCEPT !.status = "awarded", !.awarded = c]
           = [[x EXCEPT !.status = "awarded", !.awarded = c] EXCEPT !.overdue = TRUE]
BY DEF RfqRow

\* What happens to the rows without a request happens to the mapped rows.
LEMMA RowsRefine ==
  ASSUME SerialInv, Serial, Mapped, Mapped', NEW f \in Rfqs, Create(f) \/ DeadlinePasses(f)
  PROVE  Life!Next
<1>k. /\ rfqs \in [Rfqs -> RfqRow] /\ quotes \in [Quotes -> QuoteRow]
      /\ Blank /\ LifeTyped /\ LifeTyped'
      /\ \A r \in Requests : Ready(r)
  BY Known DEF SerialInv, Serial, Mapped
<1>1. req' = req /\ quotes' = quotes
  BY DEF Create, DeadlinePasses
\* the rest of the rows are mapped alike before and after
<1>2. /\ settledQuotes' = settledQuotes
      /\ \A g \in Rfqs : rfqs'[g] = rfqs[g] => settledRfqs'[g] = settledRfqs[g]
  <2>1. CASE \A r \in Requests : ~Awarding(r)
    <3>1. \A r \in Requests : ~Awarding(r)'
      BY <1>1, <2>1 DEF Awarding
    <3> QED
      BY <1>1, <2>1, <3>1 DEF Mapped
  <2>2. ASSUME NEW r \in Requests, Awarding(r)
        PROVE  /\ settledQuotes' = settledQuotes
               /\ \A g \in Rfqs : rfqs'[g] = rfqs[g] => settledRfqs'[g] = settledRfqs[g]
    <3>1. Awarding(r)'
      BY <1>1, <2>2 DEF Awarding
    <3>2. ASSUME NEW q \in Quotes PROVE settledQuotes'[q] = settledQuotes[q]
      <4>1. settledQuotes[q] =
              IF q # req[r].quote /\ quotes[q].rfq = req[r].rfq /\ quotes[q].status = "submitted"
                THEN [quotes[q] EXCEPT !.status = "rejected"] ELSE quotes[q]
        BY <2>2 DEF Mapped
      <4>2. settledQuotes'[q] =
              IF q # req'[r].quote /\ quotes'[q].rfq = req'[r].rfq /\ quotes'[q].status = "submitted"
                THEN [quotes'[q] EXCEPT !.status = "rejected"] ELSE quotes'[q]
        BY <3>1 DEF Mapped
      <4> QED
        BY <1>1, <4>1, <4>2
    <3>3. ASSUME NEW g \in Rfqs, rfqs'[g] = rfqs[g] PROVE settledRfqs'[g] = settledRfqs[g]
      <4>1. settledRfqs[g] = IF g = req[r].rfq
              THEN [rfqs[g] EXCEPT !.status = "awarded", !.awarded = req[r].quote] ELSE rfqs[g]
        BY <2>2 DEF Mapped
      <4>2. settledRfqs'[g] = IF g = req'[r].rfq
              THEN [rfqs'[g] EXCEPT !.status = "awarded", !.awarded = req'[r].quote] ELSE rfqs'[g]
        BY <3>1 DEF Mapped
      <4> QED
        BY <1>1, <3>3, <4>1, <4>2
    <3>4. settledQuotes' = settledQuotes
      BY <1>k, <3>2 DEF LifeTyped
    <3> QED
      BY <3>3, <3>4
  <2> QED
    BY <2>1, <2>2
<1>3. CASE Create(f)
  <2>1. PICK vs \in SUBSET Vendors :
               rfqs' = [rfqs EXCEPT ![f] = [status |-> "draft", invited |-> vs,
                                            overdue |-> FALSE, awarded |-> Nil]]
    BY <1>3 DEF Create
  <2>2. rfqs[f].status = "absent" /\ rfqs[f].overdue = FALSE /\ rfqs[f].awarded = Nil
    BY <1>k, <1>3 DEF Create, Blank
  <2>3. settledRfqs[f] = rfqs[f] /\ settledRfqs'[f] = rfqs'[f]
    <3>1. CASE \A r \in Requests : ~Awarding(r)
      <4>1. \A r \in Requests : ~Awarding(r)'
        BY <1>1, <3>1 DEF Awarding
      <4> QED
        BY <3>1, <4>1 DEF Mapped
    <3>2. ASSUME NEW r \in Requests, Awarding(r)
          PROVE  settledRfqs[f] = rfqs[f] /\ settledRfqs'[f] = rfqs'[f]
      <4>1. f # req[r].rfq /\ f # req'[r].rfq
        BY <1>k, <1>1, <2>2, <3>2 DEF Ready, Awarding
      <4>2. Awarding(r)'
        BY <1>1, <3>2 DEF Awarding
      <4> QED
        BY <3>2, <4>1, <4>2 DEF Mapped
    <3> QED
      BY <3>1, <3>2
  <2>4. rfqs'[f] = [rfqs[f] EXCEPT !.status = "draft", !.invited = vs]
    <3> DEFINE x == rfqs[f]
               y == rfqs'[f]
    <3>1. y = [status |-> "draft", invited |-> vs, overdue |-> FALSE, awarded |-> Nil]
      BY <1>k, <2>1
    <3>2. x \in RfqRow /\ y \in RfqRow
      BY <1>k, <2>1, <3>1 DEF RfqRow, RfqStatus
    <3>3. x.overdue = FALSE /\ x.awarded = Nil
      BY <2>2
    <3> HIDE DEF x, y
    <3>4. y.status = "draft" /\ y.invited = vs /\ y.overdue = x.overdue /\ y.awarded = x.awarded
      BY <3>1, <3>3
    <3>5. y = [x EXCEPT !.status = "draft", !.invited = vs]
      BY <3>2, <3>4, DraftedRow
    <3> QED
      BY <3>5 DEF x, y
  <2>5. \A g \in Rfqs : settledRfqs'[g] =
          IF g = f THEN [settledRfqs[g] EXCEPT !.status = "draft", !.invited = vs] ELSE settledRfqs[g]
    <3>1. \A g \in Rfqs : g # f => rfqs'[g] = rfqs[g]
      BY <1>k, <2>1
    <3> QED
      BY <1>2, <2>3, <2>4, <3>1
  <2>6. settledRfqs' = [settledRfqs EXCEPT ![f].status = "draft", ![f].invited = vs]
    BY <1>k, <2>5 DEF LifeTyped
  <2>7. Life!Create(f)
    BY <1>2, <2>2, <2>3, <2>6 DEF Life!Create
  <2> QED
    BY <2>7 DEF Life!Next
<1>4. CASE DeadlinePasses(f)
  <2>1. rfqs' = [rfqs EXCEPT ![f].overdue = TRUE] /\ rfqs[f].status # "absent"
    BY <1>4 DEF DeadlinePasses
  <2>2. rfqs'[f] = [rfqs[f] EXCEPT !.overdue = TRUE] /\ rfqs[f] \in RfqRow
    BY <1>k, <2>1
  <2>3. settledRfqs[f].status # "absent" /\ settledRfqs'[f] = [settledRfqs[f] EXCEPT !.overdue = TRUE]
    <3>1. CASE \A r \in Requests : ~Awarding(r)
      <4>1. \A r \in Requests : ~Awarding(r)'
        BY <1>1, <3>1 DEF Awarding
      <4>2. settledRfqs = rfqs /\ settledRfqs' = rfqs'
        BY <3>1, <4>1 DEF Mapped
      <4> QED
        BY <2>1, <2>2, <4>2
    <3>2. ASSUME NEW r \in Requests, Awarding(r)
          PROVE  settledRfqs[f].status # "absent" /\ settledRfqs'[f] = [settledRfqs[f] EXCEPT !.overdue = TRUE]
      <4>1. Awarding(r)'
        BY <1>1, <3>2 DEF Awarding
      <4>2. settledRfqs[f] = IF f = req[r].rfq
              THEN [rfqs[f] EXCEPT !.status = "awarded", !.awarded = req[r].quote] ELSE rfqs[f]
        BY <3>2 DEF Mapped
      <4>3. settledRfqs'[f] = IF f = req'[r].rfq
              THEN [rfqs'[f] EXCEPT !.status = "awarded", !.awarded = req'[r].quote] ELSE rfqs'[f]
        BY <4>1 DEF Mapped
      <4>4. settledRfqs'[f] = IF f = req[r].rfq
              THEN [rfqs'[f] EXCEPT !.status = "awarded", !.awarded = req[r].quote] ELSE rfqs'[f]
        BY <1>1, <4>3
      <4>5. CASE f = req[r].rfq
        <5> DEFINE x == rfqs[f]
                   c == req[r].quote
        <5>1. /\ settledRfqs[f] = [x EXCEPT !.status = "awarded", !.awarded = c]
              /\ settledRfqs'[f] = [[x EXCEPT !.overdue = TRUE] EXCEPT !.status = "awarded", !.awarded = c]
          BY <2>2, <4>2, <4>4, <4>5, Zenon
        <5>2. x \in RfqRow
          BY <2>2
        <5> HIDE DEF x, c
        <5>3. settledRfqs'[f] = [settledRfqs[f] EXCEPT !.overdue = TRUE]
          BY <5>1, <5>2, AwardedOverdueRow, Zenon
        <5>4. settledRfqs[f].status = "awarded"
          BY <5>1, <5>2 DEF RfqRow
        <5> QED
          BY <5>3, <5>4
      <4>6. CASE f # req[r].rfq
        BY <2>1, <2>2, <4>2, <4>4, <4>6
      <4> QED
        BY <4>5, <4>6
    <3> QED
      BY <3>1, <3>2
  <2>4. \A g \in Rfqs : settledRfqs'[g] =
          IF g = f THEN [settledRfqs[g] EXCEPT !.overdue = TRUE] ELSE settledRfqs[g]
    <3>1. \A g \in Rfqs : g # f => rfqs'[g] = rfqs[g]
      BY <1>k, <2>1
    <3> QED
      BY <1>2, <2>3, <3>1
  <2>5. settledRfqs' = [settledRfqs EXCEPT ![f].overdue = TRUE]
    BY <1>k, <2>4 DEF LifeTyped
  <2>6. Life!DeadlinePasses(f)
    BY <1>2, <2>3, <2>5 DEF Life!DeadlinePasses
  <2> QED
    BY <2>6 DEF Life!Next
<1> QED
  BY <1>3, <1>4

LEMMA RefinesStep ==
  ASSUME SerialInv, Serial, Mapped, Mapped', Next
  PROVE  Life!Next \/ UNCHANGED Life!lifeVars
<1>1. CASE \E f \in Rfqs : Create(f) \/ DeadlinePasses(f)
  BY <1>1, RowsRefine
<1>2. ASSUME NEW r \in Requests, ~Awarding(r), ~Awarding(r)'
      PROVE  /\ settledRfqs = rfqs /\ settledQuotes = quotes
             /\ settledRfqs' = rfqs' /\ settledQuotes' = quotes'
  <2>1. \A s \in Requests : ~Awarding(s) /\ ~Awarding(s)'
    BY <1>2 DEF Serial
  <2> QED
    BY <2>1 DEF Mapped
<1>3. ASSUME NEW r \in Requests, Start(r) PROVE UNCHANGED Life!lifeVars
  <2>1. /\ rfqs' = rfqs /\ quotes' = quotes
        /\ req[r].pc = "idle" /\ req'[r].pc \notin {"award_list", "award_reject"}
    BY <1>3, StartReady DEF SerialInv
  <2>2. ~Awarding(r) /\ ~Awarding(r)'
    BY <2>1 DEF Awarding
  <2> QED
    BY <1>2, <2>1, <2>2 DEF Life!lifeVars
<1>4. ASSUME NEW r \in Requests, Advance(r) PROVE Life!Next \/ UNCHANGED Life!lifeVars
  <2>1. CASE AwardAccept(r) \/ AwardList(r) \/ AwardFinish(r) \/ \E q \in Quotes : AwardReject(r, q)
    BY <2>1, AwardRefines
  <2>2. CASE ~(AwardAccept(r) \/ AwardList(r) \/ AwardFinish(r) \/ \E q \in Quotes : AwardReject(r, q))
    <3>1. req[r].pc \notin {"award_list", "award_reject"}
      BY <1>4, <2>2 DEF Advance, UpdateWrite, StatusWrite, SubmitCheck, SubmitInsert,
                        WithdrawCheck, WithdrawWrite, ExpireWrite, At
    <3>2. req'[r].pc \notin {"award_list", "award_reject"}
      <4>k. req \in [Requests -> Request]
        BY Known DEF SerialInv
      <4>1. CASE Return(r)
        BY <4>k, <4>1 DEF Return, Idle
      <4>2. ASSUME NEW to \in {"submit_insert", "withdraw"}, req' = [req EXCEPT ![r].pc = to]
            PROVE  req'[r].pc \notin {"award_list", "award_reject"}
        BY <4>k, <4>2
      <4>3. ASSUME NEW g, req' = [req EXCEPT ![r].expiring = req[r].expiring \ {g}]
            PROVE  req'[r].pc \notin {"award_list", "award_reject"}
        BY <3>1, <4>k, <4>3
      <4> QED
        BY <1>4, <2>2, <4>1, <4>2, <4>3, Branches
           DEF Advance, UpdateWrite, StatusWrite, SubmitInsert, WithdrawWrite
    <3>3. ~Awarding(r) /\ ~Awarding(r)'
      BY <3>1, <3>2 DEF Awarding
    <3> QED
      BY <1>2, <1>4, <3>3, PlainRefines
  <2> QED
    BY <2>1, <2>2
<1> QED
  BY <1>1, <1>3, <1>4 DEF Next, Fail, Serial

-----------------------------------------------------------------------------
(* The theorems.                                                             *)

LEMMA SerialInit ==
  ASSUME Init, Serial
  PROVE  SerialInv /\ Life!Init /\ LifeInv
<1>1. SerialInv
  <2>1. Blank
    BY DEF Init, Blank
  <2>2. \A r \in Requests : Ready(r)
    BY DEF Init, Idle, Ready, At, Awarding, Submitting
  <2> QED
    BY InitHolds, <2>1, <2>2 DEF SerialInv
<1>2. settledRfqs = rfqs /\ settledQuotes = quotes
  <2>1. \A r \in Requests : ~Awarding(r)
    BY DEF Init, Idle, Awarding
  <2> QED
    BY <1>1, <2>1, MappedHolds DEF SerialInv, Mapped
<1>3. Life!Init
  BY <1>2 DEF Init, Life!Init
<1>4. LifeTyped
  BY <1>1, MappedHolds DEF SerialInv, Mapped
<1>5. \A q \in Quotes : settledQuotes[q].status = "absent" /\ settledQuotes[q].rfq \notin Rfqs
  BY <1>2, RfqAssumption DEF Init
<1>6. LifeInv
  BY <1>4, <1>5 DEF LifeInv, Life!Settled, Life!QuotesAreInvited
<1> QED
  BY <1>1, <1>3, <1>6

LEMMA SerialInductive ==
  ASSUME Serial, SerialInv, [Next]_vars
  PROVE  SerialInv' /\ [Life!Next]_Life!lifeVars
<1>1. Mapped
  BY MappedHolds DEF SerialInv
<1>2. CASE Next
  <2>1. SerialInv'
    BY <1>2, SerialStep
  <2>2. IInv'
    BY <2>1 DEF SerialInv
  <2>3. Mapped'
    BY <2>2, MappedHolds, PTL
  <2> QED
    BY <1>1, <1>2, <2>1, <2>3, RefinesStep
<1>3. CASE UNCHANGED vars
  <2>1. rfqs' = rfqs /\ quotes' = quotes /\ req' = req
    BY <1>3 DEF vars
  <2>2. IInv'
    BY <1>3, StutterHolds DEF SerialInv
  <2>3. \A r \in Requests : Ready(r)'
    BY <2>1, RowsReady DEF SerialInv
  <2>4. Blank'
    BY <2>1 DEF SerialInv, Blank
  <2>5. UNCHANGED Life!lifeVars
    BY <2>1 DEF Life!lifeVars, settledRfqs, settledQuotes, Awarding, Losers
  <2> QED
    BY <2>2, <2>3, <2>4, <2>5 DEF SerialInv
<1> QED
  BY <1>2, <1>3

LEMMA LifeInductive ==
  ASSUME LifeInv, [Life!Next]_Life!lifeVars
  PROVE  LifeInv'
<1>1. CASE UNCHANGED Life!lifeVars
  <2>1. settledRfqs' = settledRfqs /\ settledQuotes' = settledQuotes
    BY <1>1 DEF Life!lifeVars
  <2> QED
    BY <2>1 DEF LifeInv, LifeTyped, Life!Settled, Life!QuotesAreInvited
<1> QED
  BY <1>1, LifeStep

\* Requests that come one after the other, and are not interrupted, give exactly
\* the life cycle that the API describes, with awards that take effect at once.
THEOREM SerialImplements == ASSUME Serial PROVE Spec => ImplementsLifecycle
<1>1. Init => SerialInv /\ Life!Init
  BY SerialInit
<1>2. SerialInv /\ [Next]_vars => SerialInv' /\ [Life!Next]_Life!lifeVars
  BY SerialInductive
<1> QED
  BY <1>1, <1>2, PTL DEF Spec, ImplementsLifecycle, Life!Spec

LEMMA LifeInvHolds == ASSUME Serial PROVE Spec => []LifeInv
<1>1. Init => SerialInv /\ LifeInv
  BY SerialInit
<1>2. SerialInv /\ [Next]_vars => SerialInv' /\ [Life!Next]_Life!lifeVars
  BY SerialInductive
<1>3. LifeInv /\ [Life!Next]_Life!lifeVars => LifeInv'
  BY LifeInductive
<1> QED
  BY <1>1, <1>2, <1>3, PTL DEF Spec

\* The award of one request settles the RFQ: one quote accepted, and it is the one
\* the RFQ names; all others rejected or withdrawn.
THEOREM SerialAwardsSettle == ASSUME Serial PROVE Spec => []AwardSettles
<1>1. LifeInv => AwardSettles
  BY DEF LifeInv, AwardSettles
<1> QED
  BY <1>1, LifeInvHolds, PTL

\* Every quote comes from a vendor its RFQ invites, and each vendor quotes once.
THEOREM SerialQuotesInvited == ASSUME Serial PROVE Spec => []QuotesAreInvited
<1>1. LifeInv => QuotesAreInvited
  BY DEF LifeInv, QuotesAreInvited
<1> QED
  BY <1>1, LifeInvHolds, PTL
=============================================================================
