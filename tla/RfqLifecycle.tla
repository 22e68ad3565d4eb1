---------------------------- MODULE RfqLifecycle ----------------------------
(***************************************************************************)
(* What the RFQ API promises to a client that sees each operation happen   *)
(* at once: the life of an RFQ and of its quotes, every operation one      *)
(* step.  RfqSerial shows that RfqService implements this module while no  *)
(* two requests overlap and no statement fails.                            *)
(*                                                                         *)
(* The deadline appears only where the stored deadline decides the effect  *)
(* (the sweep): the service compares it with the clock before it writes,   *)
(* so at the moment of the write it may just have passed.                  *)
(***************************************************************************)
CONSTANTS Rfqs, Quotes, Vendors, Nil

VARIABLES rfqs, quotes

lifeVars == <<rfqs, quotes>>

Init ==
  /\ rfqs = [f \in Rfqs |-> [status |-> "absent", invited |-> {},
                             overdue |-> FALSE, awarded |-> Nil]]
  /\ quotes = [q \in Quotes |-> [status |-> "absent", rfq |-> Nil, vendor |-> Nil]]

MoveRfq(f, status) == rfqs' = [rfqs EXCEPT ![f].status = status] /\ UNCHANGED quotes

Create(f) ==
  /\ rfqs[f].status = "absent"
  /\ \E vs \in SUBSET Vendors :
       rfqs' = [rfqs EXCEPT ![f].status = "draft", ![f].invited = vs]
  /\ UNCHANGED quotes

Edit(f) ==
  /\ rfqs[f].status = "draft"
  /\ \E vs \in SUBSET Vendors, late \in BOOLEAN :
       rfqs' = [rfqs EXCEPT ![f].invited = vs, ![f].overdue = late]
  /\ UNCHANGED quotes

DeadlinePasses(f) ==
  /\ rfqs[f].status # "absent"
  /\ rfqs' = [rfqs EXCEPT ![f].overdue = TRUE]
  /\ UNCHANGED quotes

Publish(f) == rfqs[f].status = "draft" /\ rfqs[f].invited # {} /\ MoveRfq(f, "open")
Close(f)   == rfqs[f].status = "open" /\ MoveRfq(f, "closed")
Cancel(f)  == rfqs[f].status \in {"draft", "open", "closed", "expired"} /\ MoveRfq(f, "cancelled")
Expire(f)  == rfqs[f].status = "open" /\ rfqs[f].overdue /\ MoveRfq(f, "expired")

\* A vendor that is invited quotes once.
Submit(f, v, q) ==
  /\ rfqs[f].status = "open"
  /\ v \in rfqs[f].invited
  /\ quotes[q].status = "absent"
  /\ ~\E p \in Quotes : quotes[p].rfq = f /\ quotes[p].vendor = v
  /\ quotes' = [quotes EXCEPT ![q] = [status |-> "submitted", rfq |-> f, vendor |-> v]]
  /\ UNCHANGED rfqs

Withdraw(q) ==
  /\ quotes[q].status = "submitted"
  /\ rfqs[quotes[q].rfq].status = "open"
  /\ quotes' = [quotes EXCEPT ![q].status = "withdrawn"]
  /\ UNCHANGED rfqs

\* The RFQ, the winner and every quote still submitted are settled together.
Award(f, c) ==
  /\ rfqs[f].status \in {"open", "closed"}
  /\ quotes[c].rfq = f
  /\ rfqs' = [rfqs EXCEPT ![f].status = "awarded", ![f].awarded = c]
  /\ quotes' = [q \in Quotes |->
       IF q = c THEN [quotes[q] EXCEPT !.status = "accepted"]
       ELSE IF quotes[q].rfq = f /\ quotes[q].status = "submitted"
         THEN [quotes[q] EXCEPT !.status = "rejected"]
         ELSE quotes[q]]

Next ==
  \/ \E f \in Rfqs : \/ Create(f) \/ Edit(f) \/ DeadlinePasses(f) \/ Publish(f)
                     \/ Close(f) \/ Cancel(f) \/ Expire(f)
                     \/ \E q \in Quotes : Award(f, q)
                     \/ \E v \in Vendors, q \in Quotes : Submit(f, v, q)
  \/ \E q \in Quotes : Withdraw(q)

Spec == Init /\ [][Next]_lifeVars

-----------------------------------------------------------------------------
(* Properties.                                                             *)

\* Awarding settles an RFQ: the quote it names is the one accepted, every
\* other quote on it is rejected or withdrawn, and an accepted quote belongs
\* to an RFQ that names it.
Settled ==
  \A q \in Quotes :
    /\ quotes[q].status = "accepted" =>
         /\ rfqs[quotes[q].rfq].status = "awarded"
         /\ rfqs[quotes[q].rfq].awarded = q
    /\ quotes[q].status # "absent" /\ rfqs[quotes[q].rfq].status = "awarded"
         /\ rfqs[quotes[q].rfq].awarded # q
         => quotes[q].status \in {"rejected", "withdrawn"}

\* Quotes come from vendors the RFQ invites, and from each of them once.
QuotesAreInvited ==
  \A p \in Quotes : quotes[p].status # "absent" =>
    /\ quotes[p].vendor \in rfqs[quotes[p].rfq].invited
    /\ \A q \in Quotes : quotes[q].rfq = quotes[p].rfq /\ quotes[q].vendor = quotes[p].vendor
                           => q = p
=============================================================================
