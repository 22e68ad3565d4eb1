------------------------------ MODULE RfqSerial ------------------------------
(***************************************************************************)
(* RfqService with its requests one after the other: the case in which the *)
(* code keeps the promises of RfqLifecycle.  An award spans several        *)
(* statements; it takes effect, seen from outside, when it accepts its     *)
(* quote, because from there on a request that is not interrupted rejects  *)
(* the other quotes and awards the RFQ.  The refinement mapping is the     *)
(* tables with the award in progress carried out.                          *)
(***************************************************************************)
EXTENDS RfqService

Awarding(r) == req[r].pc \in {"award_list", "award_reject"}

settledRfqs == [f \in Rfqs |->
  IF \E r \in Requests : Awarding(r) /\ req[r].rfq = f
    THEN [rfqs[f] EXCEPT !.status = "awarded",
                         !.awarded = req[CHOOSE r \in Requests : Awarding(r)].quote]
    ELSE rfqs[f]]

settledQuotes == [q \in Quotes |->
  IF \E r \in Requests : Awarding(r) /\ q \in Losers(req[r].rfq, req[r].quote)
    THEN [quotes[q] EXCEPT !.status = "rejected"]
    ELSE quotes[q]]

Life == INSTANCE RfqLifecycle WITH rfqs <- settledRfqs, quotes <- settledQuotes

-----------------------------------------------------------------------------
(* Properties.                                                             *)

\* Requests that do not overlap and do not fail give exactly the life cycle
\* that the API describes.
ImplementsLifecycle == Life!Spec

\* The service's awards settle the RFQ (RfqLifecycle!Settled).
AwardSettles == Life!Settled

\* Quotes in the tables come from invited vendors, one each.
QuotesAreInvited == Life!QuotesAreInvited
=============================================================================
