------------------------------ MODULE QueryCache -----------------------------
(***************************************************************************)
(* What the screens of the operator app (apps/key) show of the server's    *)
(* data.  The hooks (hooks/use-*.ts) and three components declare, for     *)
(* every query, the key it is cached under and the endpoint it reads, and  *)
(* for every mutation the endpoint it calls and the keys it invalidates    *)
(* when it has succeeded; useRealtime.ts invalidates keys for the events   *)
(* that arrive.  Whether a screen shows what its user has just saved       *)
(* depends on these keys, in four files, fitting one another.              *)
(*                                                                         *)
(* The cache itself (@tanstack/react-query 5) is external: its entries are *)
(* independent of one another, so a behaviour follows one entry, any of    *)
(* them, and what happens to it.                                           *)
(***************************************************************************)
EXTENDS Naturals, Sequences, SequencesExt

CONSTANTS
  Ids,        \* ids of records
  Calls,      \* the mutations and the events of a behaviour, in no order
  MaxStale,   \* bound on the times the entry grows stale by itself
  MaxFaults   \* bound on the requests that fail

ASSUME CacheAssumption == MaxStale \in Nat /\ MaxFaults \in Nat

(***************************************************************************)
(* The endpoints that lib/api.ts calls, and the tables that each reads or  *)
(* writes.  Port calls are read together with their vessels (core's        *)
(* repository/portcall.go); no repository fills a vessel's                 *)
(* current_position, whatever the type of the answer says.                 *)
(***************************************************************************)
portCallEndpoints ==
  [getPortCalls        |-> {"portCall", "vessel"},
   getPortCall         |-> {"portCall", "vessel"},
   getPortCallServices |-> {"order"},    getPortCallTimeline |-> {"timeline"},
   createPortCall |-> {"portCall", "timeline"}, updatePortCall |-> {"portCall", "timeline"},
   deletePortCall |-> {"portCall", "timeline"}]

orderEndpoints ==
  [n \in {"getServiceOrders", "getServiceOrder", "createServiceOrder", "updateServiceOrder",
          "deleteServiceOrder", "confirmServiceOrder", "completeServiceOrder"} |-> {"order"}]

rfqEndpoints ==
  [getRFQs     |-> {"rfq", "quote"}, getRFQ           |-> {"rfq", "quote"},
   getRFQQuotes |-> {"quote"},       compareRFQQuotes |-> {"quote"},
   createRFQ |-> {"rfq"}, updateRFQ |-> {"rfq"}, publishRFQ |-> {"rfq"}, closeRFQ |-> {"rfq"},
   cancelRFQ |-> {"rfq"}, awardQuote |-> {"rfq", "quote"}, submitQuote |-> {"quote"}]

vesselEndpoints ==
  [n \in {"getVessels", "getVessel", "getVesselByIMO", "createVessel", "updateVessel"} |-> {"vessel"}]
positionEndpoints ==
  [n \in {"getFleetPositions", "getVesselPosition", "getVesselTrack", "refreshPositions"} |-> {"position"}]

(***************************************************************************)
(* Queries: the key, the rows the answer is made of, and whether the query *)
(* is repeated every minute.  Row <<t, i>> is what table t holds of record *)
(* i; a quote belongs to the RFQ, an order and a timeline to the port call *)
(* of that id, which is also the id of its vessel.                         *)
(***************************************************************************)
Query(key, tables, ids) == [key |-> key, reads |-> tables \X ids, polled |-> FALSE]
Polled(q) == [q EXCEPT !.polled = TRUE]

\* A list's key ends in its filters; a list read without any stands for all.
rfqLists       == <<"rfqs", "list">>
rfqDetail(i)   == <<"rfqs", "detail", i>>
rfqQuotes(i)   == rfqDetail(i) \o <<"quotes">>
rfqComparison(i) == rfqDetail(i) \o <<"comparison">>
RfqQueries ==
  {Query(rfqLists \o <<"all">>, rfqEndpoints.getRFQs, Ids)}
  \cup {Query(rfqDetail(i), rfqEndpoints.getRFQ, {i}) : i \in Ids}
  \cup {Query(rfqQuotes(i), rfqEndpoints.getRFQQuotes, {i}) : i \in Ids}
  \cup {Query(rfqComparison(i), rfqEndpoints.compareRFQQuotes, {i}) : i \in Ids}

orderLists     == <<"service-orders", "list">>
orderDetail(i) == <<"service-orders", "detail", i>>
OrderQueries ==
  {Query(orderLists \o <<"all">>, orderEndpoints["getServiceOrders"], Ids)}
  \cup {Query(orderDetail(i), orderEndpoints["getServiceOrder"], {i}) : i \in Ids}

portCallLists       == <<"port-calls", "list">>
portCallDetail(i)   == <<"port-calls", "detail", i>>
portCallServices(i) == portCallDetail(i) \o <<"services">>
portCallTimeline(i) == portCallDetail(i) \o <<"timeline">>
PortCallQueries ==
  {Query(portCallLists \o <<"all">>, portCallEndpoints.getPortCalls, Ids)}
  \cup {Query(portCallDetail(i), portCallEndpoints.getPortCall, {i}) : i \in Ids}
  \cup {Query(portCallServices(i), portCallEndpoints.getPortCallServices, {i}) : i \in Ids}
  \cup {Query(portCallTimeline(i), portCallEndpoints.getPortCallTimeline, {i}) : i \in Ids}

vesselLists     == <<"vessels", "list">>
vesselDetail(i) == <<"vessels", "detail", i>>
fleetPositions  == <<"vessels", "positions", "fleet", "workspace">>
VesselQueries ==
  {Query(vesselLists \o <<"all">>, vesselEndpoints["getVessels"], Ids)}
  \cup {Query(vesselDetail(i), vesselEndpoints["getVessel"], {i}) : i \in Ids}
  \cup {Query(<<"vessels", "imo", i>>, vesselEndpoints["getVesselByIMO"], {i}) : i \in Ids}
PositionQueries ==
  {Polled(Query(fleetPositions, positionEndpoints["getFleetPositions"], Ids))}
  \cup {Polled(Query(<<"vessels", "positions", "vessel", i>>, positionEndpoints["getVesselPosition"], {i})) : i \in Ids}
  \cup {Query(<<"vessels", "positions", "track", i>>, positionEndpoints["getVesselTrack"], {i}) : i \in Ids}

\* The components that do not use the hooks.
ComparisonQueries == {Query(<<"rfq-comparison", i>>, rfqEndpoints.compareRFQQuotes, {i}) : i \in Ids}
FleetMapQueries ==
  {Query(<<"vessels", "workspace">>, vesselEndpoints["getVessels"], Ids),
   Polled(Query(<<"fleet-positions", "workspace">>, positionEndpoints["getFleetPositions"], Ids))}
  \cup {Query(<<"vessel-track", i>>, positionEndpoints["getVesselTrack"], {i}) : i \in Ids}

Queries == RfqQueries \cup OrderQueries \cup PortCallQueries \cup VesselQueries
           \cup PositionQueries \cup ComparisonQueries \cup FleetMapQueries

(***************************************************************************)
(* Mutations of record i: the endpoints that a hook or component calls     *)
(* (hooks that differ only in the endpoint go together), what they write,  *)
(* and the keys onSuccess invalidates.                                     *)
(***************************************************************************)
Write(tables, i, keys) == [calls |-> {}, writes |-> tables \X {i}, keys |-> keys]
Mutation(endpoints, calls, i, keys) ==
  [Write(UNION {endpoints[c] : c \in calls}, i, keys) EXCEPT !.calls = calls]

RfqMutations(i) ==
  {Mutation(rfqEndpoints, {"createRFQ"}, i, {rfqLists}),
   Mutation(rfqEndpoints, {"submitQuote"}, i, {rfqQuotes(i), rfqDetail(i)}),
   Mutation(rfqEndpoints, {"updateRFQ", "publishRFQ", "closeRFQ", "cancelRFQ"}, i,
            {rfqDetail(i), rfqLists}),
   Mutation(rfqEndpoints, {"awardQuote"}, i, {rfqDetail(i), rfqQuotes(i), rfqLists})}

\* Mutant of OrderMutations: an update leaves the lists as they are.
OrderMutationsListless(i) ==
  {Mutation(orderEndpoints, {"createServiceOrder"}, i, {orderLists, portCallServices(i)}),
   Mutation(orderEndpoints, {"deleteServiceOrder"}, i, {orderLists}),
   Mutation(orderEndpoints, {"updateServiceOrder", "confirmServiceOrder", "completeServiceOrder"}, i,
            {orderDetail(i)})}

OrderMutations(i) ==
  {Mutation(orderEndpoints, {"createServiceOrder"}, i, {orderLists, portCallServices(i)}),
   Mutation(orderEndpoints, {"deleteServiceOrder"}, i, {orderLists}),
   Mutation(orderEndpoints, {"updateServiceOrder", "confirmServiceOrder", "completeServiceOrder"}, i,
            {orderDetail(i), orderLists})}

\* useUpdatePortCallStatus calls updatePortCall, too.
PortCallMutations(i) ==
  {Mutation(portCallEndpoints, {"createPortCall"}, i, {portCallLists}),
   Mutation(portCallEndpoints, {"deletePortCall"}, i, {portCallLists}),
   Mutation(portCallEndpoints, {"updatePortCall"}, i, {portCallDetail(i), portCallLists})}

\* The positions of all the vessels are asked for and recorded.
RefreshPositions(keys) ==
  [calls |-> {"refreshPositions"}, writes |-> positionEndpoints["refreshPositions"] \X Ids, keys |-> keys]

VesselMutations(i) ==
  {Mutation(vesselEndpoints, {"createVessel"}, i, {vesselLists}),
   Mutation(vesselEndpoints, {"updateVessel"}, i, {vesselDetail(i), vesselLists}),
   RefreshPositions({fleetPositions})}

\* The award of QuoteComparison, RFQForm's new and changed RFQ, FleetMap's refresh.
ComponentMutations(i) ==
  {Mutation(rfqEndpoints, {"awardQuote"}, i, {<<"rfq", i>>, <<"rfq-comparison", i>>}),
   Mutation(rfqEndpoints, {"createRFQ"}, i, {<<"rfqs">>}),
   Mutation(rfqEndpoints, {"updateRFQ"}, i, {<<"rfqs">>, <<"rfq", i>>}),
   RefreshPositions({<<"fleet-positions", "workspace">>})}

Mutations == UNION {RfqMutations(i) \cup OrderMutations(i) \cup PortCallMutations(i)
                    \cup VesselMutations(i) \cup ComponentMutations(i) : i \in Ids}

\* Mutant of Events: an event of an RFQ leaves the comparison of its quotes as it is.
EventsWithoutComparison == UNION {
  {Write({"portCall", "timeline"}, i, {<<"port-calls">>, <<"port-call", i>>}),
   Write({"vessel", "position"}, i, {<<"vessels">>, <<"fleet-positions">>, <<"vessel", i>>}),
   Write({"order"}, i, {<<"service-orders">>, <<"service-order", i>>}),
   Write({"rfq", "quote"}, i, {<<"rfqs">>, <<"rfq", i>>})}
  : i \in Ids}

\* invalidateQueriesForEvent: what somebody else has written to a table, and
\* the keys that the event of it invalidates.
Events == UNION {
  {Write({"portCall", "timeline"}, i, {<<"port-calls">>, <<"port-call", i>>}),
   Write({"vessel", "position"}, i, {<<"vessels">>, <<"fleet-positions">>, <<"vessel", i>>}),
   Write({"order"}, i, {<<"service-orders">>, <<"service-order", i>>}),
   Write({"rfq", "quote"}, i, {<<"rfqs">>, <<"rfq", i>>, <<"rfq-comparison", i>>})}
  : i \in Ids}

\* invalidateQueries matches every key that the given one is a prefix of.
Invalidates(m, q) == \E k \in m.keys : IsPrefix(k, q.key)
Shows(q, m)       == q.reads \cap m.writes # {}

\* Core runs a request in a transaction that it commits after the handler has
\* written the answer; the repositories of RFQs do not use it, and the vessel
\* service has none.
InTransaction(m)  == m.writes \cap ({"portCall", "timeline", "order"} \X Ids) # {}

(***************************************************************************)
(* One entry of the cache                                                  *)
(***************************************************************************)
VARIABLES
  query,    \* the query of the entry
  entry,    \* what the cache holds for it
  mutation, \* what each call does
  call,     \* how far each call has come
  rows,     \* what has become of its writes
  joined,   \* the calls whose invalidation met a fetch that it did not replace
  early,    \* the handled calls that were not committed at the last read
  ages, faults

vars == <<query, entry, mutation, call, rows, joined, early, ages, faults>>

\* `data` is the calls whose writes the answer shows, `snapshot` those that
\* the server had committed when it read for the fetch under way.
Entry == [loaded : BOOLEAN, data : SUBSET Calls, fetch : {"none", "sent", "read"},
          snapshot : SUBSET Calls, stale : BOOLEAN, mounted : BOOLEAN, error : BOOLEAN]
Steps == {"none", "answered", "handled", "lost"}
Writes == {"none", "open", "committed", "undone"}

TypeOK ==
  /\ query \in Queries
  /\ entry \in Entry
  /\ mutation \in [Calls -> Mutations \cup Events]
  /\ call \in [Calls -> Steps]
  /\ rows \in [Calls -> Writes]
  /\ joined \subseteq Calls /\ early \subseteq Calls
  /\ ages \in 0..MaxStale /\ faults \in 0..MaxFaults

Empty == [loaded |-> FALSE, data |-> {}, fetch |-> "none", snapshot |-> {},
          stale |-> FALSE, mounted |-> FALSE, error |-> FALSE]

\* A call that has nothing to do with the entry does not touch it.
Init ==
  /\ query \in Queries
  /\ entry = Empty
  /\ mutation \in [Calls -> {m \in Mutations \cup Events : Shows(query, m) \/ Invalidates(m, query)}]
  /\ call = [c \in Calls |-> "none"]
  /\ rows = [c \in Calls |-> "none"]
  /\ joined = {} /\ early = {} /\ ages = 0 /\ faults = 0

Committed == {c \in Calls : rows[c] = "committed"}

\* A fetch is sent.  Under `cancel` it replaces the one under way, unless that
\* is the entry's first; without it the one under way serves both.
Fetch(e, cancel) ==
  IF e.fetch # "none" /\ ~(cancel /\ e.loaded)
    THEN e ELSE [e EXCEPT !.fetch = "sent", !.snapshot = {}]

-----------------------------------------------------------------------------
(* The screen.                                                             *)

Mount ==
  /\ ~entry.mounted
  /\ LET shown == [entry EXCEPT !.mounted = TRUE] IN
       entry' = IF entry.loaded /\ ~entry.stale THEN shown ELSE Fetch(shown, FALSE)
  /\ UNCHANGED <<query, mutation, call, rows, joined, early, ages, faults>>

\* Nothing in the query functions listens to the abort signal: a fetch goes on.
Unmount ==
  /\ entry.mounted
  /\ entry' = [entry EXCEPT !.mounted = FALSE]
  /\ UNCHANGED <<query, mutation, call, rows, joined, early, ages, faults>>

\* An entry that no screen uses is dropped after five minutes.
Collect ==
  /\ ~entry.mounted /\ entry.loaded /\ entry.fetch = "none"
  /\ entry' = Empty
  /\ UNCHANGED <<query, mutation, call, rows, joined, early, ages, faults>>

\* staleTime has passed; a mounted screen does not ask again for that.
GrowStale ==
  /\ entry.loaded /\ ~entry.stale /\ ages < MaxStale
  /\ entry' = [entry EXCEPT !.stale = TRUE]
  /\ ages' = ages + 1
  /\ UNCHANGED <<query, mutation, call, rows, joined, early, faults>>

\* Mutant of Poll: after a failure nothing is asked for any more.
PollUntilError ==
  /\ query.polled /\ entry.mounted /\ entry.fetch = "none" /\ ~entry.error
  /\ entry' = Fetch(entry, FALSE)
  /\ UNCHANGED <<query, mutation, call, rows, joined, early, ages, faults>>

\* refetchInterval
Poll ==
  /\ query.polled /\ entry.mounted /\ entry.fetch = "none"
  /\ entry' = Fetch(entry, FALSE)
  /\ UNCHANGED <<query, mutation, call, rows, joined, early, ages, faults>>

-----------------------------------------------------------------------------
(* The fetch.                                                              *)

ServeFetch ==
  /\ entry.fetch = "sent"
  /\ entry' = [entry EXCEPT !.fetch = "read", !.snapshot = Committed]
  /\ early' = {c \in Calls : call[c] = "handled" /\ rows[c] = "open"}
  /\ UNCHANGED <<query, mutation, call, rows, joined, ages, faults>>

FetchDone ==
  /\ entry.fetch = "read"
  /\ entry' = [entry EXCEPT !.loaded = TRUE, !.data = entry.snapshot, !.snapshot = {},
                            !.fetch = "none", !.stale = FALSE, !.error = FALSE]
  /\ UNCHANGED <<query, mutation, call, rows, joined, early, ages, faults>>

\* Mutant of FetchFails: the fetch ends in a status that no fetch has.
FetchFailsForGood ==
  /\ faults < MaxFaults /\ faults' = faults + 1
  /\ entry.fetch # "none"
  /\ entry' = [entry EXCEPT !.snapshot = {}, !.fetch = "failed", !.error = TRUE]
  /\ UNCHANGED <<query, mutation, call, rows, joined, early, ages>>

\* The request and its three retries fail: what was loaded is still shown.
FetchFails ==
  /\ faults < MaxFaults /\ faults' = faults + 1
  /\ entry.fetch # "none"
  /\ entry' = [entry EXCEPT !.snapshot = {}, !.fetch = "none", !.error = TRUE]
  /\ UNCHANGED <<query, mutation, call, rows, joined, early, ages>>

-----------------------------------------------------------------------------
(* Mutations and events.                                                   *)

Advance(c, step) == call' = [call EXCEPT ![c] = step]

\* What is refused, or lost on the way, has no effect.  Of the rest the handler
\* has written the answer; nothing tells when an event is published.
Mutate(c) ==
  /\ call[c] = "none" /\ Advance(c, "answered")
  /\ rows' = [rows EXCEPT ![c] = IF InTransaction(mutation[c]) THEN "open" ELSE "committed"]
  /\ UNCHANGED <<query, entry, mutation, joined, early, ages, faults>>

Commit(c) ==
  /\ rows[c] = "open" /\ rows' = [rows EXCEPT ![c] = "committed"]
  /\ UNCHANGED <<query, entry, mutation, call, joined, early, ages, faults>>

\* The failure is logged; who called has had the answer.
CommitFails(c) ==
  /\ rows[c] = "open" /\ faults < MaxFaults /\ faults' = faults + 1
  /\ rows' = [rows EXCEPT ![c] = "undone"]
  /\ UNCHANGED <<query, entry, mutation, call, joined, early, ages>>

\* The answer is lost, or the event: the hub drops those of a slow client.
AnswerLost(c) ==
  /\ call[c] = "answered" /\ faults < MaxFaults /\ faults' = faults + 1
  /\ Advance(c, "lost")
  /\ UNCHANGED <<query, entry, mutation, rows, joined, early, ages>>

\* onSuccess, or handleEvent: the keys are invalidated, and what is mounted is
\* fetched again.
Handle(c) ==
  /\ call[c] = "answered" /\ Advance(c, "handled")
  /\ IF Invalidates(mutation[c], query)
       THEN /\ entry' = LET marked == [entry EXCEPT !.stale = TRUE] IN
                        IF entry.mounted THEN Fetch(marked, TRUE) ELSE marked
            /\ joined' = IF entry.fetch # "none" /\ ~(entry.loaded /\ entry.mounted) THEN joined \cup {c} ELSE joined
       ELSE UNCHANGED <<entry, joined>>
  /\ UNCHANGED <<query, mutation, rows, early, ages, faults>>

Next ==
  \/ Mount \/ Unmount \/ Collect \/ GrowStale \/ Poll
  \/ ServeFetch \/ FetchDone \/ FetchFails
  \/ \E c \in Calls : Mutate(c) \/ Commit(c) \/ CommitFails(c) \/ AnswerLost(c) \/ Handle(c)

Spec == Init /\ [][Next]_vars

\* Requests are answered or fail, and the minute passes.
FairSpec == Spec /\ WF_vars(ServeFetch) /\ WF_vars(FetchDone) /\ WF_vars(Poll)

-----------------------------------------------------------------------------
(* Properties.                                                             *)

\* A mutation of a file of hooks, seen from a query of the same file.
SameFile(q, m) == \E i \in Ids :
  \/ q \in RfqQueries /\ m \in RfqMutations(i)
  \/ q \in OrderQueries /\ m \in OrderMutations(i)
  \/ q \in PortCallQueries /\ m \in PortCallMutations(i)
  \/ q \in VesselQueries \cup PositionQueries /\ m \in VesselMutations(i)

\* What the files leave out even of their own queries: the number of quotes in
\* the list of RFQs, the record that is created or deleted, the vessel that was
\* looked up by its IMO number, and of refreshed positions all but the fleet's.
LeftOut(q, m) ==
  \/ "submitQuote" \in m.calls /\ q.key = rfqLists \o <<"all">>
  \/ m.calls \cap {"createRFQ", "createServiceOrder", "deleteServiceOrder",
                   "createPortCall", "deletePortCall", "createVessel"} # {}
     /\ q.key \notin {rfqLists \o <<"all">>, orderLists \o <<"all">>,
                      portCallLists \o <<"all">>, vesselLists \o <<"all">>}
  \/ m.calls \cap {"createVessel", "updateVessel"} # {} /\ (\E i \in Ids : q.key = <<"vessels", "imo", i>>)
  \/ "refreshPositions" \in m.calls /\ q.key # fleetPositions

\* What the events leave out: the services of a port call and the track on the
\* fleet map have keys that no event names, and the vessel that port calls are
\* read with has events that do not name port calls.
EventsLeaveOut(q, m) ==
  \/ \E i \in Ids : q.key \in {portCallServices(i), <<"vessel-track", i>>}
  \/ q \in PortCallQueries /\ m.writes \cap ({"vessel"} \X Ids) # {}

\* A screen that is not loading, and whose last request has not failed.
AtRest == entry.mounted /\ entry.fetch = "none" /\ ~entry.error

\* A call that was handled and committed, other than one that ended during the
\* very first fetch, or during one that a closed screen left behind (these are
\* not repeated), or whose refetch overtook the commit.
Done(c) == call[c] = "handled" /\ rows[c] = "committed" /\ c \notin joined \cup early

\* Who saves with a hook sees it in every screen of the same hooks, other than
\* those of LeftOut, as soon as nothing is loading: also when the mutation
\* overtakes a refetch, another mutation, a remount or its own commit, unless
\* the refetch has read before that (hooks/use-*.ts, onSuccess; rls.go:92-98).
OwnWritesShown ==
  AtRest => \A c \in Calls :
    Done(c) /\ Shows(query, mutation[c])
      /\ SameFile(query, mutation[c]) /\ ~LeftOut(query, mutation[c])
    => c \in entry.data

\* What a delivered event was about is on every screen that shows it once
\* nothing is loading, the components' own keys included, other than those of
\* EventsLeaveOut (useRealtime.ts:156-199).
EventsShown ==
  AtRest => \A c \in Calls :
    Done(c) /\ mutation[c] \in Events /\ Shows(query, mutation[c])
      /\ ~EventsLeaveOut(query, mutation[c])
    => c \in entry.data

\* Positions are asked for every minute: a screen that stays open shows in the
\* end what has become of them, whoever changed them and whatever keys were
\* forgotten (use-vessels.ts:89-122, fleet-map.tsx:43-49).
PolledIsShown ==
  \A c \in Calls :
    (query.polled /\ entry.mounted /\ rows[c] = "committed" /\ Shows(query, mutation[c]))
      ~> (c \in entry.data \/ ~entry.mounted)
=============================================================================
