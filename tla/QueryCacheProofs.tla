--------------------------- MODULE QueryCacheProofs ---------------------------
(***************************************************************************)
(* What the entry shows, for any records, calls and bounds.                *)
(***************************************************************************)
EXTENDS QueryCache, TLAPS

-----------------------------------------------------------------------------
(* The keys of a file of hooks fit one another.                              *)

\* The keys of the lists, whose arguments stand for one list each.
Everything == {rfqLists \o <<"all">>, orderLists \o <<"all">>,
               portCallLists \o <<"all">>, vesselLists \o <<"all">>}

LEMMA RfqQueryKeys ==
  ASSUME NEW q \in RfqQueries
  PROVE  \/ q.key = rfqLists \o <<"all">>
         \/ \E j \in Ids : /\ q.key \in {rfqDetail(j), rfqQuotes(j), rfqComparison(j)}
                           /\ \E reads : q.reads = reads \X {j}
<1>1. CASE q \in {Query(rfqLists \o <<"all">>, rfqEndpoints.getRFQs, Ids)}
  BY <1>1 DEF Query
<1>2. ASSUME NEW j \in Ids, NEW key \in {rfqDetail(j), rfqQuotes(j), rfqComparison(j)}, NEW reads,
             q = Query(key, reads, {j})
      PROVE  /\ q.key \in {rfqDetail(j), rfqQuotes(j), rfqComparison(j)}
             /\ \E rs : q.reads = rs \X {j}
  BY <1>2 DEF Query
<1> QED
  BY <1>1, <1>2, Zenon DEF RfqQueries

LEMMA RfqKeysFit ==
  ASSUME NEW i \in Ids, NEW q \in RfqQueries, NEW m \in RfqMutations(i),
         Shows(q, m), ~LeftOut(q, m)
  PROVE  Invalidates(m, q)
<1>1. \/ m.calls = {"createRFQ"} /\ m.keys = {rfqLists}
      \/ m.calls = {"submitQuote"} /\ m.keys = {rfqQuotes(i), rfqDetail(i)}
      \/ m.keys = {rfqDetail(i), rfqLists}
      \/ m.keys = {rfqDetail(i), rfqQuotes(i), rfqLists}
  BY DEF RfqMutations, Mutation, Write
<1>2. \E w : m.writes = w \X {i}
  BY DEF RfqMutations, Mutation, Write
<1>3. CASE q.key = rfqLists \o <<"all">>
  <2>1. IsPrefix(rfqLists, q.key)
    BY <1>3 DEF IsPrefix, rfqLists
  <2>2. rfqLists \in m.keys
    BY <1>1, <1>3 DEF LeftOut
  <2> QED
    BY <2>1, <2>2 DEF Invalidates
<1>4. ASSUME NEW j \in Ids, NEW reads, q.reads = reads \X {j},
             q.key \in {rfqDetail(j), rfqQuotes(j), rfqComparison(j)}
      PROVE  Invalidates(m, q)
  <2>1. j = i
    BY <1>2, <1>4 DEF Shows
  <2>2. IsPrefix(rfqDetail(i), q.key)
    BY <1>4, <2>1 DEF IsPrefix, rfqDetail, rfqQuotes, rfqComparison
  <2>3. q.key \notin Everything
    BY <1>4 DEF Everything, rfqDetail, rfqQuotes, rfqComparison,
                rfqLists, orderLists, portCallLists, vesselLists
  <2>4. rfqDetail(i) \in m.keys
    BY <1>1, <2>3 DEF LeftOut, Everything
  <2> QED
    BY <2>2, <2>4 DEF Invalidates
<1> QED
  BY <1>3, <1>4, RfqQueryKeys

LEMMA OrderKeysFit ==
  ASSUME NEW i \in Ids, NEW q \in OrderQueries, NEW m \in OrderMutations(i),
         Shows(q, m), ~LeftOut(q, m)
  PROVE  Invalidates(m, q)
<1>1. \/ m.calls \in {{"createServiceOrder"}, {"deleteServiceOrder"}}
      \/ orderDetail(i) \in m.keys
  BY DEF OrderMutations, Mutation, Write
<1>2. orderLists \in m.keys /\ \E w : m.writes = w \X {i}
  BY DEF OrderMutations, Mutation, Write
<1>3. \/ q.key = orderLists \o <<"all">>
      \/ \E j \in Ids : q.key = orderDetail(j) /\ \E reads : q.reads = reads \X {j}
  <2>1. CASE q \in {Query(orderLists \o <<"all">>, orderEndpoints["getServiceOrders"], Ids)}
    BY <2>1 DEF Query
  <2>2. ASSUME NEW j \in Ids, NEW tables, q = Query(orderDetail(j), tables, {j})
        PROVE  q.key = orderDetail(j) /\ \E reads : q.reads = reads \X {j}
    BY <2>2 DEF Query
  <2> QED
    BY <2>1, <2>2, Zenon DEF OrderQueries
<1>4. CASE q.key = orderLists \o <<"all">>
  <2>1. IsPrefix(orderLists, q.key)
    BY <1>4 DEF IsPrefix, orderLists
  <2> QED
    BY <1>2, <2>1 DEF Invalidates
<1>5. ASSUME NEW j \in Ids, NEW reads, q.reads = reads \X {j}, q.key = orderDetail(j)
      PROVE  Invalidates(m, q)
  <2>1. j = i
    BY <1>2, <1>5 DEF Shows
  <2>2. IsPrefix(orderDetail(i), q.key)
    BY <1>5, <2>1 DEF IsPrefix, orderDetail
  <2>3. q.key \notin Everything
    BY <1>5 DEF Everything, orderDetail, rfqLists, orderLists, portCallLists, vesselLists
  <2>4. orderDetail(i) \in m.keys
    BY <1>1, <2>3 DEF LeftOut, Everything
  <2> QED
    BY <2>2, <2>4 DEF Invalidates
<1> QED
  BY <1>3, <1>4, <1>5

LEMMA PortCallKeysFit ==
  ASSUME NEW i \in Ids, NEW q \in PortCallQueries, NEW m \in PortCallMutations(i),
         Shows(q, m), ~LeftOut(q, m)
  PROVE  Invalidates(m, q)
<1>1. m.calls \in {{"createPortCall"}, {"deletePortCall"}} \/ portCallDetail(i) \in m.keys
  BY DEF PortCallMutations, Mutation, Write
<1>2. portCallLists \in m.keys /\ \E w : m.writes = w \X {i}
  BY DEF PortCallMutations, Mutation, Write
<1>3. \/ q.key = portCallLists \o <<"all">>
      \/ \E j \in Ids : /\ q.key \in {portCallDetail(j), portCallServices(j), portCallTimeline(j)}
                        /\ \E reads : q.reads = reads \X {j}
  <2>1. ASSUME NEW j \in Ids, NEW key \in {portCallDetail(j), portCallServices(j), portCallTimeline(j)},
               NEW tables, q = Query(key, tables, {j})
        PROVE  /\ q.key \in {portCallDetail(j), portCallServices(j), portCallTimeline(j)}
               /\ \E reads : q.reads = reads \X {j}
    BY <2>1 DEF Query
  <2>2. CASE q \in {Query(portCallLists \o <<"all">>, portCallEndpoints.getPortCalls, Ids)}
    BY <2>2 DEF Query
  <2> QED
    BY <2>1, <2>2, Zenon DEF PortCallQueries
<1>4. CASE q.key = portCallLists \o <<"all">>
  <2>1. IsPrefix(portCallLists, q.key)
    BY <1>4 DEF IsPrefix, portCallLists
  <2> QED
    BY <1>2, <2>1 DEF Invalidates
<1>5. ASSUME NEW j \in Ids, NEW reads, q.reads = reads \X {j},
             q.key \in {portCallDetail(j), portCallServices(j), portCallTimeline(j)}
      PROVE  Invalidates(m, q)
  <2>1. j = i
    BY <1>2, <1>5 DEF Shows
  <2>2. IsPrefix(portCallDetail(i), q.key)
    BY <1>5, <2>1 DEF IsPrefix, portCallDetail, portCallServices, portCallTimeline
  <2>3. q.key \notin Everything
    BY <1>5 DEF Everything, portCallDetail, portCallServices, portCallTimeline,
                rfqLists, orderLists, portCallLists, vesselLists
  <2>4. portCallDetail(i) \in m.keys
    BY <1>1, <2>3 DEF LeftOut, Everything
  <2> QED
    BY <2>2, <2>4 DEF Invalidates
<1> QED
  BY <1>3, <1>4, <1>5

\* Vessels and positions are read by different queries.
LEMMA VesselReads ==
  /\ \A q \in VesselQueries : q.reads \subseteq {"vessel"} \X Ids
  /\ \A q \in PositionQueries : q.reads \subseteq {"position"} \X Ids
<1>1. ASSUME NEW q \in VesselQueries PROVE q.reads \subseteq {"vessel"} \X Ids
  BY DEF VesselQueries, Query, vesselEndpoints
<1>2. /\ positionEndpoints["getFleetPositions"] = {"position"}
      /\ positionEndpoints["getVesselPosition"] = {"position"}
      /\ positionEndpoints["getVesselTrack"] = {"position"}
  BY DEF positionEndpoints
<1>3. ASSUME NEW q, NEW key, NEW ids \in SUBSET Ids,
             q = Query(key, {"position"}, ids) \/ q = Polled(Query(key, {"position"}, ids))
      PROVE  q.reads \subseteq {"position"} \X Ids
  BY <1>3 DEF Query, Polled
<1>4. ASSUME NEW q \in {Polled(Query(fleetPositions, positionEndpoints["getFleetPositions"], Ids))}
      PROVE  q.reads \subseteq {"position"} \X Ids
  BY <1>2, <1>3, <1>4
<1>5. \A j \in Ids : {j} \in SUBSET Ids
  OBVIOUS
<1>6. ASSUME NEW q \in PositionQueries PROVE q.reads \subseteq {"position"} \X Ids
  BY <1>2, <1>3, <1>4, <1>5, Zenon DEF PositionQueries
<1> QED
  BY <1>1, <1>6

LEMMA VesselKeysFit ==
  ASSUME NEW i \in Ids, NEW q \in VesselQueries \cup PositionQueries, NEW m \in VesselMutations(i),
         Shows(q, m), ~LeftOut(q, m)
  PROVE  Invalidates(m, q)
<1>1. \/ /\ m.calls = {"createVessel"} /\ m.keys = {vesselLists}
         /\ m.writes = {"vessel"} \X {i}
      \/ /\ m.calls = {"updateVessel"} /\ m.keys = {vesselDetail(i), vesselLists}
         /\ m.writes = {"vessel"} \X {i}
      \/ m.calls = {"refreshPositions"} /\ m.keys = {fleetPositions}
  <2>1. /\ UNION {vesselEndpoints[c] : c \in {"createVessel"}} = {"vessel"}
        /\ UNION {vesselEndpoints[c] : c \in {"updateVessel"}} = {"vessel"}
    BY DEF vesselEndpoints
  <2>2. CASE m = RefreshPositions({fleetPositions})
    BY <2>2 DEF RefreshPositions
  <2>3. CASE m = Mutation(vesselEndpoints, {"createVessel"}, i, {vesselLists})
    BY <2>1, <2>3 DEF Mutation, Write
  <2>4. CASE m = Mutation(vesselEndpoints, {"updateVessel"}, i, {vesselDetail(i), vesselLists})
    BY <2>1, <2>4 DEF Mutation, Write
  <2> QED
    BY <2>2, <2>3, <2>4, Zenon DEF VesselMutations
<1>2. CASE m.calls = {"refreshPositions"} /\ m.keys = {fleetPositions}
  <2>1. q.key = fleetPositions
    BY <1>2 DEF LeftOut
  <2>2. IsPrefix(fleetPositions, q.key)
    BY <2>1 DEF IsPrefix, fleetPositions
  <2> QED
    BY <1>2, <2>2 DEF Invalidates
<1>3. CASE m.writes = {"vessel"} \X {i} /\ m.calls \in {{"createVessel"}, {"updateVessel"}}
  <2>1. q \in VesselQueries
    BY <1>3, VesselReads DEF Shows
  <2>2. \/ q.key = vesselLists \o <<"all">>
        \/ \E j \in Ids : /\ q.key = vesselDetail(j) \/ q.key = <<"vessels", "imo", j>>
                          /\ \E reads : q.reads = reads \X {j}
    <3>1. ASSUME NEW j \in Ids, NEW key, key = vesselDetail(j) \/ key = <<"vessels", "imo", j>>,
                 NEW tables, q = Query(key, tables, {j})
          PROVE  /\ q.key = vesselDetail(j) \/ q.key = <<"vessels", "imo", j>>
                 /\ \E reads : q.reads = reads \X {j}
      BY <3>1 DEF Query
    <3>2. CASE q \in {Query(vesselLists \o <<"all">>, vesselEndpoints["getVessels"], Ids)}
      BY <3>2 DEF Query
    <3> QED
      BY <2>1, <3>1, <3>2, Zenon DEF VesselQueries
  <2>3. CASE q.key = vesselLists \o <<"all">>
    <3>1. IsPrefix(vesselLists, q.key)
      BY <2>3 DEF IsPrefix, vesselLists
    <3> QED
      BY <1>1, <1>3, <3>1 DEF Invalidates
  <2>4. ASSUME NEW j \in Ids, NEW reads, q.reads = reads \X {j}, q.key = vesselDetail(j)
        PROVE  Invalidates(m, q)
    <3>1. j = i
      BY <1>3, <2>4 DEF Shows
    <3>2. IsPrefix(vesselDetail(i), q.key)
      BY <2>4, <3>1 DEF IsPrefix, vesselDetail
    <3>3. q.key \notin Everything
      BY <2>4 DEF Everything, vesselDetail, rfqLists, orderLists, portCallLists, vesselLists
    <3>4. vesselDetail(i) \in m.keys
      BY <1>1, <1>3, <3>3 DEF LeftOut, Everything
    <3> QED
      BY <3>2, <3>4 DEF Invalidates
  <2>5. ~\E j \in Ids : q.key = <<"vessels", "imo", j>>
    BY <1>3 DEF LeftOut
  <2> QED
    BY <2>2, <2>3, <2>4, <2>5
<1> QED
  BY <1>1, <1>2, <1>3

LEMMA HooksFit ==
  ASSUME NEW q, NEW m, SameFile(q, m), Shows(q, m), ~LeftOut(q, m)
  PROVE  Invalidates(m, q)
BY RfqKeysFit, OrderKeysFit, PortCallKeysFit, VesselKeysFit, Zenon DEF SameFile

-----------------------------------------------------------------------------
(* The keys of the events fit the keys of all the files.                     *)


\* Every key of the queries starts with k, and they read these tables at most.
Within(q, k, tables) == IsPrefix(k, q.key) /\ \A row \in q.reads : row[1] \in tables

LEMMA QueryWithin ==
  ASSUME NEW k, NEW key, IsPrefix(k, key), NEW tables, NEW ts \in SUBSET tables, NEW ids, NEW q,
         q = Query(key, ts, ids) \/ q = Polled(Query(key, ts, ids))
  PROVE  Within(q, k, tables)
BY DEF Query, Polled, Within

LEMMA RfqWithin ==
  ASSUME NEW q \in RfqQueries
  PROVE  Within(q, <<"rfqs">>, {"rfq", "quote"})
<1> DEFINE tables == {"rfq", "quote"}
           k      == <<"rfqs">>
<1>1. /\ rfqEndpoints.getRFQs \in SUBSET tables /\ rfqEndpoints.getRFQ \in SUBSET tables
      /\ rfqEndpoints.getRFQQuotes \in SUBSET tables /\ rfqEndpoints.compareRFQQuotes \in SUBSET tables
  BY DEF rfqEndpoints
<1>2. /\ IsPrefix(k, rfqLists \o <<"all">>)
      /\ \A j : IsPrefix(k, rfqDetail(j)) /\ IsPrefix(k, rfqQuotes(j)) /\ IsPrefix(k, rfqComparison(j))
  BY DEF IsPrefix, rfqLists, rfqDetail, rfqQuotes, rfqComparison
<1> HIDE DEF tables, k
<1>3. ASSUME NEW key, IsPrefix(k, key), NEW ts \in SUBSET tables, NEW ids, q = Query(key, ts, ids)
      PROVE  Within(q, k, tables)
  BY <1>3, QueryWithin
<1>4. ASSUME q \in {Query(rfqLists \o <<"all">>, rfqEndpoints.getRFQs, Ids)}
      PROVE  Within(q, k, tables)
  BY <1>1, <1>2, <1>3, <1>4
<1>5. Within(q, k, tables)
  BY <1>1, <1>2, <1>3, <1>4, Zenon DEF RfqQueries
<1> QED
  BY <1>5 DEF tables, k

LEMMA OrderWithin ==
  ASSUME NEW q \in OrderQueries
  PROVE  Within(q, <<"service-orders">>, {"order"})
<1> DEFINE tables == {"order"}
           k      == <<"service-orders">>
<1>1. orderEndpoints["getServiceOrders"] \in SUBSET tables /\ orderEndpoints["getServiceOrder"] \in SUBSET tables
  BY DEF orderEndpoints
<1>2. IsPrefix(k, orderLists \o <<"all">>) /\ \A j : IsPrefix(k, orderDetail(j))
  BY DEF IsPrefix, orderLists, orderDetail
<1> HIDE DEF tables, k
<1>3. ASSUME NEW key, IsPrefix(k, key), NEW ts \in SUBSET tables, NEW ids, q = Query(key, ts, ids)
      PROVE  Within(q, k, tables)
  BY <1>3, QueryWithin
<1>4. ASSUME q \in {Query(orderLists \o <<"all">>, orderEndpoints["getServiceOrders"], Ids)}
      PROVE  Within(q, k, tables)
  BY <1>1, <1>2, <1>3, <1>4
<1>5. Within(q, k, tables)
  BY <1>1, <1>2, <1>3, <1>4, Zenon DEF OrderQueries
<1> QED
  BY <1>5 DEF tables, k

\* The services of a port call are the only query of the file that reads orders.
LEMMA PortCallWithin ==
  ASSUME NEW q \in PortCallQueries
  PROVE  \/ Within(q, <<"port-calls">>, {"portCall", "vessel", "timeline"})
         \/ \E j \in Ids : q.key = portCallServices(j)
<1> DEFINE tables == {"portCall", "vessel", "timeline"}
           k      == <<"port-calls">>
<1>1. /\ portCallEndpoints.getPortCalls \in SUBSET tables /\ portCallEndpoints.getPortCall \in SUBSET tables
      /\ portCallEndpoints.getPortCallTimeline \in SUBSET tables
  BY DEF portCallEndpoints
<1>2. /\ IsPrefix(k, portCallLists \o <<"all">>)
      /\ \A j : IsPrefix(k, portCallDetail(j)) /\ IsPrefix(k, portCallTimeline(j))
  BY DEF IsPrefix, portCallLists, portCallDetail, portCallTimeline
<1> HIDE DEF tables, k
<1>3. ASSUME NEW key, IsPrefix(k, key), NEW ts \in SUBSET tables, NEW ids, q = Query(key, ts, ids)
      PROVE  Within(q, k, tables)
  BY <1>3, QueryWithin
<1>4. ASSUME q \in {Query(portCallLists \o <<"all">>, portCallEndpoints.getPortCalls, Ids)}
      PROVE  Within(q, k, tables)
  BY <1>1, <1>2, <1>3, <1>4
<1>5. ASSUME NEW j \in Ids, NEW ts, q = Query(portCallServices(j), ts, {j})
      PROVE  q.key = portCallServices(j)
  BY <1>5 DEF Query
<1>6. Within(q, k, tables) \/ \E j \in Ids : q.key = portCallServices(j)
  BY <1>1, <1>2, <1>3, <1>4, <1>5, Zenon DEF PortCallQueries
<1> QED
  BY <1>6 DEF tables, k

LEMMA VesselWithin ==
  ASSUME NEW q \in VesselQueries \cup PositionQueries
  PROVE  Within(q, <<"vessels">>, {"vessel", "position"})
<1> DEFINE tables == {"vessel", "position"}
           k      == <<"vessels">>
<1>1. /\ vesselEndpoints["getVessels"] \in SUBSET tables /\ vesselEndpoints["getVessel"] \in SUBSET tables
      /\ vesselEndpoints["getVesselByIMO"] \in SUBSET tables
      /\ positionEndpoints["getFleetPositions"] \in SUBSET tables
      /\ positionEndpoints["getVesselPosition"] \in SUBSET tables
      /\ positionEndpoints["getVesselTrack"] \in SUBSET tables
  BY DEF vesselEndpoints, positionEndpoints
<1>2. /\ IsPrefix(k, vesselLists \o <<"all">>) /\ IsPrefix(k, fleetPositions)
      /\ \A j : /\ IsPrefix(k, vesselDetail(j)) /\ IsPrefix(k, <<"vessels", "imo", j>>)
                /\ IsPrefix(k, <<"vessels", "positions", "vessel", j>>)
                /\ IsPrefix(k, <<"vessels", "positions", "track", j>>)
  BY DEF IsPrefix, vesselLists, vesselDetail, fleetPositions
<1> HIDE DEF tables, k
<1>3. ASSUME NEW key, IsPrefix(k, key), NEW ts \in SUBSET tables, NEW ids,
             q = Query(key, ts, ids) \/ q = Polled(Query(key, ts, ids))
      PROVE  Within(q, k, tables)
  BY <1>3, QueryWithin
<1>4. ASSUME \/ q \in {Query(vesselLists \o <<"all">>, vesselEndpoints["getVessels"], Ids)}
             \/ q \in {Polled(Query(fleetPositions, positionEndpoints["getFleetPositions"], Ids))}
      PROVE  Within(q, k, tables)
  BY <1>1, <1>2, <1>3, <1>4
<1>5. ASSUME q \in VesselQueries PROVE Within(q, k, tables)
  BY <1>1, <1>2, <1>3, <1>4, <1>5, Zenon DEF VesselQueries
<1>6. ASSUME q \in PositionQueries PROVE Within(q, k, tables)
  BY <1>1, <1>2, <1>3, <1>4, <1>6, Zenon DEF PositionQueries
<1> QED
  BY <1>5, <1>6 DEF tables, k

LEMMA ComparisonFields ==
  ASSUME NEW q \in ComparisonQueries
  PROVE  \E j \in Ids : q.key = <<"rfq-comparison", j>> /\ q.reads = {"quote"} \X {j}
<1>1. rfqEndpoints.compareRFQQuotes = {"quote"}
  BY DEF rfqEndpoints
<1>2. ASSUME NEW j \in Ids, q = Query(<<"rfq-comparison", j>>, rfqEndpoints.compareRFQQuotes, {j})
      PROVE  q.key = <<"rfq-comparison", j>> /\ q.reads = {"quote"} \X {j}
  BY <1>1, <1>2 DEF Query
<1> QED
  BY <1>2, Zenon DEF ComparisonQueries

LEMMA FleetMapWithin ==
  ASSUME NEW q \in FleetMapQueries
  PROVE  \/ Within(q, <<"vessels">>, {"vessel", "position"})
         \/ Within(q, <<"fleet-positions">>, {"vessel", "position"})
         \/ \E j \in Ids : q.key = <<"vessel-track", j>>
<1>1. /\ vesselEndpoints["getVessels"] \in SUBSET {"vessel", "position"}
      /\ positionEndpoints["getFleetPositions"] \in SUBSET {"vessel", "position"}
  BY DEF vesselEndpoints, positionEndpoints
<1>2. /\ IsPrefix(<<"vessels">>, <<"vessels", "workspace">>)
      /\ IsPrefix(<<"fleet-positions">>, <<"fleet-positions", "workspace">>)
  BY DEF IsPrefix
<1>3. CASE q = Query(<<"vessels", "workspace">>, vesselEndpoints["getVessels"], Ids)
  BY <1>1, <1>2, <1>3, QueryWithin
<1>4. CASE q = Polled(Query(<<"fleet-positions", "workspace">>, positionEndpoints["getFleetPositions"], Ids))
  BY <1>1, <1>2, <1>4, QueryWithin
<1>5. ASSUME NEW j \in Ids, NEW ts, q = Query(<<"vessel-track", j>>, ts, {j})
      PROVE  q.key = <<"vessel-track", j>>
  BY <1>5 DEF Query
<1> QED
  BY <1>3, <1>4, <1>5, Zenon DEF FleetMapQueries

LEMMA EventsFit ==
  ASSUME NEW q \in Queries, NEW m \in Events, Shows(q, m), ~EventsLeaveOut(q, m)
  PROVE  Invalidates(m, q)
<1>1. PICK i \in Ids :
        \/ m = Write({"portCall", "timeline"}, i, {<<"port-calls">>, <<"port-call", i>>})
        \/ m = Write({"vessel", "position"}, i, {<<"vessels">>, <<"fleet-positions">>, <<"vessel", i>>})
        \/ m = Write({"order"}, i, {<<"service-orders">>, <<"service-order", i>>})
        \/ m = Write({"rfq", "quote"}, i, {<<"rfqs">>, <<"rfq", i>>, <<"rfq-comparison", i>>})
  BY Zenon DEF Events
<1>2. \/ /\ m.writes = {"portCall", "timeline"} \X {i} /\ <<"port-calls">> \in m.keys
      \/ m.writes = {"vessel", "position"} \X {i} /\ <<"vessels">> \in m.keys /\ <<"fleet-positions">> \in m.keys
      \/ m.writes = {"order"} \X {i} /\ <<"service-orders">> \in m.keys
      \/ m.writes = {"rfq", "quote"} \X {i} /\ <<"rfqs">> \in m.keys /\ <<"rfq-comparison", i>> \in m.keys
  BY <1>1 DEF Write
<1>0. \A j \in Ids : q.key \notin {portCallServices(j), <<"vessel-track", j>>}
  BY DEF EventsLeaveOut
<1>3. ASSUME NEW k, NEW tables, Within(q, k, tables),
             \/ k = <<"rfqs">> /\ tables = {"rfq", "quote"}
             \/ k = <<"service-orders">> /\ tables = {"order"}
             \/ /\ k = <<"port-calls">> /\ tables = {"portCall", "vessel", "timeline"}
                /\ \A row \in m.writes : row[1] # "vessel"
             \/ k \in {<<"vessels">>, <<"fleet-positions">>} /\ tables = {"vessel", "position"}
      PROVE  Invalidates(m, q)
  <2>1. PICK row \in m.writes : row[1] \in tables
    BY <1>3 DEF Within, Shows
  <2>2. k \in m.keys
    BY <1>2, <1>3, <2>1
  <2> QED
    BY <1>3, <2>2 DEF Within, Invalidates
<1>4. CASE q \in RfqQueries
  BY <1>3, <1>4, RfqWithin
<1>5. CASE q \in OrderQueries
  BY <1>3, <1>5, OrderWithin
<1>6. CASE q \in PortCallQueries
  <2>1. \A row \in m.writes : row[1] # "vessel"
    BY <1>2, <1>6 DEF EventsLeaveOut
  <2> QED
    BY <1>0, <1>3, <1>6, <2>1, PortCallWithin
<1>7. CASE q \in VesselQueries \cup PositionQueries
  BY <1>3, <1>7, VesselWithin
<1>8. CASE q \in ComparisonQueries
  <2>1. PICK j \in Ids : q.key = <<"rfq-comparison", j>> /\ q.reads = {"quote"} \X {j}
    BY <1>8, ComparisonFields
  <2>2. j = i /\ <<"rfq-comparison", i>> \in m.keys
    BY <1>2, <2>1 DEF Shows
  <2>3. IsPrefix(<<"rfq-comparison", i>>, q.key)
    BY <2>1, <2>2 DEF IsPrefix
  <2> QED
    BY <2>2, <2>3 DEF Invalidates
<1>9. CASE q \in FleetMapQueries
  BY <1>0, <1>3, <1>9, FleetMapWithin
<1> QED
  BY <1>4, <1>5, <1>6, <1>7, <1>8, <1>9 DEF Queries

-----------------------------------------------------------------------------
(* What has been invalidated is marked stale, asked for again, or shown.     *)

\* A handled call that the keys were invalidated for: its writes are in what is
\* shown, or that is marked or asked for again.  While they are not committed
\* no read that counts has happened.
Counts(c) == /\ call[c] = "handled" /\ rows[c] \in {"open", "committed"}
             /\ Invalidates(mutation[c], query) /\ c \notin joined \cup early

Fresh(c) ==
  Counts(c) =>
    /\ entry.loaded /\ ~entry.stale /\ ~entry.error /\ entry.fetch = "none" => c \in entry.data
    /\ entry.fetch = "read" => c \in entry.snapshot
    /\ AtRest => c \in entry.data

CacheInv == TypeOK /\ \A c \in Calls : Fresh(c)

LEMMA FetchFields ==
  ASSUME NEW e \in Entry, NEW cancel \in BOOLEAN
  PROVE  /\ Fetch(e, cancel) \in Entry
         /\ Fetch(e, cancel).loaded = e.loaded /\ Fetch(e, cancel).data = e.data
         /\ Fetch(e, cancel).stale = e.stale /\ Fetch(e, cancel).mounted = e.mounted
         /\ Fetch(e, cancel).error = e.error
         /\ \/ Fetch(e, cancel) = e /\ e.fetch # "none" /\ ~(cancel /\ e.loaded)
            \/ Fetch(e, cancel).fetch = "sent"
BY DEF Fetch, Entry

LEMMA CacheInit == Init => CacheInv
<1> SUFFICES ASSUME Init PROVE CacheInv
  OBVIOUS
<1>1. Empty \in Entry
  BY DEF Empty, Entry
<1>2. mutation \in [Calls -> Mutations \cup Events]
  BY DEF Init
<1>3. TypeOK
  BY <1>1, <1>2, CacheAssumption DEF Init, TypeOK, Steps, Writes
<1> QED
  BY <1>3 DEF Init, CacheInv, Fresh, Counts

LEMMA CacheNext == CacheInv /\ [Next]_vars => CacheInv'
<1> SUFFICES ASSUME CacheInv, [Next]_vars PROVE CacheInv'
  OBVIOUS
<1>k. /\ TypeOK /\ \A c \in Calls : Fresh(c)
      /\ entry \in Entry /\ call \in [Calls -> Steps] /\ rows \in [Calls -> Writes] /\ ages \in Nat /\ faults \in Nat
  BY CacheAssumption DEF CacheInv, TypeOK
\* the steps that only change the entry
<1>a. ASSUME entry' \in Entry, UNCHANGED <<query, mutation, call, rows, joined, early>>,
             ages' \in 0..MaxStale, faults' \in 0..MaxFaults,
             \A c \in Calls : Fresh(c) /\ Counts(c) =>
               /\ entry'.loaded /\ ~entry'.stale /\ ~entry'.error /\ entry'.fetch = "none" => c \in entry'.data
               /\ entry'.fetch = "read" => c \in entry'.snapshot
               /\ entry'.mounted /\ entry'.fetch = "none" /\ ~entry'.error => c \in entry'.data
      PROVE  CacheInv'
  <2>1. TypeOK'
    BY <1>k, <1>a DEF TypeOK
  <2>2. ASSUME NEW c \in Calls PROVE Fresh(c)'
    BY <1>k, <1>a DEF Fresh, Counts, AtRest
  <2> QED
    BY <2>1, <2>2 DEF CacheInv
<1>b. ages \in 0..MaxStale /\ faults \in 0..MaxFaults
  BY <1>k DEF TypeOK
<1>1. CASE Mount
  <2> DEFINE shown_ == [entry EXCEPT !.mounted = TRUE]
  <2>1. /\ shown_ \in Entry /\ shown_.loaded = entry.loaded /\ shown_.data = entry.data
        /\ shown_.stale = entry.stale /\ shown_.error = entry.error /\ shown_.mounted = TRUE
        /\ shown_.fetch = entry.fetch /\ shown_.snapshot = entry.snapshot
    BY <1>k DEF Entry
  <2>2. entry' = IF entry.loaded /\ ~entry.stale THEN shown_ ELSE Fetch(shown_, FALSE)
    BY <1>1 DEF Mount
  <2> HIDE DEF shown_
  <2>3. /\ entry' \in Entry /\ entry'.loaded = entry.loaded /\ entry'.data = entry.data
        /\ entry'.stale = entry.stale /\ entry'.error = entry.error
        /\ entry'.fetch = "read" => entry.fetch = "read" /\ entry'.snapshot = entry.snapshot
        /\ entry'.fetch = "none" => entry.loaded /\ ~entry.stale /\ entry.fetch = "none"
    BY <2>1, <2>2, FetchFields
  <2> QED
    BY <1>1, <1>a, <1>b, <2>3 DEF Mount, Fresh
<1>2. CASE Unmount
  BY <1>2, <1>k, <1>a, <1>b DEF Unmount, Fresh, AtRest, Entry
<1>3. CASE Collect
  BY <1>3, <1>a, <1>b DEF Collect, Empty, Entry
<1>4. CASE GrowStale
  <2>1. ages' \in 0..MaxStale
    BY <1>4, <1>b, CacheAssumption DEF GrowStale
  <2>2. entry' \in Entry /\ entry'.stale = TRUE /\ entry'.fetch = entry.fetch
        /\ entry'.snapshot = entry.snapshot /\ entry'.data = entry.data
        /\ entry'.mounted = entry.mounted /\ entry'.error = entry.error
    BY <1>4, <1>k DEF GrowStale, Entry
  <2> QED
    BY <1>4, <1>a, <1>b, <2>1, <2>2 DEF GrowStale, Fresh, AtRest
<1>5. CASE Poll
  <2>1. entry' \in Entry /\ entry'.loaded = entry.loaded /\ entry'.data = entry.data
        /\ entry'.stale = entry.stale /\ entry'.fetch = "sent"
    BY <1>5, <1>k, FetchFields DEF Poll
  <2> QED
    BY <1>5, <1>a, <1>b, <2>1 DEF Poll, Fresh
<1>6. CASE ServeFetch
  <2>1. /\ UNCHANGED <<query, mutation, call, rows, joined, ages, faults>>
        /\ early' = {c \in Calls : call[c] = "handled" /\ rows[c] = "open"}
        /\ entry' \in Entry /\ entry'.fetch = "read" /\ entry'.snapshot = {c \in Calls : rows[c] = "committed"}
    BY <1>6, <1>k DEF ServeFetch, Committed, Entry
  <2>2. TypeOK'
    BY <1>k, <2>1 DEF TypeOK
  <2>3. ASSUME NEW c \in Calls PROVE Fresh(c)'
    BY <2>1 DEF Fresh, Counts, AtRest
  <2> QED
    BY <2>2, <2>3 DEF CacheInv
<1>7. CASE FetchDone
  BY <1>7, <1>k, <1>a, <1>b DEF FetchDone, Fresh, AtRest, Entry
<1>8. CASE FetchFails
  <2>1. faults' \in 0..MaxFaults
    BY <1>8, <1>b, CacheAssumption DEF FetchFails
  <2>2. entry' \in Entry /\ entry'.fetch = "none" /\ entry'.error = TRUE
        /\ entry'.loaded = entry.loaded /\ entry'.stale = entry.stale /\ entry'.data = entry.data
    BY <1>8, <1>k DEF FetchFails, Entry
  <2> QED
    BY <1>8, <1>a, <1>b, <2>1, <2>2 DEF FetchFails, Fresh
<1>9. ASSUME NEW d \in Calls, Mutate(d) \/ Commit(d) \/ CommitFails(d) \/ AnswerLost(d) PROVE CacheInv'
  <2>1. UNCHANGED <<query, entry, mutation, joined, early, ages>> /\ faults' \in 0..MaxFaults
    BY <1>9, <1>b, CacheAssumption DEF Mutate, Commit, CommitFails, AnswerLost
  <2>2. /\ call' \in [Calls -> Steps] /\ rows' \in [Calls -> Writes]
        /\ \A c \in Calls : Counts(c)' => Counts(c)
    <3>1. CASE Mutate(d)
      BY <1>k, <2>1, <3>1 DEF Mutate, Advance, Counts, Steps, Writes
    <3>2. CASE Commit(d)
      BY <1>k, <2>1, <3>2 DEF Commit, Counts, Steps, Writes
    <3>3. CASE CommitFails(d)
      BY <1>k, <2>1, <3>3 DEF CommitFails, Counts, Steps, Writes
    <3>4. CASE AnswerLost(d)
      BY <1>k, <2>1, <3>4 DEF AnswerLost, Advance, Counts, Steps, Writes
    <3> QED
      BY <1>9, <3>1, <3>2, <3>3, <3>4
  <2>3. TypeOK'
    BY <1>k, <2>1, <2>2 DEF TypeOK
  <2>4. ASSUME NEW c \in Calls PROVE Fresh(c)'
    <3>1. Counts(c)' => Counts(c)
      BY <2>2
    <3>2. AtRest' <=> AtRest
      BY <2>1 DEF AtRest
    <3> QED
      BY <1>k, <2>1, <3>1, <3>2 DEF Fresh
  <2> QED
    BY <2>3, <2>4 DEF CacheInv
<1>10. ASSUME NEW d \in Calls, Handle(d) PROVE CacheInv'
  <2>1. UNCHANGED <<query, mutation, rows, early, ages, faults>> /\ call' = [call EXCEPT ![d] = "handled"]
    BY <1>10 DEF Handle, Advance
  <2>2. CASE ~Invalidates(mutation[d], query)
    <3>1. UNCHANGED <<entry, joined>>
      BY <1>10, <2>2 DEF Handle
    <3>2. TypeOK'
      BY <1>k, <2>1, <3>1 DEF TypeOK, Steps
    <3>3. ASSUME NEW c \in Calls PROVE Fresh(c)'
      BY <1>k, <2>1, <2>2, <3>1 DEF Fresh, Counts, AtRest
    <3> QED
      BY <3>2, <3>3 DEF CacheInv
  <2>3. CASE Invalidates(mutation[d], query)
    <3> DEFINE marked == [entry EXCEPT !.stale = TRUE]
    <3>1. /\ marked \in Entry /\ marked.loaded = entry.loaded /\ marked.data = entry.data
          /\ marked.stale = TRUE /\ marked.error = entry.error /\ marked.mounted = entry.mounted
          /\ marked.fetch = entry.fetch /\ marked.snapshot = entry.snapshot
      BY <1>k DEF Entry
    <3>2. /\ entry' = IF entry.mounted THEN Fetch(marked, TRUE) ELSE marked
          /\ joined' = IF entry.fetch # "none" /\ ~(entry.loaded /\ entry.mounted)
                         THEN joined \cup {d} ELSE joined
      BY <1>10, <2>3 DEF Handle
    <3> HIDE DEF marked
    <3>3. entry' \in Entry /\ entry'.stale = TRUE
      BY <3>1, <3>2, FetchFields
    <3>4. TypeOK'
      BY <1>k, <2>1, <3>2, <3>3 DEF TypeOK, Steps
    \* a fetch that goes on keeps its snapshot; else one is sent, unless no screen is open
    <3>5. \/ entry'.fetch = "sent"
          \/ /\ entry'.fetch = entry.fetch /\ entry'.snapshot = entry.snapshot
             /\ entry'.fetch = "none" => ~entry'.mounted
             /\ entry.fetch = "none" \/ ~(entry.loaded /\ entry.mounted)
      BY <3>1, <3>2, FetchFields
    <3>6. ASSUME NEW c \in Calls PROVE Fresh(c)'
      <4>1. c \notin joined' => c \notin joined /\ (c = d => entry.fetch = "none" \/ (entry.loaded /\ entry.mounted))
        BY <3>2
      <4>2. c # d => call'[c] = call[c]
        BY <1>k, <2>1
      <4> QED
        BY <1>k, <2>1, <3>3, <3>5, <4>1, <4>2 DEF Fresh, Counts, AtRest
    <3> QED
      BY <3>4, <3>6 DEF CacheInv
  <2> QED
    BY <2>2, <2>3
<1>11. CASE UNCHANGED vars
  BY <1>11, <1>k, <1>a, <1>b DEF vars, Fresh, Counts, AtRest
<1> QED
  BY <1>1, <1>2, <1>3, <1>4, <1>5, <1>6, <1>7, <1>8, <1>9, <1>10, <1>11 DEF Next

LEMMA CacheInvHolds == Spec => []CacheInv
BY CacheInit, CacheNext, PTL DEF Spec

-----------------------------------------------------------------------------

\* The entry has its shape, and the bounds are kept.
THEOREM CacheTypeCorrect == Spec => []TypeOK
BY CacheInvHolds, PTL DEF CacheInv

\* Who saves with a hook sees it in every screen of the same hooks that is not
\* loading, but for what LeftOut names (hooks/use-*.ts, onSuccess), whatever else
\* happens to the entry, once a read has followed the commit.
THEOREM HooksShowOwnWrites == Spec => []OwnWritesShown
<1>1. CacheInv => OwnWritesShown
  BY HooksFit DEF CacheInv, Fresh, Counts, Done, OwnWritesShown
<1> QED
  BY <1>1, CacheInvHolds, PTL

\* A delivered event is on every screen that shows what it is about and is not
\* loading, but for what EventsLeaveOut names (useRealtime.ts,
\* invalidateQueriesForEvent).
THEOREM DeliveredEventsShown == Spec => []EventsShown
<1>1. CacheInv => EventsShown
  BY EventsFit DEF CacheInv, Fresh, Counts, Done, EventsShown, TypeOK
<1> QED
  BY <1>1, CacheInvHolds, PTL
=============================================================================
