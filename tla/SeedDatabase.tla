---------------------------- MODULE SeedDatabase ----------------------------
(***************************************************************************)
(* The two scripts that fill the database (packages/db): seeds/index.ts,   *)
(* which clears tables and creates rows, and prisma/seed.ts, which         *)
(* upserts.  They are run by hand, again and again, against a database     *)
(* that an earlier run may have left half done and that the application    *)
(* may be using.  Nothing is a transaction: every statement commits by     *)
(* itself, and a statement that the database refuses ends the script.      *)
(*                                                                         *)
(* The database is a set of rows under the keys of schema.prisma.  A row   *)
(* has the references that the database enforces and those that are only   *)
(* ids in a column, an array or a JSON value.                              *)
(***************************************************************************)
EXTENDS Naturals, Sequences, FiniteSets

CONSTANTS
  AppTables,    \* tables that the application adds rows to while seeds are tried out
  MaxAttempts,  \* bound on the times a script is started
  MaxAppRows    \* bound on the rows the application adds

(***************************************************************************)
(* schema.prisma                                                           *)
(***************************************************************************)
\* Tables with a natural key that is unique: email, imo, unlocode, reference.
UniqueTables == {"user", "vessel", "port", "portCall", "rFQ", "featureFlag"}
\* Rows that go with the rows they refer to, and rows that only lose the reference.
CascadeTables == {"userWorkspace", "portCallTimeline"}
SetNullTables == {"vendorInvitation"}

\* What the application can add: the table, and the table of its parent.
AppParent == [operatorVendorList |-> "vendor", vendorInvitation |-> "vendor",
              portCallTimeline |-> "portCall", message |-> "user",
              automationRule |-> "user", vesselPosition |-> "vessel"]

\* The tables of the ids that such a row holds without a foreign key: whose the
\* entry is, who made it, for which service types.
AppWeak == [operatorVendorList |-> {"organization", "user", "serviceType"},
            vendorInvitation |-> {"organization", "user", "serviceType"},
            portCallTimeline |-> {"user"}, message |-> {}, automationRule |-> {},
            vesselPosition |-> {}]

ASSUME SeedAssumption ==
  AppTables \subseteq DOMAIN AppParent /\ MaxAttempts \in Nat /\ MaxAppRows \in Nat

(***************************************************************************)
(* Statements: create makes a new id, upsert finds a row by its natural    *)
(* key or by an id the script itself has chosen.                           *)
(***************************************************************************)
DeleteMany(t) == {[op |-> "deleteMany", table |-> t]}
Create(t, name, refs, weak) ==
  [op |-> "create", table |-> t, name |-> name, refs |-> refs, weak |-> weak]
Upsert(t, name, refs, weak) ==
  [op |-> "upsert", table |-> t, name |-> name, refs |-> refs, weak |-> weak]

(***************************************************************************)
(* src/seeds/index.ts: a sequence of batches; the statements of a batch    *)
(* (Promise.all) are under way together.                                   *)
(***************************************************************************)
\* Mutants of ClearTables: two tables in the wrong order, one too early.
ClearTablesVesselFirst == <<
  "message", "notification", "automationRule", "incident", "document", "quote", "rFQ",
  "serviceOrder", "vessel", "portCall", "vesselPosition", "port", "serviceType", "agent",
  "vendor", "workspace", "user", "organization">>
ClearTablesVendorFirst == <<
  "vendor", "message", "notification", "automationRule", "incident", "document", "quote",
  "rFQ", "serviceOrder", "portCall", "vesselPosition", "vessel", "port", "serviceType",
  "agent", "workspace", "user", "organization">>

ClearTables == <<
  "message", "notification", "automationRule", "incident", "document", "quote", "rFQ",
  "serviceOrder", "portCall", "vesselPosition", "vessel", "port", "serviceType", "agent",
  "vendor", "workspace", "user", "organization">>
Clear == [n \in DOMAIN ClearTables |-> DeleteMany(ClearTables[n])]

operatorOrg == <<"organization", "Navo_Maritime">>
customerOrg == <<"organization", "Global_Shipping">>
workspace   == <<"workspace", "Global_Fleet">>
admin       == <<"user", "admin@navo.io">>
operator    == <<"user", "operator@navo.io">>
vessel(n)      == <<"vessel", n>>
portCall(n)    == <<"portCall", n>>
port(n)        == <<"port", n>>
serviceType(n) == <<"serviceType", n>>
vendor(n)      == <<"vendor", n>>

Accounts == <<
  {Create("organization", operatorOrg[2], {}, {})},
  {Create("user", admin[2], {operatorOrg}, {})},
  {Create("user", operator[2], {operatorOrg}, {})},
  {Create("organization", customerOrg[2], {}, {})},
  {Create("workspace", workspace[2], {operatorOrg}, {customerOrg})}>>

Ports == {Create("port", n, {}, {}) : n \in {"SGSIN", "NLRTM", "CNSHA", "USHOU", "AEJEA"}}

\* Five of the ten types, the ones referred to: the others are created like them.
ServiceTypes == {
  Create("serviceType", n, {}, {}) : n \in {"Bunker", "Water", "Provisions", "Waste", "Crew"}}

\* By IMO number
Vessels == {Create("vessel", n, {workspace}, {}) : n \in {"9876543", "9876544", "9876545"}}

Vendors == <<
  {Create("organization", "Marine_Fuel", {}, {})},
  {Create("organization", "Port_Services", {}, {})},
  {Create("vendor", "SG-VEN-001", {<<"organization", "Marine_Fuel">>},
          {serviceType("Bunker"), serviceType("Water"), port("SGSIN"), port("AEJEA")}),
   Create("vendor", "NL-VEN-002", {<<"organization", "Port_Services">>},
          {serviceType("Provisions"), serviceType("Waste"), serviceType("Crew"), port("NLRTM")})}>>

Agents == <<
  {Create("organization", "Singapore_Agency", {}, {})},
  {Create("agent", "Singapore", {<<"organization", "Singapore_Agency">>}, {port("SGSIN")})}>>

PortCall(n, v, p, creator, agent) ==
  Create("portCall", n, {vessel(v), port(p), workspace, creator}, agent)
PortCalls == {
  PortCall("PC-1", "9876543", "SGSIN", operator, {<<"agent", "Singapore">>}),
  PortCall("PC-2", "9876544", "NLRTM", operator, {}),
  PortCall("PC-3", "9876545", "AEJEA", operator, {}),
  PortCall("PC-4", "9876543", "USHOU", admin, {}),
  PortCall("PC-5", "9876544", "CNSHA", operator, {})}

Order(pc, type, by) == Create("serviceOrder", type, {portCall(pc), serviceType(type), operator}, by)
ServiceOrders == {
  Order("PC-1", "Bunker", {vendor("SG-VEN-001")}), Order("PC-1", "Water", {}),
  Order("PC-2", "Provisions", {vendor("NL-VEN-002")}), Order("PC-2", "Waste", {vendor("NL-VEN-002")})}

RfqAndQuote == <<
  {Create("rFQ", "RFQ-1", {serviceType("Bunker"), portCall("PC-3"), operator}, {vendor("SG-VEN-001")})},
  {Create("quote", "1", {<<"rFQ", "RFQ-1">>}, {vendor("SG-VEN-001")})}>>

Notifications == {
  Create("notification", "quote_received", {operator}, {<<"rFQ", "RFQ-1">>}),
  Create("notification", "port_call_created", {admin}, {portCall("PC-1")})}

\* In the order of main(): each batch is awaited before the next begins.
SeedRows == <<
  Accounts[1], Accounts[2], Accounts[3], Accounts[4], Accounts[5],
  Ports, ServiceTypes, Vessels, Vendors[1], Vendors[2], Vendors[3], Agents[1], Agents[2],
  PortCalls, ServiceOrders, RfqAndQuote[1], RfqAndQuote[2], Notifications>>

SeedsIndex == Clear \o SeedRows

(***************************************************************************)
(* prisma/seed.ts                                                          *)
(***************************************************************************)
demoOrg == <<"organization", "org_demo">>
demoUser == <<"user", "demo@navo.io">>
demoWorkspace == <<"workspace", "ws_demo">>

DemoAccounts == <<
  {Upsert("organization", demoOrg[2], {}, {})},
  {Upsert("user", demoUser[2], {demoOrg}, {})},
  {Upsert("workspace", demoWorkspace[2], {demoOrg}, {})},
  {Upsert("userWorkspace", "demo", {demoUser, demoWorkspace}, {})}>>

\* SGSIN is a port of seeds/index.ts too; MYPKG and HKHKG are not.
DemoPorts == {Upsert("port", n, {}, {}) : n \in {"SGSIN", "MYPKG", "HKHKG"}}

\* The three IMO numbers are those of seeds/index.ts.
DemoVessels == {
  Upsert("vessel", n, {demoWorkspace}, {}) : n \in {"9876543", "9876544", "9876545"}}

DemoPortCall == {
  Upsert("portCall", "PC-2026-0001", {vessel("9876543"), port("SGSIN"), demoWorkspace, demoUser}, {})}

\* Mutant of DemoServiceTypes: they are created, not upserted.
DemoServiceTypesCreated == {
  Create("serviceType", n, {}, {}) : n \in {"st_bunker", "st_provisions", "st_repairs"}}

DemoServiceTypes == {Upsert("serviceType", n, {}, {}) : n \in {"st_bunker", "st_provisions", "st_repairs"}}

\* Its ports are listed by UN/LOCODE, which refers to no id.
DemoVendor == <<
  {Upsert("organization", "org_vendor_demo", {}, {})},
  {Upsert("vendor", "vendor_demo", {<<"organization", "org_vendor_demo">>},
          {serviceType("st_bunker"), serviceType("st_provisions")})}>>

FeatureFlags == {
  Upsert("featureFlag", k, {}, {}) : k \in {"rfq_enabled", "vessel_tracking_enabled", "analytics_enabled"}}

PrismaSeed == <<
  DemoAccounts[1], DemoAccounts[2], DemoAccounts[3], DemoAccounts[4],
  DemoPorts, DemoVessels, DemoPortCall, DemoServiceTypes, DemoVendor[1], DemoVendor[2],
  FeatureFlags>>

Scripts == {"seeds/index.ts", "prisma/seed.ts"}
Batches(s) == IF s = "prisma/seed.ts" THEN PrismaSeed ELSE SeedsIndex

(***************************************************************************)
(* The database and the script that runs                                   *)
(***************************************************************************)
VARIABLES
  db,         \* the rows: [id, refs, weak], an id being <<table, name, attempt that made it>>
  seeding,    \* the script under way: [script, at, todo, got], or None
  attempts,
  ended,      \* how the last run ended, until the next begins: [script, how]
  disturbed,  \* the application has added a row since the last run began
  appRows

vars == <<db, seeding, attempts, ended, disturbed, appRows>>

None == [script |-> "none", at |-> 0, todo |-> {}, got |-> {}]
Never == [script |-> "none", how |-> "never"]

Ids       == {r.id : r \in db}
IdsOf(t)  == {i \in Ids : i[1] = t}
Find(t, name) == {i \in Ids : i[1] = t /\ i[2] = name}

TypeOK ==
  /\ \A r \in db : DOMAIN r = {"id", "refs", "weak"} /\ r.id[3] \in Nat
  /\ UNION {r.refs : r \in db} \subseteq Ids
  /\ \A i \in Ids : Cardinality({r \in db : r.id = i}) = 1
  /\ \A i \in Ids : i[1] \in UniqueTables => Cardinality(Find(i[1], i[2])) = 1
  /\ seeding.script \in Scripts \cup {"none"}
  /\ seeding.got \subseteq Ids
  /\ attempts \in 0..MaxAttempts /\ appRows \in 0..MaxAppRows
  /\ ended.how \in {"never", "done", "refused", "died"} /\ disturbed \in BOOLEAN

Init ==
  /\ db = {} /\ seeding = None
  /\ attempts = 0 /\ appRows = 0
  /\ ended = Never /\ disturbed = FALSE

\* What the variables of main() hold for a row it has created or found.
Resolve(keys) == {i \in seeding.got : <<i[1], i[2]>> \in keys}

\* Mutant of CanDelete: the database does not mind references.
CanDeleteAnything(t) == TRUE

\* The database refuses to delete rows that others refer to, to use a natural
\* key twice, and to refer to rows that are not there.
CanDelete(t) ==
  LET gone == IdsOf(t) IN
  \A r \in db : r.id[1] \in {t} \cup CascadeTables \cup SetNullTables \/ r.refs \cap gone = {}
CanCreate(st) ==
  /\ st.table \in UniqueTables => Find(st.table, st.name) = {}
  /\ st.refs \subseteq {<<i[1], i[2]>> : i \in Resolve(st.refs)} /\ Resolve(st.refs) \subseteq Ids
Accepts(st) ==
  IF st.op = "deleteMany" THEN CanDelete(st.table)
  ELSE CanCreate(st) \/ (st.op = "upsert" /\ Find(st.table, st.name) # {})

AfterDelete(t) ==
  LET gone == IdsOf(t)
      kept == {r \in db : r.id[1] # t /\ ~(r.id[1] \in CascadeTables /\ r.refs \cap gone # {})} IN
  {IF r.id[1] \in SetNullTables THEN [r EXCEPT !.refs = @ \ gone] ELSE r : r \in kept}

NewRow(st) == [id |-> <<st.table, st.name, attempts>>,
               refs |-> Resolve(st.refs), weak |-> Resolve(st.weak)]

\* The batch without the statement; when it was the last, the next batch.
After(st, got) ==
  LET s == seeding IN
  IF s.todo # {st} THEN [s EXCEPT !.todo = @ \ {st}, !.got = @ \cup got]
  ELSE IF s.at < Len(Batches(s.script))
    THEN [s EXCEPT !.at = @ + 1, !.todo = Batches(s.script)[s.at + 1], !.got = @ \cup got]
  ELSE None

Ends(how) == ended' = [script |-> seeding.script, how |-> how]

-----------------------------------------------------------------------------
Start(s) ==
  /\ seeding = None /\ attempts < MaxAttempts
  /\ attempts' = attempts + 1 /\ disturbed' = FALSE
  /\ seeding' = [script |-> s, at |-> 1, todo |-> Batches(s)[1], got |-> {}]
  /\ ended' = Never
  /\ UNCHANGED <<db, appRows>>

\* One statement of the batch, in any order.  An upsert leaves a row that it
\* finds as it is (update: {}).
Execute(st) ==
  /\ st \in seeding.todo /\ Accepts(st)
  /\ LET found == IF st.op = "upsert" THEN Find(st.table, st.name) ELSE {} IN
       IF st.op = "deleteMany"
         THEN db' = AfterDelete(st.table) /\ seeding' = After(st, {})
         ELSE IF found # {} THEN db' = db /\ seeding' = After(st, found)
         ELSE db' = db \cup {NewRow(st)} /\ seeding' = After(st, {NewRow(st).id})
  /\ IF seeding' = None THEN Ends("done") ELSE UNCHANGED ended
  /\ UNCHANGED <<attempts, disturbed, appRows>>

\* A statement is refused: main() rejects and the process exits.
Refuse(st) ==
  /\ st \in seeding.todo /\ ~Accepts(st)
  /\ seeding' = None /\ Ends("refused")
  /\ UNCHANGED <<db, attempts, disturbed, appRows>>

\* The script is interrupted, or loses the database.
Die ==
  /\ seeding # None
  /\ seeding' = None /\ Ends("died")
  /\ UNCHANGED <<db, attempts, disturbed, appRows>>

\* What a row of the application refers to, if it must refer to anything, and
\* what it can name: all of it, which stands for any part of it.
AppRefs(t)  == {{i} : i \in IdsOf(AppParent[t])} \cup (IF t \in SetNullTables THEN {{}} ELSE {})
AppNames(t) == {i \in Ids : i[1] \in AppWeak[t]}

\* The application adds a row.
AppAdds(t) ==
  /\ appRows < MaxAppRows
  /\ AppWeak[t] # {} => AppNames(t) # {}
  /\ \E refs \in AppRefs(t) :
       db' = db \cup {[id |-> <<t, "app", appRows>>, refs |-> refs, weak |-> AppNames(t)]}
  /\ appRows' = appRows + 1 /\ disturbed' = TRUE
  /\ UNCHANGED <<seeding, attempts, ended>>

\* It awards an RFQ to one of its quotes, whose id it writes into the RFQ.
AppAwards ==
  /\ \E r, q \in db :
       /\ r.id[1] = "rFQ" /\ q.id[1] = "quote" /\ r.id \in q.refs
       /\ db' = (db \ {r}) \cup {[r EXCEPT !.weak = @ \cup {q.id}]}
  /\ UNCHANGED <<seeding, attempts, ended, disturbed, appRows>>

Next ==
  \/ \E s \in Scripts : Start(s)
  \/ \E st \in seeding.todo : Execute(st) \/ Refuse(st)
  \/ Die
  \/ \E t \in AppTables : AppAdds(t)
  \/ AppAwards

Spec == Init /\ [][Next]_vars

-----------------------------------------------------------------------------
(* Properties.                                                             *)

\* "Clear existing data in reverse dependency order" (seeds/index.ts:9): whatever
\* scripts have run before, and wherever they died, the database refuses no
\* statement of a script, unless the application added a row meanwhile or a
\* vendor is on an operator's list, a table that no script clears.
RefusedOnlyInUse ==
  ended.how = "refused" => disturbed \/ IdsOf("operatorVendorList") # {}

\* A script that has run to its end has left each of its rows once, however
\* many runs, complete or not, came before.
Created(s) == {st \in UNION {Batches(s)[n] : n \in DOMAIN Batches(s)} : st.op # "deleteMany"}
FinishedIsWhole ==
  ended.how = "done" /\ seeding = None =>
    \A st \in Created(ended.script) : Cardinality(Find(st.table, st.name)) = 1

\* The ids, by the table of the row and of what it names, that do outlive what they
\* name: the service types and ports of vendors and agents and the winner of an
\* RFQ, which are cleared first, and whatever the application's own rows name.
Dangling ==
  {<<"vendor", "serviceType">>, <<"vendor", "port">>, <<"agent", "port">>, <<"rFQ", "quote">>}
  \cup UNION {{t} \X AppWeak[t] : t \in DOMAIN AppWeak}

\* All other ids that no foreign key guards (the agent of a port call, the vendor of
\* an order, a quote or an invitation to quote, the customer of a workspace, what a
\* notification links to) always name a row that is there: after a crash at any
\* statement, and while a script clears and fills the tables (seeds/index.ts:9-29).
WeakRefsHold ==
  LET there == Ids IN
  \A r \in db : \A i \in r.weak : <<r.id[1], i[1]>> \in Dangling \/ i \in there
=============================================================================
