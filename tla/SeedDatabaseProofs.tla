------------------------- MODULE SeedDatabaseProofs -------------------------
(***************************************************************************)
(* What the seed scripts leave in the database, however often they are run *)
(* and wherever they die, and whatever rows the application adds.          *)
(***************************************************************************)
EXTENDS SeedDatabase, FiniteSetTheorems, SequenceTheorems, TLAPS

-----------------------------------------------------------------------------
(* The order of the tables.                                                *)

\* The batch of seeds/index.ts that clears a table: all 18 come before any row is made.
ClearedAt == [
  message |-> 1, notification |-> 2, automationRule |-> 3, incident |-> 4, document |-> 5,
  quote |-> 6, rFQ |-> 7, serviceOrder |-> 8, portCall |-> 9, vesselPosition |-> 10,
  vessel |-> 11, port |-> 12, serviceType |-> 13, agent |-> 14, vendor |-> 15,
  workspace |-> 16, user |-> 17, organization |-> 18]
Cleared == DOMAIN ClearedAt
\* Rows of these tables go, or let go, when the row they refer to does; or no script
\* clears them.
Loose == CascadeTables \cup SetNullTables \cup {"operatorVendorList"}
\* Foreign keys, and most ids that no key guards, point from a table cleared earlier to
\* one cleared later.
Under(t, u) == t \in Cleared /\ u \in Cleared /\ ClearedAt[t] < ClearedAt[u]
MayRefer(t, u) == u \in Cleared /\ (Under(t, u) \/ t \in Loose)
MayName(t, u) == <<t, u>> \in Dangling \/ Under(t, u)

\* Keys of rows that only prisma/seed.ts makes, by upsert on an id it chooses.
DemoKeys == {
  <<"organization", "org_demo">>, <<"organization", "org_vendor_demo">>,
  <<"workspace", "ws_demo">>,
  <<"userWorkspace", "demo">>, <<"vendor", "vendor_demo">>, <<"serviceType", "st_bunker">>,
  <<"serviceType", "st_provisions">>, <<"serviceType", "st_repairs">>}
Sole(t, name) == t \in UniqueTables \/ <<t, name>> \in DemoKeys

\* The two scripts, and what their batches make.
Index == "seeds/index.ts"
Prisma == "prisma/seed.ts"

Creates(st) == st.op # "deleteMany"
Makes(batch, t, name) == \E st \in batch : Creates(st) /\ st.table = t /\ st.name = name
Made(s, n, t, name) == \E m \in 1..(n - 1) : Makes(Batches(s)[m], t, name)

\* The script at work has still to make the row.
Pending(t, name) ==
  \/ Makes(seeding.todo, t, name)
  \/ \E m \in (seeding.at + 1)..Len(Batches(seeding.script)) :
       Makes(Batches(seeding.script)[m], t, name)

-----------------------------------------------------------------------------
(* The inductive invariant.                                                *)

ByApp(i) == i[2] = "app"

\* What a row refers to is there, and of a table that is cleared later.
RowsOK ==
  \A r \in db :
    /\ r = [id |-> r.id, refs |-> r.refs, weak |-> r.weak]
    /\ r.id = <<r.id[1], r.id[2], r.id[3]>> /\ r.id[3] \in Nat
    /\ \A i \in r.refs : i \in Ids /\ MayRefer(r.id[1], i[1])
    /\ \A i \in r.weak : MayName(r.id[1], i[1])
    /\ IF ByApp(r.id) THEN /\ r.id[1] \in DOMAIN AppParent /\ r.id[3] < appRows
                           /\ \A i \in r.weak : <<r.id[1], i[1]>> \in Dangling
                      ELSE r.id[3] <= attempts

\* An id and a natural key each name one row.
OneOfEach ==
  /\ \A r, q \in db : r.id = q.id => r = q
  /\ \A i, j \in Ids : i[1] = j[1] /\ i[2] = j[2] /\ Sole(i[1], i[2]) => i = j

Bounds ==
  attempts \in 0..MaxAttempts /\ appRows \in 0..MaxAppRows /\ disturbed \in BOOLEAN

\* The script at work stands within one of its batches.
SeedingOK ==
  /\ seeding = [script |-> seeding.script, at |-> seeding.at, todo |-> seeding.todo,
                got |-> seeding.got]
  /\ seeding.script \in Scripts /\ seeding.at \in 1..Len(Batches(seeding.script))
  /\ seeding.todo \subseteq Batches(seeding.script)[seeding.at]
  /\ seeding.got \subseteq Ids /\ ended = Never

\* No row is there of this attempt that it has still to make.
Fresh ==
  \A i \in Ids : ~ByApp(i) /\ i[3] = attempts => ~Pending(i[1], i[2])

\* Each statement that has been carried out has its row among those the script has got.
Kept ==
  \A m \in 1..seeding.at : \A st \in Batches(seeding.script)[m] :
    Creates(st) /\ (m < seeding.at \/ st \notin seeding.todo) =>
      \E i \in seeding.got : i[1] = st.table /\ i[2] = st.name

\* While seeds/index.ts clears, the tables it has passed are empty, but for rows the
\* application adds; afterwards all rows of its tables are of this attempt.
Clearing ==
  seeding.script = Index =>
    /\ seeding.at <= 18 =>
         /\ seeding.got = {}
         /\ \A i \in Ids : i[1] \in Cleared /\ (~ByApp(i) \/ ~disturbed) =>
              ClearedAt[i[1]] >= seeding.at
    /\ seeding.at > 18 =>
         \A i \in Ids : i[1] \in Cleared /\ ~ByApp(i) => i[3] = attempts

Running == SeedingOK /\ Fresh /\ Kept /\ Clearing

Stopped ==
  /\ ended.how \in {"never", "done", "refused", "died"}
  /\ ended.how = "done" => ended.script \in Scripts

Safe ==
  /\ Bounds /\ RowsOK /\ OneOfEach /\ Stopped
  /\ seeding = None \/ Running
  /\ WeakRefsHold /\ RefusedOnlyInUse /\ FinishedIsWhole

\* Two sequences in a row, by the places of both.
LEMMA Joined ==
  ASSUME NEW S, NEW s \in Seq(S), NEW t \in Seq(S), NEW x, x = s \o t
  PROVE  /\ x \in Seq(S) /\ Len(x) = Len(s) + Len(t)
         /\ \A n \in 1..Len(s) : x[n] = s[n]
         /\ \A n \in 1..Len(t) : x[Len(s) + n] = t[n]
<1>1. Len(s) \in Nat /\ Len(t) \in Nat
  OBVIOUS
<1>2. ASSUME NEW n \in 1..Len(t)
      PROVE  Len(s) + n \in 1..(Len(s) + Len(t)) /\ ~(Len(s) + n <= Len(s))
          /\ (Len(s) + n) - Len(s) = n
  BY <1>1
<1>3. ASSUME NEW n \in 1..Len(t) PROVE x[Len(s) + n] = t[n]
  <2>1. x[Len(s) + n] = t[(Len(s) + n) - Len(s)]
    BY <1>2, ConcatProperties
  <2> QED
    BY <1>2, <2>1
<1>4. \A n \in 1..Len(s) : n \in 1..(Len(s) + Len(t)) /\ n <= Len(s)
  BY <1>1
<1> QED
  BY <1>3, <1>4, ConcatProperties

-----------------------------------------------------------------------------
(* The batches of the scripts, by their place.                               *)

\* The deletions come before the rows.
LEMMA IndexParts ==
  ASSUME NEW S, Clear \in Seq(S), SeedRows \in Seq(S), Len(Clear) = 18, Len(SeedRows) = 18
  PROVE  /\ Len(SeedsIndex) = 36 /\ DOMAIN SeedsIndex = 1..36
         /\ \A n \in 1..18 : SeedsIndex[n] = Clear[n]
         /\ \A n \in 1..18 : SeedsIndex[18 + n] = SeedRows[n]
<1>1. PICK a, b, x : a = Clear /\ b = SeedRows /\ x = SeedsIndex
  OBVIOUS
<1>2. a \in Seq(S) /\ b \in Seq(S) /\ x = a \o b
  BY <1>1 DEF SeedsIndex
<1>3. /\ x \in Seq(S) /\ Len(x) = Len(a) + Len(b)
      /\ \A n \in 1..Len(a) : x[n] = a[n]
      /\ \A n \in 1..Len(b) : x[Len(a) + n] = b[n]
  BY <1>2, Joined
<1>4. Len(a) = 18 /\ Len(b) = 18
  BY <1>1
<1>5. /\ Len(x) = 36 /\ DOMAIN x = 1..36
      /\ \A n \in 1..18 : x[n] = a[n]
      /\ \A n \in 1..18 : x[18 + n] = b[n]
  BY <1>3, <1>4
<1> QED
  BY <1>1, <1>5


LEMMA ClearPlaces ==
  /\ DOMAIN ClearTables = 1..18
  /\ \A n \in 1..18 : Clear[n] = DeleteMany(ClearTables[n])
  /\ \A n \in 1..18 : ClearTables[n] \in Cleared /\ ClearedAt[ClearTables[n]] = n
<1>1. DOMAIN ClearTables = 1..18
  BY DEF ClearTables
<1>2. Clear = [n \in 1..18 |-> DeleteMany(ClearTables[n])]
  BY <1>1 DEF Clear
<1>3. \A n \in 1..18 : ClearTables[n] \in Cleared /\ ClearedAt[ClearTables[n]] = n
  BY DEF ClearTables, Cleared, ClearedAt
<1> QED
  BY <1>1, <1>2, <1>3

LEMMA IndexPlaces ==
  /\ Len(SeedsIndex) = 36 /\ DOMAIN SeedsIndex = 1..36
  /\ \A n \in 1..18 : SeedsIndex[n] = DeleteMany(ClearTables[n])
  /\ SeedsIndex[19] = Accounts[1] /\ SeedsIndex[20] = Accounts[2]
  /\ SeedsIndex[21] = Accounts[3] /\ SeedsIndex[22] = Accounts[4]
  /\ SeedsIndex[23] = Accounts[5] /\ SeedsIndex[24] = Ports
  /\ SeedsIndex[25] = ServiceTypes /\ SeedsIndex[26] = Vessels
  /\ SeedsIndex[27] = Vendors[1] /\ SeedsIndex[28] = Vendors[2]
  /\ SeedsIndex[29] = Vendors[3] /\ SeedsIndex[30] = Agents[1]
  /\ SeedsIndex[31] = Agents[2] /\ SeedsIndex[32] = PortCalls
  /\ SeedsIndex[33] = ServiceOrders /\ SeedsIndex[34] = RfqAndQuote[1]
  /\ SeedsIndex[35] = RfqAndQuote[2] /\ SeedsIndex[36] = Notifications
<1>1. PICK S : /\ \A n \in 1..18 : DeleteMany(ClearTables[n]) \in S
               /\ Accounts[1] \in S /\ Accounts[2] \in S /\ Accounts[3] \in S
               /\ Accounts[4] \in S /\ Accounts[5] \in S /\ Ports \in S
               /\ ServiceTypes \in S /\ Vessels \in S /\ Vendors[1] \in S
               /\ Vendors[2] \in S /\ Vendors[3] \in S /\ Agents[1] \in S
               /\ Agents[2] \in S /\ PortCalls \in S /\ ServiceOrders \in S
               /\ RfqAndQuote[1] \in S /\ RfqAndQuote[2] \in S /\ Notifications \in S
  <2> DEFINE T == {DeleteMany(ClearTables[n]) : n \in 1..18} \cup
                  {Accounts[1], Accounts[2], Accounts[3], Accounts[4], Accounts[5], Ports,
                   ServiceTypes, Vessels, Vendors[1], Vendors[2], Vendors[3], Agents[1],
                   Agents[2], PortCalls, ServiceOrders, RfqAndQuote[1], RfqAndQuote[2],
                   Notifications}
  <2> WITNESS T
  <2> QED
    OBVIOUS
<1>2. Clear \in Seq(S) /\ Len(Clear) = 18
  <2>1. Clear = [n \in 1..18 |-> DeleteMany(ClearTables[n])]
    BY ClearPlaces DEF Clear
  <2> QED
    BY <1>1, <2>1
<1>3. /\ SeedRows \in Seq(S) /\ Len(SeedRows) = 18
      /\ SeedRows[1] = Accounts[1] /\ SeedRows[2] = Accounts[2]
      /\ SeedRows[3] = Accounts[3] /\ SeedRows[4] = Accounts[4]
      /\ SeedRows[5] = Accounts[5] /\ SeedRows[6] = Ports /\ SeedRows[7] = ServiceTypes
      /\ SeedRows[8] = Vessels /\ SeedRows[9] = Vendors[1] /\ SeedRows[10] = Vendors[2]
      /\ SeedRows[11] = Vendors[3] /\ SeedRows[12] = Agents[1]
      /\ SeedRows[13] = Agents[2] /\ SeedRows[14] = PortCalls
      /\ SeedRows[15] = ServiceOrders /\ SeedRows[16] = RfqAndQuote[1]
      /\ SeedRows[17] = RfqAndQuote[2] /\ SeedRows[18] = Notifications
  BY <1>1 DEF SeedRows
<1>4. /\ Len(SeedsIndex) = 36 /\ DOMAIN SeedsIndex = 1..36
      /\ \A n \in 1..18 : SeedsIndex[n] = Clear[n]
      /\ \A n \in 1..18 : SeedsIndex[18 + n] = SeedRows[n]
  BY <1>2, <1>3, IndexParts
<1>5. \A n \in 1..18 : SeedsIndex[n] = DeleteMany(ClearTables[n])
  BY <1>4, ClearPlaces
<1>6. ASSUME NEW n \in 19..36 PROVE SeedsIndex[n] = SeedRows[n - 18]
  <2>1. n - 18 \in 1..18 /\ 18 + (n - 18) = n
    OBVIOUS
  <2> QED
    BY <1>4, <2>1
<1>7. /\ SeedsIndex[19] = SeedRows[1] /\ SeedsIndex[20] = SeedRows[2]
      /\ SeedsIndex[21] = SeedRows[3] /\ SeedsIndex[22] = SeedRows[4]
      /\ SeedsIndex[23] = SeedRows[5] /\ SeedsIndex[24] = SeedRows[6]
      /\ SeedsIndex[25] = SeedRows[7] /\ SeedsIndex[26] = SeedRows[8]
      /\ SeedsIndex[27] = SeedRows[9] /\ SeedsIndex[28] = SeedRows[10]
      /\ SeedsIndex[29] = SeedRows[11] /\ SeedsIndex[30] = SeedRows[12]
      /\ SeedsIndex[31] = SeedRows[13] /\ SeedsIndex[32] = SeedRows[14]
      /\ SeedsIndex[33] = SeedRows[15] /\ SeedsIndex[34] = SeedRows[16]
      /\ SeedsIndex[35] = SeedRows[17] /\ SeedsIndex[36] = SeedRows[18]
  BY <1>6
<1>8. /\ SeedsIndex[19] = Accounts[1] /\ SeedsIndex[20] = Accounts[2]
      /\ SeedsIndex[21] = Accounts[3] /\ SeedsIndex[22] = Accounts[4]
      /\ SeedsIndex[23] = Accounts[5] /\ SeedsIndex[24] = Ports
      /\ SeedsIndex[25] = ServiceTypes /\ SeedsIndex[26] = Vessels
      /\ SeedsIndex[27] = Vendors[1] /\ SeedsIndex[28] = Vendors[2]
      /\ SeedsIndex[29] = Vendors[3] /\ SeedsIndex[30] = Agents[1]
      /\ SeedsIndex[31] = Agents[2] /\ SeedsIndex[32] = PortCalls
      /\ SeedsIndex[33] = ServiceOrders /\ SeedsIndex[34] = RfqAndQuote[1]
      /\ SeedsIndex[35] = RfqAndQuote[2] /\ SeedsIndex[36] = Notifications
  BY <1>3, <1>7
<1> QED
  BY <1>4, <1>5, <1>8

LEMMA PrismaPlaces ==
  /\ Len(PrismaSeed) = 11 /\ DOMAIN PrismaSeed = 1..11
  /\ PrismaSeed[1] = DemoAccounts[1] /\ PrismaSeed[2] = DemoAccounts[2]
  /\ PrismaSeed[3] = DemoAccounts[3] /\ PrismaSeed[4] = DemoAccounts[4]
  /\ PrismaSeed[5] = DemoPorts /\ PrismaSeed[6] = DemoVessels
  /\ PrismaSeed[7] = DemoPortCall /\ PrismaSeed[8] = DemoServiceTypes
  /\ PrismaSeed[9] = DemoVendor[1] /\ PrismaSeed[10] = DemoVendor[2]
  /\ PrismaSeed[11] = FeatureFlags
<1>1. PICK S :
        /\ DemoAccounts[1] \in S /\ DemoAccounts[2] \in S /\ DemoAccounts[3] \in S
        /\ DemoAccounts[4] \in S /\ DemoPorts \in S /\ DemoVessels \in S
        /\ DemoPortCall \in S /\ DemoServiceTypes \in S /\ DemoVendor[1] \in S
        /\ DemoVendor[2] \in S /\ FeatureFlags \in S
  <2> WITNESS {DemoAccounts[1], DemoAccounts[2], DemoAccounts[3], DemoAccounts[4],
               DemoPorts, DemoVessels, DemoPortCall, DemoServiceTypes, DemoVendor[1],
               DemoVendor[2], FeatureFlags}
  <2> QED
    OBVIOUS
<1> QED
  BY <1>1 DEF PrismaSeed

\* The batch that makes a row, by its key.
IndexPlace(t, name) ==
  CASE t = "organization" /\ name = "Navo_Maritime" -> 19
    [] t = "user" /\ name = "admin@navo.io" -> 20
    [] t = "user" /\ name = "operator@navo.io" -> 21
    [] t = "organization" /\ name = "Global_Shipping" -> 22
    [] t = "workspace" -> 23
    [] t = "port" -> 24
    [] t = "serviceType" -> 25
    [] t = "vessel" -> 26
    [] t = "organization" /\ name = "Marine_Fuel" -> 27
    [] t = "organization" /\ name = "Port_Services" -> 28
    [] t = "vendor" -> 29
    [] t = "organization" /\ name = "Singapore_Agency" -> 30
    [] t = "agent" -> 31
    [] t = "portCall" -> 32
    [] t = "serviceOrder" -> 33
    [] t = "rFQ" -> 34
    [] t = "quote" -> 35
    [] OTHER -> 36

PrismaPlace(t, name) ==
  CASE t = "organization" /\ name = "org_demo" -> 1
    [] t = "user" -> 2
    [] t = "workspace" -> 3
    [] t = "userWorkspace" -> 4
    [] t = "port" -> 5
    [] t = "vessel" -> 6
    [] t = "portCall" -> 7
    [] t = "serviceType" -> 8
    [] t = "organization" /\ name = "org_vendor_demo" -> 9
    [] t = "vendor" -> 10
    [] OTHER -> 11

\* What every row-making statement of batch n is like.
IndexRow(n, st) ==
  /\ st.op = "create" /\ st.name # "app" /\ st.table \in Cleared
  /\ <<st.table, st.name>> \notin DemoKeys
  /\ IndexPlace(st.table, st.name) = n
  /\ \A k \in st.refs : k = <<k[1], k[2]>> /\ MayRefer(st.table, k[1])
                       /\ Made(Index, n, k[1], k[2])
  /\ \A k \in st.weak : k = <<k[1], k[2]>> /\ MayName(st.table, k[1])
                       /\ Made(Index, n, k[1], k[2])

PrismaRow(n, st) ==
  /\ st.op = "upsert" /\ st.name # "app" /\ Sole(st.table, st.name)
  /\ PrismaPlace(st.table, st.name) = n
  /\ \A k \in st.refs : k = <<k[1], k[2]>> /\ MayRefer(st.table, k[1])
                       /\ Made(Prisma, n, k[1], k[2])
  /\ \A k \in st.weak : k = <<k[1], k[2]>> /\ MayName(st.table, k[1])
                       /\ Made(Prisma, n, k[1], k[2])

\* What a batch makes.
LEMMA CreateMakes ==
  ASSUME NEW t, NEW name, NEW refs, NEW weak, NEW batch, Create(t, name, refs, weak) \in batch
  PROVE  Makes(batch, t, name)
BY DEF Makes, Creates, Create

LEMMA UpsertMakes ==
  ASSUME NEW t, NEW name, NEW refs, NEW weak, NEW batch, Upsert(t, name, refs, weak) \in batch
  PROVE  Makes(batch, t, name)
BY DEF Makes, Creates, Upsert

\* What seeds/index.ts makes that later batches refer to.
LEMMA IndexMakes ==
  /\ Makes(Batches(Index)[19], "organization", "Navo_Maritime")
  /\ Makes(Batches(Index)[20], "user", "admin@navo.io")
  /\ Makes(Batches(Index)[21], "user", "operator@navo.io")
  /\ Makes(Batches(Index)[22], "organization", "Global_Shipping")
  /\ Makes(Batches(Index)[23], "workspace", "Global_Fleet")
  /\ Makes(Batches(Index)[24], "port", "SGSIN")
  /\ Makes(Batches(Index)[24], "port", "NLRTM")
  /\ Makes(Batches(Index)[24], "port", "CNSHA")
  /\ Makes(Batches(Index)[24], "port", "USHOU")
  /\ Makes(Batches(Index)[24], "port", "AEJEA")
  /\ Makes(Batches(Index)[25], "serviceType", "Bunker")
  /\ Makes(Batches(Index)[25], "serviceType", "Water")
  /\ Makes(Batches(Index)[25], "serviceType", "Provisions")
  /\ Makes(Batches(Index)[25], "serviceType", "Waste")
  /\ Makes(Batches(Index)[25], "serviceType", "Crew")
  /\ Makes(Batches(Index)[26], "vessel", "9876543")
  /\ Makes(Batches(Index)[26], "vessel", "9876544")
  /\ Makes(Batches(Index)[26], "vessel", "9876545")
  /\ Makes(Batches(Index)[27], "organization", "Marine_Fuel")
  /\ Makes(Batches(Index)[28], "organization", "Port_Services")
  /\ Makes(Batches(Index)[29], "vendor", "SG-VEN-001")
  /\ Makes(Batches(Index)[29], "vendor", "NL-VEN-002")
  /\ Makes(Batches(Index)[30], "organization", "Singapore_Agency")
  /\ Makes(Batches(Index)[31], "agent", "Singapore")
  /\ Makes(Batches(Index)[32], "portCall", "PC-1")
  /\ Makes(Batches(Index)[32], "portCall", "PC-2")
  /\ Makes(Batches(Index)[32], "portCall", "PC-3")
  /\ Makes(Batches(Index)[34], "rFQ", "RFQ-1")
<1>1. /\ Makes(Batches(Index)[19], "organization", "Navo_Maritime")
  <2>1. /\ Create("organization", "Navo_Maritime", {}, {}) \in Accounts[1]
    BY DEF Accounts, operatorOrg
  <2> QED
    BY <2>1, IndexPlaces, CreateMakes DEF Batches, Index
<1>2. /\ Makes(Batches(Index)[20], "user", "admin@navo.io")
  <2>1. /\ Create("user", "admin@navo.io", {<<"organization", "Navo_Maritime">>}, {})
               \in Accounts[2]
    BY DEF Accounts, operatorOrg, admin
  <2> QED
    BY <2>1, IndexPlaces, CreateMakes DEF Batches, Index
<1>3. /\ Makes(Batches(Index)[21], "user", "operator@navo.io")
  <2>1. /\ Create("user", "operator@navo.io", {<<"organization", "Navo_Maritime">>}, {})
               \in Accounts[3]
    BY DEF Accounts, operatorOrg, operator
  <2> QED
    BY <2>1, IndexPlaces, CreateMakes DEF Batches, Index
<1>4. /\ Makes(Batches(Index)[22], "organization", "Global_Shipping")
  <2>1. /\ Create("organization", "Global_Shipping", {}, {}) \in Accounts[4]
    BY DEF Accounts, customerOrg
  <2> QED
    BY <2>1, IndexPlaces, CreateMakes DEF Batches, Index
<1>5. /\ Makes(Batches(Index)[23], "workspace", "Global_Fleet")
  <2>1. /\ Create("workspace", "Global_Fleet", {<<"organization", "Navo_Maritime">>},
               {<<"organization", "Global_Shipping">>}) \in Accounts[5]
    BY DEF Accounts, customerOrg, operatorOrg, workspace
  <2> QED
    BY <2>1, IndexPlaces, CreateMakes DEF Batches, Index
<1>6. /\ Makes(Batches(Index)[24], "port", "SGSIN")
      /\ Makes(Batches(Index)[24], "port", "NLRTM")
      /\ Makes(Batches(Index)[24], "port", "CNSHA")
      /\ Makes(Batches(Index)[24], "port", "USHOU")
      /\ Makes(Batches(Index)[24], "port", "AEJEA")
  <2>1. /\ Create("port", "SGSIN", {}, {}) \in Ports
        /\ Create("port", "NLRTM", {}, {}) \in Ports
        /\ Create("port", "CNSHA", {}, {}) \in Ports
        /\ Create("port", "USHOU", {}, {}) \in Ports
        /\ Create("port", "AEJEA", {}, {}) \in Ports
    BY DEF Ports
  <2> QED
    BY <2>1, IndexPlaces, CreateMakes DEF Batches, Index
<1>7. /\ Makes(Batches(Index)[25], "serviceType", "Bunker")
      /\ Makes(Batches(Index)[25], "serviceType", "Water")
      /\ Makes(Batches(Index)[25], "serviceType", "Provisions")
      /\ Makes(Batches(Index)[25], "serviceType", "Waste")
      /\ Makes(Batches(Index)[25], "serviceType", "Crew")
  <2>1. /\ Create("serviceType", "Bunker", {}, {}) \in ServiceTypes
        /\ Create("serviceType", "Water", {}, {}) \in ServiceTypes
        /\ Create("serviceType", "Provisions", {}, {}) \in ServiceTypes
        /\ Create("serviceType", "Waste", {}, {}) \in ServiceTypes
        /\ Create("serviceType", "Crew", {}, {}) \in ServiceTypes
    BY DEF ServiceTypes
  <2> QED
    BY <2>1, IndexPlaces, CreateMakes DEF Batches, Index
<1>8. /\ Makes(Batches(Index)[26], "vessel", "9876543")
      /\ Makes(Batches(Index)[26], "vessel", "9876544")
      /\ Makes(Batches(Index)[26], "vessel", "9876545")
  <2>1. /\ Create("vessel", "9876543", {<<"workspace", "Global_Fleet">>}, {}) \in Vessels
        /\ Create("vessel", "9876544", {<<"workspace", "Global_Fleet">>}, {}) \in Vessels
        /\ Create("vessel", "9876545", {<<"workspace", "Global_Fleet">>}, {}) \in Vessels
    BY DEF Vessels, workspace
  <2> QED
    BY <2>1, IndexPlaces, CreateMakes DEF Batches, Index
<1>9. /\ Makes(Batches(Index)[27], "organization", "Marine_Fuel")
  <2>1. /\ Create("organization", "Marine_Fuel", {}, {}) \in Vendors[1]
    BY DEF Vendors
  <2> QED
    BY <2>1, IndexPlaces, CreateMakes DEF Batches, Index
<1>10. /\ Makes(Batches(Index)[28], "organization", "Port_Services")
  <2>1. /\ Create("organization", "Port_Services", {}, {}) \in Vendors[2]
    BY DEF Vendors
  <2> QED
    BY <2>1, IndexPlaces, CreateMakes DEF Batches, Index
<1>11. /\ Makes(Batches(Index)[29], "vendor", "SG-VEN-001")
      /\ Makes(Batches(Index)[29], "vendor", "NL-VEN-002")
  <2>1. /\ Create("vendor", "SG-VEN-001", {<<"organization", "Marine_Fuel">>},
               {<<"serviceType", "Bunker">>, <<"serviceType", "Water">>, <<"port", "SGSIN">>,
               <<"port", "AEJEA">>}) \in Vendors[3]
        /\ Create("vendor", "NL-VEN-002", {<<"organization", "Port_Services">>},
               {<<"serviceType", "Provisions">>, <<"serviceType", "Waste">>,
               <<"serviceType", "Crew">>, <<"port", "NLRTM">>}) \in Vendors[3]
    BY DEF Vendors, port, serviceType
  <2> QED
    BY <2>1, IndexPlaces, CreateMakes DEF Batches, Index
<1>12. /\ Makes(Batches(Index)[30], "organization", "Singapore_Agency")
  <2>1. /\ Create("organization", "Singapore_Agency", {}, {}) \in Agents[1]
    BY DEF Agents
  <2> QED
    BY <2>1, IndexPlaces, CreateMakes DEF Batches, Index
<1>13. /\ Makes(Batches(Index)[31], "agent", "Singapore")
  <2>1. /\ Create("agent", "Singapore", {<<"organization", "Singapore_Agency">>},
               {<<"port", "SGSIN">>}) \in Agents[2]
    BY DEF Agents, port
  <2> QED
    BY <2>1, IndexPlaces, CreateMakes DEF Batches, Index
<1>14. /\ Makes(Batches(Index)[32], "portCall", "PC-1")
      /\ Makes(Batches(Index)[32], "portCall", "PC-2")
      /\ Makes(Batches(Index)[32], "portCall", "PC-3")
  <2>1. /\ Create("portCall", "PC-1", {<<"vessel", "9876543">>, <<"port", "SGSIN">>,
               <<"workspace", "Global_Fleet">>, <<"user", "operator@navo.io">>},
               {<<"agent", "Singapore">>}) \in PortCalls
        /\ Create("portCall", "PC-2", {<<"vessel", "9876544">>, <<"port", "NLRTM">>,
               <<"workspace", "Global_Fleet">>, <<"user", "operator@navo.io">>}, {}) \in PortCalls
        /\ Create("portCall", "PC-3", {<<"vessel", "9876545">>, <<"port", "AEJEA">>,
               <<"workspace", "Global_Fleet">>, <<"user", "operator@navo.io">>}, {}) \in PortCalls
    BY DEF PortCalls, PortCall, admin, operator, port, vessel, workspace
  <2> QED
    BY <2>1, IndexPlaces, CreateMakes DEF Batches, Index
<1>15. /\ Makes(Batches(Index)[34], "rFQ", "RFQ-1")
  <2>1. /\ Create("rFQ", "RFQ-1", {<<"serviceType", "Bunker">>, <<"portCall", "PC-3">>,
               <<"user", "operator@navo.io">>}, {<<"vendor", "SG-VEN-001">>}) \in RfqAndQuote[1]
    BY DEF RfqAndQuote, operator, portCall, serviceType, vendor
  <2> QED
    BY <2>1, IndexPlaces, CreateMakes DEF Batches, Index
<1> QED
  BY <1>1, <1>2, <1>3, <1>4, <1>5, <1>6, <1>7, <1>8, <1>9, <1>10, <1>11, <1>12, <1>13, <1>14, <1>15

\* What prisma/seed.ts makes that later batches refer to.
LEMMA PrismaMakes ==
  /\ Makes(Batches(Prisma)[1], "organization", "org_demo")
  /\ Makes(Batches(Prisma)[2], "user", "demo@navo.io")
  /\ Makes(Batches(Prisma)[3], "workspace", "ws_demo")
  /\ Makes(Batches(Prisma)[5], "port", "SGSIN")
  /\ Makes(Batches(Prisma)[6], "vessel", "9876543")
  /\ Makes(Batches(Prisma)[8], "serviceType", "st_bunker")
  /\ Makes(Batches(Prisma)[8], "serviceType", "st_provisions")
  /\ Makes(Batches(Prisma)[9], "organization", "org_vendor_demo")
<1>1. /\ Makes(Batches(Prisma)[1], "organization", "org_demo")
  <2>1. /\ Upsert("organization", "org_demo", {}, {}) \in DemoAccounts[1]
    BY DEF DemoAccounts, demoOrg
  <2> QED
    BY <2>1, PrismaPlaces, UpsertMakes DEF Batches, Prisma
<1>2. /\ Makes(Batches(Prisma)[2], "user", "demo@navo.io")
  <2>1. /\ Upsert("user", "demo@navo.io", {<<"organization", "org_demo">>}, {})
               \in DemoAccounts[2]
    BY DEF DemoAccounts, demoOrg, demoUser
  <2> QED
    BY <2>1, PrismaPlaces, UpsertMakes DEF Batches, Prisma
<1>3. /\ Makes(Batches(Prisma)[3], "workspace", "ws_demo")
  <2>1. /\ Upsert("workspace", "ws_demo", {<<"organization", "org_demo">>}, {})
               \in DemoAccounts[3]
    BY DEF DemoAccounts, demoOrg, demoWorkspace
  <2> QED
    BY <2>1, PrismaPlaces, UpsertMakes DEF Batches, Prisma
<1>4. /\ Makes(Batches(Prisma)[5], "port", "SGSIN")
  <2>1. /\ Upsert("port", "SGSIN", {}, {}) \in DemoPorts
    BY DEF DemoPorts
  <2> QED
    BY <2>1, PrismaPlaces, UpsertMakes DEF Batches, Prisma
<1>5. /\ Makes(Batches(Prisma)[6], "vessel", "9876543")
  <2>1. /\ Upsert("vessel", "9876543", {<<"workspace", "ws_demo">>}, {}) \in DemoVessels
    BY DEF DemoVessels, demoWorkspace
  <2> QED
    BY <2>1, PrismaPlaces, UpsertMakes DEF Batches, Prisma
<1>6. /\ Makes(Batches(Prisma)[8], "serviceType", "st_bunker")
      /\ Makes(Batches(Prisma)[8], "serviceType", "st_provisions")
  <2>1. /\ Upsert("serviceType", "st_bunker", {}, {}) \in DemoServiceTypes
        /\ Upsert("serviceType", "st_provisions", {}, {}) \in DemoServiceTypes
    BY DEF DemoServiceTypes
  <2> QED
    BY <2>1, PrismaPlaces, UpsertMakes DEF Batches, Prisma
<1>7. /\ Makes(Batches(Prisma)[9], "organization", "org_vendor_demo")
  <2>1. /\ Upsert("organization", "org_vendor_demo", {}, {}) \in DemoVendor[1]
    BY DEF DemoVendor
  <2> QED
    BY <2>1, PrismaPlaces, UpsertMakes DEF Batches, Prisma
<1> QED
  BY <1>1, <1>2, <1>3, <1>4, <1>5, <1>6, <1>7


\* The ids that outlive what they name.
LEMMA DanglingPairs ==
  /\ <<"vendor", "serviceType">> \in Dangling /\ <<"vendor", "port">> \in Dangling
  /\ <<"agent", "port">> \in Dangling /\ <<"rFQ", "quote">> \in Dangling
  /\ \A t \in DOMAIN AppParent : \A u \in AppWeak[t] : <<t, u>> \in Dangling
<1>1. DOMAIN AppWeak = DOMAIN AppParent
  BY DEF AppWeak, AppParent
<1>2. ASSUME NEW t \in DOMAIN AppWeak, NEW u \in AppWeak[t] PROVE <<t, u>> \in Dangling
  <2>1. <<t, u>> \in {t} \X AppWeak[t]
    OBVIOUS
  <2> QED
    BY <2>1 DEF Dangling
<1> QED
  BY <1>1, <1>2 DEF Dangling

\* The tables of references: rows are cleared before the rows they refer to.
LEMMA TablePairs ==
  /\ MayRefer("agent", "organization") /\ MayRefer("notification", "user")
  /\ MayRefer("portCall", "port") /\ MayRefer("portCall", "user")
  /\ MayRefer("portCall", "vessel") /\ MayRefer("portCall", "workspace")
  /\ MayRefer("quote", "rFQ") /\ MayRefer("rFQ", "portCall")
  /\ MayRefer("rFQ", "serviceType") /\ MayRefer("rFQ", "user")
  /\ MayRefer("serviceOrder", "portCall") /\ MayRefer("serviceOrder", "serviceType")
  /\ MayRefer("serviceOrder", "user") /\ MayRefer("user", "organization")
  /\ MayRefer("userWorkspace", "user") /\ MayRefer("userWorkspace", "workspace")
  /\ MayRefer("vendor", "organization") /\ MayRefer("vessel", "workspace")
  /\ MayRefer("workspace", "organization")
  /\ MayName("agent", "port") /\ MayName("notification", "portCall")
  /\ MayName("notification", "rFQ") /\ MayName("portCall", "agent")
  /\ MayName("quote", "vendor") /\ MayName("rFQ", "vendor")
  /\ MayName("serviceOrder", "vendor") /\ MayName("vendor", "port")
  /\ MayName("vendor", "serviceType") /\ MayName("workspace", "organization")
BY DanglingPairs
   DEF MayRefer, MayName, Under, Loose, Cleared, ClearedAt, CascadeTables, SetNullTables

LEMMA IndexRow19 == \A st \in Accounts[1] : IndexRow(19, st)
<1>1. SUFFICES ASSUME NEW st \in Accounts[1] PROVE IndexRow(19, st)
  OBVIOUS
<1>2. /\ st.op = "create"
      /\ st.table = "organization" /\ st.name = "Navo_Maritime" /\ st.refs = {} /\ st.weak = {}
  BY DEF Accounts, Create, operatorOrg
<1>4. st.name # "app" /\ st.table \in Cleared /\ <<st.table, st.name>> \notin DemoKeys
      /\ IndexPlace(st.table, st.name) = 19
  BY <1>2 DEF Cleared, ClearedAt, DemoKeys, IndexPlace
<1> QED
  BY <1>2, <1>4 DEF IndexRow

LEMMA IndexRow20 == \A st \in Accounts[2] : IndexRow(20, st)
<1>1. SUFFICES ASSUME NEW st \in Accounts[2] PROVE IndexRow(20, st)
  OBVIOUS
<1>2. /\ st.op = "create"
      /\ st.table = "user" /\ st.name = "admin@navo.io"
             /\ st.refs = {<<"organization", "Navo_Maritime">>} /\ st.weak = {}
  BY DEF Accounts, Create, operatorOrg, admin
<1>3. /\ Made(Index, 20, "organization", "Navo_Maritime")
  BY IndexMakes DEF Made
<1>4. st.name # "app" /\ st.table \in Cleared /\ <<st.table, st.name>> \notin DemoKeys
      /\ IndexPlace(st.table, st.name) = 20
  BY <1>2 DEF Cleared, ClearedAt, DemoKeys, IndexPlace
<1> QED
  BY <1>2, <1>3, TablePairs, <1>4 DEF IndexRow

LEMMA IndexRow21 == \A st \in Accounts[3] : IndexRow(21, st)
<1>1. SUFFICES ASSUME NEW st \in Accounts[3] PROVE IndexRow(21, st)
  OBVIOUS
<1>2. /\ st.op = "create"
      /\ st.table = "user" /\ st.name = "operator@navo.io"
             /\ st.refs = {<<"organization", "Navo_Maritime">>} /\ st.weak = {}
  BY DEF Accounts, Create, operatorOrg, operator
<1>3. /\ Made(Index, 21, "organization", "Navo_Maritime")
  BY IndexMakes DEF Made
<1>4. st.name # "app" /\ st.table \in Cleared /\ <<st.table, st.name>> \notin DemoKeys
      /\ IndexPlace(st.table, st.name) = 21
  BY <1>2 DEF Cleared, ClearedAt, DemoKeys, IndexPlace
<1> QED
  BY <1>2, <1>3, TablePairs, <1>4 DEF IndexRow

LEMMA IndexRow22 == \A st \in Accounts[4] : IndexRow(22, st)
<1>1. SUFFICES ASSUME NEW st \in Accounts[4] PROVE IndexRow(22, st)
  OBVIOUS
<1>2. /\ st.op = "create"
      /\ st.table = "organization" /\ st.name = "Global_Shipping" /\ st.refs = {} /\ st.weak = {}
  BY DEF Accounts, Create, customerOrg
<1>4. st.name # "app" /\ st.table \in Cleared /\ <<st.table, st.name>> \notin DemoKeys
      /\ IndexPlace(st.table, st.name) = 22
  BY <1>2 DEF Cleared, ClearedAt, DemoKeys, IndexPlace
<1> QED
  BY <1>2, <1>4 DEF IndexRow

LEMMA IndexRow23 == \A st \in Accounts[5] : IndexRow(23, st)
<1>1. SUFFICES ASSUME NEW st \in Accounts[5] PROVE IndexRow(23, st)
  OBVIOUS
<1>2. /\ st.op = "create"
      /\ st.table = "workspace" /\ st.name = "Global_Fleet"
             /\ st.refs = {<<"organization", "Navo_Maritime">>}
                /\ st.weak = {<<"organization", "Global_Shipping">>}
  BY DEF Accounts, Create, customerOrg, operatorOrg, workspace
<1>3. /\ Made(Index, 23, "organization", "Navo_Maritime")
      /\ Made(Index, 23, "organization", "Global_Shipping")
  BY IndexMakes DEF Made
<1>4. st.name # "app" /\ st.table \in Cleared /\ <<st.table, st.name>> \notin DemoKeys
      /\ IndexPlace(st.table, st.name) = 23
  BY <1>2 DEF Cleared, ClearedAt, DemoKeys, IndexPlace
<1> QED
  BY <1>2, <1>3, TablePairs, <1>4 DEF IndexRow

LEMMA IndexRow24 == \A st \in Ports : IndexRow(24, st)
<1>1. SUFFICES ASSUME NEW st \in Ports PROVE IndexRow(24, st)
  OBVIOUS
<1>2. /\ st.op = "create"
      /\ \/ st.table = "port" /\ st.name = "SGSIN" /\ st.refs = {} /\ st.weak = {}
         \/ st.table = "port" /\ st.name = "NLRTM" /\ st.refs = {} /\ st.weak = {}
         \/ st.table = "port" /\ st.name = "CNSHA" /\ st.refs = {} /\ st.weak = {}
         \/ st.table = "port" /\ st.name = "USHOU" /\ st.refs = {} /\ st.weak = {}
         \/ st.table = "port" /\ st.name = "AEJEA" /\ st.refs = {} /\ st.weak = {}
  BY DEF Ports, Create
<1>4. st.name # "app" /\ st.table \in Cleared /\ <<st.table, st.name>> \notin DemoKeys
      /\ IndexPlace(st.table, st.name) = 24
  BY <1>2 DEF Cleared, ClearedAt, DemoKeys, IndexPlace
<1> QED
  BY <1>2, <1>4 DEF IndexRow

LEMMA IndexRow25 == \A st \in ServiceTypes : IndexRow(25, st)
<1>1. SUFFICES ASSUME NEW st \in ServiceTypes PROVE IndexRow(25, st)
  OBVIOUS
<1>2. /\ st.op = "create"
      /\ \/ st.table = "serviceType" /\ st.name = "Bunker" /\ st.refs = {} /\ st.weak = {}
         \/ st.table = "serviceType" /\ st.name = "Water" /\ st.refs = {} /\ st.weak = {}
         \/ st.table = "serviceType" /\ st.name = "Provisions" /\ st.refs = {} /\ st.weak = {}
         \/ st.table = "serviceType" /\ st.name = "Waste" /\ st.refs = {} /\ st.weak = {}
         \/ st.table = "serviceType" /\ st.name = "Crew" /\ st.refs = {} /\ st.weak = {}
  BY DEF ServiceTypes, Create
<1>4. st.name # "app" /\ st.table \in Cleared /\ <<st.table, st.name>> \notin DemoKeys
      /\ IndexPlace(st.table, st.name) = 25
  BY <1>2 DEF Cleared, ClearedAt, DemoKeys, IndexPlace
<1> QED
  BY <1>2, <1>4 DEF IndexRow

LEMMA IndexRow26 == \A st \in Vessels : IndexRow(26, st)
<1>1. SUFFICES ASSUME NEW st \in Vessels PROVE IndexRow(26, st)
  OBVIOUS
<1>2. /\ st.op = "create"
      /\ \/ st.table = "vessel" /\ st.name = "9876543"
                /\ st.refs = {<<"workspace", "Global_Fleet">>} /\ st.weak = {}
         \/ st.table = "vessel" /\ st.name = "9876544"
                /\ st.refs = {<<"workspace", "Global_Fleet">>} /\ st.weak = {}
         \/ st.table = "vessel" /\ st.name = "9876545"
                /\ st.refs = {<<"workspace", "Global_Fleet">>} /\ st.weak = {}
  BY DEF Vessels, Create, workspace
<1>3. /\ Made(Index, 26, "workspace", "Global_Fleet")
  BY IndexMakes DEF Made
<1>4. st.name # "app" /\ st.table \in Cleared /\ <<st.table, st.name>> \notin DemoKeys
      /\ IndexPlace(st.table, st.name) = 26
  BY <1>2 DEF Cleared, ClearedAt, DemoKeys, IndexPlace
<1> QED
  BY <1>2, <1>3, TablePairs, <1>4 DEF IndexRow

LEMMA IndexRow27 == \A st \in Vendors[1] : IndexRow(27, st)
<1>1. SUFFICES ASSUME NEW st \in Vendors[1] PROVE IndexRow(27, st)
  OBVIOUS
<1>2. /\ st.op = "create"
      /\ st.table = "organization" /\ st.name = "Marine_Fuel" /\ st.refs = {} /\ st.weak = {}
  BY DEF Vendors, Create
<1>4. st.name # "app" /\ st.table \in Cleared /\ <<st.table, st.name>> \notin DemoKeys
      /\ IndexPlace(st.table, st.name) = 27
  BY <1>2 DEF Cleared, ClearedAt, DemoKeys, IndexPlace
<1> QED
  BY <1>2, <1>4 DEF IndexRow

LEMMA IndexRow28 == \A st \in Vendors[2] : IndexRow(28, st)
<1>1. SUFFICES ASSUME NEW st \in Vendors[2] PROVE IndexRow(28, st)
  OBVIOUS
<1>2. /\ st.op = "create"
      /\ st.table = "organization" /\ st.name = "Port_Services" /\ st.refs = {} /\ st.weak = {}
  BY DEF Vendors, Create
<1>4. st.name # "app" /\ st.table \in Cleared /\ <<st.table, st.name>> \notin DemoKeys
      /\ IndexPlace(st.table, st.name) = 28
  BY <1>2 DEF Cleared, ClearedAt, DemoKeys, IndexPlace
<1> QED
  BY <1>2, <1>4 DEF IndexRow

LEMMA IndexRow29 == \A st \in Vendors[3] : IndexRow(29, st)
<1>1. SUFFICES ASSUME NEW st \in Vendors[3] PROVE IndexRow(29, st)
  OBVIOUS
<1>2. /\ st.op = "create"
      /\ \/ st.table = "vendor" /\ st.name = "SG-VEN-001"
                /\ st.refs = {<<"organization", "Marine_Fuel">>}
                   /\ st.weak = {<<"serviceType", "Bunker">>, <<"serviceType", "Water">>,
                      <<"port", "SGSIN">>, <<"port", "AEJEA">>}
         \/ st.table = "vendor" /\ st.name = "NL-VEN-002"
                /\ st.refs = {<<"organization", "Port_Services">>}
                   /\ st.weak = {<<"serviceType", "Provisions">>, <<"serviceType", "Waste">>,
                      <<"serviceType", "Crew">>, <<"port", "NLRTM">>}
  BY DEF Vendors, Create, port, serviceType
<1>3. /\ Made(Index, 29, "organization", "Marine_Fuel")
      /\ Made(Index, 29, "serviceType", "Bunker")
      /\ Made(Index, 29, "serviceType", "Water")
      /\ Made(Index, 29, "port", "SGSIN")
      /\ Made(Index, 29, "port", "AEJEA")
      /\ Made(Index, 29, "organization", "Port_Services")
      /\ Made(Index, 29, "serviceType", "Provisions")
      /\ Made(Index, 29, "serviceType", "Waste")
      /\ Made(Index, 29, "serviceType", "Crew")
      /\ Made(Index, 29, "port", "NLRTM")
  BY IndexMakes DEF Made
<1>4. st.name # "app" /\ st.table \in Cleared /\ <<st.table, st.name>> \notin DemoKeys
      /\ IndexPlace(st.table, st.name) = 29
  BY <1>2 DEF Cleared, ClearedAt, DemoKeys, IndexPlace
<1> QED
  BY <1>2, <1>3, TablePairs, <1>4 DEF IndexRow

LEMMA IndexRow30 == \A st \in Agents[1] : IndexRow(30, st)
<1>1. SUFFICES ASSUME NEW st \in Agents[1] PROVE IndexRow(30, st)
  OBVIOUS
<1>2. /\ st.op = "create"
      /\ st.table = "organization" /\ st.name = "Singapore_Agency" /\ st.refs = {} /\ st.weak = {}
  BY DEF Agents, Create
<1>4. st.name # "app" /\ st.table \in Cleared /\ <<st.table, st.name>> \notin DemoKeys
      /\ IndexPlace(st.table, st.name) = 30
  BY <1>2 DEF Cleared, ClearedAt, DemoKeys, IndexPlace
<1> QED
  BY <1>2, <1>4 DEF IndexRow

LEMMA IndexRow31 == \A st \in Agents[2] : IndexRow(31, st)
<1>1. SUFFICES ASSUME NEW st \in Agents[2] PROVE IndexRow(31, st)
  OBVIOUS
<1>2. /\ st.op = "create"
      /\ st.table = "agent" /\ st.name = "Singapore"
             /\ st.refs = {<<"organization", "Singapore_Agency">>}
                /\ st.weak = {<<"port", "SGSIN">>}
  BY DEF Agents, Create, port
<1>3. /\ Made(Index, 31, "organization", "Singapore_Agency")
      /\ Made(Index, 31, "port", "SGSIN")
  BY IndexMakes DEF Made
<1>4. st.name # "app" /\ st.table \in Cleared /\ <<st.table, st.name>> \notin DemoKeys
      /\ IndexPlace(st.table, st.name) = 31
  BY <1>2 DEF Cleared, ClearedAt, DemoKeys, IndexPlace
<1> QED
  BY <1>2, <1>3, TablePairs, <1>4 DEF IndexRow

LEMMA IndexRow32 == \A st \in PortCalls : IndexRow(32, st)
<1>1. SUFFICES ASSUME NEW st \in PortCalls PROVE IndexRow(32, st)
  OBVIOUS
<1>2. /\ st.op = "create"
      /\ \/ st.table = "portCall" /\ st.name = "PC-1"
                /\ st.refs = {<<"vessel", "9876543">>, <<"port", "SGSIN">>,
                   <<"workspace", "Global_Fleet">>, <<"user", "operator@navo.io">>}
                   /\ st.weak = {<<"agent", "Singapore">>}
         \/ st.table = "portCall" /\ st.name = "PC-2"
                /\ st.refs = {<<"vessel", "9876544">>, <<"port", "NLRTM">>,
                   <<"workspace", "Global_Fleet">>, <<"user", "operator@navo.io">>}
                   /\ st.weak = {}
         \/ st.table = "portCall" /\ st.name = "PC-3"
                /\ st.refs = {<<"vessel", "9876545">>, <<"port", "AEJEA">>,
                   <<"workspace", "Global_Fleet">>, <<"user", "operator@navo.io">>}
                   /\ st.weak = {}
         \/ st.table = "portCall" /\ st.name = "PC-4"
                /\ st.refs = {<<"vessel", "9876543">>, <<"port", "USHOU">>,
                   <<"workspace", "Global_Fleet">>, <<"user", "admin@navo.io">>} /\ st.weak = {}
         \/ st.table = "portCall" /\ st.name = "PC-5"
                /\ st.refs = {<<"vessel", "9876544">>, <<"port", "CNSHA">>,
                   <<"workspace", "Global_Fleet">>, <<"user", "operator@navo.io">>}
                   /\ st.weak = {}
  BY DEF PortCalls, Create, PortCall, admin, operator, port, vessel, workspace
<1>3. /\ Made(Index, 32, "vessel", "9876543")
      /\ Made(Index, 32, "port", "SGSIN")
      /\ Made(Index, 32, "workspace", "Global_Fleet")
      /\ Made(Index, 32, "user", "operator@navo.io")
      /\ Made(Index, 32, "agent", "Singapore")
      /\ Made(Index, 32, "vessel", "9876544")
      /\ Made(Index, 32, "port", "NLRTM")
      /\ Made(Index, 32, "vessel", "9876545")
      /\ Made(Index, 32, "port", "AEJEA")
      /\ Made(Index, 32, "port", "USHOU")
      /\ Made(Index, 32, "user", "admin@navo.io")
      /\ Made(Index, 32, "port", "CNSHA")
  BY IndexMakes DEF Made
<1>4. st.name # "app" /\ st.table \in Cleared /\ <<st.table, st.name>> \notin DemoKeys
      /\ IndexPlace(st.table, st.name) = 32
  BY <1>2 DEF Cleared, ClearedAt, DemoKeys, IndexPlace
<1> QED
  BY <1>2, <1>3, TablePairs, <1>4 DEF IndexRow

LEMMA IndexRow33 == \A st \in ServiceOrders : IndexRow(33, st)
<1>1. SUFFICES ASSUME NEW st \in ServiceOrders PROVE IndexRow(33, st)
  OBVIOUS
<1>2. /\ st.op = "create"
      /\ \/ st.table = "serviceOrder" /\ st.name = "Bunker"
                /\ st.refs = {<<"portCall", "PC-1">>, <<"serviceType", "Bunker">>,
                   <<"user", "operator@navo.io">>} /\ st.weak = {<<"vendor", "SG-VEN-001">>}
         \/ st.table = "serviceOrder" /\ st.name = "Water"
                /\ st.refs = {<<"portCall", "PC-1">>, <<"serviceType", "Water">>,
                   <<"user", "operator@navo.io">>} /\ st.weak = {}
         \/ st.table = "serviceOrder" /\ st.name = "Provisions"
                /\ st.refs = {<<"portCall", "PC-2">>, <<"serviceType", "Provisions">>,
                   <<"user", "operator@navo.io">>} /\ st.weak = {<<"vendor", "NL-VEN-002">>}
         \/ st.table = "serviceOrder" /\ st.name = "Waste"
                /\ st.refs = {<<"portCall", "PC-2">>, <<"serviceType", "Waste">>,
                   <<"user", "operator@navo.io">>} /\ st.weak = {<<"vendor", "NL-VEN-002">>}
  BY DEF ServiceOrders, Create, Order, operator, portCall, serviceType, vendor
<1>3. /\ Made(Index, 33, "portCall", "PC-1")
      /\ Made(Index, 33, "serviceType", "Bunker")
      /\ Made(Index, 33, "user", "operator@navo.io")
      /\ Made(Index, 33, "vendor", "SG-VEN-001")
      /\ Made(Index, 33, "serviceType", "Water")
      /\ Made(Index, 33, "portCall", "PC-2")
      /\ Made(Index, 33, "serviceType", "Provisions")
      /\ Made(Index, 33, "vendor", "NL-VEN-002")
      /\ Made(Index, 33, "serviceType", "Waste")
  BY IndexMakes DEF Made
<1>4. st.name # "app" /\ st.table \in Cleared /\ <<st.table, st.name>> \notin DemoKeys
      /\ IndexPlace(st.table, st.name) = 33
  BY <1>2 DEF Cleared, ClearedAt, DemoKeys, IndexPlace
<1> QED
  BY <1>2, <1>3, TablePairs, <1>4 DEF IndexRow

LEMMA IndexRow34 == \A st \in RfqAndQuote[1] : IndexRow(34, st)
<1>1. SUFFICES ASSUME NEW st \in RfqAndQuote[1] PROVE IndexRow(34, st)
  OBVIOUS
<1>2. /\ st.op = "create"
      /\ st.table = "rFQ" /\ st.name = "RFQ-1"
             /\ st.refs = {<<"serviceType", "Bunker">>, <<"portCall", "PC-3">>,
                <<"user", "operator@navo.io">>} /\ st.weak = {<<"vendor", "SG-VEN-001">>}
  BY DEF RfqAndQuote, Create, operator, portCall, serviceType, vendor
<1>3. /\ Made(Index, 34, "serviceType", "Bunker")
      /\ Made(Index, 34, "portCall", "PC-3")
      /\ Made(Index, 34, "user", "operator@navo.io")
      /\ Made(Index, 34, "vendor", "SG-VEN-001")
  BY IndexMakes DEF Made
<1>4. st.name # "app" /\ st.table \in Cleared /\ <<st.table, st.name>> \notin DemoKeys
      /\ IndexPlace(st.table, st.name) = 34
  BY <1>2 DEF Cleared, ClearedAt, DemoKeys, IndexPlace
<1> QED
  BY <1>2, <1>3, TablePairs, <1>4 DEF IndexRow

LEMMA IndexRow35 == \A st \in RfqAndQuote[2] : IndexRow(35, st)
<1>1. SUFFICES ASSUME NEW st \in RfqAndQuote[2] PROVE IndexRow(35, st)
  OBVIOUS
<1>2. /\ st.op = "create"
      /\ st.table = "quote" /\ st.name = "1" /\ st.refs = {<<"rFQ", "RFQ-1">>}
             /\ st.weak = {<<"vendor", "SG-VEN-001">>}
  BY DEF RfqAndQuote, Create, vendor
<1>3. /\ Made(Index, 35, "rFQ", "RFQ-1")
      /\ Made(Index, 35, "vendor", "SG-VEN-001")
  BY IndexMakes DEF Made
<1>4. st.name # "app" /\ st.table \in Cleared /\ <<st.table, st.name>> \notin DemoKeys
      /\ IndexPlace(st.table, st.name) = 35
  BY <1>2 DEF Cleared, ClearedAt, DemoKeys, IndexPlace
<1> QED
  BY <1>2, <1>3, TablePairs, <1>4 DEF IndexRow

LEMMA IndexRow36 == \A st \in Notifications : IndexRow(36, st)
<1>1. SUFFICES ASSUME NEW st \in Notifications PROVE IndexRow(36, st)
  OBVIOUS
<1>2. /\ st.op = "create"
      /\ \/ st.table = "notification" /\ st.name = "quote_received"
                /\ st.refs = {<<"user", "operator@navo.io">>} /\ st.weak = {<<"rFQ", "RFQ-1">>}
         \/ st.table = "notification" /\ st.name = "port_call_created"
                /\ st.refs = {<<"user", "admin@navo.io">>} /\ st.weak = {<<"portCall", "PC-1">>}
  BY DEF Notifications, Create, admin, operator, portCall
<1>3. /\ Made(Index, 36, "user", "operator@navo.io")
      /\ Made(Index, 36, "rFQ", "RFQ-1")
      /\ Made(Index, 36, "user", "admin@navo.io")
      /\ Made(Index, 36, "portCall", "PC-1")
  BY IndexMakes DEF Made
<1>4. st.name # "app" /\ st.table \in Cleared /\ <<st.table, st.name>> \notin DemoKeys
      /\ IndexPlace(st.table, st.name) = 36
  BY <1>2 DEF Cleared, ClearedAt, DemoKeys, IndexPlace
<1> QED
  BY <1>2, <1>3, TablePairs, <1>4 DEF IndexRow

LEMMA PrismaRow1 == \A st \in DemoAccounts[1] : PrismaRow(1, st)
<1>1. SUFFICES ASSUME NEW st \in DemoAccounts[1] PROVE PrismaRow(1, st)
  OBVIOUS
<1>2. /\ st.op = "upsert"
      /\ st.table = "organization" /\ st.name = "org_demo" /\ st.refs = {} /\ st.weak = {}
  BY DEF DemoAccounts, Upsert, demoOrg
<1>4. st.name # "app" /\ Sole(st.table, st.name) /\ PrismaPlace(st.table, st.name) = 1
  BY <1>2 DEF Sole, UniqueTables, DemoKeys, PrismaPlace
<1> QED
  BY <1>2, <1>4 DEF PrismaRow

LEMMA PrismaRow2 == \A st \in DemoAccounts[2] : PrismaRow(2, st)
<1>1. SUFFICES ASSUME NEW st \in DemoAccounts[2] PROVE PrismaRow(2, st)
  OBVIOUS
<1>2. /\ st.op = "upsert"
      /\ st.table = "user" /\ st.name = "demo@navo.io"
             /\ st.refs = {<<"organization", "org_demo">>} /\ st.weak = {}
  BY DEF DemoAccounts, Upsert, demoOrg, demoUser
<1>3. /\ Made(Prisma, 2, "organization", "org_demo")
  BY PrismaMakes DEF Made
<1>4. st.name # "app" /\ Sole(st.table, st.name) /\ PrismaPlace(st.table, st.name) = 2
  BY <1>2 DEF Sole, UniqueTables, DemoKeys, PrismaPlace
<1> QED
  BY <1>2, <1>3, TablePairs, <1>4 DEF PrismaRow

LEMMA PrismaRow3 == \A st \in DemoAccounts[3] : PrismaRow(3, st)
<1>1. SUFFICES ASSUME NEW st \in DemoAccounts[3] PROVE PrismaRow(3, st)
  OBVIOUS
<1>2. /\ st.op = "upsert"
      /\ st.table = "workspace" /\ st.name = "ws_demo"
             /\ st.refs = {<<"organization", "org_demo">>} /\ st.weak = {}
  BY DEF DemoAccounts, Upsert, demoOrg, demoWorkspace
<1>3. /\ Made(Prisma, 3, "organization", "org_demo")
  BY PrismaMakes DEF Made
<1>4. st.name # "app" /\ Sole(st.table, st.name) /\ PrismaPlace(st.table, st.name) = 3
  BY <1>2 DEF Sole, UniqueTables, DemoKeys, PrismaPlace
<1> QED
  BY <1>2, <1>3, TablePairs, <1>4 DEF PrismaRow

LEMMA PrismaRow4 == \A st \in DemoAccounts[4] : PrismaRow(4, st)
<1>1. SUFFICES ASSUME NEW st \in DemoAccounts[4] PROVE PrismaRow(4, st)
  OBVIOUS
<1>2. /\ st.op = "upsert"
      /\ st.table = "userWorkspace" /\ st.name = "demo"
             /\ st.refs = {<<"user", "demo@navo.io">>, <<"workspace", "ws_demo">>} /\ st.weak = {}
  BY DEF DemoAccounts, Upsert, demoUser, demoWorkspace
<1>3. /\ Made(Prisma, 4, "user", "demo@navo.io")
      /\ Made(Prisma, 4, "workspace", "ws_demo")
  BY PrismaMakes DEF Made
<1>4. st.name # "app" /\ Sole(st.table, st.name) /\ PrismaPlace(st.table, st.name) = 4
  BY <1>2 DEF Sole, UniqueTables, DemoKeys, PrismaPlace
<1> QED
  BY <1>2, <1>3, TablePairs, <1>4 DEF PrismaRow

LEMMA PrismaRow5 == \A st \in DemoPorts : PrismaRow(5, st)
<1>1. SUFFICES ASSUME NEW st \in DemoPorts PROVE PrismaRow(5, st)
  OBVIOUS
<1>2. /\ st.op = "upsert"
      /\ \/ st.table = "port" /\ st.name = "SGSIN" /\ st.refs = {} /\ st.weak = {}
         \/ st.table = "port" /\ st.name = "MYPKG" /\ st.refs = {} /\ st.weak = {}
         \/ st.table = "port" /\ st.name = "HKHKG" /\ st.refs = {} /\ st.weak = {}
  BY DEF DemoPorts, Upsert
<1>4. st.name # "app" /\ Sole(st.table, st.name) /\ PrismaPlace(st.table, st.name) = 5
  BY <1>2 DEF Sole, UniqueTables, DemoKeys, PrismaPlace
<1> QED
  BY <1>2, <1>4 DEF PrismaRow

LEMMA PrismaRow6 == \A st \in DemoVessels : PrismaRow(6, st)
<1>1. SUFFICES ASSUME NEW st \in DemoVessels PROVE PrismaRow(6, st)
  OBVIOUS
<1>2. /\ st.op = "upsert"
      /\ \/ st.table = "vessel" /\ st.name = "9876543" /\ st.refs = {<<"workspace", "ws_demo">>}
                /\ st.weak = {}
         \/ st.table = "vessel" /\ st.name = "9876544" /\ st.refs = {<<"workspace", "ws_demo">>}
                /\ st.weak = {}
         \/ st.table = "vessel" /\ st.name = "9876545" /\ st.refs = {<<"workspace", "ws_demo">>}
                /\ st.weak = {}
  BY DEF DemoVessels, Upsert, demoWorkspace
<1>3. /\ Made(Prisma, 6, "workspace", "ws_demo")
  BY PrismaMakes DEF Made
<1>4. st.name # "app" /\ Sole(st.table, st.name) /\ PrismaPlace(st.table, st.name) = 6
  BY <1>2 DEF Sole, UniqueTables, DemoKeys, PrismaPlace
<1> QED
  BY <1>2, <1>3, TablePairs, <1>4 DEF PrismaRow

LEMMA PrismaRow7 == \A st \in DemoPortCall : PrismaRow(7, st)
<1>1. SUFFICES ASSUME NEW st \in DemoPortCall PROVE PrismaRow(7, st)
  OBVIOUS
<1>2. /\ st.op = "upsert"
      /\ st.table = "portCall" /\ st.name = "PC-2026-0001"
             /\ st.refs = {<<"vessel", "9876543">>, <<"port", "SGSIN">>,
                <<"workspace", "ws_demo">>, <<"user", "demo@navo.io">>} /\ st.weak = {}
  BY DEF DemoPortCall, Upsert, demoUser, demoWorkspace, port, vessel
<1>3. /\ Made(Prisma, 7, "vessel", "9876543")
      /\ Made(Prisma, 7, "port", "SGSIN")
      /\ Made(Prisma, 7, "workspace", "ws_demo")
      /\ Made(Prisma, 7, "user", "demo@navo.io")
  BY PrismaMakes DEF Made
<1>4. st.name # "app" /\ Sole(st.table, st.name) /\ PrismaPlace(st.table, st.name) = 7
  BY <1>2 DEF Sole, UniqueTables, DemoKeys, PrismaPlace
<1> QED
  BY <1>2, <1>3, TablePairs, <1>4 DEF PrismaRow

LEMMA PrismaRow8 == \A st \in DemoServiceTypes : PrismaRow(8, st)
<1>1. SUFFICES ASSUME NEW st \in DemoServiceTypes PROVE PrismaRow(8, st)
  OBVIOUS
<1>2. /\ st.op = "upsert"
      /\ \/ st.table = "serviceType" /\ st.name = "st_bunker" /\ st.refs = {} /\ st.weak = {}
         \/ st.table = "serviceType" /\ st.name = "st_provisions" /\ st.refs = {} /\ st.weak = {}
         \/ st.table = "serviceType" /\ st.name = "st_repairs" /\ st.refs = {} /\ st.weak = {}
  BY DEF DemoServiceTypes, Upsert
<1>4. st.name # "app" /\ Sole(st.table, st.name) /\ PrismaPlace(st.table, st.name) = 8
  BY <1>2 DEF Sole, UniqueTables, DemoKeys, PrismaPlace
<1> QED
  BY <1>2, <1>4 DEF PrismaRow

LEMMA PrismaRow9 == \A st \in DemoVendor[1] : PrismaRow(9, st)
<1>1. SUFFICES ASSUME NEW st \in DemoVendor[1] PROVE PrismaRow(9, st)
  OBVIOUS
<1>2. /\ st.op = "upsert"
      /\ st.table = "organization" /\ st.name = "org_vendor_demo" /\ st.refs = {} /\ st.weak = {}
  BY DEF DemoVendor, Upsert
<1>4. st.name # "app" /\ Sole(st.table, st.name) /\ PrismaPlace(st.table, st.name) = 9
  BY <1>2 DEF Sole, UniqueTables, DemoKeys, PrismaPlace
<1> QED
  BY <1>2, <1>4 DEF PrismaRow

LEMMA PrismaRow10 == \A st \in DemoVendor[2] : PrismaRow(10, st)
<1>1. SUFFICES ASSUME NEW st \in DemoVendor[2] PROVE PrismaRow(10, st)
  OBVIOUS
<1>2. /\ st.op = "upsert"
      /\ st.table = "vendor" /\ st.name = "vendor_demo"
             /\ st.refs = {<<"organization", "org_vendor_demo">>}
                /\ st.weak = {<<"serviceType", "st_bunker">>, <<"serviceType", "st_provisions">>}
  BY DEF DemoVendor, Upsert, serviceType
<1>3. /\ Made(Prisma, 10, "organization", "org_vendor_demo")
      /\ Made(Prisma, 10, "serviceType", "st_bunker")
      /\ Made(Prisma, 10, "serviceType", "st_provisions")
  BY PrismaMakes DEF Made
<1>4. st.name # "app" /\ Sole(st.table, st.name) /\ PrismaPlace(st.table, st.name) = 10
  BY <1>2 DEF Sole, UniqueTables, DemoKeys, PrismaPlace
<1> QED
  BY <1>2, <1>3, TablePairs, <1>4 DEF PrismaRow

LEMMA PrismaRow11 == \A st \in FeatureFlags : PrismaRow(11, st)
<1>1. SUFFICES ASSUME NEW st \in FeatureFlags PROVE PrismaRow(11, st)
  OBVIOUS
<1>2. /\ st.op = "upsert"
      /\ \/ st.table = "featureFlag" /\ st.name = "rfq_enabled" /\ st.refs = {} /\ st.weak = {}
         \/ st.table = "featureFlag" /\ st.name = "vessel_tracking_enabled" /\ st.refs = {}
                /\ st.weak = {}
         \/ st.table = "featureFlag" /\ st.name = "analytics_enabled" /\ st.refs = {}
                /\ st.weak = {}
  BY DEF FeatureFlags, Upsert
<1>4. st.name # "app" /\ Sole(st.table, st.name) /\ PrismaPlace(st.table, st.name) = 11
  BY <1>2 DEF Sole, UniqueTables, DemoKeys, PrismaPlace
<1> QED
  BY <1>2, <1>4 DEF PrismaRow

\* All batches of seeds/index.ts; two statements of a batch make different rows.
LEMMA IndexScript ==
  /\ Len(Batches(Index)) = 36 /\ DOMAIN Batches(Index) = 1..36
  /\ \A n \in 1..18 : Batches(Index)[n] = DeleteMany(ClearTables[n])
  /\ \A n \in 19..36 : \A st \in Batches(Index)[n] : IndexRow(n, st)
  /\ \A n \in 19..36 : \A st, u \in Batches(Index)[n] :
       st.table = u.table /\ st.name = u.name => st = u
<1>1. Batches(Index) = SeedsIndex
  BY DEF Batches, Index, Prisma
<1>2. /\ \A st \in Batches(Index)[19] : IndexRow(19, st)
      /\ \A st, u \in Batches(Index)[19] : st.table = u.table /\ st.name = u.name => st = u
  <2>1. Batches(Index)[19] = Accounts[1]
    BY <1>1, IndexPlaces
  <2>2. \A st, u \in Accounts[1] : st.table = u.table /\ st.name = u.name => st = u
    BY DEF Accounts, Create, operatorOrg
  <2> QED
    BY <2>1, <2>2, IndexRow19
<1>3. /\ \A st \in Batches(Index)[20] : IndexRow(20, st)
      /\ \A st, u \in Batches(Index)[20] : st.table = u.table /\ st.name = u.name => st = u
  <2>1. Batches(Index)[20] = Accounts[2]
    BY <1>1, IndexPlaces
  <2>2. \A st, u \in Accounts[2] : st.table = u.table /\ st.name = u.name => st = u
    BY DEF Accounts, Create, operatorOrg, admin
  <2> QED
    BY <2>1, <2>2, IndexRow20
<1>4. /\ \A st \in Batches(Index)[21] : IndexRow(21, st)
      /\ \A st, u \in Batches(Index)[21] : st.table = u.table /\ st.name = u.name => st = u
  <2>1. Batches(Index)[21] = Accounts[3]
    BY <1>1, IndexPlaces
  <2>2. \A st, u \in Accounts[3] : st.table = u.table /\ st.name = u.name => st = u
    BY DEF Accounts, Create, operatorOrg, operator
  <2> QED
    BY <2>1, <2>2, IndexRow21
<1>5. /\ \A st \in Batches(Index)[22] : IndexRow(22, st)
      /\ \A st, u \in Batches(Index)[22] : st.table = u.table /\ st.name = u.name => st = u
  <2>1. Batches(Index)[22] = Accounts[4]
    BY <1>1, IndexPlaces
  <2>2. \A st, u \in Accounts[4] : st.table = u.table /\ st.name = u.name => st = u
    BY DEF Accounts, Create, customerOrg
  <2> QED
    BY <2>1, <2>2, IndexRow22
<1>6. /\ \A st \in Batches(Index)[23] : IndexRow(23, st)
      /\ \A st, u \in Batches(Index)[23] : st.table = u.table /\ st.name = u.name => st = u
  <2>1. Batches(Index)[23] = Accounts[5]
    BY <1>1, IndexPlaces
  <2>2. \A st, u \in Accounts[5] : st.table = u.table /\ st.name = u.name => st = u
    BY DEF Accounts, Create, customerOrg, operatorOrg, workspace
  <2> QED
    BY <2>1, <2>2, IndexRow23
<1>7. /\ \A st \in Batches(Index)[24] : IndexRow(24, st)
      /\ \A st, u \in Batches(Index)[24] : st.table = u.table /\ st.name = u.name => st = u
  <2>1. Batches(Index)[24] = Ports
    BY <1>1, IndexPlaces
  <2>2. \A st, u \in Ports : st.table = u.table /\ st.name = u.name => st = u
    BY DEF Ports, Create
  <2> QED
    BY <2>1, <2>2, IndexRow24
<1>8. /\ \A st \in Batches(Index)[25] : IndexRow(25, st)
      /\ \A st, u \in Batches(Index)[25] : st.table = u.table /\ st.name = u.name => st = u
  <2>1. Batches(Index)[25] = ServiceTypes
    BY <1>1, IndexPlaces
  <2>2. \A st, u \in ServiceTypes : st.table = u.table /\ st.name = u.name => st = u
    BY DEF ServiceTypes, Create
  <2> QED
    BY <2>1, <2>2, IndexRow25
<1>9. /\ \A st \in Batches(Index)[26] : IndexRow(26, st)
      /\ \A st, u \in Batches(Index)[26] : st.table = u.table /\ st.name = u.name => st = u
  <2>1. Batches(Index)[26] = Vessels
    BY <1>1, IndexPlaces
  <2>2. \A st, u \in Vessels : st.table = u.table /\ st.name = u.name => st = u
    BY DEF Vessels, Create, workspace
  <2> QED
    BY <2>1, <2>2, IndexRow26
<1>10. /\ \A st \in Batches(Index)[27] : IndexRow(27, st)
      /\ \A st, u \in Batches(Index)[27] : st.table = u.table /\ st.name = u.name => st = u
  <2>1. Batches(Index)[27] = Vendors[1]
    BY <1>1, IndexPlaces
  <2>2. \A st, u \in Vendors[1] : st.table = u.table /\ st.name = u.name => st = u
    BY DEF Vendors, Create
  <2> QED
    BY <2>1, <2>2, IndexRow27
<1>11. /\ \A st \in Batches(Index)[28] : IndexRow(28, st)
      /\ \A st, u \in Batches(Index)[28] : st.table = u.table /\ st.name = u.name => st = u
  <2>1. Batches(Index)[28] = Vendors[2]
    BY <1>1, IndexPlaces
  <2>2. \A st, u \in Vendors[2] : st.table = u.table /\ st.name = u.name => st = u
    BY DEF Vendors, Create
  <2> QED
    BY <2>1, <2>2, IndexRow28
<1>12. /\ \A st \in Batches(Index)[29] : IndexRow(29, st)
      /\ \A st, u \in Batches(Index)[29] : st.table = u.table /\ st.name = u.name => st = u
  <2>1. Batches(Index)[29] = Vendors[3]
    BY <1>1, IndexPlaces
  <2>2. \A st, u \in Vendors[3] : st.table = u.table /\ st.name = u.name => st = u
    <3> DEFINE a == Create("vendor", "SG-VEN-001", {<<"organization", "Marine_Fuel">>},
                           {serviceType("Bunker"), serviceType("Water"), port("SGSIN"),
                               port("AEJEA")})
               b == Create("vendor", "NL-VEN-002", {<<"organization", "Port_Services">>},
                           {serviceType("Provisions"), serviceType("Waste"), serviceType("Crew"),
                               port("NLRTM")})
    <3>1. Vendors[3] = {a, b}
      BY DEF Vendors
    <3>2. a.name = "SG-VEN-001" /\ b.name = "NL-VEN-002"
      BY DEF Create
    <3> HIDE DEF a, b
    <3> QED
      BY <3>1, <3>2
  <2> QED
    BY <2>1, <2>2, IndexRow29
<1>13. /\ \A st \in Batches(Index)[30] : IndexRow(30, st)
      /\ \A st, u \in Batches(Index)[30] : st.table = u.table /\ st.name = u.name => st = u
  <2>1. Batches(Index)[30] = Agents[1]
    BY <1>1, IndexPlaces
  <2>2. \A st, u \in Agents[1] : st.table = u.table /\ st.name = u.name => st = u
    BY DEF Agents, Create
  <2> QED
    BY <2>1, <2>2, IndexRow30
<1>14. /\ \A st \in Batches(Index)[31] : IndexRow(31, st)
      /\ \A st, u \in Batches(Index)[31] : st.table = u.table /\ st.name = u.name => st = u
  <2>1. Batches(Index)[31] = Agents[2]
    BY <1>1, IndexPlaces
  <2>2. \A st, u \in Agents[2] : st.table = u.table /\ st.name = u.name => st = u
    BY DEF Agents, Create, port
  <2> QED
    BY <2>1, <2>2, IndexRow31
<1>15. /\ \A st \in Batches(Index)[32] : IndexRow(32, st)
      /\ \A st, u \in Batches(Index)[32] : st.table = u.table /\ st.name = u.name => st = u
  <2>1. Batches(Index)[32] = PortCalls
    BY <1>1, IndexPlaces
  <2>2. \A st, u \in PortCalls : st.table = u.table /\ st.name = u.name => st = u
    BY DEF PortCalls, Create, PortCall, admin, operator, port, vessel, workspace
  <2> QED
    BY <2>1, <2>2, IndexRow32
<1>16. /\ \A st \in Batches(Index)[33] : IndexRow(33, st)
      /\ \A st, u \in Batches(Index)[33] : st.table = u.table /\ st.name = u.name => st = u
  <2>1. Batches(Index)[33] = ServiceOrders
    BY <1>1, IndexPlaces
  <2>2. \A st, u \in ServiceOrders : st.table = u.table /\ st.name = u.name => st = u
    BY DEF ServiceOrders, Create, Order, operator, portCall, serviceType, vendor
  <2> QED
    BY <2>1, <2>2, IndexRow33
<1>17. /\ \A st \in Batches(Index)[34] : IndexRow(34, st)
      /\ \A st, u \in Batches(Index)[34] : st.table = u.table /\ st.name = u.name => st = u
  <2>1. Batches(Index)[34] = RfqAndQuote[1]
    BY <1>1, IndexPlaces
  <2>2. \A st, u \in RfqAndQuote[1] : st.table = u.table /\ st.name = u.name => st = u
    BY DEF RfqAndQuote, Create, operator, portCall, serviceType, vendor
  <2> QED
    BY <2>1, <2>2, IndexRow34
<1>18. /\ \A st \in Batches(Index)[35] : IndexRow(35, st)
      /\ \A st, u \in Batches(Index)[35] : st.table = u.table /\ st.name = u.name => st = u
  <2>1. Batches(Index)[35] = RfqAndQuote[2]
    BY <1>1, IndexPlaces
  <2>2. \A st, u \in RfqAndQuote[2] : st.table = u.table /\ st.name = u.name => st = u
    BY DEF RfqAndQuote, Create, vendor
  <2> QED
    BY <2>1, <2>2, IndexRow35
<1>19. /\ \A st \in Batches(Index)[36] : IndexRow(36, st)
      /\ \A st, u \in Batches(Index)[36] : st.table = u.table /\ st.name = u.name => st = u
  <2>1. Batches(Index)[36] = Notifications
    BY <1>1, IndexPlaces
  <2>2. \A st, u \in Notifications : st.table = u.table /\ st.name = u.name => st = u
    BY DEF Notifications, Create, admin, operator, portCall
  <2> QED
    BY <2>1, <2>2, IndexRow36
<1>30. ASSUME NEW n \in 19..36
       PROVE  /\ \A st \in Batches(Index)[n] : IndexRow(n, st)
              /\ \A st, u \in Batches(Index)[n] : st.table = u.table /\ st.name = u.name => st = u
  <2>1. n = 19 \/ n = 20 \/ n = 21 \/ n = 22 \/ n = 23 \/ n = 24 \/ n = 25 \/ n = 26 \/ n = 27
            \/ n = 28 \/ n = 29 \/ n = 30 \/ n = 31 \/ n = 32 \/ n = 33 \/ n = 34 \/ n = 35 \/ n
               = 36
    OBVIOUS
  <2> QED
    BY <2>1, <1>2, <1>3, <1>4, <1>5, <1>6, <1>7, <1>8, <1>9, <1>10, <1>11, <1>12, <1>13, <1>14, <1>15, <1>16, <1>17, <1>18, <1>19
<1> QED
  BY <1>1, <1>30, IndexPlaces

\* All batches of prisma/seed.ts; two statements of a batch make different rows.
LEMMA PrismaScript ==
  /\ Len(Batches(Prisma)) = 11 /\ DOMAIN Batches(Prisma) = 1..11
  /\ \A n \in 1..11 : \A st \in Batches(Prisma)[n] : PrismaRow(n, st)
  /\ \A n \in 1..11 : \A st, u \in Batches(Prisma)[n] :
       st.table = u.table /\ st.name = u.name => st = u
<1>1. Batches(Prisma) = PrismaSeed
  BY DEF Batches, Index, Prisma
<1>2. /\ \A st \in Batches(Prisma)[1] : PrismaRow(1, st)
      /\ \A st, u \in Batches(Prisma)[1] : st.table = u.table /\ st.name = u.name => st = u
  <2>1. Batches(Prisma)[1] = DemoAccounts[1]
    BY <1>1, PrismaPlaces
  <2>2. \A st, u \in DemoAccounts[1] : st.table = u.table /\ st.name = u.name => st = u
    BY DEF DemoAccounts, Upsert, demoOrg
  <2> QED
    BY <2>1, <2>2, PrismaRow1
<1>3. /\ \A st \in Batches(Prisma)[2] : PrismaRow(2, st)
      /\ \A st, u \in Batches(Prisma)[2] : st.table = u.table /\ st.name = u.name => st = u
  <2>1. Batches(Prisma)[2] = DemoAccounts[2]
    BY <1>1, PrismaPlaces
  <2>2. \A st, u \in DemoAccounts[2] : st.table = u.table /\ st.name = u.name => st = u
    BY DEF DemoAccounts, Upsert, demoOrg, demoUser
  <2> QED
    BY <2>1, <2>2, PrismaRow2
<1>4. /\ \A st \in Batches(Prisma)[3] : PrismaRow(3, st)
      /\ \A st, u \in Batches(Prisma)[3] : st.table = u.table /\ st.name = u.name => st = u
  <2>1. Batches(Prisma)[3] = DemoAccounts[3]
    BY <1>1, PrismaPlaces
  <2>2. \A st, u \in DemoAccounts[3] : st.table = u.table /\ st.name = u.name => st = u
    BY DEF DemoAccounts, Upsert, demoOrg, demoWorkspace
  <2> QED
    BY <2>1, <2>2, PrismaRow3
<1>5. /\ \A st \in Batches(Prisma)[4] : PrismaRow(4, st)
      /\ \A st, u \in Batches(Prisma)[4] : st.table = u.table /\ st.name = u.name => st = u
  <2>1. Batches(Prisma)[4] = DemoAccounts[4]
    BY <1>1, PrismaPlaces
  <2>2. \A st, u \in DemoAccounts[4] : st.table = u.table /\ st.name = u.name => st = u
    BY DEF DemoAccounts, Upsert, demoUser, demoWorkspace
  <2> QED
    BY <2>1, <2>2, PrismaRow4
<1>6. /\ \A st \in Batches(Prisma)[5] : PrismaRow(5, st)
      /\ \A st, u \in Batches(Prisma)[5] : st.table = u.table /\ st.name = u.name => st = u
  <2>1. Batches(Prisma)[5] = DemoPorts
    BY <1>1, PrismaPlaces
  <2>2. \A st, u \in DemoPorts : st.table = u.table /\ st.name = u.name => st = u
    BY DEF DemoPorts, Upsert
  <2> QED
    BY <2>1, <2>2, PrismaRow5
<1>7. /\ \A st \in Batches(Prisma)[6] : PrismaRow(6, st)
      /\ \A st, u \in Batches(Prisma)[6] : st.table = u.table /\ st.name = u.name => st = u
  <2>1. Batches(Prisma)[6] = DemoVessels
    BY <1>1, PrismaPlaces
  <2>2. \A st, u \in DemoVessels : st.table = u.table /\ st.name = u.name => st = u
    BY DEF DemoVessels, Upsert, demoWorkspace
  <2> QED
    BY <2>1, <2>2, PrismaRow6
<1>8. /\ \A st \in Batches(Prisma)[7] : PrismaRow(7, st)
      /\ \A st, u \in Batches(Prisma)[7] : st.table = u.table /\ st.name = u.name => st = u
  <2>1. Batches(Prisma)[7] = DemoPortCall
    BY <1>1, PrismaPlaces
  <2>2. \A st, u \in DemoPortCall : st.table = u.table /\ st.name = u.name => st = u
    BY DEF DemoPortCall, Upsert, demoUser, demoWorkspace, port, vessel
  <2> QED
    BY <2>1, <2>2, PrismaRow7
<1>9. /\ \A st \in Batches(Prisma)[8] : PrismaRow(8, st)
      /\ \A st, u \in Batches(Prisma)[8] : st.table = u.table /\ st.name = u.name => st = u
  <2>1. Batches(Prisma)[8] = DemoServiceTypes
    BY <1>1, PrismaPlaces
  <2>2. \A st, u \in DemoServiceTypes : st.table = u.table /\ st.name = u.name => st = u
    BY DEF DemoServiceTypes, Upsert
  <2> QED
    BY <2>1, <2>2, PrismaRow8
<1>10. /\ \A st \in Batches(Prisma)[9] : PrismaRow(9, st)
      /\ \A st, u \in Batches(Prisma)[9] : st.table = u.table /\ st.name = u.name => st = u
  <2>1. Batches(Prisma)[9] = DemoVendor[1]
    BY <1>1, PrismaPlaces
  <2>2. \A st, u \in DemoVendor[1] : st.table = u.table /\ st.name = u.name => st = u
    BY DEF DemoVendor, Upsert
  <2> QED
    BY <2>1, <2>2, PrismaRow9
<1>11. /\ \A st \in Batches(Prisma)[10] : PrismaRow(10, st)
      /\ \A st, u \in Batches(Prisma)[10] : st.table = u.table /\ st.name = u.name => st = u
  <2>1. Batches(Prisma)[10] = DemoVendor[2]
    BY <1>1, PrismaPlaces
  <2>2. \A st, u \in DemoVendor[2] : st.table = u.table /\ st.name = u.name => st = u
    BY DEF DemoVendor, Upsert, serviceType
  <2> QED
    BY <2>1, <2>2, PrismaRow10
<1>12. /\ \A st \in Batches(Prisma)[11] : PrismaRow(11, st)
      /\ \A st, u \in Batches(Prisma)[11] : st.table = u.table /\ st.name = u.name => st = u
  <2>1. Batches(Prisma)[11] = FeatureFlags
    BY <1>1, PrismaPlaces
  <2>2. \A st, u \in FeatureFlags : st.table = u.table /\ st.name = u.name => st = u
    BY DEF FeatureFlags, Upsert
  <2> QED
    BY <2>1, <2>2, PrismaRow11
<1>30. ASSUME NEW n \in 1..11
       PROVE  /\ \A st \in Batches(Prisma)[n] : PrismaRow(n, st)
              /\ \A st, u \in Batches(Prisma)[n] : st.table = u.table
                     /\ st.name = u.name => st = u
  <2>1. n = 1 \/ n = 2 \/ n = 3 \/ n = 4 \/ n = 5 \/ n = 6 \/ n = 7 \/ n = 8 \/ n = 9 \/ n = 10
            \/ n = 11
    OBVIOUS
  <2> QED
    BY <2>1, <1>2, <1>3, <1>4, <1>5, <1>6, <1>7, <1>8, <1>9, <1>10, <1>11, <1>12
<1> QED
  BY <1>1, <1>30, PrismaPlaces


\* What the proofs below use of the scripts.
MakesRow(s, n, st) ==
  /\ st.op \in {"create", "upsert"} /\ st.name # "app"
  /\ \A k \in st.refs : k = <<k[1], k[2]>> /\ MayRefer(st.table, k[1]) /\ Made(s, n, k[1], k[2])
  /\ \A k \in st.weak : k = <<k[1], k[2]>> /\ MayName(st.table, k[1]) /\ Made(s, n, k[1], k[2])
  /\ s = Index => /\ n > 18 /\ st.op = "create" /\ st.table \in Cleared
                  /\ <<st.table, st.name>> \notin DemoKeys
  /\ s = Prisma => st.op = "upsert" /\ Sole(st.table, st.name)
ClearsTable(s, n, st) ==
  s = Index /\ n <= 18 /\ st.op = "deleteMany"
      /\ st.table = ClearTables[n] /\ Batches(s)[n] = {st}

LEMMA Statements ==
  ASSUME NEW s \in Scripts
  PROVE  /\ Len(Batches(s)) \in Nat \ {0} /\ DOMAIN Batches(s) = 1..Len(Batches(s))
         /\ s = Index => Len(Batches(s)) = 36
         /\ \A n \in 1..Len(Batches(s)) : \A st \in Batches(s)[n] :
              IF Creates(st) THEN MakesRow(s, n, st) ELSE ClearsTable(s, n, st)
         /\ \A n \in 1..Len(Batches(s)) : \A st \in Batches(s)[n] : s = Index /\ n <= 18
                => ~Creates(st)
<1>1. Index # Prisma /\ s \in {Index, Prisma}
  BY DEF Index, Prisma, Scripts
<1>2. CASE s = Index
  <2>1. ASSUME NEW n \in 1..36, NEW st \in Batches(Index)[n]
        PROVE  /\ IF Creates(st) THEN MakesRow(Index, n, st) ELSE ClearsTable(Index, n, st)
               /\ n <= 18 => ~Creates(st)
    <3>1. CASE n \in 1..18
      <4>1. Batches(Index)[n] = {[op |-> "deleteMany", table |-> ClearTables[n]]}
        BY <3>1, IndexScript DEF DeleteMany
      <4>2. st = [op |-> "deleteMany", table |-> ClearTables[n]] /\ Batches(Index)[n] = {st}
        BY <2>1, <4>1
      <4>3. st.op = "deleteMany" /\ st.table = ClearTables[n]
        BY <4>2
      <4> QED
        BY <3>1, <4>2, <4>3 DEF Creates, ClearsTable
    <3>2. CASE n \in 19..36
      <4>1. IndexRow(n, st) /\ n > 18 /\ ~(n <= 18)
        BY <2>1, <3>2, IndexScript
      <4> QED
        BY <4>1, <1>1 DEF IndexRow, MakesRow, Creates
    <3> QED
      BY <3>1, <3>2
  <2> QED
    BY <1>2, <2>1, IndexScript
<1>3. CASE s = Prisma
  <2>1. ASSUME NEW n \in 1..11, NEW st \in Batches(Prisma)[n]
        PROVE  Creates(st) /\ MakesRow(Prisma, n, st)
    BY <1>1, PrismaScript DEF PrismaRow, MakesRow, Creates
  <2> QED
    BY <1>1, <1>3, <2>1, PrismaScript
<1> QED
  BY <1>1, <1>2, <1>3

\* Every row of a script has one statement.
LEMMA OneStatement ==
  ASSUME NEW s \in Scripts, NEW n \in 1..Len(Batches(s)), NEW m \in 1..Len(Batches(s)),
         NEW st \in Batches(s)[n], NEW u \in Batches(s)[m],
         Creates(st), Creates(u), st.table = u.table, st.name = u.name
  PROVE  n = m /\ st = u
<1>1. Index # Prisma /\ s \in {Index, Prisma}
  BY DEF Index, Prisma, Scripts
<1>2. CASE s = Index
  <2>1. n \in 1..36 /\ m \in 1..36 /\ n > 18 /\ m > 18
    BY <1>2, Statements DEF MakesRow
  <2>2. \A q \in 1..36 : q > 18 => q \in 19..36
    OBVIOUS
  <2>3. n \in 19..36 /\ m \in 19..36
    BY <2>1, <2>2, Zenon
  <2>4. IndexRow(n, st) /\ IndexRow(m, u)
    BY <1>2, <2>3, IndexScript
  <2>5. n = m
    BY <2>4 DEF IndexRow
  <2> QED
    BY <1>2, <2>3, <2>5, IndexScript
<1>3. CASE s = Prisma
  <2>1. n \in 1..11 /\ m \in 1..11
    BY <1>3, PrismaScript
  <2>2. PrismaRow(n, st) /\ PrismaRow(m, u)
    BY <1>3, <2>1, PrismaScript
  <2>3. n = m
    BY <2>2 DEF PrismaRow
  <2> QED
    BY <1>3, <2>1, <2>3, PrismaScript
<1> QED
  BY <1>1, <1>2, <1>3

-----------------------------------------------------------------------------
(* The rows, when one is added and when a table is cleared.                  *)

LEMMA Tables ==
  /\ \A t \in Cleared : ClearedAt[t] \in 1..18 /\ t \notin CascadeTables /\ t \notin SetNullTables
  /\ \A t \in Cleared : ClearTables[ClearedAt[t]] = t
  /\ \A t \in CascadeTables : t \notin SetNullTables
  /\ \A t \in DOMAIN AppParent : MayRefer(t, AppParent[t]) /\ ~Sole(t, "app")
<1>1. \A t \in Cleared : ClearedAt[t] \in 1..18 /\ t \notin CascadeTables
          /\ t \notin SetNullTables
  BY DEF Cleared, ClearedAt, CascadeTables, SetNullTables
<1>2. \A t \in CascadeTables : t \notin SetNullTables
  BY DEF CascadeTables, SetNullTables
<1>3. ASSUME NEW t \in DOMAIN AppParent
      PROVE  MayRefer(t, AppParent[t]) /\ ~Sole(t, "app")
  <2>1. t \in {"operatorVendorList", "vendorInvitation", "portCallTimeline", "message",
               "automationRule", "vesselPosition"}
    BY DEF AppParent
  <2>2. MayRefer(t, AppParent[t])
    BY <2>1 DEF AppParent, MayRefer, Under, Loose, Cleared, ClearedAt, CascadeTables,
        SetNullTables
  <2>3. ~Sole(t, "app")
    BY <2>1 DEF Sole, UniqueTables, DemoKeys
  <2> QED
    BY <2>2, <2>3
<1>4. \A t \in Cleared : ClearTables[ClearedAt[t]] = t
  BY DEF Cleared, ClearedAt, ClearTables
<1> QED
  BY <1>1, <1>2, <1>3, <1>4

\* A row is added that refers to rows that are there.
LEMMA RowAdded ==
  ASSUME RowsOK, OneOfEach, WeakRefsHold,
         NEW r, db' = db \cup {r}, r.id \notin Ids,
         r = [id |-> r.id, refs |-> r.refs, weak |-> r.weak],
         r.id = <<r.id[1], r.id[2], r.id[3]>>, r.id[3] \in Nat,
         \A i \in r.refs : i \in Ids /\ MayRefer(r.id[1], i[1]),
         \A i \in r.weak : i \in Ids /\ MayName(r.id[1], i[1]),
         IF ByApp(r.id) THEN /\ r.id[1] \in DOMAIN AppParent /\ r.id[3] < appRows'
                             /\ \A i \in r.weak : <<r.id[1], i[1]>> \in Dangling
                        ELSE r.id[3] <= attempts',
         Sole(r.id[1], r.id[2]) => Find(r.id[1], r.id[2]) = {},
         attempts' = attempts, appRows \in Nat, appRows' \in {appRows, appRows + 1}
  PROVE  RowsOK' /\ OneOfEach' /\ WeakRefsHold' /\ Ids' = Ids \cup {r.id}
<1>1. Ids' = Ids \cup {r.id}
  BY DEF Ids
<1>2. RowsOK'
  <2>1. SUFFICES ASSUME NEW q \in db'
        PROVE  /\ q = [id |-> q.id, refs |-> q.refs, weak |-> q.weak]
               /\ q.id = <<q.id[1], q.id[2], q.id[3]>> /\ q.id[3] \in Nat
               /\ \A i \in q.refs : i \in Ids' /\ MayRefer(q.id[1], i[1])
               /\ \A i \in q.weak : MayName(q.id[1], i[1])
               /\ IF ByApp(q.id) THEN /\ q.id[1] \in DOMAIN AppParent /\ q.id[3] < appRows'
                                      /\ \A i \in q.weak : <<q.id[1], i[1]>> \in Dangling
                                 ELSE q.id[3] <= attempts'
    BY DEF RowsOK, ByApp
  <2>2. CASE q = r
    BY <1>1, <2>2
  <2>3. CASE q \in db
    <3>1. q.id[3] \in Nat /\ (q.id[3] < appRows => q.id[3] < appRows')
      BY <2>3 DEF RowsOK
    <3> QED
      BY <1>1, <2>3, <3>1 DEF RowsOK
  <2> QED
    BY <2>2, <2>3
<1>3. OneOfEach'
  <2>1. \A p, q \in db' : p.id = q.id => p = q
    BY DEF OneOfEach, Ids
  <2>2. \A i, j \in Ids' : i[1] = j[1] /\ i[2] = j[2] /\ Sole(i[1], i[2]) => i = j
    <3>1. \A j \in Ids : Sole(r.id[1], r.id[2]) => ~(j[1] = r.id[1] /\ j[2] = r.id[2])
      BY DEF Find
    <3> QED
      BY <1>1, <3>1 DEF OneOfEach
  <2> QED
    BY <2>1, <2>2 DEF OneOfEach
<1>4. WeakRefsHold'
  BY <1>1 DEF WeakRefsHold
<1> QED
  BY <1>1, <1>2, <1>3, <1>4

LEMMA RefsReplaced ==
  ASSUME NEW r, NEW a, NEW b, NEW c, NEW x, r = [id |-> a, refs |-> b, weak |-> c]
  PROVE  [r EXCEPT !.refs = x] = [id |-> a, refs |-> x, weak |-> c]
OBVIOUS

\* A table is cleared that the database lets go of: whatever named its rows has
\* gone before it.
LEMMA TableCleared ==
  ASSUME RowsOK, OneOfEach, WeakRefsHold, NEW n \in 1..18, NEW t, t = ClearTables[n],
         CanDelete(t), db' = AfterDelete(t),
         \A i \in Ids : i[1] \in Cleared /\ ~ByApp(i) => ClearedAt[i[1]] >= n,
         attempts' = attempts, appRows' = appRows
  PROVE  RowsOK' /\ OneOfEach' /\ WeakRefsHold' /\ Ids' \subseteq {i \in Ids : i[1] # t}
<1> DEFINE Stays(r) == r.id[1] # t /\ ~(r.id[1] \in CascadeTables /\ r.refs \cap IdsOf(t) # {})
           Left(r) == [id |-> r.id, refs |-> r.refs \ IdsOf(t), weak |-> r.weak]
           New(r) == IF r.id[1] \in SetNullTables THEN [r EXCEPT !.refs = @ \ IdsOf(t)] ELSE r
<1>1. t \in Cleared /\ ClearedAt[t] = n /\ t \notin CascadeTables /\ t \notin SetNullTables
  BY ClearPlaces, Tables
<1>2. \A r \in db : r = [id |-> r.id, refs |-> r.refs, weak |-> r.weak]
  BY DEF RowsOK
<1>3. ASSUME NEW r \in db, Stays(r)
      PROVE  New(r) = Left(r)
  <2>1. CASE r.id[1] \in SetNullTables
    <3>1. PICK x : x = r.refs \ IdsOf(t)
      OBVIOUS
    <3>2. PICK a, b, c : r = [id |-> a, refs |-> b, weak |-> c] /\ a = r.id /\ c = r.weak
      BY <1>2
    <3>3. [r EXCEPT !.refs = x] = [id |-> a, refs |-> x, weak |-> c]
      BY <3>2, RefsReplaced, SMT
    <3> QED
      BY <2>1, <3>1, <3>2, <3>3
  <2>2. CASE r.id[1] \notin SetNullTables
    <3>1. r.refs \cap IdsOf(t) = {}
      BY <1>3, <2>2 DEF CanDelete
    <3>2. r.refs \ IdsOf(t) = r.refs
      BY <3>1
    <3> QED
      BY <1>2, <2>2, <3>2
  <2> QED
    BY <2>1, <2>2
<1>4. db' = {Left(r) : r \in {q \in db : Stays(q)}}
  <2>1. db' = {New(r) : r \in {q \in db : Stays(q)}}
    BY DEF AfterDelete
  <2> HIDE DEF New, Left, Stays
  <2> QED
    BY <1>3, <2>1
<1>5. \A q \in db' : \E r \in db : Stays(r) /\ q.id = r.id /\ q.weak = r.weak
                                   /\ q.refs = r.refs \ IdsOf(t) /\ q = Left(r)
  BY <1>4
<1>6. \A r \in db : Stays(r) => r.id \in Ids'
  <2>1. ASSUME NEW r \in db, Stays(r) PROVE r.id \in Ids'
    <3>1. Left(r) \in db' /\ Left(r).id = r.id
      BY <1>4, <2>1
    <3> QED
      BY <3>1 DEF Ids
  <2> QED
    BY <2>1
<1> HIDE DEF Left
<1>7. Ids' \subseteq {i \in Ids : i[1] # t}
  <2>1. ASSUME NEW i \in Ids' PROVE i \in Ids /\ i[1] # t
    <3>1. PICK q \in db' : q.id = i
      BY DEF Ids
    <3>2. PICK r \in db : Stays(r) /\ q.id = r.id
      BY <1>5
    <3> QED
      BY <3>1, <3>2 DEF Ids
  <2> QED
    BY <2>1
<1>8. \A i \in Ids : i[1] \in Cleared /\ i[1] # t => i \in Ids'
  <2>1. ASSUME NEW i \in Ids, i[1] \in Cleared, i[1] # t PROVE i \in Ids'
    <3>1. PICK r \in db : r.id = i
      BY DEF Ids
    <3>2. Stays(r)
      BY <2>1, <3>1, Tables
    <3> QED
      BY <1>6, <3>1, <3>2
  <2> QED
    BY <2>1
<1>9. RowsOK'
  <2>1. SUFFICES ASSUME NEW q \in db'
        PROVE  /\ q = [id |-> q.id, refs |-> q.refs, weak |-> q.weak]
               /\ q.id = <<q.id[1], q.id[2], q.id[3]>> /\ q.id[3] \in Nat
               /\ \A i \in q.refs : i \in Ids' /\ MayRefer(q.id[1], i[1])
               /\ \A i \in q.weak : MayName(q.id[1], i[1])
               /\ IF ByApp(q.id) THEN /\ q.id[1] \in DOMAIN AppParent /\ q.id[3] < appRows'
                                      /\ \A i \in q.weak : <<q.id[1], i[1]>> \in Dangling
                                 ELSE q.id[3] <= attempts'
    BY DEF RowsOK, ByApp
  <2>2. PICK r \in db : Stays(r) /\ q.id = r.id /\ q.weak = r.weak
                        /\ q.refs = r.refs \ IdsOf(t) /\ q = Left(r)
    BY <1>5
  <2>3. q = [id |-> q.id, refs |-> q.refs, weak |-> q.weak]
    BY <2>2 DEF Left
  <2>4. ASSUME NEW i \in q.refs PROVE i \in Ids' /\ MayRefer(q.id[1], i[1])
    <3>1. i \in r.refs /\ i \notin IdsOf(t)
      BY <2>2, <2>4
    <3>2. i \in Ids /\ MayRefer(r.id[1], i[1])
      BY <3>1 DEF RowsOK
    <3>3. i[1] \in Cleared /\ i[1] # t
      BY <3>1, <3>2 DEF MayRefer, IdsOf
    <3> QED
      BY <1>8, <2>2, <3>2, <3>3
  <2> QED
    BY <2>2, <2>3, <2>4 DEF RowsOK
<1>10. OneOfEach'
  <2>1. ASSUME NEW p \in db', NEW q \in db', p.id = q.id PROVE p = q
    <3>1. PICK a \in db : p.id = a.id /\ p = Left(a)
      BY <1>5
    <3>2. PICK b \in db : q.id = b.id /\ q = Left(b)
      BY <1>5
    <3>3. a = b
      BY <2>1, <3>1, <3>2 DEF OneOfEach
    <3> QED
      BY <3>1, <3>2, <3>3
  <2> QED
    BY <1>7, <2>1 DEF OneOfEach
<1>11. WeakRefsHold'
  <2>1. SUFFICES ASSUME NEW q \in db', NEW i \in q.weak, <<q.id[1], i[1]>> \notin Dangling
                 PROVE  i \in Ids'
    BY DEF WeakRefsHold
  <2>2. PICK r \in db : q.id = r.id /\ q.weak = r.weak
    BY <1>5
  <2>3. i \in Ids /\ Under(r.id[1], i[1]) /\ ~ByApp(r.id)
    BY <2>1, <2>2 DEF WeakRefsHold, RowsOK, MayName
  <2>4. r.id \in Ids
    BY DEF Ids
  <2>5. ClearedAt[r.id[1]] >= n /\ ClearedAt[r.id[1]] < ClearedAt[i[1]] /\ i[1] \in Cleared
        /\ ClearedAt[r.id[1]] \in 1..18 /\ ClearedAt[i[1]] \in 1..18
    BY <2>3, <2>4, Tables DEF Under
  <2>6. i[1] # t
    BY <1>1, <2>5
  <2> QED
    BY <1>8, <2>3, <2>5, <2>6
<1> QED
  BY <1>7, <1>9, <1>10, <1>11

-----------------------------------------------------------------------------
(* The script that runs.                                                     *)

\* A statement under way is one of its batch.
LEMMA UnderWay ==
  ASSUME Running, NEW st \in seeding.todo
  PROVE  /\ seeding.script \in Scripts /\ seeding.at \in 1..Len(Batches(seeding.script))
         /\ Len(Batches(seeding.script)) \in Nat
         /\ st \in Batches(seeding.script)[seeding.at]
         /\ IF Creates(st) THEN MakesRow(seeding.script, seeding.at, st)
                           ELSE ClearsTable(seeding.script, seeding.at, st)
<1>1. /\ seeding.script \in Scripts /\ seeding.at \in 1..Len(Batches(seeding.script))
      /\ st \in Batches(seeding.script)[seeding.at]
  BY DEF Running, SeedingOK
<1> QED
  BY <1>1, Statements

LEMMA NotNone ==
  ASSUME SeedingOK
  PROVE  seeding # None
BY DEF SeedingOK, None, Scripts

\* What follows a statement: the end, the next batch, or the rest of this one.
LEMMA AfterStatement ==
  ASSUME SeedingOK, NEW st \in seeding.todo, NEW g, seeding' = After(st, g)
  PROVE  LET s == seeding IN
         \/ /\ s.todo = {st} /\ s.at = Len(Batches(s.script)) /\ seeding' = None
         \/ /\ s.todo = {st} /\ s.at < Len(Batches(s.script))
            /\ seeding' = [script |-> s.script, at |-> s.at + 1,
                   todo |-> Batches(s.script)[s.at + 1],
                           got |-> s.got \cup g]
         \/ /\ s.todo # {st}
            /\ seeding' = [script |-> s.script, at |-> s.at, todo |-> s.todo \ {st},
                   got |-> s.got \cup g]
<1>1. PICK sc, at, todo, got :
        /\ seeding = [script |-> sc, at |-> at, todo |-> todo, got |-> got]
        /\ sc = seeding.script /\ at = seeding.at /\ todo = seeding.todo /\ got = seeding.got
  BY DEF SeedingOK
<1>2. at \in 1..Len(Batches(sc)) /\ Len(Batches(sc)) \in Nat
  BY <1>1, Statements DEF SeedingOK
<1>3. CASE todo # {st}
  <2>1. seeding' = [seeding EXCEPT !.todo = @ \ {st}, !.got = @ \cup g]
    <3>1. seeding.todo # {st}
      BY <1>1, <1>3
    <3> QED
      BY <3>1 DEF After
  <2>2. seeding' = [script |-> sc, at |-> at, todo |-> todo \ {st}, got |-> got \cup g]
    BY <1>1, <2>1
  <2> QED
    BY <1>1, <1>3, <2>2
<1>4. CASE todo = {st} /\ at < Len(Batches(sc))
  <2>1. seeding' = [seeding EXCEPT !.at = @ + 1, !.todo = Batches(sc)[at + 1], !.got = @ \cup g]
    BY <1>1, <1>4 DEF After
  <2>2. PICK b : b = Batches(sc)[at + 1]
    OBVIOUS
  <2>3. seeding' = [script |-> sc, at |-> at + 1, todo |-> b, got |-> got \cup g]
    BY <1>1, <2>1, <2>2
  <2> QED
    BY <1>1, <1>4, <2>2, <2>3
<1>5. CASE todo = {st} /\ ~(at < Len(Batches(sc)))
  <2>1. seeding' = None
    BY <1>1, <1>5 DEF After
  <2> QED
    BY <1>1, <1>2, <1>5, <2>1
<1> QED
  BY <1>3, <1>4, <1>5

\* What a statement refers to has been made, and is in the variables of main().
LEMMA RefsThere ==
  ASSUME Running, NEW st \in seeding.todo, Creates(st)
  PROVE  /\ st.refs \subseteq {<<i[1], i[2]>> : i \in Resolve(st.refs)}
         /\ Resolve(st.refs) \subseteq Ids /\ Resolve(st.weak) \subseteq Ids
         /\ \A i \in Resolve(st.refs) : MayRefer(st.table, i[1])
         /\ \A i \in Resolve(st.weak) : MayName(st.table, i[1])
<1>1. MakesRow(seeding.script, seeding.at, st) /\ seeding.at \in Nat
  BY UnderWay
<1>2. seeding.got \subseteq Ids
  BY DEF Running, SeedingOK
<1>3. \A i \in Resolve(st.refs) : i \in Ids /\ MayRefer(st.table, i[1])
  <2>1. ASSUME NEW i \in Resolve(st.refs) PROVE i \in Ids /\ MayRefer(st.table, i[1])
    <3>1. i \in seeding.got /\ <<i[1], i[2]>> \in st.refs
      BY DEF Resolve
    <3>2. PICK k \in st.refs : k = <<i[1], i[2]>> /\ k[1] = i[1]
      BY <3>1
    <3> QED
      BY <1>1, <1>2, <3>1, <3>2 DEF MakesRow
  <2> QED
    BY <2>1
<1>4. \A i \in Resolve(st.weak) : i \in Ids /\ MayName(st.table, i[1])
  <2>1. ASSUME NEW i \in Resolve(st.weak) PROVE i \in Ids /\ MayName(st.table, i[1])
    <3>1. i \in seeding.got /\ <<i[1], i[2]>> \in st.weak
      BY DEF Resolve
    <3>2. PICK k \in st.weak : k = <<i[1], i[2]>> /\ k[1] = i[1]
      BY <3>1
    <3> QED
      BY <1>1, <1>2, <3>1, <3>2 DEF MakesRow
  <2> QED
    BY <2>1
<1>5. ASSUME NEW k \in st.refs PROVE \E i \in Resolve(st.refs) : k = <<i[1], i[2]>>
  <2>1. k = <<k[1], k[2]>> /\ Made(seeding.script, seeding.at, k[1], k[2])
    BY <1>1 DEF MakesRow
  <2>2. PICK m \in 1..(seeding.at - 1) : Makes(Batches(seeding.script)[m], k[1], k[2])
    BY <2>1 DEF Made
  <2>3. PICK u \in Batches(seeding.script)[m] : Creates(u) /\ u.table = k[1] /\ u.name = k[2]
    BY <2>2 DEF Makes
  <2>4. m \in 1..seeding.at /\ m < seeding.at
    BY <1>1
  <2>5. PICK i \in seeding.got : i[1] = u.table /\ i[2] = u.name
    BY <2>3, <2>4 DEF Running, Kept
  <2>6. <<i[1], i[2]>> = k
    BY <2>1, <2>3, <2>5
  <2> QED
    BY <2>5, <2>6 DEF Resolve
<1> QED
  BY <1>3, <1>4, <1>5

\* What a script creates is not there yet.
LEMMA NotThereYet ==
  ASSUME RowsOK, Running, NEW st \in seeding.todo, Creates(st)
  PROVE  /\ \A i \in Ids : i[3] = attempts => ~(i[1] = st.table /\ i[2] = st.name)
         /\ st.op = "create" => Find(st.table, st.name) = {}
<1>1. MakesRow(seeding.script, seeding.at, st) /\ st.name # "app"
  BY UnderWay DEF MakesRow
<1>2. ASSUME NEW i \in Ids, i[3] = attempts, i[1] = st.table, i[2] = st.name PROVE FALSE
  <2>1. ~Pending(i[1], i[2])
    BY <1>1, <1>2 DEF Running, Fresh, ByApp
  <2>2. Makes(seeding.todo, st.table, st.name)
    BY DEF Makes
  <2> QED
    BY <1>2, <2>1, <2>2 DEF Pending
<1>3. ASSUME st.op = "create", NEW i \in Find(st.table, st.name) PROVE FALSE
  <2>1. seeding.script = Index
    BY <1>1, <1>3, UnderWay DEF MakesRow, Scripts, Index, Prisma
  <2>2. seeding.at > 18 /\ st.table \in Cleared
    BY <1>1, <2>1 DEF MakesRow
  <2>3. i \in Ids /\ i[1] = st.table /\ i[2] = st.name
    BY DEF Find
  <2>4. i[3] = attempts
    BY <1>1, <2>1, <2>2, <2>3 DEF Running, Clearing, ByApp
  <2> QED
    BY <1>2, <2>3, <2>4
<1> QED
  BY <1>2, <1>3

\* The next statement, or the next batch: what is kept of the script that runs.
LEMMA RunsOn ==
  ASSUME Running, NEW st \in seeding.todo, NEW g, seeding' = After(st, g), seeding' # None,
         ended' = ended, attempts' = attempts,
         g \subseteq Ids', seeding.got \subseteq Ids',
         Creates(st) => \E i \in g : i[1] = st.table /\ i[2] = st.name,
         \A i \in Ids' : i \in Ids \/ (Creates(st) /\ i[1] = st.table /\ i[2] = st.name)
  PROVE  SeedingOK' /\ Fresh' /\ Kept'
<1> DEFINE sc == seeding.script
           at == seeding.at
           B(n) == Batches(sc)[n]
<1>1. /\ sc \in Scripts /\ at \in 1..Len(Batches(sc)) /\ Len(Batches(sc)) \in Nat
      /\ st \in B(at) /\ seeding.todo \subseteq B(at) /\ ended = Never
  BY UnderWay DEF Running, SeedingOK
<1>2. /\ seeding' = [script |-> seeding'.script, at |-> seeding'.at, todo |-> seeding'.todo,
             got |-> seeding'.got]
      /\ seeding'.script = sc /\ seeding'.got = seeding.got \cup g
      /\ \/ seeding.todo = {st} /\ at < Len(Batches(sc)) /\ seeding'.at = at + 1 /\ seeding'.todo
                = B(at + 1)
         \/ seeding'.at = at /\ seeding'.todo = seeding.todo \ {st}
  BY AfterStatement DEF Running
<1>3. SeedingOK'
  BY <1>1, <1>2 DEF SeedingOK, Never
<1>4. ASSUME NEW n \in 1..Len(Batches(sc)), NEW u \in B(n), Creates(u), Creates(st),
             u.table = st.table, u.name = st.name
      PROVE  n = at /\ u = st
  BY <1>1, <1>4, OneStatement
<1>5. ASSUME NEW t, NEW name, Pending(t, name)'
      PROVE  Pending(t, name) /\ (Creates(st) => ~(t = st.table /\ name = st.name))
  <2>1. PICK n \in at..Len(Batches(sc)) : \E u \in B(n) :
           /\ Creates(u) /\ u.table = t /\ u.name = name
           /\ n = at => u \in seeding.todo /\ u # st
    <3>1. CASE Makes(seeding'.todo, t, name)
      <4>1. PICK u \in seeding'.todo : Creates(u) /\ u.table = t /\ u.name = name
        BY <3>1 DEF Makes
      <4>2. CASE seeding'.todo = seeding.todo \ {st}
        BY <1>1, <4>1, <4>2
      <4>3. CASE at < Len(Batches(sc)) /\ seeding'.todo = B(at + 1)
        <5>1. at + 1 \in at..Len(Batches(sc)) /\ at + 1 # at
          BY <1>1, <4>3
        <5> QED
          BY <4>1, <4>3, <5>1
      <4> QED
        BY <1>2, <4>2, <4>3
    <3>2. CASE \E n \in (seeding'.at + 1)..Len(Batches(sc)) : Makes(B(n), t, name)
      <4>1. PICK n \in (seeding'.at + 1)..Len(Batches(sc)) : Makes(B(n), t, name)
        BY <3>2
      <4>2. PICK u \in B(n) : Creates(u) /\ u.table = t /\ u.name = name
        BY <4>1 DEF Makes
      <4>3. n \in at..Len(Batches(sc)) /\ n # at
        BY <1>1, <1>2
      <4> QED
        BY <4>2, <4>3
    <3> QED
      BY <1>2, <1>5, <3>1, <3>2 DEF Pending
  <2>2. Pending(t, name)
    <3>1. CASE n = at
      BY <2>1, <3>1 DEF Pending, Makes
    <3>2. CASE n # at
      <4>1. n \in (at + 1)..Len(Batches(sc))
        BY <1>1, <3>2
      <4> QED
        BY <2>1, <4>1 DEF Pending, Makes
    <3> QED
      BY <3>1, <3>2
  <2>3. n \in 1..Len(Batches(sc))
    BY <1>1
  <2> QED
    BY <1>4, <2>1, <2>2, <2>3
<1>6. Fresh'
  <2>1. ASSUME NEW i \in Ids', ~ByApp(i), i[3] = attempts PROVE ~Pending(i[1], i[2])'
    BY <1>5, <2>1 DEF Running, Fresh
  <2> QED
    BY <2>1 DEF Fresh, ByApp
<1>7. Kept'
  <2>1. SUFFICES ASSUME NEW m \in 1..seeding'.at, NEW u \in B(m), Creates(u),
                        m < seeding'.at \/ u \notin seeding'.todo
                 PROVE  \E i \in seeding'.got : i[1] = u.table /\ i[2] = u.name
    BY <1>2 DEF Kept
  <2>2. CASE u = st
    BY <1>2, <2>1, <2>2
  <2>3. CASE u # st
    <3>1. m \in 1..at /\ (m < at \/ u \notin seeding.todo)
      <4>1. CASE seeding.todo = {st} /\ seeding'.at = at + 1 /\ seeding'.todo = B(at + 1)
        <5>1. m # at + 1
          BY <2>1, <4>1
        <5>2. m \in 1..at
          BY <1>1, <4>1, <5>1
        <5> QED
          BY <2>3, <4>1, <5>2
      <4>2. CASE seeding'.at = at /\ seeding'.todo = seeding.todo \ {st}
        BY <2>1, <2>3, <4>2
      <4> QED
        BY <1>2, <4>1, <4>2
    <3>2. \E i \in seeding.got : i[1] = u.table /\ i[2] = u.name
      BY <2>1, <3>1 DEF Running, Kept
    <3> QED
      BY <1>2, <3>2
  <2> QED
    BY <2>2, <2>3
<1> QED
  BY <1>3, <1>6, <1>7

-----------------------------------------------------------------------------
(* The steps.                                                                *)

LEMMA OneOf ==
  ASSUME NEW S, NEW x, x \in S, \A y \in S : y = x
  PROVE  Cardinality(S) = 1
<1>1. S = {x}
  OBVIOUS
<1> QED
  BY <1>1, FS_Singleton

\* The end of a script: each of its rows is there, and there is no other of its key.
LEMMA WholeAtEnd ==
  ASSUME RowsOK', OneOfEach', ended'.script \in Scripts, attempts' = attempts,
         \A u \in Created(ended'.script) : \E i \in Ids' : i[1] = u.table /\ i[2] = u.name,
         ended'.script = Index =>
           \A i \in Ids' : i[1] \in Cleared /\ ~ByApp(i) => i[3] = attempts
  PROVE  FinishedIsWhole'
<1>1. SUFFICES ASSUME NEW u \in Created(ended'.script)
               PROVE  Cardinality(Find(u.table, u.name)') = 1
  BY DEF FinishedIsWhole
<1>2. PICK n \in 1..Len(Batches(ended'.script)) : u \in Batches(ended'.script)[n] /\ Creates(u)
  <2>1. u.op # "deleteMany" /\ \E n \in DOMAIN Batches(ended'.script) : u
            \in Batches(ended'.script)[n]
    BY DEF Created
  <2> QED
    BY <2>1, Statements DEF Creates
<1>3. MakesRow(ended'.script, n, u)
  BY <1>2, Statements
<1>4. PICK i \in Ids' : i[1] = u.table /\ i[2] = u.name
  OBVIOUS
<1>5. ASSUME NEW j \in Find(u.table, u.name)' PROVE j = i
  <2>1. j \in Ids' /\ j[1] = u.table /\ j[2] = u.name
    BY DEF Find
  <2>2. CASE ended'.script = Index
    <3>1. u.table \in Cleared /\ u.name # "app"
      BY <1>3, <2>2 DEF MakesRow
    <3>2. i[3] = attempts /\ j[3] = attempts
      BY <1>4, <2>1, <2>2, <3>1 DEF ByApp
    <3>3. i = <<i[1], i[2], i[3]>> /\ j = <<j[1], j[2], j[3]>>
      BY <2>1 DEF Ids, RowsOK
    <3> QED
      BY <1>4, <2>1, <3>2, <3>3
  <2>3. CASE ended'.script = Prisma
    <3>1. Sole(u.table, u.name)
      BY <1>3, <2>3 DEF MakesRow
    <3> QED
      BY <1>4, <2>1, <3>1 DEF OneOfEach
  <2> QED
    BY <2>2, <2>3 DEF Scripts, Index, Prisma
<1>6. i \in Find(u.table, u.name)'
  BY <1>4 DEF Find
<1> QED
  BY <1>5, <1>6, OneOf

\* A statement that has been carried out, given what it did to the rows.
LEMMA Executed ==
  ASSUME Safe, Running, NEW st \in seeding.todo, NEW g, seeding' = After(st, g),
         IF seeding' = None THEN Ends("done") ELSE ended' = ended,
         attempts' = attempts, disturbed' = disturbed, appRows' = appRows,
         RowsOK', OneOfEach', WeakRefsHold',
         g \subseteq Ids', seeding.got \subseteq Ids',
         Creates(st) => \E i \in g : i[1] = st.table /\ i[2] = st.name,
         \A i \in Ids' : \/ i \in Ids
                         \/ Creates(st) /\ i[1] = st.table /\ i[2] = st.name /\ i[3] = attempts,
         seeding' # None => Clearing'
  PROVE  Safe'
<1>1. Bounds'
  BY DEF Safe, Bounds
<1>2. CASE seeding' # None
  <2>1. SeedingOK' /\ Fresh' /\ Kept'
    BY <1>2, RunsOn
  <2>2. Running'
    BY <1>2, <2>1 DEF Running
  <2>3. ended' = Never
    BY <2>1 DEF SeedingOK
  <2>4. ended'.how = "never"
    BY <2>3 DEF Never
  <2>5. Stopped' /\ FinishedIsWhole' /\ RefusedOnlyInUse'
    BY <2>4 DEF Stopped, FinishedIsWhole, RefusedOnlyInUse
  <2> QED
    BY <1>1, <2>2, <2>5 DEF Safe
<1>3. CASE seeding' = None
  <2> DEFINE sc == seeding.script
  <2>1. /\ sc \in Scripts /\ seeding.at \in 1..Len(Batches(sc)) /\ Len(Batches(sc)) \in Nat
        /\ seeding.todo = {st} /\ seeding.at = Len(Batches(sc))
    <3>1. None.script = "none" /\ "none" \notin Scripts
      BY DEF None, Scripts
    <3>2. seeding.script \in Scripts
      BY UnderWay
    <3>3. seeding' # None \/ (seeding.todo = {st} /\ seeding.at = Len(Batches(sc)))
      <4>1. ASSUME NEW at, NEW todo, NEW got,
                   None = [script |-> sc, at |-> at, todo |-> todo, got |-> got]
            PROVE  FALSE
        BY <3>1, <3>2, <4>1
      <4> QED
        BY AfterStatement, <4>1 DEF Running
    <3> QED
      BY <1>3, <3>3, UnderWay
  <2>2. ended' = [script |-> sc, how |-> "done"] /\ ended'.script = sc /\ ended'.how = "done"
    BY <1>3 DEF Ends
  <2>3. ASSUME NEW u \in Created(sc) PROVE \E i \in Ids' : i[1] = u.table /\ i[2] = u.name
    <3>1. PICK m \in 1..seeding.at : u \in Batches(sc)[m] /\ Creates(u)
      <4>1. u.op # "deleteMany" /\ \E n \in DOMAIN Batches(sc) : u \in Batches(sc)[n]
        BY DEF Created
      <4> QED
        BY <2>1, <4>1, Statements DEF Creates
    <3>2. CASE u = st
      BY <3>1, <3>2
    <3>3. CASE u # st
      <4>1. u \notin seeding.todo
        BY <2>1, <3>3
      <4> QED
        BY <3>1, <4>1 DEF Running, Kept
    <3> QED
      BY <3>2, <3>3
  <2>4. sc = Index => \A i \in Ids' : i[1] \in Cleared /\ ~ByApp(i) => i[3] = attempts
    <3>1. ASSUME sc = Index, NEW i \in Ids', i[1] \in Cleared, ~ByApp(i) PROVE i[3] = attempts
      <4>1. Len(Batches(Index)) = 36
        BY <2>1, <3>1, Statements
      <4>2. seeding.at > 18
        BY <2>1, <3>1, <4>1
      <4>3. i \in Ids => i[3] = attempts
        BY <3>1, <4>2 DEF Running, Clearing, ByApp
      <4> QED
        BY <4>3
    <3> QED
      BY <3>1
  <2>5. FinishedIsWhole'
    BY <2>1, <2>2, <2>3, <2>4, WholeAtEnd
  <2>6. Stopped' /\ RefusedOnlyInUse'
    BY <2>1, <2>2 DEF Stopped, RefusedOnlyInUse
  <2> QED
    BY <1>1, <1>3, <2>5, <2>6 DEF Safe
<1> QED
  BY <1>2, <1>3

LEMMA ScriptStays ==
  ASSUME SeedingOK, NEW st \in seeding.todo, NEW g, seeding' = After(st, g), seeding' # None
  PROVE  seeding'.script = seeding.script /\ seeding'.at \in {seeding.at, seeding.at + 1}
         /\ seeding'.got = seeding.got \cup g
BY AfterStatement

\* A row is created.
LEMMA CreatedRow ==
  ASSUME Safe, Running, NEW st \in seeding.todo, Creates(st),
         st.op = "upsert" => Find(st.table, st.name) = {},
         db' = db \cup {NewRow(st)}, seeding' = After(st, {NewRow(st).id}),
         IF seeding' = None THEN Ends("done") ELSE ended' = ended,
         attempts' = attempts, disturbed' = disturbed, appRows' = appRows
  PROVE  Safe'
<1>1. PICK r : r = NewRow(st)
  OBVIOUS
<1>2. PICK id : id = <<st.table, st.name, attempts>> /\ id[1] = st.table /\ id[2] = st.name
          /\ id[3] = attempts
  <2>1. PICK id : id = <<st.table, st.name, attempts>>
    OBVIOUS
  <2>2. id[1] = st.table /\ id[2] = st.name /\ id[3] = attempts
    BY <2>1
  <2> QED
    BY <2>1, <2>2
<1>3. r.id = id /\ r.refs = Resolve(st.refs) /\ r.weak = Resolve(st.weak)
      /\ r = [id |-> r.id, refs |-> r.refs, weak |-> r.weak]
  BY <1>1, <1>2 DEF NewRow
<1>4. MakesRow(seeding.script, seeding.at, st) /\ st.op \in {"create", "upsert"}
          /\ st.name # "app"
  BY UnderWay DEF MakesRow
<1>5. attempts \in Nat /\ appRows \in Nat
  BY DEF Safe, Bounds
<1>6. id \notin Ids
  BY <1>2, NotThereYet DEF Safe
<1>7. Find(st.table, st.name) = {}
  BY <1>4, NotThereYet DEF Safe
<1>8. RowsOK /\ OneOfEach /\ WeakRefsHold
  BY DEF Safe
<1>9. RowsOK' /\ OneOfEach' /\ WeakRefsHold' /\ Ids' = Ids \cup {id}
  <2>1. \A i \in r.refs : i \in Ids /\ MayRefer(id[1], i[1])
    BY <1>2, <1>3, RefsThere
  <2>2. \A i \in r.weak : i \in Ids /\ MayName(id[1], i[1])
    BY <1>2, <1>3, RefsThere
  <2>3. ~ByApp(id) /\ id[3] <= attempts'
    BY <1>2, <1>4, <1>5 DEF ByApp
  <2>4. db' = db \cup {r}
    BY <1>1
  <2>5. id = <<id[1], id[2], id[3]>> /\ id[3] \in Nat
    BY <1>2, <1>5
  <2>6. Find(id[1], id[2]) = {}
    BY <1>2, <1>7
  <2> QED
    BY <1>3, <1>5, <1>6, <1>8, <2>1, <2>2, <2>3, <2>4, <2>5, <2>6, RowAdded
<1>10. SeedingOK /\ seeding.got \subseteq Ids
  BY DEF Running, SeedingOK
<1>11. seeding' = After(st, {id})
  BY <1>1, <1>3
<1>12. ASSUME seeding' # None PROVE Clearing'
  <2>1. seeding'.script = seeding.script /\ seeding'.at \in {seeding.at, seeding.at + 1}
    BY <1>10, <1>11, <1>12, ScriptStays
  <2>2. SUFFICES ASSUME seeding.script = Index
        PROVE  /\ ~(seeding'.at <= 18)
               /\ \A i \in Ids' : i[1] \in Cleared /\ ~ByApp(i) => i[3] = attempts
    BY <2>1 DEF Clearing, ByApp
  <2>3. seeding.at > 18 /\ seeding.at \in Nat
    BY <1>4, <2>2, UnderWay DEF MakesRow
  <2>4. \A i \in Ids : i[1] \in Cleared /\ ~ByApp(i) => i[3] = attempts
    BY <2>2, <2>3 DEF Running, Clearing
  <2> QED
    BY <1>2, <1>9, <2>1, <2>3, <2>4
<1>13. \A i \in Ids' : \/ i \in Ids
                       \/ Creates(st) /\ i[1] = st.table /\ i[2] = st.name /\ i[3] = attempts
  BY <1>2, <1>9
<1>14. {id} \subseteq Ids' /\ seeding.got \subseteq Ids' /\ \E i \in {id} : i[1] = st.table
           /\ i[2] = st.name
  BY <1>2, <1>9, <1>10
<1> QED
  BY <1>9, <1>11, <1>12, <1>13, <1>14, Executed

\* An upsert finds its row.
LEMMA FoundRow ==
  ASSUME Safe, Running, NEW st \in seeding.todo, Creates(st), st.op = "upsert",
         NEW found, found = Find(st.table, st.name), found # {},
         db' = db, seeding' = After(st, found),
         IF seeding' = None THEN Ends("done") ELSE ended' = ended,
         attempts' = attempts, disturbed' = disturbed, appRows' = appRows
  PROVE  Safe'
<1>1. Ids' = Ids
  BY DEF Ids
<1>2. RowsOK' /\ OneOfEach' /\ WeakRefsHold'
  BY <1>1 DEF Safe, RowsOK, OneOfEach, WeakRefsHold, ByApp
<1>3. found \subseteq Ids' /\ \E i \in found : i[1] = st.table /\ i[2] = st.name
  BY <1>1 DEF Find
<1>4. SeedingOK /\ seeding.got \subseteq Ids'
  BY <1>1 DEF Running, SeedingOK
<1>5. ASSUME seeding' # None PROVE Clearing'
  <2>1. seeding'.script = seeding.script
    BY <1>4, <1>5, ScriptStays
  <2>2. seeding.script # Index
    BY UnderWay DEF MakesRow
  <2> QED
    BY <2>1, <2>2 DEF Clearing
<1>6. \A i \in Ids' : i \in Ids
  BY <1>1
<1> QED
  BY <1>2, <1>3, <1>4, <1>5, <1>6, Executed

\* A table is cleared.
LEMMA ClearedTable ==
  ASSUME Safe, Running, NEW st \in seeding.todo, ~Creates(st), CanDelete(st.table),
         db' = AfterDelete(st.table), seeding' = After(st, {}),
         IF seeding' = None THEN Ends("done") ELSE ended' = ended,
         attempts' = attempts, disturbed' = disturbed, appRows' = appRows
  PROVE  Safe'
<1>1. ClearsTable(seeding.script, seeding.at, st)
  BY UnderWay
<1>2. PICK n \in 1..18 : n = seeding.at /\ st.table = ClearTables[n]
  <2>1. seeding.at \in Nat \ {0} /\ seeding.at <= 18 /\ st.table = ClearTables[seeding.at]
    BY <1>1, UnderWay DEF ClearsTable
  <2> QED
    BY <2>1
<1>3. seeding.script = Index /\ seeding.got = {}
      /\ \A i \in Ids : i[1] \in Cleared /\ (~ByApp(i) \/ ~disturbed) => ClearedAt[i[1]] >= n
  BY <1>1, <1>2 DEF ClearsTable, Running, Clearing
<1>4. RowsOK' /\ OneOfEach' /\ WeakRefsHold' /\ Ids' \subseteq {i \in Ids : i[1] # st.table}
  BY <1>2, <1>3, TableCleared DEF Safe
<1>5. SeedingOK
  BY DEF Running
<1>6. ASSUME seeding' # None PROVE Clearing'
  <2>1. seeding.todo = {st}
    BY <1>1, <1>5 DEF ClearsTable, SeedingOK
  <2>2. seeding'.at = n + 1 /\ seeding'.script = Index /\ seeding'.got = {}
    BY <1>2, <1>3, <1>5, <1>6, <2>1, AfterStatement
  <2>3. ASSUME NEW i \in Ids', i[1] \in Cleared, ~ByApp(i) \/ ~disturbed
        PROVE  ClearedAt[i[1]] >= n + 1 /\ ClearedAt[i[1]] \in 1..18
    <3>1. i \in Ids /\ i[1] # ClearTables[n]
      BY <1>2, <1>4
    <3>2. ClearedAt[i[1]] >= n /\ ClearedAt[i[1]] \in 1..18 /\ ClearTables[ClearedAt[i[1]]] = i[1]
      BY <1>3, <2>3, <3>1, Tables
    <3>3. ClearedAt[i[1]] # n
      BY <3>1, <3>2
    <3> QED
      BY <3>2, <3>3
  <2>4. ASSUME n + 1 <= 18
        PROVE  \A i \in Ids' : i[1] \in Cleared /\ (~ByApp(i) \/ ~disturbed)
            => ClearedAt[i[1]] >= n + 1
    BY <2>3
  <2>5. ASSUME n + 1 > 18
        PROVE  \A i \in Ids' : ~(i[1] \in Cleared /\ ~ByApp(i))
    BY <2>3, <2>5
  <2> QED
    BY <2>2, <2>4, <2>5 DEF Clearing, ByApp
<1>7. {} \subseteq Ids' /\ seeding.got \subseteq Ids' /\ \A i \in Ids' : i \in Ids
  BY <1>3, <1>4
<1> QED
  BY <1>4, <1>6, <1>7, Executed

LEMMA ExecuteSafe ==
  ASSUME Safe, NEW st \in seeding.todo, Execute(st)
  PROVE  Safe'
<1>1. Running
  BY DEF Safe, None
<1>2. Accepts(st) /\ attempts' = attempts /\ disturbed' = disturbed /\ appRows' = appRows
      /\ IF seeding' = None THEN Ends("done") ELSE ended' = ended
  BY DEF Execute
<1>3. CASE ~Creates(st)
  <2>1. st.op = "deleteMany" /\ CanDelete(st.table)
    BY <1>2, <1>3 DEF Creates, Accepts
  <2>2. db' = AfterDelete(st.table) /\ seeding' = After(st, {})
    BY <2>1 DEF Execute
  <2> QED
    BY <1>1, <1>2, <1>3, <2>1, <2>2, ClearedTable
<1>4. CASE Creates(st)
  <2>1. st.op \in {"create", "upsert"} /\ st.op # "deleteMany"
    BY <1>1, <1>4, UnderWay DEF MakesRow
  <2>2. CASE st.op = "upsert" /\ Find(st.table, st.name) # {}
    <3>1. db' = db /\ seeding' = After(st, Find(st.table, st.name))
      BY <2>2 DEF Execute
    <3> QED
      BY <1>1, <1>2, <1>4, <2>2, <3>1, FoundRow
  <2>3. CASE ~(st.op = "upsert" /\ Find(st.table, st.name) # {})
    <3>1. db' = db \cup {NewRow(st)} /\ seeding' = After(st, {NewRow(st).id})
      BY <2>1, <2>3 DEF Execute
    <3> QED
      BY <1>1, <1>2, <1>4, <2>3, <3>1, CreatedRow
  <2> QED
    BY <2>2, <2>3
<1> QED
  BY <1>3, <1>4

\* A statement is refused only while the application has been at work, or when a
\* vendor is on a list.
LEMMA RefuseSafe ==
  ASSUME Safe, NEW st \in seeding.todo, Refuse(st)
  PROVE  Safe'
<1>1. Running
  BY DEF Safe, None
<1>2. /\ ~Accepts(st) /\ seeding' = None /\ db' = db /\ attempts' = attempts
      /\ disturbed' = disturbed /\ appRows' = appRows
      /\ ended' = [script |-> seeding.script, how |-> "refused"]
  BY DEF Refuse, Ends
<1>3. Ids' = Ids /\ ended'.how = "refused"
  BY <1>2 DEF Ids
<1>4. disturbed \/ IdsOf("operatorVendorList") # {}
  <2>1. ASSUME ~disturbed, IdsOf("operatorVendorList") = {} PROVE FALSE
    <3>1. CASE Creates(st)
      <4>1. st.op \in {"create", "upsert"} /\ st.op # "deleteMany"
        BY <1>1, <3>1, UnderWay DEF MakesRow
      <4>2. ~CanCreate(st) /\ (st.op = "upsert" => Find(st.table, st.name) = {})
        BY <1>2, <4>1 DEF Accepts
      <4>3. Find(st.table, st.name) = {}
        BY <1>1, <3>1, <4>1, <4>2, NotThereYet DEF Safe
      <4> QED
        BY <1>1, <3>1, <4>2, <4>3, RefsThere DEF CanCreate
    <3>2. CASE ~Creates(st)
      <4>1. ClearsTable(seeding.script, seeding.at, st)
        BY <1>1, <3>2, UnderWay
      <4>2. PICK t : t = st.table
        OBVIOUS
      <4>3. seeding.script = Index /\ seeding.at \in 1..18 /\ t = ClearTables[seeding.at]
            /\ st.op = "deleteMany"
        BY <1>1, <4>1, <4>2, UnderWay DEF ClearsTable
      <4>4. ~CanDelete(t)
        BY <1>2, <4>2, <4>3 DEF Accepts
      <4>5. PICK r \in db, i \in Ids :
              /\ r.id[1] \notin {t} \cup CascadeTables \cup SetNullTables
              /\ i \in r.refs /\ i[1] = t
        BY <4>4 DEF CanDelete, IdsOf
      <4>6. MayRefer(r.id[1], t) /\ r.id \in Ids
        BY <4>5 DEF Safe, RowsOK, Ids
      <4>7. r.id[1] # "operatorVendorList"
        BY <2>1, <4>6 DEF IdsOf
      <4>8. Under(r.id[1], t)
        BY <4>5, <4>6, <4>7 DEF MayRefer, Loose
      <4>9. ClearedAt[r.id[1]] >= seeding.at
        BY <1>1, <2>1, <4>3, <4>6, <4>8 DEF Running, Clearing, Under
      <4>10. ClearedAt[t] = seeding.at /\ ClearedAt[r.id[1]] < ClearedAt[t]
             /\ ClearedAt[r.id[1]] \in 1..18
        BY <4>3, <4>8, ClearPlaces, Tables DEF Under
      <4> QED
        BY <4>3, <4>9, <4>10
    <3> QED
      BY <3>1, <3>2
  <2> QED
    BY <2>1
<1>5. RefusedOnlyInUse' /\ FinishedIsWhole' /\ Stopped'
  BY <1>2, <1>3, <1>4 DEF RefusedOnlyInUse, FinishedIsWhole, Stopped, IdsOf
<1>6. Bounds' /\ RowsOK' /\ OneOfEach' /\ WeakRefsHold'
  BY <1>2, <1>3 DEF Safe, Bounds, RowsOK, OneOfEach, WeakRefsHold, ByApp
<1> QED
  BY <1>2, <1>5, <1>6 DEF Safe

LEMMA DieSafe ==
  ASSUME Safe, Die
  PROVE  Safe'
<1>1. /\ seeding' = None /\ db' = db /\ attempts' = attempts /\ disturbed' = disturbed
      /\ appRows' = appRows /\ ended' = [script |-> seeding.script, how |-> "died"]
  BY DEF Die, Ends
<1>2. Ids' = Ids /\ ended'.how = "died"
  BY <1>1 DEF Ids
<1>3. RefusedOnlyInUse' /\ FinishedIsWhole' /\ Stopped'
  BY <1>2 DEF RefusedOnlyInUse, FinishedIsWhole, Stopped
<1>4. Bounds' /\ RowsOK' /\ OneOfEach' /\ WeakRefsHold'
  BY <1>1, <1>2 DEF Safe, Bounds, RowsOK, OneOfEach, WeakRefsHold, ByApp
<1> QED
  BY <1>1, <1>3, <1>4 DEF Safe

\* A script begins, after whatever an earlier one has left.
LEMMA StartSafe ==
  ASSUME Safe, NEW s \in Scripts, Start(s)
  PROVE  Safe'
<1>1. /\ attempts < MaxAttempts /\ attempts' = attempts + 1 /\ disturbed' = FALSE
      /\ seeding' = [script |-> s, at |-> 1, todo |-> Batches(s)[1], got |-> {}]
      /\ ended' = Never /\ db' = db /\ appRows' = appRows
  BY DEF Start
<1>2. Ids' = Ids /\ ended'.how = "never"
  BY <1>1 DEF Ids, Never
<1>3. attempts \in 0..MaxAttempts /\ appRows \in 0..MaxAppRows /\ MaxAttempts \in Nat
  BY SeedAssumption DEF Safe, Bounds
<1>4. RefusedOnlyInUse' /\ FinishedIsWhole' /\ Stopped' /\ Bounds'
  <2>1. RefusedOnlyInUse' /\ FinishedIsWhole' /\ Stopped'
    BY <1>2 DEF RefusedOnlyInUse, FinishedIsWhole, Stopped
  <2>2. attempts + 1 \in 0..MaxAttempts
    BY <1>1, <1>3
  <2>3. Bounds'
    BY <1>1, <1>3, <2>2 DEF Bounds
  <2> QED
    BY <2>1, <2>3
<1>5. OneOfEach' /\ WeakRefsHold'
  BY <1>1, <1>2 DEF Safe, OneOfEach, WeakRefsHold
<1>6. \A r \in db : r.id[3] \in Nat /\ (r.id[3] <= attempts => r.id[3] <= attempts')
  BY <1>1, <1>3 DEF Safe, RowsOK
<1>7. RowsOK'
  BY <1>1, <1>2, <1>6 DEF Safe, RowsOK, ByApp
<1>8. SeedingOK'
  BY <1>1, Statements DEF SeedingOK
<1>9. Fresh'
  <2>1. ASSUME NEW i \in Ids, ~ByApp(i) PROVE i[3] # attempts'
    <3>1. i[3] <= attempts /\ i[3] \in Nat
      BY <2>1 DEF Ids, Safe, RowsOK
    <3> QED
      BY <1>1, <1>3, <3>1
  <2> QED
    BY <1>2, <2>1 DEF Fresh, ByApp
<1>10. Kept'
  BY <1>1 DEF Kept
<1>11. Clearing'
  <2>1. \A t \in Cleared : ClearedAt[t] >= 1
    BY Tables
  <2> QED
    BY <1>1, <2>1 DEF Clearing
<1>12. Running'
  BY <1>8, <1>9, <1>10, <1>11 DEF Running
<1> QED
  BY <1>4, <1>5, <1>7, <1>12 DEF Safe

\* The application adds a row, at any moment.
LEMMA AppAddsSafe ==
  ASSUME Safe, NEW t \in AppTables, AppAdds(t)
  PROVE  Safe'
<1>1. PICK refs, weak :
        /\ refs \in AppRefs(t) /\ weak = AppNames(t)
        /\ db' = db \cup {[id |-> <<t, "app", appRows>>, refs |-> refs, weak |-> weak]}
  BY DEF AppAdds
<1>2. /\ appRows < MaxAppRows /\ appRows' = appRows + 1 /\ disturbed' = TRUE
      /\ seeding' = seeding /\ attempts' = attempts /\ ended' = ended
  BY DEF AppAdds
<1>3. t \in DOMAIN AppParent /\ MaxAppRows \in Nat /\ appRows \in 0..MaxAppRows
  BY SeedAssumption DEF Safe, Bounds
<1>4. PICK id : id = <<t, "app", appRows>> /\ id[1] = t /\ id[2] = "app" /\ id[3] = appRows
  <2>1. PICK id : id = <<t, "app", appRows>>
    OBVIOUS
  <2>2. id[1] = t /\ id[2] = "app" /\ id[3] = appRows
    BY <2>1
  <2> QED
    BY <2>1, <2>2
<1>5. PICK r : /\ r = [id |-> id, refs |-> refs, weak |-> weak] /\ db' = db \cup {r}
               /\ r.id = id /\ r.refs = refs /\ r.weak = weak
  <2>1. PICK r : r = [id |-> id, refs |-> refs, weak |-> weak]
    OBVIOUS
  <2>2. r.id = id /\ r.refs = refs /\ r.weak = weak
    BY <2>1
  <2>3. db' = db \cup {r}
    BY <1>1, <1>4, <2>1
  <2> QED
    BY <2>1, <2>2, <2>3
<1>6. id \notin Ids
  <2>1. ASSUME id \in Ids PROVE FALSE
    <3>1. PICK q \in db : q.id = id
      BY <2>1 DEF Ids
    <3>2. id[3] < appRows
      BY <1>4, <3>1 DEF Safe, RowsOK, ByApp
    <3> QED
      BY <1>3, <1>4, <3>2
  <2> QED
    BY <2>1
<1>7. RowsOK' /\ OneOfEach' /\ WeakRefsHold' /\ Ids' = Ids \cup {id}
  <2>1. \A i \in r.refs : i \in Ids /\ MayRefer(id[1], i[1])
    <3>1. \A i \in refs : i \in IdsOf(AppParent[t])
      BY <1>1 DEF AppRefs
    <3> QED
      BY <1>3, <1>4, <1>5, <3>1, Tables DEF IdsOf
  <2>2. ByApp(id) /\ id[1] \in DOMAIN AppParent /\ id[3] < appRows' /\ ~Sole(id[1], id[2])
    BY <1>2, <1>3, <1>4, Tables DEF ByApp
  <2>3. RowsOK /\ OneOfEach /\ WeakRefsHold /\ appRows \in Nat /\ id[3] \in Nat
        /\ id = <<id[1], id[2], id[3]>>
    BY <1>3, <1>4 DEF Safe
  <2>4. r = [id |-> r.id, refs |-> r.refs, weak |-> r.weak]
    BY <1>5
  <2>5. \A i \in r.weak : i \in Ids /\ <<id[1], i[1]>> \in Dangling
    BY <1>1, <1>3, <1>4, <1>5, DanglingPairs DEF AppNames
  <2>6. \A i \in r.weak : i \in Ids /\ MayName(id[1], i[1])
    BY <2>5 DEF MayName
  <2> QED
    BY <1>2, <1>5, <1>6, <2>1, <2>2, <2>3, <2>4, <2>5, <2>6, RowAdded
<1>8. ByApp(id)
  BY <1>4 DEF ByApp
<1>9. Bounds' /\ Stopped' /\ RefusedOnlyInUse'
  BY <1>2, <1>3 DEF Safe, Bounds, Stopped, RefusedOnlyInUse
<1>10. FinishedIsWhole'
  <2>1. SUFFICES ASSUME ended.how = "done", seeding = None, NEW u \in Created(ended.script)
                 PROVE  Cardinality(Find(u.table, u.name)') = 1
    BY <1>2 DEF FinishedIsWhole
  <2>2. ended.script \in Scripts
    BY <2>1 DEF Safe, Stopped
  <2>3. PICK n \in 1..Len(Batches(ended.script)) : u \in Batches(ended.script)[n] /\ Creates(u)
    <3>1. u.op # "deleteMany" /\ \E n \in DOMAIN Batches(ended.script) : u
              \in Batches(ended.script)[n]
      BY DEF Created
    <3> QED
      BY <2>2, <3>1, Statements DEF Creates
  <2>4. u.name # "app"
    BY <2>2, <2>3, Statements DEF MakesRow
  <2>5. Find(u.table, u.name)' = Find(u.table, u.name)
    BY <1>4, <1>7, <2>4 DEF Find
  <2>6. Cardinality(Find(u.table, u.name)) = 1
    BY <2>1 DEF Safe, FinishedIsWhole
  <2> QED
    BY <2>5, <2>6
<1>11. ASSUME Running PROVE Running'
  <2>1. SeedingOK'
    BY <1>2, <1>7, <1>11 DEF Running, SeedingOK
  <2>2. Fresh'
    <3>1. \A a, b : Pending(a, b)' <=> Pending(a, b)
      BY <1>2 DEF Pending
    <3>2. \A i \in Ids' : ~ByApp(i) => i \in Ids
      BY <1>7, <1>8
    <3> QED
      BY <1>2, <1>11, <3>1, <3>2 DEF Running, Fresh, ByApp
  <2>3. Kept'
    BY <1>2, <1>11 DEF Running, Kept
  <2>4. Clearing'
    BY <1>2, <1>7, <1>8, <1>11 DEF Running, Clearing, ByApp
  <2> QED
    BY <2>1, <2>2, <2>3, <2>4 DEF Running
<1> QED
  BY <1>2, <1>7, <1>9, <1>10, <1>11 DEF Safe

LEMMA WeakReplaced ==
  ASSUME NEW r, NEW a, NEW b, NEW c, NEW x, r = [id |-> a, refs |-> b, weak |-> c]
  PROVE  [r EXCEPT !.weak = x] = [id |-> a, refs |-> b, weak |-> x]
OBVIOUS

\* The application writes the winner into an RFQ, whose ids name quotes already.
LEMMA AppAwardsSafe ==
  ASSUME Safe, AppAwards
  PROVE  Safe'
<1>1. /\ seeding' = seeding /\ attempts' = attempts /\ ended' = ended
      /\ disturbed' = disturbed /\ appRows' = appRows
  BY DEF AppAwards
<1>2. PICK r \in db, q \in db :
        /\ r.id[1] = "rFQ" /\ q.id[1] = "quote"
        /\ db' = (db \ {r}) \cup {[r EXCEPT !.weak = @ \cup {q.id}]}
  BY DEF AppAwards
<1>3. PICK n : /\ n = [id |-> r.id, refs |-> r.refs, weak |-> r.weak \cup {q.id}]
               /\ db' = (db \ {r}) \cup {n}
  <2>1. r = [id |-> r.id, refs |-> r.refs, weak |-> r.weak]
    BY DEF Safe, RowsOK
  <2>2. [r EXCEPT !.weak = r.weak \cup {q.id}]
        = [id |-> r.id, refs |-> r.refs, weak |-> r.weak \cup {q.id}]
    BY <2>1, WeakReplaced
  <2> QED
    BY <1>2, <2>2
<1>4. n.id = r.id /\ n.refs = r.refs /\ n.weak = r.weak \cup {q.id}
  BY <1>3
<1>5. Ids' = Ids
  <2>1. \A p \in db' : p.id \in Ids
    BY <1>3, <1>4 DEF Ids
  <2>2. \A p \in db : p.id \in Ids'
    <3>1. n \in db' /\ \A p \in db : p # r => p \in db'
      BY <1>3
    <3> QED
      BY <1>4, <3>1 DEF Ids
  <2> QED
    BY <2>1, <2>2 DEF Ids
<1>6. q.id \in Ids /\ <<r.id[1], q.id[1]>> \in Dangling
  BY <1>2, DanglingPairs DEF Ids
<1>7. RowsOK'
  <2>1. SUFFICES ASSUME NEW p \in db'
        PROVE  /\ p = [id |-> p.id, refs |-> p.refs, weak |-> p.weak]
               /\ p.id = <<p.id[1], p.id[2], p.id[3]>> /\ p.id[3] \in Nat
               /\ \A i \in p.refs : i \in Ids /\ MayRefer(p.id[1], i[1])
               /\ \A i \in p.weak : MayName(p.id[1], i[1])
               /\ IF ByApp(p.id) THEN /\ p.id[1] \in DOMAIN AppParent /\ p.id[3] < appRows
                                      /\ \A i \in p.weak : <<p.id[1], i[1]>> \in Dangling
                                 ELSE p.id[3] <= attempts
    BY <1>1, <1>5 DEF RowsOK, ByApp
  <2>2. CASE p \in db
    BY <2>2 DEF Safe, RowsOK
  <2>3. CASE p = n
    <3>1. \A i \in n.weak : i \in r.weak \/ i = q.id
      BY <1>4
    <3>2. \A i \in n.weak : MayName(r.id[1], i[1])
      BY <1>6, <3>1 DEF Safe, RowsOK, MayName
    <3>3. ByApp(r.id) => \A i \in n.weak : <<r.id[1], i[1]>> \in Dangling
      BY <1>6, <3>1 DEF Safe, RowsOK
    <3>4. n = [id |-> n.id, refs |-> n.refs, weak |-> n.weak]
      BY <1>3, <1>4
    <3> QED
      BY <1>4, <2>3, <3>2, <3>3, <3>4 DEF Safe, RowsOK
  <2> QED
    BY <1>3, <2>2, <2>3
<1>8. OneOfEach'
  <2>1. ASSUME NEW p \in db', NEW o \in db', p.id = o.id PROVE p = o
    <3>1. \A x \in db' : x = n \/ (x \in db /\ x # r)
      BY <1>3
    <3>2. \A x, y \in db : x.id = y.id => x = y
      BY DEF Safe, OneOfEach
    <3> QED
      BY <1>4, <2>1, <3>1, <3>2
  <2> QED
    BY <1>5, <2>1 DEF Safe, OneOfEach
<1>9. WeakRefsHold'
  <2>1. SUFFICES ASSUME NEW p \in db', NEW i \in p.weak PROVE <<p.id[1], i[1]>> \in Dangling
            \/ i \in Ids
    BY <1>5 DEF WeakRefsHold
  <2> QED
    BY <1>3, <1>4, <1>6 DEF Safe, WeakRefsHold
<1>10. Bounds' /\ Stopped' /\ RefusedOnlyInUse' /\ FinishedIsWhole'
  BY <1>1, <1>5 DEF Safe, Bounds, Stopped, RefusedOnlyInUse, FinishedIsWhole, IdsOf, Find
<1>11. Running => Running'
  BY <1>1, <1>5 DEF Running, SeedingOK, Fresh, Kept, Clearing, Pending, ByApp
<1> QED
  BY <1>1, <1>7, <1>8, <1>9, <1>10, <1>11 DEF Safe

LEMMA InitSafe ==
  ASSUME Init
  PROVE  Safe
<1>1. Ids = {} /\ db = {} /\ seeding = None /\ ended.how = "never" /\ attempts = 0 /\ appRows = 0
      /\ disturbed = FALSE
  BY DEF Init, Ids, Never
<1>2. Bounds /\ RowsOK /\ OneOfEach /\ Stopped
  <2>1. Bounds
    <3>1. 0 \in 0..MaxAttempts /\ 0 \in 0..MaxAppRows
      BY SeedAssumption
    <3> QED
      BY <1>1, <3>1 DEF Bounds
  <2>2. RowsOK /\ OneOfEach
    BY <1>1 DEF RowsOK, OneOfEach
  <2>3. Stopped
    BY <1>1 DEF Stopped
  <2> QED
    BY <2>1, <2>2, <2>3
<1>3. WeakRefsHold /\ RefusedOnlyInUse /\ FinishedIsWhole
  BY <1>1 DEF WeakRefsHold, RefusedOnlyInUse, FinishedIsWhole
<1> QED
  BY <1>1, <1>2, <1>3 DEF Safe

LEMMA UnchangedSafe ==
  ASSUME Safe, UNCHANGED vars
  PROVE  Safe'
<1>1. /\ db' = db /\ seeding' = seeding /\ attempts' = attempts /\ ended' = ended
      /\ disturbed' = disturbed /\ appRows' = appRows
  BY DEF vars
<1>2. Ids' = Ids
  BY <1>1 DEF Ids
<1>3. Bounds' /\ RowsOK' /\ OneOfEach' /\ Stopped' /\ WeakRefsHold'
  BY <1>1, <1>2 DEF Safe, Bounds, RowsOK, OneOfEach, Stopped, WeakRefsHold, ByApp
<1>4. RefusedOnlyInUse' /\ FinishedIsWhole'
  BY <1>1, <1>2 DEF Safe, RefusedOnlyInUse, FinishedIsWhole, IdsOf, Find
<1>5. Running => Running'
  BY <1>1, <1>2 DEF Running, SeedingOK, Fresh, Kept, Clearing, Pending, ByApp
<1> QED
  BY <1>1, <1>3, <1>4, <1>5 DEF Safe

LEMMA AlwaysSafe == Spec => []Safe
<1>1. Init => Safe
  BY InitSafe
<1>2. Safe /\ [Next]_vars => Safe'
  <2> SUFFICES ASSUME Safe, [Next]_vars PROVE Safe'
    OBVIOUS
  <2>1. CASE \E s \in Scripts : Start(s)
    BY <2>1, StartSafe
  <2>2. CASE \E st \in seeding.todo : Execute(st) \/ Refuse(st)
    BY <2>2, ExecuteSafe, RefuseSafe
  <2>3. CASE Die
    BY <2>3, DieSafe
  <2>4. CASE \E t \in AppTables : AppAdds(t)
    BY <2>4, AppAddsSafe
  <2>5. CASE AppAwards
    BY <2>5, AppAwardsSafe
  <2>6. CASE UNCHANGED vars
    BY <2>6, UnchangedSafe
  <2> QED
    BY <2>1, <2>2, <2>3, <2>4, <2>5, <2>6 DEF Next
<1> QED
  BY <1>1, <1>2, PTL DEF Spec

LEMMA SafeTypes ==
  ASSUME Safe
  PROVE  TypeOK
<1>1. /\ \A r \in db : DOMAIN r = {"id", "refs", "weak"} /\ r.id[3] \in Nat
      /\ UNION {r.refs : r \in db} \subseteq Ids
  <2>1. \A r \in db : DOMAIN r = {"id", "refs", "weak"} /\ r.id[3] \in Nat
    BY DEF Safe, RowsOK
  <2>2. \A r \in db : \A i \in r.refs : i \in Ids
    BY DEF Safe, RowsOK
  <2> QED
    BY <2>1, <2>2
<1>2. ASSUME NEW i \in Ids PROVE Cardinality({r \in db : r.id = i}) = 1
  <2>1. PICK q \in db : q.id = i
    BY DEF Ids
  <2>2. \A r \in {p \in db : p.id = i} : r = q
    BY <2>1 DEF Safe, OneOfEach
  <2> QED
    BY <2>1, <2>2, OneOf
<1>3. ASSUME NEW i \in Ids, i[1] \in UniqueTables PROVE Cardinality(Find(i[1], i[2])) = 1
  <2>1. i \in Find(i[1], i[2])
    BY DEF Find
  <2>2. \A j \in Find(i[1], i[2]) : j = i
    BY <1>3 DEF Find, Safe, OneOfEach, Sole
  <2> QED
    BY <2>1, <2>2, OneOf
<1>4. seeding.script \in Scripts \cup {"none"} /\ seeding.got \subseteq Ids
  BY DEF Safe, None, Running, SeedingOK
<1> QED
  BY <1>1, <1>2, <1>3, <1>4 DEF TypeOK, Safe, Bounds, Stopped

-----------------------------------------------------------------------------
\* Rows are well formed and refer to rows that are there; an id names one row, and
\* so does a natural key (seeds/index.ts and prisma/seed.ts, over schema.prisma).
THEOREM Types == Spec => []TypeOK
BY AlwaysSafe, SafeTypes, PTL

\* No statement of a script is refused, whatever scripts have run before and wherever
\* they died, unless the application has added a row since the script began or a
\* vendor is on an operator's list ("clear existing data in reverse dependency order").
THEOREM RefusedOnly == Spec => []RefusedOnlyInUse
<1>1. Safe => RefusedOnlyInUse
  BY DEF Safe
<1> QED
  BY <1>1, AlwaysSafe, PTL

\* A script that has run to its end has left each of its rows, once.
THEOREM FinishedWhole == Spec => []FinishedIsWhole
<1>1. Safe => FinishedIsWhole
  BY DEF Safe
<1> QED
  BY <1>1, AlwaysSafe, PTL

\* An id that no foreign key guards names a row that is there, at every statement of
\* the clearing and the filling, but for the pairs of tables in Dangling: what vendors
\* and agents list, the winner of an RFQ, and what the application's own rows name.
THEOREM WeakHold == Spec => []WeakRefsHold
<1>1. Safe => WeakRefsHold
  BY DEF Safe
<1> QED
  BY <1>1, AlwaysSafe, PTL
=============================================================================
