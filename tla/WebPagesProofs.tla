---------------------------- MODULE WebPagesProofs ----------------------------
(***************************************************************************)
(* What the pages keep to, for any number of visits.                       *)
(***************************************************************************)
EXTENDS WebPages, FiniteSetTheorems, TLAPS

-----------------------------------------------------------------------------
(* What every page declares                                                  *)

\* The fields it loads, saves and asks for are fields of its state.
Fielded(p) ==
  /\ p.record \subseteq p.state /\ p.loaded \subseteq p.state
  /\ \A i \in p.inputs : i.name \in p.state

\* A button that starts an await is disabled while the page is busy.
Guarded(p) == \A a \in p.acts : a.waits => a.guarded

\* A page that edits a record fills every field of it at once, has an input for
\* each, and never empties them.
Recorded(p) ==
  p.record # {} =>
    /\ p.starts = "effect" /\ p.again = "no" /\ p.clears = {}
    /\ p.record \subseteq p.loaded /\ "currentStatus" \notin p.record
    /\ \A f \in p.record : \E i \in p.inputs : i.name = f
    /\ \A i \in p.inputs : i.name \in p.record => i.kind \in {"must", "may", "pick"}

\* NoBadge, of a page and a status.
Badgeless(p, s) ==
  \/ p = RfqView /\ s \in {"cancelled", "expired"}
  \/ p = VesselView
  \/ p = PortalPortCallView /\ s \in {"draft", "cancelled"}

\* The groups part the statuses.
Grouped(p) ==
  p.groups # {} =>
    /\ p.statuses # {} /\ p.options \subseteq p.statuses
    /\ \A s \in p.statuses : ~Badgeless(p, s) =>
         \E g \in p.groups : \A h \in p.groups : s \in h <=> h = g

WellMade(p) == Fielded(p) /\ Guarded(p) /\ Recorded(p) /\ Grouped(p)

LEMMA EditFields ==
  ASSUME NEW state, NEW record, NEW loaded, NEW inputs, NEW acts, NEW p,
         p = EditPage(state, record, loaded, inputs, acts)
  PROVE  /\ p.state = state /\ p.record = record /\ p.loaded = loaded /\ p.inputs = inputs
         /\ p.acts = acts /\ p.starts = "effect" /\ p.again = "no" /\ p.clears = {} /\ p.groups = {}
BY DEF EditPage, Page

\* Every one of the fields has an input that is not a search.
Asked(fields, inputs) ==
  \A f \in fields : \/ [name |-> f, kind |-> "must"] \in inputs
                    \/ [name |-> f, kind |-> "may"] \in inputs
                    \/ [name |-> f, kind |-> "pick"] \in inputs

LEMMA AskedHasInput ==
  ASSUME NEW fields, NEW inputs, Asked(fields, inputs)
  PROVE  \A f \in fields : \E i \in inputs : i.name = f
<1>1. ASSUME NEW f \in fields, NEW k, [name |-> f, kind |-> k] \in inputs
      PROVE  \E i \in inputs : i.name = f
  BY <1>1
<1> QED
  BY <1>1 DEF Asked

\* A page whose fields are all filled from its record.
LEMMA EditWellMade ==
  ASSUME NEW fields, NEW inputs, NEW acts, NEW p, p = EditPage(fields, fields, fields, inputs, acts),
         "currentStatus" \notin fields, \A a \in acts : a.guarded, Asked(fields, inputs),
         \A i \in inputs : i.name \in fields /\ i.kind \in {"must", "may", "pick"}
  PROVE  WellMade(p)
BY AskedHasInput, EditFields DEF WellMade, Fielded, Guarded, Recorded, Grouped

LEMMA EditActs ==
  ASSUME NEW does, NEW ends
  PROVE  Act(does, ends).guarded /\ Opened(Act(does, ends)).guarded
BY DEF Act, Opened

LEMMA RfqEditWellMade == WellMade(RfqEdit)
<1> DEFINE inputs == rfqEditBasics \cup rfqEditRequirements \cup rfqEditVendors
<1>1. \A i \in inputs : i.name \in rfqRecord /\ i.kind \in {"must", "may", "pick"}
  BY DEF rfqRecord, rfqEditBasics, rfqEditRequirements, rfqEditVendors, Must, May, Pick
<1>2. Asked(rfqRecord, inputs)
  BY DEF Asked, rfqRecord, rfqEditBasics, rfqEditRequirements, rfqEditVendors, Must, May, Pick
<1>3. \A a \in rfqEditActs : a.guarded
  BY EditActs DEF rfqEditActs
<1>4. "currentStatus" \notin rfqRecord
  BY DEF rfqRecord
<1> QED
  BY <1>1, <1>2, <1>3, <1>4, EditWellMade DEF RfqEdit, rfqEditState, rfqEditLoaded

LEMMA ServiceEditWellMade == WellMade(ServiceEdit)
<1> DEFINE inputs == serviceEditDetails \cup serviceEditSchedule
<1>1. \A i \in inputs : i.name \in serviceRecord /\ i.kind \in {"must", "may", "pick"}
  BY DEF serviceRecord, serviceEditDetails, serviceEditSchedule, Must, May, Pick
<1>2. Asked(serviceRecord, inputs)
  BY DEF Asked, serviceRecord, serviceEditDetails, serviceEditSchedule, Must, May, Pick
<1>3. \A a \in serviceEditActs : a.guarded
  BY EditActs DEF serviceEditActs
<1>4. "currentStatus" \notin serviceRecord
  BY DEF serviceRecord
<1> QED
  BY <1>1, <1>2, <1>3, <1>4, EditWellMade DEF ServiceEdit, serviceEditState, serviceEditLoaded

LEMMA VesselEditWellMade == WellMade(VesselEdit)
<1> DEFINE inputs == vesselEditBasics \cup vesselEditDimensions \cup vesselEditOwnership
<1>1. \A i \in inputs : i.name \in vesselRecord /\ i.kind \in {"must", "may", "pick"}
  BY DEF vesselRecord, vesselEditBasics, vesselEditDimensions, vesselEditOwnership, Must, May, Pick
<1>2. Asked(vesselRecord, inputs)
  BY DEF Asked, vesselRecord, vesselEditBasics, vesselEditDimensions, vesselEditOwnership, Must, May, Pick
<1>3. \A a \in vesselEditActs : a.guarded
  BY EditActs DEF vesselEditActs
<1>4. "currentStatus" \notin vesselRecord
  BY DEF vesselRecord
<1> QED
  BY <1>1, <1>2, <1>3, <1>4, EditWellMade DEF VesselEdit, vesselEditState, vesselEditLoaded

LEMMA PortCallEditWellMade == WellMade(PortCallEdit)
<1> DEFINE inputs == portCallEditPlace \cup portCallEditTimes
<1>1. \A i \in inputs : i.name \in portCallRecord /\ i.kind \in {"must", "may", "pick"}
  BY DEF portCallRecord, portCallEditPlace, portCallEditTimes, Must, May, Pick
<1>2. Asked(portCallRecord, inputs)
  BY DEF Asked, portCallRecord, portCallEditPlace, portCallEditTimes, Must, May, Pick
<1>3. \A a \in portCallEditActs : a.guarded
  BY EditActs DEF portCallEditActs
<1>4. "currentStatus" \notin portCallRecord
  BY DEF portCallRecord
<1> QED
  BY <1>1, <1>2, <1>3, <1>4, EditWellMade DEF PortCallEdit, portCallEditState, portCallEditLoaded

LEMMA VendorSettingsWellMade == WellMade(VendorSettings)
<1> DEFINE inputs == settingsProfile \cup settingsServices
<1>1. \A i \in inputs : i.name \in vendorProfile /\ i.kind \in {"must", "may", "pick"}
  BY DEF vendorProfile, settingsProfile, settingsServices, Must, May, Pick
<1>2. Asked(vendorProfile, inputs)
  BY DEF Asked, vendorProfile, settingsProfile, settingsServices, Must, May, Pick
<1>3. \A a \in {Act("save", "form")} : a.guarded
  BY EditActs
<1>4. "currentStatus" \notin vendorProfile
  BY DEF vendorProfile
<1> QED
  BY <1>1, <1>2, <1>3, <1>4, EditWellMade DEF VendorSettings

LEMMA PortCallNewWellMade == WellMade(PortCallNew)
BY DEF WellMade, Fielded, Guarded, Recorded, Grouped, Page, PortCallNew, portCallNewInputs, Must, May, Act

LEMMA RfqNewWellMade == WellMade(RfqNew)
BY DEF WellMade, Fielded, Guarded, Recorded, Grouped, Page, RfqNew, rfqNewState, rfqNewInputs, Must, May, Act

LEMMA ResetPasswordWellMade == WellMade(ResetPassword)
BY DEF WellMade, Fielded, Guarded, Recorded, Grouped, Page, ResetPassword, resetPasswordInputs, Must, Act

LEMMA ForgotPasswordWellMade == WellMade(ForgotPassword)
BY DEF WellMade, Fielded, Guarded, Recorded, Grouped, Page, ForgotPassword, Must, Act

LEMMA InviteWellMade == WellMade(Invite)
BY DEF WellMade, Fielded, Guarded, Recorded, Grouped, Page, Invite, inviteInputs, Must, Act

LEMMA VendorInviteWellMade == WellMade(VendorInvite)
BY DEF WellMade, Fielded, Guarded, Recorded, Grouped, Page, VendorInvite, vendorInviteInputs, Must, May, Act, MayFail

LEMMA InvitationRowWellMade == WellMade(InvitationRow)
BY DEF WellMade, Fielded, Guarded, Recorded, Grouped, Page, InvitationRow, invitationActs, Act, Opened, MayFail

LEMMA QuoteFormWellMade == WellMade(QuoteForm)
BY DEF WellMade, Fielded, Guarded, Recorded, Grouped, Page, QuoteForm, quoteFormInputs, Must, May, Pick, Act, MayFail

LEMMA VendorRfqWellMade == WellMade(VendorRfq)
BY DEF WellMade, Fielded, Guarded, Recorded, Grouped, Page, VendorRfq, vendorRfqInputs, vendorRfqLoaded, May, Pick, Act

LEMMA VendorOrderWellMade == WellMade(VendorOrder)
BY DEF WellMade, Fielded, Guarded, Recorded, Grouped, Page, VendorOrder, vendorOrderLoaded, May, Act

LEMMA QuoteComparisonWellMade == WellMade(QuoteComparison)
BY DEF WellMade, Fielded, Guarded, Recorded, Grouped, Page, QuoteComparison, quoteComparisonShows, quoteComparisonActs, Act, MayFail, Opened, Stays

LEMMA ReportsWellMade == WellMade(Reports)
BY DEF WellMade, Fielded, Guarded, Recorded, Grouped, Page, Reports, Pick, Act, MayFail

LEMMA ContactWellMade == WellMade(Contact)
BY DEF WellMade, Fielded, Guarded, Recorded, Grouped, Page, Contact, contactInputs, Must, May, Act

LEMMA DemoWellMade == WellMade(Demo)
BY DEF WellMade, Fielded, Guarded, Recorded, Grouped, Page, Demo, demoInputs, Must, May, Act

LEMMA KeySettingsWellMade == WellMade(KeySettings)
BY DEF WellMade, Fielded, Guarded, Recorded, Grouped, Page, KeySettings, keySettingsState

LEMMA RfqFormNewWellMade == WellMade(RfqFormNew)
BY DEF WellMade, Fielded, Guarded, Recorded, Grouped, Page, RfqFormNew, RfqForm, rfqFormFields, rfqFormInputs, Must, May, Act, MayFail

\* The port call of an RFQ has no input.
LEMMA RfqFormEditWellMade == WellMade(RfqFormEdit)
<1> DEFINE p == RfqFormEdit
           saved == rfqFormFields \ {"port_call_id"}
<1>1. /\ p.state = rfqFormFields /\ p.record = saved /\ p.loaded = rfqFormFields /\ p.inputs = rfqFormInputs
      /\ p.starts = "effect" /\ p.again = "no" /\ p.clears = {} /\ p.groups = {}
      /\ p.acts = {MayFail(Act("save", "form"))}
  BY DEF RfqFormEdit, RfqForm, Page
<1>2. \A i \in rfqFormInputs : i.name \in rfqFormFields /\ i.kind \in {"must", "may", "pick"}
  BY DEF rfqFormFields, rfqFormInputs, Must, May
<1>3. Asked(saved, rfqFormInputs)
  BY DEF Asked, rfqFormFields, rfqFormInputs, Must, May
<1>4. MayFail(Act("save", "form")).guarded
  BY DEF MayFail, Act
<1>5. "currentStatus" \notin rfqFormFields
  BY DEF rfqFormFields
<1> HIDE DEF p, saved
<1>6. WellMade(p)
  <2>1. Fielded(p) /\ Guarded(p) /\ Grouped(p)
    BY <1>1, <1>2, <1>4 DEF Fielded, Guarded, Grouped, saved
  <2>2. \A f \in saved : \E i \in rfqFormInputs : i.name = f
    BY <1>3, AskedHasInput
  <2>3. Recorded(p)
    BY <1>1, <1>2, <1>5, <2>2 DEF Recorded, saved
  <2> QED
    BY <2>1, <2>3 DEF WellMade
<1> QED
  BY <1>6 DEF p

LEMMA ViewWellMade ==
  ASSUME NEW shows, NEW loaded \in SUBSET shows, NEW statuses, NEW badges, NEW p,
         p = View(shows, loaded, statuses, badges),
         statuses # {}, \A s \in statuses : Badgeless(p, s) \/ s \in badges
  PROVE  WellMade(p)
<1>1. /\ p.state = shows /\ p.record = {} /\ p.loaded = loaded /\ p.inputs = {} /\ p.acts = {}
      /\ p.statuses = statuses /\ p.options = {} /\ p.groups = {badges}
  BY DEF View, Page
<1> QED
  BY <1>1 DEF WellMade, Fielded, Guarded, Recorded, Grouped

LEMMA RfqViewWellMade == WellMade(RfqView)
<1>1. {"rfq", "quotes", "invitedVendors"} \subseteq rfqViewShows /\ {rfqViewStatus(s) : s \in RFQStatus} # {}
  BY DEF rfqViewShows, rfqViewStatus, rfqViewBadges, RFQStatus
<1>2. \A s \in {rfqViewStatus(s) : s \in RFQStatus} : Badgeless(RfqView, s) \/ s \in rfqViewBadges
  BY DEF Badgeless, rfqViewShows, rfqViewStatus, rfqViewBadges, RFQStatus
<1> QED
  BY <1>1, <1>2, ViewWellMade DEF RfqView

LEMMA ServiceViewWellMade == WellMade(ServiceView)
<1>1. {"service", "timeline"} \subseteq serviceViewShows /\ OrderStatus # {}
  BY DEF serviceViewShows, serviceViewBadges, OrderStatus
<1>2. \A s \in OrderStatus : Badgeless(ServiceView, s) \/ s \in serviceViewBadges
  BY DEF Badgeless, serviceViewShows, serviceViewBadges, OrderStatus
<1> QED
  BY <1>1, <1>2, ViewWellMade DEF ServiceView

LEMMA VesselViewWellMade == WellMade(VesselView)
<1> DEFINE statuses == {"unknown", "Under way using engine", "Moored"}
<1>1. statuses # {}
  BY Zenon
<1>2. {"vessel"} \subseteq vesselViewShows
  BY DEF vesselViewShows
<1> HIDE DEF statuses
<1>3. VesselView = View(vesselViewShows, {"vessel"}, statuses, vesselViewBadges)
  BY Zenon DEF VesselView, statuses
<1> QED
  BY <1>1, <1>2, <1>3, ViewWellMade DEF Badgeless

LEMMA PortCallViewWellMade == WellMade(PortCallView)
<1>1. {"portCall"} \subseteq portCallViewShows /\ PortCallStatus # {}
  BY DEF portCallViewShows, portCallViewBadges, PortCallStatus
<1>2. \A s \in PortCallStatus : Badgeless(PortCallView, s) \/ s \in portCallViewBadges
  BY DEF Badgeless, portCallViewShows, portCallViewBadges, PortCallStatus
<1> QED
  BY <1>1, <1>2, ViewWellMade DEF PortCallView

LEMMA VendorViewWellMade == WellMade(VendorView)
<1>1. {"vendor"} \subseteq vendorViewShows /\ {"active"} # {}
  BY DEF vendorViewShows
<1>2. \A s \in {"active"} : Badgeless(VendorView, s) \/ s \in {"active", "inactive"}
  BY DEF Badgeless, vendorViewShows
<1> QED
  BY <1>1, <1>2, ViewWellMade DEF VendorView

LEMMA PortalPortCallViewWellMade == WellMade(PortalPortCallView)
<1>1. {"data", "services"} \subseteq portalPortCallViewShows /\ PortCallStatus # {}
  BY DEF portalPortCallViewShows, portalPortCallViewBadges, PortCallStatus
<1>2. \A s \in PortCallStatus : Badgeless(PortalPortCallView, s) \/ s \in portalPortCallViewBadges
  BY DEF Badgeless, portalPortCallViewShows, portalPortCallViewBadges, PortCallStatus
<1> QED
  BY <1>1, <1>2, ViewWellMade DEF PortalPortCallView

\* A list whose groups part the statuses of its records.
Parted(p, statuses, options, groups) ==
  /\ p.record = {} /\ p.loaded = {} /\ p.acts = {}
  /\ p.statuses = statuses /\ p.options = options /\ p.groups = groups
  /\ \A i \in p.inputs : i.name \in p.state

LEMMA ListParted ==
  ASSUME NEW statuses, NEW options, NEW groups, NEW p, p = List(statuses, options, groups)
  PROVE  Parted(p, statuses, options, groups)
BY DEF List, Page, Search, Choice, Parted

LEMMA PartedWellMade ==
  ASSUME NEW statuses, NEW options, NEW groups, NEW p, Parted(p, statuses, options, groups),
         statuses # {}, options \subseteq statuses,
         \A s \in statuses : \E g \in groups : \A h \in groups : s \in h <=> h = g
  PROVE  WellMade(p)
BY DEF Parted, WellMade, Fielded, Guarded, Recorded, Grouped

\* A list with one group.
LEMMA OneGroupWellMade ==
  ASSUME NEW statuses, NEW options, NEW p, Parted(p, statuses, options, {statuses}),
         statuses # {}, options \subseteq statuses
  PROVE  WellMade(p)
BY PartedWellMade

LEMMA ListVariants ==
  ASSUME NEW statuses, NEW options, NEW groups, NEW p, p = List(statuses, options, groups)
  PROVE  /\ Parted(WithTypes(p), statuses, options, groups)
         /\ Parted([p EXCEPT !.dialog = documentUpload], statuses, options, groups)
         /\ Parted([p EXCEPT !.state = @ \cup {"viewMode"}, !.inputs = @ \cup fleetMapModes],
                   statuses, options, groups)
BY DEF List, Page, Search, Choice, Parted, WithTypes, Pick, fleetMapModes

LEMMA ListsWellMade == \A p \in Lists : WellMade(p)
<1>1. WellMade(RfqList)
  <2>1. rfqListStatuses # {} /\ rfqListOptions \subseteq rfqListStatuses
    BY DEF rfqListStatuses, rfqListOptions
  <2>2. \A s \in rfqListStatuses : \E g \in rfqListGroups : \A h \in rfqListGroups : s \in h <=> h = g
    BY DEF rfqListStatuses, rfqListGroups
  <2> QED
    BY <2>1, <2>2, ListParted, PartedWellMade DEF RfqList
<1>2. WellMade(ServiceList)
  <2>1. serviceListStatuses # {} /\ serviceListOptions \subseteq serviceListStatuses
    BY DEF serviceListStatuses, serviceListOptions, OrderStatus
  <2>2. \A s \in serviceListStatuses : \E g \in serviceListGroups : \A h \in serviceListGroups : s \in h <=> h = g
    BY DEF serviceListStatuses, serviceListGroups, OrderStatus
  <2>3. Parted(ServiceList, serviceListStatuses, serviceListOptions, serviceListGroups)
    BY ListVariants DEF ServiceList
  <2> QED
    BY <2>1, <2>2, <2>3, PartedWellMade
<1>3. WellMade(VesselList)
  <2>1. vesselListStatuses # {} /\ vesselListOptions \subseteq vesselListStatuses
    BY DEF vesselListStatuses, vesselListOptions
  <2> QED
    BY <2>1, ListVariants, OneGroupWellMade DEF VesselList
<1>4. WellMade(VendorList)
  <2>1. {"active", "inactive"} # {} /\ vendorListOptions \subseteq {"active", "inactive"}
    BY DEF vendorListOptions
  <2> QED
    BY <2>1, ListParted, OneGroupWellMade DEF VendorList
<1>5. WellMade(FleetMap)
  <2>1. fleetMapStatuses # {} /\ fleetMapOptions \subseteq fleetMapStatuses
    BY DEF fleetMapStatuses, fleetMapOptions
  <2> QED
    BY <2>1, ListVariants, OneGroupWellMade DEF FleetMap
<1>6. WellMade(DocumentList)
  <2>1. documentTypes # {} /\ documentOptions \subseteq documentTypes
    BY DEF documentTypes, documentOptions
  <2> QED
    BY <2>1, ListVariants, OneGroupWellMade DEF DocumentList
<1>7. WellMade(PortalDocumentList)
  <2>1. portalDocumentTypes # {} /\ portalDocumentOptions \subseteq portalDocumentTypes
    BY DEF portalDocumentTypes, portalDocumentOptions
  <2> QED
    BY <2>1, ListParted, OneGroupWellMade DEF PortalDocumentList
<1>8. WellMade(PortalServiceList)
  <2>1. portalServiceStatuses # {} /\ portalServiceOptions \subseteq portalServiceStatuses
    BY DEF portalServiceStatuses, portalServiceOptions, OrderStatus
  <2> QED
    BY <2>1, ListParted, OneGroupWellMade DEF PortalServiceList
<1>9. WellMade(PortalVesselList)
  <2>1. portalVesselStatuses # {} /\ portalVesselOptions \subseteq portalVesselStatuses
    BY DEF portalVesselStatuses, portalVesselOptions
  <2> QED
    BY <2>1, ListParted, OneGroupWellMade DEF PortalVesselList
<1>10. WellMade(PortalPortCallList)
  <2>1. portalPortCallStatuses # {} /\ portalPortCallOptions \subseteq portalPortCallStatuses
    BY DEF portalPortCallStatuses, portalPortCallOptions, PortCallStatus
  <2> QED
    BY <2>1, ListParted, OneGroupWellMade DEF PortalPortCallList
<1> QED
  BY <1>1, <1>2, <1>3, <1>4, <1>5, <1>6, <1>7, <1>8, <1>9, <1>10 DEF Lists

LEMMA PagesWellMade == \A p \in Pages : WellMade(p)
<1>1. \A p \in Forms : WellMade(p)
  BY RfqEditWellMade, ServiceEditWellMade, VesselEditWellMade, PortCallEditWellMade, PortCallNewWellMade,
     RfqNewWellMade, ResetPasswordWellMade, ForgotPasswordWellMade, InviteWellMade, VendorInviteWellMade,
     InvitationRowWellMade, QuoteFormWellMade, VendorRfqWellMade, VendorOrderWellMade,
     VendorSettingsWellMade, KeySettingsWellMade, RfqFormNewWellMade, RfqFormEditWellMade,
     QuoteComparisonWellMade, ReportsWellMade, ContactWellMade, DemoWellMade DEF Forms
<1>2. \A p \in Views : WellMade(p)
  BY RfqViewWellMade, ServiceViewWellMade, VesselViewWellMade, PortCallViewWellMade, VendorViewWellMade,
     PortalPortCallViewWellMade DEF Views
<1> QED
  BY <1>1, <1>2, ListsWellMade DEF Pages

-----------------------------------------------------------------------------
(* What a page keeps to                                                      *)

\* One act of the visit that is going on is under way, or none.
Sole == Here =>
  /\ visits >= 1
  /\ IF busy THEN \E f \in flights : InFlight(visits) = {f} ELSE InFlight(visits) = {}

\* A field of the record holds the record's value, or what was entered in its place.
Saved == {"record", "typed", "emptied"}
Kept  == field \in page.record =>
           (Here => value \in Saved) /\ \A f \in flights : f.value \in Saved

\* An order is advanced from a status that has a next one.
Advancing == field = "currentStatus" => \A f \in flights : canProgress(f.value)

Followed == page.statuses # {} => item \in page.statuses

PagesInv == TypeOK /\ Sole /\ Kept /\ Advancing /\ Followed

LEMMA NextStatusKnown ==
  ASSUME NEW s, canProgress(s)
  PROVE  nextStatus(s) \in {"pending", "confirmed", "in_progress", "completed"}
<1>1. currentIndex(s) \in 0..4
  BY DEF currentIndex, statusFlow
<1>2. currentIndex(s) \in 0..3
  BY <1>1 DEF canProgress, statusFlow
<1> QED
  BY <1>2 DEF nextStatus, statusFlow

\* The values that a field is given are values of the model.
LEMMA ValuesGiven ==
  ASSUME page \in Pages
  PROVE  /\ Initial(page, field) \in Values /\ FromRecord(field) \subseteq Values
         /\ value \in Values => FromAnswer(field) \subseteq Values
         /\ \A i \in page.inputs : Entered(i) \subseteq Values
         /\ "blank" \in Values
         /\ \A s : canProgress(s) => nextStatus(s) \in Values
<1>1. \A s : canProgress(s) => nextStatus(s) \in Values
  BY NextStatusKnown DEF Values, OrderStatus
<1>2. Initial(page, field) \in {"default", "all", "blank"}
  BY DEF Initial
<1>3. ASSUME NEW i \in page.inputs PROVE Entered(i) \subseteq Values
  BY DEF Entered, Values
<1> QED
  BY <1>1, <1>2, <1>3 DEF FromRecord, FromAnswer, Values

LEMMA PagesInit == Init => PagesInv
<1> SUFFICES ASSUME Init PROVE PagesInv
  OBVIOUS
<1>1. page \in Pages /\ WellMade(page)
  BY PagesWellMade DEF Init
<1>2. Fields(page) \subseteq page.state \cup {"none"}
  BY <1>1 DEF Fields, WellMade, Fielded
<1>3. flights = {} /\ shown = "away" /\ visits = 0 /\ value \in Values
  BY DEF Init, Values
<1>4. TypeOK
  <2>1. field \in page.state \cup {"none"} /\ item \in page.statuses \cup {"none"} /\ visits \in 0..MaxVisits
    BY <1>2, <1>3, PagesAssumption DEF Init
  <2>2. busy = FALSE /\ opened = FALSE /\ submitted = FALSE
    BY DEF Init
  <2> QED
    BY <1>1, <1>3, <2>1, <2>2 DEF TypeOK
<1> QED
  BY <1>3, <1>4 DEF PagesInv, Sole, Here, Kept, Advancing, Followed, Init

LEMMA PagesNext == PagesInv /\ [Next]_vars => PagesInv'
<1> SUFFICES ASSUME PagesInv, [Next]_vars PROVE PagesInv'
  OBVIOUS
<1> USE PagesAssumption
<1>k. /\ TypeOK /\ Sole /\ Kept /\ Advancing /\ Followed
      /\ page \in Pages /\ WellMade(page) /\ visits \in Nat
  BY PagesWellMade DEF PagesInv, TypeOK
<1>s. UNCHANGED subject
  BY DEF Next, vars, Open, Leave, Loads, LoadFails, Change, Toggle, Again, Hide, Start, LandIn, Land
<1>f. /\ page' = page /\ field' = field /\ item' = item /\ Values' = Values /\ Followed'
  BY <1>k, <1>s DEF subject, Values, Followed
\* the steps within a visit that start nothing and end nothing
<1>w. ASSUME UNCHANGED <<visits, busy, flights>>, Here, Here',
             value' \in Values, field \in page.record => value' \in Saved,
             shown' \in {"loading", "failed", "form", "done", "hidden"},
             opened' \in BOOLEAN, submitted' \in BOOLEAN
      PROVE  PagesInv'
  <2>1. TypeOK'
    BY <1>k, <1>f, <1>w DEF TypeOK
  <2>2. Sole'
    BY <1>k, <1>w DEF Sole, InFlight
  <2>3. Kept' /\ Advancing'
    BY <1>k, <1>f, <1>w DEF Kept, Advancing
  <2> QED
    BY <1>f, <2>1, <2>2, <2>3 DEF PagesInv
\* the steps that leave the page
<1>u. ASSUME Unmounted, visits' = visits, flights' \subseteq flights PROVE PagesInv'
  <2>1. TypeOK'
    BY <1>k, <1>f, <1>u, ValuesGiven DEF TypeOK, Unmounted
  <2>2. Sole' /\ Kept' /\ Advancing'
    BY <1>k, <1>f, <1>u DEF Sole, Kept, Advancing, Here, Unmounted
  <2> QED
    BY <1>f, <2>1, <2>2 DEF PagesInv
<1>1. CASE Open
  <2>1. /\ visits' = visits + 1 /\ visits' \in 0..MaxVisits /\ flights' = flights
        /\ shown' \in {"loading", "failed", "form"} /\ busy' = FALSE /\ opened' = FALSE /\ submitted' = FALSE
    BY <1>1, <1>k DEF Open
  <2>2. value' \in Values
    BY <1>1, <1>k, ValuesGiven DEF Open
  <2>3. TypeOK'
    <3>1. flights' \subseteq [visit : 1..visits', act : page'.acts, value : Values']
      BY <1>k, <1>f, <2>1 DEF TypeOK
    <3> QED
      BY <1>k, <1>f, <2>1, <2>2, <3>1 DEF TypeOK
  <2>4. Sole'
    <3>1. \A f \in flights : f.visit # visits'
      BY <1>k, <2>1 DEF TypeOK
    <3>2. visits' >= 1
      BY <1>k, <2>1
    <3> QED
      BY <2>1, <3>1, <3>2 DEF Sole, InFlight
  <2>5. Kept' /\ Advancing'
    BY <1>1, <1>k, <1>f, <2>1 DEF Kept, Advancing, Open, WellMade, Recorded, FromRecord, Saved
  <2> QED
    BY <1>f, <2>3, <2>4, <2>5 DEF PagesInv
<1>2. CASE Leave
  BY <1>2, <1>u DEF Leave
<1>3. CASE Loads
  <2>1. value' \in Values
    BY <1>3, <1>k, ValuesGiven DEF Loads, TypeOK
  <2>2. field \in page.record => value' \in Saved
    BY <1>3, <1>k DEF Loads, Kept, Here, FromAnswer, WellMade, Recorded, Saved
  <2> QED
    BY <1>3, <1>k, <1>w, <2>1, <2>2 DEF Loads, Here, TypeOK
<1>4. CASE LoadFails
  BY <1>4, <1>k, <1>w DEF LoadFails, Here, TypeOK, Kept, local
<1>5. CASE Change
  <2>1. PICK i \in page.inputs : i.name = field /\ value' \in Entered(i)
    BY <1>5 DEF Change, InputsOf
  <2>2. value' \in Values
    BY <1>k, <2>1, ValuesGiven
  <2>3. field \in page.record => value' \in Saved
    BY <1>k, <2>1 DEF Entered, WellMade, Recorded, Saved
  <2> QED
    BY <1>5, <1>k, <1>w, <2>2, <2>3 DEF Change, Here, TypeOK
<1>6. CASE Toggle
  BY <1>6, <1>k, <1>w DEF Toggle, Here, TypeOK, Kept
<1>7. CASE Again
  <2>1. value' \in Values
    BY <1>7, <1>k, ValuesGiven DEF Again, TypeOK
  <2>2. field \in page.record => value' \in Saved
    BY <1>7, <1>k DEF Again, WellMade, Recorded
  <2> QED
    BY <1>7, <1>k, <1>w, <2>1, <2>2 DEF Again, Here, TypeOK
<1>8. CASE Hide
  BY <1>8, <1>k, <1>w DEF Hide, Here, TypeOK, Kept, local
<1>9. ASSUME NEW a \in page.acts, Start(a) PROVE PagesInv'
  <2>1. CASE ~a.waits
    BY <1>9, <1>u, <2>1 DEF Start
  <2>2. CASE a.waits
    <3> DEFINE new == [visit |-> visits, act |-> a, value |-> value]
    <3>1. /\ shown = "form" /\ ~busy /\ busy' = TRUE /\ flights' = flights \cup {new}
          /\ UNCHANGED <<visits, shown, value, opened, submitted>>
          /\ field = "currentStatus" => canProgress(value)
      BY <1>9, <1>k, <2>2 DEF Start, WellMade, Guarded, Accepted
    <3>2. visits \in 1..visits
      BY <1>k, <3>1 DEF Sole, Here
    <3>3. TypeOK'
      BY <1>k, <1>f, <3>1, <3>2 DEF TypeOK
    <3>4. Sole'
      <4>1. InFlight(visits) = {}
        BY <1>k, <3>1 DEF Sole, Here
      <4>2. {f \in flights' : f.visit = visits'} = {new}
        BY <3>1, <4>1 DEF InFlight
      <4>3. visits' >= 1
        BY <1>k, <3>1 DEF Sole, Here
      <4> QED
        BY <3>1, <4>2, <4>3 DEF Sole, InFlight
    <3>5. Kept' /\ Advancing'
      BY <1>k, <1>f, <3>1 DEF Kept, Advancing, Here
    <3> QED
      BY <1>f, <3>3, <3>4, <3>5 DEF PagesInv
  <2> QED
    BY <2>1, <2>2
<1>10. ASSUME NEW v \in 1..MaxVisits, NEW f \in InFlight(v), NEW ok \in BOOLEAN, Land(f, ok)
       PROVE  PagesInv'
  <2>1. f \in flights /\ flights' = flights \ {f} /\ visits' = visits
    BY <1>10 DEF Land, InFlight
  <2>2. CASE Pushed(f)
    BY <1>u, <2>1, <2>2 DEF Pushed
  <2>3. CASE Ends(f, ok)
    <3>1. /\ Here /\ f.visit = visits /\ busy' = FALSE /\ shown' \in {shown, "done"}
          /\ opened' \in BOOLEAN /\ submitted' \in BOOLEAN
      BY <1>k, <2>3 DEF Ends, BusyAfter, TypeOK
    <3>2. value' \in Values
      BY <1>k, <2>1, <2>3, ValuesGiven DEF Ends, TypeOK, Advancing
    <3>3. TypeOK'
      BY <1>k, <1>f, <2>1, <3>1, <3>2 DEF TypeOK
    <3>4. Sole'
      <4>1. \A g \in flights' : g.visit # visits'
        BY <1>k, <2>1, <3>1 DEF Sole, InFlight
      <4>2. visits' >= 1
        BY <1>k, <2>1, <3>1 DEF Sole
      <4> QED
        BY <3>1, <4>1, <4>2 DEF Sole, InFlight
    <3>5. field \in page.record => value' = value
      BY <1>k, <2>3 DEF Ends, WellMade, Recorded
    <3>6. Kept' /\ Advancing'
      BY <1>k, <1>f, <2>1, <3>1, <3>5 DEF Kept, Advancing
    <3> QED
      BY <1>f, <3>3, <3>4, <3>6 DEF PagesInv
  <2>4. CASE TooLate(f)
    <3>1. ~(Here /\ f.visit = visits) /\ UNCHANGED <<shown, value, busy, opened, submitted>>
      BY <2>4 DEF TooLate, local
    <3>2. TypeOK'
      BY <1>k, <1>f, <2>1, <3>1 DEF TypeOK
    <3>3. Sole'
      <4>1. Here => {g \in flights' : g.visit = visits'} = InFlight(visits)
        BY <2>1, <3>1 DEF InFlight
      <4> QED
        BY <1>k, <2>1, <3>1, <4>1 DEF Sole, Here, InFlight
    <3>4. Kept' /\ Advancing'
      BY <1>k, <1>f, <2>1, <3>1 DEF Kept, Advancing, Here
    <3> QED
      BY <1>f, <3>2, <3>3, <3>4 DEF PagesInv
  <2> QED
    BY <1>10, <2>2, <2>3, <2>4 DEF Land
<1>11. CASE UNCHANGED vars
  BY <1>11, <1>k, <1>f DEF vars, PagesInv, TypeOK, Sole, Kept, Advancing, Here, InFlight
<1> QED
  BY <1>1, <1>2, <1>3, <1>4, <1>5, <1>6, <1>7, <1>8, <1>9, <1>10, <1>11 DEF Next, LandIn

LEMMA PagesInvHolds == Spec => []PagesInv
BY PagesInit, PagesNext, PTL DEF Spec

-----------------------------------------------------------------------------

\* The state of a page has its shape, and awaits belong to visits that have begun.
THEOREM PagesTypeCorrect == Spec => []TypeOK
BY PagesInvHolds, PTL DEF PagesInv

\* In any number of visits, a page is busy exactly while one act of the visit
\* is under way (isSubmitting, isSaving, ... and the buttons that it disables).
THEOREM BusyPagesAgree == Spec => []BusyAgrees
<1>1. PagesInv => BusyAgrees
  <2> SUFFICES ASSUME PagesInv, Here
               PROVE  Cardinality(InFlight(visits)) = IF busy THEN 1 ELSE 0
    BY DEF BusyAgrees
  <2> QED
    BY FS_Singleton, FS_EmptySet DEF PagesInv, TypeOK, Sole
<1> QED
  BY <1>1, PagesInvHolds, PTL

\* No edit page saves a field of the record as blank that nobody has emptied
\* (the effects that fill the forms, and their inputs).
THEOREM PagesSaveWhatIsShown == Spec => []SavedIsShown
<1>1. PagesInv => SavedIsShown
  <2> SUFFICES ASSUME PagesInv, NEW f \in flights, field \in page.record
               PROVE  InputsOf(field) # {} /\ f.value \notin {"blank", "default"}
    BY DEF SavedIsShown
  <2>1. WellMade(page)
    BY PagesWellMade DEF PagesInv, TypeOK
  <2>2. InputsOf(field) # {}
    BY <2>1 DEF WellMade, Recorded, InputsOf
  <2>3. f.value \in Saved
    BY DEF PagesInv, Kept
  <2> QED
    BY <2>2, <2>3 DEF Saved
<1> QED
  BY <1>1, PagesInvHolds, PTL

\* A record that the filters let pass is in one group of its list, and has a
\* badge on a page of its own (the tabs, columns and badges of the pages).
THEOREM RecordsAreListedOnce == Spec => []ListedOnce
<1>1. PagesInv => ListedOnce
  <2> SUFFICES ASSUME PagesInv, page.groups # {}
               PROVE  /\ page.options \subseteq page.statuses
                      /\ ~NoBadge => Cardinality({g \in page.groups : item \in g}) = 1
    BY DEF ListedOnce
  <2>1. WellMade(page)
    BY PagesWellMade DEF PagesInv, TypeOK
  <2>2. page.options \subseteq page.statuses /\ item \in page.statuses
    BY <2>1 DEF PagesInv, Followed, WellMade, Grouped
  <2>3. ASSUME ~NoBadge PROVE Cardinality({g \in page.groups : item \in g}) = 1
    <3>1. ~Badgeless(page, item)
      BY <2>3 DEF NoBadge, Badgeless
    <3>2. PICK g \in page.groups : \A h \in page.groups : item \in h <=> h = g
      BY <2>1, <2>2, <3>1 DEF WellMade, Grouped
    <3>3. {h \in page.groups : item \in h} = {g}
      BY <3>2
    <3> QED
      BY <3>3, FS_Singleton
  <2> QED
    BY <2>2, <2>3
<1> QED
  BY <1>1, PagesInvHolds, PTL
=============================================================================
