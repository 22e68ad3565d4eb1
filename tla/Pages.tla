-------------------------------- MODULE Pages --------------------------------
(***************************************************************************)
(* The pages of the web applications (apps/key, the operator's; apps/      *)
(* vendor; apps/portal, the customer's; apps/www, the public site) that    *)
(* hold a form, show a record or list records: what each of them declares. *)
(* What they do is in WebPages.                                            *)
(***************************************************************************)
EXTENDS Naturals, Sequences, FiniteSets

(***************************************************************************)
(* Inputs, by what the browser or the form's schema wants of them.         *)
(***************************************************************************)
Must(names) == [name : names, kind : {"must"}]  \* required
May(names)  == [name : names, kind : {"may"}]   \* may be left blank
Pick(names) == [name : names, kind : {"pick"}]  \* a choice without a blank one
Given(names)  == [name : names, kind : {"given"}]   \* starts with a defaultValue
Search(names) == [name : names, kind : {"search"}]  \* what records have to contain, or be
Choice(names) == [name : names, kind : {"choice"}]  \* one of the page's options, or all

(***************************************************************************)
(* What a button does that starts an await: where the page is afterwards,  *)
(* whether it is disabled while the page is busy, whether it is only there *)
(* once a dialog or a menu has been opened, and whether the await may      *)
(* fail, and then leaves its dialog open.                                  *)
(*   "push"  router.push, with the page still busy                         *)
(*   "done"  the form makes way for a message                              *)
(*   "form"  the form stays                                                *)
(***************************************************************************)
Act(does, ends) == [does |-> does, ends |-> ends, waits |-> TRUE, guarded |-> TRUE,
                    opened |-> FALSE, mayFail |-> FALSE, stays |-> FALSE]
Opened(a)   == [a EXCEPT !.opened = TRUE]
MayFail(a)  == [a EXCEPT !.mayFail = TRUE]
Stays(a)    == [a EXCEPT !.stays = TRUE]

(***************************************************************************)
(* A page: the fields of its state; those its record in the database has;  *)
(* those it sets when the record is loaded; its inputs; how it starts      *)
(* ("blank", "effect": filled at once, "link": only with a token in the    *)
(* link, "fetch": by a request); its acts, and the fields they empty; and  *)
(* whether the message can be left for the form ("same", or "blank" when   *)
(* that empties it), and the form be put away; whether it has a dialog     *)
(* that does nothing; the statuses its records may have, those that the    *)
(* filter of a list offers, and the groups a list shows them in, or those  *)
(* that have a badge.                                                      *)
(***************************************************************************)
Page == [state |-> {}, record |-> {}, loaded |-> {}, inputs |-> {},
         starts |-> "blank", acts |-> {}, clears |-> {}, again |-> "no", hides |-> FALSE,
         dialog |-> FALSE, statuses |-> {}, options |-> {}, groups |-> {}]

EditPage(state, record, loaded, inputs, acts) ==
  [Page EXCEPT !.state = state, !.record = record, !.loaded = loaded,
               !.inputs = inputs, !.starts = "effect", !.acts = acts]

(***************************************************************************)
(* The edit pages: the fields of the record, of the form's state, and of   *)
(* the effect that fills it, which should be the same.                     *)
(***************************************************************************)

(***************************************************************************)
(* key: rfqs/[id]/edit                                                     *)
(***************************************************************************)
rfqRecord == {"title", "description", "serviceType", "portCallId", "status", "quantity", "unit",
  "specifications", "deadline", "deliveryDate", "deliveryLocation", "notes", "invitedVendorIds"}
rfqEditState == rfqRecord
\* Mutant of rfqEditLoaded: the effect leaves a field out.
rfqEditLoadedPartly == rfqRecord \ {"deliveryDate"}
rfqEditLoaded == rfqRecord
rfqEditBasics == Must({"title", "serviceType", "portCallId"}) \cup Pick({"status"}) \cup May({"description"})
rfqEditRequirements == Must({"quantity", "unit", "deadline"})
  \cup May({"deliveryLocation", "specifications", "deliveryDate"})
rfqEditVendors == May({"invitedVendorIds", "notes"})
\* Mutant of rfqEditActs: the button that confirms is not disabled.
rfqEditActsUnguarded ==
  {Act("save", "push"), [Opened(Act("close", "push")) EXCEPT !.guarded = FALSE]}
rfqEditActs == {Act("save", "push"), Opened(Act("close", "push"))}
RfqEdit == EditPage(rfqEditState, rfqRecord, rfqEditLoaded,
  rfqEditBasics \cup rfqEditRequirements \cup rfqEditVendors, rfqEditActs)

(***************************************************************************)
(* key: services/[id]/edit                                                 *)
(***************************************************************************)
serviceRecord == {"type", "portCallId", "status", "vendorId", "quantity", "unit", "specifications",
  "scheduledDate", "scheduledTime", "deliveryLocation", "price", "currency", "pricePerUnit", "notes"}
serviceEditState == serviceRecord
serviceEditLoaded == serviceRecord
serviceEditDetails == Must({"type", "portCallId"}) \cup Pick({"status"})
  \cup May({"quantity", "unit", "deliveryLocation", "specifications"})
serviceEditSchedule == May({"scheduledDate", "scheduledTime", "vendorId", "price", "pricePerUnit", "notes"})
  \cup Pick({"currency"})
serviceEditActs == {Act("save", "push"), Opened(Act("cancel", "push"))}
ServiceEdit == EditPage(serviceEditState, serviceRecord, serviceEditLoaded,
  serviceEditDetails \cup serviceEditSchedule, serviceEditActs)

(***************************************************************************)
(* key: vessels/[id]/edit                                                  *)
(***************************************************************************)
vesselRecord == {"name", "imo", "mmsi", "callSign", "type", "flag", "class", "dwt", "grt", "nrt", "loa",
  "beam", "draft", "yearBuilt", "builder", "owner", "operator", "manager", "crew"}
vesselEditState == vesselRecord
vesselEditLoaded == vesselRecord
vesselEditBasics == Must({"name", "imo", "type", "flag"})
  \cup May({"mmsi", "callSign", "class", "yearBuilt", "builder"})
vesselEditDimensions == May({"dwt", "grt", "nrt", "loa", "beam", "draft"})
\* Mutant of vesselEditOwnership: an input's name is not that of a field of the state.
vesselEditOwnershipMisnamed == May({"owner", "operator", "manager", "crewSize"})
vesselEditOwnership == May({"owner", "operator", "manager", "crew"})
vesselEditActs == {Act("save", "push"), Opened(Act("delete", "push"))}
VesselEdit == EditPage(vesselEditState, vesselRecord, vesselEditLoaded,
  vesselEditBasics \cup vesselEditDimensions \cup vesselEditOwnership, vesselEditActs)

(***************************************************************************)
(* key: port-calls/[id]/edit, port-calls/new and rfqs/new                  *)
(***************************************************************************)
portCallRecord == {"vesselId", "portId", "status", "eta", "etd", "ata", "atd", "berthName",
  "berthTerminal", "agentId", "notes"}
portCallEditState == portCallRecord
portCallEditLoaded == portCallRecord
portCallEditPlace == Pick({"status"}) \cup Must({"vesselId", "portId"}) \cup May({"berthName", "berthTerminal"})
portCallEditTimes == Must({"eta", "etd"}) \cup May({"ata", "atd", "agentId", "notes"})
portCallEditActs == {Act("save", "push"), Opened(Act("delete", "push"))}
PortCallEdit == EditPage(portCallEditState, portCallRecord, portCallEditLoaded,
  portCallEditPlace \cup portCallEditTimes, portCallEditActs)

\* The inputs of this form are not in React state: the browser keeps them.
portCallNewInputs == Must({"vesselId", "portId", "eta", "etd"}) \cup May({"berthName", "agentId"})
PortCallNew == [Page EXCEPT
  !.state = {"vesselId", "portId", "eta", "etd", "berthName", "agentId"},
  !.inputs = portCallNewInputs, !.acts = {Act("create", "push")}]

\* The only form whose handler does not wait; its button asks for three of the fields.
rfqNewState == {"selectedPortCall", "selectedServiceType", "quantity", "specifications", "deadline",
  "notes", "selectedVendors"}
rfqNewInputs == Must({"selectedPortCall", "selectedServiceType", "selectedVendors"})
  \cup May({"quantity", "specifications", "deadline", "notes"})
RfqNew == [Page EXCEPT !.state = rfqNewState, !.inputs = rfqNewInputs,
  !.acts = {[Act("create", "push") EXCEPT !.waits = FALSE, !.guarded = FALSE]}]

(***************************************************************************)
(* key: the pages for people who are not signed in (the login page is in   *)
(* SessionClient), vendors' invitations                                    *)
(***************************************************************************)
resetPasswordInputs == Must({"password", "confirmPassword"})
ResetPassword == [Page EXCEPT !.state = {"password", "confirmPassword"}, !.inputs = resetPasswordInputs,
  !.starts = "link", !.acts = {Act("reset", "done")}]

ForgotPassword == [Page EXCEPT !.state = {"email"}, !.inputs = Must({"email"}),
  !.acts = {Act("request", "done")}, !.again = "same"]

inviteInputs == Must({"firstName", "lastName", "password", "confirmPassword", "terms"})
Invite == [Page EXCEPT !.state = {"firstName", "lastName", "password", "confirmPassword", "terms"},
  !.inputs = inviteInputs, !.starts = "link", !.acts = {Act("signUp", "push")}]

vendorInviteInputs == Must({"email"}) \cup May({"serviceTypes", "message"})
VendorInvite == [Page EXCEPT !.state = {"email", "serviceTypes", "message"}, !.inputs = vendorInviteInputs,
  !.acts = {MayFail(Act("invite", "done"))}, !.again = "blank"]

invitationActs == {Opened(MayFail(Act("resend", "form"))), Opened(MayFail(Act("cancel", "form")))}
InvitationRow == [Page EXCEPT !.acts = invitationActs]

(***************************************************************************)
(* vendor: a quote for an RFQ (as a component and as a page), an order,    *)
(* settings; portal: the report; www: contact and demo                     *)
(***************************************************************************)
quoteFormInputs == Must({"unit_price", "total_price"}) \cup Pick({"currency", "payment_terms"})
  \cup May({"delivery_date", "valid_until", "notes", "attachments"})
QuoteForm == [Page EXCEPT
  !.state = {"unit_price", "total_price", "currency", "payment_terms", "delivery_date", "valid_until",
             "notes", "attachments"},
  !.inputs = quoteFormInputs, !.acts = {MayFail(Act("submit", "form"))}]

\* The form of this page can be put away, and put away for good if nothing was submitted.
vendorRfqInputs == May({"lineItems", "notes"}) \cup Pick({"validityDays"})
vendorRfqLoaded == {"lineItems"}
VendorRfq == [Page EXCEPT !.state = {"lineItems", "notes", "validityDays"}, !.loaded = vendorRfqLoaded,
  !.inputs = vendorRfqInputs, !.starts = "fetch", !.acts = {Act("submit", "done")},
  !.again = "same", !.hides = TRUE]

\* Where an order stands: what the API may answer, and the order of the page's buttons.
OrderStatus == {"draft", "requested", "rfq_sent", "quoted", "confirmed", "in_progress", "completed", "cancelled"}
statusFlow  == <<"pending", "confirmed", "in_progress", "completed">>
\* indexOf, from 1: a status the page does not know comes before the first.
currentIndex(s) == IF \E n \in DOMAIN statusFlow : statusFlow[n] = s
                     THEN CHOOSE n \in DOMAIN statusFlow : statusFlow[n] = s ELSE 0
canProgress(s)  == currentIndex(s) < Len(statusFlow) /\ s # "cancelled"
nextStatus(s)   == statusFlow[currentIndex(s) + 1]

vendorOrderLoaded == {"currentStatus"}
VendorOrder == [Page EXCEPT !.state = {"currentStatus", "updateNote"}, !.loaded = vendorOrderLoaded,
  !.inputs = May({"updateNote"}), !.starts = "fetch", !.acts = {Act("advance", "form")},
  !.clears = {"updateNote"}]

vendorProfile == {"companyName", "registrationNumber", "taxId", "website", "description", "street", "city",
  "postalCode", "country", "serviceTypes"}
settingsProfile == May(vendorProfile \ {"serviceTypes"})
settingsServices == May({"serviceTypes"})
VendorSettings == EditPage(vendorProfile, vendorProfile, vendorProfile,
  settingsProfile \cup settingsServices, {Act("save", "form")})

Reports == [Page EXCEPT !.state = {"dateRange"}, !.inputs = Pick({"dateRange"}),
  !.acts = {MayFail(Act("export", "form"))}]

contactInputs == Must({"name", "email", "reason", "message"}) \cup May({"company"})
Contact == [Page EXCEPT !.state = {"name", "email", "reason", "message", "company"},
  !.inputs = contactInputs, !.acts = {Act("send", "done")}, !.again = "blank"]

demoInputs == Must({"firstName", "lastName", "email", "company", "jobTitle"}) \cup May({"fleetSize", "message"})
Demo == [Page EXCEPT
  !.state = {"firstName", "lastName", "email", "company", "jobTitle", "fleetSize", "message"},
  !.inputs = demoInputs, !.acts = {Act("request", "done")}]

\* Settings of the operator app: inputs the browser keeps, and buttons without a handler.
keySettingsState == {"theme", "emailNotifications", "pushNotifications"}
keySettingsProfile == Given({"firstName", "lastName", "email", "phone"})
keySettingsPreferences == Pick({"theme", "language", "timezone"})
keySettingsOrganization == Given({"organizationName", "address"}) \cup Pick({"industry", "companySize"})
keySettingsNotifications == Pick({"portCallUpdates", "newQuotes", "serviceReminders", "weeklySummary",
  "urgentAlerts", "chatMessages", "deadlineReminders"})
KeySettings == LET inputs == keySettingsProfile \cup keySettingsPreferences
                             \cup keySettingsOrganization \cup keySettingsNotifications IN
  [Page EXCEPT !.state = keySettingsState \cup {i.name : i \in inputs}, !.inputs = inputs]

(***************************************************************************)
(* key: the form for an RFQ (a new one for a port call, or an existing     *)
(* one) and the comparison of its quotes, two components with a mutation.  *)
(* invited_vendors is the state that replaces the form's field of that     *)
(* name.                                                                   *)
(***************************************************************************)
rfqFormFields == {"service_type_id", "port_call_id", "description", "quantity", "unit", "deadline",
  "delivery_date", "invited_vendors"}
rfqFormInputs == Must({"service_type_id", "deadline"})
  \cup May({"description", "quantity", "unit", "delivery_date", "invited_vendors"})
RfqForm(filled) == [Page EXCEPT
  !.state = rfqFormFields, !.record = filled \ {"port_call_id"}, !.loaded = filled,
  !.inputs = rfqFormInputs, !.starts = "effect", !.acts = {MayFail(Act("save", "form"))}]
RfqFormNew  == [RfqForm({"port_call_id"}) EXCEPT !.record = {}]
RfqFormEdit == RfqForm(rfqFormFields)

\* An answer without a quote leaves as little to do as none at all.
quoteComparisonShows == {"comparison"}
quoteComparisonActs == {Stays(Opened(MayFail(Act("award", "form"))))}
QuoteComparison == [Page EXCEPT !.state = quoteComparisonShows, !.loaded = {"comparison"},
  !.starts = "fetch", !.acts = quoteComparisonActs]

(***************************************************************************)
(* Pages that only show a record: what they show, which of it comes from   *)
(* the answer (the portal's asks for a second one while it is loading),    *)
(* the statuses they may show the record in, and those that have a badge.  *)
(***************************************************************************)
View(shows, loaded, statuses, badges) == [Page EXCEPT
  !.state = shows, !.loaded = loaded, !.starts = "fetch", !.statuses = statuses, !.groups = {badges}]

RFQStatus == {"draft", "open", "closed", "awarded", "cancelled", "expired"}
rfqViewShows     == {"rfq", "quotes", "invitedVendors"}
rfqViewStatus(s) == IF s = "open" THEN "quotes_received" ELSE s
rfqViewBadges    == {"draft", "sent", "quotes_received", "awarded", "closed", "submitted", "pending",
  "quoted", "declined"}
RfqView == View(rfqViewShows, {"rfq", "quotes", "invitedVendors"},
                {rfqViewStatus(s) : s \in RFQStatus}, rfqViewBadges)

serviceViewShows  == {"service", "timeline"}
serviceViewBadges == {"draft", "requested", "rfq_sent", "quoted", "confirmed", "in_progress", "completed",
  "cancelled"}
ServiceView == View(serviceViewShows, {"service", "timeline"}, OrderStatus, serviceViewBadges)

\* The status is what the AIS provider calls it, if there is a position.
vesselViewShows  == {"vessel", "upcomingPortCalls", "recentPortCalls"}
vesselViewBadges == {"at_sea", "in_port", "at_anchor", "under_repair", "completed", "confirmed"}
VesselView == View(vesselViewShows, {"vessel"}, {"unknown", "Under way using engine", "Moored"},
                   vesselViewBadges)

PortCallStatus == {"draft", "planned", "confirmed", "arrived", "alongside", "departed", "completed",
  "cancelled"}
portCallViewShows  == {"portCall"}
portCallViewBadges == PortCallStatus
PortCallView == View(portCallViewShows, {"portCall"}, PortCallStatus, portCallViewBadges)

vendorViewShows == {"vendor", "recentOrders", "reviews"}
VendorView == View(vendorViewShows, {"vendor"}, {"active"}, {"active", "inactive"})

portalPortCallViewShows  == {"data", "services"}
portalPortCallViewBadges == PortCallStatus \ {"draft", "cancelled"}
PortalPortCallView == View(portalPortCallViewShows, {"data", "services"}, PortCallStatus,
                           portalPortCallViewBadges)

(***************************************************************************)
(* Lists.  A record is listed that the search and every filter let pass,   *)
(* in the groups (tabs, columns) that name its status.                     *)
(***************************************************************************)
List(statuses, options, groups) == [Page EXCEPT
  !.state = {"searchQuery", "statusFilter"},
  !.inputs = Search({"searchQuery"}) \cup Choice({"statusFilter"}),
  !.statuses = statuses, !.options = options, !.groups = groups]
WithTypes(list) == [list EXCEPT !.state = @ \cup {"typeFilter"}, !.inputs = @ \cup Search({"typeFilter"})]

rfqListStatuses == {"draft", "sent", "quotes_received", "awarded", "closed", "cancelled"}
rfqListOptions  == {"draft", "sent", "quotes_received", "awarded", "closed"}
\* Mutant of rfqListGroups: a status is in no tab.
rfqListGroupsPartly == {{"draft", "sent", "quotes_received"}, {"awarded", "closed"}}
rfqListGroups   == {{"draft", "sent", "quotes_received"}, {"awarded", "closed", "cancelled"}}
RfqList == List(rfqListStatuses, rfqListOptions, rfqListGroups)

serviceListStatuses == OrderStatus
serviceListOptions  == {"requested", "rfq_sent", "quoted", "confirmed", "in_progress", "completed"}
serviceListGroups   == LET completed == {"completed", "cancelled"} IN
  {serviceListStatuses \ completed, completed}
ServiceList == WithTypes(List(serviceListStatuses, serviceListOptions, serviceListGroups))

vesselListStatuses == {"at_sea", "in_port", "at_anchor", "under_repair", "laid_up"}
vesselListOptions  == {"at_sea", "in_port", "at_anchor", "under_repair"}
VesselList == WithTypes(List(vesselListStatuses, vesselListOptions, {vesselListStatuses}))

vendorListOptions == {"active", "inactive"}
VendorList == List({"active", "inactive"}, vendorListOptions, {{"active", "inactive"}})

\* The map and the list beside it show the same vessels; the filters keep what they were
\* set to while "Map Only" hides them.
fleetMapStatuses == {"sailing", "anchored", "moored", "not_available"}
fleetMapOptions  == {"sailing", "anchored", "moored"}
fleetMapModes    == Pick({"viewMode"})
FleetMap == LET list == List(fleetMapStatuses, fleetMapOptions, {fleetMapStatuses}) IN
  [list EXCEPT !.state = @ \cup {"viewMode"}, !.inputs = @ \cup fleetMapModes]

\* Documents are filtered by type, in the place of a status; nothing is uploaded.
documentTypes   == {"vessel", "port_call", "service", "vendor", "compliance"}
documentOptions == {"vessel", "port_call", "service", "vendor", "compliance"}
documentUpload  == TRUE
DocumentList == [List(documentTypes, documentOptions, {documentTypes}) EXCEPT !.dialog = documentUpload]

portalDocumentTypes   == {"vessel", "port_call", "invoices"}
portalDocumentOptions == {"vessel", "port_call", "invoices"}
PortalDocumentList == List(portalDocumentTypes, portalDocumentOptions, {portalDocumentTypes})

portalServiceStatuses == OrderStatus
portalServiceOptions  == {"draft", "requested", "rfq_sent", "quoted", "confirmed", "in_progress",
  "completed", "cancelled"}
PortalServiceList == List(portalServiceStatuses, portalServiceOptions, {portalServiceStatuses})

portalVesselStatuses == {"at_sea", "in_port", "at_anchor"}
portalVesselOptions  == portalVesselStatuses
PortalVesselList == List(portalVesselStatuses, portalVesselOptions, {portalVesselStatuses})

portalPortCallStatuses == PortCallStatus
portalPortCallOptions  == PortCallStatus \ {"cancelled"}
PortalPortCallList == List(portalPortCallStatuses, portalPortCallOptions, {portalPortCallStatuses})

Lists == {RfqList, ServiceList, VesselList, VendorList, FleetMap, DocumentList, PortalDocumentList,
  PortalServiceList, PortalVesselList, PortalPortCallList}

Forms == {RfqEdit, ServiceEdit, VesselEdit, PortCallEdit, PortCallNew, RfqNew, ResetPassword,
  ForgotPassword, Invite, VendorInvite, InvitationRow, QuoteForm, VendorRfq, VendorOrder,
  VendorSettings, KeySettings, RfqFormNew, RfqFormEdit, QuoteComparison, Reports, Contact, Demo}

Views == {RfqView, ServiceView, VesselView, PortCallView, VendorView, PortalPortCallView}

Pages == Forms \cup Views \cup Lists
=============================================================================
