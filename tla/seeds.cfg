SPECIFICATION Spec
CONSTANTS
  AppTables = {"operatorVendorList", "vendorInvitation", "portCallTimeline", "message", "automationRule", "vesselPosition"}
  MaxAttempts = 2
  MaxAppRows = 1
INVARIANTS
  TypeOK
  RefusedOnlyInUse
  FinishedIsWhole
  WeakRefsHold
CHECK_DEADLOCK FALSE
