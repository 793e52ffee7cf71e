SPECIFICATION FairSpec
CONSTANTS
  Absent = Absent
  Heads <- MCHeads
  Calendars <- MCCalendars
  Steady = {"steady"}
  MaxTime = 2
  MaxCrashes = 1
INVARIANTS
  ReceiptBindsOneHead
  ConfirmedIsTestified
PROPERTIES
  ReceiptsOnlyGrow
  OneCalendarIsEnough
CHECK_DEADLOCK FALSE
