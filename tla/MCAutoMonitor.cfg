SPECIFICATION Spec
CONSTANTS
  p = p
  q = q
  x = x
  y = y
  Days = {1, 2}
  Processes = {p, q}
  AlertsOf <- OneAndTwoAlerts
  MaxLegacy = 2
  MaxScans = 1
  MaxMishaps = 2
  MaxCrashes = 1
  NoDay = NoDay
INVARIANTS ClaimsHaveScans CaughtUpUnlessOvertaken ErrorIsJournaled
PROPERTIES OneAutoScanPerDay EveryDayScanned EveryAlertPrepared ErrorsClear
