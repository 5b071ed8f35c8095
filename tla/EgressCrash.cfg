CONSTANTS
  d1 = d1
  d2 = d2
  d3 = d3
  r1 = r1
  r2 = r2
  Deliveries = {d1, d2}
  Routes = {r1}
  CallRoutes = {r1}
  Size <- OneByte
  MaxRetries = 1
  GlobalPending = 2
  RoutePending = 2
  GlobalBytes = 2
  RouteBytes = 2
  GlobalInFlight = 1
  RouteInFlight = 1
  CallInFlight = 1
  Persistent = TRUE
  Forgetful = TRUE
  LogFaults = {"refused", "ambiguous"}
  MaxAdmissions = 2
  MaxStarts = 2
SPECIFICATION Spec
INVARIANTS RecordedBeforeSent LogAgreement NothingLost CallsAnswered
PROPERTIES TerminalIsFinal DrainedWhenDone
CHECK_DEADLOCK FALSE
SYMMETRY Interchangeable
