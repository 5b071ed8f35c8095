CONSTANTS
  d1 = d1
  d2 = d2
  d3 = d3
  r1 = r1
  r2 = r2
  Deliveries = {d1, d2, d3}
  Routes = {r1, r2}
  CallRoutes = {}
  Size <- OneByte
  MaxRetries = 1
  GlobalPending = 3
  RoutePending = 2
  GlobalBytes = 3
  RouteBytes = 2
  GlobalInFlight = 2
  RouteInFlight = 1
  CallInFlight = 1
  Persistent = FALSE
  Forgetful = TRUE
  LogFaults = {}
  MaxAdmissions = 1
  MaxStarts = 1
SPECIFICATION Spec
INVARIANTS Accounting PayloadAccounting TasksOwned DrainsSound NeverStranded
PROPERTIES FairRotation
CHECK_DEADLOCK FALSE
SYMMETRY Interchangeable
