SPECIFICATION ServicesSpec
CONSTANTS
  GBCameras = {c1, c2}
  NPorts = 2
  InboxCap = 1
  Patience = 1
  MaxCalls = 3
  MaxMishaps = 1
  LoneCamera = c1
  Users = {u1, u2}
  Root = u1
  Requests = {r1, r2}
  MaxChanges = 3
  Senders = {s1, s2}
  Admins = {a1, a2}
  MinInterval = 2
  MaxTicks = 2
  MaxArrivals = 3
  MaxLinkFaults = 1
  HACameras = {c1}
  MaxFlips = 4
  MaxUnsent = 1
INVARIANTS
  ServicesTypeOK
  CallsSound
  AccountsSound
  AlertsSound
PROPERTIES
  ServicesSettle
CHECK_DEADLOCK FALSE
