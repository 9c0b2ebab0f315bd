SPECIFICATION Spec
CONSTANTS
  l1 = l1
  d1 = d1
  d2 = d2
  d3 = d3
  p1 = p1
  p2 = p2
  Never = Never
  NoRow = NoRow
  NoReq = NoReq
  NoDevice = NoDevice
  LicenseId <- OneLicense
  Device <- TwoDevices
  Proc <- TwoHandlers
  Limits = {1}
  Dates = {0}
  MaxTime = 1
INVARIANTS DeviceLimit
