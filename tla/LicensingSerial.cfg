SPECIFICATION FairStreamSpec
CONSTANTS
  l1 = l1
  d1 = d1
  d2 = d2
  p1 = p1
  v1 = v1
  Never = Never
  NoRow = NoRow
  NoReq = NoReq
  NoDevice = NoDevice
  NoLicense = NoLicense
  Idle = Idle
  LicenseId <- OneLicense
  Device <- TwoDevices
  Proc <- OneHandler
  Viewer <- OneViewer
  Ttls = {1}
  Limits = {1, 2}
  Dates = {0}
  MaxTime = 1
INVARIANT StreamTypeOK
PROPERTIES ImplementsContract ExpiryNoticed NothingSignedAfterEnd
