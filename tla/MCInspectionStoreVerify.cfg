CONSTANTS
  d1 = d1
  d2 = d2
  full = full
  partial = partial
  other = other
  Devices = {d1, d2}
  Ledgers = {full, partial}
  Captures = {full, partial}
  DeviceOf <- MCDeviceOf
  SpecOf <- MCSpecOf
  RegionOf <- MCRegionOf
  Handlers = {h1, h2}
  Ids = {i1, i2}
  PublicIds = {p1}
  MaxEngine = 1
  MaxCount = 2
  None = None
SPECIFICATION Spec
INVARIANT SpecVerifiedAsPrinted
CHECK_DEADLOCK FALSE
