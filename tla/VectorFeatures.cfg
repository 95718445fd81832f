SPECIFICATION Spec
CONSTANTS
  PayloadFamilies <- AllFamilies
  RequestFamilies <- VariedFamilies
  Rows <- SomeRows
  Modes = {"LONG_64", "LEGACY_32", "REAL_16"}
  Payloads <- SomePayloads
  Requests <- SomeRequests
INVARIANTS
  RoundTrip
  ScaleIsMemorySize
  RequestHonoured
