CONSTANTS
  a1 = a1  a2 = a2  k1 = k1  k2 = k2  k3 = k3
  Apps <- TwoApps
  Keys <- ThreeKeys
  Requests <- SharedKeys
  NumSegments = 5
  SegmentSize = 2
  CleaningWidth = 2
  TargetMem <- Target
  MinMem <- Half
  StealSize <- Half
  ShadowCap = 2
  Subpolicy = "NORMAL"
  Wrap = 1024
SPECIFICATION Spec
INVARIANT BillingExact
