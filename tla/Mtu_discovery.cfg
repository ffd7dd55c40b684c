SPECIFICATION MtuSpec
CONSTANTS
  Hosts4 <- MCHosts4
  NoMapping = {}
  Pod4 = "pod4"
  Err4 = "err4"
  Faults = {}
  Folding = {}
  LinkMTUs = {1500, 1420}
  PathMTUs = {1280, 1288, 1400, 1500}
  Sizes = {1000, 1256, 1472, 2800, 9008}
  Flows = {"segments", "datagram"}
  MaxChanges = 2
INVARIANTS
  SegmentsFitLink
  EstimateTight
PROPERTY
  GetsThrough
CHECK_DEADLOCK FALSE
