SPECIFICATION MtuSpec
CONSTANTS
  Hosts4 <- MCHosts4
  NoMapping = {}
  Pod4 = "pod4"
  Err4 = "err4"
  Faults = {}
  Folding = {}
  LinkMTUs = {1480}
  PathMTUs = {1500}
  Sizes = {3008}
  Flows = {"datagram"}
  MaxChanges = 0
PROPERTY
  GetsThrough
CHECK_DEADLOCK FALSE
