SPECIFICATION Spec
CONSTANTS
  Nil = Nil
  Procs = {p1}
  Addrs <- MCAddrs
  Gateways <- MCGateways
  Macs <- OneMac
  Mtus <- OneMtu
  Prefixes = {"P"}
  Versions = {"v1"}
  Configs <- FailOpen
  ForeignActor = FALSE
INVARIANTS
  FailOpenLeavesNothing
