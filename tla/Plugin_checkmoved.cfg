SPECIFICATION Spec
CONSTANTS
  Nil = Nil
  Procs = {p1}
  Addrs <- MovedAddrs
  Gateways <- MovedGateways
  Macs <- OneMac
  Mtus <- OneMtu
  Prefixes = {"P", "Q"}
  Versions = {"v1"}
  Configs <- Moved
  ForeignActor = FALSE
INVARIANTS
  CheckReportsMismatch
