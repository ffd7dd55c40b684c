SPECIFICATION Spec
CONSTANTS
  Nil = Nil
  Procs = {p1}
  Addrs <- MCAddrs
  Gateways <- MCGateways
  Macs <- OneMac
  Mtus <- OneMtu
  Prefixes = {"P"}
  Versions = {"v1"}
  Configs <- Staged
  ForeignActor = TRUE
INVARIANTS
  NoSecondStack
  FailedAddLeavesNothing
  CheckErrorIsReal
