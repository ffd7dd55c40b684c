SPECIFICATION Spec
CONSTANTS
  Nil = Nil
  Procs = {p1, p2}
  Addrs <- MCAddrs
  Gateways <- MCGateways
  Macs <- OneMac
  Mtus <- OneMtu
  Prefixes = {"P"}
  Versions = {"v1"}
  Configs <- FailClosed
  ForeignActor = FALSE
INVARIANTS
  InstalledStaysComplete
  DelCleans
