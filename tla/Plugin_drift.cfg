SPECIFICATION FairSpec
CONSTANTS
  Nil = Nil
  Procs = {p1}
  Addrs <- MCAddrs
  Gateways <- MCGateways
  Macs <- MCMacs
  Mtus <- MCMtus
  Prefixes = {"P"}
  Versions = {"v1"}
  Configs <- FailOpen
  ForeignActor = FALSE
INVARIANTS
  TypeOK
  DelCleans
  DelGoesOn
  VerifiedIsComplete
PROPERTY
  EveryCommandReturns
