SPECIFICATION CsumSpec
CONSTANTS
  B = 3
  H = 9
  Addr4s <- MCAddrs
  Addr6s <- MCAddrs
  LenProtos = {1, 8}
  Bodies = {0, 1, 8}
  Widths = {"wide", "folded"}
  SumAddr4s = {1, 80}
  CSUM_CHUNK = 4
  CSUM_MAX_CHUNKS = 2
  FieldAt = 2
  Datagrams <- MCDatagrams
  Addresses <- MCAddresses
  IPPROTO_UDP = 5
INVARIANTS
  WireValid
  DeliveredValid
  FailsExactly
  AllSummed
  ReceiverAccepts
PROPERTY
  QuotedIsSent
CHECK_DEADLOCK FALSE
