SPECIFICATION Spec
CONSTANTS
  Hosts4 <- MCHosts4
  NoMapping = {"mcast"}
  Pod4 = "pod4"
  Err4 = "err4"
  Faults = {"helper", "pull", "carry"}
  Folding <- MCFolding
  PodFrames <- MCPodFrames
  Mixed <- MCMixed
  NativeFrames <- MCNativeFrames
  ReplyLens <- MCReplyLens
  ReplyFrags <- MCReplyFrags
  ErrorKinds <- MCErrorKinds
  ErrorSources <- MCErrorSources
  QuoteCuts <- MCQuoteCuts
  MaxSent = 2
  MaxBack = 1
  MaxArrived = 1
INVARIANTS
  TouchesClatOnly
  SentIsAccepted
  LengthsAgree
  ReplyFitsFlow
  QuoteIsSent
  ErrorIsAccepted
  CountedOnce
CHECK_DEADLOCK FALSE
