SPECIFICATION Spec
CONSTANTS
  Confs <- MCConfs
  ArgLists <- MCArgs
  Results <- MCResults
  DefaultPod <- MCDefaultPod
  DefaultGateway <- MCDefaultGateway
  DefaultErrorSource <- MCDefaultErrorSource
  CounterNames <- MCNames
  HookOf <- MCHookOf
  CPUs <- MCCPUs
  MaxFrames = 3
  MaxLoads = 2
INVARIANTS
  NeverRefused
  DecidedRight
  ReportBracketed
  ReportComplete
CHECK_DEADLOCK FALSE
