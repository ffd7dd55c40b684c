SPECIFICATION Spec
CONSTANTS
  Frames <- MCFrames
  MaxOptlen = 40
  OptionLists <- MCLists
  Probe <- MCProbe
  FewLists <- MCFewLists
INVARIANTS
  BytesInPlace
  SumFollowsBytes
  ChecksumsRight
  RouteIsFound
