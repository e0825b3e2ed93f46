SPECIFICATION Spec
CONSTANTS
  Pieces = 3
  Slots = 2
  Words = 2
  SeqWrap = 6
  Pattern <- MCPattern
  Sentinel = 70
  HostSentinel = 55
  Content <- MCContent
  Input <- MCInput
  Result <- MCResult
  Leftover = {0, 99}
  Retries = "settled"
INVARIANTS IInv Exact
PROPERTIES SlotsKept OneCopyAtATime EveryCallEnds
