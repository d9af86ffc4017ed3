\* Three descriptors, so that a process can open its clock twice and a program
\* gr* leave one open; rates 1 and 2, asked for in range, below and above it.
SPECIFICATION FairRtcSpec
CONSTANTS
  Jobs = {1, 2, 3}
  NumTerminals = 2
  MaxFreq = 4
  MinFreq = 2
  Requests = {1, 3, 5}
  FdMax = 5
  Devices = {"rtc"}
  Names = {"gr", "other"}
  MaxDepth = 2
  PcbMemory <- MCPcbMemory
INVARIANTS
  RtcTypeOK
  CounterWithinRate
  NothingLeftBehind
PROPERTIES
  IrqAcknowledged
  RunningClockWakes
