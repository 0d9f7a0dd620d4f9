SPECIFICATION DevicesSpec
CONSTANTS
  Lines = {4, 5, 6}
  Unit = 10
  Word = 8
  PRs = {0, 1, 2}
  RLRs = {0, 1, 3, 5}
  RlrRange = 4
  ResetRLR = 7
  Ports = {"A"}
  Pins = {0, 7, 8}
  Configs = {2, 4, 8}
  PortIds = {0, 1, 2}
  ExtiLines = {0, 4, 5}
  MinTimeout = 2
  ARRs = {0, 1, 3}
  CNTs = {0, 2}
  TimPeriods = {1, 2}
  CountWord = 8
  Half = 2
  Values = {0, 1}
  Prescalers = {0, 1}
  RtcPeriods = {1}
  Streams = {1, 2}
  AddressWord = 16
  DR = 14
  Peripherals = {12, 13, 14}
  Uses <- DmaUses
INVARIANT PendingRaisesIrq
CHECK_DEADLOCK FALSE
