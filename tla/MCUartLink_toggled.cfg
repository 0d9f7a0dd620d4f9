SPECIFICATION LinkSpec
CONSTANTS
  Periph = "UART1"
  BoardMap = 0
  NoBaudDelay = TRUE
  EnableOverrun = FALSE
  DRValues = {}
  RxBytes = {1, 2}
  CR1Values <- Toggles
  BRRValues = {}
  Freqs = {0}
  Remaps = {0}
  PinModes = {"input"}
  MaxTx = 0
  MaxRx = 3
  MaxConn = 2
INVARIANTS NoOverrun
CHECK_DEADLOCK FALSE
