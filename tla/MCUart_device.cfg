SPECIFICATION BuildsSpec
CONSTANTS
  Periph = "UART1"
  BoardMap = 0
  NoBaudDelay = TRUE
  EnableOverrun = FALSE
  DRValues = {1, 258}
  RxBytes = {7, 8}
  CR1Values <- MCCR1Values
  BRRValues = {1, 20}
  Freqs = {0, 10}
  Remaps = {0}
  PinModes = {"input", "alternate"}
  MaxTx = 2
  MaxRx = 2
INVARIANTS IrqFollowsFlags TxInOrder RxInOrder BaudFollowsClock
CHECK_DEADLOCK FALSE
