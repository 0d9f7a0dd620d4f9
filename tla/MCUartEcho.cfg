SPECIFICATION EchoSpec
CONSTANTS
  Periph = "UART1"
  BoardMap = 0
  NoBaudDelay = TRUE
  EnableOverrun = FALSE
  DRValues = {}
  RxBytes = {65, 200}
  CR1Values = {}
  BRRValues = {1}
  Freqs = {0, 10}
  Remaps = {0}
  PinModes = {"input", "alternate"}
  MaxTx = 14
  MaxRx = 2
  MaxConn = 2
INVARIANTS PollingNeverFaults NothingLost EchoExact
PROPERTIES EveryCharacterAnswered
