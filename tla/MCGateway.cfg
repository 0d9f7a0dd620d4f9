SPECIFICATION Spec
CONSTANTS
  PhoneChars = {"1", "C3", "B1"}
  Ascii = {"1"}
  TwoByte <- MCTwoByte
  Bad = "fffd"
  CR = "cr"
  Separator <- MCSeparator
  EmuChars = {"a", "nl"}
  NL = "nl"
  MaxUp = 2
  MaxDown = 2
INVARIANT RelayExact
PROPERTIES ShutdownCompletes
CHECK_DEADLOCK FALSE
