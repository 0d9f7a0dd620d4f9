SPECIFICATION DemoSpec
CONSTANTS
  MinTimeout = 2
  Half = 2
  Values = {0, 1}
  Prescalers = {0, 1}
  RtcPeriods = {1}
  Alarm = 2
PROPERTY SecondsShown
