SPECIFICATION ClocksSpec
CONSTANTS
  Clocks = {1, 2, 3, 4}
  Inputs <- Tree
  SourceFreq <- Sources
  Multipliers = {1, 3}
  Divisors = {2}
  Mod = 8
  OscFreq = 8000000
  CRs <- AnyCR
  CFGRs <- AnyCFGR
  BDCRs <- AnyBDCR
  Apb2Bits = {2, 14}
  Apb1Bits = {17}
  AhbBits = {1}
  MaxResets = 1
  Scales <- AnyScale
  Reloads = {0, 1, 2}
  MaxTime = 7
INVARIANTS Settled ScalesFollow KeepsTime
PROPERTIES ToldOnce RecursionEnds StartupIsSmooth ReachesFullSpeed
