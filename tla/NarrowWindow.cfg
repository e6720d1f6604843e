SPECIFICATION CSpec
CONSTANTS
  busy = busy
  quiet = quiet
  LastDay = 7
  DayLength = 6
  SummerDays <- MCSummerDays
  SummerOffset = 4
  WinterOffset = 1
  FreshnessTicks = 12
  HistoryStart = 1
  Anchor = 9
  Seeds <- MCSeeds
  DefaultSeed = busy
  Traffic <- MCTraffic
  Advances <- MCAdvances
  EndOfTime = 46
  Window = 3
INVARIANT LeftIsFinal
