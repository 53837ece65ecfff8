SPECIFICATION Spec
CONSTANTS
  g1 = g1
  g2 = g2
  g3 = g3
  Games = {g1, g2, g3}
  RtcGames = {g1, g2}
  Mbc5Games = {g3}
  RamBanks <- WithAndWithoutClock
  MaxRamBanks = 1
  d1 = d1
  Data = {d1}
  BootData = BootData
  Noise = Noise
  NoGame = NoGame
  Nothing = Nothing
  BuildTime = 0
  MaxTime = 1
  ClockPeriod = 2
  LoadingUndisturbed = TRUE
INVARIANTS
  ClocksKept
  TimeIsKnown
VIEW ClockView
