SPECIFICATION Spec
CONSTANTS
  g1 = g1
  g2 = g2
  g3 = g3
  Games = {g1, g2}
  RtcGames = {g2}
  Mbc5Games = {g1}
  RamBanks <- BothWithRam
  MaxRamBanks = 2
  d1 = d1
  Data = {d1}
  BootData = BootData
  Noise = Noise
  NoGame = NoGame
  Nothing = Nothing
  BuildTime = 0
  MaxTime = 0
  ClockPeriod = 1
  LoadingUndisturbed = FALSE
INVARIANTS
  SavesKept
