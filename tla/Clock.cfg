SPECIFICATION Spec
CHECK_DEADLOCK FALSE
CONSTANTS
  FirstTimes <- MCFirstTimes
  RegisterFiles <- MCRegisterFiles
  Gaps = {0, 61}
  Values = {0, 60, 193}
  MilliesPerSecond = 2
  MenuMillies = {3}
  MaxPresses = 4
  MaxPlayed = 5
  MaxWrites = 1
  MaxGames = 1
INVARIANTS
  TypeOK
  ClockFollowsTime
PROPERTY
  DateReturns
