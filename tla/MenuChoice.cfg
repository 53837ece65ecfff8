SPECIFICATION LiveSpec
CONSTANTS
  Games <- MCGames
  RtcGames = {2, 9}
  Stores <- MCStores
  MaxRoms = 9
  Rows = 4
  KeySets <- MCKeySets
  RestartAfterEdit = TRUE
  Nothing = Nothing
INVARIANTS
  TypeOK
  ChoiceIsShown
  ShownGameStarts
  ShownModeStarts
PROPERTIES
  StartArrives
