------------------------ MODULE SaveLifecycleProofs -------------------------
(***************************************************************************)
(* What SaveLifecycle promises, proved for every set of games and every    *)
(* RAM size.                                                               *)
(*                                                                         *)
(* Place says where main() knows which game the RAM belongs to; it rests   *)
(* on LoadingUndisturbed, without which g_loadedRomInfo may name another   *)
(* game than _lastRunningGame.  SaveInv and ClockInv say which file may be *)
(* behind its game, and that the memory then still holds what is missing;  *)
(* LedInv ties ramDirty and the LED to that; TimeInv follows the time      *)
(* stamp through the three places that hold it.                            *)
(***************************************************************************)
EXTENDS SaveLifecycle, TLAPS

\* A game was running when the button was pressed.
Interrupted == pc = "boot" /\ noInitTest /\ lastRunningGame # NoGame
\* main() is storing what that game left.
Storing == pc \in {"storeRtc", "storeTime", "storeSave"}
Running == pc \in {"game", "hookRtc", "hookTime"}

Place ==
  /\ pc # "boot" => noInitTest
  /\ Running \/ Storing \/ Interrupted \/ pc \in {"restoreRtc", "restoreSave", "clear"}
       => lastRunningGame \in Games /\ loadedRomInfo = lastRunningGame
  /\ pc = "storeTime" => loadedRomInfo \in RtcGames
  /\ pc \in {"load", "hang"} => lastRunningGame \in Games
  /\ pc \in {"loadTime", "prepare", "menu"} => lastRunningGame = NoGame

TypeInv == TypeOK /\ Place

SaveInv ==
  /\ \A g \in Games : save[g] # lastRam[g] /\ <<"saves", g>> \notin failed =>
       /\ HasRam(g) /\ g = loadedRomInfo
       /\ Running \/ Storing \/ Interrupted
  /\ (Running \/ Storing \/ Interrupted \/ pc = "clear") /\ HasRam(loadedRomInfo)
       => lastRam[loadedRomInfo] = SaveOf(loadedRomInfo, ram)

ClockInv ==
  /\ \A g \in Games : rtcFile[g] # lastClock[g] /\ <<"rtc", g>> \notin failed =>
       /\ g \in RtcGames /\ g = loadedRomInfo
       /\ Running \/ Interrupted \/ pc \in {"restoreSave", "storeRtc"}
  /\ (Running \/ Storing \/ Interrupted \/ pc \in {"restoreSave", "clear"})
     /\ loadedRomInfo \in RtcGames
       => lastClock[loadedRomInfo] = RtcRecord(rtcReal, rtcTimestamp)

\* What the file of a game lacks has been written since without a mark.
Shown(g) == <<"saves", g>> \notin failed => Unsaved(g) \subseteq unmarked

LedInv ==
  /\ ~Running => ~ramDirty
  /\ pc = "game" /\ ramDirty => led = "red"
  /\ pc = "game" /\ ~ramDirty =>
       /\ save[loadedRomInfo] # Nothing => Shown(loadedRomInfo)
       /\ led = "green" => \A g \in Games : Shown(g)
       /\ led \in {"off", "green"}
  /\ pc \in {"hookRtc", "hookTime"} =>
       /\ led = "green"
       /\ \A g \in Games : <<"saves", g>> \notin failed => save[g] = lastRam[g]

TimeInv ==
  /\ timeFile = Unknown \/ globalTimestamp = Unknown => strayTime
  /\ (Running \/ Storing \/ Interrupted \/ pc \in {"restoreSave", "clear"})
     /\ loadedRomInfo \in RtcGames /\ rtcTimestamp = Unknown
       => strayTime

----------------------------------------------------------------------------
\* Lemmas about the helpers.

\* What is written of a RAM is a save game of the right length.
LEMMA SaveOfType ==
  ASSUME NEW g \in Games, NEW content \in [Banks -> Contents]
  PROVE  SaveOf(g, content) \in Saves(g) /\ SaveOf(g, content) \in AnySave
BY DEF Saves, AnySave

\* A save game is one content per RAM bank, and no more.
LEMMA SavedBanks ==
  ASSUME NEW g \in Games, NEW s \in Saves(g), s # Nothing
  PROVE  /\ \A b \in 0..RamBanks[g] - 1 : s[b] \in Contents
         /\ s = [b \in 0..RamBanks[g] - 1 |-> s[b]]
BY GamesAssumption DEF Saves, SaveOf, Banks

\* An access to a file of one directory says nothing of the other directory.
LEMMA OtherDirectory ==
  ASSUME NEW F, NEW g, NEW h
  PROVE  /\ <<"saves", h>> \in F \ {<<"rtc", g>>} <=> <<"saves", h>> \in F
         /\ <<"saves", h>> \in F \cup {<<"rtc", g>>} <=> <<"saves", h>> \in F
         /\ <<"rtc", h>> \in F \ {<<"saves", g>>} <=> <<"rtc", h>> \in F
         /\ <<"rtc", h>> \in F \cup {<<"saves", g>>} <=> <<"rtc", h>> \in F
OBVIOUS

\* After an access only the file of that game may have left or joined failed.
LEMMA OneFile ==
  ASSUME NEW F, NEW d, NEW g, NEW h
  PROVE  /\ <<d, h>> \in F \ {<<d, g>>} <=> <<d, h>> \in F /\ h # g
         /\ <<d, h>> \in F \cup {<<d, g>>} <=> <<d, h>> \in F \/ h = g
OBVIOUS

\* What restoreSaveRamFromFile leaves in RAM is the save game.
LEMMA Restored ==
  ASSUME NEW g \in Games, NEW s \in Saves(g), s # Nothing,
         ram \in [Banks -> Contents],
         NEW r, r = [b \in Banks |-> IF b < RamBanks[g] THEN s[b] ELSE ram[b]]
  PROVE  r \in [Banks -> Contents] /\ SaveOf(g, r) = s
<1>0. RamBanks[g] \in Nat /\ RamBanks[g] <= MaxRamBanks /\ MaxRamBanks \in Nat
  BY GamesAssumption
<1>1. \A b \in Banks : b < RamBanks[g] => b \in 0..RamBanks[g] - 1
  BY <1>0 DEF Banks
<1>2. r \in [Banks -> Contents]
  BY <1>1, SavedBanks
<1>3. \A b \in 0..RamBanks[g] - 1 : b \in Banks /\ b < RamBanks[g]
  BY <1>0 DEF Banks
<1>4. SaveOf(g, r) = [b \in 0..RamBanks[g] - 1 |-> s[b]]
  BY <1>3 DEF SaveOf
<1> QED
  BY <1>2, <1>4, SavedBanks

\* The registers stay registers, whatever time they catch up with.
LEMMA ClockType ==
  ASSUME NEW c \in Clocks, NEW t \in Times \cup {Unknown},
         globalTimestamp \in Times \cup {Unknown}
  PROVE  /\ Advanced(c, t) \in Clocks
         /\ (c + 1) % ClockPeriod \in Clocks
         /\ RtcRecord(c, t) \in Clock
<1>1. \A n \in Nat : n % ClockPeriod \in Clocks
  BY TimeAssumption DEF Clocks
<1>2. c \in Nat /\ t \in Nat /\ globalTimestamp \in Nat
  BY TimeAssumption DEF Clocks, Times, Unknown
<1>3. globalTimestamp > t => c + (globalTimestamp - t) \in Nat
  BY <1>2
<1>4. c + 1 \in Nat
  BY <1>2
<1>5. RtcRecord(c, t) \in Clock
  BY DEF RtcRecord, Clock
<1> QED
  BY <1>1, <1>3, <1>4, <1>5 DEF Advanced

----------------------------------------------------------------------------
\* Types, and the place in main().

\* Memory starts with what a power-on leaves there.
LEMMA InitType == Init => TypeInv
<1> SUFFICES ASSUME Init PROVE TypeInv
  OBVIOUS
<1>1. \A g \in Games : Nothing \in Saves(g) /\ Nothing \in AnySave
  BY DEF Saves, AnySave
<1>2. TypeOK
  BY <1>1, TimeAssumption DEF Init, TypeOK, Contents, Times
<1>3. Place
  BY DEF Init, Place, Running, Storing, Interrupted
<1> QED
  BY <1>2, <1>3 DEF TypeInv

\* No step leaves the types, as long as loading is not disturbed.
LEMMA TypeStep ==
  ASSUME LoadingUndisturbed, TypeInv, [Next]_vars
  PROVE  TypeInv'
<1> USE DEF TypeInv, Place, Running, Storing, Interrupted
<1>0. /\ BuildTime \in Times /\ 0 \in Clocks /\ NoGame \notin Games /\ Nothing \notin Games
      /\ RtcGames \subseteq Games
  BY TimeAssumption, GamesAssumption DEF Times, Clocks
<1>1. CASE Boot
  BY <1>0, <1>1 DEF Boot, TypeOK, files, history
<1>2. CASE StoreRtc
  <2>1. loadedRomInfo \in Games
    BY <1>2 DEF StoreRtc
  <2>2. RtcRecord(rtcReal, rtcTimestamp) \in Clock
    BY ClockType DEF TypeOK
  <2> QED
    BY <1>0, <1>2, <2>1, <2>2 DEF StoreRtc, StoreRtcFile, TypeOK, noInit
<1>3. CASE StoreTime
  BY <1>0, <1>3 DEF StoreTime, StoreTimeFile, TypeOK, noInit, history
<1>4. CASE StoreSave
  <2>1. SaveOf(loadedRomInfo, ram) \in Saves(loadedRomInfo) /\ SaveOf(loadedRomInfo, ram) \in AnySave
    BY <1>4, SaveOfType DEF StoreSave, TypeOK
  <2> QED
    BY <1>4, <2>1 DEF StoreSave, StoreSaveRamToFile, TypeOK, noInit
<1>5. CASE Clear
  BY <1>5 DEF Clear, TypeOK, files
<1>6. CASE LoadTime
  BY <1>6 DEF LoadTime, TypeOK, files, noInit, history
<1>7. CASE Prepare
  BY <1>7 DEF Prepare, TypeOK, Contents, files, history
<1>8. CASE MenuLed
  BY <1>8 DEF MenuLed, TypeOK, files, noInit, history
<1>9. ASSUME NEW g \in Games, HostReadsSave(g) PROVE TypeInv'
  BY <1>9 DEF HostReadsSave, TypeOK, files, history
<1>10. ASSUME NEW g \in Games, NEW d \in Data, HostWritesSave(g, d) PROVE TypeInv'
  <2>1. [b \in Banks |-> d] \in [Banks -> Contents]
    BY DEF Contents
  <2>2. SaveOf(g, [b \in Banks |-> d]) \in Saves(g) /\ SaveOf(g, [b \in Banks |-> d]) \in AnySave
    BY <2>1, SaveOfType
  <2> QED
    BY <1>10, <2>2 DEF HostWritesSave, TypeOK
<1>11. ASSUME NEW g \in RtcGames, HostReadsRtc(g) PROVE TypeInv'
  <2>1. rtcFile[g] # Nothing => rtcFile[g] \in Clock
    BY <1>0 DEF TypeOK
  <2>2. rtcReal' \in Clocks /\ rtcTimestamp' \in Times \cup {Unknown}
    BY <1>11, <2>1 DEF HostReadsRtc, RtcFileRead, RtcFileNotRead, TypeOK, Clock
  <2> QED
    BY <1>11, <2>2 DEF HostReadsRtc, TypeOK, files, history
<1>12. ASSUME NEW g \in RtcGames, NEW c \in Clocks, NEW t \in Times, HostWritesRtc(g, c, t)
       PROVE  TypeInv'
  <2>1. RtcRecord(c, t) \in Clock
    BY DEF RtcRecord, Clock
  <2> QED
    BY <1>0, <1>12, <2>1 DEF HostWritesRtc, StoreRtcFile, StoreTimeFile, TypeOK
<1>13. ASSUME NEW g \in Games, NEW t \in Times \cup {globalTimestamp}, SelectGame(g, t)
       PROVE  TypeInv'
  BY <1>13 DEF SelectGame, TypeOK, files, history
<1>14. CASE LoadRom
  BY <1>14 DEF LoadRom, TypeOK, files, history
<1>15. CASE LoadRomFails
  BY <1>15 DEF LoadRomFails, TypeOK, files, history
<1>16. CASE RestoreRtc
  <2>1. loadedRomInfo \in Games
    BY <1>16 DEF RestoreRtc
  <2>2. \A c \in Clocks, t \in Times \cup {Unknown} : Advanced(c, t) \in Clocks
    BY ClockType DEF TypeOK
  <2>3. failed' \subseteq {"saves", "rtc"} \X Games
    BY <1>16, <2>1 DEF RestoreRtc, TypeOK
  <2>4. rtcReal' \in Clocks /\ rtcTimestamp' \in Times \cup {Unknown}
    BY <1>16, <2>2 DEF RestoreRtc, TypeOK
  <2>5. RtcRecord(rtcReal', rtcTimestamp') \in Clock
    BY <2>4 DEF RtcRecord, Clock
  <2>6. lastClock' \in [Games -> Clock \cup {Nothing}]
    BY <1>16, <2>1, <2>5 DEF RestoreRtc, TypeOK
  <2> QED
    BY <1>16, <2>3, <2>4, <2>6 DEF RestoreRtc, TypeOK, files
<1>17. CASE RestoreSave
  <2>1. loadedRomInfo \in Games
    BY <1>17 DEF RestoreSave
  <2>2. ram' \in [Banks -> Contents]
    <3>1. CASE ~HasRam(loadedRomInfo)
      BY <1>17, <3>1 DEF RestoreSave, TypeOK
    <3>2. CASE HasRam(loadedRomInfo) /\ save[loadedRomInfo] = Nothing
      <4>1. \A b \in Banks : ~(b < 0)
        BY DEF Banks
      <4> QED
        BY <1>17, <3>2, <4>1 DEF RestoreSave, TypeOK
    <3>3. CASE HasRam(loadedRomInfo) /\ save[loadedRomInfo] # Nothing
      <4>1. PICK n \in 0..RamBanks[loadedRomInfo] :
              ram' = [b \in Banks |-> IF b < n THEN save[loadedRomInfo][b] ELSE ram[b]]
        BY <1>17, <3>3 DEF RestoreSave
      <4>2. RamBanks[loadedRomInfo] \in Nat
        BY <2>1, GamesAssumption
      <4>3. \A b \in Banks : b < n => b \in 0..RamBanks[loadedRomInfo] - 1
        BY <4>2 DEF Banks
      <4>4. \A b \in Banks : b < n => save[loadedRomInfo][b] \in Contents
        BY <2>1, <3>3, <4>3, SavedBanks DEF TypeOK
      <4> QED
        BY <4>1, <4>4 DEF TypeOK
    <3> QED
      BY <3>1, <3>2, <3>3
  <2>3. SaveOf(loadedRomInfo, ram') \in Saves(loadedRomInfo)
        /\ SaveOf(loadedRomInfo, ram') \in AnySave
    BY <2>1, <2>2, SaveOfType
  <2>4. /\ lastRam' \in [Games -> AnySave]
        /\ \A g \in Games : lastRam'[g] \in Saves(g)
    BY <1>17, <2>1, <2>3 DEF RestoreSave, TypeOK
  <2>5. failed' \subseteq {"saves", "rtc"} \X Games
    BY <1>17, <2>1 DEF RestoreSave, TypeOK
  <2> QED
    BY <1>17, <2>2, <2>4, <2>5 DEF RestoreSave, TypeOK, files
<1>18. ASSUME NEW b \in Banks, NEW d \in Data, GameWrites(b, d) \/ GameWritesUpperHalf(b, d)
       PROVE  TypeInv'
  <2>0. RamChanges(b, d)
    BY <1>18 DEF GameWrites, GameWritesUpperHalf
  <2>1. loadedRomInfo \in Games
    BY <2>0 DEF RamChanges
  <2>2. ram' \in [Banks -> Contents]
    BY <2>0 DEF RamChanges, TypeOK, Contents
  <2>3. SaveOf(loadedRomInfo, ram') \in Saves(loadedRomInfo)
        /\ SaveOf(loadedRomInfo, ram') \in AnySave
    BY <2>1, <2>2, SaveOfType
  <2>4. /\ lastRam' \in [Games -> AnySave]
        /\ \A g \in Games : lastRam'[g] \in Saves(g)
    BY <2>0, <2>1, <2>3 DEF RamChanges, TypeOK
  <2>5. /\ ramDirty' \in BOOLEAN
        /\ led' \in {"off", "red", "green", "blue"}
        /\ unmarked' \subseteq Banks
    BY <1>18 DEF GameWrites, GameWritesUpperHalf, TypeOK
  <2> QED
    BY <2>0, <2>2, <2>4, <2>5 DEF RamChanges, TypeOK, files
<1>19. ASSUME NEW c \in Clocks, NEW t \in Times \cup {Unknown}, ClockChanges(c, t)
       PROVE  TypeInv'
  <2>1. RtcRecord(c, t) \in Clock
    BY DEF RtcRecord, Clock
  <2> QED
    BY <1>0, <1>19, <2>1 DEF ClockChanges, TypeOK, files
<1>20. CASE ClockTick \/ TimeTick \/ GameSetsClock
  <2>1. (rtcReal + 1) % ClockPeriod \in Clocks
    BY ClockType DEF TypeOK
  <2>2. rtcTimestamp < MaxTime => rtcTimestamp + 1 \in Times \cup {Unknown}
    BY TimeAssumption DEF TypeOK, Times, Unknown
  <2>3. rtcReal \in Clocks /\ rtcTimestamp \in Times \cup {Unknown}
    BY DEF TypeOK
  <2> QED
    BY <1>19, <1>20, <2>1, <2>2, <2>3 DEF ClockTick, TimeTick, GameSetsClock
<1>21. CASE StoreRunningSave
  <2>1. SaveOf(loadedRomInfo, ram) \in Saves(loadedRomInfo) /\ SaveOf(loadedRomInfo, ram) \in AnySave
    BY <1>21, SaveOfType DEF StoreRunningSave, TypeOK
  <2> QED
    BY <1>21, <2>1 DEF StoreRunningSave, StoreSaveRamToFile, TypeOK, noInit
<1>22. CASE StoreRunningRtc
  <2>1. RtcRecord(rtcReal, rtcTimestamp) \in Clock
    BY ClockType DEF TypeOK
  <2> QED
    BY <1>0, <1>22, <2>1 DEF StoreRunningRtc, StoreRtcFile, TypeOK, noInit
<1>23. CASE StoreRunningTime
  BY <1>23 DEF StoreRunningTime, StoreTimeFile, TypeOK, noInit, history
<1>24. CASE ResetButton
  BY <1>0, <1>24 DEF ResetButton, StartUp, Loading, TypeOK, files, noInit
<1>25. CASE PowerCut
  <2>1. [b \in Banks |-> Noise] \in [Banks -> Contents]
    BY DEF Contents
  <2> QED
    BY <1>0, <1>25, <2>1 DEF PowerCut, StartUp, TypeOK, files
<1>26. CASE UNCHANGED vars
  BY <1>26 DEF TypeOK, vars, files, noInit, history
<1> QED
  BY <1>1, <1>2, <1>3, <1>4, <1>5, <1>6, <1>7, <1>8, <1>9, <1>10, <1>11, <1>12, <1>13,
     <1>14, <1>15, <1>16, <1>17, <1>18, <1>20, <1>21, <1>22, <1>23, <1>24, <1>25, <1>26
     DEF Next, HostCommand

----------------------------------------------------------------------------
\* The save games.

\* A step may leave the save game behind its game only while the RAM holds it.
LEMMA SaveStep ==
  ASSUME LoadingUndisturbed, TypeInv, SaveInv, [Next]_vars
  PROVE  SaveInv'
<1> USE DEF TypeInv, Place, Running, Storing, Interrupted, SaveInv
<1>0. NoGame \notin Games /\ Nothing \notin Games /\ RtcGames \subseteq Games
  BY GamesAssumption
<1>1. CASE Boot
  BY <1>1 DEF Boot, files, history
<1>2. CASE StoreRtc
  BY <1>0, <1>2, OtherDirectory DEF StoreRtc, StoreRtcFile, noInit
<1>2a. CASE StoreTime
  BY <1>0, <1>2a DEF StoreTime, noInit, history
<1>3. CASE StoreSave
  BY <1>0, <1>3, OneFile DEF StoreSave, StoreSaveRamToFile, noInit, TypeOK
<1>4. CASE Clear \/ LoadTime \/ Prepare \/ MenuLed
  BY <1>0, <1>4 DEF Clear, LoadTime, Prepare, MenuLed, files, noInit, history
<1>5. ASSUME NEW g \in Games, HostReadsSave(g) PROVE SaveInv'
  BY <1>5 DEF HostReadsSave, files, history
<1>6. ASSUME NEW g \in Games, NEW d \in Data, HostWritesSave(g, d) PROVE SaveInv'
  BY <1>6, OneFile DEF HostWritesSave, TypeOK
<1>7. ASSUME NEW g \in RtcGames, HostReadsRtc(g) PROVE SaveInv'
  BY <1>7 DEF HostReadsRtc, files, history
<1>8. ASSUME NEW g \in RtcGames, NEW c \in Clocks, NEW t \in Times, HostWritesRtc(g, c, t)
      PROVE  SaveInv'
  BY <1>8, OtherDirectory DEF HostWritesRtc, StoreRtcFile
<1>9. ASSUME NEW g \in Games, NEW t, SelectGame(g, t) PROVE SaveInv'
  BY <1>9 DEF SelectGame, files, history
<1>10. CASE LoadRom \/ LoadRomFails
  BY <1>10 DEF LoadRom, LoadRomFails, files, history
<1>10a. CASE RestoreRtc
  <2>1. \A g \in Games : <<"saves", g>> \in failed' <=> <<"saves", g>> \in failed
    <3>1. \/ failed' = failed \/ failed' = failed \ {<<"rtc", loadedRomInfo>>}
          \/ failed' = failed \cup {<<"rtc", loadedRomInfo>>}
      BY <1>10a DEF RestoreRtc
    <3> QED
      BY <3>1, OtherDirectory
  <2> QED
    BY <1>10a, <2>1 DEF RestoreRtc, files
<1>11. CASE RestoreSave
  <2>1. CASE HasRam(loadedRomInfo)
    <3>1. \A g \in Games : g # loadedRomInfo =>
            (<<"saves", g>> \in failed' <=> <<"saves", g>> \in failed)
      BY <1>11, <2>1, OneFile DEF RestoreSave
    <3>2. lastRam' = [lastRam EXCEPT ![loadedRomInfo] = SaveOf(loadedRomInfo, ram')]
      BY <1>11, <2>1 DEF RestoreSave
    <3> QED
      BY <1>11, <2>1, <3>1, <3>2 DEF RestoreSave, TypeOK, files
  <2>2. CASE ~HasRam(loadedRomInfo)
    BY <1>11, <2>2 DEF RestoreSave, files
  <2> QED
    BY <2>1, <2>2
<1>12. ASSUME NEW b \in Banks, NEW d \in Data, GameWrites(b, d) \/ GameWritesUpperHalf(b, d)
       PROVE  SaveInv'
  <2>0. RamChanges(b, d)
    BY <1>12 DEF GameWrites, GameWritesUpperHalf
  <2>1. HasRam(loadedRomInfo)
    BY <2>0, GamesAssumption DEF RamChanges, HasRam, Banks
  <2> QED
    BY <2>0, <2>1 DEF RamChanges, TypeOK, files
<1>13. CASE ClockTick \/ TimeTick \/ GameSetsClock
  BY <1>13 DEF ClockTick, TimeTick, GameSetsClock, ClockChanges, files
<1>14. CASE StoreRunningSave
  BY <1>14, OneFile DEF StoreRunningSave, StoreSaveRamToFile, noInit, TypeOK
<1>15. CASE StoreRunningRtc
  BY <1>15, OtherDirectory DEF StoreRunningRtc, StoreRtcFile, noInit
<1>15a. CASE StoreRunningTime
  BY <1>15a DEF StoreRunningTime, noInit, history
<1>16. CASE ResetButton
  BY <1>0, <1>16 DEF ResetButton, StartUp, Loading, TypeOK, files, noInit
<1>17. CASE PowerCut
  BY <1>17 DEF PowerCut, StartUp, files
<1>18. CASE UNCHANGED vars
  BY <1>18 DEF vars, files, noInit, history
<1> QED
  BY <1>1, <1>2, <1>2a, <1>3, <1>4, <1>5, <1>6, <1>7, <1>8, <1>9, <1>10, <1>10a, <1>11,
     <1>12, <1>13, <1>14, <1>15, <1>15a, <1>16, <1>17, <1>18 DEF Next, HostCommand

----------------------------------------------------------------------------
\* The clocks.

\* The same for rtc/<game>, which the registers stand for while a game runs.
LEMMA ClockStep ==
  ASSUME LoadingUndisturbed, TypeInv, ClockInv, [Next]_vars
  PROVE  ClockInv'
<1> USE DEF TypeInv, Place, Running, Storing, Interrupted, ClockInv
<1>0. NoGame \notin Games /\ Nothing \notin Games /\ RtcGames \subseteq Games
  BY GamesAssumption
<1>1. CASE Boot
  BY <1>0, <1>1 DEF Boot, files, history
<1>2. CASE StoreRtc
  BY <1>0, <1>2, OneFile DEF StoreRtc, StoreRtcFile, noInit, TypeOK
<1>3. CASE StoreTime
  BY <1>0, <1>3 DEF StoreTime, noInit, history
<1>3a. CASE StoreSave
  BY <1>0, <1>3a, OtherDirectory DEF StoreSave, StoreSaveRamToFile, noInit
<1>4. CASE Clear \/ LoadTime \/ Prepare \/ MenuLed
  BY <1>0, <1>4 DEF Clear, LoadTime, Prepare, MenuLed, files, noInit, history
<1>5. ASSUME NEW g \in Games, HostReadsSave(g) PROVE ClockInv'
  BY <1>5 DEF HostReadsSave, files, history
<1>6. ASSUME NEW g \in Games, NEW d \in Data, HostWritesSave(g, d) PROVE ClockInv'
  BY <1>6, OtherDirectory DEF HostWritesSave
<1>7. ASSUME NEW g \in RtcGames, HostReadsRtc(g) PROVE ClockInv'
  BY <1>7 DEF HostReadsRtc, files, history
<1>8. ASSUME NEW g \in RtcGames, NEW c \in Clocks, NEW t \in Times, HostWritesRtc(g, c, t)
      PROVE  ClockInv'
  BY <1>0, <1>8, OneFile DEF HostWritesRtc, StoreRtcFile, TypeOK
<1>9. ASSUME NEW g \in Games, NEW t, SelectGame(g, t) PROVE ClockInv'
  BY <1>9 DEF SelectGame, files, history
<1>10. CASE LoadRom \/ LoadRomFails
  BY <1>10 DEF LoadRom, LoadRomFails, files, history
<1>11. CASE RestoreRtc
  <2>1. CASE loadedRomInfo \in RtcGames
    <3>1. \A g \in Games : g # loadedRomInfo =>
            (<<"rtc", g>> \in failed' <=> <<"rtc", g>> \in failed)
      BY <1>11, <2>1, OneFile DEF RestoreRtc
    <3>2. lastClock' = [lastClock EXCEPT ![loadedRomInfo] = RtcRecord(rtcReal', rtcTimestamp')]
      BY <1>11, <2>1 DEF RestoreRtc
    <3> QED
      BY <1>0, <1>11, <2>1, <3>1, <3>2 DEF RestoreRtc, files, TypeOK
  <2>2. CASE loadedRomInfo \notin RtcGames
    BY <1>11, <2>2 DEF RestoreRtc, files
  <2> QED
    BY <2>1, <2>2
<1>12. CASE RestoreSave
  <2>1. \A g \in Games : <<"rtc", g>> \in failed' <=> <<"rtc", g>> \in failed
    <3>1. \/ failed' = failed \/ failed' = failed \ {<<"saves", loadedRomInfo>>}
          \/ failed' = failed \cup {<<"saves", loadedRomInfo>>}
      BY <1>12 DEF RestoreSave
    <3> QED
      BY <3>1, OtherDirectory
  <2> QED
    BY <1>12, <2>1 DEF RestoreSave, files
<1>13. ASSUME NEW b \in Banks, NEW d \in Data, GameWrites(b, d) \/ GameWritesUpperHalf(b, d)
       PROVE  ClockInv'
  BY <1>13 DEF GameWrites, GameWritesUpperHalf, RamChanges, files
<1>14. ASSUME NEW c, NEW t, ClockChanges(c, t) PROVE ClockInv'
  BY <1>0, <1>14 DEF ClockChanges, TypeOK, files
<1>15. CASE ClockTick \/ TimeTick \/ GameSetsClock
  BY <1>14, <1>15 DEF ClockTick, TimeTick, GameSetsClock
<1>16. CASE StoreRunningSave
  BY <1>16, OtherDirectory DEF StoreRunningSave, StoreSaveRamToFile, noInit
<1>16a. CASE StoreRunningTime
  BY <1>16a DEF StoreRunningTime, noInit, history
<1>17. CASE StoreRunningRtc
  BY <1>17, OneFile DEF StoreRunningRtc, StoreRtcFile, noInit, TypeOK
<1>18. CASE ResetButton
  BY <1>0, <1>18 DEF ResetButton, StartUp, Loading, TypeOK, files, noInit
<1>19. CASE PowerCut
  BY <1>19 DEF PowerCut, StartUp, files
<1>20. CASE UNCHANGED vars
  BY <1>20 DEF vars, files, noInit, history
<1> QED
  BY <1>1, <1>2, <1>3, <1>3a, <1>4, <1>5, <1>6, <1>7, <1>8, <1>9, <1>10, <1>11, <1>12,
     <1>13, <1>15, <1>16, <1>16a, <1>17, <1>18, <1>19, <1>20 DEF Next, HostCommand

----------------------------------------------------------------------------
\* The LED.

\* A write changes one bank, and so what the file lacks by one bank at most.
LEMMA OneBank ==
  ASSUME TypeInv, SaveInv, NEW b \in Banks, NEW d \in Data, RamChanges(b, d)
  PROVE  \A g \in Games : Unsaved(g)' \subseteq Unsaved(g) \cup {b}
<1> DEFINE l == loadedRomInfo
<1>0. l \in Games /\ RamBanks[l] \in Nat /\ RamBanks[l] <= MaxRamBanks /\ MaxRamBanks \in Nat
  BY GamesAssumption DEF RamChanges, TypeInv, Place, Running
<1>1. HasRam(l)
  BY <1>0 DEF RamChanges, HasRam, Banks
<1>2. lastRam[l] = SaveOf(l, ram)
  BY <1>1 DEF RamChanges, SaveInv, Running
<1>3. /\ save' = save /\ loadedRomInfo' = l
      /\ ram' = [ram EXCEPT ![b] = d]
      /\ lastRam' = [lastRam EXCEPT ![l] = SaveOf(l, ram')]
  BY DEF RamChanges, files
<1>4. lastRam'[l] = SaveOf(l, ram')
  BY <1>0, <1>3 DEF TypeInv, TypeOK
<1>5. \A c \in 0..RamBanks[l] - 1 : c \in Banks
  BY <1>0 DEF Banks
<1>6. \A c \in 0..RamBanks[l] - 1 : c # b => lastRam'[l][c] = lastRam[l][c]
  BY <1>2, <1>3, <1>4, <1>5 DEF SaveOf, TypeInv, TypeOK
<1>7. SaveOf(l, ram) # Nothing
  <2>1. SaveOf(l, ram) \in [0..RamBanks[l] - 1 -> Contents]
    BY <1>5 DEF SaveOf, TypeInv, TypeOK
  <2> QED
    BY <1>0, <2>1, NothingAssumption
<1>8. ASSUME NEW g \in Games PROVE Unsaved(g)' \subseteq Unsaved(g) \cup {b}
  <2>1. CASE g = l
    BY <1>2, <1>3, <1>6, <1>7, <2>1 DEF Unsaved
  <2>2. CASE g # l
    BY <1>0, <1>3, <2>2 DEF Unsaved, TypeInv, TypeOK
  <2> QED
    BY <2>1, <2>2
<1> QED
  BY <1>8

\* ramDirty is set exactly between the first marked write and the next save.
LEMMA LedStep ==
  ASSUME LoadingUndisturbed, TypeInv, SaveInv, LedInv, [Next]_vars
  PROVE  LedInv'
<1> USE DEF TypeInv, Place, Running, LedInv
<1>1. CASE Boot \/ StoreRtc \/ StoreTime \/ StoreSave
  <2>1. ~Running /\ ~Running' /\ ramDirty' = ramDirty
    BY <1>1 DEF Boot, StoreRtc, StoreTime, StoreSave
  <2> QED
    BY <2>1
<1>1a. CASE Clear \/ LoadTime \/ Prepare \/ MenuLed
  BY <1>1a DEF Clear, LoadTime, Prepare, MenuLed
<1>2. CASE HostCommand
  <2>1. pc = "menu" /\ pc' = pc /\ ramDirty' = ramDirty
    BY <1>2 DEF HostCommand, HostReadsSave, HostWritesSave, HostReadsRtc, HostWritesRtc
  <2> QED
    BY <2>1
<1>3. ASSUME NEW g \in Games, NEW t, SelectGame(g, t) PROVE LedInv'
  BY <1>3 DEF SelectGame
<1>4. CASE LoadRom \/ LoadRomFails \/ RestoreRtc
  BY <1>4 DEF LoadRom, LoadRomFails, RestoreRtc
<1>5. CASE RestoreSave
  <2>0. loadedRomInfo \in Games /\ loadedRomInfo' = loadedRomInfo /\ save' = save
    BY <1>5 DEF RestoreSave, files
  <2>1. <<"saves", loadedRomInfo>> \notin failed => save[loadedRomInfo] = lastRam[loadedRomInfo]
    BY <1>5 DEF RestoreSave, SaveInv, Storing, Interrupted
  <2>2. CASE HasRam(loadedRomInfo) /\ save[loadedRomInfo] # Nothing
    <3>1. PICK n \in 0..RamBanks[loadedRomInfo] :
            /\ ram' = [b \in Banks |-> IF b < n THEN save[loadedRomInfo][b] ELSE ram[b]]
            /\ failed' = IF save[loadedRomInfo] = Nothing \/ n = RamBanks[loadedRomInfo]
                         THEN failed \ {<<"saves", loadedRomInfo>>}
                         ELSE failed \cup {<<"saves", loadedRomInfo>>}
      BY <1>5, <2>2 DEF RestoreSave
    <3>2. lastRam'[loadedRomInfo] = SaveOf(loadedRomInfo, ram')
      BY <1>5, <2>0, <2>2 DEF RestoreSave, TypeOK
    <3>3. CASE n = RamBanks[loadedRomInfo]
      <4>1. SaveOf(loadedRomInfo, ram') = save[loadedRomInfo]
        BY <2>0, <2>2, <3>1, <3>3, Restored DEF TypeOK
      <4>2. Unsaved(loadedRomInfo)' = {}
        BY <2>0, <3>2, <4>1 DEF Unsaved
      <4> QED
        BY <1>5, <2>0, <4>2 DEF RestoreSave, Shown
    <3>4. CASE n # RamBanks[loadedRomInfo]
      <4>1. <<"saves", loadedRomInfo>> \in failed'
        BY <2>2, <3>1, <3>4
      <4> QED
        BY <1>5, <2>0, <4>1 DEF RestoreSave, Shown
    <3> QED
      BY <3>3, <3>4
  <2>3. CASE HasRam(loadedRomInfo) /\ save[loadedRomInfo] = Nothing
    BY <1>5, <2>0, <2>3 DEF RestoreSave
  <2>4. CASE ~HasRam(loadedRomInfo)
    <3>1. lastRam' = lastRam /\ failed' = failed
      BY <1>5, <2>4 DEF RestoreSave
    <3>2. <<"saves", loadedRomInfo>> \notin failed => Unsaved(loadedRomInfo)' = {}
      BY <2>0, <2>1, <3>1 DEF Unsaved
    <3> QED
      BY <1>5, <2>0, <3>1, <3>2 DEF RestoreSave, Shown
  <2> QED
    BY <2>2, <2>3, <2>4
<1>6. ASSUME NEW b \in Banks, NEW d \in Data, GameWrites(b, d) PROVE LedInv'
  BY <1>6 DEF GameWrites, RamChanges
<1>6a. ASSUME NEW b \in Banks, NEW d \in Data, GameWritesUpperHalf(b, d) PROVE LedInv'
  <2>0. RamChanges(b, d) /\ unmarked' = unmarked \cup {b}
    BY <1>6a DEF GameWritesUpperHalf
  <2>1. /\ loadedRomInfo' = loadedRomInfo /\ save' = save /\ failed' = failed
        /\ pc = "game" /\ pc' = pc /\ led' = led /\ ramDirty' = ramDirty
    BY <1>6a, <2>0 DEF GameWritesUpperHalf, RamChanges, files
  <2>2. \A g \in Games : Shown(g) => Shown(g)'
    <3> SUFFICES ASSUME NEW g \in Games, Shown(g), <<"saves", g>> \notin failed
                 PROVE  Unsaved(g)' \subseteq unmarked \cup {b}
      BY <2>0, <2>1 DEF Shown
    <3>1. Unsaved(g)' \subseteq Unsaved(g) \cup {b}
      BY <2>0, OneBank
    <3> QED
      BY <3>1 DEF Shown
  <2>3. loadedRomInfo \in Games
    BY <2>1
  <2> QED
    BY <2>1, <2>2, <2>3
<1>7. CASE ClockTick \/ TimeTick \/ GameSetsClock
  <2>1. /\ loadedRomInfo' = loadedRomInfo /\ save' = save /\ failed' = failed
        /\ lastRam' = lastRam /\ unmarked' = unmarked
        /\ pc = "game" /\ pc' = pc /\ led' = led /\ ramDirty' = ramDirty
    BY <1>7 DEF ClockTick, TimeTick, GameSetsClock, ClockChanges, files
  <2> QED
    BY <2>1 DEF Shown, Unsaved
<1>8. CASE StoreRunningSave
  <2>0. loadedRomInfo \in Games
    BY <1>8 DEF StoreRunningSave
  <2>1. lastRam[loadedRomInfo] = SaveOf(loadedRomInfo, ram)
    BY <1>8 DEF StoreRunningSave, SaveInv
  <2>2. \A g \in Games : g # loadedRomInfo /\ <<"saves", g>> \notin failed => save[g] = lastRam[g]
    BY DEF SaveInv
  <2>3. CASE /\ save' = [save EXCEPT ![loadedRomInfo] = SaveOf(loadedRomInfo, ram)]
             /\ failed' = failed \ {<<"saves", loadedRomInfo>>}
    <3>1. \A g \in Games : <<"saves", g>> \notin failed' => save'[g] = lastRam[g]
      BY <2>0, <2>1, <2>2, <2>3, OneFile DEF TypeOK
    <3> QED
      BY <1>8, <3>1 DEF StoreRunningSave, StoreSaveRamToFile
  <2>4. CASE UNCHANGED save /\ failed' = failed \cup {<<"saves", loadedRomInfo>>}
    <3>1. \A g \in Games : <<"saves", g>> \notin failed' => save'[g] = lastRam[g]
      BY <2>2, <2>4, OneFile
    <3> QED
      BY <1>8, <3>1 DEF StoreRunningSave, StoreSaveRamToFile
  <2> QED
    BY <1>8, <2>3, <2>4 DEF StoreRunningSave, StoreSaveRamToFile
<1>9. CASE StoreRunningRtc
  BY <1>9, OtherDirectory DEF StoreRunningRtc, StoreRtcFile, noInit
<1>10. CASE StoreRunningTime
  <2>0. /\ loadedRomInfo' = loadedRomInfo /\ save' = save /\ failed' = failed
        /\ lastRam' = lastRam /\ unmarked' = unmarked
    BY <1>10 DEF StoreRunningTime, noInit, history
  <2>1. \A g \in Games : Shown(g)'
    BY <1>10, <2>0 DEF StoreRunningTime, Shown, Unsaved
  <2> QED
    BY <1>10, <2>0, <2>1 DEF StoreRunningTime
<1>11. CASE ResetButton \/ PowerCut
  BY <1>11 DEF ResetButton, PowerCut, StartUp
<1>12. CASE UNCHANGED vars
  BY <1>12 DEF vars, files, noInit, history, Shown, Unsaved
<1> QED
  BY <1>1, <1>1a, <1>2, <1>3, <1>4, <1>5, <1>6, <1>6a, <1>7, <1>8, <1>9, <1>10, <1>11, <1>12
     DEF Next

----------------------------------------------------------------------------
\* The time.

\* The noise of power-on is taken for the time by Clear alone; elsewhere it
\* only travels on.
LEMMA TimeStep ==
  ASSUME LoadingUndisturbed, TypeInv, TimeInv, [Next]_vars
  PROVE  TimeInv'
<1> USE DEF TypeInv, Place, Running, Storing, Interrupted, TimeInv
<1>0. /\ NoGame \notin Games /\ Nothing \notin Games
      /\ \A t \in Times : t # Unknown
      /\ BuildTime # Unknown
      /\ \A t \in Times : t < MaxTime => t + 1 # Unknown
  BY TimeAssumption, GamesAssumption DEF Times, Unknown
<1>1. CASE Boot
  BY <1>0, <1>1 DEF Boot, files, history
<1>2. CASE StoreRtc
  BY <1>0, <1>2 DEF StoreRtc, noInit
<1>3. CASE StoreTime
  BY <1>0, <1>3 DEF StoreTime, StoreTimeFile, noInit, history
<1>4. CASE StoreSave
  BY <1>4 DEF StoreSave, noInit
<1>4a. CASE Prepare \/ MenuLed
  BY <1>4a DEF Prepare, MenuLed, files, noInit, history
<1>5. CASE Clear
  BY <1>5 DEF Clear, files
<1>5a. CASE LoadTime
  BY <1>5a DEF LoadTime, files, noInit, history
<1>6. ASSUME NEW g \in Games, HostReadsSave(g) PROVE TimeInv'
  BY <1>6 DEF HostReadsSave, files, history
<1>6a. ASSUME NEW g \in Games, NEW d \in Data, HostWritesSave(g, d) PROVE TimeInv'
  BY <1>6a DEF HostWritesSave
<1>6b. ASSUME NEW g \in RtcGames, HostReadsRtc(g) PROVE TimeInv'
  BY <1>6b DEF HostReadsRtc, files, history
<1>6c. ASSUME NEW g \in RtcGames, NEW c \in Clocks, NEW t \in Times, HostWritesRtc(g, c, t)
       PROVE  TimeInv'
  BY <1>0, <1>6c DEF HostWritesRtc, StoreTimeFile
<1>7. ASSUME NEW g \in Games, NEW t \in Times \cup {globalTimestamp}, SelectGame(g, t)
      PROVE  TimeInv'
  BY <1>0, <1>7 DEF SelectGame, files, history
<1>8. CASE LoadRom \/ LoadRomFails
  BY <1>8 DEF LoadRom, LoadRomFails, files, history
<1>9. CASE RestoreRtc
  BY <1>9 DEF RestoreRtc, files
<1>10. CASE RestoreSave
  BY <1>10 DEF RestoreSave, files
<1>11. ASSUME NEW b \in Banks, NEW d \in Data, GameWrites(b, d) \/ GameWritesUpperHalf(b, d)
       PROVE  TimeInv'
  BY <1>11 DEF GameWrites, GameWritesUpperHalf, RamChanges, files
<1>12. CASE ClockTick \/ GameSetsClock
  BY <1>0, <1>12 DEF ClockTick, GameSetsClock, ClockChanges, files
<1>12a. CASE TimeTick
  <2>1. rtcTimestamp \in Times
    BY <1>12a, TimeAssumption DEF TimeTick, TypeOK, Times, Unknown
  <2> QED
    BY <1>0, <1>12a, <2>1 DEF TimeTick, ClockChanges, files
<1>13. CASE StoreRunningSave \/ StoreRunningRtc
  BY <1>13 DEF StoreRunningSave, StoreRunningRtc, noInit
<1>14. CASE StoreRunningTime
  BY <1>14 DEF StoreRunningTime, StoreTimeFile, noInit, history
<1>15. CASE ResetButton
  BY <1>0, <1>15 DEF ResetButton, StartUp, Loading, TypeOK, files, noInit
<1>16. CASE PowerCut
  BY <1>0, <1>16 DEF PowerCut, StartUp, files
<1>17. CASE UNCHANGED vars
  BY <1>17 DEF vars, files, noInit, history
<1> QED
  BY <1>1, <1>2, <1>3, <1>4, <1>4a, <1>5, <1>5a, <1>6, <1>6a, <1>6b, <1>6c, <1>7, <1>8, <1>9,
     <1>10, <1>11, <1>12, <1>12a, <1>13, <1>14, <1>15, <1>16, <1>17 DEF Next, HostCommand

----------------------------------------------------------------------------
\* The theorems.  None of them holds without LoadingUndisturbed.

\* Files and memory keep their types, and main() never follows an
\* uninitialised g_loadedRomInfo.
THEOREM LifecycleTypes ==
  ASSUME LoadingUndisturbed
  PROVE  Spec => []TypeOK
<1>1. TypeInv => TypeOK
  BY DEF TypeInv
<1> QED
  BY InitType, TypeStep, <1>1, PTL DEF Spec

\* Wherever main() does not hold a game's RAM, its file does, unless the file
\* system refused it: resets at any point of storing, and in any number, lose
\* nothing that power did not take.
THEOREM SavesAreKept ==
  ASSUME LoadingUndisturbed
  PROVE  Spec => []SavesKept
<1>1. Init => SaveInv
  BY DEF Init, SaveInv, Running, Storing, Interrupted
<1>2. TypeInv /\ SaveInv => SavesKept
  BY DEF TypeInv, TypeOK, SaveInv, SavesKept, Running, Storing, Interrupted
<1> QED
  BY InitType, TypeStep, SaveStep, <1>1, <1>2, PTL DEF Spec

\* The same of the clock registers and their time stamp.
THEOREM ClocksAreKept ==
  ASSUME LoadingUndisturbed
  PROVE  Spec => []ClocksKept
<1>1. Init => ClockInv
  BY DEF Init, ClockInv, Running, Storing, Interrupted
<1>2. TypeInv /\ ClockInv => ClocksKept
  BY DEF TypeInv, TypeOK, ClockInv, ClocksKept, Running, Storing, Interrupted
<1> QED
  BY InitType, TypeStep, ClockStep, <1>1, <1>2, PTL DEF Spec

\* While the LED is green, all that a game has written is in its file, but for
\* what the file system refused and for the upper halves of an MBC5 game's
\* banks.
THEOREM GreenIsHonest ==
  ASSUME LoadingUndisturbed
  PROVE  Spec => []GreenMeansSaved
<1>1. Init => SaveInv /\ LedInv
  BY DEF Init, SaveInv, LedInv, Running, Storing, Interrupted
<1>2. TypeInv /\ SaveInv /\ LedInv => GreenMeansSaved
  <2> SUFFICES ASSUME TypeInv, SaveInv, LedInv, led = "green",
                      pc \in {"clear", "prepare", "game", "hookRtc", "hookTime"},
                      NEW g \in Games, <<"saves", g>> \notin failed
               PROVE  Unsaved(g) \subseteq unmarked
    BY DEF GreenMeansSaved
  <2>1. CASE pc = "game"
    BY <2>1 DEF LedInv, Shown
  <2>2. CASE pc # "game"
    <3>1. save[g] = lastRam[g]
      BY <2>2 DEF LedInv, SaveInv, Running, Storing, Interrupted
    <3> QED
      BY <3>1 DEF Unsaved
  <2> QED
    BY <2>1, <2>2
<1> QED
  BY InitType, TypeStep, SaveStep, LedStep, <1>1, <1>2, PTL DEF Spec

\* While a game's RAM differs from its save game, the LED is red, with the same
\* two exceptions.
THEOREM RedIsHonest ==
  ASSUME LoadingUndisturbed
  PROVE  Spec => []UnsavedShowsRed
<1>1. Init => SaveInv /\ LedInv
  BY DEF Init, SaveInv, LedInv, Running, Storing, Interrupted
<1>2. LedInv => UnsavedShowsRed
  BY DEF LedInv, UnsavedShowsRed, Shown
<1> QED
  BY InitType, TypeStep, SaveStep, LedStep, <1>1, <1>2, PTL DEF Spec

\* Whatever mix of games: the boot menu shows noise as the time only if a start
\* has taken it from a game without a clock.
THEOREM TimeStaysKnown ==
  ASSUME LoadingUndisturbed
  PROVE  Spec => []TimeIsKnown
<1>1. Init => TimeInv
  BY TimeAssumption DEF Init, TimeInv, Running, Storing, Interrupted, Times, Unknown
<1>2. TimeInv => TimeIsKnown
  BY DEF TimeInv, TimeIsKnown
<1> QED
  BY InitType, TypeStep, TimeStep, <1>1, <1>2, PTL DEF Spec

=============================================================================
