--------------------------- MODULE BootMenuProofs ----------------------------
(***************************************************************************)
(* What BootMenu promises, proved for every number of rows from four on    *)
(* and for every set of stores that the numbers of games fit.              *)
(*                                                                         *)
(* MenuInv is about the Game Boy alone: OnPage is what moveCursor keeps, and *)
(* the game on the screen is the one the cursor was left at.  StartInv      *)
(* follows a choice through shared RAM and over the bus to main.c.          *)
(***************************************************************************)
EXTENDS BootMenu, TLAPS

\* The page that begins with p shows row c of n, and is full if it is not the first.
OnPage(c, p, n) ==
  /\ c \in Nat /\ p \in Nat
  /\ p <= c /\ c < p + Rows /\ c < n
  /\ p = 0 \/ p + Rows <= n

MenuInv ==
  /\ list \in Stores /\ roms \in Stores
  /\ Count > 0 => OnPage(lastGame, lastPage, Count)
  /\ Count = 0 =>
       /\ lastGame = 0 /\ lastPage = 0
       /\ screen \notin {"GAME_SETTINGS", "RTC_SETTINGS"}
       /\ screen = "GAME_MENU" => cursor = 0 /\ page = 0
  /\ screen = "GAME_SETTINGS" => OnPage(cursor, page, 3)
  /\ screen = "RGB_TESTER" => OnPage(cursor, page, 4)
  /\ shown \in {Nothing, lastGame}
  /\ shown # Nothing => Count > 0
  /\ force => shown = Nothing
  /\ ~force /\ Count > 0 /\ screen = "GAME_MENU" => shown = lastGame

\* The game that was called is the one on the screen, the mode the one picked.
CallChosen ==
  call # Nothing =>
    /\ call.game < Count
    /\ choice # Nothing
    /\ choice.name \in {Nothing, Listed(call.game)}
    /\ \/ call.mode = choice.mode
       \/ Listed(call.game) \in RtcGames /\ choice.mode = NoMode

StartInv ==
  /\ screen = "RTC_SETTINGS" => Listed(lastGame) \in RtcGames /\ picked \in {NoMode, mode}
  /\ CallChosen
  /\ gb \in {"writeMode", "writeGame", "writeControl"} => call # Nothing
  /\ gb \in {"writeGame", "writeControl"} => ramMode = call.mode
  /\ gb = "writeControl" => ramGame = call.game
  /\ bus = "START" =>
       gb = "stuck" /\ call # Nothing /\ ramGame = call.game /\ ramMode = call.mode
  /\ selected # Nothing => gb = "stuck" /\ call # Nothing /\ selected = call
  /\ RestartAfterEdit /\ gb # "off" => list = roms

IInv == TypeOK /\ MenuInv /\ StartInv

----------------------------------------------------------------------------
\* Lemmas about the helpers.

\* Whatever keys are pressed, moveCursor keeps the cursor on its page.
LEMMA MoveKeepsPage ==
  ASSUME NEW keys, NEW c, NEW p, NEW n \in Nat, OnPage(c, p, n)
  PROVE  LET at == moveCursor(keys, c, p, n) IN OnPage(at.cursor, at.page, n)
<1>0. Rows \in Nat /\ Rows >= 4
  BY MenuAssumption
<1>1. OnPage(At(c, p).cursor, At(c, p).page, n)
  BY DEF At
<1>2. OnPage(Up(c, p).cursor, Up(c, p).page, n)
  BY <1>0 DEF Up, At, OnPage
<1>3. OnPage(Down(c, p, n).cursor, Down(c, p, n).page, n)
  BY <1>0 DEF Down, At, OnPage
<1>4. OnPage(Left(c, p).cursor, Left(c, p).page, n)
  BY <1>0 DEF Left, At, OnPage
<1>5. ASSUME n > Rows
      PROVE  OnPage(Right(c, p, n).cursor, Right(c, p, n).page, n)
  BY <1>0, <1>5 DEF Right, At, OnPage
<1>6. Direction(keys, n) = "RIGHT" => n > Rows
  BY DEF Direction
<1>7. Direction(keys, n) \in {"UP", "DOWN", "LEFT", "RIGHT", "none"}
  BY DEF Direction
<1> QED
  BY <1>1, <1>2, <1>3, <1>4, <1>5, <1>6, <1>7 DEF moveCursor

\* Without a direction moveCursor does nothing.
LEMMA NoMove ==
  ASSUME NEW keys, NEW c, NEW p, NEW n, Direction(keys, n) = "none"
  PROVE  moveCursor(keys, c, p, n) = At(c, p)
BY DEF moveCursor

\* Games are numbered below 255, and have names.
LEMMA Numbers ==
  ASSUME list \in Stores
  PROVE  /\ Count \in Nat /\ Count < 255
         /\ \A game \in Nat : game < Count => Listed(game) \in Games
<1>1. list \in Seq(Games) /\ Len(list) <= MaxRoms /\ MaxRoms \in Nat /\ MaxRoms < 255
  BY MenuAssumption
<1> QED
  BY <1>1 DEF Count, Listed

\* Rows and pages of a short list fit the screen they are on.
LEMMA Bytes ==
  ASSUME NEW c, NEW p, NEW n \in Nat, n < 255, OnPage(c, p, n)
  PROVE  c \in 0..254 /\ p \in 0..254 /\ (n = 3 => c \in Modes) /\ (n = 3 => c \in 0..2)
BY DEF OnPage, Modes, NoMode

\* A program that has just begun.
LEMMA StartsOnPage ==
  ASSUME NEW n \in Nat, n > 0
  PROVE  OnPage(0, 0, n)
BY MenuAssumption DEF OnPage

----------------------------------------------------------------------------
\* The initial state.

LEMMA InitInv == Init => IInv
<1> SUFFICES ASSUME Init PROVE IInv
  OBVIOUS
<1>1. list \in Stores /\ roms \in Stores
  BY DEF Init
<1>2. Count \in Nat /\ Count < 255
  BY <1>1, Numbers
<1>3. TypeOK
  <2>1. list \in Seq(Games) /\ roms \in Seq(Games)
    BY <1>1, MenuAssumption
  <2>2. screen \in Screens /\ mode \in Modes /\ picked \in Modes /\ ramMode \in Modes
    BY DEF Init, Screens, Modes, NoMode
  <2>3. {cursor, page, lastGame, lastPage} \subseteq 0..254 /\ ramGame \in 0..255
    BY DEF Init, NoGame
  <2> QED
    BY <2>1, <2>2, <2>3 DEF Init, TypeOK
<1>4. MenuInv
  BY <1>1, <1>2, StartsOnPage DEF Init, MenuInv
<1>5. StartInv
  BY MenuAssumption DEF Init, StartInv, CallChosen
<1> QED
  BY <1>3, <1>4, <1>5 DEF IInv

----------------------------------------------------------------------------
\* The steps.  A screen is left, kept or a game is started; each action says which.

\* TypeOK in two parts: what the screens change, and the rest.
MenuTypes ==
  /\ screen \in Screens
  /\ cursor \in 0..254 /\ page \in 0..254 /\ lastGame \in 0..254 /\ lastPage \in 0..254
  /\ mode \in Modes /\ picked \in Modes
  /\ force \in BOOLEAN
  /\ shown \in 0..254 \cup {Nothing}

CallTypes ==
  /\ gb \in {"off", "menu", "writeMode", "writeGame", "writeControl", "stuck"}
  /\ call \in Calls \cup {Nothing}
  /\ choice \in Choices \cup {Nothing}

CartTypes ==
  /\ list \in Seq(Games)
  /\ ramGame \in 0..255 /\ ramMode \in Modes
  /\ bus \in {Nothing, "READ", "LED", "START", "BOOTLOADER"}
  /\ inGameboy \in BOOLEAN
  /\ selected \in Calls \cup {Nothing}
  /\ roms \in Seq(Games)

LEMMA TypeParts ==
  /\ TypeOK <=> MenuTypes /\ CallTypes /\ CartTypes
  /\ TypeOK' <=> MenuTypes' /\ CallTypes' /\ CartTypes'
<1>1. TypeOK <=> MenuTypes /\ CallTypes /\ CartTypes
  BY DEF TypeOK, MenuTypes, CallTypes, CartTypes
<1>2. TypeOK' <=> MenuTypes' /\ CallTypes' /\ CartTypes'
  BY DEF TypeOK, MenuTypes, CallTypes, CartTypes
<1> QED
  BY <1>1, <1>2

LEMMA PartsKept ==
  /\ MenuTypes /\ UNCHANGED menuVars => MenuTypes'
  /\ CallTypes /\ UNCHANGED <<gb, callVars>> => CallTypes'
  /\ CartTypes /\ UNCHANGED <<sharedVars, bus, cartVars>> => CartTypes'
<1>1. MenuTypes /\ UNCHANGED menuVars => MenuTypes'
  BY DEF MenuTypes, menuVars, cursorVars
<1>2. CallTypes /\ UNCHANGED <<gb, callVars>> => CallTypes'
  BY DEF CallTypes, callVars
<1>3. CartTypes /\ UNCHANGED <<sharedVars, bus, cartVars>> => CartTypes'
  BY DEF CartTypes, sharedVars, cartVars
<1> QED
  BY <1>1, <1>2, <1>3

\* No step leaves the types.
LEMMA TypeStep ==
  ASSUME IInv, [Next]_vars
  PROVE  TypeOK'
<1>0. /\ Count \in Nat /\ Count < 255
      /\ \A game \in Nat : game < Count => Listed(game) \in Games
  BY Numbers DEF IInv, MenuInv
<1>1. NoMode \in Modes /\ \A row \in 0..2 : row \in Modes
  BY DEF Modes, NoMode
<1>2. MenuTypes /\ CallTypes /\ CartTypes /\ MenuInv /\ StartInv
  BY TypeParts DEF IInv
<1>3. \A s : ChangeTo(s) /\ s \in Screens =>
        /\ screen' \in Screens /\ cursor' \in 0..254 /\ page' \in 0..254
        /\ force' \in BOOLEAN /\ shown' \in 0..254 \cup {Nothing}
  BY DEF ChangeTo
<1>4. Stay => force' \in BOOLEAN /\ screen' \in Screens
  BY <1>2 DEF Stay, MenuTypes
<1>5. Quiet => CallTypes' /\ CartTypes'
  BY <1>2, PartsKept DEF Quiet
<1>6. ASSUME NEW m \in Modes, NEW seenMode \in Modes, Count > 0,
             startGame(lastGame, m, seenMode)
      PROVE  TypeOK'
  <2>1. call' \in Calls
    BY <1>2, <1>6 DEF startGame, Calls, MenuTypes
  <2>2. shown # Nothing => Listed(shown) \in Games
    BY <1>0, <1>2, <1>6 DEF MenuInv, OnPage
  <2>3. choice' \in Choices
    BY <1>6, <2>2 DEF startGame, Choices
  <2>4. CallTypes'
    BY <1>6, <2>1, <2>3 DEF startGame, CallTypes
  <2>5. MenuTypes' /\ CartTypes'
    BY <1>2, <1>6, PartsKept DEF startGame
  <2> QED
    BY <2>4, <2>5, TypeParts
<1>7. ASSUME NEW keys, GameMenuLeaves(keys) PROVE TypeOK'
  <2>1. MenuTypes'
    BY <1>1, <1>2, <1>3, <1>7 DEF GameMenuLeaves, MenuTypes, Screens
  <2> QED
    BY <1>5, <1>7, <2>1, TypeParts DEF GameMenuLeaves
<1>8. ASSUME NEW keys, GameMenuStarts(keys) PROVE TypeOK'
  BY <1>1, <1>6, <1>8 DEF GameMenuStarts
<1>9. ASSUME NEW keys, GameMenuMoves(keys) PROVE TypeOK'
  <2>1. CASE Count = 0
    <3>1. MenuTypes'
      BY <1>0, <1>2, <1>4, <1>9, <2>1 DEF GameMenuMoves, MenuTypes
    <3> QED
      BY <1>5, <1>9, <3>1, TypeParts DEF GameMenuMoves
  <2>2. CASE Count > 0
    <3> DEFINE at == moveCursor(keys, lastGame, lastPage, Count)
    <3>1. at.cursor \in 0..254 /\ at.page \in 0..254
      BY <1>0, <1>2, <2>2, MoveKeepsPage, Bytes DEF MenuInv
    <3>2. Highlighted(at.cursor, at.page) \in 0..254 \cup {Nothing}
      BY <3>1 DEF Highlighted
    <3>3. /\ cursor' = at.cursor /\ lastGame' = at.cursor
          /\ page' = at.page /\ lastPage' = at.page
          /\ shown' \in {shown, Highlighted(at.cursor, at.page)}
      BY <1>9, <2>2 DEF GameMenuMoves
    <3> HIDE DEF at
    <3>4. MenuTypes'
      BY <1>2, <1>4, <1>9, <3>1, <3>2, <3>3 DEF GameMenuMoves, MenuTypes
    <3> QED
      BY <1>5, <1>9, <3>4, TypeParts DEF GameMenuMoves
  <2> QED
    BY <1>0, <2>1, <2>2
<1>10. ASSUME NEW keys, SystemInfo(keys) PROVE TypeOK'
  <2>1. MenuTypes'
    BY <1>2, <1>3, <1>4, <1>10 DEF SystemInfo, MenuTypes, Screens
  <2>2. CallTypes'
    BY <1>2, <1>10 DEF SystemInfo, CallTypes, callVars
  <2>3. CartTypes'
    BY <1>2, <1>10 DEF SystemInfo, CartTypes, sharedVars, cartVars
  <2> QED
    BY <2>1, <2>2, <2>3, TypeParts
<1>11. ASSUME NEW keys, RGBTester(keys) PROVE TypeOK'
  <2> DEFINE at == moveCursor(keys, cursor, page, 4)
  <2>1. at.cursor \in 0..254 /\ at.page \in 0..254
    BY <1>2, <1>11, MoveKeepsPage, Bytes DEF MenuInv, RGBTester, Drawscreen
  <2>2. \/ ChangeTo("GAME_MENU") \/ ChangeTo("SYSTEM_INFO")
        \/ cursor' = at.cursor /\ page' = at.page /\ Stay /\ UNCHANGED shown
    BY <1>11 DEF RGBTester
  <2> HIDE DEF at
  <2>3. MenuTypes'
    BY <1>2, <1>3, <1>4, <1>11, <2>1, <2>2 DEF RGBTester, MenuTypes, Screens
  <2>4. CallTypes'
    BY <1>2, <1>11 DEF RGBTester, CallTypes, callVars
  <2>5. CartTypes'
    BY <1>2, <1>11 DEF RGBTester, CartTypes, sharedVars, cartVars
  <2> QED
    BY <2>3, <2>4, <2>5, TypeParts
<1>12. ASSUME Drawscreen("GAME_SETTINGS"), NEW keys
       PROVE  LET at == moveCursor(keys, cursor, page, 3)
              IN /\ at.cursor \in 0..254 /\ at.page \in 0..254
                 /\ at.cursor \in Modes
  BY <1>2, <1>12, MoveKeepsPage, Bytes DEF MenuInv, Drawscreen
<1>13. (Drawscreen("GAME_SETTINGS") \/ Drawscreen("RTC_SETTINGS")) => Count > 0
  BY <1>0, <1>2 DEF MenuInv, Drawscreen
<1>14. ASSUME NEW keys, SettingsLeaves(keys) PROVE TypeOK'
  <2>1. mode' \in Modes /\ picked' \in Modes
    BY <1>2, <1>12, <1>14 DEF SettingsLeaves, MenuTypes
  <2>2. MenuTypes'
    BY <1>2, <1>3, <1>14, <2>1 DEF SettingsLeaves, MenuTypes, Screens
  <2> QED
    BY <1>5, <1>14, <2>2, TypeParts DEF SettingsLeaves
<1>15. ASSUME NEW keys, SettingsStarts(keys) PROVE TypeOK'
  BY <1>6, <1>12, <1>13, <1>15 DEF SettingsStarts
<1>16. ASSUME NEW keys, SettingsMoves(keys) PROVE TypeOK'
  <2>1. cursor' \in 0..254 /\ page' \in 0..254
    BY <1>12, <1>16 DEF SettingsMoves
  <2>2. mode' \in {NoMode, mode} /\ shown' \in {lastGame, shown}
    BY <1>16 DEF SettingsMoves
  <2>3. MenuTypes'
    BY <1>1, <1>2, <1>4, <1>16, <2>1, <2>2 DEF SettingsMoves, MenuTypes
  <2> QED
    BY <1>5, <1>16, <2>3, TypeParts DEF SettingsMoves
<1>17. ASSUME NEW keys, RtcSettingsLeaves(keys) PROVE TypeOK'
  <2>1. MenuTypes'
    BY <1>2, <1>3, <1>17 DEF RtcSettingsLeaves, MenuTypes, Screens
  <2> QED
    BY <1>5, <1>17, <2>1, TypeParts DEF RtcSettingsLeaves
<1>18. ASSUME NEW keys, RtcSettingsStarts(keys) PROVE TypeOK'
  BY <1>2, <1>6, <1>13, <1>18 DEF RtcSettingsStarts, MenuTypes
<1>19. ASSUME NEW keys, RtcSettingsMoves(keys) PROVE TypeOK'
  <2>1. MenuTypes'
    BY <1>2, <1>4, <1>19 DEF RtcSettingsMoves, MenuTypes, cursorVars
  <2> QED
    BY <1>5, <1>19, <2>1, TypeParts DEF RtcSettingsMoves
<1>20. CASE drawscreen
  BY <1>7, <1>8, <1>9, <1>10, <1>11, <1>14, <1>15, <1>16, <1>17, <1>18, <1>19, <1>20
     DEF drawscreen
<1>21. CASE WriteMode \/ WriteGame \/ WriteControl
  <2>1. MenuTypes'
    BY <1>2, <1>21, PartsKept DEF WriteMode, WriteGame, WriteControl
  <2>2. CallTypes'
    BY <1>2, <1>21 DEF WriteMode, WriteGame, WriteControl, CallTypes, callVars
  <2>3. gb \in {"writeMode", "writeGame"} => call.mode \in Modes /\ call.game \in 0..255
    BY <1>2 DEF StartInv, CallTypes, Calls
  <2>4. ramGame' \in 0..255 /\ ramMode' \in Modes /\ bus' \in {bus, "START"}
    BY <1>2, <1>21, <2>3 DEF WriteMode, WriteGame, WriteControl, CartTypes, sharedVars
  <2>5. CartTypes'
    BY <1>2, <1>21, <2>4
       DEF WriteMode, WriteGame, WriteControl, CartTypes, sharedVars, cartVars
  <2> QED
    BY <2>1, <2>2, <2>5, TypeParts
<1>22. CASE Poll
  <2>1. bus = "START" /\ ramGame # NoGame => [game |-> ramGame, mode |-> ramMode] \in Calls
    BY <1>2 DEF CartTypes, Calls, NoGame
  <2>2. CartTypes'
    BY <1>2, <1>22, <2>1 DEF Poll, CartTypes, sharedVars
  <2> QED
    BY <1>2, <1>22, <2>2, PartsKept, TypeParts DEF Poll
<1>23. ASSUME NEW s \in Stores, HostEdits(s) PROVE TypeOK'
  <2>1. CartTypes'
    BY <1>2, <1>23, MenuAssumption DEF HostEdits, CartTypes, sharedVars
  <2> QED
    BY <1>2, <1>23, <2>1, PartsKept, TypeParts DEF HostEdits
<1>24. MenuStarts => MenuTypes'
  BY <1>1 DEF MenuStarts, MenuTypes, Screens
<1>25. CASE SwitchOn
  <2>1. CallTypes' /\ CartTypes'
    BY <1>2, <1>25 DEF SwitchOn, CallTypes, CartTypes, callVars, sharedVars, cartVars
  <2> QED
    BY <1>2, <1>25, <2>1, PartsKept, TypeParts DEF SwitchOn
<1>26. CASE SwitchOff
  <2>1. CallTypes'
    BY <1>26 DEF SwitchOff, CallTypes
  <2> QED
    BY <1>2, <1>24, <1>26, <2>1, PartsKept, TypeParts DEF SwitchOff
<1>27. CASE Restart
  <2>1. CallTypes'
    BY <1>27 DEF Restart, CallTypes
  <2>2. ramGame' \in 0..255 /\ ramMode' \in Modes
    BY <1>27 DEF Restart, Modes, NoGame
  <2>3. CartTypes'
    BY <1>2, <1>27, <2>2 DEF Restart, CartTypes
  <2> QED
    BY <1>24, <1>27, <2>1, <2>3, TypeParts DEF Restart
<1>28. CASE UNCHANGED vars
  BY <1>2, <1>28, PartsKept, TypeParts DEF vars
<1> QED
  BY <1>20, <1>21, <1>22, <1>23, <1>25, <1>26, <1>27, <1>28 DEF Next

\* No step moves the choice off the page or away from what is shown.
LEMMA MenuStep ==
  ASSUME IInv, [Next]_vars
  PROVE  MenuInv'
<1>0. /\ Count \in Nat
      /\ MenuTypes /\ MenuInv
      /\ \A n \in Nat : n > 0 => OnPage(0, 0, n)
      /\ {"GAME_MENU", "SYSTEM_INFO", "RGB_TESTER", "GAME_SETTINGS", "RTC_SETTINGS"} = Screens
  BY Numbers, StartsOnPage, TypeParts DEF IInv, MenuInv, Screens
<1>1. ASSUME UNCHANGED <<menuVars, list>>, roms' \in Stores
      PROVE  MenuInv'
  BY <1>0, <1>1 DEF MenuInv, menuVars, cursorVars, Count, OnPage
<1>2. ASSUME MenuStarts, list' \in Stores, roms' \in Stores
      PROVE  MenuInv'
  <2>1. Count' \in Nat
    BY <1>2, MenuAssumption DEF Count
  <2>2. Count' > 0 => OnPage(0, 0, Count')
    BY <1>0, <2>1
  <2> QED
    BY <1>2, <2>2 DEF MenuStarts, MenuInv, OnPage
<1>3. ASSUME NEW s \in Screens, ChangeTo(s), UNCHANGED <<lastGame, lastPage, list, roms>>,
             s \in {"GAME_SETTINGS", "RTC_SETTINGS"} => Count > 0
      PROVE  MenuInv'
  <2>1. Count' = Count
    BY <1>3 DEF Count
  <2>2. Count > 0 => OnPage(lastGame', lastPage', Count')
    BY <1>0, <1>3, <2>1 DEF MenuInv
  <2>3. OnPage(cursor', page', 3) /\ OnPage(cursor', page', 4)
    BY <1>0, <1>3 DEF ChangeTo
  <2> QED
    BY <1>0, <1>3, <2>1, <2>2, <2>3 DEF ChangeTo, MenuInv, OnPage
<1>4. ASSUME NEW m, NEW seenMode, startGame(lastGame, m, seenMode)
      PROVE  MenuInv'
  BY <1>0, <1>1, <1>4 DEF startGame, sharedVars, cartVars, MenuInv
<1>5. Quiet => UNCHANGED <<list, roms>>
  BY DEF Quiet, sharedVars, cartVars
<1>6. ASSUME NEW keys, GameMenuLeaves(keys) PROVE MenuInv'
  BY <1>0, <1>3, <1>5, <1>6 DEF GameMenuLeaves
<1>7. ASSUME NEW keys, GameMenuMoves(keys) PROVE MenuInv'
  <2>1. /\ Count' = Count /\ screen = "GAME_MENU" /\ screen' = screen /\ ~force'
        /\ list' \in Stores /\ roms' \in Stores
    BY <1>0, <1>5, <1>7 DEF GameMenuMoves, Drawscreen, Stay, Count, MenuInv
  <2>2. CASE Count = 0
    BY <1>0, <1>7, <2>1, <2>2 DEF GameMenuMoves, MenuInv
  <2>3. CASE Count > 0
    <3> DEFINE at == moveCursor(keys, lastGame, lastPage, Count)
    <3>1. OnPage(at.cursor, at.page, Count)
      BY <1>0, <2>3, MoveKeepsPage DEF MenuInv
    <3>2. Highlighted(at.cursor, at.page) = at.cursor
      BY <3>1, MenuAssumption DEF Highlighted, OnPage
    <3>3. lastGame' = at.cursor /\ lastPage' = at.page
      BY <1>7, <2>3 DEF GameMenuMoves
    <3>4. shown' = at.cursor
      <4>1. CASE Redraw(keys, Count)
        BY <1>7, <2>3, <3>2, <4>1 DEF GameMenuMoves
      <4>2. CASE ~Redraw(keys, Count)
        <5>1. at.cursor = lastGame
          BY <4>2, NoMove DEF Redraw, At
        <5>2. shown' = shown /\ ~force
          BY <1>7, <2>3, <4>2 DEF GameMenuMoves, Redraw
        <5> QED
          BY <1>0, <2>1, <2>3, <5>1, <5>2 DEF MenuInv
      <4> QED
        BY <4>1, <4>2
    <3> HIDE DEF at
    <3> QED
      BY <1>0, <2>1, <2>3, <3>1, <3>3, <3>4 DEF MenuInv, OnPage
  <2> QED
    BY <1>0, <2>2, <2>3
<1>8. ASSUME NEW keys, SystemInfo(keys) PROVE MenuInv'
  <2>1. UNCHANGED <<list, roms, lastGame, lastPage>>
    BY <1>8 DEF SystemInfo, sharedVars, cartVars
  <2>2. \/ ChangeTo("GAME_MENU") \/ ChangeTo("RGB_TESTER")
        \/ UNCHANGED <<screen, cursor, page, shown>> /\ (force' = FALSE \/ UNCHANGED force)
    BY <1>8 DEF SystemInfo, Stay
  <2>3. screen = "SYSTEM_INFO"
    BY <1>8 DEF SystemInfo, Drawscreen
  <2> QED
    BY <1>0, <1>3, <2>1, <2>2, <2>3 DEF MenuInv, Count, OnPage
<1>9. ASSUME NEW keys, RGBTester(keys) PROVE MenuInv'
  <2> DEFINE at == moveCursor(keys, cursor, page, 4)
  <2>1. UNCHANGED <<list, roms, lastGame, lastPage>> /\ screen = "RGB_TESTER"
    BY <1>9 DEF RGBTester, Drawscreen, sharedVars, cartVars
  <2>2. OnPage(at.cursor, at.page, 4)
    BY <1>0, <2>1, MoveKeepsPage DEF MenuInv
  <2>3. \/ ChangeTo("GAME_MENU") \/ ChangeTo("SYSTEM_INFO")
        \/ cursor' = at.cursor /\ page' = at.page /\ Stay /\ UNCHANGED shown
    BY <1>9 DEF RGBTester
  <2> HIDE DEF at
  <2> QED
    BY <1>0, <1>3, <2>1, <2>2, <2>3 DEF MenuInv, Stay, Count, OnPage
<1>10. ASSUME NEW keys, SettingsLeaves(keys) PROVE MenuInv'
  <2>1. Count > 0
    BY <1>0, <1>10 DEF SettingsLeaves, Drawscreen, MenuInv
  <2> QED
    BY <1>0, <1>3, <1>5, <1>10, <2>1 DEF SettingsLeaves
<1>11. ASSUME NEW keys, SettingsMoves(keys) PROVE MenuInv'
  <2> DEFINE at == moveCursor(keys, cursor, page, 3)
  <2>1. /\ UNCHANGED <<list, roms, lastGame, lastPage, screen>>
        /\ screen = "GAME_SETTINGS" /\ ~force'
    BY <1>5, <1>11 DEF SettingsMoves, Drawscreen, Stay
  <2>2. OnPage(at.cursor, at.page, 3)
    BY <1>0, <2>1, MoveKeepsPage DEF MenuInv
  <2>3. cursor' = at.cursor /\ page' = at.page /\ shown' \in {lastGame, shown}
    BY <1>11 DEF SettingsMoves
  <2> HIDE DEF at
  <2> QED
    BY <1>0, <2>1, <2>2, <2>3 DEF MenuInv, Count, OnPage
<1>12. ASSUME NEW keys, RtcSettingsLeaves(keys) PROVE MenuInv'
  BY <1>0, <1>3, <1>5, <1>12 DEF RtcSettingsLeaves
<1>13. ASSUME NEW keys, RtcSettingsMoves(keys) PROVE MenuInv'
  <2>1. /\ UNCHANGED <<list, roms, lastGame, lastPage, screen>>
        /\ screen = "RTC_SETTINGS" /\ ~force' /\ shown' \in {lastGame, shown}
    BY <1>5, <1>13 DEF RtcSettingsMoves, Drawscreen, Stay, cursorVars
  <2> QED
    BY <1>0, <2>1 DEF MenuInv, Count, OnPage
<1>14. CASE drawscreen
  BY <1>4, <1>6, <1>7, <1>8, <1>9, <1>10, <1>11, <1>12, <1>13, <1>14
     DEF drawscreen, GameMenuStarts, SettingsStarts, RtcSettingsStarts
<1>15. CASE WriteMode \/ WriteGame \/ WriteControl \/ Poll \/ SwitchOn
  BY <1>0, <1>1, <1>15
     DEF WriteMode, WriteGame, WriteControl, Poll, SwitchOn, MenuInv, sharedVars, cartVars
<1>16. ASSUME NEW s \in Stores, HostEdits(s) PROVE MenuInv'
  BY <1>1, <1>16 DEF HostEdits, sharedVars
<1>17. CASE SwitchOff
  BY <1>0, <1>2, <1>17 DEF SwitchOff, MenuInv, sharedVars, cartVars
<1>18. CASE Restart
  BY <1>0, <1>2, <1>18 DEF Restart, MenuInv
<1>19. CASE UNCHANGED vars
  BY <1>0, <1>1, <1>19 DEF vars, MenuInv, sharedVars, cartVars
<1> QED
  BY <1>14, <1>15, <1>16, <1>17, <1>18, <1>19 DEF Next

\* What StartInv reads, but for the variables of the screens.
Under == <<gb, call, choice, ramGame, ramMode, bus, selected, list, roms>>

\* No step separates the game on the way to main.c from the one that was shown.
LEMMA StartStep ==
  ASSUME IInv, [Next]_vars
  PROVE  StartInv'
<1>0. /\ MenuTypes /\ CallTypes /\ CartTypes /\ MenuInv /\ StartInv
      /\ Nothing \notin {"READ", "LED", "START", "BOOTLOADER"}
  BY TypeParts, MenuAssumption DEF IInv
<1>1. ASSUME UNCHANGED Under,
             screen' = "RTC_SETTINGS" =>
               /\ Listed(lastGame) \in RtcGames /\ lastGame' = lastGame
               /\ picked' \in {NoMode, mode'}
      PROVE  StartInv'
  BY <1>0, <1>1 DEF StartInv, CallChosen, Under, Count, Listed
<1>2. Quiet => UNCHANGED Under
  BY DEF Quiet, Under, callVars, sharedVars, cartVars
<1>3. ASSUME NEW m \in Modes, NEW seenMode \in Modes, Count > 0, gb = "menu",
             startGame(lastGame, m, seenMode),
             m = seenMode \/ (Listed(lastGame) \in RtcGames /\ seenMode = NoMode)
      PROVE  StartInv'
  <2>1. TypeOK'
    BY TypeStep
  <2>2. /\ gb' = "writeMode" /\ call'.game = lastGame /\ call'.mode = m
        /\ choice'.mode = seenMode
        /\ choice'.name = IF shown = Nothing THEN Nothing ELSE Listed(shown)
        /\ UNCHANGED <<screen, lastGame, mode, picked, list, roms, ramGame, ramMode, bus, selected>>
    BY <1>3 DEF startGame, menuVars, cursorVars, sharedVars, cartVars
  <2>3. call' \in Calls /\ choice' \in Choices
    <3>1. lastGame \in 0..254 /\ lastGame < Count
      BY <1>0, <1>3 DEF MenuTypes, MenuInv, OnPage
    <3>2. shown # Nothing => Listed(shown) \in Games
      BY <1>0, <3>1, Numbers DEF MenuInv
    <3> QED
      BY <1>3, <3>1, <3>2 DEF startGame, Calls, Choices
  <2>4. call' # Nothing /\ choice' # Nothing
    BY <2>3, MenuAssumption
  <2>5. CallChosen'
    BY <1>0, <1>3, <2>2, <2>4 DEF CallChosen, MenuInv, OnPage, Count, Listed
  <2>6. bus # "START" /\ selected = Nothing
    BY <1>0, <1>3 DEF StartInv
  <2> QED
    BY <1>0, <1>3, <2>2, <2>4, <2>5, <2>6 DEF StartInv, Listed
<1>4. ASSUME NEW keys, GameMenuLeaves(keys) PROVE StartInv'
  <2>1. screen' # "RTC_SETTINGS" \/ (picked' = NoMode /\ Listed(lastGame) \in RtcGames)
    BY <1>4 DEF GameMenuLeaves, ChangeTo
  <2> QED
    BY <1>1, <1>2, <1>4, <2>1 DEF GameMenuLeaves
<1>5. ASSUME NEW keys, GameMenuStarts(keys) PROVE StartInv'
  BY <1>3, <1>5 DEF GameMenuStarts, Drawscreen, Modes, NoMode
<1>6. ASSUME NEW keys, GameMenuMoves(keys) PROVE StartInv'
  BY <1>1, <1>2, <1>6 DEF GameMenuMoves, Drawscreen, Stay
<1>7. ASSUME NEW keys, SystemInfo(keys) PROVE StartInv'
  <2>1. /\ UNCHANGED <<call, choice, ramGame, ramMode, selected, list, roms>>
        /\ gb = "menu" /\ gb' \in {"menu", "stuck"}
        /\ screen' # "RTC_SETTINGS" /\ bus' \in {bus, "BOOTLOADER"}
    BY <1>7 DEF SystemInfo, Drawscreen, ChangeTo, Stay, callVars, sharedVars, cartVars
  <2> QED
    BY <1>0, <2>1 DEF StartInv, CallChosen, Count, Listed
<1>8. ASSUME NEW keys, RGBTester(keys) PROVE StartInv'
  <2>1. /\ UNCHANGED <<gb, call, choice, ramGame, ramMode, selected, list, roms>>
        /\ screen' # "RTC_SETTINGS" /\ bus' \in {bus, "LED"}
    BY <1>8 DEF RGBTester, Drawscreen, ChangeTo, Stay, callVars, sharedVars, cartVars
  <2> QED
    BY <1>0, <2>1 DEF StartInv, CallChosen, Count, Listed
<1>9. Drawscreen("GAME_SETTINGS") \/ Drawscreen("RTC_SETTINGS") => Count > 0 /\ gb = "menu"
  BY <1>0, Numbers DEF MenuInv, Drawscreen
<1>10. ASSUME NEW keys, SettingsLeaves(keys) PROVE StartInv'
  <2>1. screen' # "RTC_SETTINGS" \/ (picked' = mode' /\ Listed(lastGame) \in RtcGames)
    BY <1>10 DEF SettingsLeaves, ChangeTo
  <2> QED
    BY <1>1, <1>2, <1>10, <2>1 DEF SettingsLeaves
<1>11. ASSUME NEW keys, SettingsStarts(keys) PROVE StartInv'
  <2> DEFINE row == moveCursor(keys, cursor, page, 3).cursor
  <2>1. row \in Modes
    BY <1>0, <1>11, MoveKeepsPage, Bytes DEF SettingsStarts, Drawscreen, MenuInv
  <2>2. startGame(lastGame, row, row)
    BY <1>11 DEF SettingsStarts
  <2>3. Count > 0 /\ gb = "menu"
    BY <1>9, <1>11 DEF SettingsStarts
  <2> HIDE DEF row
  <2> QED
    BY <1>3, <2>1, <2>2, <2>3
<1>12. ASSUME NEW keys, SettingsMoves(keys) PROVE StartInv'
  BY <1>1, <1>2, <1>12 DEF SettingsMoves, Drawscreen, Stay
<1>13. ASSUME NEW keys, RtcSettingsLeaves(keys) PROVE StartInv'
  BY <1>1, <1>2, <1>13 DEF RtcSettingsLeaves, ChangeTo
<1>14. ASSUME NEW keys, RtcSettingsStarts(keys) PROVE StartInv'
  <2>1. startGame(lastGame, mode, picked) /\ screen = "RTC_SETTINGS"
    BY <1>14 DEF RtcSettingsStarts, Drawscreen
  <2>2. mode = picked \/ (Listed(lastGame) \in RtcGames /\ picked = NoMode)
    BY <1>0, <2>1 DEF StartInv
  <2>3. Count > 0 /\ gb = "menu"
    BY <1>9, <1>14 DEF RtcSettingsStarts
  <2>4. mode \in Modes /\ picked \in Modes
    BY <1>0 DEF MenuTypes
  <2> QED
    BY <1>3, <2>1, <2>2, <2>3, <2>4
<1>15. ASSUME NEW keys, RtcSettingsMoves(keys) PROVE StartInv'
  BY <1>0, <1>1, <1>2, <1>15 DEF RtcSettingsMoves, Drawscreen, Stay, StartInv, cursorVars
<1>16. CASE drawscreen
  BY <1>4, <1>5, <1>6, <1>7, <1>8, <1>10, <1>11, <1>12, <1>13, <1>14, <1>15, <1>16
     DEF drawscreen
<1>17. CASE WriteMode \/ WriteGame \/ WriteControl
  <2>1. selected = Nothing /\ screen' = screen /\ picked' = picked /\ mode' = mode
    BY <1>0, <1>17
       DEF WriteMode, WriteGame, WriteControl, StartInv, menuVars, cartVars
  <2>2. UNCHANGED <<call, choice, list, lastGame, selected, roms>>
    BY <1>17
       DEF WriteMode, WriteGame, WriteControl, menuVars, cursorVars, callVars, sharedVars, cartVars
  <2>3. CallChosen'
    BY <1>0, <2>2 DEF StartInv, CallChosen, Count, Listed
  <2>4. CASE WriteMode
    BY <1>0, <2>1, <2>2, <2>3, <2>4 DEF WriteMode, StartInv, Listed
  <2>5. CASE WriteGame
    BY <1>0, <2>1, <2>2, <2>3, <2>5 DEF WriteGame, StartInv, Listed
  <2>6. CASE WriteControl
    BY <1>0, <2>1, <2>2, <2>3, <2>6 DEF WriteControl, StartInv, Listed, sharedVars
  <2> QED
    BY <1>17, <2>4, <2>5, <2>6
<1>18. CASE Poll
  <2>1. UNCHANGED <<gb, screen, picked, mode, lastGame, call, choice, list, ramGame, ramMode, roms>>
    BY <1>18 DEF Poll, menuVars, cursorVars, callVars, sharedVars
  <2>2. bus' = Nothing
    BY <1>18 DEF Poll
  <2>3. CASE selected' = Nothing
    BY <1>0, <2>1, <2>2, <2>3 DEF StartInv, CallChosen, Count, Listed
  <2>4. CASE selected' # Nothing
    <3>1. bus = "START" /\ selected' = [game |-> ramGame, mode |-> ramMode]
      BY <1>18, <2>4 DEF Poll
    <3>2. call \in Calls /\ gb = "stuck" /\ ramGame = call.game /\ ramMode = call.mode
      BY <1>0, <3>1 DEF StartInv, CallTypes
    <3>3. selected' = call
      BY <3>1, <3>2 DEF Calls
    <3> QED
      BY <1>0, <2>1, <2>2, <3>1, <3>2, <3>3 DEF StartInv, CallChosen, Count, Listed
  <2> QED
    BY <2>3, <2>4
<1>19. ASSUME NEW s \in Stores, HostEdits(s) PROVE StartInv'
  <2>1. UNCHANGED <<gb, screen, picked, mode, lastGame, call, choice, list, ramGame, ramMode,
                    bus, selected>>
    BY <1>19 DEF HostEdits, menuVars, cursorVars, callVars, sharedVars
  <2>2. RestartAfterEdit => gb = "off"
    BY <1>19 DEF HostEdits
  <2> QED
    BY <1>0, <2>1, <2>2 DEF StartInv, CallChosen, Count, Listed
<1>20. CASE SwitchOn
  <2>1. UNCHANGED <<screen, picked, mode, lastGame, call, choice, list, ramGame, ramMode,
                    selected, roms>>
    BY <1>20 DEF SwitchOn, menuVars, cursorVars, callVars, sharedVars, cartVars
  <2>2. gb = "off" /\ gb' = "menu" /\ bus' = "READ" /\ (RestartAfterEdit => list = roms)
    BY <1>20 DEF SwitchOn
  <2> QED
    BY <1>0, <2>1, <2>2 DEF StartInv, CallChosen, Count, Listed
<1>21. CASE SwitchOff \/ Restart
  <2>1. /\ screen' = "GAME_MENU" /\ call' = Nothing /\ gb' = "off"
        /\ bus' = Nothing /\ selected' = Nothing
    BY <1>21 DEF SwitchOff, Restart, MenuStarts, cartVars
  <2> QED
    BY <1>0, <2>1 DEF StartInv, CallChosen
<1>22. CASE UNCHANGED vars
  <2>1. UNCHANGED Under /\ UNCHANGED <<screen, picked, mode, lastGame>>
    BY <1>22 DEF vars, Under, menuVars, cursorVars, callVars, sharedVars, cartVars
  <2> QED
    BY <1>0, <1>1, <2>1 DEF StartInv
<1> QED
  BY <1>16, <1>17, <1>18, <1>19, <1>20, <1>21, <1>22 DEF Next

----------------------------------------------------------------------------
\* The theorems.

LEMMA Invariance == Spec => []IInv
<1>1. IInv /\ [Next]_vars => IInv'
  BY TypeStep, MenuStep, StartStep DEF IInv
<1> QED
  BY InitInv, <1>1, PTL DEF Spec

\* Every variable keeps its type whatever is pressed: no cursor wraps below zero and
\* the list is never read beyond its end.
THEOREM MenuTypesKept == Spec => []TypeOK
<1>1. IInv => TypeOK
  BY DEF IInv
<1> QED
  BY Invariance, <1>1, PTL

\* moveCursor and renderGamelist agree about the row of the game that A would start,
\* for every number of games and of rows.
THEOREM ChoiceStaysShown == Spec => []ChoiceIsShown
<1>1. IInv => ChoiceIsShown
  BY DEF IInv, MenuInv, ChoiceIsShown, OnPage
<1> QED
  BY Invariance, <1>1, PTL

\* If the cartridge restarts between a change of the store and the use of the menu,
\* the number that main.c reads names the game that was on the screen.
THEOREM ShownGameIsStarted ==
  ASSUME RestartAfterEdit
  PROVE  Spec => []ShownGameStarts
<1>1. IInv => ShownGameStarts
  <2> SUFFICES ASSUME IInv, selected # Nothing
               PROVE  /\ selected.game < Len(roms)
                      /\ choice.name \in {Nothing, roms[selected.game + 1]}
    BY DEF ShownGameStarts
  <2>1. gb = "stuck" /\ call # Nothing /\ selected = call /\ list = roms /\ CallChosen
    BY DEF IInv, StartInv
  <2> QED
    BY <2>1 DEF CallChosen, Count, Listed
<1> QED
  BY Invariance, <1>1, PTL

\* The mode that main.c reads is the one picked for that game, if the game has no
\* clock or its settings were opened.
THEOREM ShownModeIsStarted == Spec => []ShownModeStarts
<1>1. IInv => ShownModeStarts
  BY DEF IInv, StartInv, CallChosen, ShownModeStarts
<1> QED
  BY Invariance, <1>1, PTL

=============================================================================
