------------------------------ MODULE BootMenu -------------------------------
(***************************************************************************)
(* The boot menu (gb-bootloader/bootloader.c), which runs on the Game Boy, *)
(* and the loop in main.c that waits for its choice.  The two share the    *)
(* cartridge RAM: main.c puts a list of the ROMs there before the Game Boy *)
(* starts, the menu leaves the number of a game, and a write that main.c   *)
(* sees on the bus says that it is done.  A USB host may change the store  *)
(* until the Game Boy first uses the bus.                                  *)
(*                                                                         *)
(* One action is one pass of drawscreen, for any combination of keys.      *)
(* buttonPressed tests the keys one after the other, so two of them may    *)
(* count in one pass.  The date on the clock screen is left out.           *)
(***************************************************************************)
EXTENDS Integers, Sequences

CONSTANTS
  Games,        \* names of ROMs
  RtcGames,     \* those whose header names a real time clock
  Stores,       \* the directories the store may have (bound)
  MaxRoms,      \* MAX_ALLOWED_ROMS
  Rows,         \* MAX_GAMES_RENDER_NUM
  KeySets,      \* the combinations of keys that may be held
  RestartAfterEdit, \* is the cartridge restarted between a change of the
                    \* store and the use of the menu?
  Nothing       \* nothing shown, nothing on the bus, nothing selected

NoMode == 255
NoGame == 255
Modes == {0, 1, 2, NoMode}
Calls == [game : 0..254, mode : Modes]                     \* of startGame
Choices == [name : Games \cup {Nothing}, mode : Modes]     \* of the player

Keys == {"UP", "DOWN", "LEFT", "RIGHT", "A", "B", "START", "SELECT"}

ASSUME MenuAssumption ==
  /\ RtcGames \subseteq Games
  /\ MaxRoms \in Nat /\ MaxRoms < 255
  /\ \A s \in Stores : s \in Seq(Games) /\ Len(s) <= MaxRoms
  /\ Rows \in Nat /\ Rows >= 4
  /\ KeySets \subseteq SUBSET Keys
  /\ RestartAfterEdit \in BOOLEAN
  /\ Nothing \notin Games \cup Nat \cup Calls \cup Choices
  /\ Nothing \notin {"READ", "LED", "START", "BOOTLOADER"}

VARIABLES
  \* the Game Boy
  gb,        \* "off", "menu", or the write of startGame that comes next
  screen,    \* curScreen
  cursor,    \* gCursor
  page,      \* gPageCursor
  lastGame,  \* gLastSelectedGame
  lastPage,  \* gLastSelectedGamePage
  mode,      \* gSelectedMode
  force,     \* gForceDrawScreen
  shown,     \* the game the screen shows as the choice
  call,      \* the arguments of startGame
  \* shared RAM
  list,      \* romInfo and number_of_roms
  ramGame,   \* 0xB001
  ramMode,   \* 0xB000
  \* the RP2040
  bus,       \* what the FIFO of SMC_GB_MAIN holds, as far as main.c cares
  inGameboy, \* cartridgeIsInGameboy
  selected,  \* *selectedGame and *selectedGameMode
  roms,      \* the ROMs in the store, in the order of the directory
  \* what the player did, for the properties
  picked,    \* the row picked in the settings of the game on the clock screen
  choice     \* the name and the mode on the screen when a game was started

cursorVars == <<cursor, page, lastGame, lastPage>>
menuVars == <<screen, cursorVars, mode, force, shown, picked>>
callVars == <<call, choice>>
sharedVars == <<list, ramGame, ramMode>>
cartVars == <<inGameboy, selected, roms>>
vars == <<gb, menuVars, callVars, sharedVars, bus, cartVars>>

Screens == {"GAME_MENU", "SYSTEM_INFO", "RGB_TESTER", "GAME_SETTINGS", "RTC_SETTINGS"}
Count == Len(list)      \* s_GamesCount; games are numbered from zero
Listed(game) == list[game + 1]

\* What every start of the Game Boy finds in its RAM; nothing of an earlier run
\* is left.
MenuStarts ==
  /\ screen' = "GAME_MENU"
  /\ cursor' = 0 /\ page' = 0 /\ lastGame' = 0 /\ lastPage' = 0
  /\ mode' = NoMode /\ picked' = NoMode
  /\ force' = TRUE
  /\ shown' = Nothing

Init ==
  /\ gb = "off"
  /\ screen = "GAME_MENU"
  /\ cursor = 0 /\ page = 0 /\ lastGame = 0 /\ lastPage = 0
  /\ mode = NoMode /\ picked = NoMode
  /\ force = TRUE
  /\ shown = Nothing
  /\ call = Nothing /\ choice = Nothing
  /\ roms \in Stores
  /\ list = roms
  /\ ramGame = NoGame /\ ramMode = 0
  /\ bus = Nothing
  /\ inGameboy = FALSE
  /\ selected = Nothing

----------------------------------------------------------------------------
\* moveCursor.

At(c, p) == [cursor |-> c, page |-> p]

\* Mutant of Up: the cursor is not stopped at the top.
Up_Unstopped(c, p) ==
  At((c - 1) % 256, IF c - 1 < p THEN (p - 1) % 256 ELSE p)

Up(c, p) ==
  IF c = 0 THEN At(c, p) ELSE At(c - 1, IF c - 1 < p THEN p - 1 ELSE p)

\* Mutant of Down: the page follows one row late.
Down_PageLate(c, p, limit) ==
  IF c >= limit - 1 THEN At(c, p)
  ELSE At(c + 1, IF c + 1 > p + Rows THEN p + 1 ELSE p)

Down(c, p, limit) ==
  IF c >= limit - 1 THEN At(c, p)
  ELSE At(c + 1, IF c + 1 > p + Rows - 1 THEN p + 1 ELSE p)

Left(c, p) ==
  IF c = 0 THEN At(c, p)
  ELSE At(IF c >= Rows THEN c - Rows ELSE 0, IF p >= Rows THEN p - Rows ELSE 0)

Right(c, p, limit) ==
  IF c >= limit - 1 THEN At(c, p)
  ELSE At(IF c + Rows < limit THEN c + Rows ELSE limit - 1,
          IF p + 2 * Rows < limit THEN p + Rows ELSE limit - Rows)

\* The direction that counts; left and right only turn pages.
Direction(keys, limit) ==
  IF "UP" \in keys THEN "UP"
  ELSE IF "DOWN" \in keys THEN "DOWN"
  ELSE IF "LEFT" \in keys /\ limit > Rows THEN "LEFT"
  ELSE IF "RIGHT" \in keys /\ limit > Rows THEN "RIGHT"
  ELSE "none"

moveCursor(keys, c, p, limit) ==
  CASE Direction(keys, limit) = "UP"    -> Up(c, p)
    [] Direction(keys, limit) = "DOWN"  -> Down(c, p, limit)
    [] Direction(keys, limit) = "LEFT"  -> Left(c, p)
    [] Direction(keys, limit) = "RIGHT" -> Right(c, p, limit)
    [] Direction(keys, limit) = "none"  -> At(c, p)

\* gForceDrawScreen as moveCursor leaves it.
Redraw(keys, limit) == force \/ Direction(keys, limit) # "none"

----------------------------------------------------------------------------
\* Leaving a screen, staying on it, starting a game.

\* Another screen: drawscreen clears it.
ChangeTo(s) ==
  /\ screen' = s
  /\ cursor' = 0 /\ page' = 0
  /\ force' = TRUE
  /\ shown' = Nothing

Stay == force' = FALSE /\ UNCHANGED screen

Drawscreen(s) == gb = "menu" /\ screen = s

\* startGame does not return: its three writes follow.
startGame(game, m, seenMode) ==
  /\ gb' = "writeMode"
  /\ call' = [game |-> game, mode |-> m]
  /\ choice' = [name |-> IF shown = Nothing THEN Nothing ELSE Listed(shown),
                mode |-> seenMode]
  /\ UNCHANGED <<menuVars, sharedVars, bus, cartVars>>

Quiet == UNCHANGED <<gb, callVars, sharedVars, bus, cartVars>>

----------------------------------------------------------------------------
\* The screens.

\* The game that a list beginning with p shows in the row highlighted for c.
Highlighted(c, p) == IF c \in p..p + Rows - 1 /\ c < Count THEN c ELSE Nothing

GameMenuLeaves(keys) ==
  /\ Drawscreen("GAME_MENU")
  /\ \/ "SELECT" \in keys /\ ChangeTo("SYSTEM_INFO")
     \/ /\ "SELECT" \notin keys /\ "START" \in keys
        /\ Count > 0
        /\ ChangeTo("GAME_SETTINGS")
     \/ /\ keys \cap {"SELECT", "START"} = {} /\ "A" \in keys
        /\ Count > 0 /\ Listed(lastGame) \in RtcGames
        /\ ChangeTo("RTC_SETTINGS")
  /\ picked' = NoMode
  /\ UNCHANGED <<lastGame, lastPage, mode>>
  /\ Quiet

\* Mutant of GameMenuStarts: the mode chosen for another game is used.
GameMenuStarts_OldMode(keys) ==
  /\ Drawscreen("GAME_MENU")
  /\ keys \cap {"SELECT", "START"} = {} /\ "A" \in keys
  /\ Count > 0 /\ Listed(lastGame) \notin RtcGames
  /\ startGame(lastGame, mode, NoMode)

\* The cursor has been restored from the last visit, and nothing reads it any more.
GameMenuStarts(keys) ==
  /\ Drawscreen("GAME_MENU")
  /\ keys \cap {"SELECT", "START"} = {} /\ "A" \in keys
  /\ Count > 0 /\ Listed(lastGame) \notin RtcGames
  /\ startGame(lastGame, NoMode, NoMode)

\* The cursor is restored from the last visit, moved, and kept for the next.
GameMenuMoves(keys) ==
  /\ Drawscreen("GAME_MENU")
  /\ "SELECT" \notin keys
  /\ \/ /\ Count = 0
        /\ lastGame' = cursor /\ lastPage' = page
        /\ UNCHANGED <<cursor, page, shown>>
     \/ /\ Count > 0 /\ keys \cap {"START", "A"} = {}
        /\ LET at == moveCursor(keys, lastGame, lastPage, Count)
           IN /\ cursor' = at.cursor /\ lastGame' = at.cursor
              /\ page' = at.page /\ lastPage' = at.page
              /\ shown' = IF Redraw(keys, Count) THEN Highlighted(at.cursor, at.page)
                          ELSE shown
  /\ Stay
  /\ UNCHANGED <<mode, picked>>
  /\ Quiet

SystemInfo(keys) ==
  /\ Drawscreen("SYSTEM_INFO")
  /\ \/ "SELECT" \in keys /\ ChangeTo("GAME_MENU") /\ UNCHANGED <<gb, bus>>
     \/ /\ "SELECT" \notin keys /\ "START" \in keys
        /\ bus = Nothing
        /\ gb' = "stuck"       \* it waits for the RP2040 to go away
        /\ bus' = "BOOTLOADER"
        /\ UNCHANGED <<screen, cursor, page, force, shown>>
     \/ /\ keys \cap {"SELECT", "START"} = {} /\ "RIGHT" \in keys
        /\ ChangeTo("RGB_TESTER")
        /\ UNCHANGED <<gb, bus>>
     \/ /\ keys \cap {"SELECT", "START", "RIGHT"} = {}
        /\ Stay
        /\ UNCHANGED <<cursor, page, shown, gb, bus>>
  /\ UNCHANGED <<lastGame, lastPage, mode, picked, callVars, sharedVars, cartVars>>

RGBTester(keys) ==
  LET at == moveCursor(keys, cursor, page, 4)
      leaves == "A" \notin keys /\ keys \cap {"SELECT", "LEFT"} # {}
  IN /\ Drawscreen("RGB_TESTER")
     /\ \/ /\ "A" \in keys \/ leaves
           /\ bus = Nothing
           /\ bus' = "LED"
        \/ /\ keys \cap {"A", "SELECT", "LEFT"} = {}
           /\ UNCHANGED bus
     /\ IF leaves
        THEN ChangeTo(IF "SELECT" \in keys THEN "GAME_MENU" ELSE "SYSTEM_INFO")
        ELSE /\ cursor' = at.cursor /\ page' = at.page
             /\ Stay
             /\ UNCHANGED shown
     /\ UNCHANGED <<lastGame, lastPage, mode, picked>>
     /\ UNCHANGED <<gb, callVars, sharedVars, cartVars>>

\* The cursor moves first, so the keys that follow see the new row.
SettingsLeaves(keys) ==
  /\ Drawscreen("GAME_SETTINGS")
  /\ \/ "B" \in keys /\ ChangeTo("GAME_MENU") /\ UNCHANGED <<mode, picked>>
     \/ /\ "B" \notin keys /\ "START" \in keys
        /\ Listed(lastGame) \in RtcGames
        /\ mode' = moveCursor(keys, cursor, page, 3).cursor
        /\ picked' = mode'
        /\ ChangeTo("RTC_SETTINGS")
  /\ UNCHANGED <<lastGame, lastPage>>
  /\ Quiet

\* moveCursor has changed the cursor, which nothing reads any more.
SettingsStarts(keys) ==
  LET row == moveCursor(keys, cursor, page, 3).cursor
  IN /\ Drawscreen("GAME_SETTINGS")
     /\ "B" \notin keys /\ "START" \in keys
     /\ Listed(lastGame) \notin RtcGames
     /\ startGame(lastGame, row, row)

SettingsMoves(keys) ==
  LET at == moveCursor(keys, cursor, page, 3)
  IN /\ Drawscreen("GAME_SETTINGS")
     /\ keys \cap {"B", "START"} = {}
     /\ cursor' = at.cursor /\ page' = at.page
     /\ IF Redraw(keys, 3) THEN mode' = NoMode /\ shown' = lastGame
        ELSE UNCHANGED <<mode, shown>>
     /\ Stay
     /\ UNCHANGED <<lastGame, lastPage, picked>>
     /\ Quiet

RtcSettingsLeaves(keys) ==
  /\ Drawscreen("RTC_SETTINGS")
  /\ "B" \in keys
  /\ ChangeTo("GAME_MENU")
  /\ UNCHANGED <<lastGame, lastPage, mode, picked>>
  /\ Quiet

RtcSettingsStarts(keys) ==
  /\ Drawscreen("RTC_SETTINGS")
  /\ "B" \notin keys /\ keys \cap {"START", "A"} # {}
  /\ startGame(lastGame, mode, picked)

\* The arrows change the date and its field, and draw the screen again.
RtcSettingsMoves(keys) ==
  /\ Drawscreen("RTC_SETTINGS")
  /\ keys \cap {"B", "START", "A"} = {}
  /\ shown' = IF force \/ keys \cap {"UP", "DOWN", "LEFT", "RIGHT"} # {} THEN lastGame
              ELSE shown
  /\ Stay
  /\ UNCHANGED <<cursorVars, mode, picked>>
  /\ Quiet

drawscreen ==
  \E keys \in KeySets :
    \/ GameMenuLeaves(keys) \/ GameMenuStarts(keys) \/ GameMenuMoves(keys)
    \/ SystemInfo(keys) \/ RGBTester(keys)
    \/ SettingsLeaves(keys) \/ SettingsStarts(keys) \/ SettingsMoves(keys)
    \/ RtcSettingsLeaves(keys) \/ RtcSettingsStarts(keys) \/ RtcSettingsMoves(keys)

----------------------------------------------------------------------------
\* startGame's three writes to shared RAM.  The bus reports every one of them;
\* main.c asks only for the third.

WriteMode ==
  /\ gb = "writeMode"
  /\ ramMode' = call.mode
  /\ gb' = "writeGame"
  /\ UNCHANGED <<menuVars, callVars, list, ramGame, bus, cartVars>>

\* Mutant of WriteGame: the magic number is written first.
WriteGame_ControlFirst ==
  /\ gb \in {"writeGame", "writeControl"}
  /\ bus = Nothing
  /\ IF gb = "writeGame" THEN bus' = "START" /\ gb' = "writeControl" /\ UNCHANGED ramGame
     ELSE ramGame' = call.game /\ gb' = "stuck" /\ UNCHANGED bus
  /\ UNCHANGED <<menuVars, callVars, list, ramMode, cartVars>>

WriteGame ==
  /\ gb = "writeGame"
  /\ ramGame' = call.game
  /\ gb' = "writeControl"
  /\ UNCHANGED <<menuVars, callVars, list, ramMode, bus, cartVars>>

\* Then the Game Boy waits to be reset.
WriteControl ==
  /\ gb = "writeControl"
  /\ bus = Nothing
  /\ bus' = "START"
  /\ gb' = "stuck"
  /\ UNCHANGED <<menuVars, callVars, sharedVars, cartVars>>

----------------------------------------------------------------------------
\* runGbBootloader, the host, and the switches.

\* Mutant of Poll: the number is not read from shared RAM.
Poll_FirstGame ==
  /\ bus # Nothing /\ selected = Nothing
  /\ bus' = Nothing
  /\ inGameboy' = TRUE
  /\ selected' = IF bus = "START" THEN [game |-> 0, mode |-> ramMode] ELSE Nothing
  /\ UNCHANGED <<gb, menuVars, callVars, sharedVars, roms>>

\* One pass of the loop that finds the FIFO filled.
Poll ==
  /\ bus \notin {Nothing, "BOOTLOADER"} /\ selected = Nothing
  /\ bus' = Nothing
  /\ inGameboy' = TRUE
  /\ selected' = IF bus = "START" /\ ramGame # NoGame
                 THEN [game |-> ramGame, mode |-> ramMode] ELSE Nothing
  /\ UNCHANGED <<gb, menuVars, callVars, sharedVars, roms>>

\* USB commands run as long as the Game Boy has not used the bus: ROMs are
\* uploaded and deleted, which changes the numbers of the others.
HostEdits(s) ==
  /\ ~inGameboy /\ selected = Nothing
  /\ RestartAfterEdit => gb = "off"
  /\ roms' = s
  /\ UNCHANGED <<gb, menuVars, callVars, sharedVars, bus, inGameboy, selected>>

\* The Game Boy is switched on, and its first read reaches the FIFO.
SwitchOn ==
  /\ gb = "off" /\ bus = Nothing
  /\ RestartAfterEdit => list = roms
  /\ gb' = "menu"
  /\ bus' = "READ"
  /\ UNCHANGED <<menuVars, callVars, sharedVars, cartVars>>

\* It is switched off, which takes the RP2040 longer to notice than to poll;
\* the cartridge may live on USB power.
SwitchOff ==
  /\ gb # "off" /\ bus = Nothing /\ selected = Nothing
  /\ gb' = "off"
  /\ call' = Nothing /\ choice' = Nothing
  /\ MenuStarts
  /\ UNCHANGED <<sharedVars, bus, cartVars>>

\* The cartridge is reset or loses power; runGbBootloader prepares a new list.
Restart ==
  /\ gb' = "off"
  /\ list' = roms
  /\ ramGame' = NoGame /\ ramMode' = 0
  /\ call' = Nothing /\ choice' = Nothing
  /\ bus' = Nothing
  /\ inGameboy' = FALSE
  /\ selected' = Nothing
  /\ MenuStarts
  /\ UNCHANGED roms

Next ==
  \/ drawscreen
  \/ WriteMode \/ WriteGame \/ WriteControl
  \/ Poll
  \/ \E s \in Stores : HostEdits(s)
  \/ SwitchOn \/ SwitchOff \/ Restart

Spec == Init /\ [][Next]_vars

\* The loop in main.c polls for ever, and the menu's writes are straight-line
\* code; the player and the host may do nothing.
LiveSpec ==
  /\ Spec
  /\ WF_vars(Poll)
  /\ WF_vars(WriteMode) /\ WF_vars(WriteGame) /\ WF_vars(WriteControl)

----------------------------------------------------------------------------
\* Properties.

\* Every variable keeps its type; in particular the list is never indexed
\* beyond its end, and cursor and page fit their eight bits.
TypeOK ==
  /\ gb \in {"off", "menu", "writeMode", "writeGame", "writeControl", "stuck"}
  /\ screen \in Screens
  /\ {cursor, page, lastGame, lastPage} \subseteq 0..254
  /\ mode \in Modes /\ picked \in Modes
  /\ force \in BOOLEAN
  /\ shown \in 0..254 \cup {Nothing}
  /\ call \in Calls \cup {Nothing}
  /\ choice \in Choices \cup {Nothing}
  /\ list \in Seq(Games)
  /\ ramGame \in 0..255 /\ ramMode \in Modes
  /\ bus \in {Nothing, "READ", "LED", "START", "BOOTLOADER"}
  /\ inGameboy \in BOOLEAN
  /\ selected \in Calls \cup {Nothing}
  /\ roms \in Seq(Games)

\* moveCursor and renderGamelist agree: whatever keys were pressed, the game
\* that would be started is on the page and in the highlighted row, and the
\* last page is full.
ChoiceIsShown ==
  screen = "GAME_MENU" /\ Count > 0 =>
    /\ lastGame < Count
    /\ lastPage = 0 \/ lastPage + Rows <= Count
    /\ ~force => shown = lastGame

\* The list in shared RAM says what main.c will find in the store under each
\* number (main.c: "initialize RAM with information about roms"): the game that is
\* started is the one the menu showed, if the screen had been drawn.
ShownGameStarts ==
  selected # Nothing =>
    /\ selected.game < Len(roms)
    /\ choice.name \in {Nothing, roms[selected.game + 1]}

\* The save hook mode a game is started with is the row that was highlighted, or
\* none if its settings were not opened.  Only a game with a clock may also
\* start with a mode that was chosen for another one: gSelectedMode is
\* cleared on the settings screen alone.
ShownModeStarts ==
  selected # Nothing /\ selected.game < Count =>
    \/ selected.mode = choice.mode
    \/ Listed(selected.game) \in RtcGames /\ choice.mode = NoMode

\* A game that was started in the menu reaches main.c.
StartArrives ==
  gb \in {"writeMode", "writeGame", "writeControl"} ~> selected # Nothing \/ gb = "off"

=============================================================================
