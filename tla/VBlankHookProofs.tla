-------------------------- MODULE VBlankHookProofs --------------------------
(***************************************************************************)
(* Proofs about VBlankHook: for every length of the hook's and the game's  *)
(* first instructions and every lag they allow, the Game Boy fetches from  *)
(* the bank it means to, waits in the hook while the save is stored, and   *)
(* sees what VBlankService promises.                                       *)
(*                                                                         *)
(* The invariant relates where the Game Boy is to the state of the RP2040  *)
(* and the reads in between: either the read that the RP2040 waits for is  *)
(* still to come, or it is queued (Queued) with as many reads behind it as *)
(* the Game Boy has made since. A Game Boy about to need the next bank has *)
(* made so many that the FIFO could not hold them: the read was handled.   *)
(***************************************************************************)
EXTENDS VBlankHook, SequenceTheorems, TLAPS

VR == {VectorRest}
HC == {HookCode}
Waits == {HookCode, DoneByte}
NotVector == Addresses \ {Vector}
Away == HookOnly \cup {Elsewhere}
OwnReads == IF pc = "own" THEN VR ELSE {VectorRest, Elsewhere}

(* The read that the loop waits for is in the FIFO f, behind reads that it *)
(* drops and before n others.                                              *)
Queued(f, before, word, after, n) ==
  /\ n \in Nat /\ n < Len(f)
  /\ f[Len(f) - n] = word
  /\ \A i \in 1 .. Len(f) : i < Len(f) - n => f[i] \in before
  /\ \A i \in 1 .. Len(f) : i > Len(f) - n => f[i] \in after

(* The game reads elsewhere again, and the loop is going to see it. *)
LeftVector(f) == f # <<>> /\ f[Len(f)] \notin InVector

(* The hook from its second fetch at 0x50 on, and what was read since. *)
InHook == {"joypad", "buttons", "trigger", "leave", "vector"}
ReadsSince(p) ==
  IF p = "joypad" THEN 0 ELSE IF p \in {"buttons", "leave"} THEN 1 ELSE 2

WhenIdle ==
  \/ pc \in {"game", "ownAway"} /\ fifo \in Seq(NotVector)
  \/ pc = "vector" /\ fifo = <<>>
  \/ pc \in {"entry", "handler"} /\ Queued(fifo, {}, Vector, VR, EntryReads - left)

WhenInterrupted ==
  \/ pc \in {"entry", "handler"} /\ fifo \in Seq(VR)
  \/ /\ pc \in InHook
     /\ \E n \in Nat : n >= ReadsSince(pc) /\ Queued(fifo, VR, Handler, HC, n)

InOwnHandler ==
  /\ pc \in {"own", "ownAway"}
  /\ Queued(fifo, Waits, Vector, OwnReads, HandlerReads - left)
  /\ pc = "ownAway" => LeftVector(fifo)

WhenProcessing ==
  \/ pc \in InHook /\ fifo \in Seq(HC)
  \/ /\ pc \in {"screenOff", "waitForSave"}
     /\ \E n \in Nat : Queued(fifo, HC, Trigger, Waits, n)
  \/ InOwnHandler

WhenSaveTriggered ==
  \/ pc \in {"screenOff", "waitForSave"} /\ fifo \in Seq(Waits)
  \/ storing = "no" /\ pc \in {"waitForRelease", "leave", "vector"}
     /\ fifo \in Seq(Waits)
  \/ storing = "no" /\ InOwnHandler

WhenReturned ==
  \/ pc = "own" /\ fifo \in Seq(VR)
  \/ pc \in {"ownAway", "game"} /\ fifo \in Seq(NotVector) /\ LeftVector(fifo)

(* Where the Game Boy is, for each state of the RP2040. *)
Place ==
  /\ vblankHookState = "idle" => WhenIdle
  /\ vblankHookState = "interrupt" => WhenInterrupted
  /\ vblankHookState = "processing" => WhenProcessing
  /\ vblankHookState = "saveTriggered" => WhenSaveTriggered
  /\ vblankHookState = "returned" => WhenReturned

BankOf(state) ==
  CASE state = "idle" -> "override"
    [] state = "interrupt" -> "hook"
    [] state \in {"processing", "saveTriggered"} -> "hook2"
    [] state = "returned" -> "memory"

(* The bank, the done byte and the steps of the store. *)
Mapped ==
  /\ romLowBase = BankOf(vblankHookState)
  /\ doneFlag => vblankHookState \in {"saveTriggered", "returned"}
  /\ storing # "no" => vblankHookState = "saveTriggered" /\ ~doneFlag
  /\ vblankHookState = "saveTriggered" /\ storing = "no" => doneFlag

Counts ==
  /\ pc = "entry" => left \in 1 .. EntryReads
  /\ pc \in {"own", "ownAway"} => left \in 0 .. HandlerReads
  /\ pc \notin {"entry", "own", "ownAway"} => left = 0

Switched == smEnabled = (storing \in {"no", "flag"})

Unhooked ==
  /\ romLowBase = "memory" /\ vblankHookState = "idle" /\ storing = "no"
  /\ doneFlag = FALSE
  /\ pc \in {"game", "vector", "own", "ownAway"}

HookInv ==
  /\ TypeOK /\ Counts /\ Switched
  /\ mode = 0 => Unhooked
  /\ mode # 0 => Mapped /\ Place

-----------------------------------------------------------------------------
(* Sequences.                                                              *)

LEMMA Widen ==
  ASSUME NEW S, NEW T, S \subseteq T, NEW f \in Seq(S)
  PROVE  f \in Seq(T)
  OBVIOUS

LEMMA Appended ==
  ASSUME NEW S, NEW f \in Seq(S), NEW x \in S
  PROVE  /\ Append(f, x) \in Seq(S)
         /\ Len(Append(f, x)) = Len(f) + 1
         /\ Append(f, x) # <<>>
         /\ Append(f, x)[Len(Append(f, x))] = x
         /\ \A i \in 1 .. Len(f) : Append(f, x)[i] = f[i]
<1>1. /\ Append(f, x) \in Seq(S) /\ Len(Append(f, x)) = Len(f) + 1
      /\ \A i \in 1 .. Len(f) : Append(f, x)[i] = f[i]
      /\ Append(f, x)[Len(f) + 1] = x
  BY AppendProperties
<1>2. Append(f, x) # <<>>
  BY <1>1
<1> QED
  BY <1>1, <1>2

LEMMA Dropped ==
  ASSUME NEW S, NEW f \in Seq(S), f # <<>>
  PROVE  /\ Head(f) = f[1] /\ Head(f) \in S /\ Len(f) \in Nat \ {0}
         /\ Tail(f) \in Seq(S) /\ Len(Tail(f)) = Len(f) - 1
         /\ \A i \in 1 .. Len(f) - 1 : Tail(f)[i] = f[i + 1]
  OBVIOUS

LEMMA SameElements ==
  ASSUME NEW S, NEW T, NEW f \in Seq(S), \A i \in 1 .. Len(f) : f[i] \in T
  PROVE  f \in Seq(T)
  OBVIOUS

\* A read is queued when it is made; others may follow.
LEMMA QueueRead ==
  ASSUME NEW S, NEW f \in Seq(S), NEW word \in S, NEW before, NEW after,
         f \in Seq(before)
  PROVE  Queued(Append(f, word), before, word, after, 0)
<1> DEFINE g == Append(f, word)
<1>1. /\ Len(g) = Len(f) + 1 /\ g[Len(g)] = word /\ Len(f) \in Nat
      /\ \A i \in 1 .. Len(f) : g[i] = f[i]
  BY Appended
<1>2. \A i \in 1 .. Len(f) : f[i] \in before
  OBVIOUS
<1> HIDE DEF g
<1>3. Queued(g, before, word, after, 0)
  BY <1>1, <1>2 DEF Queued
<1> QED
  BY <1>3 DEF g

LEMMA QueueMore ==
  ASSUME NEW S, NEW f \in Seq(S), NEW x \in S, NEW before, NEW word, NEW after,
         x \in after, NEW n, Queued(f, before, word, after, n)
  PROVE  Queued(Append(f, x), before, word, after, n + 1)
<1> DEFINE g == Append(f, x)
<1>1. /\ Len(g) = Len(f) + 1 /\ g[Len(g)] = x /\ Len(f) \in Nat
      /\ \A i \in 1 .. Len(f) : g[i] = f[i]
  BY Appended
<1> HIDE DEF g
<1>2. /\ n \in Nat /\ n < Len(f) /\ f[Len(f) - n] = word
      /\ \A i \in 1 .. Len(f) : i < Len(f) - n => f[i] \in before
      /\ \A i \in 1 .. Len(f) : i > Len(f) - n => f[i] \in after
  BY DEF Queued
<1>3. Len(g) - (n + 1) = Len(f) - n /\ Len(f) - n \in 1 .. Len(f)
  BY <1>1, <1>2
<1>4. ASSUME NEW i \in 1 .. Len(g), i < Len(g) - (n + 1)
      PROVE  g[i] \in before
  BY <1>1, <1>2, <1>3, <1>4
<1>5. ASSUME NEW i \in 1 .. Len(g), i > Len(g) - (n + 1)
      PROVE  g[i] \in after
  <2>1. CASE i = Len(g)
    BY <1>1, <2>1
  <2>2. CASE i # Len(g)
    BY <1>1, <1>2, <1>3, <1>5, <2>2
  <2> QED
    BY <2>1, <2>2
<1>6. Queued(g, before, word, after, n + 1)
  BY <1>1, <1>2, <1>3, <1>4, <1>5 DEF Queued
<1> QED
  BY <1>6 DEF g

\* The loop comes to it, or drops a read that was made before.
LEMMA QueueDrop ==
  ASSUME NEW S, NEW f \in Seq(S), NEW before, NEW word, NEW after, NEW n,
         word \notin before, Queued(f, before, word, after, n)
  PROVE  /\ f # <<>> /\ n < Len(f) /\ n \in Nat
         /\ Head(f) = word => Tail(f) \in Seq(after) /\ Len(Tail(f)) = n
         /\ Head(f) # word => /\ Head(f) \in before
                              /\ Queued(Tail(f), before, word, after, n)
<1>1. /\ n \in Nat /\ n < Len(f) /\ f[Len(f) - n] = word
      /\ \A i \in 1 .. Len(f) : i < Len(f) - n => f[i] \in before
      /\ \A i \in 1 .. Len(f) : i > Len(f) - n => f[i] \in after
  BY DEF Queued
<1>2. f # <<>> /\ Len(f) \in Nat
  BY <1>1
<1> DEFINE g == Tail(f)
<1>3. /\ Head(f) = f[1] /\ g \in Seq(S) /\ Len(g) = Len(f) - 1
      /\ \A i \in 1 .. Len(g) : g[i] = f[i + 1]
  BY <1>2, Dropped
<1> HIDE DEF g
<1>4. CASE Head(f) = word
  <2>1. Len(f) - n = 1
    BY <1>1, <1>2, <1>3, <1>4
  <2>2. \A i \in 1 .. Len(g) : g[i] \in after
    BY <1>1, <1>2, <1>3, <2>1
  <2>3. g \in Seq(after) /\ Len(g) = n
    BY <1>1, <1>2, <1>3, <2>1, <2>2, SameElements
  <2> QED
    BY <1>1, <1>2, <1>4, <2>3 DEF g
<1>5. CASE Head(f) # word
  <2>1. Len(f) - n > 1
    BY <1>1, <1>2, <1>3, <1>5
  <2>2. Head(f) \in before
    BY <1>1, <1>2, <1>3, <2>1
  <2>3. /\ n < Len(g) /\ Len(g) - n \in 1 .. Len(g)
        /\ (Len(g) - n) + 1 = Len(f) - n
    BY <1>1, <1>2, <1>3, <2>1
  <2>4. g[Len(g) - n] = word
    BY <1>1, <1>3, <2>3
  <2>5. ASSUME NEW i \in 1 .. Len(g), i < Len(g) - n
        PROVE  g[i] \in before
    <3>1. i + 1 \in 1 .. Len(f) /\ i + 1 < Len(f) - n
      BY <1>1, <1>2, <1>3, <2>5
    <3>2. g[i] = f[i + 1]
      BY <1>3
    <3> QED
      BY <1>1, <3>1, <3>2
  <2>6. ASSUME NEW i \in 1 .. Len(g), i > Len(g) - n
        PROVE  g[i] \in after
    <3>1. i + 1 \in 1 .. Len(f) /\ i + 1 > Len(f) - n
      BY <1>1, <1>2, <1>3, <2>6
    <3>2. g[i] = f[i + 1]
      BY <1>3
    <3> QED
      BY <1>1, <3>1, <3>2
  <2>7. Queued(g, before, word, after, n)
    BY <1>1, <2>3, <2>4, <2>5, <2>6 DEF Queued
  <2> QED
    BY <1>1, <1>2, <1>5, <2>2, <2>7 DEF g
<1> QED
  BY <1>4, <1>5

LEMMA LeftDrop ==
  ASSUME NEW S, NEW f \in Seq(S), LeftVector(f), Tail(f) # <<>>
  PROVE  LeftVector(Tail(f))
<1>1. f # <<>> /\ f[Len(f)] \notin InVector /\ Len(f) \in Nat \ {0}
  BY DEF LeftVector
<1> DEFINE g == Tail(f)
<1>2. /\ g \in Seq(S) /\ Len(g) = Len(f) - 1 /\ g # <<>>
      /\ \A i \in 1 .. Len(g) : g[i] = f[i + 1]
  BY <1>1, Dropped
<1> HIDE DEF g
<1>3. Len(g) \in 1 .. Len(g) /\ Len(g) + 1 = Len(f)
  BY <1>1, <1>2
<1>4. g # <<>> /\ g[Len(g)] \notin InVector
  BY <1>1, <1>2, <1>3
<1> QED
  BY <1>4 DEF LeftVector, g

-----------------------------------------------------------------------------
(* The banks, and where the Game Boy can be.                               *)

USE DEF Vector, VectorRest, Handler, Trigger, DoneByte, HookCode, Elsewhere

LEMMA Contents ==
  /\ \A a \in Away : Content("memory", a) = "game" /\ Content("override", a) = "game"
  /\ \A a \in HookOnly : Content("hook", a) = "hook" /\ Content("hook2", a) = "hook"
  /\ \A a \in InVector :
       /\ Content("memory", a) = "game" /\ Content("hook2", a) = "game"
       /\ Content("override", a) = "hook" /\ Content("hook", a) = "hook"
<1>1. \A a : Content("memory", a) = "game"
  BY DEF Content
<1>2. \A a \in HookOnly : a # Elsewhere /\ a \notin InVector
  BY DEF HookOnly, InVector
<1>3. /\ \A a \in InVector : a # Elsewhere /\ a \notin HookOnly
      /\ Elsewhere \notin InVector /\ Elsewhere \notin HookOnly
  BY DEF HookOnly, InVector
<1>4. \A a \in HookOnly :
        /\ Content("override", a) = "game"
        /\ Content("hook", a) = "hook" /\ Content("hook2", a) = "hook"
  BY <1>2 DEF Content
<1>5. Content("override", Elsewhere) = "game"
  BY <1>3 DEF Content
<1>6. \A a \in InVector :
        /\ Content("hook2", a) = "game"
        /\ Content("override", a) = "hook" /\ Content("hook", a) = "hook"
  BY <1>3 DEF Content
<1> QED
  BY <1>1, <1>4, <1>5, <1>6 DEF Away

LEMMA Kinds ==
  /\ Addresses = Away \cup {Vector, VectorRest}
  /\ VR \subseteq Addresses /\ HC \subseteq Waits /\ Waits \subseteq HookOnly
  /\ HookOnly \subseteq Away /\ Away \subseteq NotVector
  /\ NotVector \subseteq Addresses /\ VR \subseteq NotVector
  /\ Handler \in HookOnly /\ Trigger \in HookOnly
  /\ \A a \in Away : a \notin InVector
  /\ InVector = {Vector, VectorRest}
  BY DEF Addresses, Away, VR, HC, Waits, HookOnly, NotVector, InVector

LEMMA Lags ==
  /\ Lag \in Nat /\ EntryReads \in Nat \ {0} /\ HandlerReads \in Nat \ {0}
  /\ Lag <= 3 /\ Lag <= HandlerReads + 1 /\ Lag <= EntryReads + 1
  BY LagAssumption

LEMMA StatesAt ==
  ASSUME HookInv, mode # 0
  PROVE  /\ vblankHookState # "saveTriggered" => storing = "no"
         /\ storing = "no" => smEnabled
         /\ pc # "lost"
         /\ pc = "game" =>
              /\ vblankHookState \in {"idle", "returned"}
              /\ fifo \in Seq(NotVector)
              /\ vblankHookState = "returned" => LeftVector(fifo)
         /\ pc = "vector" =>
              \/ vblankHookState = "idle" /\ fifo = <<>>
              \/ /\ vblankHookState = "interrupt"
                 /\ \E n \in Nat : n >= 2 /\ Queued(fifo, VR, Handler, HC, n)
              \/ vblankHookState = "processing" /\ fifo \in Seq(HC)
              \/ /\ vblankHookState = "saveTriggered" /\ storing = "no"
                 /\ fifo \in Seq(Waits)
         /\ pc \in {"entry", "handler"} =>
              \/ /\ vblankHookState = "idle"
                 /\ Queued(fifo, {}, Vector, VR, EntryReads - left)
              \/ vblankHookState = "interrupt" /\ fifo \in Seq(VR)
         /\ pc \in {"joypad", "buttons", "trigger"} =>
              \/ /\ vblankHookState = "interrupt"
                 /\ \E n \in Nat : n >= ReadsSince(pc) /\ Queued(fifo, VR, Handler, HC, n)
              \/ vblankHookState = "processing" /\ fifo \in Seq(HC)
         /\ pc \in {"screenOff", "waitForSave"} =>
              \/ /\ vblankHookState = "processing"
                 /\ \E n \in Nat : Queued(fifo, HC, Trigger, Waits, n)
              \/ vblankHookState = "saveTriggered" /\ fifo \in Seq(Waits)
         /\ pc = "waitForRelease" =>
              /\ vblankHookState = "saveTriggered" /\ storing = "no"
              /\ fifo \in Seq(Waits)
         /\ pc = "leave" =>
              \/ /\ vblankHookState = "interrupt"
                 /\ \E n \in Nat : n >= 1 /\ Queued(fifo, VR, Handler, HC, n)
              \/ vblankHookState = "processing" /\ fifo \in Seq(HC)
              \/ /\ vblankHookState = "saveTriggered" /\ storing = "no"
                 /\ fifo \in Seq(Waits)
         /\ pc = "own" =>
              \/ /\ vblankHookState \in {"processing", "saveTriggered"}
                 /\ storing = "no"
                 /\ InOwnHandler
              \/ vblankHookState = "returned" /\ fifo \in Seq(VR)
         /\ pc = "ownAway" =>
              \/ /\ vblankHookState \in {"processing", "saveTriggered"}
                 /\ storing = "no"
                 /\ InOwnHandler
              \/ /\ vblankHookState = "returned" /\ fifo \in Seq(NotVector)
                 /\ LeftVector(fifo)
              \/ vblankHookState = "idle" /\ fifo \in Seq(NotVector)
<1> USE DEF HookInv
<1>1. /\ vblankHookState \in States /\ smEnabled = (storing \in {"no", "flag"})
      /\ storing # "no" => vblankHookState = "saveTriggered"
  BY DEF TypeOK, Switched, Mapped
<1>2. CASE vblankHookState = "idle"
  BY <1>1, <1>2 DEF Place, WhenIdle
<1>3. CASE vblankHookState = "interrupt"
  BY <1>1, <1>3 DEF Place, WhenInterrupted, InHook, ReadsSince
<1>4. CASE vblankHookState = "processing"
  BY <1>1, <1>4 DEF Place, WhenProcessing, InHook, InOwnHandler
<1>5. CASE vblankHookState = "saveTriggered"
  BY <1>1, <1>5 DEF Place, WhenSaveTriggered, InHook, InOwnHandler
<1>6. CASE vblankHookState = "returned"
  BY <1>1, <1>6 DEF Place, WhenReturned
<1> QED
  BY <1>1, <1>2, <1>3, <1>4, <1>5, <1>6 DEF States

LEMMA PushedRead ==
  ASSUME HookInv, NEW addr \in Addresses, Read(addr)
  PROVE  /\ fifo' \in Seq(Addresses) /\ Len(fifo') <= Lag
         /\ \A S : fifo \in Seq(S) /\ addr \in S => fifo' \in Seq(S)
         /\ smEnabled => Len(fifo) < Lag /\ fifo' = Append(fifo, addr)
<1>1. /\ fifo \in Seq(Addresses) /\ Len(fifo) <= Lag /\ Len(fifo) \in Nat
      /\ smEnabled \in BOOLEAN
  BY DEF HookInv, TypeOK
<1>2. CASE smEnabled
  <2>1. Len(fifo) < Lag /\ fifo' = Append(fifo, addr)
    BY <1>2 DEF Read
  <2>2. fifo' \in Seq(Addresses) /\ Len(fifo') = Len(fifo) + 1
    BY <1>1, <2>1, Appended
  <2>3. \A S : fifo \in Seq(S) /\ addr \in S => fifo' \in Seq(S)
    BY <2>1, Appended
  <2> QED
    BY <1>1, <2>1, <2>2, <2>3, Lags
<1>3. CASE ~smEnabled
  BY <1>1, <1>3 DEF Read
<1> QED
  BY <1>1, <1>2, <1>3

\* A step of the Game Boy leaves the RP2040 where it is.
LEMMA GbFrame ==
  ASSUME HookInv, mode # 0, UNCHANGED <<constVars, cpuVars, smEnabled>>,
         pc' \in Pcs, fifo' \in Seq(Addresses), Len(fifo') <= Lag,
         Counts', Place'
  PROVE  HookInv'
<1>1. UNCHANGED <<mode, hasRtc, vblankHookState, romLowBase, doneFlag, storing,
                  smEnabled>>
  BY DEF constVars, cpuVars
<1>2. left' \in 0 .. EntryReads + HandlerReads
  BY Lags DEF Counts
<1>3. TypeOK'
  BY <1>1, <1>2 DEF HookInv, TypeOK
<1>4. Switched'
  BY <1>1 DEF HookInv, Switched
<1>5. Mapped'
  BY <1>1 DEF HookInv, Mapped
<1> QED
  BY <1>1, <1>3, <1>4, <1>5 DEF HookInv

-----------------------------------------------------------------------------
(* The Game Boy, in a game with the hook.                                  *)

LEMMA QueueWiden ==
  ASSUME NEW f, NEW before, NEW word, NEW after, NEW n, NEW b, NEW a,
         before \subseteq b, after \subseteq a, Queued(f, before, word, after, n)
  PROVE  Queued(f, b, word, a, n)
  BY DEF Queued

\* A read that the FIFO could not take any more was not made.
LEMMA QueueFull ==
  ASSUME HookInv, NEW before, NEW word, NEW after, NEW n,
         Queued(fifo, before, word, after, n), Len(fifo) < Lag
  PROVE  n + 1 < Lag
<1>1. n \in Nat /\ n < Len(fifo) /\ Len(fifo) \in Nat
  BY DEF Queued, HookInv, TypeOK
<1> QED
  BY <1>1, Lags

LEMMA FetchStep ==
  ASSUME HookInv, mode # 0, NEW from, NEW program, NEW addr \in Addresses,
         NEW next \in Pcs \ {"entry", "own", "ownAway"},
         Content(romLowBase, addr) = program, Fetch(from, program, addr, next)
  PROVE  /\ pc = from /\ pc' = next /\ Read(addr)
         /\ UNCHANGED <<vblankHookState, doneFlag, storing>>
         /\ Place' => HookInv'
<1>1. /\ pc = from /\ pc' = next /\ left' = 0 /\ Read(addr)
      /\ UNCHANGED <<constVars, cpuVars, smEnabled>>
  BY DEF Fetch, Goto
<1>2. Counts'
  BY <1>1 DEF Counts
<1>3. fifo' \in Seq(Addresses) /\ Len(fifo') <= Lag
  BY <1>1, PushedRead
<1> QED
  BY <1>1, <1>2, <1>3, GbFrame DEF cpuVars

LEMMA GameRunsSafe ==
  ASSUME HookInv, mode # 0, GameRuns
  PROVE  HookInv'
<1>1. PICK addr \in Away : Fetch("game", "game", addr, "game")
  BY DEF GameRuns, Away
<1>2. pc = "game" /\ addr \in Addresses /\ addr \in NotVector /\ addr \notin InVector
  BY <1>1, Kinds DEF Fetch
<1>3. /\ vblankHookState \in {"idle", "returned"} /\ fifo \in Seq(NotVector)
      /\ smEnabled
  BY <1>2, StatesAt
<1>4. Content(romLowBase, addr) = "game"
  BY <1>3, Contents DEF HookInv, Mapped, BankOf
<1>5. /\ pc' = "game" /\ Read(addr) /\ vblankHookState' = vblankHookState
      /\ Place' => HookInv'
  BY <1>1, <1>2, <1>4, FetchStep DEF Pcs
<1>6. fifo' \in Seq(NotVector) /\ fifo' = Append(fifo, addr)
  BY <1>2, <1>3, <1>5, PushedRead
<1>7. LeftVector(fifo')
  BY <1>2, <1>3, <1>6, Appended DEF LeftVector
<1>8. Place'
  BY <1>3, <1>5, <1>6, <1>7 DEF Place, WhenIdle, WhenReturned
<1> QED
  BY <1>5, <1>8

LEMMA VBlankSafe ==
  ASSUME HookInv, mode # 0, VBlank
  PROVE  HookInv'
<1>1. /\ pc = "game" /\ fifo = <<>> /\ pc' = "vector"
      /\ UNCHANGED <<fifo, left, smEnabled>> /\ UNCHANGED <<constVars, cpuVars>>
  BY DEF VBlank
<1>2. vblankHookState = "idle" /\ vblankHookState' = vblankHookState
  BY <1>1, StatesAt DEF LeftVector, cpuVars
<1>3. Place'
  BY <1>1, <1>2 DEF Place, WhenIdle
<1>4. Counts'
  BY <1>1 DEF HookInv, Counts
<1>5. fifo' \in Seq(Addresses) /\ Len(fifo') <= Lag
  BY <1>1 DEF HookInv, TypeOK
<1>6. "vector" \in Pcs
  BY DEF Pcs
<1> QED
  BY <1>1, <1>3, <1>4, <1>5, <1>6, GbFrame

LEMMA RunHandlerSafe ==
  ASSUME HookInv, mode # 0, RunHandler
  PROVE  HookInv'
<1>1. Fetch("handler", "hook", Handler, "joypad") /\ pc = "handler" /\ Read(Handler)
  BY DEF RunHandler, Fetch
<1>2. Handler \in Addresses
  BY DEF Addresses, HookOnly
<1>3. smEnabled /\ left = 0
  BY <1>1, StatesAt DEF HookInv, Counts
<1>4. Len(fifo) < Lag /\ fifo' = Append(fifo, Handler)
  BY <1>1, <1>2, <1>3, PushedRead
<1>5. vblankHookState = "interrupt" /\ fifo \in Seq(VR)
  <2>1. ASSUME Queued(fifo, {}, Vector, VR, EntryReads - left)
        PROVE  FALSE
    <3>1. EntryReads - left = EntryReads
      BY <1>3, Lags
    <3>2. EntryReads + 1 < Lag
      BY <1>4, <2>1, <3>1, QueueFull
    <3> QED
      BY <3>2, Lags
  <2> QED
    BY <1>1, <2>1, StatesAt
<1>6. Content(romLowBase, Handler) = "hook"
  BY <1>5, Contents, Kinds DEF HookInv, Mapped, BankOf
<1>7. /\ pc' = "joypad" /\ vblankHookState' = vblankHookState
      /\ Place' => HookInv'
  BY <1>1, <1>2, <1>6, FetchStep DEF Pcs, HookPcs
<1>8. Queued(fifo', VR, Handler, HC, 0)
  BY <1>2, <1>4, <1>5, QueueRead DEF HookInv, TypeOK
<1>9. Place'
  BY <1>5, <1>7, <1>8 DEF Place, WhenInterrupted, InHook, ReadsSince
<1> QED
  BY <1>7, <1>9

LEMMA ReadCounts ==
  /\ ReadsSince("joypad") = 0 /\ ReadsSince("buttons") = 1
  /\ ReadsSince("leave") = 1 /\ ReadsSince("trigger") = 2
  /\ ReadsSince("vector") = 2
  BY DEF ReadsSince

LEMMA NextRead ==
  ASSUME NEW from \in {"joypad", "buttons"},
         NEW next \in {"buttons", "trigger", "leave"},
         ReadsSince(next) <= ReadsSince(from) + 1,
         NEW n \in Nat, n >= ReadsSince(from)
  PROVE  n + 1 \in Nat /\ n + 1 >= ReadsSince(next)
<1>1. n + 1 \in Nat
  OBVIOUS
<1>2. CASE from = "joypad"
  BY <1>2, ReadCounts
<1>3. CASE from = "buttons"
  BY <1>3, ReadCounts
<1> QED
  BY <1>1, <1>2, <1>3

\* A fetch of the hook's code after the one at 0x50, before a save is asked for.
LEMMA InHookSafe ==
  ASSUME HookInv, mode # 0, NEW from \in {"joypad", "buttons"},
         NEW next \in {"buttons", "trigger", "leave"},
         ReadsSince(next) <= ReadsSince(from) + 1,
         Fetch(from, "hook", HookCode, next)
  PROVE  HookInv'
<1>1. pc = from /\ HookCode \in Addresses /\ Read(HookCode)
  BY DEF Fetch, Addresses, HookOnly
<1>2. \/ /\ vblankHookState = "interrupt"
         /\ \E n \in Nat : n >= ReadsSince(from) /\ Queued(fifo, VR, Handler, HC, n)
      \/ vblankHookState = "processing" /\ fifo \in Seq(HC)
  BY <1>1, StatesAt
<1>3. smEnabled
  BY <1>2, StatesAt
<1>4. Content(romLowBase, HookCode) = "hook"
  BY <1>2, Contents, Kinds DEF HookInv, Mapped, BankOf, HookOnly
<1>5. next \in Pcs \ {"entry", "own", "ownAway"} /\ next \in InHook
  BY DEF Pcs, HookPcs, InHook
<1>6. /\ pc' = next /\ vblankHookState' = vblankHookState
      /\ Place' => HookInv'
  BY <1>1, <1>4, <1>5, FetchStep
<1>7. fifo' = Append(fifo, HookCode)
  BY <1>1, <1>3, PushedRead
<1>8. CASE vblankHookState = "interrupt"
  <2>1. PICK n \in Nat : n >= ReadsSince(from) /\ Queued(fifo, VR, Handler, HC, n)
    BY <1>2, <1>8
  <2>2. Queued(fifo', VR, Handler, HC, n + 1)
    BY <1>1, <1>7, <2>1, QueueMore DEF HookInv, TypeOK, HC
  <2>3. n + 1 \in Nat /\ n + 1 >= ReadsSince(next)
    BY <2>1, NextRead
  <2>4. WhenInterrupted'
    BY <1>5, <1>6, <2>2, <2>3 DEF WhenInterrupted
  <2> QED
    BY <1>6, <1>8, <2>4 DEF Place
<1>9. CASE vblankHookState = "processing"
  <2>1. fifo' \in Seq(HC)
    BY <1>1, <1>2, <1>9, PushedRead DEF HC
  <2>2. WhenProcessing'
    BY <1>5, <1>6, <2>1 DEF WhenProcessing
  <2> QED
    BY <1>6, <1>9, <2>2 DEF Place
<1> QED
  BY <1>2, <1>8, <1>9

LEMMA ReadJoypadSafe ==
  ASSUME HookInv, mode # 0, ReadJoypad \/ CheckForSaveTrigger
  PROVE  HookInv'
<1>1. CASE ReadJoypad
  <2>1. \/ Fetch("joypad", "hook", HookCode, "buttons")
        \/ Fetch("joypad", "hook", HookCode, "leave")
    BY <1>1 DEF ReadJoypad
  <2> QED
    <3>1. /\ ReadsSince("buttons") <= ReadsSince("joypad") + 1
          /\ ReadsSince("leave") <= ReadsSince("joypad") + 1
          /\ ReadsSince("trigger") <= ReadsSince("buttons") + 1
          /\ ReadsSince("leave") <= ReadsSince("buttons") + 1
      BY ReadCounts
    <3> QED
      BY <2>1, <3>1, InHookSafe
<1>2. CASE CheckForSaveTrigger
  <2>1. \/ Fetch("buttons", "hook", HookCode, "trigger")
        \/ Fetch("buttons", "hook", HookCode, "leave")
    BY <1>2 DEF CheckForSaveTrigger
  <2> QED
    <3>1. /\ ReadsSince("buttons") <= ReadsSince("joypad") + 1
          /\ ReadsSince("leave") <= ReadsSince("joypad") + 1
          /\ ReadsSince("trigger") <= ReadsSince("buttons") + 1
          /\ ReadsSince("leave") <= ReadsSince("buttons") + 1
      BY ReadCounts
    <3> QED
      BY <2>1, <3>1, InHookSafe
<1> QED
  BY <1>1, <1>2

LEMMA JumpToTriggerSafe ==
  ASSUME HookInv, mode # 0, JumpToTrigger
  PROVE  HookInv'
<1>1. /\ Fetch("trigger", "hook", Trigger, "screenOff")
      /\ pc = "trigger" /\ Read(Trigger) /\ Trigger \in Addresses
  BY DEF JumpToTrigger, Fetch, Addresses, HookOnly
<1>2. smEnabled
  BY <1>1, StatesAt
<1>3. Len(fifo) < Lag /\ fifo' = Append(fifo, Trigger)
  BY <1>1, <1>2, PushedRead
<1>4. vblankHookState = "processing" /\ fifo \in Seq(HC)
  <2>1. ASSUME NEW n \in Nat, n >= ReadsSince(pc), Queued(fifo, VR, Handler, HC, n)
        PROVE  FALSE
    <3>1. n + 1 < Lag
      BY <1>3, <2>1, QueueFull
    <3>2. n >= 2
      BY <1>1, <2>1, ReadCounts
    <3> QED
      BY <3>1, <3>2, Lags
  <2> QED
    BY <1>1, <2>1, StatesAt
<1>5. Content(romLowBase, Trigger) = "hook"
  BY <1>4, Contents, Kinds DEF HookInv, Mapped, BankOf
<1>6. /\ pc' = "screenOff" /\ vblankHookState' = vblankHookState
      /\ Place' => HookInv'
  BY <1>1, <1>5, FetchStep DEF Pcs, HookPcs
<1>7. Queued(fifo', HC, Trigger, Waits, 0)
  BY <1>1, <1>3, <1>4, QueueRead DEF HookInv, TypeOK
<1>8. WhenProcessing'
  BY <1>6, <1>7 DEF WhenProcessing
<1>9. Place'
  BY <1>4, <1>6, <1>8 DEF Place
<1> QED
  BY <1>6, <1>9

\* The hook's fetches while it waits for the save.
LEMMA WaitingSafe ==
  ASSUME HookInv, mode # 0, NEW addr \in Waits,
         NEW from \in {"screenOff", "waitForSave"},
         Fetch(from, "hook", addr, "waitForSave")
  PROVE  HookInv'
<1>1. pc = from /\ addr \in Addresses /\ addr \in HookOnly /\ Read(addr)
  BY Kinds DEF Fetch
<1>2. \/ /\ vblankHookState = "processing"
         /\ \E n \in Nat : Queued(fifo, HC, Trigger, Waits, n)
      \/ vblankHookState = "saveTriggered" /\ fifo \in Seq(Waits)
  BY <1>1, StatesAt
<1>3. Content(romLowBase, addr) = "hook"
  BY <1>1, <1>2, Contents DEF HookInv, Mapped, BankOf
<1>4. /\ pc' = "waitForSave" /\ UNCHANGED <<vblankHookState, storing>>
      /\ Place' => HookInv'
  BY <1>1, <1>3, FetchStep DEF Pcs, HookPcs
<1>5. CASE vblankHookState = "processing"
  <2>1. PICK n \in Nat : Queued(fifo, HC, Trigger, Waits, n)
    BY <1>2, <1>5
  <2>2. smEnabled
    BY <1>5, StatesAt
  <2>3. fifo' = Append(fifo, addr)
    BY <1>1, <2>2, PushedRead
  <2>4. Queued(fifo', HC, Trigger, Waits, n + 1)
    BY <1>1, <2>1, <2>3, QueueMore DEF HookInv, TypeOK
  <2>5. n + 1 \in Nat
    BY <2>4 DEF Queued
  <2>6. WhenProcessing'
    BY <1>4, <2>4, <2>5 DEF WhenProcessing
  <2> QED
    BY <1>4, <1>5, <2>6 DEF Place
<1>6. CASE vblankHookState = "saveTriggered"
  <2>1. fifo' \in Seq(Waits)
    BY <1>1, <1>2, <1>6, PushedRead
  <2>2. WhenSaveTriggered'
    BY <1>4, <2>1 DEF WhenSaveTriggered
  <2> QED
    BY <1>4, <1>6, <2>2 DEF Place
<1> QED
  BY <1>2, <1>5, <1>6

\* The hook's fetches once the save is stored: the done byte says so.
LEMMA StoredSafe ==
  ASSUME HookInv, mode # 0, NEW addr \in Waits, doneFlag,
         NEW from \in {"waitForSave", "waitForRelease"},
         NEW next \in {"waitForRelease", "leave"},
         Fetch(from, "hook", addr, next)
  PROVE  HookInv'
<1>1. pc = from /\ addr \in Addresses /\ addr \in HookOnly /\ Read(addr)
  BY Kinds DEF Fetch
<1>2. /\ vblankHookState = "saveTriggered" /\ storing = "no"
      /\ fifo \in Seq(Waits)
  BY <1>1, StatesAt DEF HookInv, Mapped
<1>3. Content(romLowBase, addr) = "hook"
  BY <1>1, <1>2, Contents DEF HookInv, Mapped, BankOf
<1>4. /\ pc' = next /\ UNCHANGED <<vblankHookState, storing>>
      /\ Place' => HookInv'
  BY <1>1, <1>3, FetchStep DEF Pcs, HookPcs
<1>5. fifo' \in Seq(Waits)
  BY <1>1, <1>2, PushedRead
<1>6. WhenSaveTriggered'
  BY <1>2, <1>4, <1>5 DEF WhenSaveTriggered
<1> QED
  BY <1>2, <1>4, <1>6 DEF Place

LEMMA WaitSafe ==
  ASSUME HookInv, mode # 0, ScreenOff \/ WaitForGameSave \/ ButtonsReleased
  PROVE  HookInv'
<1>1. HookCode \in Waits /\ DoneByte \in Waits
  BY DEF Waits
<1>2. CASE ScreenOff
  BY <1>1, <1>2, WaitingSafe DEF ScreenOff
<1>3. CASE WaitForGameSave
  <2>1. CASE doneFlag
    <3>1. Fetch("waitForSave", "hook", DoneByte, "waitForRelease")
      BY <1>3, <2>1 DEF WaitForGameSave
    <3> QED
      BY <1>1, <2>1, <3>1, StoredSafe
  <2>2. CASE ~doneFlag
    <3>1. Fetch("waitForSave", "hook", DoneByte, "waitForSave")
      BY <1>3, <2>2 DEF WaitForGameSave
    <3> QED
      BY <1>1, <3>1, WaitingSafe
  <2> QED
    BY <2>1, <2>2
<1>4. CASE ButtonsReleased
  <2>1. /\ Fetch("waitForRelease", "hook", HookCode, "leave")
        /\ pc = "waitForRelease"
    BY <1>4 DEF ButtonsReleased, Fetch
  <2>2. vblankHookState = "saveTriggered" /\ storing = "no"
    BY <2>1, StatesAt
  <2>3. doneFlag
    BY <2>2 DEF HookInv, Mapped
  <2> QED
    BY <1>1, <2>1, <2>3, StoredSafe
<1> QED
  BY <1>2, <1>3, <1>4

LEMMA LeaveHookSafe ==
  ASSUME HookInv, mode # 0, LeaveHook
  PROVE  HookInv'
<1>1. /\ Fetch("leave", "hook", HookCode, "vector") /\ pc = "leave"
      /\ Read(HookCode) /\ HookCode \in Addresses /\ HookCode \in HookOnly
  BY DEF LeaveHook, Fetch, Addresses, HookOnly
<1>2. \/ /\ vblankHookState = "interrupt"
         /\ \E n \in Nat : n >= 1 /\ Queued(fifo, VR, Handler, HC, n)
      \/ vblankHookState = "processing" /\ fifo \in Seq(HC)
      \/ /\ vblankHookState = "saveTriggered" /\ storing = "no"
         /\ fifo \in Seq(Waits)
  BY <1>1, StatesAt
<1>3. Content(romLowBase, HookCode) = "hook"
  BY <1>1, <1>2, Contents DEF HookInv, Mapped, BankOf
<1>4. /\ pc' = "vector" /\ UNCHANGED <<vblankHookState, storing>>
      /\ Place' => HookInv'
  BY <1>1, <1>3, FetchStep DEF Pcs
<1>5. CASE vblankHookState = "interrupt"
  <2>1. PICK n \in Nat : n >= 1 /\ Queued(fifo, VR, Handler, HC, n)
    BY <1>2, <1>5
  <2>2. smEnabled
    BY <1>5, StatesAt
  <2>3. fifo' = Append(fifo, HookCode)
    BY <1>1, <2>2, PushedRead
  <2>4. Queued(fifo', VR, Handler, HC, n + 1)
    BY <1>1, <2>1, <2>3, QueueMore DEF HookInv, TypeOK, HC
  <2>5. n + 1 \in Nat /\ n + 1 >= ReadsSince("vector")
    BY <2>1, ReadCounts
  <2>6. WhenInterrupted'
    BY <1>4, <2>4, <2>5 DEF WhenInterrupted, InHook
  <2> QED
    BY <1>4, <1>5, <2>6 DEF Place
<1>6. CASE vblankHookState = "processing"
  <2>1. fifo' \in Seq(HC)
    BY <1>1, <1>2, <1>6, PushedRead DEF HC
  <2>2. WhenProcessing'
    BY <1>4, <2>1 DEF WhenProcessing, InHook
  <2> QED
    BY <1>4, <1>6, <2>2 DEF Place
<1>7. CASE vblankHookState = "saveTriggered"
  <2>1. fifo' \in Seq(Waits) /\ storing = "no"
    BY <1>1, <1>2, <1>7, PushedRead DEF Waits
  <2>2. WhenSaveTriggered'
    BY <1>4, <2>1 DEF WhenSaveTriggered
  <2> QED
    BY <1>4, <1>7, <2>2 DEF Place
<1> QED
  BY <1>2, <1>5, <1>6, <1>7

LEMMA FetchVectorSafe ==
  ASSUME HookInv, mode # 0, FetchVector
  PROVE  HookInv'
<1>1. /\ pc = "vector" /\ Read(Vector) /\ Vector \in Addresses
      /\ UNCHANGED <<constVars, cpuVars, smEnabled>>
      /\ UNCHANGED <<vblankHookState, storing>>
  BY DEF FetchVector, Addresses, InVector, cpuVars
<1>2. /\ fifo' \in Seq(Addresses) /\ Len(fifo') <= Lag
      /\ storing = "no" /\ smEnabled
      /\ Len(fifo) < Lag /\ fifo' = Append(fifo, Vector)
  BY <1>1, StatesAt, PushedRead
<1>3. \/ vblankHookState = "idle" /\ fifo = <<>>
      \/ /\ vblankHookState = "interrupt"
         /\ \E n \in Nat : n >= 2 /\ Queued(fifo, VR, Handler, HC, n)
      \/ vblankHookState = "processing" /\ fifo \in Seq(HC)
      \/ vblankHookState = "saveTriggered" /\ fifo \in Seq(Waits)
  BY <1>1, StatesAt
<1>4. CASE vblankHookState = "idle"
  <2>1. Content(romLowBase, Vector) = "hook"
    BY <1>4, Contents, Kinds DEF HookInv, Mapped, BankOf
  <2>2. pc' = "entry" /\ left' = EntryReads
    BY <2>1 DEF FetchVector
  <2>3. fifo \in Seq({}) /\ fifo \in Seq(Addresses)
    BY <1>3, <1>4
  <2>4. Queued(fifo', {}, Vector, VR, 0)
    BY <1>1, <1>2, <2>3, QueueRead
  <2>5. EntryReads - left' = 0
    BY <2>2, Lags
  <2>6. Place'
    BY <1>1, <1>4, <2>2, <2>4, <2>5 DEF Place, WhenIdle
  <2>7. Counts'
    BY <2>2, Lags DEF Counts
  <2> QED
    BY <1>1, <1>2, <2>2, <2>6, <2>7, GbFrame DEF Pcs
<1>5. CASE vblankHookState = "interrupt"
  <2>1. PICK n \in Nat : n >= 2 /\ Queued(fifo, VR, Handler, HC, n)
    BY <1>3, <1>5
  <2>2. n + 1 < Lag
    BY <1>2, <2>1, QueueFull
  <2> QED
    BY <2>1, <2>2, Lags
<1>6. CASE vblankHookState \in {"processing", "saveTriggered"}
  <2>1. Content(romLowBase, Vector) = "game"
    BY <1>6, Contents, Kinds DEF HookInv, Mapped, BankOf
  <2>2. pc' = "own" /\ left' = HandlerReads
    BY <2>1 DEF FetchVector
  <2>3. fifo \in Seq(Waits) /\ fifo \in Seq(Addresses)
    BY <1>3, <1>6, Kinds, Widen DEF HookInv, TypeOK
  <2>4. Queued(fifo', Waits, Vector, VR, 0)
    BY <1>1, <1>2, <2>3, QueueRead
  <2>5. HandlerReads - left' = 0
    BY <2>2, Lags
  <2>6. InOwnHandler'
    BY <2>2, <2>4, <2>5 DEF InOwnHandler, OwnReads
  <2>7. Place'
    BY <1>1, <1>2, <1>6, <2>6 DEF Place, WhenProcessing, WhenSaveTriggered
  <2>8. Counts'
    BY <2>2, Lags DEF Counts
  <2> QED
    BY <1>1, <1>2, <2>2, <2>7, <2>8, GbFrame DEF Pcs
<1> QED
  BY <1>3, <1>4, <1>5, <1>6

LEMMA RunEntrySafe ==
  ASSUME HookInv, mode # 0, RunEntry
  PROVE  HookInv'
<1>1. /\ pc = "entry" /\ Read(VectorRest) /\ VectorRest \in Addresses
      /\ UNCHANGED <<constVars, cpuVars, smEnabled>>
      /\ UNCHANGED <<vblankHookState, storing>>
  BY DEF RunEntry, Addresses, InVector, cpuVars
<1>2. left \in 1 .. EntryReads
  BY <1>1 DEF HookInv, Counts
<1>3. \/ /\ vblankHookState = "idle"
         /\ Queued(fifo, {}, Vector, VR, EntryReads - left)
      \/ vblankHookState = "interrupt" /\ fifo \in Seq(VR)
  BY <1>1, StatesAt
<1>4. /\ fifo' \in Seq(Addresses) /\ Len(fifo') <= Lag
      /\ fifo' = Append(fifo, VectorRest)
  BY <1>1, <1>3, StatesAt, PushedRead
<1>5. Content(romLowBase, VectorRest) = "hook"
  BY <1>3, Contents, Kinds DEF HookInv, Mapped, BankOf
<1>6. /\ left > 1 => pc' = "entry" /\ left' = left - 1
      /\ ~(left > 1) => pc' = "handler" /\ left' = 0
  BY <1>5 DEF RunEntry, Goto
<1>7. /\ left' = left - 1 /\ pc' \in {"entry", "handler"}
      /\ EntryReads - left' = (EntryReads - left) + 1
      /\ Counts'
  BY <1>2, <1>6, Lags DEF Counts
<1>8. CASE vblankHookState = "idle"
  <2>1. Queued(fifo', {}, Vector, VR, (EntryReads - left) + 1)
    BY <1>1, <1>3, <1>4, <1>8, QueueMore DEF HookInv, TypeOK, VR
  <2>2. Place'
    BY <1>1, <1>7, <1>8, <2>1 DEF Place, WhenIdle
  <2> QED
    BY <1>1, <1>4, <1>7, <2>2, GbFrame DEF Pcs, HookPcs
<1>9. CASE vblankHookState = "interrupt"
  <2>1. fifo' \in Seq(VR)
    BY <1>1, <1>3, <1>9, PushedRead DEF VR
  <2>2. Place'
    BY <1>1, <1>7, <1>9, <2>1 DEF Place, WhenInterrupted
  <2> QED
    BY <1>1, <1>4, <1>7, <2>2, GbFrame DEF Pcs, HookPcs
<1> QED
  BY <1>3, <1>8, <1>9

\* The game's own instructions, up to their last fetch at the vector.
LEMMA OwnReadSafe ==
  ASSUME HookInv, mode # 0, HandlerComesBack = FALSE, RunOwnHandler
  PROVE  HookInv'
<1>1. PICK addr \in {VectorRest, Elsewhere} :
        /\ pc \in {"own", "ownAway"} /\ left > 0 /\ Read(addr)
        /\ addr = VectorRest => pc = "own"
        /\ pc' = IF addr = Elsewhere THEN "ownAway"
                 ELSE IF Content(romLowBase, addr) = "game" THEN pc ELSE "lost"
        /\ left' = left - 1
        /\ UNCHANGED <<constVars, cpuVars, smEnabled>>
  BY DEF RunOwnHandler
<1>2. /\ addr \in Addresses /\ addr \in NotVector
      /\ UNCHANGED <<vblankHookState, storing>>
  BY <1>1 DEF Addresses, NotVector, InVector, cpuVars
<1>3. left \in 1 .. HandlerReads
  BY <1>1 DEF HookInv, Counts
<1>4. \/ /\ vblankHookState \in {"processing", "saveTriggered"}
         /\ storing = "no" /\ InOwnHandler
      \/ vblankHookState = "returned" /\ fifo \in Seq(NotVector)
         /\ (pc = "own" => fifo \in Seq(VR))
      \/ vblankHookState = "idle" /\ pc = "ownAway" /\ fifo \in Seq(NotVector)
  BY <1>1, StatesAt, Kinds, Widen
<1>5. /\ fifo' \in Seq(Addresses) /\ Len(fifo') <= Lag
      /\ fifo' = Append(fifo, addr)
  BY <1>1, <1>2, <1>4, StatesAt, PushedRead
<1>6. /\ addr = VectorRest => pc' = "own" /\ pc = "own"
      /\ addr = Elsewhere => pc' = "ownAway" /\ LeftVector(fifo')
  <2>1. ASSUME addr = VectorRest
        PROVE  pc' = "own" /\ pc = "own"
    <3>1. Content(romLowBase, addr) = "game"
      BY <1>1, <1>4, <2>1, Contents, Kinds DEF HookInv, Mapped, BankOf
    <3> QED
      BY <1>1, <2>1, <3>1
  <2>2. ASSUME addr = Elsewhere
        PROVE  pc' = "ownAway" /\ LeftVector(fifo')
    <3>1. fifo' # <<>> /\ fifo'[Len(fifo')] = addr
      BY <1>2, <1>5, Appended DEF HookInv, TypeOK
    <3> QED
      BY <1>1, <2>2, <3>1 DEF LeftVector, InVector
  <2> QED
    BY <2>1, <2>2
<1>7. /\ pc' \in {"own", "ownAway"} /\ pc' \in Pcs /\ Counts'
      /\ HandlerReads - left' = (HandlerReads - left) + 1
  BY <1>1, <1>3, <1>6, Lags DEF Counts, Pcs
<1>8. CASE vblankHookState \in {"processing", "saveTriggered"}
  <2>1. Queued(fifo, Waits, Vector, OwnReads, HandlerReads - left)
    BY <1>4, <1>8 DEF InOwnHandler
  <2>2. OwnReads \subseteq OwnReads' /\ addr \in OwnReads'
    BY <1>1, <1>6 DEF OwnReads, VR
  <2>3. Queued(fifo, Waits, Vector, OwnReads', HandlerReads - left)
    BY <2>1, <2>2, QueueWiden
  <2>4. Queued(fifo', Waits, Vector, OwnReads', (HandlerReads - left) + 1)
    BY <1>2, <1>5, <2>2, <2>3, QueueMore DEF HookInv, TypeOK
  <2>5. InOwnHandler'
    BY <1>1, <1>6, <1>7, <2>4 DEF InOwnHandler
  <2>6. Place'
    BY <1>2, <1>4, <1>8, <2>5 DEF Place, WhenProcessing, WhenSaveTriggered
  <2> QED
    BY <1>1, <1>5, <1>7, <2>6, GbFrame
<1>9. CASE vblankHookState = "returned"
  <2>1. fifo' \in Seq(NotVector)
    BY <1>1, <1>2, <1>4, <1>9, PushedRead
  <2>2. addr = VectorRest => fifo' \in Seq(VR)
    BY <1>1, <1>2, <1>4, <1>6, <1>9, PushedRead DEF VR
  <2>3. Place'
    BY <1>1, <1>2, <1>6, <1>9, <2>1, <2>2 DEF Place, WhenReturned
  <2> QED
    BY <1>1, <1>5, <1>7, <2>3, GbFrame
<1>10. CASE vblankHookState = "idle"
  <2>1. fifo' \in Seq(NotVector) /\ pc' = "ownAway"
    BY <1>1, <1>2, <1>4, <1>6, <1>10, PushedRead
  <2>2. Place'
    BY <1>2, <1>10, <2>1 DEF Place, WhenIdle
  <2> QED
    BY <1>1, <1>5, <1>7, <2>2, GbFrame
<1> QED
  BY <1>4, <1>8, <1>9, <1>10

LEMMA LeaveOwnSafe ==
  ASSUME HookInv, mode # 0, LeaveOwnHandler
  PROVE  HookInv'
<1>1. PICK addr \in Away :
        /\ left = 0 /\ pc \in {"own", "ownAway"}
        /\ Fetch(pc, "game", addr, "game")
  BY DEF LeaveOwnHandler, Away
<1>2. /\ addr \in Addresses /\ addr \in NotVector /\ addr \notin InVector
      /\ Read(addr)
  BY <1>1, Kinds DEF Fetch
<1>3. \/ /\ vblankHookState \in {"processing", "saveTriggered"}
         /\ storing = "no" /\ InOwnHandler
      \/ vblankHookState = "returned" /\ fifo \in Seq(NotVector)
      \/ vblankHookState = "idle" /\ fifo \in Seq(NotVector)
  BY <1>1, StatesAt, Kinds, Widen
<1>4. smEnabled
  BY <1>3, StatesAt
<1>5. Len(fifo) < Lag /\ fifo' = Append(fifo, addr)
  BY <1>2, <1>4, PushedRead
<1>6. vblankHookState \in {"returned", "idle"} /\ fifo \in Seq(NotVector)
  <2>1. ASSUME InOwnHandler
        PROVE  FALSE
    <3>1. HandlerReads - left = HandlerReads
      BY <1>1, Lags
    <3>2. HandlerReads + 1 < Lag
      BY <1>5, <2>1, <3>1, QueueFull DEF InOwnHandler
    <3> QED
      BY <3>2, Lags
  <2> QED
    BY <1>3, <2>1
<1>7. Content(romLowBase, addr) = "game"
  BY <1>6, Contents DEF HookInv, Mapped, BankOf
<1>8. /\ pc' = "game" /\ vblankHookState' = vblankHookState
      /\ Place' => HookInv'
  BY <1>1, <1>2, <1>7, FetchStep DEF Pcs
<1>9. fifo' \in Seq(NotVector)
  BY <1>2, <1>6, PushedRead
<1>10. LeftVector(fifo')
  BY <1>2, <1>5, <1>6, Appended DEF LeftVector
<1>11. Place'
  BY <1>6, <1>8, <1>9, <1>10 DEF Place, WhenIdle, WhenReturned
<1> QED
  BY <1>8, <1>11

-----------------------------------------------------------------------------
(* The RP2040, in a game with the hook.                                    *)

LEMMA RpFrame ==
  ASSUME HookInv, mode # 0, UNCHANGED <<constVars, gbVars>>,
         fifo' \in Seq(Addresses), Len(fifo') <= Lag,
         vblankHookState' \in States, doneFlag' \in BOOLEAN,
         storing' \in StoreSteps \cup {"no"},
         Switched', Mapped', Place'
  PROVE  HookInv'
<1>1. UNCHANGED <<mode, hasRtc, pc, left>>
  BY DEF constVars, gbVars
<1>2. romLowBase' \in Banks
  BY DEF Mapped, BankOf, Banks, States
<1>3. smEnabled' \in BOOLEAN
  BY DEF Switched
<1>4. TypeOK'
  BY <1>1, <1>2, <1>3 DEF HookInv, TypeOK
<1>5. Counts'
  BY <1>1 DEF HookInv, Counts
<1> QED
  BY <1>1, <1>4, <1>5 DEF HookInv

\* The loop takes a read and may enter another state.
LEMMA TakeFrame ==
  ASSUME HookInv, mode # 0, storing = "no", fifo # <<>>, fifo' = Tail(fifo),
         UNCHANGED <<constVars, gbVars, storing, smEnabled>>,
         vblankHookState' \in States, doneFlag' \in BOOLEAN, Mapped', Place'
  PROVE  HookInv'
<1>1. fifo \in Seq(Addresses) /\ Len(fifo) <= Lag /\ Len(fifo) \in Nat
  BY DEF HookInv, TypeOK
<1>2. fifo' \in Seq(Addresses) /\ Len(fifo') = Len(fifo) - 1
  BY <1>1, Dropped
<1>3. Len(fifo') <= Lag
  BY <1>1, <1>2, Lags
<1>4. Switched'
  BY DEF HookInv, Switched
<1>5. storing' \in StoreSteps \cup {"no"}
  OBVIOUS
<1> QED
  BY <1>2, <1>3, <1>4, <1>5, RpFrame

LEMMA TailIn ==
  ASSUME HookInv, fifo # <<>>, NEW S, fifo \in Seq(S)
  PROVE  Head(fifo) \in S /\ Tail(fifo) \in Seq(S)
  BY Dropped

LEMMA QueuedHead ==
  ASSUME HookInv, NEW before, NEW word, NEW after, NEW n,
         word \notin before, Queued(fifo, before, word, after, n)
  PROVE  /\ Head(fifo) = word => Tail(fifo) \in Seq(after)
         /\ Head(fifo) # word => /\ Head(fifo) \in before
                                 /\ Queued(Tail(fifo), before, word, after, n)
  BY QueueDrop DEF HookInv, TypeOK

LEMMA HookInterruptSafe ==
  ASSUME HookInv, HookInterrupt
  PROVE  HookInv'
<1>1. /\ vblankHookState = "idle" /\ storing = "no" /\ mode # 0
      /\ fifo # <<>> /\ Head(fifo) = Vector /\ fifo' = Tail(fifo)
      /\ UNCHANGED <<constVars, gbVars, storing, smEnabled>>
      /\ UNCHANGED doneFlag /\ pc' = pc
      /\ vblankHookState' = "interrupt" /\ romLowBase' = "hook"
  BY DEF HookInterrupt, Handle, Enter, gbVars
<1>2. ~(fifo \in Seq(NotVector))
  BY <1>1, TailIn DEF NotVector
<1>3. WhenIdle
  BY <1>1 DEF HookInv, Place
<1>4. /\ pc \in {"entry", "handler"}
      /\ Queued(fifo, {}, Vector, VR, EntryReads - left)
  BY <1>1, <1>2, <1>3 DEF WhenIdle
<1>5. fifo' \in Seq(VR)
  BY <1>1, <1>4, QueuedHead
<1>6. Place'
  BY <1>1, <1>4, <1>5 DEF Place, WhenInterrupted
<1>7. doneFlag = FALSE
  BY <1>1 DEF HookInv, Mapped, TypeOK
<1>8. Mapped'
  BY <1>1, <1>7 DEF Mapped, BankOf
<1> QED
  BY <1>1, <1>6, <1>7, <1>8, TakeFrame DEF States

LEMMA HookProcessingSafe ==
  ASSUME HookInv, HookProcessing
  PROVE  HookInv'
<1>1. /\ vblankHookState = "interrupt" /\ storing = "no" /\ mode # 0
      /\ fifo # <<>> /\ Head(fifo) = Handler /\ fifo' = Tail(fifo)
      /\ UNCHANGED <<constVars, gbVars, storing, smEnabled>>
      /\ UNCHANGED doneFlag /\ pc' = pc
      /\ vblankHookState' = "processing" /\ romLowBase' = "hook2"
  BY DEF HookProcessing, Handle, Enter, gbVars
<1>2. ~(fifo \in Seq(VR))
  BY <1>1, TailIn DEF VR
<1>3. WhenInterrupted
  BY <1>1 DEF HookInv, Place
<1>4. PICK n \in Nat : pc \in InHook /\ Queued(fifo, VR, Handler, HC, n)
  BY <1>2, <1>3 DEF WhenInterrupted
<1>5. fifo' \in Seq(HC)
  BY <1>1, <1>4, QueuedHead DEF VR
<1>6. Place'
  BY <1>1, <1>4, <1>5 DEF Place, WhenProcessing
<1>7. doneFlag = FALSE
  BY <1>1 DEF HookInv, Mapped, TypeOK
<1>8. Mapped'
  BY <1>1, <1>7 DEF Mapped, BankOf
<1> QED
  BY <1>1, <1>6, <1>7, <1>8, TakeFrame DEF States

LEMMA HookSaveTriggeredSafe ==
  ASSUME HookInv, HookSaveTriggered
  PROVE  HookInv' /\ pc \in {"screenOff", "waitForSave"}
<1>1. /\ vblankHookState = "processing" /\ storing = "no" /\ mode # 0
      /\ fifo # <<>> /\ Head(fifo) = Trigger /\ fifo' = Tail(fifo)
      /\ UNCHANGED <<constVars, gbVars>>
      /\ smEnabled' = FALSE /\ storing' = "save"
      /\ UNCHANGED <<doneFlag, romLowBase>> /\ pc' = pc
      /\ vblankHookState' = "saveTriggered"
  BY DEF HookSaveTriggered, Handle, Enter, gbVars
<1>2. ~(fifo \in Seq(HC))
  <2>1. Trigger \notin HC
    BY DEF HC
  <2> QED
    BY <1>1, <2>1, TailIn
<1>3. ~InOwnHandler
  <2>1. Trigger \notin Waits /\ Vector \notin Waits /\ Trigger # Vector
    BY DEF Waits
  <2> QED
    BY <1>1, <2>1, QueuedHead DEF InOwnHandler
<1>4. WhenProcessing
  BY <1>1 DEF HookInv, Place
<1>5. PICK n \in Nat : /\ pc \in {"screenOff", "waitForSave"}
                       /\ Queued(fifo, HC, Trigger, Waits, n)
  BY <1>2, <1>3, <1>4 DEF WhenProcessing
<1>6. fifo' \in Seq(Waits)
  BY <1>1, <1>5, QueuedHead DEF HC
<1>7. Place'
  BY <1>1, <1>5, <1>6 DEF Place, WhenSaveTriggered
<1>8. doneFlag = FALSE /\ romLowBase = "hook2"
  BY <1>1 DEF HookInv, Mapped, TypeOK, BankOf
<1>9. Mapped'
  BY <1>1, <1>8 DEF Mapped, BankOf
<1>10. fifo \in Seq(Addresses) /\ Len(fifo) <= Lag /\ Len(fifo) \in Nat
  BY DEF HookInv, TypeOK
<1>11. fifo' \in Seq(Addresses) /\ Len(fifo') = Len(fifo) - 1
  BY <1>1, <1>10, Dropped
<1>12. Len(fifo') <= Lag
  BY <1>10, <1>11, Lags
<1>13. Switched'
  <2>1. storing' \notin {"no", "flag"} /\ smEnabled' = FALSE
    BY <1>1
  <2>2. (storing' \in {"no", "flag"}) = FALSE
    BY <2>1
  <2> QED
    BY <2>1, <2>2, Zenon DEF Switched
<1>14. HookInv'
  BY <1>1, <1>7, <1>8, <1>9, <1>11, <1>12, <1>13, RpFrame DEF States, StoreSteps
<1> QED
  BY <1>5, <1>14

LEMMA HookReturnedSafe ==
  ASSUME HookInv, HookReturned
  PROVE  HookInv' /\ pc \in {"own", "ownAway"}
<1>1. /\ vblankHookState \in {"processing", "saveTriggered"}
      /\ storing = "no" /\ mode # 0
      /\ fifo # <<>> /\ Head(fifo) = Vector /\ fifo' = Tail(fifo)
      /\ UNCHANGED <<constVars, gbVars, storing, smEnabled>>
      /\ UNCHANGED doneFlag /\ pc' = pc
      /\ vblankHookState' = "returned" /\ romLowBase' = "memory"
  BY DEF HookReturned, Handle, Enter, gbVars
<1>2. ~(fifo \in Seq(HC)) /\ ~(fifo \in Seq(Waits))
  <2>1. Vector \notin HC /\ Vector \notin Waits
    BY DEF HC, Waits
  <2> QED
    BY <1>1, <2>1, TailIn
<1>3. ASSUME NEW n \in Nat, Queued(fifo, HC, Trigger, Waits, n)
      PROVE  FALSE
  <2>1. Trigger \notin HC /\ Vector \notin HC /\ Trigger # Vector
    BY DEF HC
  <2> QED
    BY <1>1, <1>3, <2>1, QueuedHead
<1>4. WhenProcessing \/ WhenSaveTriggered
  BY <1>1 DEF HookInv, Place
<1>5. InOwnHandler
  BY <1>2, <1>3, <1>4 DEF WhenProcessing, WhenSaveTriggered
<1>6. /\ pc \in {"own", "ownAway"}
      /\ Queued(fifo, Waits, Vector, OwnReads, HandlerReads - left)
      /\ pc = "ownAway" => LeftVector(fifo)
  BY <1>5 DEF InOwnHandler
<1>7. fifo' \in Seq(OwnReads)
  BY <1>1, <1>6, QueuedHead DEF Waits
<1>8. pc = "own" => fifo' \in Seq(VR)
  BY <1>7 DEF OwnReads
<1>9. fifo' \in Seq(NotVector)
  <2>1. OwnReads \subseteq NotVector
    BY DEF OwnReads, VR, NotVector, Addresses, InVector
  <2> QED
    BY <1>7, <2>1, Widen
<1>10. pc = "ownAway" => LeftVector(fifo')
  <2>1. SUFFICES ASSUME pc = "ownAway"
                 PROVE  LeftVector(fifo')
    OBVIOUS
  <2>2. LeftVector(fifo) /\ fifo \in Seq(Addresses)
    BY <1>6, <2>1 DEF HookInv, TypeOK
  <2>3. /\ Head(fifo) = fifo[1] /\ Len(fifo) \in Nat \ {0}
        /\ Tail(fifo) \in Seq(Addresses) /\ Len(Tail(fifo)) = Len(fifo) - 1
    BY <1>1, <2>2, Dropped
  <2>4. Len(fifo) # 1
    BY <1>1, <2>2, <2>3 DEF LeftVector, InVector
  <2>5. Len(Tail(fifo)) # 0
    BY <2>3, <2>4
  <2>6. Tail(fifo) # <<>>
    BY <2>5
  <2> QED
    BY <1>1, <2>2, <2>6, LeftDrop
<1>11. Place'
  BY <1>1, <1>6, <1>8, <1>9, <1>10 DEF Place, WhenReturned
<1>12. doneFlag \in BOOLEAN /\ storing = "no"
  BY <1>1 DEF HookInv, TypeOK
<1>13. Mapped'
  BY <1>1, <1>12 DEF Mapped, BankOf
<1>14. HookInv'
  BY <1>1, <1>11, <1>12, <1>13, TakeFrame DEF States
<1> QED
  BY <1>6, <1>14

LEMMA HookIdleSafe ==
  ASSUME HookInv, HookIdle
  PROVE  HookInv' /\ pc \in {"ownAway", "game"}
<1>1. /\ vblankHookState = "returned" /\ storing = "no" /\ mode # 0
      /\ fifo # <<>> /\ Head(fifo) \notin InVector /\ fifo' = Tail(fifo)
      /\ UNCHANGED <<constVars, gbVars, storing, smEnabled>>
      /\ doneFlag' = FALSE /\ pc' = pc
      /\ vblankHookState' = "idle" /\ romLowBase' = "override"
  BY DEF HookIdle, Handle, Enter, gbVars
<1>2. ~(fifo \in Seq(VR))
  BY <1>1, TailIn DEF VR, InVector
<1>3. WhenReturned
  BY <1>1 DEF HookInv, Place
<1>4. pc \in {"ownAway", "game"} /\ fifo \in Seq(NotVector)
  BY <1>2, <1>3 DEF WhenReturned
<1>5. fifo' \in Seq(NotVector)
  BY <1>1, <1>4, TailIn
<1>6. Place'
  BY <1>1, <1>4, <1>5 DEF Place, WhenIdle
<1>7. Mapped'
  BY <1>1 DEF Mapped, BankOf
<1>8. HookInv'
  BY <1>1, <1>6, <1>7, TakeFrame DEF States
<1> QED
  BY <1>4, <1>8

\* A read that is not the one the loop waits for changes nothing but the FIFO.
LEMMA OwnKept ==
  ASSUME HookInv, InOwnHandler, fifo' = Tail(fifo), Head(fifo) # Vector,
         UNCHANGED <<pc, left>>
  PROVE  InOwnHandler'
<1>1. /\ pc \in {"own", "ownAway"}
      /\ Queued(fifo, Waits, Vector, OwnReads, HandlerReads - left)
      /\ pc = "ownAway" => LeftVector(fifo)
  BY DEF InOwnHandler
<1>2. Vector \notin Waits
  BY DEF Waits
<1>3. Queued(Tail(fifo), Waits, Vector, OwnReads, HandlerReads - left)
  BY <1>1, <1>2, QueuedHead
<1>4. fifo \in Seq(Addresses) /\ fifo # <<>>
  BY <1>1 DEF HookInv, TypeOK, Queued
<1>5. Tail(fifo) # <<>>
  <2>1. /\ HandlerReads - left \in Nat
        /\ HandlerReads - left < Len(Tail(fifo))
    BY <1>3 DEF Queued
  <2>2. Tail(fifo) \in Seq(Addresses)
    BY <1>4, Dropped
  <2> QED
    BY <2>1, <2>2
<1>6. pc = "ownAway" => LeftVector(Tail(fifo))
  BY <1>1, <1>4, <1>5, LeftDrop
<1>7. OwnReads' = OwnReads
  BY DEF OwnReads
<1> QED
  BY <1>1, <1>3, <1>6, <1>7 DEF InOwnHandler

LEMMA LeftKept ==
  ASSUME HookInv, LeftVector(fifo), Head(fifo) \in InVector
  PROVE  LeftVector(Tail(fifo))
<1>1. fifo \in Seq(Addresses) /\ fifo # <<>> /\ fifo[Len(fifo)] \notin InVector
  BY DEF HookInv, TypeOK, LeftVector
<1>2. /\ Head(fifo) = fifo[1] /\ Len(fifo) \in Nat \ {0}
      /\ Tail(fifo) \in Seq(Addresses) /\ Len(Tail(fifo)) = Len(fifo) - 1
  BY <1>1, Dropped
<1>3. Len(fifo) # 1
  BY <1>1, <1>2
<1>4. Tail(fifo) # <<>>
  <2>1. Len(Tail(fifo)) # 0
    BY <1>2, <1>3
  <2>2. Len(<<>>) = 0
    OBVIOUS
  <2> QED
    BY <2>1, <2>2
<1> QED
  BY <1>1, <1>4, LeftDrop

LEMMA IgnoredReads ==
  ASSUME HookInv, HookIgnores
  PROVE  /\ mode # 0 /\ storing = "no" /\ fifo # <<>> /\ fifo' = Tail(fifo)
         /\ UNCHANGED <<constVars, gbVars, cpuVars, smEnabled>>
         /\ UNCHANGED <<pc, left, vblankHookState, doneFlag, storing, romLowBase>>
         /\ vblankHookState \in States
         /\ vblankHookState = "idle" => Head(fifo) # Vector
         /\ vblankHookState = "interrupt" => Head(fifo) # Handler
         /\ vblankHookState = "processing" => Head(fifo) \notin {Trigger, Vector}
         /\ vblankHookState = "saveTriggered" => Head(fifo) # Vector
         /\ vblankHookState = "returned" => Head(fifo) \in InVector
<1>1. /\ mode # 0 /\ storing = "no" /\ fifo # <<>> /\ fifo' = Tail(fifo)
      /\ UNCHANGED <<constVars, gbVars, cpuVars, smEnabled>>
      /\ Head(fifo) \in Ignored[vblankHookState]
  BY DEF HookIgnores, Handle
<1>2. vblankHookState \in States
  BY DEF HookInv, TypeOK
<1>3. /\ Ignored["idle"] = Addresses \ {Vector}
      /\ Ignored["interrupt"] = Addresses \ {Handler}
      /\ Ignored["processing"] = Addresses \ {Trigger, Vector}
      /\ Ignored["saveTriggered"] = Addresses \ {Vector}
      /\ Ignored["returned"] = InVector
  BY DEF Ignored, States
<1>4. UNCHANGED <<pc, left, vblankHookState, doneFlag, storing, romLowBase>>
  BY <1>1 DEF gbVars, cpuVars
<1> QED
  BY <1>1, <1>2, <1>3, <1>4

LEMMA HookIgnoresSafe ==
  ASSUME HookInv, HookIgnores
  PROVE  HookInv'
<1>1. Place
  BY IgnoredReads DEF HookInv
<1>2. ASSUME NEW S, fifo \in Seq(S)
      PROVE  fifo' \in Seq(S) /\ Head(fifo) \in S
  BY <1>2, IgnoredReads, TailIn
<1>3. ASSUME vblankHookState = "idle"
      PROVE  WhenIdle'
  <2>1. WhenIdle /\ Head(fifo) # Vector /\ UNCHANGED <<pc, left>> /\ fifo # <<>>
    BY <1>1, <1>3, IgnoredReads DEF Place
  <2>2. ~Queued(fifo, {}, Vector, VR, EntryReads - left)
    BY <2>1, QueuedHead
  <2>3. pc \in {"game", "ownAway"} /\ fifo \in Seq(NotVector)
    BY <2>1, <2>2 DEF WhenIdle
  <2>4. fifo' \in Seq(NotVector)
    BY <1>2, <2>3
  <2> QED
    BY <2>1, <2>3, <2>4 DEF WhenIdle
<1>4. ASSUME vblankHookState = "interrupt"
      PROVE  WhenInterrupted'
  <2>1. /\ WhenInterrupted /\ Head(fifo) # Handler /\ UNCHANGED <<pc, left>>
        /\ fifo' = Tail(fifo)
    BY <1>1, <1>4, IgnoredReads DEF Place
  <2>2. CASE pc \in {"entry", "handler"} /\ fifo \in Seq(VR)
    <3>1. fifo' \in Seq(VR)
      BY <1>2, <2>2
    <3> QED
      BY <2>1, <2>2, <3>1 DEF WhenInterrupted
  <2>3. ASSUME pc \in InHook, NEW n \in Nat, n >= ReadsSince(pc),
               Queued(fifo, VR, Handler, HC, n)
        PROVE  WhenInterrupted'
    <3>1. Handler \notin VR
      BY DEF VR
    <3>2. Queued(fifo', VR, Handler, HC, n)
      BY <2>1, <2>3, <3>1, QueuedHead
    <3> QED
      BY <2>1, <2>3, <3>2 DEF WhenInterrupted
  <2> QED
    BY <2>1, <2>2, <2>3 DEF WhenInterrupted
<1>5. ASSUME vblankHookState = "processing"
      PROVE  WhenProcessing'
  <2>1. /\ WhenProcessing /\ Head(fifo) \notin {Trigger, Vector}
        /\ UNCHANGED <<pc, left>> /\ fifo' = Tail(fifo)
    BY <1>1, <1>5, IgnoredReads DEF Place
  <2>2. CASE pc \in InHook /\ fifo \in Seq(HC)
    <3>1. fifo' \in Seq(HC)
      BY <1>2, <2>2
    <3> QED
      BY <2>1, <2>2, <3>1 DEF WhenProcessing
  <2>3. ASSUME pc \in {"screenOff", "waitForSave"}, NEW n \in Nat,
               Queued(fifo, HC, Trigger, Waits, n)
        PROVE  WhenProcessing'
    <3>1. Trigger \notin HC
      BY DEF HC
    <3>2. Queued(fifo', HC, Trigger, Waits, n)
      BY <2>1, <2>3, <3>1, QueuedHead
    <3> QED
      BY <2>1, <2>3, <3>2 DEF WhenProcessing
  <2>4. CASE InOwnHandler
    BY <2>1, <2>4, OwnKept DEF WhenProcessing
  <2> QED
    BY <2>1, <2>2, <2>3, <2>4 DEF WhenProcessing
<1>6. ASSUME vblankHookState = "saveTriggered"
      PROVE  WhenSaveTriggered'
  <2>1. /\ WhenSaveTriggered /\ Head(fifo) # Vector
        /\ UNCHANGED <<pc, left, storing>> /\ fifo' = Tail(fifo)
    BY <1>1, <1>6, IgnoredReads DEF Place
  <2>2. CASE fifo \in Seq(Waits)
    <3>1. fifo' \in Seq(Waits)
      BY <1>2, <2>2
    <3>2. ASSUME InOwnHandler
          PROVE  FALSE
      <4>1. Vector \notin Waits
        BY DEF Waits
      <4>2. PICK n \in Nat : Queued(fifo, Waits, Vector, OwnReads, n)
        BY <3>2 DEF InOwnHandler, Queued
      <4>3. n < Len(fifo) /\ fifo[Len(fifo) - n] = Vector /\ Len(fifo) \in Nat
        BY <2>2, <4>2 DEF Queued
      <4>4. Len(fifo) - n \in 1 .. Len(fifo)
        BY <4>3
      <4>5. fifo[Len(fifo) - n] \in Waits
        BY <2>2, <4>4
      <4> QED
        BY <4>1, <4>3, <4>5
    <3> QED
      BY <2>1, <3>1, <3>2 DEF WhenSaveTriggered
  <2>3. CASE storing = "no" /\ InOwnHandler
    BY <2>1, <2>3, OwnKept DEF WhenSaveTriggered
  <2> QED
    BY <2>1, <2>2, <2>3 DEF WhenSaveTriggered
<1>7. ASSUME vblankHookState = "returned"
      PROVE  WhenReturned'
  <2>1. /\ WhenReturned /\ Head(fifo) \in InVector
        /\ UNCHANGED <<pc, left>> /\ fifo' = Tail(fifo)
    BY <1>1, <1>7, IgnoredReads DEF Place
  <2>2. CASE pc = "own" /\ fifo \in Seq(VR)
    <3>1. fifo' \in Seq(VR)
      BY <1>2, <2>2
    <3> QED
      BY <2>1, <2>2, <3>1 DEF WhenReturned
  <2>3. CASE /\ pc \in {"ownAway", "game"} /\ fifo \in Seq(NotVector)
             /\ LeftVector(fifo)
    <3>1. fifo' \in Seq(NotVector)
      BY <1>2, <2>3
    <3>2. LeftVector(fifo')
      BY <2>1, <2>3, LeftKept
    <3> QED
      BY <2>1, <2>3, <3>1, <3>2 DEF WhenReturned
  <2> QED
    BY <2>1, <2>2, <2>3 DEF WhenReturned
<1>8. Place'
  BY <1>3, <1>4, <1>5, <1>6, <1>7, IgnoredReads DEF Place
<1>9. Mapped'
  BY IgnoredReads DEF HookInv, Mapped
<1>10. doneFlag' \in BOOLEAN /\ vblankHookState' \in States
  BY IgnoredReads DEF HookInv, TypeOK
<1> QED
  BY <1>8, <1>9, <1>10, IgnoredReads, TakeFrame

-----------------------------------------------------------------------------
(* storeCurrentlyRunningSaveGame.                                          *)

\* While the loop stores, the Game Boy waits in the hook.
LEMMA StoringPlace ==
  ASSUME HookInv, storing # "no"
  PROVE  /\ mode # 0 /\ vblankHookState = "saveTriggered" /\ doneFlag = FALSE
         /\ pc \in {"screenOff", "waitForSave"} /\ fifo \in Seq(Waits)
         /\ romLowBase = "hook2"
<1>1. mode # 0
  BY DEF HookInv, Unhooked
<1>2. vblankHookState = "saveTriggered" /\ ~doneFlag /\ romLowBase = "hook2"
  BY <1>1 DEF HookInv, Mapped, BankOf
<1>3. WhenSaveTriggered
  BY <1>1, <1>2 DEF HookInv, Place
<1>4. doneFlag = FALSE
  BY <1>2 DEF HookInv, TypeOK
<1> QED
  BY <1>1, <1>2, <1>3, <1>4 DEF WhenSaveTriggered

LEMMA StoreFrame ==
  ASSUME HookInv, storing # "no",
         UNCHANGED <<constVars, gbVars, fifo, vblankHookState, romLowBase>>,
         storing' \in StoreSteps \cup {"no"},
         doneFlag' = (storing' = "no"), Switched'
  PROVE  HookInv'
<1>1. UNCHANGED <<pc, left>>
  BY DEF gbVars
<1>2. Place'
  BY <1>1, StoringPlace DEF Place, WhenSaveTriggered
<1>3. Mapped'
  BY StoringPlace DEF Mapped, BankOf
<1>4. fifo' \in Seq(Addresses) /\ Len(fifo') <= Lag /\ vblankHookState' \in States
  BY DEF HookInv, TypeOK
<1>5. doneFlag' \in BOOLEAN
  OBVIOUS
<1> QED
  BY <1>2, <1>3, <1>4, <1>5, StoringPlace, RpFrame

LEMMA StoreSafe ==
  ASSUME HookInv, StoreSaveRam \/ StoreRtc \/ EnableSm \/ WriteDone
  PROVE  HookInv'
<1>1. /\ storing # "no" /\ storing' \in StoreSteps \cup {"no"}
      /\ UNCHANGED <<constVars, gbVars, fifo, vblankHookState, romLowBase>>
  BY DEF StoreSaveRam, StoreRtc, EnableSm, WriteDone, StoreStep, StoreSteps
<1>2. doneFlag = FALSE
  BY <1>1, StoringPlace
<1>3. doneFlag' = (storing' = "no")
  <2>1. CASE storing' = "no"
    <3>1. doneFlag' = TRUE
      BY <2>1 DEF StoreSaveRam, StoreRtc, EnableSm, WriteDone, StoreStep
    <3> QED
      BY <2>1, <3>1
  <2>2. CASE storing' # "no"
    <3>1. doneFlag' = FALSE
      BY <1>2, <2>2 DEF StoreSaveRam, StoreRtc, EnableSm, WriteDone, StoreStep
    <3> QED
      BY <2>2, <3>1
  <2> QED
    BY <2>1, <2>2
<1>4. smEnabled = (storing \in {"no", "flag"})
  BY DEF HookInv, Switched
<1>5. Switched'
  <2>1. CASE storing' \in {"no", "flag"}
    <3>1. smEnabled' = TRUE
      BY <1>4, <2>1 DEF StoreSaveRam, StoreRtc, EnableSm, WriteDone, StoreStep
    <3> QED
      BY <2>1, <3>1 DEF Switched
  <2>2. CASE storing' \notin {"no", "flag"}
    <3>1. smEnabled' = FALSE
      <4>1. storing \notin {"no", "flag"} /\ UNCHANGED smEnabled
        BY <2>2 DEF StoreSaveRam, StoreRtc, EnableSm, WriteDone, StoreStep
      <4>2. (storing \in {"no", "flag"}) = FALSE
        BY <4>1
      <4> QED
        BY <1>4, <4>1, <4>2
    <3>2. (storing' \in {"no", "flag"}) = FALSE
      BY <2>2
    <3> QED
      BY <3>1, <3>2, Zenon DEF Switched
  <2> QED
    BY <2>1, <2>2
<1> QED
  BY <1>1, <1>3, <1>5, StoreFrame

-----------------------------------------------------------------------------
(* A game without the hook.                                                *)

LEMMA UnhookedFrame ==
  ASSUME HookInv, mode = 0, UNCHANGED <<constVars, cpuVars, smEnabled>>,
         fifo' \in Seq(Addresses), Len(fifo') <= Lag,
         pc' \in {"game", "vector", "own", "ownAway"}, Counts'
  PROVE  HookInv'
<1>1. UNCHANGED <<mode, hasRtc, vblankHookState, romLowBase, doneFlag, storing,
                  smEnabled>>
  BY DEF constVars, cpuVars
<1>2. left' \in 0 .. EntryReads + HandlerReads
  BY Lags DEF Counts
<1>3. TypeOK'
  BY <1>1, <1>2 DEF HookInv, TypeOK, Pcs
<1>4. Switched'
  BY <1>1 DEF HookInv, Switched
<1>5. Unhooked'
  BY <1>1 DEF HookInv, Unhooked
<1> QED
  BY <1>1, <1>3, <1>4, <1>5 DEF HookInv

LEMMA UnhookedFetch ==
  ASSUME HookInv, mode = 0, NEW from, NEW addr \in Addresses,
         Fetch(from, "game", addr, "game")
  PROVE  HookInv' /\ pc = from /\ pc' = "game"
<1>1. Content(romLowBase, addr) = "game"
  BY DEF HookInv, Unhooked, Content
<1>2. /\ pc = from /\ pc' = "game" /\ left' = 0 /\ Read(addr)
      /\ UNCHANGED <<constVars, cpuVars, smEnabled>>
  BY <1>1 DEF Fetch, Goto
<1>3. Counts'
  BY <1>2 DEF Counts
<1>4. fifo' \in Seq(Addresses) /\ Len(fifo') <= Lag
  BY <1>2, PushedRead
<1> QED
  BY <1>2, <1>3, <1>4, UnhookedFrame

LEMMA UnhookedSafe ==
  ASSUME HookInv, mode = 0, Next
  PROVE  /\ HookInv' /\ UNCHANGED <<romLowBase, mode>>
         /\ pc \in {"game", "vector", "own", "ownAway"}
         /\ \/ pc = "game" /\ pc' \in {"game", "vector"}
            \/ pc \in {"vector", "own", "ownAway"} /\ pc' \in {"own", "ownAway"}
            \/ pc \in {"own", "ownAway"} /\ pc' = "game"
            \/ pc' = pc
<1> DEFINE Goal == /\ HookInv' /\ UNCHANGED <<romLowBase, mode>>
                   /\ pc \in {"game", "vector", "own", "ownAway"}
                   /\ \/ pc = "game" /\ pc' \in {"game", "vector"}
                      \/ /\ pc \in {"vector", "own", "ownAway"}
                         /\ pc' \in {"own", "ownAway"}
                      \/ pc \in {"own", "ownAway"} /\ pc' = "game"
                      \/ pc' = pc
<1>1. /\ romLowBase = "memory" /\ storing = "no" /\ left \in Nat
      /\ pc \in {"game", "vector", "own", "ownAway"}
      /\ \A a : Content(romLowBase, a) = "game"
      /\ fifo \in Seq(Addresses) /\ Len(fifo) <= Lag /\ Len(fifo) \in Nat
      /\ Counts
  BY Lags DEF HookInv, Unhooked, Content, TypeOK
<1>2. Handler \in Addresses /\ Away \subseteq Addresses
      /\ Vector \in Addresses /\ VectorRest \in Addresses /\ Elsewhere \in Addresses
  BY Kinds DEF Away
<1>3. CASE GameRuns
  <2>1. PICK addr \in Away : Fetch("game", "game", addr, "game")
    BY <1>3 DEF GameRuns, Away
  <2>2. HookInv' /\ pc = "game" /\ pc' = "game"
    BY <1>2, <2>1, UnhookedFetch
  <2> QED
    BY <2>1, <2>2 DEF Fetch, constVars, cpuVars
<1>4. CASE VBlank
  <2>1. /\ pc = "game" /\ pc' = "vector" /\ UNCHANGED <<fifo, left>>
        /\ UNCHANGED <<constVars, cpuVars, smEnabled>>
    BY <1>4 DEF VBlank
  <2>2. Counts'
    BY <1>1, <2>1 DEF Counts
  <2>3. HookInv'
    BY <1>1, <2>1, <2>2, UnhookedFrame
  <2> QED
    BY <2>1, <2>3 DEF constVars, cpuVars
<1>5. CASE FetchVector
  <2>1. /\ pc = "vector" /\ Read(Vector) /\ pc' = "own" /\ left' = HandlerReads
        /\ UNCHANGED <<constVars, cpuVars, smEnabled>>
    BY <1>1, <1>5 DEF FetchVector
  <2>2. Counts'
    BY <2>1, Lags DEF Counts
  <2>3. fifo' \in Seq(Addresses) /\ Len(fifo') <= Lag
    BY <1>2, <2>1, PushedRead
  <2>4. HookInv'
    BY <2>1, <2>2, <2>3, UnhookedFrame
  <2> QED
    BY <2>1, <2>4 DEF constVars, cpuVars
<1>6. CASE RunOwnHandler
  <2>1. PICK addr \in {VectorRest, Elsewhere} :
          /\ pc \in {"own", "ownAway"} /\ left > 0 /\ Read(addr)
          /\ pc' \in {"own", "ownAway"} /\ left' = left - 1
          /\ UNCHANGED <<constVars, cpuVars, smEnabled>>
    BY <1>1, <1>6 DEF RunOwnHandler
  <2>2. Counts'
    BY <1>1, <2>1, Lags DEF Counts
  <2>3. fifo' \in Seq(Addresses) /\ Len(fifo') <= Lag
    BY <1>2, <2>1, PushedRead
  <2>4. HookInv'
    BY <2>1, <2>2, <2>3, UnhookedFrame
  <2> QED
    BY <2>1, <2>4 DEF constVars, cpuVars
<1>7. CASE LeaveOwnHandler
  <2>1. PICK addr \in Away :
          pc \in {"own", "ownAway"} /\ Fetch(pc, "game", addr, "game")
    BY <1>7 DEF LeaveOwnHandler, Away
  <2>2. HookInv' /\ pc' = "game"
    BY <1>2, <2>1, UnhookedFetch
  <2> QED
    BY <2>1, <2>2 DEF Fetch, constVars, cpuVars
<1>8. CASE NoHook
  <2>1. /\ fifo # <<>> /\ fifo' = Tail(fifo) /\ UNCHANGED <<pc, left>>
        /\ UNCHANGED <<constVars, cpuVars, smEnabled>>
    BY <1>8 DEF NoHook, gbVars
  <2>2. fifo' \in Seq(Addresses) /\ Len(fifo') = Len(fifo) - 1
    BY <1>1, <2>1, Dropped
  <2>3. Len(fifo') <= Lag
    BY <1>1, <2>2, Lags
  <2>4. Counts'
    BY <1>1, <2>1 DEF Counts
  <2>5. HookInv'
    BY <1>1, <2>1, <2>2, <2>3, <2>4, UnhookedFrame
  <2> QED
    BY <1>1, <2>1, <2>5 DEF constVars, cpuVars
<1>9. /\ ~RunEntry /\ ~RunHandler /\ ~ReadJoypad /\ ~CheckForSaveTrigger
      /\ ~JumpToTrigger /\ ~ScreenOff /\ ~WaitForGameSave /\ ~ButtonsReleased
      /\ ~LeaveHook
  BY <1>1 DEF RunEntry, RunHandler, ReadJoypad, CheckForSaveTrigger,
              JumpToTrigger, ScreenOff, WaitForGameSave, ButtonsReleased,
              LeaveHook, Fetch
<1>10. /\ ~HookInterrupt /\ ~HookProcessing /\ ~HookSaveTriggered
       /\ ~HookReturned /\ ~HookIdle /\ ~HookIgnores
  BY DEF HookInterrupt, HookProcessing, HookSaveTriggered, HookReturned,
         HookIdle, HookIgnores, Handle
<1>11. ~StoreSaveRam /\ ~StoreRtc /\ ~EnableSm /\ ~WriteDone
  BY <1>1 DEF StoreSaveRam, StoreRtc, EnableSm, WriteDone, StoreStep
<1>12. Goal
  BY <1>3, <1>4, <1>5, <1>6, <1>7, <1>8, <1>9, <1>10, <1>11
     DEF Next, GameBoy, Rp2040
<1> QED
  BY <1>12

-----------------------------------------------------------------------------
(* The invariant.                                                          *)

LEMMA HookInvInit ==
  ASSUME Init
  PROVE  HookInv
<1>1. /\ vblankHookState = "idle" /\ doneFlag = FALSE /\ fifo = <<>>
      /\ smEnabled = TRUE /\ storing = "no" /\ pc = "game" /\ left = 0
      /\ mode \in {0, 1, 2} /\ hasRtc \in BOOLEAN
      /\ romLowBase = IF mode = 0 THEN "memory" ELSE "override"
  BY DEF Init
<1>2. fifo \in Seq(Addresses) /\ fifo \in Seq(NotVector) /\ Len(fifo) = 0
  BY <1>1
<1>3. left \in 0 .. EntryReads + HandlerReads /\ Len(fifo) <= Lag
  BY <1>1, <1>2, Lags
<1>4. TypeOK
  BY <1>1, <1>2, <1>3 DEF TypeOK, States, Banks, Pcs
<1>5. Counts
  BY <1>1 DEF Counts
<1>6. Switched
  <2>1. (storing \in {"no", "flag"}) = TRUE
    BY <1>1
  <2> QED
    BY <1>1, <2>1 DEF Switched
<1>7. mode = 0 => Unhooked
  BY <1>1 DEF Unhooked
<1>8. mode # 0 => Mapped /\ Place
  BY <1>1, <1>2 DEF Mapped, Place, BankOf, WhenIdle
<1> QED
  BY <1>4, <1>5, <1>6, <1>7, <1>8 DEF HookInv

LEMMA HookInvNext ==
  ASSUME HandlerComesBack = FALSE, HookInv, [Next]_vars
  PROVE  HookInv'
<1>1. CASE UNCHANGED vars
  <2>1. UNCHANGED <<mode, hasRtc, vblankHookState, romLowBase, doneFlag, fifo,
                    smEnabled, storing, pc, left>>
    BY <1>1 DEF vars
  <2>2. TypeOK' /\ Counts' /\ Switched' /\ (mode' = 0 => Unhooked')
    BY <2>1 DEF HookInv, TypeOK, Counts, Switched, Unhooked
  <2>3. mode' # 0 => Mapped'
    BY <2>1 DEF HookInv, Mapped
  <2>4. mode' # 0 => Place'
    BY <2>1 DEF HookInv, Place, WhenIdle, WhenInterrupted, WhenProcessing,
                WhenSaveTriggered, WhenReturned, InOwnHandler, OwnReads
  <2> QED
    BY <2>1, <2>2, <2>3, <2>4 DEF HookInv
<1>2. CASE mode = 0 /\ Next
  BY <1>2, UnhookedSafe
<1>3. CASE mode # 0 /\ GameBoy
  BY <1>3, GameRunsSafe, VBlankSafe, FetchVectorSafe, RunEntrySafe, OwnReadSafe,
     LeaveOwnSafe, RunHandlerSafe, ReadJoypadSafe, JumpToTriggerSafe, WaitSafe,
     LeaveHookSafe DEF GameBoy
<1>4. CASE mode # 0 /\ Rp2040
  BY <1>4, HookInterruptSafe, HookProcessingSafe, HookSaveTriggeredSafe,
     HookReturnedSafe, HookIdleSafe, HookIgnoresSafe, StoreSafe
     DEF Rp2040, NoHook
<1> QED
  BY <1>1, <1>2, <1>3, <1>4 DEF Next

LEMMA NotLost == HookInv => FetchesWhatItMeans
  BY StatesAt DEF HookInv, Unhooked, FetchesWhatItMeans

LEMMA HookInvAlways ==
  ASSUME HandlerComesBack = FALSE
  PROVE  Spec => []HookInv
<1>1. Init => HookInv
  BY HookInvInit
<1>2. HookInv /\ [Next]_vars => HookInv'
  BY HookInvNext
<1> QED
  BY <1>1, <1>2, PTL DEF Spec

-----------------------------------------------------------------------------
(* What it is for. HandlerComesBack = FALSE: the game's handler does not   *)
(* read at 0x41-0x47 again once it has read elsewhere. TLC shows what a    *)
(* game meets that does.                                                   *)

(* The values of the state: the RP2040 is never more than Lag reads behind *)
(* and the counts stay within the two stretches of code.                   *)
THEOREM HookTypes ==
  ASSUME HandlerComesBack = FALSE
  PROVE  Spec => []TypeOK
<1>1. HookInv => TypeOK
  BY DEF HookInv
<1> QED
  BY <1>1, HookInvAlways, PTL

(* Whatever bank process_vblank_hook has mapped by then, the Game Boy      *)
(* fetches the program it means to run.                                    *)
THEOREM FetchesAreRight ==
  ASSUME HandlerComesBack = FALSE
  PROVE  Spec => []FetchesWhatItMeans
  BY NotLost, HookInvAlways, PTL

(* storeCurrentlyRunningSaveGame runs while the Game Boy is in the hook.   *)
THEOREM GameWaitsForStore ==
  ASSUME HandlerComesBack = FALSE
  PROVE  Spec => []StoresWhileGameWaits
<1>1. HookInv => StoresWhileGameWaits
  BY StoringPlace DEF StoresWhileGameWaits
<1> QED
  BY <1>1, HookInvAlways, PTL

-----------------------------------------------------------------------------
(* The hook is what VBlankService promises.                                *)

PhaseAt ==
  /\ pc = "game" => PhaseOf = "game"
  /\ pc \in {"own", "ownAway"} => PhaseOf = "handler"
  /\ pc = "vector" =>
       PhaseOf = IF romLowBase \in {"override", "hook"} THEN "hook" ELSE "handler"
  /\ pc \in {"trigger", "screenOff", "waitForSave"} =>
       PhaseOf = IF Stored THEN "saved" ELSE "asked"
  /\ pc \in {"waitForRelease", "leave"} =>
       PhaseOf = IF Stored THEN "saved" ELSE "hook"
  /\ pc \in {"entry", "handler", "joypad", "buttons"} => PhaseOf = "hook"

LEMMA VectorContent ==
  ASSUME NEW bank \in Banks
  PROVE  Content(bank, Vector) = "hook" <=> bank \in {"override", "hook"}
<1>1. Vector # Elsewhere /\ Vector \in InVector /\ Vector \notin HookOnly
  BY DEF InVector, HookOnly
<1> QED
  BY <1>1, Contents DEF Banks

LEMMA Phases ==
  ASSUME romLowBase \in Banks, romLowBase' \in Banks
  PROVE  PhaseAt /\ PhaseAt'
<1>1. /\ Content(romLowBase, Vector) = "hook" <=> romLowBase \in {"override", "hook"}
      /\ Content(romLowBase', Vector) = "hook" <=> romLowBase' \in {"override", "hook"}
  BY VectorContent
<1>2. PhaseAt
  BY <1>1 DEF PhaseAt, PhaseOf
<1>3. PhaseAt'
  BY <1>1 DEF PhaseAt, PhaseOf
<1> QED
  BY <1>2, <1>3

LEMMA BankKnown == HookInv => romLowBase \in Banks
  BY DEF HookInv, TypeOK

\* The steps of the service, by the phases they lead from and to.
PhaseMoves ==
  \/ PhaseOf' = PhaseOf
  \/ PhaseOf = "game" /\ PhaseOf' = IF mode # 0 THEN "hook" ELSE "handler"
  \/ PhaseOf = "hook" /\ PhaseOf' \in {"asked", "handler"}
  \/ PhaseOf = "asked" /\ PhaseOf' = "saved"
  \/ PhaseOf = "saved" /\ PhaseOf' = "handler"
  \/ PhaseOf = "handler" /\ PhaseOf' = "game"

LEMMA ServiceMoves ==
  ASSUME mode' = mode, PhaseMoves
  PROVE  [Service!Next]_(Service!vars)
<1>1. (mode # 0)' = (mode # 0)
  OBVIOUS
<1> DEFINE from == PhaseOf
           to == PhaseOf'
<1> HIDE DEF from, to
<1>2. \/ to = from
      \/ from = "game" /\ to = IF mode # 0 THEN "hook" ELSE "handler"
      \/ from = "hook" /\ to \in {"asked", "handler"}
      \/ from = "asked" /\ to = "saved"
      \/ from = "saved" /\ to = "handler"
      \/ from = "handler" /\ to = "game"
  BY DEF PhaseMoves, from, to
<1>3. /\ \A a, b : Service!Step(a, b) <=> from = a /\ to = b
      /\ UNCHANGED (Service!vars) <=> to = from
  BY <1>1 DEF Service!Step, Service!vars, from, to
<1> QED
  BY <1>2, <1>3 DEF Service!Next, Service!Interrupt, Service!Ask, Service!Save,
                    Service!Serve, Service!Resume

LEMMA Fetched ==
  ASSUME HookInv', NEW from, NEW program, NEW addr, NEW next,
         Fetch(from, program, addr, next)
  PROVE  /\ pc = from /\ pc' = next
         /\ UNCHANGED <<mode, vblankHookState, romLowBase, doneFlag, storing>>
         /\ Stored' = Stored
<1>1. pc' # "lost"
  <2>1. HookInv' => FetchesWhatItMeans'
    BY NotLost, PTL
  <2> QED
    BY <2>1 DEF FetchesWhatItMeans
<1>2. /\ pc = from /\ pc' = next
      /\ UNCHANGED <<mode, vblankHookState, romLowBase, doneFlag, storing>>
  BY <1>1 DEF Fetch, Goto, constVars, cpuVars
<1> QED
  BY <1>2 DEF Stored

\* The done byte is set from the end of the store until the game runs on.
LEMMA StoredWhen ==
  ASSUME HookInv, mode # 0
  PROVE  /\ doneFlag => storing = "no"
         /\ Stored = doneFlag
         /\ doneFlag => vblankHookState \in {"saveTriggered", "returned"}
         /\ romLowBase = BankOf(vblankHookState)
<1>1. /\ doneFlag => vblankHookState \in {"saveTriggered", "returned"}
      /\ romLowBase = BankOf(vblankHookState)
      /\ doneFlag => storing = "no"
      /\ doneFlag \in BOOLEAN
  BY DEF HookInv, Mapped, TypeOK
<1> QED
  BY <1>1 DEF Stored

LEMMA GameBoyMoves ==
  ASSUME HookInv, HookInv', mode # 0, PhaseAt, PhaseAt', GameBoy
  PROVE  mode' = mode /\ PhaseMoves
<1> DEFINE Goal == mode' = mode /\ PhaseMoves
<1>1. CASE GameRuns
  <2>1. PICK addr : Fetch("game", "game", addr, "game")
    BY <1>1 DEF GameRuns
  <2> QED
    BY <2>1, Fetched DEF PhaseAt, PhaseMoves
<1>2. CASE VBlank
  <2>1. /\ pc = "game" /\ fifo = <<>> /\ pc' = "vector"
        /\ UNCHANGED <<mode, romLowBase>>
    BY <1>2 DEF VBlank, constVars, cpuVars
  <2>2. vblankHookState = "idle"
    BY <2>1, StatesAt DEF LeftVector
  <2>3. romLowBase = "override"
    BY <2>2, StoredWhen DEF BankOf
  <2> QED
    BY <2>1, <2>3 DEF PhaseAt, PhaseMoves
<1>3. CASE FetchVector
  <2>1. /\ pc = "vector" /\ UNCHANGED <<mode, romLowBase>>
        /\ \/ Content(romLowBase, Vector) = "hook" /\ pc' = "entry"
           \/ Content(romLowBase, Vector) # "hook" /\ pc' = "own"
    BY <1>3 DEF FetchVector, constVars, cpuVars
  <2>2. Content(romLowBase, Vector) = "hook" <=> romLowBase \in {"override", "hook"}
    BY BankKnown, VectorContent
  <2> QED
    BY <2>1, <2>2 DEF PhaseAt, PhaseMoves
<1>4. CASE RunEntry
  <2>1. /\ pc = "entry" /\ pc' \in {"entry", "handler", "lost"} /\ UNCHANGED mode
    BY <1>4 DEF RunEntry, Goto, constVars
  <2>2. HookInv' => FetchesWhatItMeans'
    BY NotLost, PTL
  <2> QED
    BY <2>1, <2>2 DEF PhaseAt, PhaseMoves, FetchesWhatItMeans
<1>5. CASE RunOwnHandler
  <2>1. /\ pc \in {"own", "ownAway"} /\ pc' \in {"own", "ownAway", "lost"}
        /\ UNCHANGED mode
    BY <1>5 DEF RunOwnHandler, constVars
  <2>2. HookInv' => FetchesWhatItMeans'
    BY NotLost, PTL
  <2> QED
    BY <2>1, <2>2 DEF PhaseAt, PhaseMoves, FetchesWhatItMeans
<1>6. CASE LeaveOwnHandler
  <2>1. PICK addr : pc \in {"own", "ownAway"} /\ Fetch(pc, "game", addr, "game")
    BY <1>6 DEF LeaveOwnHandler
  <2>2. pc' = "game" /\ mode' = mode
    BY <2>1, Fetched
  <2> QED
    BY <2>1, <2>2 DEF PhaseAt, PhaseMoves
<1>7. CASE RunHandler
  <2>1. pc = "handler" /\ pc' = "joypad" /\ mode' = mode
    BY <1>7, Fetched DEF RunHandler
  <2> QED
    BY <2>1 DEF PhaseAt, PhaseMoves
<1>8. CASE ReadJoypad \/ CheckForSaveTrigger
  <2>1. /\ pc \in {"joypad", "buttons"} /\ pc' \in {"buttons", "trigger", "leave"}
        /\ mode' = mode /\ Stored' = Stored
    BY <1>8, Fetched DEF ReadJoypad, CheckForSaveTrigger
  <2>2. vblankHookState \in {"interrupt", "processing"}
    BY <2>1, StatesAt
  <2>3. ~Stored
    BY <2>2, StoredWhen
  <2> QED
    BY <2>1, <2>3 DEF PhaseAt, PhaseMoves
<1>9. CASE JumpToTrigger \/ ScreenOff
  <2>1. /\ pc \in {"trigger", "screenOff"} /\ pc' \in {"screenOff", "waitForSave"}
        /\ mode' = mode /\ Stored' = Stored
    BY <1>9, Fetched DEF JumpToTrigger, ScreenOff
  <2> QED
    BY <2>1 DEF PhaseAt, PhaseMoves
<1>10. CASE WaitForGameSave
  <2>1. /\ pc = "waitForSave" /\ mode' = mode /\ Stored' = Stored
        /\ pc' = IF doneFlag THEN "waitForRelease" ELSE "waitForSave"
    BY <1>10, Fetched DEF WaitForGameSave
  <2>2. Stored = doneFlag
    BY StoredWhen
  <2> QED
    BY <2>1, <2>2 DEF PhaseAt, PhaseMoves
<1>11. CASE ButtonsReleased
  <2>1. pc = "waitForRelease" /\ pc' = "leave" /\ mode' = mode /\ Stored' = Stored
    BY <1>11, Fetched DEF ButtonsReleased
  <2> QED
    BY <2>1 DEF PhaseAt, PhaseMoves
<1>12. CASE LeaveHook
  <2>1. /\ pc = "leave" /\ pc' = "vector"
        /\ UNCHANGED <<mode, romLowBase>> /\ Stored' = Stored
    BY <1>12, Fetched DEF LeaveHook
  <2>2. vblankHookState \in {"interrupt", "processing", "saveTriggered"}
    BY <2>1, StatesAt
  <2>3. Stored => vblankHookState = "saveTriggered" /\ romLowBase = "hook2"
    BY <2>2, StoredWhen DEF BankOf
  <2> QED
    BY <2>1, <2>3 DEF PhaseAt, PhaseMoves
<1>13. Goal
  BY <1>1, <1>2, <1>3, <1>4, <1>5, <1>6, <1>7, <1>8, <1>9, <1>10, <1>11, <1>12
     DEF GameBoy
<1> QED
  BY <1>13

LEMMA Rp2040Moves ==
  ASSUME HookInv, mode # 0, PhaseAt, PhaseAt', Rp2040
  PROVE  mode' = mode /\ PhaseMoves
<1> DEFINE Goal == mode' = mode /\ PhaseMoves
<1>1. CASE HookInterrupt
  <2>1. /\ vblankHookState = "idle" /\ fifo # <<>> /\ Head(fifo) = Vector
        /\ UNCHANGED <<mode, pc>>
    BY <1>1 DEF HookInterrupt, Handle, constVars, gbVars
  <2>2. ~(fifo \in Seq(NotVector))
    BY <2>1, TailIn DEF NotVector
  <2>3. pc \in {"entry", "handler"}
    BY <2>1, <2>2 DEF HookInv, Place, WhenIdle
  <2> QED
    BY <2>1, <2>3 DEF PhaseAt, PhaseMoves
<1>2. CASE HookProcessing
  <2>1. /\ vblankHookState = "interrupt" /\ fifo # <<>> /\ Head(fifo) = Handler
        /\ UNCHANGED <<mode, pc, doneFlag, storing>> /\ romLowBase' = "hook2"
    BY <1>2 DEF HookProcessing, Handle, Enter, constVars, gbVars
  <2>2. ~(fifo \in Seq(VR))
    BY <2>1, TailIn DEF VR
  <2>3. pc \in InHook
    BY <2>1, <2>2 DEF HookInv, Place, WhenInterrupted
  <2>4. romLowBase = "hook" /\ Stored' = Stored
    BY <2>1, StoredWhen DEF BankOf, Stored
  <2> QED
    BY <2>1, <2>3, <2>4 DEF PhaseAt, PhaseMoves, InHook
<1>3. CASE HookSaveTriggered
  <2>1. /\ vblankHookState = "processing" /\ UNCHANGED <<mode, pc>>
        /\ storing' = "save"
    BY <1>3 DEF HookSaveTriggered, Handle, constVars, gbVars
  <2>2. ~Stored /\ ~Stored'
    BY <2>1, StoredWhen DEF Stored
  <2>3. pc \in {"screenOff", "waitForSave"}
    BY <1>3, HookSaveTriggeredSafe
  <2> QED
    BY <2>1, <2>2, <2>3 DEF PhaseAt, PhaseMoves
<1>4. CASE HookReturned
  <2>1. UNCHANGED <<mode, pc>>
    BY <1>4 DEF HookReturned, Handle, constVars, gbVars
  <2>2. pc \in {"own", "ownAway"}
    BY <1>4, HookReturnedSafe
  <2> QED
    BY <2>1, <2>2 DEF PhaseAt, PhaseMoves
<1>5. CASE HookIdle
  <2>1. UNCHANGED <<mode, pc>>
    BY <1>5 DEF HookIdle, Handle, constVars, gbVars
  <2>2. pc \in {"ownAway", "game"}
    BY <1>5, HookIdleSafe
  <2> QED
    BY <2>1, <2>2 DEF PhaseAt, PhaseMoves
<1>6. CASE HookIgnores
  <2>1. UNCHANGED <<mode, pc, romLowBase, doneFlag, storing>>
    BY <1>6 DEF HookIgnores, Handle, constVars, gbVars, cpuVars
  <2>2. PhaseOf' = PhaseOf
    BY <2>1 DEF PhaseOf, Stored
  <2> QED
    BY <2>1, <2>2 DEF PhaseMoves
<1>7. CASE StoreSaveRam \/ StoreRtc \/ EnableSm \/ WriteDone
  <2>1. /\ storing # "no" /\ UNCHANGED <<mode, pc>>
    BY <1>7 DEF StoreSaveRam, StoreRtc, EnableSm, WriteDone, StoreStep,
                constVars, gbVars
  <2>2. pc \in {"screenOff", "waitForSave"} /\ ~Stored
    BY <2>1, StoringPlace DEF Stored
  <2> QED
    BY <2>1, <2>2 DEF PhaseAt, PhaseMoves
<1>8. Goal
  BY <1>1, <1>2, <1>3, <1>4, <1>5, <1>6, <1>7 DEF Rp2040, NoHook
<1> QED
  BY <1>8

LEMMA ServiceStep ==
  ASSUME HookInv, HookInv', [Next]_vars
  PROVE  [Service!Next]_(Service!vars)
<1>1. romLowBase \in Banks /\ romLowBase' \in Banks
  <2>1. HookInv' => (romLowBase \in Banks)'
    BY BankKnown, PTL
  <2> QED
    BY <2>1, BankKnown
<1>2. PhaseAt /\ PhaseAt'
  BY <1>1, Phases
<1>3. CASE UNCHANGED vars
  <2>1. UNCHANGED <<mode, pc, romLowBase, doneFlag, storing>>
    BY <1>3 DEF vars
  <2>2. PhaseOf' = PhaseOf
    BY <2>1 DEF PhaseOf, Stored
  <2> QED
    BY <2>1, <2>2, ServiceMoves DEF PhaseMoves
<1>4. CASE mode = 0 /\ Next
  <2>1. romLowBase = "memory" /\ UNCHANGED <<mode, romLowBase>>
    BY <1>4, UnhookedSafe DEF HookInv, Unhooked
  <2>2. /\ pc \in {"game", "vector", "own", "ownAway"}
        /\ \/ pc = "game" /\ pc' \in {"game", "vector"}
           \/ pc \in {"vector", "own", "ownAway"} /\ pc' \in {"own", "ownAway"}
           \/ pc \in {"own", "ownAway"} /\ pc' = "game"
           \/ pc' = pc
    BY <1>4, UnhookedSafe
  <2>3. PhaseMoves
    BY <1>2, <1>4, <2>1, <2>2 DEF PhaseAt, PhaseMoves
  <2> QED
    BY <2>1, <2>3, ServiceMoves
<1>5. CASE mode # 0 /\ Next
  BY <1>2, <1>5, GameBoyMoves, Rp2040Moves, ServiceMoves DEF Next
<1> QED
  BY <1>3, <1>4, <1>5

(* Every vblank of a game ends in its own handler exactly once, and a save *)
(* that the player asked for is in the flash before that: the hook and     *)
(* process_vblank_hook implement VBlankService.                            *)
THEOREM HookImplementsService ==
  ASSUME HandlerComesBack = FALSE
  PROVE  Spec => ImplementsService
<1>1. Init => Service!Init
  BY DEF Init, Service!Init, PhaseOf
<1>2. HookInv /\ HookInv' /\ [Next]_vars => [Service!Next]_(Service!vars)
  BY ServiceStep
<1> QED
  BY <1>1, <1>2, HookInvAlways, PTL DEF Spec, ImplementsService, Service!Spec
=============================================================================
