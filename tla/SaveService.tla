---------------------------- MODULE SaveService -----------------------------
(***************************************************************************)
(* What the save game commands of the USB interface promise to the host: a *)
(* download returns the stored save as it is, an upload that was confirmed *)
(* replaces it as a whole, and a transfer that breaks off leaves it alone. *)
(***************************************************************************)
CONSTANTS
  Games,   \* games that may be on the cartridge
  Absent,  \* there is no save file
  Empty,   \* a save file without content
  Values,  \* contents of complete saves
  NoGame   \* not a game

VARIABLES
  saves,  \* the save of each game
  host    \* the transfer the host is in: [op, game, data]

vars == <<saves, host>>

Idle == [op |-> "idle", game |-> NoGame, data |-> Empty]
Free == host.op \in {"idle", "have", "stored"}

Init ==
  /\ saves = [g \in Games |-> Absent]
  /\ host = Idle

(* The host asks for a save, or offers one; the file may be created. *)
Ask(g) ==
  /\ Free
  /\ host' = [op |-> "download", game |-> g, data |-> Empty]
  /\ UNCHANGED saves

Offer(g, v) ==
  /\ Free
  /\ host' = [op |-> "upload", game |-> g, data |-> v]
  /\ \/ UNCHANGED saves
     \/ saves[g] = Absent /\ saves' = [saves EXCEPT ![g] = Empty]

Deliver ==
  /\ host.op = "download"
  /\ saves[host.game] # Absent
  /\ host' = [op |-> "have", game |-> host.game, data |-> saves[host.game]]
  /\ UNCHANGED saves

Confirm ==
  /\ host.op = "upload"
  /\ saves' = [saves EXCEPT ![host.game] = host.data]
  /\ host' = [host EXCEPT !.op = "stored"]

(* A transfer is refused or fails, the host leaves, the cartridge restarts. *)
BreakOff ==
  /\ host' = Idle
  /\ UNCHANGED saves

(* The ROM is deleted with its save, or the game is played and saves. *)
Delete(g) ==
  /\ Free
  /\ saves' = [saves EXCEPT ![g] = Absent]
  /\ host' = Idle

Play(g, v) ==
  /\ saves' = [saves EXCEPT ![g] = v]
  /\ host' = Idle

Next ==
  \/ \E g \in Games :
       \/ Ask(g)
       \/ Delete(g)
       \/ \E v \in Values : Offer(g, v) \/ Play(g, v)
  \/ Deliver \/ Confirm \/ BreakOff

Spec == Init /\ [][Next]_vars
=============================================================================
