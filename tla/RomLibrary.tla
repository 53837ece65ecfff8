----------------------------- MODULE RomLibrary -----------------------------
(***************************************************************************)
(* What the cartridge promises the person who owns it: a shelf of ROM      *)
(* images.  An upload puts a whole image on the shelf in one step and a    *)
(* deletion takes it off; nothing else changes what a slot holds, and no   *)
(* slot ever holds a part of an image, a mixture of two, or the bytes of   *)
(* another slot.                                                           *)
(*                                                                         *)
(* RomStorage implements this module: an upload is hundreds of chunk       *)
(* commands, flash erasures, flash programmings and file system calls, any *)
(* two of which a power cut may separate.                                  *)
(***************************************************************************)

CONSTANTS Names,   \* file names below /roms
          Images,  \* ROM images a host may upload
          NoImage  \* marks a free name; no member of Images

VARIABLE library   \* library[n]: the image stored under the name n

Init == library = [n \in Names |-> NoImage]

\* An upload finishes: the name was free, and it now holds the whole image.
Store(n, img) ==
  /\ library[n] = NoImage
  /\ library' = [library EXCEPT ![n] = img]

\* A stored ROM is deleted.
Remove(n) ==
  /\ library[n] # NoImage
  /\ library' = [library EXCEPT ![n] = NoImage]

Next == \E n \in Names : Remove(n) \/ \E img \in Images : Store(n, img)

Spec == Init /\ [][Next]_library
=============================================================================
