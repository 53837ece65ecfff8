------------------------------ MODULE FileStore -----------------------------
(***************************************************************************)
(* What the firmware relies on when it writes files: a file is created     *)
(* empty, changes as a whole when it is closed, and otherwise keeps its    *)
(* content, whenever power goes. At most one file is open.                 *)
(***************************************************************************)
EXTENDS Naturals, Sequences

CONSTANTS
  Names,  \* file names
  Units   \* pieces of data

VARIABLES
  files,  \* content of each file that exists
  handle  \* the open file and what was written to it; empty when none is open

vars == <<files, handle>>

Absent == [n \in {} |-> <<>>]

TypeOK ==
  /\ DOMAIN files \subseteq Names
  /\ \A n \in DOMAIN files : files[n] \in Seq(Units)
  /\ handle = {}
     \/ \E h \in handle : handle = {h} /\ h.name \in DOMAIN files

Init == files = Absent /\ handle = {}

(* What is written replaces the beginning of the file. *)
Over(new, old) == new \o SubSeq(old, Len(new) + 1, Len(old))

Create(n) ==
  /\ UNCHANGED handle
  /\ n \notin DOMAIN files
  /\ files' = [m \in DOMAIN files \cup {n} |-> IF m = n THEN <<>> ELSE files[m]]

Open(n) ==
  /\ handle = {}
  /\ handle' = {[name |-> n, data |-> <<>>]}
  /\ n \in DOMAIN files
  /\ UNCHANGED files

Write(u) ==
  \E h \in handle :
    /\ handle' = {[h EXCEPT !.data = Append(@, u)]}
    /\ UNCHANGED files

Close ==
  \E h \in handle :
    /\ files' = [files EXCEPT ![h.name] = Over(h.data, @)]
    /\ handle' = {}

(* A write failed, or power went. *)
Abort == handle # {} /\ handle' = {} /\ UNCHANGED files

Remove(n) ==
  /\ n \in DOMAIN files
  /\ files' = [m \in DOMAIN files \ {n} |-> files[m]]
  /\ handle' = {h \in handle : h.name # n}

Next ==
  \/ \E n \in Names : Create(n) \/ Open(n) \/ Remove(n)
  \/ \E u \in Units : Write(u)
  \/ Close
  \/ Abort

Spec == Init /\ [][Next]_vars
=============================================================================
