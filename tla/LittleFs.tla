------------------------------ MODULE LittleFs ------------------------------
(***************************************************************************)
(* How littlefs keeps files over power cuts (lfs.c, lfs_pico_hal.c), as    *)
(* far as the firmware uses it: one directory in a pair of metadata blocks,*)
(* files that are written from their beginning and closed, and removals.   *)
(*                                                                         *)
(* The directory is a log of commits. A commit is appended to the newer    *)
(* block of the pair, or, when it does not fit, the whole directory goes to*)
(* the other block under a higher revision. Data blocks are allocated from *)
(* a window over the flash that a traversal of the tree fills in, and are  *)
(* never written while a commit names them.                                *)
(*                                                                         *)
(* Data comes in units. A block is programmed when its last unit is written*)
(* or the file is closed, as if lfs->cfg->cache_size were a block.         *)
(***************************************************************************)
EXTENDS Integers, Sequences, FiniteSets, FiniteSetsExt, SequencesExt

CONSTANTS
  Names,       \* file names
  NoName,      \* the name when there is none
  Units,       \* pieces of data
  BlockCount,  \* blocks of the flash; 0 and 1 are the metadata pair
  Slots,       \* commits that fit in a metadata block
  BlockUnits,  \* units that fit in a data block
  InlineMax,   \* units of a file that fit in the directory
  Lookahead,   \* blocks of the allocator's window
  Seeds,       \* where the first window after a mount may start
  MaxUnits,    \* bound: units written to an open file
  MaxCalls,    \* bound: files opened and removed
  MaxCuts      \* bound: power cuts

ASSUME LittleFsAssumption ==
  /\ BlockCount \in Nat /\ BlockCount > 2
  /\ {Slots, BlockUnits, Lookahead} \subseteq Nat \ {0}
  /\ NoName \notin Names
  /\ Seeds \subseteq 0 .. BlockCount - 1
  /\ InlineMax \in 0 .. BlockUnits - 1
  /\ {MaxUnits, MaxCalls, MaxCuts} \subseteq Nat

VARIABLES
  meta,     \* flash: the metadata pair
  data,     \* flash: the units in each data block
  mounted,  \* lfs_mount has succeeded
  mdir,     \* the directory as last fetched or committed; before a mount, as
            \* it will be fetched
  free,     \* lfs->free, the allocator's window
  file,     \* the open file
  op,       \* the call in progress and the step it is at
  calls, cuts

flash == <<meta, data>>
bounds == <<calls, cuts>>
vars == <<flash, mounted, mdir, free, file, op, bounds>>

-----------------------------------------------------------------------------
(* Directory entries and commits. *)

NoEntries == [n \in {} |-> 0]
Only(name, entry) == [n \in {name} |-> entry]

Inline(units) ==
  [type |-> "inline", units |-> units, blocks |-> <<>>, size |-> Len(units)]
Ctz(blocks, size) ==
  [type |-> "ctz", units |-> <<>>, blocks |-> blocks, size |-> size]
Deleted == [type |-> "deleted", units |-> <<>>, blocks |-> <<>>, size |-> 0]

(* What is found where a commit may be. After a power cut the beginning of *)
(* an unfinished commit may still read as erased.                          *)
Commit(entries) == [kind |-> "commit", entries |-> entries]
Torn == [kind |-> "torn", entries |-> NoEntries]
Blank == [kind |-> "blank", entries |-> NoEntries]
LooksBlank == [kind |-> "looksBlank", entries |-> NoEntries]

Block(rev, slots) == [rev |-> rev, slots |-> slots]
Rest(slot, n) == [i \in 1 .. n |-> slot]

(* Erased, the revision reads as -1. *)
Erased == Block(-1, Rest(Blank, Slots))

(* A data block that holds units; 0 reads as none of them. *)
Filled(units) ==
  [k \in 1 .. BlockUnits |-> IF k <= Len(units) THEN units[k] ELSE 0]
Junk == Filled(<<>>)

(* The commits of a block before the first slot that holds none. *)
Valid(block) ==
  Cardinality({i \in 1 .. Slots : \A j \in 1 .. i : block.slots[j].kind = "commit"})

Newer(pair) == IF pair[1].rev > pair[0].rev THEN 1 ELSE 0

(* Wrong: the revision alone decides. *)
Current_Newer(pair) == Newer(pair)

(* lfs_dir_fetchmatch: the newer block, or the other if it has no commit.  *)
Current(pair) ==
  IF Valid(pair[Newer(pair)]) > 0 THEN Newer(pair) ELSE 1 - Newer(pair)

(* What the commits of a block say of each name, the last one first. *)
Entries(commits) ==
  LET latest(n) == {i \in DOMAIN commits :
                      /\ n \in DOMAIN commits[i].entries
                      /\ \A j \in i + 1 .. Len(commits) :
                           n \notin DOMAIN commits[j].entries}
      there(n) == \E i \in latest(n) : commits[i].entries[n].type # "deleted"
  IN [n \in {m \in Names : there(m)} |->
        commits[CHOOSE i \in latest(n) : TRUE].entries[n]]

Fetch(pair) ==
  LET cur == Current(pair)
      off == Valid(pair[cur])
  IN [cur |-> cur, rev |-> pair[cur].rev, off |-> off,
      erased |-> off < Slots
                 /\ pair[cur].slots[off + 1].kind \in {"blank", "looksBlank"},
      entries |-> Entries(SubSeq(pair[cur].slots, 1, off))]

Fetchable(pair) == Valid(pair[Current(pair)]) > 0

(* A directory after one more commit. *)
Applied(entries, more) ==
  LET last(n) == IF n \in DOMAIN more THEN more[n] ELSE entries[n]
  IN [n \in {m \in DOMAIN more \cup DOMAIN entries : last(m).type # "deleted"}
        |-> last(n)]

Directory == mdir.entries

(* The content of an entry, read from the flash. *)
Content(entry) ==
  IF entry.type = "inline" THEN entry.units
  ELSE [k \in 1 .. entry.size |->
          data[entry.blocks[1 + ((k - 1) \div BlockUnits)]][1 + ((k - 1) % BlockUnits)]]

-----------------------------------------------------------------------------
(* The open file. While it is inline, cache holds all of it; else the units*)
(* of its last block.                                                      *)
Closed == [open |-> FALSE, name |-> NoName,
           inline |-> FALSE, writing |-> FALSE, erred |-> FALSE, gone |-> FALSE,
           pos |-> 0, entry |-> Inline(<<>>), blocks |-> <<>>, cache |-> <<>>]

Opened(name, entry) ==
  [Closed EXCEPT !.open = TRUE, !.name = name, !.entry = entry,
                 !.inline = entry.type = "inline", !.cache = entry.units]

Idle == [call |-> "none", at |-> "idle", name |-> Closed.name, unit |-> 0,
         pos |-> 0, entries |-> NoEntries]

At(call, at) == op.call = call /\ op.at = at
Goto(at) == op' = [op EXCEPT !.at = at]
Return == op' = Idle

(* The blocks that lfs_fs_rawtraverse comes by. *)
ChainOf(entry) == ToSet(entry.blocks)
Tree == {0, 1} \cup UNION {ChainOf(Directory[n]) : n \in DOMAIN Directory}
Chain == IF file.writing /\ ~file.inline THEN ToSet(file.blocks) ELSE {}

(* Wrong: the blocks of the file that is being written are not looked at.  *)
InUse_NoOpenFile == Tree

InUse == Tree \cup Chain

NoWindow == [off |-> 0, size |-> 0, i |-> 0, ack |-> BlockCount, used |-> {}]

(* The flash has never been used. *)
Init ==
  /\ meta = [b \in 0 .. 1 |-> Erased]
  /\ data = [b \in 2 .. BlockCount - 1 |-> Junk]
  /\ mounted = FALSE
  /\ mdir = Fetch(meta)
  /\ free = NoWindow
  /\ file = Closed
  /\ op = Idle
  /\ calls = 0 /\ cuts = 0

(* The first window starts where lfs->seed says. *)
Mount ==
  /\ ~mounted
  /\ Fetchable(meta)
  /\ mounted' = TRUE
  /\ mdir' = Fetch(meta)
  /\ \E off \in Seeds : free' = [NoWindow EXCEPT !.off = off]
  /\ UNCHANGED <<flash, file, op, bounds>>

(* main.c formats what it cannot mount. *)
Format ==
  /\ ~mounted
  /\ ~Fetchable(meta)
  /\ meta' = [b \in 0 .. 1 |->
       Block(2 - b, <<Commit(NoEntries)>> \o Rest(Blank, Slots - 1))]
  /\ mdir' = Fetch(meta')
  /\ UNCHANGED <<data, mounted, free, file, op, bounds>>

-----------------------------------------------------------------------------
(* Commits to the directory. *)

StartCommit(entries) == op' = [op EXCEPT !.at = "append", !.entries = entries]

(* lfs_dir_relocatingcommit: append; a commit over bits that were not      *)
(* erased does not read back, and the directory is compacted.              *)
Append_ ==
  /\ op.at = "append"
  /\ mdir.erased /\ mdir.off < Slots
  /\ LET slot == mdir.off + 1
         blank == meta[mdir.cur].slots[slot].kind = "blank"
     IN /\ meta' = [meta EXCEPT ![mdir.cur].slots[slot] =
                      IF blank THEN Commit(op.entries) ELSE Torn]
        /\ mdir' = IF blank
                   THEN [mdir EXCEPT !.off = slot, !.entries = Applied(@, op.entries)]
                   ELSE mdir
        /\ Goto(IF blank THEN "done" ELSE "erase")
  /\ UNCHANGED <<data, mounted, free, file, bounds>>

NoRoom ==
  /\ op.at = "append"
  /\ ~mdir.erased \/ mdir.off = Slots
  /\ Goto("erase")
  /\ UNCHANGED <<flash, mounted, mdir, free, file, bounds>>

(* lfs_dir_compact writes the other block of the pair. *)
Target == 1 - mdir.cur

EraseBlock ==
  /\ op.at = "erase"
  /\ meta' = [meta EXCEPT ![Target] = Erased]
  /\ Goto("compact")
  /\ UNCHANGED <<data, mounted, mdir, free, file, bounds>>

Compacted == Applied(Directory, op.entries)

Compact ==
  /\ op.at = "compact"
  /\ meta' = [meta EXCEPT ![Target] =
               Block(mdir.rev + 1, <<Commit(Compacted)>> \o Rest(Blank, Slots - 1))]
  /\ mdir' = [mdir EXCEPT !.cur = Target, !.rev = @ + 1, !.off = 1,
                         !.entries = Compacted]
  /\ Goto("done")
  /\ UNCHANGED <<data, mounted, free, file, bounds>>

-----------------------------------------------------------------------------
(* The allocator. *)

Offset(b) == (b - free.off + BlockCount) % BlockCount
IsFree(i) == (free.off + i) % BlockCount \notin free.used

(* The first free block of the window at i or after, or its end. *)
NextFree(i) == Min({free.size} \cup {j \in i .. free.size - 1 : IsFree(j)})

Taken(i) == [free EXCEPT !.i = NextFree(i + 1), !.ack = @ - (NextFree(i + 1) - free.i)]

(* The window is looked through: the next one, from a traversal. *)
Scan ==
  /\ op.at = "alloc"
  /\ NextFree(free.i) = free.size
  /\ LET ack == free.ack - (free.size - free.i)
         off == (free.off + free.size) % BlockCount
         size == IF Lookahead < ack THEN Lookahead ELSE ack
     IN /\ ack > 0
        /\ free' = [off |-> off, size |-> size, i |-> 0, ack |-> ack,
                    used |-> {b \in InUse :
                                (b - off + BlockCount) % BlockCount < size}]
  /\ UNCHANGED <<flash, mounted, mdir, file, op, bounds>>

(* All blocks were looked at since the last lfs_alloc_ack: LFS_ERR_NOSPC.  *)
NoSpace ==
  /\ op.at = "alloc"
  /\ NextFree(free.i) = free.size
  /\ free.ack = free.size - free.i
  /\ free' = [free EXCEPT !.i = free.size, !.ack = 0]
  /\ file' = [file EXCEPT !.erred = TRUE]
  /\ IF op.call = "write" THEN Return ELSE Goto("closed")
  /\ UNCHANGED <<flash, mounted, mdir, bounds>>

(* A block is taken and erased. An inline file moves into it, another one  *)
(* goes on there.                                                          *)
Take ==
  LET i == NextFree(free.i)
      block == (free.off + i) % BlockCount
  IN /\ op.at = "alloc"
     /\ i < free.size
     /\ free' = Taken(i)
     /\ data' = [data EXCEPT ![block] = Junk]
     /\ file' = [file EXCEPT !.inline = FALSE, !.writing = TRUE,
                   !.blocks = IF file.inline THEN <<block>> ELSE Append(@, block),
                   !.cache = IF file.inline THEN SubSeq(@, 1, file.pos) ELSE <<>>]
     /\ Goto("put")
     /\ UNCHANGED <<meta, mounted, mdir, bounds>>

-----------------------------------------------------------------------------
(* Calls. *)

Call(call, name) ==
  /\ mounted
  /\ op = Idle
  /\ calls < MaxCalls
  /\ calls' = calls + 1
  /\ mdir' = Fetch(meta)
  /\ UNCHANGED <<flash, mounted, free, cuts>>

(* lfs_file_rawopencfg with LFS_O_WRONLY and LFS_O_CREAT. *)
lfs_file_open(name) ==
  LET found == Fetch(meta).entries IN
  /\ ~file.open
  /\ Call("open", name)
  /\ IF name \in DOMAIN found
     THEN file' = Opened(name, found[name]) /\ UNCHANGED op
     ELSE /\ op' = [Idle EXCEPT !.call = "open", !.at = "append", !.name = name,
                                !.entries = Only(name, Inline(<<>>))]
          /\ UNCHANGED file

Created ==
  /\ At("open", "done")
  /\ file' = Opened(op.name, Inline(<<>>))
  /\ Return
  /\ UNCHANGED <<flash, mounted, mdir, free, bounds>>

(* lfs_file_rawwrite of a unit. *)
lfs_file_write(unit) ==
  /\ file.open /\ op = Idle
  /\ file.pos < MaxUnits
  /\ op' = [Idle EXCEPT !.call = "write", !.at = "put", !.unit = unit]
  /\ UNCHANGED <<flash, mounted, mdir, free, file, bounds>>

MaxOf(a, b) == IF a > b THEN a ELSE b

(* Wrong: one unit too late. *)
Outgrown_Late == file.inline /\ MaxOf(file.pos, file.entry.size) > InlineMax

Outgrown == file.inline /\ MaxOf(file.pos + 1, file.entry.size) > InlineMax
BlockFull == ~file.inline /\ (~file.writing \/ Len(file.cache) = BlockUnits)

Acked == [free EXCEPT !.ack = BlockCount]

NeedsBlock ==
  /\ op.at = "put"
  /\ Outgrown \/ BlockFull
  /\ free' = Acked
  /\ Goto("alloc")
  /\ UNCHANGED <<flash, mounted, mdir, file, bounds>>

(* The unit that is written: the caller's, or in lfs_file_flush one of the *)
(* old content behind it.                                                  *)
Unit == IF op.call = "write" THEN op.unit ELSE Content(file.entry)[file.pos + 1]

Placed ==
  IF file.inline
  THEN SubSeq(file.cache, 1, file.pos) \o <<Unit>>
       \o SubSeq(file.cache, file.pos + 2, Len(file.cache))
  ELSE Append(file.cache, Unit)

Put ==
  /\ op.at = "put"
  /\ ~Outgrown /\ ~BlockFull
  /\ file' = [file EXCEPT !.cache = Placed, !.pos = @ + 1, !.writing = TRUE,
                          !.erred = @ /\ op.call # "write"]
  /\ data' = IF ~file.inline /\ Len(Placed) = BlockUnits
             THEN [data EXCEPT ![Last(file.blocks)] = Filled(Placed)] ELSE data
  /\ free' = Acked
  /\ IF op.call = "write" THEN Return ELSE Goto("flush")
  /\ UNCHANGED <<meta, mounted, mdir, bounds>>

(* lfs_file_rawclose: lfs_file_rawsync, unless a write failed. *)
lfs_file_close ==
  /\ file.open /\ op = Idle
  /\ op' = [Idle EXCEPT !.call = "close", !.pos = file.pos,
                        !.at = IF file.erred \/ ~file.writing THEN "closed" ELSE "flush"]
  /\ UNCHANGED <<flash, mounted, mdir, free, file, bounds>>

(* Old content behind what was written. *)
Behind == ~file.inline /\ file.pos < file.entry.size

CopyOld ==
  /\ At("close", "flush")
  /\ Behind
  /\ Goto("put")
  /\ UNCHANGED <<flash, mounted, mdir, free, file, bounds>>

NewEntry ==
  IF file.inline THEN Inline(file.cache) ELSE Ctz(file.blocks, file.pos)

(* The last block is programmed, then the entry committed. *)
Flush ==
  /\ At("close", "flush")
  /\ ~Behind
  /\ data' = IF file.inline THEN data
             ELSE [data EXCEPT ![Last(file.blocks)] = Filled(file.cache)]
  /\ IF file.gone THEN Goto("closed")
     ELSE StartCommit(Only(file.name, NewEntry))
  /\ UNCHANGED <<meta, mounted, mdir, free, file, bounds>>

Synced ==
  /\ At("close", "done")
  /\ file' = Closed
  /\ Return
  /\ UNCHANGED <<flash, mounted, mdir, free, bounds>>

CloseOnly ==
  /\ At("close", "closed")
  /\ file' = Closed
  /\ Return
  /\ UNCHANGED <<flash, mounted, mdir, free, bounds>>

(* lfs_rawremove; the file may be open. *)
lfs_remove(name) ==
  /\ name \in DOMAIN Fetch(meta).entries
  /\ Call("remove", name)
  /\ op' = [Idle EXCEPT !.call = "remove", !.at = "append", !.name = name,
                        !.entries = Only(name, Deleted)]
  /\ UNCHANGED file

Removed ==
  /\ At("remove", "done")
  /\ file' = [file EXCEPT !.gone = @ \/ (file.open /\ file.name = op.name)]
  /\ Return
  /\ UNCHANGED <<flash, mounted, mdir, free, bounds>>

-----------------------------------------------------------------------------
(* Power. *)

(* What an unfinished step may leave in the metadata pair. *)
AfterCut ==
  {meta} \cup
  CASE op.at = "append" /\ mdir.erased /\ mdir.off < Slots ->
         {[meta EXCEPT ![mdir.cur].slots[mdir.off + 1] = slot] :
            slot \in {Torn, LooksBlank}}
    [] op.at = "erase" ->
         {[meta EXCEPT ![Target] = Block(rev, Rest(Torn, Slots))] :
            rev \in {-1, mdir.rev + 2}}
    [] op.at = "compact" ->
         {[meta EXCEPT ![Target] =
             Block(mdir.rev + 1, <<slot>> \o Rest(Blank, Slots - 1))] :
            slot \in {Torn, LooksBlank}}
    [] OTHER -> {}

(* A block that was being programmed; a commit waits until it is. *)
Broken ==
  {data} \cup
  IF Chain # {} /\ op.at \in {"alloc", "put", "flush"}
  THEN {[data EXCEPT ![Last(file.blocks)] = Junk]} ELSE {}

PowerCut ==
  /\ mounted
  /\ cuts < MaxCuts
  /\ cuts' = cuts + 1
  /\ meta' \in AfterCut
  /\ data' \in Broken
  /\ mounted' = FALSE
  /\ mdir' = Fetch(meta')
  /\ free' = NoWindow
  /\ file' = Closed
  /\ op' = Idle
  /\ UNCHANGED calls

Next ==
  \/ Mount \/ Format
  \/ \E n \in Names : lfs_file_open(n) \/ lfs_remove(n)
  \/ \E u \in Units : lfs_file_write(u)
  \/ lfs_file_close
  \/ Append_ \/ NoRoom \/ EraseBlock \/ Compact
  \/ Scan \/ NoSpace \/ Take
  \/ Created \/ NeedsBlock \/ Put \/ CopyOld \/ Flush \/ Synced \/ CloseOnly
  \/ Removed
  \/ PowerCut

Spec == Init /\ [][Next]_vars

-----------------------------------------------------------------------------
(* Blocks, windows and open files have their types: the allocator never    *)
(* counts below zero, a data block that holds anything is no longer than a *)
(* block, and a file leaves the directory before it outgrows it.           *)
TypeOK ==
  /\ \A b \in 0 .. 1 : Len(meta[b].slots) = Slots /\ meta[b].rev \in Nat \cup {-1}
  /\ \A b \in DOMAIN data :
       data[b] \in [1 .. BlockUnits -> Units \cup {0}]
  /\ mounted \in BOOLEAN
  /\ mdir.cur \in 0 .. 1 /\ mdir.off \in 0 .. Slots
  /\ DOMAIN Directory \subseteq Names
  /\ free.size \in 0 .. Lookahead
  /\ free.i \in 0 .. free.size
  /\ free.ack \in 0 .. BlockCount
  /\ file.inline => Len(file.cache) <= InlineMax
  /\ Len(file.cache) <= BlockUnits

(* The allocator gives out no block that a file in the directory still     *)
(* needs, nor one that the open file has already filled, though what the   *)
(* window holds may be older than the last commit (lfs_alloc); and the     *)
(* directory in RAM is the one that a mount would find.                    *)
BlocksNotShared ==
  mounted =>
    /\ \A m, n \in DOMAIN Directory :
         m # n => ChainOf(Directory[m]) \cap ChainOf(Directory[n]) = {}
    /\ ~At("close", "done") => Chain \cap Tree = {}
    /\ Cardinality(Chain) = Len(IF Chain = {} THEN <<>> ELSE file.blocks)
    /\ Directory = Fetch(meta).entries

(* Files are written as FileStore says, whatever a power cut leaves of an  *)
(* erased or programmed block: a mount finds each file as it was closed    *)
(* last, and a file that does not fit stays as it was.                     *)
Found == [n \in DOMAIN Directory |-> Content(Directory[n])]

WrittenUnits ==
  IF ~file.writing THEN <<>>
  ELSE IF file.inline THEN file.cache
  ELSE Content(Ctz(file.blocks, (Len(file.blocks) - 1) * BlockUnits)) \o file.cache

Handle ==
  IF \/ ~file.open \/ file.gone
     \/ op.at = "closed"
     \/ At("close", "done")
     \/ (At("remove", "done") /\ op.name = file.name)
  THEN {}
  ELSE {[name |-> file.name,
         data |-> SubSeq(WrittenUnits, 1,
                         IF op.call = "close" THEN op.pos ELSE file.pos)]}

Store == INSTANCE FileStore WITH files <- Found, handle <- Handle

ImplementsFileStore == Store!Spec
=============================================================================
