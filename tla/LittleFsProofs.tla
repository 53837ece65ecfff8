--------------------------- MODULE LittleFsProofs ---------------------------
(***************************************************************************)
(* Proofs about LittleFs: on a flash of any size, whatever is written,     *)
(* removed and cut off, no data block belongs to two files or is given out *)
(* while one of them needs it, a mount finds the directory that the last   *)
(* commit made, and a file changes only when it is closed: LittleFs        *)
(* implements FileStore.                                                   *)
(***************************************************************************)
EXTENDS LittleFs, FiniteSetTheorems, SequenceTheorems, WellFoundedInduction,
        TLAPS

-----------------------------------------------------------------------------
(* Numbers. *)

LEMMA Constants ==
  /\ BlockCount \in Nat /\ BlockCount > 2
  /\ Slots \in Nat /\ Slots >= 1
  /\ BlockUnits \in Nat /\ BlockUnits >= 1
  /\ Lookahead \in Nat /\ Lookahead >= 1
  /\ InlineMax \in Nat /\ InlineMax < BlockUnits
BY LittleFsAssumption

\* A set of natural numbers has a least member.
LEMMA LeastNumber ==
  ASSUME NEW S, S \subseteq Nat, S # {}
  PROVE  \E n \in S : \A k \in S : ~ (k < n)
<1>1. IsWellFoundedOn(OpToRel(<, Nat), Nat)
  BY NatLessThanWellFounded
<1>2. PICK n \in S : \A k \in S : <<k, n>> \notin OpToRel(<, Nat)
  <2> HIDE DEF OpToRel
  <2> QED BY <1>1, WFMin
<1>3. ASSUME NEW k \in S, k < n PROVE FALSE
  <2>1. <<k, n>> \in OpToRel(<, Nat)
    BY <1>3, Zenon DEF OpToRel
  <2> QED
    BY <2>1, <1>2
<1> QED
  BY <1>3

LEMMA MinIsLeast ==
  ASSUME NEW S, S \subseteq Nat, S # {}
  PROVE  Min(S) \in S /\ \A k \in S : Min(S) <= k
<1>1. PICK n \in S : \A k \in S : ~ (k < n)
  BY LeastNumber
<1>2. \A k \in S : n =< k
  BY <1>1
<1> QED
  BY <1>2 DEF Min

\* The places of a window, and where it comes round to the first block.
LEMMA WindowPlace ==
  ASSUME NEW off \in Nat, off < BlockCount, NEW j \in Nat, j < BlockCount
  PROVE  /\ (off + j) % BlockCount \in Nat /\ (off + j) % BlockCount < BlockCount
         /\ (((off + j) % BlockCount) - off + BlockCount) % BlockCount = j
<1> DEFINE BC == BlockCount
<1>0. BC \in Nat /\ BC > 2
  BY Constants
<1> HIDE DEF BC
<1>1. CASE off + j < BC
  <2>1. (off + j) % BC = off + j
    BY <1>0, <1>1
  <2>2. (off + j) - off + BC = j + BC
    OBVIOUS
  <2>3. (j + BC) % BC = j
    BY <1>0 DEF BC
  <2> QED
    BY <1>0, <1>1, <2>1, <2>2, <2>3 DEF BC
<1>2. CASE ~ (off + j < BC)
  <2>1. (off + j) % BC = off + j - BC
    BY <1>0, <1>2 DEF BC
  <2>2. (off + j - BC) - off + BC = j
    BY <1>0
  <2>3. j % BC = j
    BY <1>0 DEF BC
  <2> QED
    BY <1>0, <1>2, <2>1, <2>2, <2>3 DEF BC
<1> QED
  BY <1>1, <1>2

LEMMA WindowPlacesDiffer ==
  ASSUME NEW off \in Nat, off < BlockCount, NEW i \in Nat, i < BlockCount,
         NEW j \in Nat, j < BlockCount, i # j
  PROVE  (off + i) % BlockCount # (off + j) % BlockCount
BY WindowPlace

-----------------------------------------------------------------------------
(* Types. *)

Words == Units \cup {0}
DataBlocks == 2 .. BlockCount - 1

Entry == [type: {"inline", "ctz", "deleted"}, units: Seq(Words),
          blocks: Seq(DataBlocks), size: Nat]
Changes == UNION {[N -> Entry] : N \in SUBSET Names}
Slot == [kind: {"commit", "torn", "blank", "looksBlank"}, entries: Changes]
LogBlock == [rev: Int, slots: [1 .. Slots -> Slot]]

LEMMA ChangesAre ==
  ASSUME NEW e
  PROVE  e \in Changes <=>
           /\ e = [n \in DOMAIN e |-> e[n]]
           /\ DOMAIN e \subseteq Names
           /\ \A n \in DOMAIN e : e[n] \in Entry
<1>1. ASSUME e \in Changes
      PROVE  /\ e = [n \in DOMAIN e |-> e[n]]
             /\ DOMAIN e \subseteq Names
             /\ \A n \in DOMAIN e : e[n] \in Entry
  <2>1. PICK N \in SUBSET Names : e \in [N -> Entry]
    BY <1>1, Zenon DEF Changes
  <2> QED
    BY <2>1
<1>2. ASSUME e = [n \in DOMAIN e |-> e[n]],
             DOMAIN e \subseteq Names,
             \A n \in DOMAIN e : e[n] \in Entry
      PROVE  e \in Changes
  <2>1. e \in [DOMAIN e -> Entry]
    BY <1>2
  <2> QED
    BY <1>2, <2>1, Zenon DEF Changes
<1> QED
  BY <1>1, <1>2, Zenon

LEMMA SlotTypes ==
  /\ NoEntries \in Changes
  /\ Torn \in Slot /\ Blank \in Slot /\ LooksBlank \in Slot
  /\ \A e \in Changes : Commit(e) \in Slot
<1>1. NoEntries \in Changes
  <2>1. NoEntries = [n \in {} |-> NoEntries[n]] /\ DOMAIN NoEntries = {}
    BY DEF NoEntries
  <2> QED
    BY <2>1, ChangesAre
<1> HIDE DEF Changes
<1> QED
  BY <1>1 DEF Slot, Torn, Blank, LooksBlank, Commit

-----------------------------------------------------------------------------
(* What a block of the log says. *)

\* The first v slots hold commits and the next one none.
Commits(block, v) ==
  /\ v \in Nat /\ v <= Slots
  /\ \A i \in 1 .. v : block.slots[i].kind = "commit"
  /\ v < Slots => block.slots[v + 1].kind # "commit"

LEMMA ValidIs ==
  ASSUME NEW block \in LogBlock
  PROVE  Commits(block, Valid(block))
<1> DEFINE S == {i \in 1 .. Slots : block.slots[i].kind # "commit"}
           P == {i \in 1 .. Slots : \A j \in 1 .. i : block.slots[j].kind = "commit"}
<1>0. Slots \in Nat /\ Valid(block) = Cardinality(P)
  BY Constants DEF Valid
<1>1. \E v \in Nat : v <= Slots /\ P = 1 .. v /\ (v < Slots => v + 1 \in S)
  <2>1. CASE S = {}
    <3>1. \A i \in 1 .. Slots : block.slots[i].kind = "commit"
      BY <2>1
    <3>2. P = 1 .. Slots
      BY <3>1, <1>0
    <3> QED
      BY <3>2, <1>0
  <2>2. CASE S # {}
    <3>0. S \subseteq Nat
      BY <1>0
    <3>1. PICK n \in S : \A k \in S : ~ (k < n)
      <4> HIDE DEF S
      <4> QED BY <2>2, <3>0, LeastNumber
    <3>2. n \in Nat /\ n >= 1 /\ n <= Slots
      BY <1>0
    <3>3. P = 1 .. n - 1
      BY <3>1, <3>2, <1>0
    <3> QED
      BY <3>2, <3>3, <1>0
  <2> QED
    BY <2>1, <2>2
<1>2. PICK v \in Nat : v <= Slots /\ P = 1 .. v /\ (v < Slots => v + 1 \in S)
  BY <1>1
<1>3. Cardinality(P) = v
  <2>1. Cardinality(1 .. v) = IF 1 > v THEN 0 ELSE v - 1 + 1
    BY FS_Interval
  <2>2. Cardinality(P) = Cardinality(1 .. v)
    BY <1>2, Zenon
  <2>3. Cardinality(1 .. v) = v
    BY <2>1
  <2> QED
    BY <2>2, <2>3, Zenon
<1>4. \A i \in 1 .. v : i \in P
  BY <1>2
<1>5. \A i \in 1 .. v : block.slots[i].kind = "commit"
  BY <1>4
<1> QED
  BY <1>0, <1>2, <1>3, <1>5 DEF Commits

LEMMA ValidOnly ==
  ASSUME NEW block \in LogBlock, NEW v, Commits(block, v)
  PROVE  Valid(block) = v
<1> DEFINE w == Valid(block)
<1>1. Commits(block, w)
  BY ValidIs
<1> HIDE DEF w
<1>2. Slots \in Nat /\ v \in Nat /\ w \in Nat
  BY <1>1, Constants DEF Commits
<1>3. ~ (v < w)
  <2>1. SUFFICES ASSUME v < w PROVE FALSE
    OBVIOUS
  <2>2. v < Slots /\ v + 1 \in 1 .. w
    BY <2>1, <1>1, <1>2 DEF Commits
  <2> QED
    BY <2>2, <1>1 DEF Commits
<1>4. ~ (w < v)
  <2>1. SUFFICES ASSUME w < v PROVE FALSE
    OBVIOUS
  <2>2. w < Slots /\ w + 1 \in 1 .. v
    BY <2>1, <1>2 DEF Commits
  <2> QED
    BY <2>2, <1>1 DEF Commits
<1>5. w = v
  BY <1>2, <1>3, <1>4
<1> QED
  BY <1>5 DEF w

\* Commit i is the last of these that names n.
Latest(commits, n, i) ==
  /\ i \in 1 .. Len(commits)
  /\ n \in DOMAIN commits[i].entries
  /\ \A j \in i + 1 .. Len(commits) : n \notin DOMAIN commits[j].entries

LEMMA LatestIsOne ==
  ASSUME NEW c \in Seq(Slot), NEW n, NEW i, NEW j, Latest(c, n, i), Latest(c, n, j)
  PROVE  i = j
<1>1. Len(c) \in Nat /\ i \in Nat /\ j \in Nat
  BY DEF Latest
<1>2. ~ (i < j) /\ ~ (j < i)
  BY <1>1 DEF Latest
<1> QED
  BY <1>1, <1>2

LEMMA EntriesAre ==
  ASSUME NEW c \in Seq(Slot)
  PROVE  /\ Entries(c) = [n \in DOMAIN Entries(c) |-> Entries(c)[n]]
         /\ \A n : n \in DOMAIN Entries(c) <=>
              /\ n \in Names
              /\ \E i : Latest(c, n, i) /\ c[i].entries[n].type # "deleted"
         /\ \A n \in DOMAIN Entries(c) : \A i :
              Latest(c, n, i) => Entries(c)[n] = c[i].entries[n]
<1> DEFINE latest(n) == {i \in DOMAIN c :
                          /\ n \in DOMAIN c[i].entries
                          /\ \A j \in i + 1 .. Len(c) : n \notin DOMAIN c[j].entries}
           there(n) == \E i \in latest(n) : c[i].entries[n].type # "deleted"
           D == {m \in Names : there(m)}
<1>1. Entries(c) = [n \in D |-> c[CHOOSE i \in latest(n) : TRUE].entries[n]]
  BY DEF Entries
<1>2. ASSUME NEW n, NEW i PROVE i \in latest(n) <=> Latest(c, n, i)
  BY DEF Latest
<1>3. ASSUME NEW n, NEW i, Latest(c, n, i)
      PROVE  (CHOOSE k \in latest(n) : TRUE) = i
  <2>1. i \in latest(n)
    BY <1>2, <1>3
  <2>2. ASSUME NEW k \in latest(n) PROVE k = i
    <3>1. Latest(c, n, k)
      BY <1>2
    <3> QED
      BY <3>1, <1>3, LatestIsOne
  <2> HIDE DEF latest
  <2> QED
    BY <2>1, <2>2
<1> HIDE DEF latest
<1>4. DOMAIN Entries(c) = D
  BY <1>1
<1>5. \A n : n \in D <=> n \in Names /\ \E i : Latest(c, n, i) /\ c[i].entries[n].type # "deleted"
  BY <1>2
<1> HIDE DEF D
<1>6. ASSUME NEW n \in D, NEW i, Latest(c, n, i)
      PROVE  Entries(c)[n] = c[i].entries[n]
  BY <1>1, <1>3, <1>6
<1>7. Entries(c) = [n \in DOMAIN Entries(c) |-> Entries(c)[n]]
  BY <1>1
<1> QED
  BY <1>4, <1>5, <1>6, <1>7

\* One more commit is applied to what those before it say.
LEMMA AddedCommit ==
  ASSUME NEW c \in Seq(Slot), NEW d \in Seq(Slot),
         Len(d) = Len(c) + 1,
         \A i \in 1 .. Len(c) : d[i] = c[i]
  PROVE  Entries(d) = Applied(Entries(c), d[Len(c) + 1].entries)
<1> DEFINE v == Len(c)
           e == d[v + 1].entries
           old == Entries(c)
           last(n) == IF n \in DOMAIN e THEN e[n] ELSE old[n]
           D == {m \in DOMAIN e \cup DOMAIN old : last(m).type # "deleted"}
<1>0. v \in Nat /\ e \in Changes
  <2>1. v + 1 \in 1 .. Len(d)
    OBVIOUS
  <2>2. d[v + 1] \in Slot
    BY <2>1, ElementOfSeq
  <2> QED
    BY <2>2 DEF Slot
<1>1. Applied(old, e) = [n \in D |-> last(n)]
  BY DEF Applied
<1>2. ASSUME NEW n, n \in DOMAIN e PROVE Latest(d, n, v + 1)
  BY <1>0, <1>2 DEF Latest
<1>3. ASSUME NEW n, n \notin DOMAIN e, NEW i
      PROVE  Latest(d, n, i) <=> Latest(c, n, i)
  <2>1. Latest(d, n, i) => Latest(c, n, i)
    BY <1>0, <1>3 DEF Latest
  <2>2. ASSUME Latest(c, n, i) PROVE Latest(d, n, i)
    <3>1. i \in 1 .. v /\ n \in DOMAIN c[i].entries
      BY <2>2 DEF Latest
    <3>2. ASSUME NEW j \in i + 1 .. v + 1 PROVE n \notin DOMAIN d[j].entries
      <4>1. CASE j = v + 1
        BY <4>1, <1>3
      <4>2. CASE j # v + 1
        <5>1. j \in i + 1 .. v /\ j \in 1 .. v
          BY <3>1, <4>2, <1>0
        <5> QED
          BY <5>1, <2>2 DEF Latest
      <4> QED
        BY <4>1, <4>2
    <3> QED
      BY <3>1, <3>2, <1>0 DEF Latest
  <2> QED
    BY <2>1, <2>2
<1> HIDE DEF old, e, v
<1>4. ASSUME NEW n \in DOMAIN e
      PROVE  /\ n \in DOMAIN Entries(d) <=> n \in D
             /\ n \in DOMAIN Entries(d) => Entries(d)[n] = last(n)
  <2>1. Latest(d, n, v + 1) /\ d[v + 1].entries[n] = e[n]
    BY <1>2 DEF e
  <2>2. n \in Names
    BY <1>0, ChangesAre
  <2>3. n \in DOMAIN Entries(d) <=> e[n].type # "deleted"
    <3>1. ASSUME NEW i, Latest(d, n, i) PROVE i = v + 1
      BY <3>1, <2>1, LatestIsOne
    <3>2. n \in DOMAIN Entries(d) <=>
            n \in Names /\ \E i : Latest(d, n, i) /\ d[i].entries[n].type # "deleted"
      BY EntriesAre
    <3>3. (\E i : Latest(d, n, i) /\ d[i].entries[n].type # "deleted")
            <=> e[n].type # "deleted"
      BY <2>1, <3>1
    <3> QED
      BY <2>2, <3>2, <3>3
  <2>4. ASSUME n \in DOMAIN Entries(d) PROVE Entries(d)[n] = last(n)
    <3>1. Entries(d)[n] = d[v + 1].entries[n]
      BY <2>1, <2>4, EntriesAre
    <3> QED
      BY <3>1, <2>1
  <2> QED
    BY <2>3, <2>4
<1>5. ASSUME NEW n, n \notin DOMAIN e
      PROVE  /\ n \in DOMAIN Entries(d) <=> n \in D
             /\ n \in DOMAIN Entries(d) => Entries(d)[n] = last(n)
  <2>1. ASSUME NEW i, Latest(d, n, i)
        PROVE  i \in 1 .. v /\ d[i].entries[n] = c[i].entries[n]
    <3>1. Latest(c, n, i)
      BY <1>3, <1>5, <2>1
    <3> QED
      BY <3>1 DEF Latest, v
  <2>2. n \in DOMAIN Entries(d) <=> n \in DOMAIN old
    <3>1. n \in DOMAIN Entries(d) <=>
            n \in Names /\ \E i : Latest(d, n, i) /\ d[i].entries[n].type # "deleted"
      BY EntriesAre
    <3>2. n \in DOMAIN old <=>
            n \in Names /\ \E i : Latest(c, n, i) /\ c[i].entries[n].type # "deleted"
      BY EntriesAre DEF old
    <3> QED
      BY <3>1, <3>2, <2>1, <1>3, <1>5
  <2>3. ASSUME n \in DOMAIN old
        PROVE  old[n].type # "deleted" /\ Entries(d)[n] = old[n]
    <3>1. PICK i : Latest(c, n, i) /\ c[i].entries[n].type # "deleted"
      BY <2>3, EntriesAre DEF old
    <3>2. old[n] = c[i].entries[n]
      BY <3>1, <2>3, EntriesAre DEF old
    <3>3. Latest(d, n, i)
      BY <3>1, <1>3, <1>5
    <3>4. Entries(d)[n] = d[i].entries[n]
      BY <3>3, <2>2, <2>3, EntriesAre
    <3> QED
      BY <3>1, <3>2, <3>4, <2>1, <3>3
  <2> QED
    BY <2>2, <2>3, <1>5
<1>6. DOMAIN Entries(d) = D
  <2>1. \A n : n \in DOMAIN Entries(d) <=> n \in D
    BY <1>4, <1>5
  <2> HIDE DEF D
  <2> QED
    BY <2>1
<1>7. Entries(d) = [n \in DOMAIN Entries(d) |-> Entries(d)[n]]
  BY EntriesAre
<1>8. \A n \in D : Entries(d)[n] = last(n)
  BY <1>4, <1>5, <1>6
<1>9. Entries(d) = [n \in D |-> last(n)]
  <2> HIDE DEF D, last
  <2> QED
    BY <1>6, <1>7, <1>8
<1>10. Entries(d) = Applied(old, e)
  BY <1>1, <1>9
<1> QED
  BY <1>10 DEF old, e, v

\* What a change leaves of the entries before it.
LEMMA AppliedIs ==
  ASSUME NEW old \in Changes, NEW e \in Changes
  PROVE  /\ Applied(old, e) \in Changes
         /\ \A n : n \in DOMAIN Applied(old, e) <=>
              \/ n \in DOMAIN e /\ e[n].type # "deleted"
              \/ n \notin DOMAIN e /\ n \in DOMAIN old /\ old[n].type # "deleted"
         /\ \A n \in DOMAIN Applied(old, e) :
              Applied(old, e)[n] = IF n \in DOMAIN e THEN e[n] ELSE old[n]
<1> DEFINE last(n) == IF n \in DOMAIN e THEN e[n] ELSE old[n]
           D == {m \in DOMAIN e \cup DOMAIN old : last(m).type # "deleted"}
           A == Applied(old, e)
<1>1. A = [n \in D |-> last(n)]
  BY DEF Applied
<1>2. /\ DOMAIN e \subseteq Names /\ DOMAIN old \subseteq Names
      /\ \A n \in DOMAIN e : e[n] \in Entry
      /\ \A n \in DOMAIN old : old[n] \in Entry
  BY ChangesAre
<1>3. DOMAIN A = D /\ (\A n \in D : A[n] = last(n)) /\ A = [n \in DOMAIN A |-> A[n]]
  <2> HIDE DEF D, last, A
  <2> QED
    BY <1>1
<1>4. D \subseteq Names /\ \A n \in D : last(n) \in Entry
  BY <1>2
<1>5. A \in Changes
  <2>1. DOMAIN A \subseteq Names /\ \A n \in DOMAIN A : A[n] \in Entry
    BY <1>3, <1>4
  <2> HIDE DEF A
  <2> QED
    BY <1>3, <2>1, ChangesAre
<1>6. ASSUME NEW n
      PROVE  n \in D <=> \/ n \in DOMAIN e /\ e[n].type # "deleted"
                         \/ n \notin DOMAIN e /\ n \in DOMAIN old /\ old[n].type # "deleted"
  OBVIOUS
<1> HIDE DEF D
<1> QED
  BY <1>3, <1>5, <1>6

\* Nothing is said by no commits, and one commit says what it holds.
LEMMA OneCommit ==
  /\ Entries(<<>>) = NoEntries
  /\ \A slot \in Slot :
       (\A n \in DOMAIN slot.entries : slot.entries[n].type # "deleted")
         => Entries(<<slot>>) = slot.entries
<1>1. <<>> \in Seq(Slot) /\ Len(<<>>) = 0
  BY EmptySeq
<1>2. Entries(<<>>) = NoEntries
  <2>1. DOMAIN Entries(<<>>) = {}
    <3>1. \A n, i : ~Latest(<<>>, n, i)
      BY <1>1 DEF Latest
    <3> QED
      BY <1>1, <3>1, EntriesAre
  <2>2. Entries(<<>>) = [n \in DOMAIN Entries(<<>>) |-> Entries(<<>>)[n]]
    BY <1>1, EntriesAre
  <2> QED
    BY <2>1, <2>2 DEF NoEntries
<1>3. ASSUME NEW slot \in Slot,
             \A n \in DOMAIN slot.entries : slot.entries[n].type # "deleted"
      PROVE  Entries(<<slot>>) = slot.entries
  <2>0. slot.entries \in Changes /\ NoEntries \in Changes
    BY SlotTypes DEF Slot
  <2>1. <<slot>> \in Seq(Slot) /\ Len(<<slot>>) = 1 /\ <<slot>>[1] = slot
    OBVIOUS
  <2>2. Entries(<<slot>>) = Applied(NoEntries, slot.entries)
    <3>1. /\ Len(<<slot>>) = Len(<<>>) + 1
          /\ \A i \in 1 .. Len(<<>>) : <<slot>>[i] = <<>>[i]
      BY <1>1, <2>1
    <3>2. Entries(<<slot>>) = Applied(Entries(<<>>), <<slot>>[Len(<<>>) + 1].entries)
      BY ONLY <1>1, <2>1, <3>1, AddedCommit
    <3> QED
      BY <3>2, <1>1, <1>2, <2>1
  <2>3. DOMAIN NoEntries = {}
    BY DEF NoEntries
  <2> DEFINE A == Applied(NoEntries, slot.entries)
  <2>4. /\ A \in Changes
        /\ \A n : n \in DOMAIN A <=> n \in DOMAIN slot.entries
        /\ \A n \in DOMAIN A : A[n] = slot.entries[n]
    BY <2>0, <2>3, <1>3, AppliedIs
  <2> HIDE DEF A
  <2>5. A = [n \in DOMAIN A |-> A[n]]
    BY <2>4, ChangesAre
  <2>6. slot.entries = [n \in DOMAIN slot.entries |-> slot.entries[n]]
    BY <2>0, ChangesAre
  <2>7. DOMAIN A = DOMAIN slot.entries
    BY <2>4
  <2> QED
    BY <2>2, <2>4, <2>5, <2>6, <2>7 DEF A
<1> QED
  BY <1>2, <1>3

-----------------------------------------------------------------------------
(* The pair of blocks. *)

\* No commit comes behind a slot that holds none.
Ordered(block) ==
  \A i, j \in 1 .. Slots :
    i < j /\ block.slots[j].kind = "commit" => block.slots[i].kind = "commit"

PairOK(pair) ==
  /\ pair \in [0 .. 1 -> LogBlock]
  /\ \A b \in 0 .. 1 : pair[b].rev >= -1 /\ Ordered(pair[b])

Said(pair) ==
  Entries(SubSeq(pair[Current(pair)].slots, 1, Valid(pair[Current(pair)])))

\* A directory in RAM that is the one on the flash.
Follows(dir, pair) ==
  dir = [cur |-> Current(pair), rev |-> pair[Current(pair)].rev,
         off |-> Valid(pair[Current(pair)]), erased |-> dir.erased,
         entries |-> Said(pair)]

LEMMA FetchFollows ==
  ASSUME NEW pair
  PROVE  Follows(Fetch(pair), pair) /\ Fetch(pair).entries = Said(pair)
BY DEF Fetch, Follows, Said

LEMMA CurrentIsOne ==
  ASSUME NEW pair
  PROVE  Current(pair) \in 0 .. 1 /\ 1 - Current(pair) \in 0 .. 1
BY DEF Current, Newer

LEMMA CommitsSeq ==
  ASSUME NEW block \in LogBlock, NEW v \in Nat, v <= Slots
  PROVE  /\ SubSeq(block.slots, 1, v) \in Seq(Slot)
         /\ Len(SubSeq(block.slots, 1, v)) = v
         /\ \A i \in 1 .. v : SubSeq(block.slots, 1, v)[i] = block.slots[i]
<1>1. \A i \in 1 .. v : block.slots[i] \in Slot
  BY Constants DEF LogBlock
<1> HIDE DEF LogBlock
<1> QED
  BY <1>1, SubSeqProperties

LEMMA SaidIsChanges ==
  ASSUME NEW c \in Seq(Slot)
  PROVE  /\ Entries(c) \in Changes
         /\ \A n \in DOMAIN Entries(c) : Entries(c)[n].type # "deleted"
<1>1. ASSUME NEW n \in DOMAIN Entries(c)
      PROVE  n \in Names /\ Entries(c)[n] \in Entry /\ Entries(c)[n].type # "deleted"
  <2>1. PICK i : Latest(c, n, i) /\ c[i].entries[n].type # "deleted"
    BY EntriesAre
  <2>2. n \in Names /\ Entries(c)[n] = c[i].entries[n]
    BY <2>1, EntriesAre
  <2>3. i \in 1 .. Len(c) /\ n \in DOMAIN c[i].entries
    BY <2>1 DEF Latest
  <2>4. c[i].entries \in Changes
    <3>1. c[i] \in Slot
      BY <2>3, ElementOfSeq
    <3> QED
      BY <3>1 DEF Slot
  <2>5. c[i].entries[n] \in Entry
    BY <2>3, <2>4, ChangesAre
  <2> QED
    BY <2>1, <2>2, <2>5
<1>2. Entries(c) = [n \in DOMAIN Entries(c) |-> Entries(c)[n]]
  BY EntriesAre
<1> QED
  BY <1>1, <1>2, ChangesAre

\* A slot behind the commits is programmed, or the other block written.
Programmed(pair, slot) ==
  [pair EXCEPT ![Current(pair)].slots[Valid(pair[Current(pair)]) + 1] = slot]
Replaced(pair, block) == [pair EXCEPT ![1 - Current(pair)] = block]

LEMMA LogAppended ==
  ASSUME NEW pair, PairOK(pair), Fetchable(pair),
         Valid(pair[Current(pair)]) < Slots,
         NEW slot \in Slot,
         NEW new, new = Programmed(pair, slot)
  PROVE  /\ PairOK(new) /\ Fetchable(new)
         /\ Current(new) = Current(pair)
         /\ new[Current(pair)].rev = pair[Current(pair)].rev
         /\ slot.kind = "commit" =>
              /\ Valid(new[Current(pair)]) = Valid(pair[Current(pair)]) + 1
              /\ Said(new) = Applied(Said(pair), slot.entries)
         /\ slot.kind # "commit" =>
              /\ Valid(new[Current(pair)]) = Valid(pair[Current(pair)])
              /\ Said(new) = Said(pair)
<1> DEFINE c == Current(pair)
           v == Valid(pair[c])
           block == [pair[c] EXCEPT !.slots[v + 1] = slot]
<1>0. c \in 0 .. 1 /\ 1 - c \in 0 .. 1 /\ c # 1 - c
  BY CurrentIsOne
<1>1. pair[c] \in LogBlock /\ Ordered(pair[c]) /\ pair \in [0 .. 1 -> LogBlock]
  BY <1>0 DEF PairOK
<1>2. Commits(pair[c], v) /\ v \in Nat /\ v > 0 /\ v < Slots /\ Slots \in Nat
  BY <1>1, ValidIs, Constants DEF Commits, Fetchable
<1> HIDE DEF v
<1>3. block \in LogBlock /\ block.rev = pair[c].rev
      /\ block.slots = [pair[c].slots EXCEPT ![v + 1] = slot]
  BY <1>1, <1>2 DEF LogBlock
<1>4. /\ block.slots[v + 1] = slot
      /\ \A i \in 1 .. Slots : i # v + 1 => block.slots[i] = pair[c].slots[i]
  BY <1>1, <1>2, <1>3 DEF LogBlock
<1>5. /\ new \in [0 .. 1 -> LogBlock] /\ new[c] = block /\ new[1 - c] = pair[1 - c]
      /\ new[0] \in LogBlock /\ new[1] \in LogBlock
  <2>1. new = [pair EXCEPT ![c] = block]
    BY DEF v, Programmed
  <2>2. block \in LogBlock
    BY <1>3
  <2> HIDE DEF block, c
  <2>3. new \in [0 .. 1 -> LogBlock]
    BY <2>1, <2>2, <1>1, Zenon
  <2>4. new[c] = block /\ new[1 - c] = pair[1 - c]
    BY <2>1, <1>0, <1>1
  <2> QED
    BY <2>3, <2>4
<1> HIDE DEF block
<1>6. pair[c].slots[v + 1].kind # "commit"
  BY <1>2 DEF Commits
<1>7. ASSUME NEW i \in 1 .. Slots, i > v + 1 PROVE block.slots[i].kind # "commit"
  <2>1. pair[c].slots[i].kind # "commit"
    BY <1>1, <1>2, <1>6, <1>7 DEF Ordered
  <2> QED
    BY <2>1, <1>4, <1>7, <1>2
<1>8. \A i \in 1 .. v : block.slots[i].kind = "commit"
  BY <1>2, <1>4 DEF Commits
<1>9. Ordered(block)
  <2>1. SUFFICES ASSUME NEW i \in 1 .. Slots, NEW j \in 1 .. Slots, i < j,
                        block.slots[j].kind = "commit"
                 PROVE  block.slots[i].kind = "commit"
    BY DEF Ordered
  <2>2. ~ (j > v + 1)
    BY <2>1, <1>7
  <2>3. i \in 1 .. v
    BY <2>1, <2>2, <1>2
  <2> QED
    BY <2>3, <1>8
<1>10. Valid(block) = IF slot.kind = "commit" THEN v + 1 ELSE v
  <2>1. CASE slot.kind = "commit"
    <3>1. \A i \in 1 .. v + 1 : block.slots[i].kind = "commit"
      BY <2>1, <1>2, <1>4, <1>8
    <3>2. v + 1 < Slots => block.slots[(v + 1) + 1].kind # "commit"
      BY <1>2, <1>7
    <3>3. Commits(block, v + 1)
      BY <3>1, <3>2, <1>2 DEF Commits
    <3> QED
      BY <2>1, <3>3, <1>3, ValidOnly
  <2>2. CASE slot.kind # "commit"
    <3>1. Commits(block, v)
      BY <2>2, <1>2, <1>4, <1>8 DEF Commits
    <3> QED
      BY <2>2, <3>1, <1>3, ValidOnly
  <2> QED
    BY <2>1, <2>2
<1>11. PairOK(new)
  <2>1. ASSUME NEW b \in 0 .. 1 PROVE new[b].rev >= -1 /\ Ordered(new[b])
    <3>1. CASE b = c
      BY <3>1, <1>0, <1>3, <1>5, <1>9 DEF PairOK
    <3>2. CASE b = 1 - c
      BY <3>2, <1>0, <1>5 DEF PairOK
    <3> QED
      BY <3>1, <3>2, <1>0
  <2> QED
    BY <2>1, <1>5 DEF PairOK
<1>12. Current(new) = c
  <2>1. Newer(new) = Newer(pair)
    <3>1. new[0].rev = pair[0].rev /\ new[1].rev = pair[1].rev
      BY <1>0, <1>3, <1>5
    <3> QED
      BY <3>1 DEF Newer
  <2>2. Valid(new[c]) > 0
    BY <1>2, <1>5, <1>10
  <2>3. Newer(pair) \in 0 .. 1
    BY DEF Newer
  <2>4. CASE Newer(pair) = c
    BY <2>1, <2>2, <2>4 DEF Current
  <2>5. CASE Newer(pair) = 1 - c
    <3>1. ~ (Valid(pair[1 - c]) > 0)
      BY <2>5, <1>0 DEF Current
    <3> QED
      BY <3>1, <2>1, <2>5, <1>0, <1>5 DEF Current
  <2> QED
    BY <2>3, <2>4, <2>5, <1>0
<1>13. Fetchable(new)
  BY <1>2, <1>5, <1>10, <1>12 DEF Fetchable
<1> DEFINE old == SubSeq(pair[c].slots, 1, v)
           more == SubSeq(block.slots, 1, v + 1)
           same == SubSeq(block.slots, 1, v)
<1>14. /\ old \in Seq(Slot) /\ Len(old) = v
       /\ \A i \in 1 .. v : old[i] = pair[c].slots[i]
  BY <1>1, <1>2, CommitsSeq
<1>15. /\ more \in Seq(Slot) /\ Len(more) = v + 1
       /\ \A i \in 1 .. v + 1 : more[i] = block.slots[i]
  <2>1. v + 1 \in Nat /\ v + 1 <= Slots
    BY <1>2
  <2> QED
    BY ONLY <2>1, <1>3, CommitsSeq
<1>16. /\ same \in Seq(Slot) /\ Len(same) = v
       /\ \A i \in 1 .. v : same[i] = block.slots[i]
  <2>1. v <= Slots
    BY <1>2
  <2> QED
    BY ONLY <2>1, <1>2, <1>3, CommitsSeq
<1>17. Said(pair) = Entries(old)
  BY DEF Said, v
<1> HIDE DEF old, more, same
<1>18. Entries(more) = Applied(Entries(old), slot.entries)
  <2>1. \A i \in 1 .. v : more[i] = old[i]
    BY <1>2, <1>4, <1>14, <1>15
  <2>2. more[v + 1] = slot
    BY <1>2, <1>4, <1>15
  <2> QED
    BY <2>1, <2>2, <1>14, <1>15, AddedCommit
<1>19. same = old
  <2>1. \A i \in 1 .. v : same[i] = old[i]
    BY <1>2, <1>4, <1>14, <1>16
  <2> QED
    BY <2>1, <1>14, <1>16, SeqEqual
<1>20. slot.kind = "commit" => Said(new) = Entries(more)
  BY <1>5, <1>10, <1>12 DEF Said, more
<1>21. slot.kind # "commit" => Said(new) = Entries(same)
  BY <1>5, <1>10, <1>12 DEF Said, same
<1>22. /\ slot.kind = "commit" => Valid(new[c]) = v + 1
       /\ slot.kind # "commit" => Valid(new[c]) = v
       /\ new[c].rev = pair[c].rev
  BY <1>3, <1>5, <1>10
<1> QED
  BY <1>11, <1>12, <1>13, <1>17, <1>18, <1>19, <1>20, <1>21, <1>22 DEF v

\* The other block is erased, or written with a higher revision.
LEMMA LogReplaced ==
  ASSUME NEW pair, PairOK(pair), Fetchable(pair),
         NEW block \in LogBlock, block.rev >= -1, Ordered(block),
         NEW new, new = Replaced(pair, block),
         \/ Valid(block) = 0
         \/ Valid(block) = 1 /\ block.rev > pair[Current(pair)].rev
  PROVE  /\ PairOK(new) /\ Fetchable(new)
         /\ Valid(block) = 0 =>
              /\ Current(new) = Current(pair)
              /\ new[Current(pair)] = pair[Current(pair)]
              /\ Said(new) = Said(pair)
         /\ Valid(block) = 1 =>
              /\ Current(new) = 1 - Current(pair)
              /\ new[1 - Current(pair)] = block
              /\ Said(new) = Entries(SubSeq(block.slots, 1, 1))
<1> DEFINE c == Current(pair)
           d == 1 - c
<1>0. c \in 0 .. 1 /\ d \in 0 .. 1 /\ c # d /\ c = 1 - d
  BY CurrentIsOne
<1>1. pair \in [0 .. 1 -> LogBlock] /\ Valid(pair[c]) > 0
  BY DEF PairOK, Fetchable
<1>2. new \in [0 .. 1 -> LogBlock] /\ new[d] = block /\ new[c] = pair[c]
  <2>1. new = [pair EXCEPT ![d] = block]
    BY DEF Replaced
  <2> HIDE DEF c, d
  <2>2. new \in [0 .. 1 -> LogBlock]
    BY <2>1, <1>1, Zenon
  <2> QED
    BY <2>1, <2>2, <1>0, <1>1
<1>3. PairOK(new)
  <2>1. ASSUME NEW b \in 0 .. 1 PROVE new[b].rev >= -1 /\ Ordered(new[b])
    <3>1. CASE b = c
      BY <3>1, <1>0, <1>2 DEF PairOK
    <3>2. CASE b = d
      BY <3>2, <1>2
    <3> QED
      BY <3>1, <3>2, <1>0
  <2> QED
    BY <2>1, <1>2 DEF PairOK
<1>4. Newer(new) = c \/ Newer(new) = d
  BY <1>0 DEF Newer
<1>5. CASE Valid(block) = 0
  <2>1. Current(new) = c
    <3>1. CASE Newer(new) = c
      BY <3>1, <1>1, <1>2 DEF Current
    <3>2. CASE Newer(new) = d
      BY <3>2, <1>0, <1>2, <1>5 DEF Current
    <3> QED
      BY <3>1, <3>2, <1>4
  <2>2. Fetchable(new)
    BY <2>1, <1>1, <1>2 DEF Fetchable
  <2>3. Said(new) = Said(pair)
    BY <2>1, <1>2 DEF Said
  <2> QED
    BY <2>1, <2>2, <2>3, <1>2, <1>3, <1>5
<1>6. CASE Valid(block) = 1
  <2>1. pair[c].rev \in Int /\ block.rev \in Int /\ block.rev > pair[c].rev
    BY <1>0, <1>1, <1>6 DEF LogBlock
  <2>2. Newer(new) = d
    <3>1. new[d].rev > new[c].rev /\ ~ (new[c].rev > new[d].rev)
      BY <2>1, <1>2
    <3> QED
      BY <3>1, <1>0 DEF Newer
  <2>3. Current(new) = d
    BY <2>2, <1>2, <1>6 DEF Current
  <2>4. Fetchable(new)
    BY <2>3, <1>2, <1>6 DEF Fetchable
  <2>5. Said(new) = Entries(SubSeq(block.slots, 1, 1))
    BY <2>3, <1>2, <1>6 DEF Said
  <2> QED
    BY <2>3, <2>4, <2>5, <1>2, <1>3, <1>6
<1> QED
  BY <1>5, <1>6

\* Blocks as compaction, formatting and erasure write them.
LEMMA RestBlock ==
  ASSUME NEW rev \in Int, NEW slot \in Slot, slot.kind # "commit"
  PROVE  /\ Block(rev, Rest(slot, Slots)) \in LogBlock
         /\ Block(rev, Rest(slot, Slots)).rev = rev
         /\ Ordered(Block(rev, Rest(slot, Slots)))
         /\ Valid(Block(rev, Rest(slot, Slots))) = 0
<1> DEFINE b == Block(rev, Rest(slot, Slots))
<1>1. b \in LogBlock /\ b.rev = rev /\ \A i \in 1 .. Slots : b.slots[i] = slot
  BY DEF Block, Rest, LogBlock
<1> HIDE DEF b
<1>2. Ordered(b)
  BY <1>1 DEF Ordered
<1>3. Commits(b, 0)
  BY <1>1, Constants DEF Commits
<1>4. Valid(b) = 0
  BY <1>1, <1>3, ValidOnly
<1> QED
  BY <1>1, <1>2, <1>4 DEF b

LEMMA FirstBlock ==
  ASSUME NEW rev \in Int, NEW slot \in Slot
  PROVE  /\ Block(rev, <<slot>> \o Rest(Blank, Slots - 1)) \in LogBlock
         /\ Block(rev, <<slot>> \o Rest(Blank, Slots - 1)).rev = rev
         /\ Ordered(Block(rev, <<slot>> \o Rest(Blank, Slots - 1)))
         /\ Valid(Block(rev, <<slot>> \o Rest(Blank, Slots - 1)))
              = IF slot.kind = "commit" THEN 1 ELSE 0
         /\ SubSeq(Block(rev, <<slot>> \o Rest(Blank, Slots - 1)).slots, 1, 1)
              = <<slot>>
<1> DEFINE s == <<slot>> \o Rest(Blank, Slots - 1)
           b == Block(rev, s)
<1>0. Slots \in Nat /\ Slots >= 1 /\ Slots - 1 \in Nat
  BY Constants
<1>1. /\ <<slot>> \in Seq(Slot) /\ Len(<<slot>>) = 1 /\ <<slot>>[1] = slot
      /\ Rest(Blank, Slots - 1) \in Seq(Slot)
      /\ Len(Rest(Blank, Slots - 1)) = Slots - 1
      /\ \A i \in 1 .. Slots - 1 : Rest(Blank, Slots - 1)[i] = Blank
  BY <1>0, SlotTypes DEF Rest
<1>2. s \in Seq(Slot) /\ Len(s) = Slots
      /\ \A i \in 1 .. Slots : s[i] = IF i <= 1 THEN slot ELSE Blank
  <2> DEFINE r == Rest(Blank, Slots - 1)
  <2>1. r \in Seq(Slot) /\ Len(r) = Slots - 1 /\ \A i \in 1 .. Slots - 1 : r[i] = Blank
    BY <1>1
  <2> HIDE DEF r
  <2>2. /\ <<slot>> \o r \in Seq(Slot)
        /\ Len(<<slot>> \o r) = 1 + (Slots - 1)
        /\ \A i \in 1 .. 1 + (Slots - 1) :
             (<<slot>> \o r)[i] = IF i <= 1 THEN <<slot>>[i] ELSE r[i - 1]
    BY <1>1, <2>1, ConcatProperties
  <2>3. ASSUME NEW i \in 1 .. Slots PROVE (<<slot>> \o r)[i] = IF i <= 1 THEN slot ELSE Blank
    BY <1>0, <1>1, <2>1, <2>2
  <2> QED
    BY <2>2, <2>3, <1>0 DEF r
<1> HIDE DEF s
<1>3. s \in [1 .. Slots -> Slot]
  BY <1>2, LenProperties
<1>4. b \in LogBlock /\ b.rev = rev /\ b.slots = s
  BY <1>3 DEF Block, LogBlock
<1> HIDE DEF b
<1>5. Blank.kind # "commit"
  BY DEF Blank
<1>6. \A i \in 1 .. Slots : b.slots[i] = IF i <= 1 THEN slot ELSE Blank
  BY <1>2, <1>4
<1>7. Ordered(b)
  <2>1. SUFFICES ASSUME NEW i \in 1 .. Slots, NEW j \in 1 .. Slots, i < j,
                        b.slots[j].kind = "commit"
                 PROVE  FALSE
    BY DEF Ordered
  <2>2. b.slots[j] = Blank
    BY <2>1, <1>6
  <2> QED
    BY <2>1, <2>2, <1>5
<1>8. Valid(b) = IF slot.kind = "commit" THEN 1 ELSE 0
  <2>1. b.slots[1] = slot /\ (1 < Slots => b.slots[2] = Blank)
    BY <1>0, <1>6
  <2>2. CASE slot.kind = "commit"
    <3>1. \A i \in 1 .. 1 : b.slots[i].kind = "commit"
      BY <2>1, <2>2
    <3>2. 1 < Slots => b.slots[1 + 1].kind # "commit"
      BY <2>1, <1>5
    <3>3. Commits(b, 1)
      BY <3>1, <3>2, <1>0 DEF Commits
    <3> QED
      BY <2>2, <3>3, <1>4, ValidOnly
  <2>3. CASE slot.kind # "commit"
    <3>1. Commits(b, 0)
      BY <2>1, <2>3, <1>0 DEF Commits
    <3> QED
      BY <2>3, <3>1, <1>4, ValidOnly
  <2> QED
    BY <2>2, <2>3
<1>9. SubSeq(s, 1, 1) = <<slot>>
  <2>1. /\ SubSeq(b.slots, 1, 1) \in Seq(Slot)
        /\ Len(SubSeq(b.slots, 1, 1)) = 1
        /\ \A i \in 1 .. 1 : SubSeq(b.slots, 1, 1)[i] = b.slots[i]
    BY <1>0, <1>4, CommitsSeq
  <2>2. SubSeq(b.slots, 1, 1)[1] = slot
    BY <2>1, <1>0, <1>6
  <2>3. \A i \in 1 .. 1 : SubSeq(b.slots, 1, 1)[i] = <<slot>>[i]
    BY <2>2, <1>1
  <2>4. SubSeq(b.slots, 1, 1) = <<slot>>
    BY ONLY <2>1, <2>3, <1>1, SeqEqual
  <2> QED
    BY <2>4, <1>4
<1> QED
  BY <1>4, <1>7, <1>8, <1>9 DEF b, s

-----------------------------------------------------------------------------
(* The inductive invariant. First what makes a mount find the directory:   *)
(* the pair is in order and RAM agrees with it.                            *)

LogOK ==
  /\ PairOK(meta) /\ Follows(mdir, meta)
  /\ mounted \in BOOLEAN
  /\ mounted => Fetchable(meta)

(* The entry of a file has as many blocks as its size needs.               *)
FileEntry(entry) ==
  /\ entry \in Entry
  /\ \/ /\ entry.type = "inline"
        /\ entry.size = Len(entry.units)
        /\ entry.size <= InlineMax
        /\ entry.blocks = <<>>
     \/ /\ entry.type = "ctz"
        /\ entry.units = <<>>
        /\ \A k \in 1 .. entry.size : (k - 1) \div BlockUnits < Len(entry.blocks)

DirectoryOK == \A n \in DOMAIN Directory : n \in Names /\ FileEntry(Directory[n])

DataOK == data \in [DataBlocks -> [1 .. BlockUnits -> Words]]

(* A call in progress, and what it is about to commit.                     *)
Committing == op.at \in {"append", "erase", "compact", "done"}

Ops == [call: {"none", "open", "write", "close", "remove"},
        at: {"idle", "append", "erase", "compact", "done", "put", "alloc",
             "flush", "closed"},
        name: Names \cup {NoName}, unit: Words, pos: Nat, entries: Changes]

OpOK ==
  /\ op \in Ops
  /\ op.call # "none" => mounted
  /\ op.call = "none" => op = Idle
  /\ op.call = "open" =>
       /\ Committing /\ ~file.open
       /\ op.name \in Names /\ op.entries = Only(op.name, Inline(<<>>))
  /\ op.call = "write" => op.at \in {"put", "alloc"} /\ file.open
  /\ op.call = "close" =>
       /\ file.open
       /\ Committing \/ op.at \in {"put", "alloc", "flush", "closed"}
       /\ op.at # "closed" => file.writing
       /\ op.at \in {"put", "alloc"} => Behind
       /\ Committing => op.entries = Only(file.name, NewEntry)
  /\ op.call = "remove" =>
       /\ Committing
       /\ op.name \in Names /\ op.entries = Only(op.name, Deleted)
  /\ op.at = "alloc" => file.inline \/ BlockFull

(* The open file: how much it holds follows from where it is.              *)
Files == [open: BOOLEAN, name: Names \cup {NoName}, inline: BOOLEAN,
          writing: BOOLEAN, erred: BOOLEAN, gone: BOOLEAN, pos: Nat,
          entry: Entry, blocks: Seq(DataBlocks), cache: Seq(Words)]

FileOK ==
  /\ file \in Files
  /\ file.open => mounted /\ file.name \in Names
  /\ ~file.open => file = Closed
  /\ FileEntry(file.entry)
  /\ file.inline => /\ file.pos <= Len(file.cache) /\ Len(file.cache) <= InlineMax
                    /\ file.blocks = <<>>
  /\ ~file.inline /\ file.writing =>
       /\ Len(file.blocks) >= 1
       /\ Len(file.cache) <= BlockUnits
       /\ file.pos = (Len(file.blocks) - 1) * BlockUnits + Len(file.cache)
  /\ ~file.inline /\ ~file.writing =>
       file.blocks = <<>> /\ file.cache = <<>> /\ file.pos = 0

(* The window: blocks that are in use and still to come have been seen.    *)
WindowOK ==
  /\ free = [off |-> free.off, size |-> free.size, i |-> free.i, ack |-> free.ack,
              used |-> free.used]
  /\ free.off \in Nat /\ free.size \in Nat /\ free.i \in Nat /\ free.ack \in Nat
  /\ free.off < BlockCount
  /\ free.size <= Lookahead /\ free.size <= BlockCount
  /\ free.i <= free.size
  /\ free.size - free.i <= free.ack /\ free.ack <= BlockCount
  /\ \A j \in Nat :
       free.i <= j /\ j < free.size /\ (free.off + j) % BlockCount \in InUse
         => (free.off + j) % BlockCount \in free.used

NothingShared ==
  /\ \A m, n \in DOMAIN Directory :
       m # n => ChainOf(Directory[m]) \cap ChainOf(Directory[n]) = {}
  /\ ~At("close", "done") => Chain \cap Tree = {}
  /\ \A i, j \in DOMAIN file.blocks : file.blocks[i] = file.blocks[j] => i = j

IInv ==
  LogOK /\ DirectoryOK /\ DataOK /\ OpOK /\ FileOK /\ WindowOK /\ NothingShared

-----------------------------------------------------------------------------
(* Steps of the log. *)

LEMMA LogFacts ==
  ASSUME LogOK
  PROVE  /\ mdir.cur = Current(meta) /\ mdir.cur \in 0 .. 1
         /\ mdir.rev = meta[mdir.cur].rev /\ mdir.rev \in Int /\ mdir.rev >= -1
         /\ mdir.off = Valid(meta[mdir.cur]) /\ mdir.off \in Nat /\ mdir.off <= Slots
         /\ Directory = Said(meta) /\ Fetch(meta).entries = Directory
         /\ Directory \in Changes
         /\ \A n \in DOMAIN Directory : Directory[n].type # "deleted"
<1> DEFINE c == Current(meta)
           v == Valid(meta[c])
<1>1. /\ mdir.cur = c /\ mdir.rev = meta[c].rev /\ mdir.off = v
      /\ Directory = Said(meta)
  BY DEF LogOK, Follows, Directory
<1>2. c \in 0 .. 1
  BY CurrentIsOne
<1>3. meta[c] \in LogBlock /\ meta[c].rev >= -1
  BY <1>2 DEF LogOK, PairOK
<1>4. meta[c].rev \in Int
  BY <1>3 DEF LogBlock
<1>5. v \in Nat /\ v <= Slots
  BY <1>3, ValidIs DEF Commits
<1>6. SubSeq(meta[c].slots, 1, v) \in Seq(Slot)
  BY <1>3, <1>5, CommitsSeq
<1>7. /\ Said(meta) \in Changes
      /\ \A n \in DOMAIN Said(meta) : Said(meta)[n].type # "deleted"
  BY <1>6, SaidIsChanges DEF Said
<1> QED
  BY <1>1, <1>2, <1>3, <1>4, <1>5, <1>7, FetchFollows

\* Nothing is under way but in a call.
LEMMA InACall ==
  ASSUME OpOK, op.at # "idle"
  PROVE  mounted /\ op.call # "none"
BY DEF OpOK, Idle

LEMMA LogMount ==
  ASSUME LogOK, Mount
  PROVE  LogOK' /\ Directory' = Directory
<1>1. mdir' = Fetch(meta) /\ meta' = meta /\ Fetchable(meta) /\ mounted' = TRUE
  BY DEF Mount, flash
<1>2. Follows(Fetch(meta), meta)
  BY FetchFollows
<1>3. LogOK'
  BY <1>1, <1>2 DEF LogOK
<1>4. Directory' = Directory
  BY <1>1, LogFacts DEF Directory
<1> QED
  BY <1>3, <1>4

\* A directory that was fetched, of a pair in order.
LEMMA LogFetched ==
  ASSUME PairOK(meta'), mdir' = Fetch(meta'), mounted' = FALSE
  PROVE  LogOK' /\ Directory' = Said(meta')
<1>1. ASSUME NEW pair, PairOK(pair), mdir' = Fetch(pair)
      PROVE  Follows(mdir', pair) /\ mdir'.entries = Said(pair)
  BY <1>1, FetchFollows
<1>2. Follows(mdir', meta') /\ mdir'.entries = Said(meta')
  BY <1>1
<1> QED
  BY <1>2 DEF LogOK, Directory

LEMMA LogFormat ==
  ASSUME LogOK, Format
  PROVE  LogOK' /\ Directory' = Directory
<1> DEFINE new == [b \in 0 .. 1 |->
                     Block(2 - b, <<Commit(NoEntries)>> \o Rest(Blank, Slots - 1))]
<1>1. meta' = new /\ mdir' = Fetch(meta') /\ mounted' = FALSE /\ ~Fetchable(meta)
  BY DEF Format, LogOK
<1>2. Commit(NoEntries) \in Slot /\ Commit(NoEntries).kind = "commit"
      /\ Commit(NoEntries).entries = NoEntries /\ DOMAIN NoEntries = {}
  BY SlotTypes DEF Commit, NoEntries
<1>3. ASSUME NEW b \in 0 .. 1
      PROVE  /\ new[b] \in LogBlock /\ new[b].rev = 2 - b /\ Ordered(new[b])
             /\ Valid(new[b]) = 1
             /\ SubSeq(new[b].slots, 1, 1) = <<Commit(NoEntries)>>
  BY <1>2, FirstBlock
<1>4. PairOK(new)
  <2>1. new \in [0 .. 1 -> LogBlock]
    <3>1. \A b \in 0 .. 1 : new[b] \in LogBlock
      BY <1>3
    <3>2. new = [b \in 0 .. 1 |-> new[b]]
      OBVIOUS
    <3> HIDE DEF new
    <3> QED
      BY <3>1, <3>2
  <2>2. \A b \in 0 .. 1 : new[b].rev >= -1 /\ Ordered(new[b])
    BY <1>3
  <2> HIDE DEF new
  <2> QED
    BY <2>1, <2>2 DEF PairOK
<1> HIDE DEF new
<1>5. Said(new) = NoEntries
  <2>1. Said(new) = Entries(<<Commit(NoEntries)>>)
    BY <1>3, CurrentIsOne DEF Said
  <2> QED
    BY <2>1, <1>2, OneCommit
<1>6. Said(meta) = NoEntries
  <2> DEFINE c == Current(meta)
  <2>1. mdir.off = Valid(meta[c]) /\ mdir.off \in Nat
    BY LogFacts
  <2>2. Valid(meta[c]) = 0
    BY <2>1, <1>1 DEF Fetchable
  <2>3. SubSeq(meta[c].slots, 1, 0) = <<>>
    BY SubSeqEmpty
  <2> QED
    BY <2>2, <2>3, OneCommit DEF Said
<1>7. LogOK' /\ Directory' = Said(new)
  BY <1>1, <1>4, LogFetched
<1> QED
  BY <1>5, <1>6, <1>7, LogFacts

LEMMA LogAppend ==
  ASSUME LogOK, OpOK, Append_
  PROVE  /\ LogOK'
         /\ \/ Directory' = Directory /\ op' = [op EXCEPT !.at = "erase"]
            \/ Directory' = Compacted /\ op' = [op EXCEPT !.at = "done"]
<1> DEFINE c == Current(meta)
           v == Valid(meta[c])
           blank == meta[c].slots[v + 1].kind = "blank"
           slot == IF blank THEN Commit(op.entries) ELSE Torn
           new == Programmed(meta, slot)
<1>1. /\ mdir.cur = c /\ mdir.off = v /\ v \in Nat
      /\ op.at = "append" /\ mdir.off < Slots /\ mounted
      /\ mounted' = mounted
  BY LogFacts, InACall DEF Append_
<1>2. /\ meta' = new
      /\ mdir' = IF blank
                 THEN [mdir EXCEPT !.off = v + 1, !.entries = Applied(@, op.entries)]
                 ELSE mdir
      /\ op' = [op EXCEPT !.at = IF blank THEN "done" ELSE "erase"]
  BY <1>1 DEF Append_, Goto, Programmed
<1>3. slot \in Slot /\ (blank => slot.entries = op.entries)
      /\ slot.kind = IF blank THEN "commit" ELSE "torn"
  BY SlotTypes DEF OpOK, Ops, Commit, Torn
<1>4. PairOK(meta) /\ Fetchable(meta) /\ Follows(mdir, meta)
  BY <1>1 DEF LogOK
<1> HIDE DEF slot, blank
<1>5. /\ PairOK(new) /\ Fetchable(new)
      /\ Current(new) = c
      /\ new[c].rev = meta[c].rev
      /\ blank => Valid(new[c]) = v + 1 /\ Said(new) = Applied(Said(meta), op.entries)
      /\ ~blank => Valid(new[c]) = v /\ Said(new) = Said(meta)
  <2>2. Valid(meta[Current(meta)]) < Slots
    BY <1>1
  <2> QED
    BY <2>2, <1>3, <1>4, LogAppended
<1> HIDE DEF new
<1> HIDE DEF c, v
<1>6. mdir = [cur |-> c, rev |-> meta[c].rev, off |-> v, erased |-> mdir.erased,
              entries |-> Said(meta)]
  BY <1>4 DEF Follows, c, v
<1>7. Follows(mdir', new)
  <2>1. CASE blank
    <3>1. mdir' = [mdir EXCEPT !.off = v + 1, !.entries = Applied(mdir.entries, op.entries)]
      BY <2>1, <1>2
    <3>2. mdir = [cur |-> mdir.cur, rev |-> mdir.rev, off |-> mdir.off,
                  erased |-> mdir.erased, entries |-> mdir.entries]
      BY <1>6
    <3>3. mdir.cur = c /\ mdir.rev = meta[c].rev /\ mdir.entries = Said(meta)
      BY <1>6
    <3> DEFINE added == Applied(mdir.entries, op.entries)
    <3>4. added = Said(new)
      BY <3>3, <2>1, <1>5
    <3> HIDE DEF added
    <3>5. mdir' = [mdir EXCEPT !.off = v + 1, !.entries = added]
      BY <3>1 DEF added
    <3> QED
      BY <3>2, <3>3, <3>4, <3>5, <2>1, <1>5 DEF Follows
  <2>2. CASE ~blank
    BY <2>2, <1>2, <1>5, <1>6 DEF Follows
  <2> QED
    BY <2>1, <2>2
<1>8. LogOK'
  BY <1>1, <1>2, <1>5, <1>7 DEF LogOK
<1>9. Directory' = IF blank THEN Compacted ELSE Directory
  BY <1>2, <1>6 DEF Directory, Compacted
<1> QED
  BY <1>2, <1>8, <1>9

LEMMA LogErase ==
  ASSUME LogOK, OpOK, EraseBlock
  PROVE  LogOK' /\ Directory' = Directory
<1> DEFINE c == Current(meta)
           new == Replaced(meta, Erased)
<1>1. mdir.cur = c /\ meta' = new /\ mdir' = mdir /\ mounted' = mounted /\ mounted
  BY LogFacts, InACall DEF EraseBlock, Target, Replaced
<1>2. Erased \in LogBlock /\ Erased.rev = -1 /\ Ordered(Erased) /\ Valid(Erased) = 0
  BY SlotTypes, RestBlock DEF Erased, Blank
<1>3. PairOK(meta) /\ Fetchable(meta) /\ Follows(mdir, meta)
  BY <1>1 DEF LogOK
<1>4. /\ PairOK(new) /\ Fetchable(new)
      /\ Current(new) = c /\ new[c] = meta[c] /\ Said(new) = Said(meta)
  BY <1>2, <1>3, LogReplaced
<1> HIDE DEF new
<1>5. Follows(mdir, new)
  BY <1>3, <1>4 DEF Follows
<1> QED
  BY <1>1, <1>4, <1>5 DEF LogOK, Directory

LEMMA LogCompact ==
  ASSUME LogOK, OpOK, Compact
  PROVE  LogOK' /\ Directory' = Compacted
<1> DEFINE c == Current(meta)
           slot == Commit(Compacted)
           block == Block(mdir.rev + 1, <<slot>> \o Rest(Blank, Slots - 1))
           new == Replaced(meta, block)
<1>1. /\ mdir.cur = c /\ meta' = new /\ mounted' = mounted /\ mounted
      /\ mdir.rev = meta[c].rev /\ mdir.rev \in Int /\ mdir.rev >= -1
      /\ mdir' = [mdir EXCEPT !.cur = 1 - c, !.rev = mdir.rev + 1, !.off = 1,
                              !.entries = Compacted]
  <2>1. mdir.cur = c /\ mdir.rev = meta[c].rev /\ mdir.rev \in Int /\ mdir.rev >= -1
    BY LogFacts
  <2>2. mounted
    BY InACall DEF Compact
  <2>3. mdir' = [mdir EXCEPT !.cur = 1 - c, !.rev = mdir.rev + 1, !.off = 1,
                             !.entries = Compacted]
    BY <2>1 DEF Compact, Target
  <2> QED
    BY <2>1, <2>2, <2>3 DEF Compact, Target, Replaced
<1>2. /\ Compacted \in Changes
      /\ \A n \in DOMAIN Compacted : Compacted[n].type # "deleted"
  BY LogFacts, AppliedIs DEF OpOK, Ops, Compacted
<1>3. slot \in Slot /\ slot.kind = "commit" /\ slot.entries = Compacted
  BY <1>2, SlotTypes DEF Commit
<1> HIDE DEF slot
<1>4. /\ block \in LogBlock /\ block.rev = mdir.rev + 1 /\ Ordered(block)
      /\ Valid(block) = 1 /\ SubSeq(block.slots, 1, 1) = <<slot>>
  <2>1. mdir.rev + 1 \in Int
    BY <1>1
  <2> QED
    BY <2>1, <1>3, FirstBlock
<1> HIDE DEF block
<1>5. PairOK(meta) /\ Fetchable(meta) /\ Follows(mdir, meta)
  BY <1>1 DEF LogOK
<1>6. /\ PairOK(new) /\ Fetchable(new)
      /\ Current(new) = 1 - c /\ new[1 - c] = block
      /\ Said(new) = Entries(SubSeq(block.slots, 1, 1))
  <2>1. block.rev >= -1 /\ block.rev > meta[Current(meta)].rev
    BY <1>1, <1>4
  <2> QED
    BY <2>1, <1>4, <1>5, LogReplaced
<1>7. Said(new) = Compacted
  BY <1>2, <1>3, <1>4, <1>6, OneCommit
<1> HIDE DEF new
<1>8. mdir = [cur |-> mdir.cur, rev |-> mdir.rev, off |-> mdir.off,
              erased |-> mdir.erased, entries |-> mdir.entries]
  BY <1>5 DEF Follows
<1>9. Follows(mdir', new)
  BY <1>1, <1>4, <1>6, <1>7, <1>8 DEF Follows
<1>10. mdir'.entries = Compacted
  BY <1>1, <1>8
<1> QED
  BY <1>1, <1>6, <1>9, <1>10 DEF LogOK, Directory

\* Whatever a power cut leaves of a commit, a mount finds the directory.
LEMMA LogCut ==
  ASSUME LogOK, OpOK, PowerCut
  PROVE  LogOK' /\ Directory' = Directory
<1> DEFINE c == Current(meta)
<1>1. /\ meta' \in AfterCut /\ mdir' = Fetch(meta') /\ mounted' = FALSE
      /\ PairOK(meta) /\ Fetchable(meta)
  BY DEF PowerCut, LogOK
<1>2. /\ mdir.cur = c /\ mdir.off = Valid(meta[c]) /\ Directory = Said(meta)
      /\ mdir.rev = meta[c].rev /\ mdir.rev \in Int /\ mdir.rev >= -1
      /\ mdir.off \in Nat
  BY LogFacts
<1>3. ASSUME NEW slot \in {Torn, LooksBlank} PROVE slot \in Slot /\ slot.kind # "commit"
  BY SlotTypes DEF Torn, LooksBlank
<1>4. PairOK(meta') /\ Said(meta') = Said(meta)
  <2>1. CASE meta' = meta
    BY <2>1, <1>1
  <2>2. CASE /\ op.at = "append" /\ mdir.off < Slots
             /\ meta' \in {[meta EXCEPT ![mdir.cur].slots[mdir.off + 1] = slot] :
                             slot \in {Torn, LooksBlank}}
    <3>1. PICK slot \in {Torn, LooksBlank} :
            meta' = [meta EXCEPT ![mdir.cur].slots[mdir.off + 1] = slot]
      BY <2>2
    <3>2. meta' = Programmed(meta, slot)
      BY <3>1, <1>2 DEF Programmed
    <3>3. slot \in Slot /\ slot.kind # "commit" /\ Valid(meta[Current(meta)]) < Slots
      BY <1>2, <1>3, <2>2
    <3> QED
      BY <3>2, <3>3, <1>1, LogAppended
  <2>3. CASE /\ op.at = "erase"
             /\ meta' \in {[meta EXCEPT ![Target] = Block(rev, Rest(Torn, Slots))] :
                             rev \in {-1, mdir.rev + 2}}
    <3>1. PICK rev \in {-1, mdir.rev + 2} :
            meta' = [meta EXCEPT ![Target] = Block(rev, Rest(Torn, Slots))]
      BY <2>3
    <3> DEFINE block == Block(rev, Rest(Torn, Slots))
    <3>2. meta' = Replaced(meta, block)
      BY <3>1, <1>2 DEF Replaced, Target
    <3>3. rev \in Int /\ rev >= -1 /\ Torn \in Slot /\ Torn.kind # "commit"
      BY <1>2, <1>3
    <3>4. /\ block \in LogBlock /\ block.rev >= -1 /\ Ordered(block)
          /\ Valid(block) = 0
      BY <3>3, RestBlock
    <3> HIDE DEF block
    <3> QED
      BY <3>2, <3>4, <1>1, LogReplaced
  <2>4. CASE /\ op.at = "compact"
             /\ meta' \in {[meta EXCEPT ![Target] =
                              Block(mdir.rev + 1, <<slot>> \o Rest(Blank, Slots - 1))] :
                             slot \in {Torn, LooksBlank}}
    <3>1. PICK slot \in {Torn, LooksBlank} :
            meta' = [meta EXCEPT ![Target] =
                       Block(mdir.rev + 1, <<slot>> \o Rest(Blank, Slots - 1))]
      BY <2>4
    <3> DEFINE block == Block(mdir.rev + 1, <<slot>> \o Rest(Blank, Slots - 1))
    <3>2. meta' = Replaced(meta, block)
      BY <3>1, <1>2 DEF Replaced, Target
    <3>3. mdir.rev + 1 \in Int /\ mdir.rev + 1 >= -1 /\ slot \in Slot /\ slot.kind # "commit"
      BY <1>2, <1>3
    <3>4. /\ block \in LogBlock /\ block.rev >= -1 /\ Ordered(block)
          /\ Valid(block) = 0
      BY <3>3, FirstBlock
    <3> HIDE DEF block
    <3> QED
      BY <3>2, <3>4, <1>1, LogReplaced
  <2>5. \/ meta' = meta
        \/ /\ op.at = "append" /\ mdir.off < Slots
           /\ meta' \in {[meta EXCEPT ![mdir.cur].slots[mdir.off + 1] = slot] :
                           slot \in {Torn, LooksBlank}}
        \/ /\ op.at = "erase"
           /\ meta' \in {[meta EXCEPT ![Target] = Block(rev, Rest(Torn, Slots))] :
                           rev \in {-1, mdir.rev + 2}}
        \/ /\ op.at = "compact"
           /\ meta' \in {[meta EXCEPT ![Target] =
                            Block(mdir.rev + 1, <<slot>> \o Rest(Blank, Slots - 1))] :
                           slot \in {Torn, LooksBlank}}
    BY <1>1, Zenon DEF AfterCut
  <2> QED
    BY <2>1, <2>2, <2>3, <2>4, <2>5
<1>5. LogOK' /\ Directory' = Said(meta')
  BY <1>1, <1>4, LogFetched
<1> QED
  BY <1>2, <1>4, <1>5

LEMMA LogUnwritten ==
  ASSUME LogOK, meta' = meta, mounted' = mounted,
         mdir' = mdir \/ mdir' = Fetch(meta)
  PROVE  LogOK' /\ Directory' = Directory
<1>1. Follows(Fetch(meta), meta) /\ Fetch(meta).entries = Directory
  BY FetchFollows, LogFacts
<1>2. Follows(mdir', meta)
  BY <1>1 DEF LogOK
<1> QED
  BY <1>1, <1>2 DEF LogOK, Directory

\* A step by which the call in progress has its entries in the directory.
Commits_ ==
  /\ op.at \in {"append", "compact"}
  /\ op' = [op EXCEPT !.at = "done"]
  /\ Directory' = Compacted
  /\ UNCHANGED <<data, free, file, mounted>>

LEMMA LogStep ==
  ASSUME LogOK, OpOK, [Next]_vars
  PROVE  LogOK' /\ (Directory' = Directory \/ Commits_)
<1>1. CASE Mount
  BY <1>1, LogMount
<1>2. CASE Format
  BY <1>2, LogFormat
<1>3. CASE Append_
  <2>1. UNCHANGED <<data, free, file, mounted>> /\ op.at = "append"
    BY <1>3 DEF Append_
  <2> QED
    BY <1>3, <2>1, LogAppend DEF Commits_
<1>4. CASE EraseBlock
  BY <1>4, LogErase
<1>5. CASE Compact
  <2>1. UNCHANGED <<data, free, file, mounted>> /\ op.at = "compact"
        /\ op' = [op EXCEPT !.at = "done"]
    BY <1>5 DEF Compact, Goto
  <2> QED
    BY <1>5, <2>1, LogCompact DEF Commits_
<1>6. CASE PowerCut
  BY <1>6, LogCut
<1>7. CASE \E n \in Names : lfs_file_open(n) \/ lfs_remove(n)
  <2>1. meta' = meta /\ mounted' = mounted /\ mdir' = Fetch(meta)
    BY <1>7 DEF lfs_file_open, lfs_remove, Call, flash
  <2> QED
    BY <2>1, LogUnwritten
<1>8. CASE \/ \E u \in Units : lfs_file_write(u)
           \/ lfs_file_close \/ NoRoom
           \/ Scan \/ NoSpace \/ Take \/ Created \/ NeedsBlock \/ Put \/ CopyOld
           \/ Flush \/ Synced \/ CloseOnly \/ Removed
  <2>1. meta' = meta /\ mounted' = mounted /\ mdir' = mdir
    BY <1>8 DEF lfs_file_write, lfs_file_close, NoRoom, Scan, NoSpace, Take, Created,
       NeedsBlock, Put, CopyOld, Flush, Synced, CloseOnly, Removed, flash
  <2> QED
    BY <2>1, LogUnwritten
<1>9. CASE UNCHANGED vars
  <2>1. meta' = meta /\ mounted' = mounted /\ mdir' = mdir
    BY <1>9 DEF vars, flash
  <2> QED
    BY <2>1, LogUnwritten
<1> QED
  BY <1>1, <1>2, <1>3, <1>4, <1>5, <1>6, <1>7, <1>8, <1>9 DEF Next

-----------------------------------------------------------------------------
(* What is committed. *)

LEMMA OnlyIs ==
  ASSUME NEW n, NEW e
  PROVE  DOMAIN Only(n, e) = {n} /\ Only(n, e)[n] = e
BY DEF Only

LEMMA OnlyIsChanges ==
  ASSUME NEW n \in Names, NEW e \in Entry
  PROVE  Only(n, e) \in Changes
<1>1. Only(n, e) = [m \in DOMAIN Only(n, e) |-> Only(n, e)[m]]
  BY DEF Only
<1>2. DOMAIN Only(n, e) \subseteq Names /\ \A m \in DOMAIN Only(n, e) : Only(n, e)[m] \in Entry
  <2>1. DOMAIN Only(n, e) = {n} /\ Only(n, e)[n] = e
    BY OnlyIs
  <2> QED
    BY <2>1
<1> QED
  BY <1>1, <1>2, ChangesAre

\* A quotient is below what the number fits in.
LEMMA QuotientBelow ==
  ASSUME NEW a \in Nat, NEW m \in Nat, m >= 1, NEW l \in Nat, a < l * m
  PROVE  a \div m < l
<1> DEFINE q == a \div m
           x == a % m
<1>1. q \in Nat /\ x \in Nat /\ a = m * q + x
  OBVIOUS
<1> HIDE DEF q, x
<1>2. SUFFICES ASSUME ~ (q < l) PROVE FALSE
  BY DEF q
<1>3. q >= l
  BY <1>1, <1>2
<1>4. PICK d \in Nat : q = l + d
  <2>1. q - l \in Nat /\ q = l + (q - l)
    BY <1>1, <1>3
  <2> QED
    BY <2>1
<1>5. m * q = m * l + m * d
  BY <1>4
<1>6. m * d \in Nat /\ m * l = l * m /\ m * l \in Nat
  BY <1>4
<1> QED
  BY <1>1, <1>5, <1>6

LEMMA NoUnits ==
  /\ Inline(<<>>) \in Entry /\ FileEntry(Inline(<<>>)) /\ ChainOf(Inline(<<>>)) = {}
  /\ Deleted \in Entry /\ Deleted.type = "deleted"
<1>1. /\ <<>> \in Seq(Words) /\ <<>> \in Seq(DataBlocks) /\ Len(<<>>) = 0
      /\ DOMAIN <<>> = {}
  BY EmptySeq
<1>2. Inline(<<>>) \in Entry
  BY <1>1 DEF Inline, Entry
<1>3. FileEntry(Inline(<<>>))
  BY <1>1, <1>2, Constants DEF Inline, FileEntry
<1>4. ChainOf(Inline(<<>>)) = {}
  BY <1>1 DEF ChainOf, Inline, ToSet
<1>5. Deleted \in Entry
  BY <1>1 DEF Deleted, Entry
<1> QED
  BY <1>2, <1>3, <1>4, <1>5 DEF Deleted

LEMMA NewEntryFits ==
  ASSUME FileOK, file.open, file.writing
  PROVE  FileEntry(NewEntry) /\ NewEntry \in Entry /\ NewEntry.type # "deleted"
<1>0. /\ file.cache \in Seq(Words) /\ file.blocks \in Seq(DataBlocks) /\ file.pos \in Nat
      /\ file.inline \in BOOLEAN
  BY DEF FileOK, Files
<1>1. CASE file.inline
  <2>1. NewEntry = Inline(file.cache) /\ Len(file.cache) <= InlineMax
        /\ Len(file.cache) \in Nat /\ <<>> \in Seq(DataBlocks)
    BY <1>0, <1>1, EmptySeq DEF NewEntry, FileOK
  <2> QED
    BY <1>0, <2>1 DEF Inline, FileEntry, Entry
<1>2. CASE ~file.inline
  <2>1. NewEntry = Ctz(file.blocks, file.pos) /\ <<>> \in Seq(Words)
    BY <1>2, EmptySeq DEF NewEntry
  <2> DEFINE L == Len(file.blocks)
             C == Len(file.cache)
             P == file.pos
  <2>2. /\ L \in Nat /\ C \in Nat /\ P \in Nat /\ L >= 1 /\ C <= BlockUnits
        /\ P = (L - 1) * BlockUnits + C /\ BlockUnits \in Nat /\ BlockUnits >= 1
    BY <1>0, <1>2, Constants, LenProperties DEF FileOK
  <2> HIDE DEF L, C, P
  <2>3. P <= L * BlockUnits
    <3>1. (L - 1) * BlockUnits = L * BlockUnits - BlockUnits
      BY <2>2
    <3>2. L * BlockUnits \in Nat
      BY <2>2
    <3> QED
      BY <3>1, <3>2, <2>2
  <2>4. ASSUME NEW k \in 1 .. P PROVE (k - 1) \div BlockUnits < L
    <3>1. k - 1 \in Nat /\ k - 1 < L * BlockUnits
      <4>1. L * BlockUnits \in Nat
        BY <2>2
      <4> QED
        BY <4>1, <2>2, <2>3
    <3> QED
      BY <3>1, <2>2, QuotientBelow
  <2>5. NewEntry \in Entry
    BY <1>0, <2>1 DEF Ctz, Entry
  <2> QED
    BY <2>1, <2>4, <2>5 DEF Ctz, FileEntry, L, P
<1> QED
  BY <1>0, <1>1, <1>2

\* One entry is committed: an empty file, a removal, or what was written.
LEMMA Committed ==
  ASSUME OpOK, FileOK, Committing
  PROVE  \E n \in Names, e \in Entry :
           /\ op.entries = Only(n, e)
           /\ e.type # "deleted" => FileEntry(e)
           /\ \/ op.call = "open" /\ n = op.name /\ e = Inline(<<>>)
              \/ op.call = "remove" /\ n = op.name /\ e = Deleted
              \/ /\ op.call = "close" /\ n = file.name /\ e = NewEntry
                 /\ file.open /\ file.writing
<1>1. CASE op.call = "open"
  <2>1. op.name \in Names /\ op.entries = Only(op.name, Inline(<<>>))
    BY <1>1 DEF OpOK
  <2> QED
    BY <1>1, <2>1, NoUnits
<1>2. CASE op.call = "remove"
  <2>1. op.name \in Names /\ op.entries = Only(op.name, Deleted)
    BY <1>2 DEF OpOK
  <2> QED
    BY <1>2, <2>1, NoUnits
<1>3. CASE op.call = "close"
  <2>1. file.open /\ file.writing /\ op.entries = Only(file.name, NewEntry)
    BY <1>3 DEF OpOK, Committing
  <2>2. file.name \in Names
    BY <2>1 DEF FileOK
  <2> QED
    BY <1>3, <2>1, <2>2, NewEntryFits
<1>4. op.call \in {"open", "remove", "close"}
  BY DEF OpOK, Ops, Committing, Idle
<1> QED
  BY <1>1, <1>2, <1>3, <1>4

\* The directory with it.
LEMMA CompactedIs ==
  ASSUME LogOK, NEW n \in Names, NEW e \in Entry, op.entries = Only(n, e)
  PROVE  /\ \A m : m \in DOMAIN Compacted <=>
              \/ m = n /\ e.type # "deleted"
              \/ m # n /\ m \in DOMAIN Directory
         /\ \A m \in DOMAIN Compacted :
              Compacted[m] = IF m = n THEN e ELSE Directory[m]
<1>1. Compacted = Applied(Directory, Only(n, e))
  BY DEF Compacted
<1>2. Only(n, e) \in Changes /\ DOMAIN Only(n, e) = {n} /\ Only(n, e)[n] = e
  BY OnlyIs, OnlyIsChanges
<1>3. Directory \in Changes /\ \A m \in DOMAIN Directory : Directory[m].type # "deleted"
  BY LogFacts
<1> HIDE DEF Compacted, Directory
<1> QED
  BY <1>1, <1>2, <1>3, AppliedIs

LEMMA DirectoryStep ==
  ASSUME LogOK, DirectoryOK, OpOK, FileOK, [Next]_vars
  PROVE  DirectoryOK'
<1>1. CASE Directory' = Directory
  BY <1>1 DEF DirectoryOK
<1>2. CASE Commits_
  <2>1. PICK n \in Names, e \in Entry :
          op.entries = Only(n, e) /\ (e.type # "deleted" => FileEntry(e))
    BY <1>2, Committed DEF Commits_, Committing
  <2>2. ASSUME NEW m \in DOMAIN Compacted
        PROVE  m \in Names /\ FileEntry(Compacted[m])
    BY <2>1, CompactedIs DEF DirectoryOK
  <2>3. Directory' = Compacted
    BY <1>2 DEF Commits_
  <2> QED
    BY <2>2, <2>3 DEF DirectoryOK
<1> QED
  BY <1>1, <1>2, LogStep

-----------------------------------------------------------------------------
(* The allocator. *)

LEMMA NextFreeIs ==
  ASSUME free.size \in Nat, NEW i \in Nat, i <= free.size
  PROVE  /\ NextFree(i) \in Nat /\ i <= NextFree(i) /\ NextFree(i) <= free.size
         /\ NextFree(i) < free.size => IsFree(NextFree(i))
<1> DEFINE S == {free.size} \cup {j \in i .. free.size - 1 : IsFree(j)}
<1>1. S \subseteq Nat /\ S # {}
  OBVIOUS
<1>2. \A k \in S : i <= k /\ k <= free.size /\ (k < free.size => IsFree(k))
  OBVIOUS
<1>3. NextFree(i) = Min(S)
  BY DEF NextFree
<1> HIDE DEF S
<1>4. NextFree(i) \in S
  BY <1>1, <1>3, MinIsLeast
<1> QED
  BY <1>1, <1>2, <1>4

\* The block that is given out next.
Block_ == (free.off + NextFree(free.i)) % BlockCount

LEMMA BlockIsUnused ==
  ASSUME WindowOK, NextFree(free.i) < free.size
  PROVE  Block_ \in DataBlocks /\ Block_ \notin InUse
<1> DEFINE i == NextFree(free.i)
<1>0. /\ free.off \in Nat /\ free.size \in Nat /\ free.i \in Nat
      /\ free.off < BlockCount /\ free.i <= free.size /\ free.size <= BlockCount
      /\ BlockCount \in Nat
  BY Constants DEF WindowOK
<1>1. i \in Nat /\ free.i <= i /\ i < free.size /\ IsFree(i)
  BY <1>0, NextFreeIs
<1> HIDE DEF i
<1>2. Block_ = (free.off + i) % BlockCount /\ Block_ \notin free.used
  BY <1>1 DEF Block_, IsFree, i
<1>3. i < BlockCount
  BY <1>0, <1>1
<1>4. Block_ \in Nat /\ Block_ < BlockCount
  BY <1>0, <1>1, <1>2, <1>3, WindowPlace
<1>5. Block_ \notin InUse
  BY <1>1, <1>2 DEF WindowOK
<1>6. 0 \in InUse /\ 1 \in InUse
  BY DEF InUse, Tree
<1>7. Block_ # 0 /\ Block_ # 1
  BY <1>5, <1>6
<1> QED
  BY <1>0, <1>4, <1>5, <1>7 DEF DataBlocks

\* The window goes on behind a block that was given out.
LEMMA WindowTaken ==
  ASSUME WindowOK, NextFree(free.i) < free.size,
         free' = Taken(NextFree(free.i)),
         InUse' \subseteq InUse \cup {Block_}
  PROVE  WindowOK'
<1> DEFINE i == NextFree(free.i)
           k == NextFree(i + 1)
<1>0. /\ free.off \in Nat /\ free.size \in Nat /\ free.i \in Nat /\ free.ack \in Nat
      /\ free.off < BlockCount /\ free.i <= free.size /\ free.size <= BlockCount
      /\ BlockCount \in Nat /\ free.size <= Lookahead
      /\ free.size - free.i <= free.ack /\ free.ack <= BlockCount
  BY Constants DEF WindowOK
<1>1. i \in Nat /\ free.i <= i /\ i < free.size
  BY <1>0, NextFreeIs
<1>2. k \in Nat /\ i + 1 <= k /\ k <= free.size
  <2>1. i + 1 \in Nat /\ i + 1 <= free.size
    BY <1>0, <1>1
  <2> QED
    BY <2>1, <1>0, NextFreeIs
<1>3. Block_ = (free.off + i) % BlockCount
  BY DEF Block_
<1>4. free' = [free EXCEPT !.i = k, !.ack = free.ack - (k - free.i)]
  BY DEF Taken
<1> HIDE DEF i, k
<1>5. /\ free'.off = free.off /\ free'.size = free.size /\ free'.i = k
      /\ free'.ack = free.ack - (k - free.i) /\ free'.used = free.used
      /\ free' = [off |-> free'.off, size |-> free'.size, i |-> free'.i,
                  ack |-> free'.ack, used |-> free'.used]
  BY <1>4 DEF WindowOK
<1>6. free'.ack \in Nat /\ free.size - k <= free'.ack /\ free'.ack <= BlockCount
  BY <1>0, <1>1, <1>2, <1>5
<1>7. ASSUME NEW j \in Nat, k <= j, j < free.size, (free.off + j) % BlockCount \in InUse'
      PROVE  (free.off + j) % BlockCount \in free.used
  <2>1. (free.off + j) % BlockCount # Block_
    <3>1. j < BlockCount /\ i < BlockCount /\ i # j
      BY <1>0, <1>1, <1>2, <1>7
    <3> QED
      BY <3>1, <1>0, <1>1, <1>3, WindowPlacesDiffer
  <2>2. (free.off + j) % BlockCount \in InUse
    BY <2>1, <1>7
  <2>3. free.i <= j
    BY <1>0, <1>1, <1>2, <1>7
  <2> QED
    BY <2>2, <2>3, <1>7 DEF WindowOK
<1>9. free'.i <= free'.size
  BY <1>2, <1>5
<1> QED
  BY <1>0, <1>2, <1>5, <1>6, <1>7, <1>9 DEF WindowOK

LEMMA WindowScanned ==
  ASSUME WindowOK, Scan, InUse' = InUse
  PROVE  WindowOK'
<1> DEFINE ack == free.ack - (free.size - free.i)
           off == (free.off + free.size) % BlockCount
           size == IF Lookahead < ack THEN Lookahead ELSE ack
           used == {b \in InUse : (b - off + BlockCount) % BlockCount < size}
<1>0. /\ free.off \in Nat /\ free.size \in Nat /\ free.i \in Nat /\ free.ack \in Nat
      /\ free.off < BlockCount /\ free.i <= free.size /\ free.size <= BlockCount
      /\ BlockCount \in Nat /\ BlockCount > 2
      /\ free.size - free.i <= free.ack /\ free.ack <= BlockCount
      /\ Lookahead \in Nat /\ Lookahead >= 1
  BY Constants DEF WindowOK
<1>1. free' = [off |-> off, size |-> size, i |-> 0, ack |-> ack, used |-> used]
  BY DEF Scan
<1>2. ack \in Nat /\ ack <= BlockCount
  BY <1>0
<1>3. off \in Nat /\ off < BlockCount
  <2>1. free.off + free.size \in Nat
    BY <1>0
  <2> HIDE DEF ack, size, used
  <2> QED
    BY <2>1, <1>0
<1> HIDE DEF ack, off
<1>4. size \in Nat /\ size <= Lookahead /\ size <= BlockCount /\ size <= ack
  BY <1>0, <1>2
<1> HIDE DEF size
<1>5. /\ free'.off = off /\ free'.size = size /\ free'.i = 0
      /\ free'.ack = ack /\ free'.used = used
      /\ free' = [off |-> free'.off, size |-> free'.size, i |-> free'.i,
                  ack |-> free'.ack, used |-> free'.used]
  BY <1>1
<1>6. ASSUME NEW j \in Nat, 0 <= j, j < size, (off + j) % BlockCount \in InUse'
      PROVE  (off + j) % BlockCount \in used
  <2>1. j < BlockCount
    BY <1>0, <1>4, <1>6
  <2>2. (((off + j) % BlockCount) - off + BlockCount) % BlockCount = j
    BY <2>1, <1>3, WindowPlace
  <2> QED
    BY <2>2, <1>6
<1> HIDE DEF used
<1> QED
  BY <1>2, <1>3, <1>4, <1>5, <1>6 DEF WindowOK

\* The block count since the last file operation begins anew, or is used up.
LEMMA WindowAcked ==
  ASSUME WindowOK, free' = Acked, InUse' \subseteq InUse
  PROVE  WindowOK'
<1>0. /\ free.off \in Nat /\ free.size \in Nat /\ free.i \in Nat
      /\ free.off < BlockCount /\ free.i <= free.size /\ free.size <= BlockCount
      /\ BlockCount \in Nat /\ free.size <= Lookahead
  BY Constants DEF WindowOK
<1>1. /\ free'.off = free.off /\ free'.size = free.size /\ free'.i = free.i
      /\ free'.ack = BlockCount /\ free'.used = free.used
      /\ free' = [off |-> free'.off, size |-> free'.size, i |-> free'.i,
                  ack |-> free'.ack, used |-> free'.used]
  BY DEF WindowOK, Acked
<1>2. \A j \in Nat :
        free.i <= j /\ j < free.size /\ (free.off + j) % BlockCount \in InUse'
          => (free.off + j) % BlockCount \in free.used
  BY DEF WindowOK
<1>3. free.size - free.i <= BlockCount
  BY <1>0
<1> QED
  BY <1>0, <1>1, <1>2, <1>3 DEF WindowOK

LEMMA WindowUsedUp ==
  ASSUME WindowOK, free' = [free EXCEPT !.i = free.size, !.ack = 0]
  PROVE  WindowOK'
<1>0. /\ free.off \in Nat /\ free.size \in Nat
      /\ free.off < BlockCount /\ free.size <= BlockCount
      /\ BlockCount \in Nat /\ free.size <= Lookahead
  BY Constants DEF WindowOK
<1>1. /\ free'.off = free.off /\ free'.size = free.size /\ free'.i = free.size
      /\ free'.ack = 0 /\ free'.used = free.used
      /\ free' = [off |-> free'.off, size |-> free'.size, i |-> free'.i,
                  ack |-> free'.ack, used |-> free'.used]
  BY DEF WindowOK
<1> QED
  BY <1>0, <1>1 DEF WindowOK

LEMMA WindowDropped ==
  ASSUME NEW off \in Nat, off < BlockCount, free' = [NoWindow EXCEPT !.off = off]
  PROVE  WindowOK'
<1>1. /\ free'.off = off /\ free'.size = 0 /\ free'.i = 0
      /\ free'.ack = BlockCount
      /\ free' = [off |-> free'.off, size |-> free'.size, i |-> free'.i,
                  ack |-> free'.ack, used |-> free'.used]
  BY DEF NoWindow
<1> QED
  BY <1>1, Constants DEF WindowOK

LEMMA WindowKept ==
  ASSUME WindowOK, free' = free, InUse' \subseteq InUse
  PROVE  WindowOK'
BY DEF WindowOK

-----------------------------------------------------------------------------
(* Steps of the open file and of the call. *)

LEMMA ClosedIsOK ==
  ASSUME file' = Closed
  PROVE  FileOK'
<1>1. <<>> \in Seq(Words) /\ <<>> \in Seq(DataBlocks) /\ Len(<<>>) = 0
  BY EmptySeq
<1>2. Closed \in Files
  BY <1>1, NoUnits DEF Closed, Files
<1> QED
  BY <1>1, <1>2, NoUnits DEF FileOK, Closed

LEMMA OpenedIsOK ==
  ASSUME NEW n \in Names, NEW e, FileEntry(e), mounted', file' = Opened(n, e)
  PROVE  FileOK'
<1>1. /\ e \in Entry /\ e.units \in Seq(Words) /\ <<>> \in Seq(DataBlocks)
      /\ Len(<<>>) = 0 /\ Len(e.units) \in Nat
  BY EmptySeq DEF FileEntry, Entry
<1>2. file' = [open |-> TRUE, name |-> n,
               inline |-> e.type = "inline", writing |-> FALSE, erred |-> FALSE,
               gone |-> FALSE, pos |-> 0, entry |-> e, blocks |-> <<>>,
               cache |-> e.units]
  BY DEF Opened, Closed
<1>3. file' \in Files
  BY <1>1, <1>2 DEF Files
<1>4. e.type = "inline" => Len(e.units) <= InlineMax
  BY DEF FileEntry
<1>5. e.type # "inline" => e.units = <<>>
  BY DEF FileEntry
<1>6. /\ file'.open = TRUE /\ file'.name = n /\ file'.inline = (e.type = "inline")
      /\ file'.writing = FALSE /\ file'.pos = 0 /\ file'.entry = e
      /\ file'.blocks = <<>> /\ file'.cache = e.units
  BY <1>2
<1>7. file'.inline => /\ file'.pos <= Len(file'.cache) /\ Len(file'.cache) <= InlineMax
                      /\ file'.blocks = <<>>
  <2>1. SUFFICES ASSUME e.type = "inline"
                 PROVE  file'.pos <= Len(file'.cache) /\ Len(file'.cache) <= InlineMax
    BY <1>6
  <2>2. file'.pos = 0 /\ file'.cache = e.units
    BY <1>6
  <2>3. 0 <= Len(e.units) /\ Len(e.units) <= InlineMax
    BY <1>1, <1>4, <2>1
  <2> QED
    BY <2>2, <2>3
<1>8. ~file'.inline => file'.blocks = <<>> /\ file'.cache = <<>> /\ file'.pos = 0
  BY <1>5, <1>6
<1> QED
  BY <1>3, <1>6, <1>7, <1>8 DEF FileOK

\* A file that is not touched stays as it is, as long as power does.
LEMMA FileUntouched ==
  ASSUME FileOK, file' = file, mounted => mounted'
  PROVE  FileOK'
BY DEF FileOK

LEMMA FileErred ==
  ASSUME FileOK, file.open, mounted' = mounted,
         \/ file' = [file EXCEPT !.erred = TRUE]
         \/ \E g \in BOOLEAN : file' = [file EXCEPT !.gone = g]
  PROVE  FileOK'
<1>1. /\ file' \in Files
      /\ file'.open = file.open /\ file'.name = file.name
      /\ file'.inline = file.inline /\ file'.writing = file.writing
      /\ file'.pos = file.pos /\ file'.entry = file.entry
      /\ file'.blocks = file.blocks /\ file'.cache = file.cache
  BY DEF FileOK, Files
<1> QED
  BY <1>1 DEF FileOK

\* The file goes on in a block.
LEMMA FileTaken ==
  ASSUME FileOK, file.open, mounted' = mounted, NEW block \in DataBlocks,
         file.inline \/ BlockFull,
         file' = [file EXCEPT !.inline = FALSE, !.writing = TRUE,
                    !.blocks = IF file.inline THEN <<block>> ELSE Append(@, block),
                    !.cache = IF file.inline THEN SubSeq(@, 1, file.pos) ELSE <<>>]
  PROVE  /\ FileOK'
         /\ file'.open /\ file'.writing /\ ~file'.inline
         /\ file'.name = file.name /\ file'.pos = file.pos
         /\ file'.entry = file.entry /\ file'.gone = file.gone
         /\ file'.blocks = IF file.inline THEN <<block>> ELSE Append(file.blocks, block)
         /\ file'.cache = IF file.inline THEN SubSeq(file.cache, 1, file.pos) ELSE <<>>
<1> DEFINE blocks == IF file.inline THEN <<block>> ELSE Append(file.blocks, block)
           cache == IF file.inline THEN SubSeq(file.cache, 1, file.pos) ELSE <<>>
<1>0. /\ file.cache \in Seq(Words) /\ file.blocks \in Seq(DataBlocks) /\ file.pos \in Nat
      /\ file.inline \in BOOLEAN /\ file \in Files
      /\ Len(file.cache) \in Nat /\ Len(file.blocks) \in Nat
  BY LenProperties DEF FileOK, Files
<1>1. blocks \in Seq(DataBlocks) /\ cache \in Seq(Words)
      /\ Len(blocks) \in Nat /\ Len(blocks) >= 1
      /\ Len(cache) <= BlockUnits
      /\ file.pos = (Len(blocks) - 1) * BlockUnits + Len(cache)
  <2>1. CASE file.inline
    <3>1. file.pos <= Len(file.cache) /\ Len(file.cache) <= InlineMax
      BY <2>1 DEF FileOK
    <3>2. /\ SubSeq(file.cache, 1, file.pos) \in Seq(Words)
          /\ Len(SubSeq(file.cache, 1, file.pos)) = file.pos
      <4>1. \A i \in 1 .. file.pos : file.cache[i] \in Words
        BY <1>0, <3>1, ElementOfSeq
      <4>2. Len(SubSeq(file.cache, 1, file.pos))
              = IF 1 <= file.pos THEN file.pos - 1 + 1 ELSE 0
        BY <1>0, <4>1, SubSeqProperties
      <4> QED
        BY <1>0, <4>1, <4>2, SubSeqProperties
    <3>3. blocks = <<block>> /\ Len(<<block>>) = 1 /\ <<block>> \in Seq(DataBlocks)
      BY <2>1
    <3>4. (1 - 1) * BlockUnits = 0
      BY Constants
    <3> QED
      BY <1>0, <2>1, <3>1, <3>2, <3>3, <3>4, Constants
  <2>2. CASE ~file.inline
    <3>1. blocks = Append(file.blocks, block) /\ cache = <<>>
      BY <2>2
    <3>2. /\ blocks \in Seq(DataBlocks) /\ Len(blocks) = Len(file.blocks) + 1
          /\ cache \in Seq(Words) /\ Len(cache) = 0
      <4>1. cache \in Seq(Words) /\ Len(cache) = 0
        BY <3>1, EmptySeq
      <4>2. /\ Append(file.blocks, block) \in Seq(DataBlocks)
            /\ Len(Append(file.blocks, block)) = Len(file.blocks) + 1
        BY <1>0
      <4> QED
        BY <3>1, <4>1, <4>2
    <3>3. file.pos = Len(file.blocks) * BlockUnits
      <4>1. CASE ~file.writing
        <5>1. file.blocks = <<>> /\ file.pos = 0 /\ Len(<<>>) = 0
          BY <2>2, <4>1, EmptySeq DEF FileOK
        <5>2. 0 * BlockUnits = 0
          BY Constants
        <5> QED
          BY <5>1, <5>2
      <4>2. CASE file.writing
        <5>1. /\ Len(file.cache) = BlockUnits
              /\ file.pos = (Len(file.blocks) - 1) * BlockUnits + Len(file.cache)
          BY <2>2, <4>2 DEF FileOK, BlockFull
        <5> DEFINE L == Len(file.blocks)
        <5>2. L \in Nat /\ BlockUnits \in Nat
          BY <1>0, Constants
        <5> HIDE DEF L
        <5>3. (L - 1) * BlockUnits + BlockUnits = L * BlockUnits
          BY <5>2
        <5> QED
          BY <5>1, <5>3 DEF L
      <4> QED
        BY <4>1, <4>2
    <3>4. (Len(file.blocks) + 1) - 1 = Len(file.blocks)
      BY <1>0
    <3>5. (Len(blocks) - 1) * BlockUnits = file.pos
      BY <3>2, <3>3, <3>4
    <3>6. file.pos + 0 = file.pos /\ Len(blocks) \in Nat /\ Len(blocks) >= 1
      BY <1>0, <3>2
    <3> HIDE DEF blocks, cache
    <3> QED
      BY <3>2, <3>5, <3>6, Constants
  <2> QED
    BY <1>0, <2>1, <2>2
<1>2. file' = [file EXCEPT !.inline = FALSE, !.writing = TRUE,
                           !.blocks = blocks, !.cache = cache]
  OBVIOUS
<1> HIDE DEF blocks, cache
<1>3. /\ file' \in Files
      /\ file'.open = file.open /\ file'.name = file.name
      /\ file'.inline = FALSE /\ file'.writing = TRUE
      /\ file'.pos = file.pos /\ file'.entry = file.entry /\ file'.gone = file.gone
      /\ file'.blocks = blocks /\ file'.cache = cache
  BY <1>0, <1>1, <1>2 DEF Files
<1>4. FileOK'
  BY <1>1, <1>3 DEF FileOK
<1> QED
  BY <1>3, <1>4 DEF blocks, cache

\* Where the units of an entry are.
LEMMA ContentIs ==
  ASSUME DataOK, NEW entry, FileEntry(entry)
  PROVE  /\ Content(entry) \in Seq(Words) /\ Len(Content(entry)) = entry.size
         /\ entry.type = "ctz" =>
              \A k \in 1 .. entry.size :
                /\ 1 + ((k - 1) \div BlockUnits) \in 1 .. Len(entry.blocks)
                /\ entry.blocks[1 + ((k - 1) \div BlockUnits)] \in DataBlocks
                /\ 1 + ((k - 1) % BlockUnits) \in 1 .. BlockUnits
                /\ Content(entry)[k]
                     = data[entry.blocks[1 + ((k - 1) \div BlockUnits)]]
                           [1 + ((k - 1) % BlockUnits)]
<1>0. /\ entry.units \in Seq(Words) /\ entry.blocks \in Seq(DataBlocks)
      /\ entry.size \in Nat /\ Len(entry.blocks) \in Nat
  BY LenProperties DEF FileEntry, Entry
<1>1. CASE entry.type = "inline"
  <2>1. Content(entry) = entry.units /\ entry.size = Len(entry.units)
    BY <1>1 DEF Content, FileEntry
  <2> QED
    BY <1>0, <1>1, <2>1
<1>2. CASE entry.type # "inline"
  <2> DEFINE at(k) == 1 + ((k - 1) \div BlockUnits)
             in(k) == 1 + ((k - 1) % BlockUnits)
  <2>1. ASSUME NEW k \in 1 .. entry.size
        PROVE  /\ at(k) \in 1 .. Len(entry.blocks) /\ entry.blocks[at(k)] \in DataBlocks
               /\ in(k) \in 1 .. BlockUnits
               /\ data[entry.blocks[at(k)]][in(k)] \in Words
    <3>1. (k - 1) \div BlockUnits < Len(entry.blocks)
      BY <1>2 DEF FileEntry
    <3>2. k - 1 \in Nat /\ BlockUnits \in Nat /\ BlockUnits >= 1
      BY <1>0, Constants
    <3>3. (k - 1) \div BlockUnits \in Nat /\ (k - 1) % BlockUnits \in Nat
          /\ (k - 1) % BlockUnits < BlockUnits
      BY <3>2
    <3>4. at(k) \in 1 .. Len(entry.blocks)
      BY <1>0, <3>1, <3>3
    <3>5. in(k) \in 1 .. BlockUnits
      BY <3>2, <3>3
    <3> HIDE DEF at, in
    <3>6. entry.blocks[at(k)] \in DataBlocks
      BY <1>0, <3>4, ElementOfSeq
    <3>7. data[entry.blocks[at(k)]] \in [1 .. BlockUnits -> Words]
      BY <3>6 DEF DataOK
    <3> QED
      BY <3>4, <3>5, <3>6, <3>7
  <2>2. Content(entry) = [k \in 1 .. entry.size |-> data[entry.blocks[at(k)]][in(k)]]
    BY <1>2 DEF Content
  <2> HIDE DEF at, in
  <2>3. /\ Content(entry) \in Seq(Words) /\ Len(Content(entry)) = entry.size
    <3>1. \A k \in 1 .. entry.size : data[entry.blocks[at(k)]][in(k)] \in Words
      BY <2>1
    <3>2. [k \in 1 .. entry.size |-> data[entry.blocks[at(k)]][in(k)]] \in Seq(Words)
      BY <1>0, <3>1, IsASeq
    <3> QED
      BY <1>0, <2>2, <3>2
  <2>4. \A k \in 1 .. entry.size : Content(entry)[k] = data[entry.blocks[at(k)]][in(k)]
    BY <2>2
  <2> QED
    BY <2>1, <2>3, <2>4 DEF at, in
<1> QED
  BY <1>1, <1>2

\* A unit is written over another one, or behind the last.
LEMMA Overwritten ==
  ASSUME NEW c \in Seq(Words), NEW p \in Nat, p <= Len(c), NEW u \in Words
  PROVE  LET s == SubSeq(c, 1, p) \o <<u>> \o SubSeq(c, p + 2, Len(c))
         IN /\ s \in Seq(Words) /\ Len(s) = MaxOf(p + 1, Len(c))
            /\ \A i \in 1 .. Len(s) : s[i] = IF i = p + 1 THEN u ELSE c[i]
<1> DEFINE a == SubSeq(c, 1, p)
           b == SubSeq(c, p + 2, Len(c))
           s == (a \o <<u>>) \o b
<1>0. Len(c) \in Nat /\ \A i \in 1 .. Len(c) : c[i] \in Words
  BY LenProperties, ElementOfSeq
<1>1. a \in Seq(Words) /\ Len(a) = p /\ \A i \in 1 .. p : a[i] = c[i]
  <2>1. \A i \in 1 .. p : c[i] \in Words
    BY <1>0
  <2>2. /\ a \in Seq(Words) /\ Len(a) = (IF 1 <= p THEN p - 1 + 1 ELSE 0)
        /\ \A i \in 1 .. p - 1 + 1 : a[i] = c[1 + i - 1]
    BY <2>1, SubSeqProperties
  <2>3. \A i \in 1 .. p : a[i] = c[i]
    <3>1. SUFFICES ASSUME NEW i \in 1 .. p PROVE a[i] = c[i]
      OBVIOUS
    <3>2. i \in 1 .. p - 1 + 1 /\ 1 + i - 1 = i
      OBVIOUS
    <3> HIDE DEF a
    <3> QED
      BY <2>2, <3>2
  <2> QED
    BY <2>2, <2>3
<1>2. /\ b \in Seq(Words) /\ Len(b) = MaxOf(p + 1, Len(c)) - (p + 1)
      /\ \A i \in 1 .. Len(b) : b[i] = c[p + 1 + i]
  <2>1. \A i \in p + 2 .. Len(c) : c[i] \in Words
    BY <1>0
  <2>2. /\ b \in Seq(Words)
        /\ Len(b) = (IF p + 2 <= Len(c) THEN Len(c) - (p + 2) + 1 ELSE 0)
        /\ \A i \in 1 .. Len(c) - (p + 2) + 1 : b[i] = c[p + 2 + i - 1]
    BY <1>0, <2>1, SubSeqProperties
  <2>3. Len(b) = MaxOf(p + 1, Len(c)) - (p + 1)
    BY <1>0, <2>2 DEF MaxOf
  <2>4. ASSUME NEW i \in 1 .. Len(b) PROVE b[i] = c[p + 1 + i]
    <3>1. i \in 1 .. Len(c) - (p + 2) + 1 /\ p + 2 + i - 1 = p + 1 + i
      BY <1>0, <2>2
    <3> HIDE DEF b
    <3> QED
      BY <2>2, <3>1
  <2> QED
    BY <2>2, <2>3, <2>4
<1> HIDE DEF a, b
<1>3. PICK d : d = a \o <<u>>
  OBVIOUS
<1>4. /\ d \in Seq(Words) /\ Len(d) = p + 1
      /\ \A i \in 1 .. p + 1 : d[i] = IF i <= p THEN a[i] ELSE u
  <2>1. <<u>> \in Seq(Words) /\ Len(<<u>>) = 1 /\ <<u>>[1] = u
    OBVIOUS
  <2>2. /\ d \in Seq(Words) /\ Len(d) = Len(a) + Len(<<u>>)
        /\ \A i \in 1 .. Len(a) + Len(<<u>>) :
             d[i] = IF i <= Len(a) THEN a[i] ELSE <<u>>[i - Len(a)]
    BY <1>1, <1>3, <2>1, ConcatProperties
  <2>3. ASSUME NEW i \in 1 .. p + 1 PROVE d[i] = IF i <= p THEN a[i] ELSE u
    <3>1. CASE i <= p
      BY <3>1, <2>1, <2>2, <1>1
    <3>2. CASE ~ (i <= p)
      BY <3>2, <2>1, <2>2, <1>1
    <3> QED
      BY <3>1, <3>2
  <2> QED
    BY <1>1, <2>1, <2>2, <2>3
<1>5. /\ d \o b \in Seq(Words) /\ Len(d \o b) = Len(d) + Len(b)
      /\ \A i \in 1 .. Len(d) + Len(b) :
           (d \o b)[i] = IF i <= Len(d) THEN d[i] ELSE b[i - Len(d)]
  <2> HIDE DEF s
  <2> QED
    BY ONLY <1>2, <1>4, ConcatProperties
<1>6. Len(d \o b) = MaxOf(p + 1, Len(c)) /\ Len(d \o b) \in Nat
  <2>1. Len(d \o b) = (p + 1) + (MaxOf(p + 1, Len(c)) - (p + 1))
    BY <1>2, <1>4, <1>5
  <2>2. MaxOf(p + 1, Len(c)) \in Nat
    BY <1>0 DEF MaxOf
  <2> QED
    BY <2>1, <2>2
<1>7. ASSUME NEW i \in 1 .. Len(d \o b)
      PROVE  (d \o b)[i] = IF i = p + 1 THEN u ELSE c[i]
  <2>0. Len(d) = p + 1 /\ Len(b) \in Nat
    BY <1>2, <1>4, LenProperties
  <2>1. CASE i <= p
    <3>1. (d \o b)[i] = d[i] /\ d[i] = a[i] /\ a[i] = c[i]
      BY <1>1, <1>4, <1>5, <2>0, <2>1
    <3> QED
      BY <3>1, <2>1
  <2>2. CASE i = p + 1
    <3>1. (d \o b)[i] = d[i] /\ d[i] = u
      BY <1>4, <1>5, <2>0, <2>2
    <3> QED
      BY <3>1, <2>2
  <2>3. CASE i > p + 1
    <3>1. i - (p + 1) \in 1 .. Len(b) /\ p + 1 + (i - (p + 1)) = i
      BY <1>5, <2>0, <2>3
    <3>2. (d \o b)[i] = b[i - (p + 1)]
      BY <1>5, <2>0, <2>3
    <3>3. b[i - (p + 1)] = c[p + 1 + (i - (p + 1))]
      BY <1>2, <3>1
    <3> QED
      BY <3>1, <3>2, <3>3, <2>3
  <2> QED
    BY <2>1, <2>2, <2>3
<1>8. s = d \o b
  BY <1>3
<1> HIDE DEF s
<1>9. s \in Seq(Words) /\ Len(s) = MaxOf(p + 1, Len(c))
      /\ \A i \in 1 .. Len(s) : s[i] = IF i = p + 1 THEN u ELSE c[i]
  BY <1>5, <1>6, <1>7, <1>8
<1> QED
  BY <1>9 DEF s, a, b

LEMMA FilledIs ==
  ASSUME NEW c \in Seq(Words)
  PROVE  /\ Filled(c) \in [1 .. BlockUnits -> Words]
         /\ \A k \in 1 .. BlockUnits : k <= Len(c) => Filled(c)[k] = c[k]
<1>1. ASSUME NEW k \in 1 .. BlockUnits, k <= Len(c) PROVE c[k] \in Words
  <2>1. k \in 1 .. Len(c)
    BY <1>1, Constants, LenProperties
  <2> QED
    BY <2>1, ElementOfSeq
<1>2. 0 \in Words
  BY DEF Words
<1> QED
  BY <1>1, <1>2 DEF Filled

LEMMA LastIs ==
  ASSUME NEW s \in Seq(DataBlocks), Len(s) >= 1
  PROVE  Last(s) \in DataBlocks /\ Last(s) \in ToSet(s) /\ Last(s) = s[Len(s)]
<1>1. Len(s) \in Nat /\ Len(s) \in 1 .. Len(s) /\ DOMAIN s = 1 .. Len(s)
  BY LenProperties
<1>2. Last(s) = s[Len(s)] /\ s[Len(s)] \in DataBlocks
  BY <1>1, ElementOfSeq DEF Last
<1> QED
  BY <1>1, <1>2 DEF ToSet

LEMMA DataWritten ==
  ASSUME DataOK, NEW b, NEW units \in Seq(Words),
         data' = [data EXCEPT ![b] = Filled(units)]
  PROVE  /\ DataOK'
         /\ b \in DataBlocks => data'[b] = Filled(units)
         /\ \A d \in DataBlocks : d # b => data'[d] = data[d]
<1>1. Filled(units) \in [1 .. BlockUnits -> Words]
  BY FilledIs
<1> DEFINE contents == [1 .. BlockUnits -> Words]
           new == Filled(units)
<1>2. data \in [DataBlocks -> contents] /\ new \in contents
  BY <1>1 DEF DataOK
<1> HIDE DEF contents, new
<1>3. /\ data' \in [DataBlocks -> contents]
      /\ b \in DataBlocks => data'[b] = new
      /\ \A d \in DataBlocks : d # b => data'[d] = data[d]
  BY <1>2 DEF new
<1> QED
  BY <1>3 DEF DataOK, contents, new

LEMMA Putting ==
  ASSUME OpOK, FileOK, op.at \in {"put", "alloc"}
  PROVE  /\ op.call \in {"write", "close"} /\ file.open /\ mounted
         /\ op.call = "close" => Behind /\ file.writing
<1>1. op.call # "none" /\ op.call # "open" /\ op.call # "remove"
  BY DEF OpOK, Idle, Committing
<1>2. op.call \in {"write", "close"}
  BY <1>1 DEF OpOK, Ops
<1> QED
  BY <1>2 DEF OpOK

LEMMA UnitIsWord ==
  ASSUME OpOK, FileOK, DataOK, op.at = "put"
  PROVE  Unit \in Words
<1>1. CASE op.call = "write"
  BY <1>1 DEF Unit, OpOK, Ops
<1>2. CASE op.call = "close"
  <2>1. file.pos \in Nat /\ file.pos < file.entry.size /\ file.entry.size \in Nat
    BY <1>2, Putting DEF Behind, FileOK, Files, Entry
  <2>2. Content(file.entry) \in Seq(Words) /\ Len(Content(file.entry)) = file.entry.size
    BY ContentIs DEF FileOK
  <2>3. Content(file.entry)[file.pos + 1] \in Words
    <3>1. file.pos + 1 \in 1 .. Len(Content(file.entry))
      BY <2>1, <2>2
    <3> QED
      BY <2>2, <3>1, ElementOfSeq
  <2> QED
    BY <1>2, <2>3 DEF Unit
<1> QED
  BY <1>1, <1>2, Putting

LEMMA PutStep ==
  ASSUME OpOK, FileOK, DataOK, Put
  PROVE  /\ FileOK' /\ DataOK'
         /\ Placed \in Seq(Words)
         /\ Len(Placed) = IF file.inline THEN MaxOf(file.pos + 1, Len(file.cache))
                          ELSE Len(file.cache) + 1
         /\ file'.open /\ file'.writing /\ file'.inline = file.inline
         /\ file'.name = file.name /\ file'.pos = file.pos + 1
         /\ file'.entry = file.entry /\ file'.gone = file.gone
         /\ file'.blocks = file.blocks /\ file'.cache = Placed
         /\ ~file.inline => file.writing
<1>0. /\ file.cache \in Seq(Words) /\ file.blocks \in Seq(DataBlocks) /\ file.pos \in Nat
      /\ file.inline \in BOOLEAN /\ file \in Files /\ file.entry.size \in Nat
      /\ Len(file.cache) \in Nat /\ Len(file.blocks) \in Nat /\ file.open /\ mounted
      /\ Unit \in Words /\ mounted' = mounted
      /\ ~Outgrown /\ ~BlockFull
  BY LenProperties, Putting, UnitIsWord DEF FileOK, Files, Entry, Put
<1>1. CASE file.inline
  <2>0. file.pos <= Len(file.cache) /\ Len(file.cache) <= InlineMax
        /\ file.blocks = <<>>
    BY <1>1 DEF FileOK
  <2>1. Placed = SubSeq(file.cache, 1, file.pos) \o <<Unit>>
                   \o SubSeq(file.cache, file.pos + 2, Len(file.cache))
    BY <1>1 DEF Placed
  <2>2. Placed \in Seq(Words) /\ Len(Placed) = MaxOf(file.pos + 1, Len(file.cache))
    BY <1>0, <2>0, <2>1, Overwritten
  <2>3. ~ (MaxOf(file.pos + 1, file.entry.size) > InlineMax)
    BY <1>0, <1>1 DEF Outgrown
  <2>4. file.pos + 1 <= InlineMax
    BY <1>0, <2>3, Constants DEF MaxOf
  <2>5. Len(Placed) <= InlineMax /\ file.pos + 1 <= Len(Placed)
    BY <1>0, <2>0, <2>2, <2>4, Constants DEF MaxOf
  <2> HIDE DEF Placed
  <2>6. /\ file' \in Files
        /\ file'.open = file.open /\ file'.writing = TRUE /\ file'.inline = file.inline
        /\ file'.name = file.name /\ file'.pos = file.pos + 1
        /\ file'.entry = file.entry /\ file'.gone = file.gone
        /\ file'.blocks = file.blocks /\ file'.cache = Placed
    <3>1. file' = [file EXCEPT !.cache = Placed, !.pos = @ + 1, !.writing = TRUE,
                               !.erred = @ /\ op.call # "write"]
      BY DEF Put
    <3>2. (file.erred /\ op.call # "write") \in BOOLEAN /\ file.pos + 1 \in Nat
      BY <1>0
    <3> QED
      BY <1>0, <2>2, <3>1, <3>2 DEF Files
  <2>7. FileOK'
    BY <1>0, <1>1, <2>0, <2>5, <2>6 DEF FileOK
  <2>8. DataOK'
    <3>1. data' = data
      BY <1>1 DEF Put
    <3> QED
      BY <3>1 DEF DataOK
  <2> QED
    BY <1>0, <1>1, <2>2, <2>6, <2>7, <2>8
<1>2. CASE ~file.inline
  <2>0. /\ file.writing /\ Len(file.blocks) >= 1 /\ Len(file.cache) < BlockUnits
        /\ file.pos = (Len(file.blocks) - 1) * BlockUnits + Len(file.cache)
    <3>1. file.writing /\ Len(file.cache) # BlockUnits
      BY <1>0, <1>2 DEF BlockFull
    <3>2. /\ Len(file.blocks) >= 1 /\ Len(file.cache) <= BlockUnits
          /\ file.pos = (Len(file.blocks) - 1) * BlockUnits + Len(file.cache)
      BY <1>2, <3>1 DEF FileOK
    <3>3. Len(file.cache) < BlockUnits
      BY <1>0, <3>1, <3>2, Constants
    <3> QED
      BY <3>1, <3>2, <3>3
  <2>1. Placed = Append(file.cache, Unit)
    BY <1>2 DEF Placed
  <2>2. Placed \in Seq(Words) /\ Len(Placed) = Len(file.cache) + 1
    BY <1>0, <2>1
  <2> HIDE DEF Placed
  <2>6. /\ file' \in Files
        /\ file'.open = file.open /\ file'.writing = TRUE /\ file'.inline = file.inline
        /\ file'.name = file.name /\ file'.pos = file.pos + 1
        /\ file'.entry = file.entry /\ file'.gone = file.gone
        /\ file'.blocks = file.blocks /\ file'.cache = Placed
    <3>1. file' = [file EXCEPT !.cache = Placed, !.pos = @ + 1, !.writing = TRUE,
                               !.erred = @ /\ op.call # "write"]
      BY DEF Put
    <3>2. (file.erred /\ op.call # "write") \in BOOLEAN /\ file.pos + 1 \in Nat
      BY <1>0
    <3> QED
      BY <1>0, <2>2, <3>1, <3>2 DEF Files
  <2>7. FileOK'
    <3>1. Len(Placed) <= BlockUnits
      BY <1>0, <2>0, <2>2, Constants
    <3>2. file.pos + 1 = (Len(file.blocks) - 1) * BlockUnits + Len(Placed)
      <4>1. (Len(file.blocks) - 1) * BlockUnits \in Nat
        <5>1. Len(file.blocks) - 1 \in Nat
          BY <1>0, <2>0
        <5> QED
          BY <5>1, Constants
      <4> QED
        BY <1>0, <2>0, <2>2, <4>1
    <3> QED
      BY <1>0, <1>2, <2>0, <2>6, <3>1, <3>2 DEF FileOK
  <2>8. DataOK'
    <3>1. CASE data' = data
      BY <3>1 DEF DataOK
    <3>2. CASE data' = [data EXCEPT ![Last(file.blocks)] = Filled(Placed)]
      BY <3>2, <2>2, DataWritten
    <3> QED
      BY <3>1, <3>2 DEF Put
  <2> QED
    BY <1>0, <1>2, <2>0, <2>2, <2>6, <2>7, <2>8
<1> QED
  BY <1>0, <1>1, <1>2

LEMMA Taking ==
  ASSUME OpOK, FileOK, DataOK, WindowOK, Take
  PROVE  /\ NextFree(free.i) < free.size /\ free' = Taken(NextFree(free.i))
         /\ Block_ \in DataBlocks /\ Block_ \notin InUse
         /\ FileOK' /\ DataOK' /\ data' = [data EXCEPT ![Block_] = Junk]
         /\ file'.open /\ file'.writing /\ ~file'.inline
         /\ file'.name = file.name /\ file'.pos = file.pos
         /\ file'.entry = file.entry /\ file'.gone = file.gone
         /\ file'.blocks = IF file.inline THEN <<Block_>> ELSE Append(file.blocks, Block_)
         /\ file'.cache = IF file.inline THEN SubSeq(file.cache, 1, file.pos) ELSE <<>>
         /\ op' = [op EXCEPT !.at = "put"]
         /\ UNCHANGED <<meta, mounted, mdir>>
<1>1. /\ op.at = "alloc" /\ NextFree(free.i) < free.size
      /\ free' = Taken(NextFree(free.i)) /\ mounted' = mounted
      /\ data' = [data EXCEPT ![Block_] = Junk]
      /\ file' = [file EXCEPT !.inline = FALSE, !.writing = TRUE,
                    !.blocks = IF file.inline THEN <<Block_>> ELSE Append(@, Block_),
                    !.cache = IF file.inline THEN SubSeq(@, 1, file.pos) ELSE <<>>]
      /\ op' = [op EXCEPT !.at = "put"]
      /\ UNCHANGED <<meta, mounted, mdir>>
  BY Zenon DEF Take, Block_, Goto
<1>2. Block_ \in DataBlocks /\ Block_ \notin InUse
  BY <1>1, BlockIsUnused
<1>3. DataOK'
  <2>1. <<>> \in Seq(Words)
    BY EmptySeq
  <2> QED
    BY <1>1, <2>1, DataWritten DEF Junk
<1>4. file.open /\ (file.inline \/ BlockFull)
  BY <1>1, Putting DEF OpOK
<1> HIDE DEF Block_
<1> QED
  BY <1>1, <1>2, <1>3, <1>4, FileTaken

LEMMA OpUntouched ==
  ASSUME OpOK, op' = op, file' = file, mounted => mounted'
  PROVE  OpOK'
BY DEF OpOK, Committing, Behind, BlockFull, NewEntry

LEMMA Idling ==
  /\ Idle \in Ops
  /\ op' = Idle => OpOK'
<1>1. Idle \in Ops
  BY SlotTypes DEF Idle, Ops, Closed, Words
<1>2. Idle.call = "none" /\ Idle.at = "idle"
  BY DEF Idle
<1> QED
  BY <1>1, <1>2 DEF OpOK

\* The steps of a commit leave what is committed alone.
LEMMA OpCommits ==
  ASSUME OpOK, op.at \in {"append", "erase", "compact"},
         NEW at \in {"erase", "compact", "done"},
         op' = [op EXCEPT !.at = at], file' = file, mounted' = mounted
  PROVE  OpOK'
<1>1. Committing
  BY DEF Committing
<1>2. /\ op' \in Ops /\ op'.call = op.call /\ op'.at = at
      /\ op'.name = op.name /\ op'.entries = op.entries
  BY DEF OpOK, Ops
<1>3. /\ op.call # "none" /\ op.call # "write"
  BY DEF OpOK, Idle
<1>4. Committing'
  BY <1>2 DEF Committing
<1>5. NewEntry' = NewEntry
  BY DEF NewEntry
<1>6. op.call = "close" => file.writing /\ file.open /\ op.entries = Only(file.name, NewEntry)
  BY <1>1 DEF OpOK
<1> HIDE DEF NewEntry
<1> QED
  BY <1>1, <1>2, <1>3, <1>4, <1>5, <1>6 DEF OpOK

LEMMA OpStarts ==
  ASSUME LogOK, FileOK, OpOK, mounted' = mounted
  PROVE  /\ \A n \in Names : lfs_file_open(n) => OpOK'
         /\ \A n \in Names : lfs_remove(n) => OpOK'
         /\ \A u \in Units : lfs_file_write(u) => OpOK'
         /\ lfs_file_close => OpOK'
<1>0. /\ Idle \in Ops
      /\ \A n \in Names : Only(n, Inline(<<>>)) \in Changes /\ Only(n, Deleted) \in Changes
  BY Idling, NoUnits, OnlyIsChanges
<1>1. ASSUME NEW n \in Names, lfs_file_open(n) PROVE OpOK'
  <2>1. mounted /\ op = Idle /\ ~file.open
    BY <1>1 DEF lfs_file_open, Call
  <2>2. CASE op' = op
    BY <2>1, <2>2, Idling
  <2>3. CASE /\ op' = [Idle EXCEPT !.call = "open", !.at = "append", !.name = n,
                                   !.entries = Only(n, Inline(<<>>))]
             /\ file' = file
    <3>1. /\ op' \in Ops /\ op'.call = "open" /\ op'.at = "append"
          /\ op'.name = n /\ op'.entries = Only(n, Inline(<<>>))
      BY <1>0, <2>3 DEF Ops
    <3> QED
      BY <2>1, <2>3, <3>1 DEF OpOK, Committing
  <2> QED
    BY <1>1, <2>2, <2>3 DEF lfs_file_open
<1>2. ASSUME NEW n \in Names, lfs_remove(n) PROVE OpOK'
  <2>1. /\ mounted
        /\ op' = [Idle EXCEPT !.call = "remove", !.at = "append", !.name = n,
                              !.entries = Only(n, Deleted)]
    BY <1>2 DEF lfs_remove, Call
  <2>2. /\ op' \in Ops /\ op'.call = "remove" /\ op'.at = "append"
        /\ op'.name = n /\ op'.entries = Only(n, Deleted)
    BY <1>0, <2>1 DEF Ops
  <2> QED
    BY <2>1, <2>2 DEF OpOK, Committing
<1>3. ASSUME NEW u \in Units, lfs_file_write(u) PROVE OpOK'
  <2>1. /\ file.open /\ file' = file
        /\ op' = [Idle EXCEPT !.call = "write", !.at = "put", !.unit = u]
    BY <1>3 DEF lfs_file_write
  <2>2. op' \in Ops /\ op'.call = "write" /\ op'.at = "put"
    BY <1>0, <2>1 DEF Ops, Words
  <2>3. mounted
    BY <2>1 DEF FileOK
  <2> QED
    BY <2>1, <2>2, <2>3 DEF OpOK
<1>4. ASSUME lfs_file_close PROVE OpOK'
  <2> DEFINE at == IF file.erred \/ ~file.writing THEN "closed" ELSE "flush"
  <2>1. /\ file.open /\ file' = file
        /\ op' = [Idle EXCEPT !.call = "close", !.pos = file.pos, !.at = at]
    BY <1>4 DEF lfs_file_close
  <2>2. at \in {"closed", "flush"} /\ (at # "closed" => file.writing)
    OBVIOUS
  <2> HIDE DEF at
  <2>3. op' \in Ops /\ op'.call = "close" /\ op'.at = at
    BY <1>0, <2>1, <2>2 DEF Ops, FileOK, Files
  <2>4. mounted
    BY <2>1 DEF FileOK
  <2> QED
    BY <2>1, <2>2, <2>3, <2>4 DEF OpOK, Committing
<1> QED
  BY <1>1, <1>2, <1>3, <1>4

LEMMA Flushing ==
  ASSUME OpOK, FileOK, DataOK, Flush
  PROVE  DataOK' /\ OpOK' /\ FileOK'
<1>0. /\ op.call = "close" /\ op.at = "flush" /\ ~Behind
      /\ file' = file /\ mounted' = mounted
  BY DEF Flush, At
<1>1. /\ file.open /\ file.writing /\ mounted /\ file.name \in Names
      /\ file.cache \in Seq(Words) /\ op \in Ops
  BY <1>0 DEF OpOK, FileOK, Files, Committing
<1>2. DataOK'
  <2>1. CASE data' = data
    BY <2>1 DEF DataOK
  <2>2. CASE data' = [data EXCEPT ![Last(file.blocks)] = Filled(file.cache)]
    BY <2>2, <1>1, DataWritten
  <2> QED
    BY <2>1, <2>2 DEF Flush
<1>3. FileOK'
  BY <1>0, FileUntouched
<1>4. OpOK'
  <2>1. CASE op' = [op EXCEPT !.at = "closed"]
    <3>1. op' \in Ops /\ op'.call = "close" /\ op'.at = "closed"
      BY <1>0, <1>1, <2>1 DEF Ops
    <3> QED
      BY <1>0, <1>1, <3>1 DEF OpOK, Committing
  <2>2. CASE op' = [op EXCEPT !.at = "append", !.entries = Only(file.name, NewEntry)]
    <3>1. Only(file.name, NewEntry) \in Changes
      BY <1>1, NewEntryFits, OnlyIsChanges
    <3> HIDE DEF NewEntry
    <3>2. /\ op' \in Ops /\ op'.call = "close" /\ op'.at = "append"
          /\ op'.entries = Only(file.name, NewEntry)
      BY <1>0, <1>1, <2>2, <3>1 DEF Ops
    <3>3. NewEntry' = NewEntry
      BY <1>0 DEF NewEntry
    <3> QED
      BY <1>0, <1>1, <3>2, <3>3 DEF OpOK, Committing
  <2> QED
    BY <2>1, <2>2 DEF Flush, Goto, StartCommit
<1> QED
  BY <1>2, <1>3, <1>4

LEMMA CallStep ==
  ASSUME LogOK, DirectoryOK, DataOK, OpOK, FileOK, WindowOK, [Next]_vars
  PROVE  DataOK' /\ OpOK' /\ FileOK'
<1>1. CASE \/ Mount \/ Format \/ Scan \/ UNCHANGED vars
  <2>1. /\ data' = data /\ file' = file /\ op' = op /\ (mounted => mounted')
    BY <1>1 DEF Mount, Format, Scan, vars, flash
  <2>2. DataOK'
    BY <2>1 DEF DataOK
  <2> QED
    BY <2>1, <2>2, OpUntouched, FileUntouched
<1>2. CASE \E n \in Names : lfs_file_open(n)
  <2>1. PICK n \in Names : lfs_file_open(n)
    BY <1>2
  <2>2. /\ data' = data /\ mounted' = mounted /\ mounted
        /\ IF n \in DOMAIN Directory THEN file' = Opened(n, Directory[n]) ELSE file' = file
    <3>1. Fetch(meta).entries = Directory
      BY LogFacts
    <3> QED
      BY <2>1, <3>1 DEF lfs_file_open, Call, flash
  <2>3. DataOK'
    BY <2>2 DEF DataOK
  <2>4. FileOK'
    <3>1. CASE n \in DOMAIN Directory
      <4>1. FileEntry(Directory[n]) /\ file' = Opened(n, Directory[n]) /\ mounted'
        BY <2>2, <3>1 DEF DirectoryOK
      <4> QED
        BY <4>1, OpenedIsOK
    <3>2. CASE n \notin DOMAIN Directory
      BY <2>2, <3>2, FileUntouched
    <3> QED
      BY <3>1, <3>2
  <2>5. OpOK'
    BY <2>1, <2>2, OpStarts
  <2> QED
    BY <2>3, <2>4, <2>5
<1>3. CASE \/ \E n \in Names : lfs_remove(n)
           \/ \E u \in Units : lfs_file_write(u)
           \/ lfs_file_close
  <2>1. data' = data /\ mounted' = mounted /\ file' = file
    BY <1>3 DEF lfs_remove, lfs_file_write, lfs_file_close, Call, flash
  <2>2. DataOK'
    BY <2>1 DEF DataOK
  <2>3. FileOK'
    BY <2>1, FileUntouched
  <2>4. OpOK'
    BY <1>3, <2>1, OpStarts
  <2> QED
    BY <2>2, <2>3, <2>4
<1>4. CASE Append_ \/ NoRoom \/ EraseBlock \/ Compact
  <2>1. /\ data' = data /\ mounted' = mounted /\ file' = file
        /\ op.at \in {"append", "erase", "compact"}
        /\ \E at \in {"erase", "compact", "done"} : op' = [op EXCEPT !.at = at]
    <3>1. CASE Append_
      <4>1. op' = [op EXCEPT !.at = "done"] \/ op' = [op EXCEPT !.at = "erase"]
        BY <3>1, LogAppend
      <4> QED
        BY <3>1, <4>1 DEF Append_
    <3>2. CASE NoRoom
      BY <3>2 DEF NoRoom, Goto, flash
    <3>3. CASE EraseBlock
      BY <3>3 DEF EraseBlock, Goto
    <3>4. CASE Compact
      BY <3>4 DEF Compact, Goto
    <3> QED
      BY <1>4, <3>1, <3>2, <3>3, <3>4
  <2>2. DataOK'
    BY <2>1 DEF DataOK
  <2>3. FileOK'
    BY <2>1, FileUntouched
  <2> QED
    BY <2>1, <2>2, <2>3, OpCommits
<1>5. CASE NoSpace
  <2>1. /\ data' = data /\ mounted' = mounted
        /\ file' = [file EXCEPT !.erred = TRUE] /\ op.at = "alloc"
        /\ IF op.call = "write" THEN op' = Idle ELSE op' = [op EXCEPT !.at = "closed"]
    BY <1>5 DEF NoSpace, Goto, Return, flash
  <2>2. op.call \in {"write", "close"} /\ file.open /\ mounted
    BY <2>1, Putting
  <2>3. FileOK'
    BY <2>1, <2>2, FileErred
  <2>4. OpOK'
    <3>1. CASE op.call = "write"
      BY <2>1, <3>1, Idling
    <3>2. CASE op.call = "close"
      <4>1. op' \in Ops /\ op'.call = "close" /\ op'.at = "closed"
        BY <2>1, <3>2 DEF OpOK, Ops
      <4>2. file'.open
        BY <2>1, <2>2 DEF FileOK, Files
      <4> QED
        BY <2>1, <2>2, <4>1, <4>2 DEF OpOK, Committing
    <3> QED
      BY <2>2, <3>1, <3>2
  <2>5. DataOK'
    BY <2>1 DEF DataOK
  <2> QED
    BY <2>3, <2>4, <2>5
<1>6. CASE Take
  <2>1. /\ FileOK' /\ DataOK'
        /\ file'.open /\ file'.writing /\ ~file'.inline
        /\ file'.pos = file.pos /\ file'.entry = file.entry
        /\ op' = [op EXCEPT !.at = "put"] /\ mounted' = mounted
    BY <1>6, Taking
  <2>2. /\ op.call \in {"write", "close"} /\ mounted
        /\ op.call = "close" => Behind
    BY <1>6, Putting DEF Take
  <2>3. op' \in Ops /\ op'.call = op.call /\ op'.at = "put"
    BY <2>1 DEF OpOK, Ops
  <2>4. op.call = "close" => Behind'
    BY <2>1, <2>2 DEF Behind
  <2>5. OpOK'
    BY <2>1, <2>2, <2>3, <2>4 DEF OpOK, Committing
  <2> QED
    BY <2>1, <2>5
<1>7. CASE Created
  <2>1. /\ data' = data /\ mounted' = mounted /\ file' = Opened(op.name, Inline(<<>>))
        /\ op' = Idle /\ op.call = "open"
    BY <1>7 DEF Created, Return, At, flash
  <2>2. mounted /\ op.name \in Names
    BY <2>1 DEF OpOK
  <2>3. FileOK'
    BY <2>1, <2>2, NoUnits, OpenedIsOK
  <2>4. DataOK'
    BY <2>1 DEF DataOK
  <2> QED
    BY <2>1, <2>3, <2>4, Idling
<1>8. CASE NeedsBlock
  <2>1. /\ data' = data /\ mounted' = mounted /\ file' = file
        /\ op' = [op EXCEPT !.at = "alloc"] /\ op.at = "put" /\ (Outgrown \/ BlockFull)
    BY <1>8 DEF NeedsBlock, Goto, flash
  <2>2. /\ op.call \in {"write", "close"} /\ file.open /\ mounted
        /\ op.call = "close" => Behind /\ file.writing
    BY <2>1, Putting
  <2>3. op' \in Ops /\ op'.call = op.call /\ op'.at = "alloc"
    BY <2>1 DEF OpOK, Ops
  <2>4. (Behind' <=> Behind) /\ (BlockFull' <=> BlockFull)
    BY <2>1 DEF Behind, BlockFull
  <2>5. file.inline \/ BlockFull
    BY <2>1 DEF Outgrown
  <2>6. OpOK'
    BY <2>1, <2>2, <2>3, <2>4, <2>5 DEF OpOK, Committing
  <2>7. DataOK'
    BY <2>1 DEF DataOK
  <2> QED
    BY <2>1, <2>6, <2>7, FileUntouched
<1>9. CASE Put
  <2>1. FileOK' /\ DataOK' /\ file'.open /\ file'.writing
    BY <1>9, PutStep
  <2>2. /\ mounted' = mounted /\ op.at = "put"
        /\ IF op.call = "write" THEN op' = Idle ELSE op' = [op EXCEPT !.at = "flush"]
    BY <1>9 DEF Put, Return, Goto
  <2>3. op.call \in {"write", "close"} /\ mounted
    BY <2>2, Putting
  <2>4. OpOK'
    <3>1. CASE op.call = "write"
      BY <2>2, <3>1, Idling
    <3>2. CASE op.call = "close"
      <4>1. op' \in Ops /\ op'.call = "close" /\ op'.at = "flush"
        BY <2>2, <3>2 DEF OpOK, Ops
      <4> QED
        BY <2>1, <2>2, <2>3, <4>1 DEF OpOK, Committing
    <3> QED
      BY <2>3, <3>1, <3>2
  <2> QED
    BY <2>1, <2>4
<1>10. CASE CopyOld
  <2>1. /\ data' = data /\ mounted' = mounted /\ file' = file
        /\ op' = [op EXCEPT !.at = "put"] /\ op.at = "flush" /\ op.call = "close" /\ Behind
    BY <1>10 DEF CopyOld, Goto, At, flash
  <2>2. file.open /\ mounted /\ file.writing
    BY <2>1 DEF OpOK
  <2>3. op' \in Ops /\ op'.call = "close" /\ op'.at = "put"
    BY <2>1 DEF OpOK, Ops
  <2>4. Behind'
    BY <2>1 DEF Behind
  <2>5. OpOK'
    BY <2>1, <2>2, <2>3, <2>4 DEF OpOK, Committing
  <2>6. DataOK'
    BY <2>1 DEF DataOK
  <2> QED
    BY <2>1, <2>5, <2>6, FileUntouched
<1>11. CASE Flush
  BY <1>11, Flushing
<1>12. CASE Synced \/ CloseOnly
  <2>1. data' = data /\ file' = Closed /\ op' = Idle
    BY <1>12 DEF Synced, CloseOnly, Return, flash
  <2>2. DataOK'
    BY <2>1 DEF DataOK
  <2> QED
    BY <2>1, <2>2, ClosedIsOK, Idling
<1>13. CASE Removed
  <2>1. /\ data' = data /\ mounted' = mounted /\ op' = Idle
        /\ file' = [file EXCEPT !.gone = @ \/ (file.open /\ file.name = op.name)]
    BY <1>13 DEF Removed, Return, flash
  <2>2. FileOK'
    <3>1. CASE file.open
      <4>1. (file.gone \/ (file.open /\ file.name = op.name)) \in BOOLEAN
        OBVIOUS
      <4> QED
        BY <2>1, <3>1, <4>1, FileErred
    <3>2. CASE ~file.open
      <4>1. file = Closed /\ file.gone = FALSE
        BY <3>2 DEF FileOK, Closed
      <4>2. (file.gone \/ (file.open /\ file.name = op.name)) = FALSE
        BY <3>2, <4>1
      <4>3. file' = [file EXCEPT !.gone = FALSE]
        BY <2>1, <4>2
      <4>4. file' = Closed
        BY <4>1, <4>3 DEF Closed
      <4> QED
        BY <4>4, ClosedIsOK
    <3> QED
      BY <3>1, <3>2 DEF FileOK, Files
  <2>3. DataOK'
    BY <2>1 DEF DataOK
  <2> QED
    BY <2>1, <2>2, <2>3, Idling
<1>14. CASE PowerCut
  <2>1. data' \in Broken /\ file' = Closed /\ op' = Idle
    BY <1>14 DEF PowerCut
  <2>2. DataOK'
    <3>1. CASE data' = data
      BY <3>1 DEF DataOK
    <3>2. CASE data' = [data EXCEPT ![Last(file.blocks)] = Junk]
      <4>1. <<>> \in Seq(Words)
        BY EmptySeq
      <4> QED
        BY <3>2, <4>1, DataWritten DEF Junk
    <3> QED
      BY <2>1, <3>1, <3>2 DEF Broken
  <2> QED
    BY <2>1, <2>2, ClosedIsOK, Idling
<1> QED
  BY <1>1, <1>2, <1>3, <1>4, <1>5, <1>6, <1>7, <1>8, <1>9, <1>10, <1>11, <1>12,
     <1>13, <1>14 DEF Next

-----------------------------------------------------------------------------
(* Blocks in use. *)

\* A step that adds nothing to the directory or to the blocks of the file.
LEMMA SharedKept ==
  ASSUME NothingShared, Directory' = Directory, Chain' \subseteq Chain,
         file'.blocks = file.blocks \/ file'.blocks = <<>>,
         At("close", "done") => Chain' = {}
  PROVE  NothingShared' /\ InUse' \subseteq InUse
<1>1. Tree' = Tree
  BY DEF Tree
<1>2. InUse' \subseteq InUse
  BY <1>1 DEF InUse
<1>3. Chain' \cap Tree' = {}
  BY <1>1 DEF NothingShared
<1>4. \A i, j \in DOMAIN file'.blocks : file'.blocks[i] = file'.blocks[j] => i = j
  BY EmptySeq DEF NothingShared
<1>5. \A m, n \in DOMAIN Directory' :
        m # n => ChainOf(Directory'[m]) \cap ChainOf(Directory'[n]) = {}
  BY DEF NothingShared
<1> QED
  BY <1>2, <1>3, <1>4, <1>5 DEF NothingShared

\* A file that has just been opened has no blocks of its own.
LEMMA SharedOpened ==
  ASSUME NothingShared, Directory' = Directory,
         \/ file' = Closed
         \/ \E n, e : file' = Opened(n, e)
  PROVE  NothingShared' /\ InUse' \subseteq InUse
<1>1. file'.writing = FALSE /\ file'.blocks = <<>>
  <2>1. CASE file' = Closed
    BY <2>1 DEF Closed
  <2>2. CASE \E n, e : file' = Opened(n, e)
    <3>1. PICK n, e : file' = Opened(n, e)
      BY <2>2
    <3> QED
      BY <3>1 DEF Opened, Closed
  <2> QED
    BY <2>1, <2>2
<1>2. Chain' = {}
  BY <1>1 DEF Chain
<1> QED
  BY <1>1, <1>2, SharedKept

LEMMA SharedCommitted ==
  ASSUME LogOK, DirectoryOK, OpOK, FileOK, NothingShared, Commits_
  PROVE  NothingShared' /\ InUse' \subseteq InUse
<1>0. /\ op.at \in {"append", "compact"} /\ op' = [op EXCEPT !.at = "done"]
      /\ Directory' = Compacted /\ file' = file
  BY DEF Commits_
<1>1. PICK n \in Names, e \in Entry :
        /\ op.entries = Only(n, e)
        /\ \/ op.call = "open" /\ n = op.name /\ e = Inline(<<>>)
           \/ op.call = "remove" /\ n = op.name /\ e = Deleted
           \/ /\ op.call = "close" /\ n = file.name /\ e = NewEntry
              /\ file.open /\ file.writing
  BY <1>0, Committed DEF Committing
<1>2. /\ \A m : m \in DOMAIN Compacted <=>
            \/ m = n /\ e.type # "deleted"
            \/ m # n /\ m \in DOMAIN Directory
      /\ \A m \in DOMAIN Compacted :
            Compacted[m] = IF m = n THEN e ELSE Directory[m]
  BY <1>1, CompactedIs
<1>3. Chain' = Chain /\ Chain \cap Tree = {}
  BY <1>0 DEF Chain, NothingShared, At
<1>4. ChainOf(e) = {} \/ (op.call = "close" /\ ChainOf(e) = Chain)
  <2>1. ChainOf(Inline(file.cache)) = {} /\ ChainOf(Inline(<<>>)) = {}
        /\ ChainOf(Deleted) = {}
    <3>1. DOMAIN <<>> = {}
      BY EmptySeq
    <3> QED
      BY <3>1 DEF ChainOf, Inline, Deleted, ToSet
  <2>2. CASE e # NewEntry
    BY <1>1, <2>1, <2>2
  <2>3. CASE e = NewEntry /\ file.inline
    BY <2>1, <2>3 DEF NewEntry
  <2>4. CASE e = NewEntry /\ ~file.inline /\ op.call = "close" /\ file.writing
    BY <2>4 DEF NewEntry, Chain, ChainOf, Ctz
  <2> QED
    BY <1>1, <2>1, <2>2, <2>3, <2>4
<1>5. \A m \in DOMAIN Directory : ChainOf(Directory[m]) \subseteq Tree
  BY DEF Tree
<1>6. \A m \in DOMAIN Compacted :
        ChainOf(Compacted[m]) = ChainOf(e) \/ ChainOf(Compacted[m]) \subseteq Tree
  BY <1>2, <1>5
<1>7. Tree' \subseteq Tree \cup Chain
  <2>1. Tree' = {0, 1} \cup UNION {ChainOf(Compacted[m]) : m \in DOMAIN Compacted}
    BY <1>0 DEF Tree
  <2>2. {0, 1} \subseteq Tree
    BY DEF Tree
  <2> HIDE DEF Compacted
  <2> QED
    BY <1>4, <1>6, <2>1, <2>2
<1>8. ASSUME NEW i \in DOMAIN Compacted, NEW j \in DOMAIN Compacted, i # j
      PROVE  ChainOf(Compacted[i]) \cap ChainOf(Compacted[j]) = {}
  <2>1. CASE i = n
    <3>1. Compacted[i] = e /\ Compacted[j] = Directory[j] /\ j \in DOMAIN Directory
      BY <1>2, <1>8, <2>1
    <3> QED
      BY <3>1, <1>3, <1>4, <1>5
  <2>2. CASE j = n
    <3>1. Compacted[j] = e /\ Compacted[i] = Directory[i] /\ i \in DOMAIN Directory
      BY <1>2, <1>8, <2>2
    <3> QED
      BY <3>1, <1>3, <1>4, <1>5
  <2>3. CASE i # n /\ j # n
    <3>1. /\ Compacted[i] = Directory[i] /\ i \in DOMAIN Directory
          /\ Compacted[j] = Directory[j] /\ j \in DOMAIN Directory
      BY <1>2, <2>3
    <3> QED
      BY <3>1, <1>8 DEF NothingShared
  <2> QED
    BY <2>1, <2>2, <2>3
<1>9. ~At("close", "done")' => Chain' \cap Tree' = {}
  <2>1. SUFFICES ASSUME ~At("close", "done")' PROVE Chain' \cap Tree' = {}
    OBVIOUS
  <2>2. op.call # "close"
    BY <2>1, <1>0 DEF At, OpOK, Ops
  <2>3. \A m \in DOMAIN Compacted : ChainOf(Compacted[m]) \subseteq Tree
    BY <1>4, <1>6, <2>2
  <2>4. Tree' \subseteq Tree
    <3>1. Tree' = {0, 1} \cup UNION {ChainOf(Compacted[m]) : m \in DOMAIN Compacted}
      BY <1>0 DEF Tree
    <3>2. {0, 1} \subseteq Tree
      BY DEF Tree
    <3> HIDE DEF Compacted
    <3> QED
      BY <2>3, <3>1, <3>2
  <2> QED
    BY <1>3, <2>4
<1>10. InUse' \subseteq InUse
  BY <1>3, <1>7 DEF InUse
<1>11. \A i, j \in DOMAIN file'.blocks : file'.blocks[i] = file'.blocks[j] => i = j
  BY <1>0 DEF NothingShared
<1> QED
  BY <1>0, <1>8, <1>9, <1>10, <1>11 DEF NothingShared

\* The block that is given out belongs to the open file only.
LEMMA SharedTaken ==
  ASSUME OpOK, FileOK, DataOK, WindowOK, NothingShared, Directory' = Directory, Take
  PROVE  NothingShared' /\ InUse' \subseteq InUse \cup {Block_}
         /\ Chain' = Chain \cup {Block_}
<1>0. /\ Block_ \in DataBlocks /\ Block_ \notin InUse
      /\ file'.writing /\ ~file'.inline
      /\ file'.blocks = IF file.inline THEN <<Block_>> ELSE Append(file.blocks, Block_)
      /\ op' = [op EXCEPT !.at = "put"] /\ op \in Ops
      /\ file.blocks \in Seq(DataBlocks)
  BY Taking DEF OpOK, FileOK, Files
<1> HIDE DEF Block_
<1>1. file'.blocks = Append(file.blocks, Block_)
  <2>1. CASE file.inline
    <3>1. file.blocks = <<>>
      BY <2>1 DEF FileOK
    <3> QED
      BY <1>0, <2>1, <3>1
  <2>2. CASE ~file.inline
    BY <1>0, <2>2
  <2> QED
    BY <2>1, <2>2
<1>2. Chain = ToSet(file.blocks)
  <2>1. CASE file.writing /\ ~file.inline
    BY <2>1 DEF Chain
  <2>2. CASE ~(file.writing /\ ~file.inline)
    <3>1. file.blocks = <<>>
      BY <2>2 DEF FileOK, Files
    <3>2. ToSet(<<>>) = {}
      BY EmptySeq DEF ToSet
    <3> QED
      BY <2>2, <3>1, <3>2 DEF Chain
  <2> QED
    BY <2>1, <2>2
<1> DEFINE s == file.blocks
           t == Append(s, Block_)
<1>3. /\ Len(s) \in Nat /\ DOMAIN s = 1 .. Len(s)
      /\ DOMAIN t = 1 .. Len(s) + 1 /\ t[Len(s) + 1] = Block_
      /\ \A i \in 1 .. Len(s) : t[i] = s[i]
  BY <1>0, LenProperties
<1>4. Chain' = ToSet(t)
  BY <1>0, <1>1 DEF Chain
<1>5. \A i \in 1 .. Len(s) : s[i] \in InUse
  BY <1>2, <1>3 DEF ToSet, InUse
<1> HIDE DEF s, t
<1>6. Chain' = Chain \cup {Block_}
  <2>1. Chain = {s[i] : i \in 1 .. Len(s)}
    BY <1>2, <1>3 DEF ToSet, s
  <2>2. Chain' = {t[i] : i \in 1 .. Len(s) + 1}
    BY <1>3, <1>4 DEF ToSet
  <2>3. \A i \in 1 .. Len(s) + 1 : i = Len(s) + 1 \/ i \in 1 .. Len(s)
    BY <1>3
  <2>4. Len(s) + 1 \in 1 .. Len(s) + 1 /\ \A i \in 1 .. Len(s) : i \in 1 .. Len(s) + 1
    BY <1>3
  <2> QED
    BY <2>1, <2>2, <2>3, <2>4, <1>3
<1>7. \A i, j \in DOMAIN t : t[i] = t[j] => i = j
  <2>1. SUFFICES ASSUME NEW i \in DOMAIN t, NEW j \in DOMAIN t, t[i] = t[j] PROVE i = j
    OBVIOUS
  <2>2. i \in 1 .. Len(s) + 1 /\ j \in 1 .. Len(s) + 1
    BY <1>3
  <2>3. CASE i = Len(s) + 1 \/ j = Len(s) + 1
    BY <2>1, <2>2, <2>3, <1>0, <1>3, <1>5
  <2>4. CASE i # Len(s) + 1 /\ j # Len(s) + 1
    <3>1. i \in 1 .. Len(s) /\ j \in 1 .. Len(s)
      BY <2>2, <2>4, <1>3
    <3>2. s[i] = s[j]
      BY <2>1, <3>1, <1>3
    <3> QED
      BY <3>1, <3>2, <1>3 DEF NothingShared, s
  <2> QED
    BY <2>3, <2>4
<1>8. Tree' = Tree
  BY DEF Tree
<1>9. Chain' \cap Tree' = {}
  <2>1. Chain \cap Tree = {}
    <3>1. ~At("close", "done")
      BY DEF At, Take
    <3> QED
      BY <3>1 DEF NothingShared
  <2>2. Block_ \notin Tree
    BY <1>0 DEF InUse
  <2> QED
    BY <2>1, <2>2, <1>6, <1>8
<1>10. \A i, j \in DOMAIN file'.blocks : file'.blocks[i] = file'.blocks[j] => i = j
  BY <1>1, <1>7 DEF t, s
<1>11. \A m, n \in DOMAIN Directory' :
        m # n => ChainOf(Directory'[m]) \cap ChainOf(Directory'[n]) = {}
  BY DEF NothingShared
<1>12. NothingShared'
  BY <1>9, <1>10, <1>11 DEF NothingShared
<1> QED
  BY <1>6, <1>8, <1>12 DEF InUse

LEMMA SharedStep ==
  ASSUME LogOK, DirectoryOK, DataOK, OpOK, FileOK, WindowOK, NothingShared,
         [Next]_vars
  PROVE  NothingShared' /\ WindowOK'
<1>1. CASE Commits_
  <2>1. NothingShared' /\ InUse' \subseteq InUse /\ free' = free
    BY <1>1, SharedCommitted DEF Commits_
  <2> QED
    BY <2>1, WindowKept
<1>2. CASE Directory' = Directory
  <2>1. CASE UNCHANGED vars
    <3>1. file' = file /\ op' = op /\ free' = free
      BY <2>1 DEF vars
    <3>2. Chain' = Chain /\ Tree' = Tree /\ (At("close", "done")' <=> At("close", "done"))
      BY <1>2, <3>1 DEF Chain, Tree, At
    <3>3. NothingShared' /\ InUse' \subseteq InUse
      BY <1>2, <3>1, <3>2 DEF NothingShared, InUse
    <3> QED
      BY <3>1, <3>3, WindowKept
  <2>2. CASE \/ Format \/ lfs_file_close \/ Append_ \/ NoRoom \/ EraseBlock
             \/ Compact \/ CopyOld \/ Flush
             \/ \E n \in Names : lfs_remove(n)
             \/ \E u \in Units : lfs_file_write(u)
    <3>1. file' = file /\ free' = free
      BY <2>2 DEF Format, lfs_file_close, Append_, NoRoom, EraseBlock, Compact,
                  CopyOld, Flush, lfs_remove, lfs_file_write, Call, bounds
    <3>2. ~At("close", "done")
      <4>1. CASE Format
        <5>1. op.call = "none"
          BY <4>1 DEF Format, OpOK, Ops
        <5> QED
          BY <5>1 DEF At
      <4>2. CASE \/ lfs_file_close
                 \/ \E n \in Names : lfs_remove(n)
                 \/ \E u \in Units : lfs_file_write(u)
        <5>1. op = Idle
          BY <4>2 DEF lfs_file_close, lfs_remove, lfs_file_write, Call
        <5> QED
          BY <5>1 DEF At, Idle
      <4>3. CASE Append_ \/ NoRoom \/ EraseBlock \/ Compact \/ CopyOld \/ Flush
        BY <4>3 DEF Append_, NoRoom, EraseBlock, Compact, CopyOld, Flush, At
      <4> QED
        BY <2>2, <4>1, <4>2, <4>3
    <3>3. Chain' = Chain
      BY <3>1 DEF Chain
    <3>4. NothingShared' /\ InUse' \subseteq InUse
      BY <1>2, <3>1, <3>2, <3>3, SharedKept
    <3> QED
      BY <3>1, <3>4, WindowKept
  <2>3. CASE \E n \in Names : lfs_file_open(n)
    <3>1. PICK n \in Names : lfs_file_open(n)
      BY <2>3
    <3>2. free' = free /\ op = Idle
          /\ (file' = file \/ \E m, e : file' = Opened(m, e))
      BY <3>1 DEF lfs_file_open, Call, bounds
    <3>3. CASE file' = file
      <4>1. Chain' = Chain /\ ~At("close", "done")
        BY <3>2, <3>3 DEF Chain, At, Idle
      <4> QED
        BY <1>2, <3>2, <3>3, <4>1, SharedKept, WindowKept
    <3>4. CASE \E m, e : file' = Opened(m, e)
      BY <1>2, <3>2, <3>4, SharedOpened, WindowKept
    <3> QED
      BY <3>2, <3>3, <3>4
  <2>4. CASE Created \/ Synced \/ CloseOnly
    <3>1. free' = free /\ (file' = Closed \/ \E m, e : file' = Opened(m, e))
      BY <2>4 DEF Created, Synced, CloseOnly, bounds
    <3> QED
      BY <1>2, <3>1, SharedOpened, WindowKept
  <2>5. CASE Removed
    <3>1. free' = free /\ op.call = "remove"
          /\ file'.blocks = file.blocks /\ file'.writing = file.writing
          /\ file'.inline = file.inline
      <4>1. file' = [file EXCEPT !.gone = file.gone \/ (file.open /\ file.name = op.name)]
        BY <2>5 DEF Removed
      <4> QED
        BY <2>5, <4>1 DEF Removed, At, FileOK, Files
    <3>2. Chain' = Chain /\ ~At("close", "done")
      BY <3>1 DEF Chain, At
    <3> QED
      BY <1>2, <3>1, <3>2, SharedKept, WindowKept
  <2>6. CASE Mount
    <3>1. /\ file' = file /\ op' = op /\ ~mounted
          /\ \E off \in Seeds : free' = [NoWindow EXCEPT !.off = off]
      BY <2>6 DEF Mount
    <3>2. Chain' = Chain /\ ~At("close", "done")
      BY <3>1 DEF Chain, At, OpOK, Ops
    <3>3. NothingShared'
      BY <1>2, <3>1, <3>2, SharedKept
    <3>4. PICK off \in Seeds : free' = [NoWindow EXCEPT !.off = off]
      BY <3>1
    <3>5. off \in Nat /\ off < BlockCount
      BY <3>4, LittleFsAssumption
    <3> QED
      BY <3>3, <3>4, <3>5, WindowDropped
  <2>7. CASE Scan
    <3>1. file' = file /\ op.at = "alloc"
      BY <2>7 DEF Scan
    <3>2. Chain' = Chain /\ Tree' = Tree /\ ~At("close", "done")
      BY <1>2, <3>1 DEF Chain, Tree, At
    <3>3. NothingShared'
      BY <1>2, <3>1, <3>2, SharedKept
    <3>4. InUse' = InUse
      BY <3>2 DEF InUse
    <3> QED
      BY <2>7, <3>3, <3>4, WindowScanned
  <2>8. CASE NoSpace
    <3>1. /\ file' = [file EXCEPT !.erred = TRUE] /\ op.at = "alloc"
          /\ free' = [free EXCEPT !.i = free.size, !.ack = 0]
      BY <2>8 DEF NoSpace
    <3>2. /\ file'.blocks = file.blocks /\ file'.writing = file.writing
          /\ file'.inline = file.inline
      BY <3>1 DEF FileOK, Files
    <3>3. Chain' = Chain /\ Tree' = Tree /\ ~At("close", "done")
      BY <1>2, <3>1, <3>2 DEF Chain, Tree, At
    <3>4. NothingShared'
      BY <1>2, <3>2, <3>3, SharedKept
    <3>5. InUse' = InUse
      BY <3>3 DEF InUse
    <3>6. WindowOK'
      BY <3>1, <3>5, WindowUsedUp
    <3> QED
      BY <3>4, <3>6
  <2>9. CASE Take
    <3>1. /\ NextFree(free.i) < free.size /\ free' = Taken(NextFree(free.i))
      BY <2>9, Taking
    <3>2. NothingShared' /\ InUse' \subseteq InUse \cup {Block_}
      BY <1>2, <2>9, SharedTaken
    <3> QED
      BY <3>1, <3>2, WindowTaken
  <2>10. CASE NeedsBlock
    <3>1. file' = file /\ op.at = "put" /\ free' = Acked
      BY <2>10 DEF NeedsBlock
    <3>2. Chain' = Chain /\ ~At("close", "done")
      BY <3>1 DEF Chain, At
    <3>3. NothingShared' /\ InUse' \subseteq InUse
      BY <1>2, <3>1, <3>2, SharedKept
    <3> QED
      BY <3>1, <3>3, WindowAcked
  <2>11. CASE Put
    <3>1. op.at = "put" /\ free' = Acked
      BY <2>11 DEF Put
    <3>2. /\ file'.blocks = file.blocks /\ file'.inline = file.inline
          /\ ~file.inline => file.writing
      BY <2>11, PutStep
    <3>3. Chain' \subseteq Chain /\ ~At("close", "done")
      BY <3>1, <3>2 DEF Chain, At
    <3>4. NothingShared' /\ InUse' \subseteq InUse
      BY <1>2, <3>2, <3>3, SharedKept
    <3> QED
      BY <3>1, <3>4, WindowAcked
  <2>12. CASE PowerCut
    <3>1. file' = Closed /\ free' = NoWindow
      BY <2>12 DEF PowerCut
    <3>2. NothingShared'
      BY <1>2, <3>1, SharedOpened
    <3>3. free' = [NoWindow EXCEPT !.off = 0]
      BY <3>1 DEF NoWindow
    <3>4. 0 \in Nat /\ 0 < BlockCount
      BY Constants
    <3> QED
      BY <3>2, <3>3, <3>4, WindowDropped
  <2> QED
    BY <2>1, <2>2, <2>3, <2>4, <2>5, <2>6, <2>7, <2>8, <2>9, <2>10, <2>11, <2>12 DEF Next
<1> QED
  BY <1>1, <1>2, LogStep

-----------------------------------------------------------------------------
(* The theorems.                                                           *)

LEMMA InitInv == Init => IInv
<1> SUFFICES ASSUME Init PROVE IInv
  OBVIOUS
<1>0. /\ meta = [b \in 0 .. 1 |-> Erased] /\ data = [b \in DataBlocks |-> Junk]
      /\ mounted = FALSE /\ mdir = Fetch(meta) /\ free = NoWindow
      /\ file = Closed /\ op = Idle
  BY DEF Init, DataBlocks
<1>1. /\ Erased \in LogBlock /\ Erased.rev = -1 /\ Ordered(Erased) /\ Valid(Erased) = 0
  <2>1. Blank \in Slot /\ Blank.kind # "commit"
    BY SlotTypes DEF Blank
  <2> QED
    BY <2>1, RestBlock DEF Erased
<1>2. LogOK
  <2>1. PairOK(meta)
    BY <1>0, <1>1 DEF PairOK
  <2>2. Follows(mdir, meta)
    BY <1>0, FetchFollows
  <2> QED
    BY <1>0, <2>1, <2>2 DEF LogOK
<1>3. Directory = NoEntries /\ DOMAIN NoEntries = {}
  <2>1. Valid(meta[Current(meta)]) = 0
    BY <1>0, <1>1, CurrentIsOne
  <2>2. SubSeq(meta[Current(meta)].slots, 1, 0) = <<>>
    BY SubSeqEmpty
  <2>3. Said(meta) = NoEntries
    BY <2>1, <2>2, OneCommit DEF Said
  <2> QED
    BY <1>2, <2>3, LogFacts DEF NoEntries
<1>4. DirectoryOK
  BY <1>3 DEF DirectoryOK
<1>5. DataOK
  <2>1. Junk \in [1 .. BlockUnits -> Words]
    BY EmptySeq, FilledIs DEF Junk
  <2> QED
    BY <1>0, <2>1 DEF DataOK
<1>6. FileOK /\ OpOK
  <2>1. <<>> \in Seq(Words) /\ <<>> \in Seq(DataBlocks) /\ Len(<<>>) = 0
    BY EmptySeq
  <2>2. Closed \in Files
    BY <2>1, NoUnits DEF Closed, Files
  <2>3. FileOK
    BY <1>0, <2>1, <2>2, NoUnits DEF FileOK, Closed
  <2>4. Idle \in Ops /\ Idle.call = "none" /\ Idle.at = "idle"
    BY Idling DEF Idle
  <2> QED
    BY <1>0, <2>3, <2>4 DEF OpOK
<1>7. WindowOK
  BY <1>0, Constants DEF WindowOK, NoWindow
<1>8. NothingShared
  <2>1. Chain = {} /\ file.blocks = <<>>
    BY <1>0 DEF Chain, Closed
  <2> QED
    BY <1>3, <2>1, EmptySeq DEF NothingShared
<1> QED
  BY <1>2, <1>4, <1>5, <1>6, <1>7, <1>8 DEF IInv

LEMMA StepInv == IInv /\ [Next]_vars => IInv'
BY LogStep, DirectoryStep, CallStep, SharedStep DEF IInv

LEMMA AlwaysInv == Spec => []IInv
BY InitInv, StepInv, PTL DEF Spec

\* The types of the blocks, the window and the file hold in every state of
\* every flash: lfs_alloc never counts below zero and no cache is overfilled.
THEOREM LittleFsTypeOK == Spec => []TypeOK
<1>1. IInv => TypeOK
  <2> SUFFICES ASSUME IInv PROVE TypeOK
    OBVIOUS
  <2>1. ASSUME NEW b \in 0 .. 1
        PROVE  Len(meta[b].slots) = Slots /\ meta[b].rev \in Nat \cup {-1}
    <3>1. meta[b] \in LogBlock /\ meta[b].rev >= -1
      BY DEF IInv, LogOK, PairOK
    <3>2. meta[b].slots \in [1 .. Slots -> Slot] /\ meta[b].rev \in Int
      BY <3>1 DEF LogBlock
    <3>3. Len(meta[b].slots) = Slots
      BY <3>2, Constants
    <3> QED
      BY <3>1, <3>2, <3>3
  <2>2. \A b \in DOMAIN data : data[b] \in [1 .. BlockUnits -> Units \cup {0}]
    BY DEF IInv, DataOK, Words
  <2>3. mounted \in BOOLEAN /\ mdir.cur \in 0 .. 1 /\ mdir.off \in 0 .. Slots
    <3>1. mdir.off \in Nat /\ mdir.off <= Slots /\ Slots \in Nat
      BY LogFacts, Constants DEF IInv
    <3>2. mdir.off \in 0 .. Slots
      BY <3>1
    <3> QED
      BY <3>2, LogFacts DEF IInv, LogOK
  <2>4. DOMAIN Directory \subseteq Names
    BY DEF IInv, DirectoryOK
  <2>5. free.size \in 0 .. Lookahead /\ free.i \in 0 .. free.size
        /\ free.ack \in 0 .. BlockCount
    BY Constants DEF IInv, WindowOK
  <2>6. file.inline => Len(file.cache) <= InlineMax
    BY DEF IInv, FileOK
  <2>7. Len(file.cache) <= BlockUnits
    <3>1. CASE file.inline
      <4>1. file.cache \in Seq(Words)
        BY DEF IInv, FileOK, Files
      <4>2. Len(file.cache) \in Nat
        BY <4>1, LenProperties
      <4> QED
        BY <2>6, <3>1, <4>2, Constants, LittleFsAssumption
    <3>2. CASE ~file.inline /\ file.writing
      BY <3>2 DEF IInv, FileOK
    <3>3. CASE ~file.inline /\ ~file.writing
      <4>1. file.cache = <<>>
        BY <3>3 DEF IInv, FileOK
      <4> QED
        BY <4>1, Constants, EmptySeq
    <3> QED
      BY <3>1, <3>2, <3>3
  <2> QED
    BY <2>1, <2>2, <2>3, <2>4, <2>5, <2>6, <2>7 DEF TypeOK
<1> QED
  BY <1>1, AlwaysInv, PTL

\* A sequence that repeats nothing has as many elements as places.
LEMMA NoRepetition ==
  ASSUME NEW S, NEW s \in Seq(S), \A i, j \in DOMAIN s : s[i] = s[j] => i = j
  PROVE  Cardinality(ToSet(s)) = Len(s)
<1>1. Len(s) \in Nat /\ DOMAIN s = 1 .. Len(s)
  BY LenProperties
<1>2. IsFiniteSet(1 .. Len(s)) /\ Cardinality(1 .. Len(s)) = Len(s)
  BY <1>1, FS_Interval
<1>3. [i \in 1 .. Len(s) |-> s[i]] \in Bijection(1 .. Len(s), ToSet(s))
  BY <1>1 DEF Bijection, Injection, Surjection, ToSet, IsInjective
<1> QED
  BY <1>2, <1>3, FS_Bijection DEF ExistsBijection

\* No block is given out while a file in the directory or the open file needs
\* it, and the directory in RAM is the one a mount would find: for any number
\* of blocks, any window of lfs_alloc and any place where a power cut ends it.
THEOREM BlocksStayApart == Spec => []BlocksNotShared
<1>1. IInv => BlocksNotShared
  <2> SUFFICES ASSUME IInv PROVE BlocksNotShared
    OBVIOUS
  <2>1. Cardinality(Chain) = Len(IF Chain = {} THEN <<>> ELSE file.blocks)
    <3>1. CASE Chain = {}
      BY <3>1, FS_EmptySet, EmptySeq
    <3>2. CASE Chain # {}
      <4>1. Chain = ToSet(file.blocks)
        BY <3>2 DEF Chain
      <4>2. file.blocks \in Seq(DataBlocks)
        BY DEF IInv, FileOK, Files
      <4>3. Cardinality(ToSet(file.blocks)) = Len(file.blocks)
        BY <4>2, NoRepetition DEF IInv, NothingShared
      <4> QED
        BY <3>2, <4>1, <4>3
    <3> QED
      BY <3>1, <3>2
  <2>2. Directory = Fetch(meta).entries
    BY LogFacts DEF IInv
  <2> QED
    BY <2>1, <2>2 DEF IInv, NothingShared, BlocksNotShared
<1> QED
  BY <1>1, AlwaysInv, PTL

-----------------------------------------------------------------------------
(* Files are kept. What FileStore sees of a file is read off the flash, so *)
(* first what is read, over any content of it, of an entry and of the file *)
(* that is open.                                                           *)

Reads(d, entry) ==
  IF entry.type = "inline" THEN entry.units
  ELSE [k \in 1 .. entry.size |->
          d[entry.blocks[1 + ((k - 1) \div BlockUnits)]][1 + ((k - 1) % BlockUnits)]]

Written(f, d) ==
  IF ~f.writing THEN <<>>
  ELSE IF f.inline THEN f.cache
  ELSE Reads(d, Ctz(f.blocks, (Len(f.blocks) - 1) * BlockUnits)) \o f.cache

\* The k-th unit of the open file.
Piece(f, d, k) ==
  IF f.inline THEN f.cache[k]
  ELSE IF (k - 1) \div BlockUnits < Len(f.blocks) - 1
  THEN d[f.blocks[1 + ((k - 1) \div BlockUnits)]][1 + ((k - 1) % BlockUnits)]
  ELSE f.cache[1 + ((k - 1) % BlockUnits)]

(* The call in progress no longer needs the name of the open file.         *)
Leaving == At("close", "done") \/ (At("remove", "done") /\ op.name = file.name)

(* A handle can still be closed, and what was written through it is up to  *)
(* here: lfs_file_flush goes on with old content.                          *)
Live == file.open /\ ~file.gone /\ op.at # "closed" /\ ~Leaving
Limit == IF op.call = "close" THEN op.pos ELSE file.pos

(* The names a call needs are in the directory, or not yet.                *)
NamesKept ==
  /\ op.call = "open" =>
       IF op.at = "done"
       THEN op.name \in DOMAIN Directory /\ Directory[op.name] = Inline(<<>>)
       ELSE op.name \notin DOMAIN Directory
  /\ op.call = "remove" /\ op.at # "done" => op.name \in DOMAIN Directory
  /\ op.call = "write" => op.unit \in Units
  /\ op.call = "close" /\ Committing => ~file.gone /\ ~Behind
  /\ file.open /\ ~file.gone /\ ~Leaving =>
       file.name \in DOMAIN Directory /\ Directory[file.name] = file.entry

(* Behind what was written, the cache of an inline file holds the old      *)
(* content; a full block, or the last one of a commit, is on the flash.    *)
CacheKept ==
  /\ ~file.writing => file.pos = 0
  /\ file.inline =>
       /\ file.entry.type = "inline" /\ file.entry.size <= Len(file.cache)
       /\ \A k \in file.pos + 1 .. Len(file.cache) :
            k <= file.entry.size /\ file.cache[k] = file.entry.units[k]
  /\ ~file.inline /\ file.writing /\
     (Len(file.cache) = BlockUnits \/ (op.call = "close" /\ Committing)) =>
       data[Last(file.blocks)] = Filled(file.cache)

(* lfs_file_flush has copied old content only.                             *)
CopyKept ==
  op.call = "close" =>
    /\ op.pos <= file.pos
    /\ file.pos # op.pos => ~file.inline /\ file.pos <= file.entry.size
    /\ Live => \A k \in op.pos + 1 .. file.pos :
                 Piece(file, data, k) = Content(file.entry)[k]

KInv == IInv /\ NamesKept /\ CacheKept /\ CopyKept

LEMMA SameReads ==
  /\ \A entry : Content(entry) = Reads(data, entry)
  /\ WrittenUnits = Written(file, data)
  /\ Handle = IF Live THEN {[name |-> file.name, data |-> SubSeq(WrittenUnits, 1, Limit)]}
              ELSE {}
BY DEF Content, Reads, WrittenUnits, Written, Handle, Live, Leaving, Limit, At

\* A number in blocks of m and a rest.
LEMMA Quotients ==
  ASSUME NEW a \in Nat, NEW m \in Nat, m >= 1, NEW l \in Nat
  PROVE  /\ a \div m \in Nat /\ a % m \in Nat /\ a % m < m
         /\ a < l * m <=> a \div m < l
         /\ a \div m = l => a = l * m + (a % m)
<1> DEFINE q == a \div m
           x == a % m
<1>1. q \in Nat /\ x \in Nat /\ x < m /\ a = m * q + x
  OBVIOUS
<1>2. a < l * m => q < l
  BY QuotientBelow
<1> HIDE DEF q, x
<1>3. q < l => a < l * m
  <2>1. SUFFICES ASSUME q < l PROVE a < l * m
    OBVIOUS
  <2>2. PICK d \in Nat : l = q + 1 + d
    <3>1. l - (q + 1) \in Nat /\ l = q + 1 + (l - (q + 1))
      BY <1>1, <2>1
    <3> QED
      BY <3>1
  <2>3. l * m = m * q + m + m * d
    BY <1>1, <2>2
  <2>4. m * d \in Nat /\ m * q \in Nat
    BY <1>1, <2>2
  <2> QED
    BY <1>1, <2>3, <2>4
<1>4. q = l => a = l * m + x
  BY <1>1
<1> QED
  BY <1>1, <1>2, <1>3, <1>4 DEF q, x

Contents == [DataBlocks -> [1 .. BlockUnits -> Words]]

\* What FileOK says of the file itself.
Shape(f) ==
  /\ f \in Files
  /\ f.inline => /\ f.pos <= Len(f.cache) /\ Len(f.cache) <= InlineMax
                 /\ f.blocks = <<>>
  /\ ~f.inline /\ f.writing =>
       /\ Len(f.blocks) >= 1
       /\ Len(f.cache) <= BlockUnits
       /\ f.pos = (Len(f.blocks) - 1) * BlockUnits + Len(f.cache)

\* Where a unit of a file in blocks is.
LEMMA PlaceIs ==
  ASSUME NEW f, Shape(f), ~f.inline, f.writing, NEW k \in Nat, 1 <= k
  PROVE  /\ (k - 1) \div BlockUnits \in Nat /\ (k - 1) % BlockUnits \in Nat
         /\ 1 + ((k - 1) % BlockUnits) \in 1 .. BlockUnits
         /\ (k - 1) \div BlockUnits < Len(f.blocks) - 1
              <=> k <= (Len(f.blocks) - 1) * BlockUnits
         /\ (k - 1) \div BlockUnits < Len(f.blocks) - 1 =>
              1 + ((k - 1) \div BlockUnits) \in 1 .. Len(f.blocks) - 1
         /\ ~ ((k - 1) \div BlockUnits < Len(f.blocks) - 1) /\ k <= f.pos + 1 =>
              \/ /\ Len(f.cache) < BlockUnits \/ k <= f.pos
                 /\ 1 + ((k - 1) % BlockUnits) = k - (Len(f.blocks) - 1) * BlockUnits
              \/ Len(f.cache) = BlockUnits /\ k = f.pos + 1
<1> DEFINE n == Len(f.blocks) - 1
           q == (k - 1) \div BlockUnits
           x == (k - 1) % BlockUnits
           c == Len(f.cache)
<1>0. /\ n \in Nat /\ c \in Nat /\ c <= BlockUnits /\ BlockUnits \in Nat /\ BlockUnits >= 1
      /\ k - 1 \in Nat /\ f.pos = n * BlockUnits + c
  BY LenProperties, Constants DEF Shape, Files
<1>1. /\ q \in Nat /\ x \in Nat /\ x < BlockUnits
      /\ k - 1 < n * BlockUnits <=> q < n
      /\ q = n => k - 1 = n * BlockUnits + x
      /\ k - 1 < (n + 1) * BlockUnits <=> q < n + 1
  <2> HIDE DEF n
  <2>1. n + 1 \in Nat
    BY <1>0
  <2> DEFINE a == k - 1
  <2>2. a \in Nat /\ BlockUnits \in Nat /\ BlockUnits >= 1
    BY <1>0
  <2> HIDE DEF a
  <2>3. /\ a \div BlockUnits \in Nat /\ a % BlockUnits \in Nat /\ a % BlockUnits < BlockUnits
        /\ a < n * BlockUnits <=> a \div BlockUnits < n
        /\ a \div BlockUnits = n => a = n * BlockUnits + (a % BlockUnits)
    <3>1. n \in Nat
      BY <1>0
    <3> QED
      BY ONLY <2>2, <3>1, Quotients
  <2>4. a < (n + 1) * BlockUnits <=> a \div BlockUnits < n + 1
    BY <2>1, <2>2, Quotients
  <2> QED
    BY <2>3, <2>4 DEF a
<1>2. (n + 1) * BlockUnits = n * BlockUnits + BlockUnits /\ n * BlockUnits \in Nat
  <2> HIDE DEF n
  <2> QED
    BY <1>0
<1> DEFINE m == n * BlockUnits
<1> HIDE DEF q, x, c
<1>3. /\ m \in Nat /\ (k - 1 < m <=> q < n) /\ (q = n => k - 1 = m + x)
      /\ (k - 1 < m + BlockUnits <=> q < n + 1) /\ f.pos = m + c
  BY <1>0, <1>1, <1>2
<1> HIDE DEF m, n
<1>4. q < n <=> k <= m
  BY <1>0, <1>3
<1>5. q < n => 1 + q \in 1 .. n
  BY <1>0, <1>1
<1>6. ASSUME ~ (q < n), k <= f.pos + 1
      PROVE  \/ (c < BlockUnits \/ k <= f.pos) /\ 1 + x = k - m
             \/ c = BlockUnits /\ k = f.pos + 1
  <2>1. CASE c < BlockUnits \/ k <= f.pos
    <3>1. k - 1 < m + BlockUnits
      BY <1>0, <1>3, <1>6, <2>1
    <3>2. q = n
      BY <1>0, <1>1, <1>3, <1>6, <3>1
    <3> QED
      BY <1>0, <1>1, <1>3, <2>1, <3>2
  <2>2. CASE ~ (c < BlockUnits \/ k <= f.pos)
    BY <1>0, <1>3, <1>6, <2>2
  <2> QED
    BY <2>1, <2>2
<1>7. 1 + x \in 1 .. BlockUnits
  BY <1>0, <1>1
<1> QED
  BY <1>1, <1>4, <1>5, <1>6, <1>7 DEF q, x, c, m, n

LEMMA ReadsIs ==
  ASSUME NEW d \in Contents, NEW entry, FileEntry(entry)
  PROVE  /\ Reads(d, entry) \in Seq(Words) /\ Len(Reads(d, entry)) = entry.size
         /\ entry.type = "ctz" =>
              \A k \in 1 .. entry.size :
                /\ 1 + ((k - 1) \div BlockUnits) \in 1 .. Len(entry.blocks)
                /\ entry.blocks[1 + ((k - 1) \div BlockUnits)] \in DataBlocks
                /\ 1 + ((k - 1) % BlockUnits) \in 1 .. BlockUnits
                /\ Reads(d, entry)[k]
                     = d[entry.blocks[1 + ((k - 1) \div BlockUnits)]]
                           [1 + ((k - 1) % BlockUnits)]
<1>0. /\ entry.units \in Seq(Words) /\ entry.blocks \in Seq(DataBlocks)
      /\ entry.size \in Nat /\ Len(entry.blocks) \in Nat
  BY LenProperties DEF FileEntry, Entry
<1>1. CASE entry.type = "inline"
  <2>1. Reads(d, entry) = entry.units /\ entry.size = Len(entry.units)
    BY <1>1 DEF Reads, FileEntry
  <2> QED
    BY <1>0, <1>1, <2>1
<1>2. CASE entry.type # "inline"
  <2> DEFINE at(k) == 1 + ((k - 1) \div BlockUnits)
             in(k) == 1 + ((k - 1) % BlockUnits)
  <2>1. ASSUME NEW k \in 1 .. entry.size
        PROVE  /\ at(k) \in 1 .. Len(entry.blocks) /\ entry.blocks[at(k)] \in DataBlocks
               /\ in(k) \in 1 .. BlockUnits
               /\ d[entry.blocks[at(k)]][in(k)] \in Words
    <3>1. (k - 1) \div BlockUnits < Len(entry.blocks)
      BY <1>2 DEF FileEntry
    <3>2. k - 1 \in Nat /\ BlockUnits \in Nat /\ BlockUnits >= 1
      BY <1>0, Constants
    <3>3. (k - 1) \div BlockUnits \in Nat /\ (k - 1) % BlockUnits \in Nat
          /\ (k - 1) % BlockUnits < BlockUnits
      BY <3>2
    <3>4. at(k) \in 1 .. Len(entry.blocks)
      BY <1>0, <3>1, <3>3
    <3>5. in(k) \in 1 .. BlockUnits
      BY <3>2, <3>3
    <3> HIDE DEF at, in
    <3>6. entry.blocks[at(k)] \in DataBlocks
      BY <1>0, <3>4, ElementOfSeq
    <3>7. d[entry.blocks[at(k)]] \in [1 .. BlockUnits -> Words]
      BY <3>6 DEF Contents
    <3> QED
      BY <3>4, <3>5, <3>6, <3>7
  <2>2. Reads(d, entry) = [k \in 1 .. entry.size |-> d[entry.blocks[at(k)]][in(k)]]
    BY <1>2 DEF Reads
  <2> HIDE DEF at, in
  <2>3. /\ Reads(d, entry) \in Seq(Words) /\ Len(Reads(d, entry)) = entry.size
    <3>1. \A k \in 1 .. entry.size : d[entry.blocks[at(k)]][in(k)] \in Words
      BY <2>1
    <3>2. [k \in 1 .. entry.size |-> d[entry.blocks[at(k)]][in(k)]] \in Seq(Words)
      BY <1>0, <3>1, IsASeq
    <3> QED
      BY <1>0, <2>2, <3>2
  <2>4. \A k \in 1 .. entry.size : Reads(d, entry)[k] = d[entry.blocks[at(k)]][in(k)]
    BY <2>2
  <2> QED
    BY <2>1, <2>3, <2>4 DEF at, in
<1> QED
  BY <1>1, <1>2

\* What was written to the open file, unit by unit.
LEMMA WrittenIs ==
  ASSUME NEW f, NEW d \in Contents, Shape(f), f.writing
  PROVE  /\ Written(f, d) \in Seq(Words)
         /\ Len(Written(f, d)) = IF f.inline THEN Len(f.cache) ELSE f.pos
         /\ \A k \in 1 .. Len(Written(f, d)) : Written(f, d)[k] = Piece(f, d, k)
<1>0. f.cache \in Seq(Words) /\ f.blocks \in Seq(DataBlocks) /\ f.inline \in BOOLEAN
      /\ Len(f.cache) \in Nat /\ Len(f.blocks) \in Nat /\ f.pos \in Nat
  BY LenProperties DEF Shape, Files
<1>1. CASE f.inline
  <2>1. Written(f, d) = f.cache /\ \A k : Piece(f, d, k) = f.cache[k]
    BY <1>1 DEF Written, Piece
  <2> QED
    BY <1>0, <1>1, <2>1
<1>2. CASE ~f.inline
  <2> DEFINE n == Len(f.blocks) - 1
             m == n * BlockUnits
             e == Ctz(f.blocks, m)
             r == Reads(d, e)
             c == f.cache
  <2>1. n \in Nat /\ Len(f.blocks) = n + 1 /\ f.pos = m + Len(c)
    BY <1>0, <1>2 DEF Shape
  <2>2. m \in Nat
    <3> HIDE DEF n
    <3> QED
      BY <2>1, Constants
  <2>3. Written(f, d) = r \o c
    BY <1>2 DEF Written
  <2> HIDE DEF m
  <2>4. FileEntry(e) /\ e.type = "ctz" /\ e.size = m /\ e.blocks = f.blocks
    <3>1. e.type = "ctz" /\ e.units = <<>> /\ e.size = m /\ e.blocks = f.blocks
      BY DEF Ctz
    <3>2. e \in Entry
      BY <1>0, <2>2, EmptySeq DEF Ctz, Entry
    <3>3. ASSUME NEW k \in 1 .. m PROVE (k - 1) \div BlockUnits < Len(f.blocks)
      <4>1. k - 1 \in Nat /\ k - 1 < m
        BY <2>2
      <4>2. (k - 1) \div BlockUnits < n
        <5>1. k - 1 < n * BlockUnits
          BY <4>1 DEF m
        <5> HIDE DEF n
        <5> QED
          BY <2>1, <4>1, <5>1, Constants, QuotientBelow
      <4>3. (k - 1) \div BlockUnits \in Int
        BY <4>1, Constants
      <4> QED
        BY <2>1, <4>2, <4>3
    <3> QED
      BY <3>1, <3>2, <3>3 DEF FileEntry
  <2> HIDE DEF e
  <2>5. /\ r \in Seq(Words) /\ Len(r) = m
        /\ \A k \in 1 .. m :
             r[k] = d[f.blocks[1 + ((k - 1) \div BlockUnits)]][1 + ((k - 1) % BlockUnits)]
    BY <2>4, ReadsIs
  <2> HIDE DEF r
  <2>6. /\ r \o c \in Seq(Words) /\ Len(r \o c) = m + Len(c)
        /\ \A k \in 1 .. m + Len(c) : (r \o c)[k] = IF k <= m THEN r[k] ELSE c[k - m]
    BY <1>0, <2>5, ConcatProperties
  <2>7. ASSUME NEW k \in 1 .. m + Len(c) PROVE (r \o c)[k] = Piece(f, d, k)
    <3>1. k \in Nat /\ 1 <= k /\ k <= f.pos
      BY <1>0, <2>1, <2>2
    <3>2. /\ (k - 1) \div BlockUnits < n <=> k <= m
          /\ ~ ((k - 1) \div BlockUnits < n) => 1 + ((k - 1) % BlockUnits) = k - m
      <4>1. ~ (k = f.pos + 1)
        BY <1>0, <3>1
      <4>2. k <= f.pos + 1
        BY <1>0, <3>1
      <4> QED
        BY <1>2, <3>1, <4>1, <4>2, PlaceIs DEF m
    <3>3. CASE k <= m
      <4>1. k \in 1 .. m
        BY <2>2, <3>1, <3>3
      <4> QED
        BY <1>2, <2>5, <2>6, <3>2, <3>3, <4>1 DEF Piece
    <3>4. CASE ~ (k <= m)
      <4>1. Piece(f, d, k) = c[k - m]
        BY <1>2, <3>2, <3>4 DEF Piece
      <4> QED
        BY <2>6, <3>4, <4>1
    <3> QED
      BY <3>3, <3>4
  <2> QED
    BY <1>2, <2>1, <2>3, <2>6, <2>7
<1> QED
  BY <1>0, <1>1, <1>2

\* What a handle has of it.
LEMMA Handed ==
  ASSUME NEW f, NEW d \in Contents, Shape(f), f.writing \/ f.pos = 0,
         NEW p \in Nat, p <= f.pos
  PROVE  /\ SubSeq(Written(f, d), 1, p) \in Seq(Words)
         /\ Len(SubSeq(Written(f, d), 1, p)) = p
         /\ \A k \in 1 .. p : SubSeq(Written(f, d), 1, p)[k] = Piece(f, d, k)
<1>0. f.pos \in Nat /\ f.writing \in BOOLEAN /\ Len(f.cache) \in Nat
      /\ f.inline \in BOOLEAN
  BY LenProperties DEF Shape, Files
<1>1. CASE f.writing
  <2> DEFINE w == Written(f, d)
  <2>1. w \in Seq(Words) /\ Len(w) \in Nat /\ p <= Len(w)
        /\ \A k \in 1 .. Len(w) : w[k] = Piece(f, d, k)
    <3>1. /\ w \in Seq(Words)
          /\ Len(w) = IF f.inline THEN Len(f.cache) ELSE f.pos
          /\ \A k \in 1 .. Len(w) : w[k] = Piece(f, d, k)
      BY <1>1, WrittenIs
    <3>2. f.inline => f.pos <= Len(f.cache)
      BY DEF Shape
    <3> HIDE DEF w
    <3> QED
      BY <1>0, <3>1, <3>2
  <2> HIDE DEF w
  <2>2. \A k \in 1 .. p : k \in 1 .. Len(w) /\ w[k] \in Words
    <3>1. \A k \in 1 .. p : k \in 1 .. Len(w)
      BY <2>1
    <3> QED
      BY <2>1, <3>1, ElementOfSeq
  <2>3. /\ SubSeq(w, 1, p) \in Seq(Words)
        /\ Len(SubSeq(w, 1, p)) = (IF 1 <= p THEN p - 1 + 1 ELSE 0)
        /\ \A k \in 1 .. p - 1 + 1 : SubSeq(w, 1, p)[k] = w[1 + k - 1]
    BY <2>2, SubSeqProperties
  <2>4. Len(SubSeq(w, 1, p)) = p
    BY <2>3
  <2>5. ASSUME NEW k \in 1 .. p PROVE SubSeq(w, 1, p)[k] = Piece(f, d, k)
    <3>1. k \in 1 .. p - 1 + 1 /\ 1 + k - 1 = k
      OBVIOUS
    <3>2. SubSeq(w, 1, p)[k] = w[k]
      BY <2>3, <3>1
    <3> QED
      BY <2>1, <2>2, <3>2
  <2> QED
    BY <2>3, <2>4, <2>5 DEF w
<1>2. CASE ~f.writing
  <2>1. p = 0
    BY <1>0, <1>2
  <2>2. SubSeq(Written(f, d), 1, 0) = <<>>
    BY SubSeqEmpty
  <2> QED
    BY <2>1, <2>2, EmptySeq
<1> QED
  BY <1>1, <1>2

\* Two states in which a handle has the same.
LEMMA SameHanded ==
  ASSUME NEW f, NEW d \in Contents, Shape(f), f.writing \/ f.pos = 0,
         NEW g, NEW e \in Contents, Shape(g), g.writing \/ g.pos = 0,
         NEW p \in Nat, p <= f.pos, p <= g.pos,
         \A k \in 1 .. p : Piece(g, e, k) = Piece(f, d, k)
  PROVE  SubSeq(Written(g, e), 1, p) = SubSeq(Written(f, d), 1, p)
<1> DEFINE s == SubSeq(Written(f, d), 1, p)
           t == SubSeq(Written(g, e), 1, p)
<1>1. s \in Seq(Words) /\ Len(s) = p /\ \A k \in 1 .. p : s[k] = Piece(f, d, k)
  BY Handed
<1>2. t \in Seq(Words) /\ Len(t) = p /\ \A k \in 1 .. p : t[k] = Piece(g, e, k)
  BY Handed
<1> HIDE DEF s, t
<1>3. t = s
  <2>1. Len(t) = Len(s) /\ \A k \in 1 .. Len(t) : t[k] = s[k]
    BY <1>1, <1>2
  <2> QED
    BY <1>1, <1>2, <2>1, SeqEqual
<1> QED
  BY <1>3 DEF s, t

LEMMA Shapes ==
  /\ FileOK => Shape(file)
  /\ FileOK' => Shape(file')
  /\ DataOK => data \in Contents
  /\ DataOK' => data' \in Contents
BY DEF FileOK, Shape, DataOK, Contents

\* The last block of a file is not one of those before it.
LEMMA BeforeLast ==
  ASSUME NEW f, Shape(f), ~f.inline, f.writing,
         \A i, j \in DOMAIN f.blocks : f.blocks[i] = f.blocks[j] => i = j,
         NEW i \in 1 .. Len(f.blocks) - 1
  PROVE  /\ i \in DOMAIN f.blocks /\ f.blocks[i] \in DataBlocks
         /\ f.blocks[i] # Last(f.blocks)
         /\ Last(f.blocks) = f.blocks[Len(f.blocks)]
<1>1. f.blocks \in Seq(DataBlocks) /\ Len(f.blocks) \in Nat /\ Len(f.blocks) >= 1
      /\ DOMAIN f.blocks = 1 .. Len(f.blocks)
  BY LenProperties DEF Shape, Files
<1>2. i \in 1 .. Len(f.blocks) /\ Len(f.blocks) \in 1 .. Len(f.blocks)
      /\ i # Len(f.blocks)
  BY <1>1
<1>3. Last(f.blocks) = f.blocks[Len(f.blocks)]
  BY <1>1, LastIs
<1>4. f.blocks[i] \in DataBlocks
  BY <1>1, <1>2, ElementOfSeq
<1> QED
  BY <1>1, <1>2, <1>3, <1>4

\* A block that is taken leaves what was written where it is.
LEMMA PieceTaken ==
  ASSUME OpOK, FileOK, DataOK, WindowOK, NothingShared, CacheKept, Take,
         NEW k \in 1 .. file.pos
  PROVE  Piece(file', data', k) = Piece(file, data, k)
<1>0. /\ Block_ \in DataBlocks /\ Block_ \notin InUse
      /\ data' = [data EXCEPT ![Block_] = Junk]
      /\ file'.writing /\ ~file'.inline /\ file'.pos = file.pos
      /\ file'.blocks = IF file.inline THEN <<Block_>> ELSE Append(file.blocks, Block_)
      /\ file'.cache = IF file.inline THEN SubSeq(file.cache, 1, file.pos) ELSE <<>>
      /\ Shape(file) /\ Shape(file') /\ op.at = "alloc"
  BY Taking, Shapes DEF Take
<1> HIDE DEF Block_
<1>00. /\ file.cache \in Seq(Words) /\ file.blocks \in Seq(DataBlocks)
       /\ file.inline \in BOOLEAN /\ file.writing \in BOOLEAN /\ file.pos \in Nat
       /\ Len(file.cache) \in Nat /\ Len(file.blocks) \in Nat
       /\ DOMAIN file.blocks = 1 .. Len(file.blocks)
       /\ k \in Nat /\ 1 <= k /\ k <= file.pos
  BY <1>0, LenProperties DEF Shape, Files
<1> DEFINE q == (k - 1) \div BlockUnits
           x == (k - 1) % BlockUnits
<1>1. CASE file.inline
  <2>1. /\ file'.blocks = <<Block_>> /\ Len(<<Block_>>) = 1
        /\ file'.cache = SubSeq(file.cache, 1, file.pos)
    BY <1>0, <1>1
  <2>2. k - 1 \in Nat /\ k - 1 < BlockUnits /\ k <= Len(file.cache)
    BY <1>0, <1>00, <1>1, Constants, LittleFsAssumption DEF Shape
  <2>3. q = 0 /\ x = k - 1
    BY <2>2, Constants
  <2> HIDE DEF q, x
  <2>4. Piece(file', data', k) = file'.cache[k]
    <3>1. ~ (q < Len(file'.blocks) - 1)
      BY <2>1, <2>3
    <3>2. 1 + x = k
      BY <1>00, <2>3
    <3> QED
      BY <1>0, <3>1, <3>2 DEF Piece, q, x
  <2>5. file'.cache[k] = file.cache[k]
    <3>1. \A i \in 1 .. file.pos : file.cache[i] \in Words
      <4>1. \A i \in 1 .. file.pos : i \in 1 .. Len(file.cache)
        BY <1>0, <1>00, <1>1 DEF Shape
      <4> QED
        BY <1>00, <4>1, ElementOfSeq
    <3>2. \A i \in 1 .. file.pos - 1 + 1 :
            SubSeq(file.cache, 1, file.pos)[i] = file.cache[1 + i - 1]
      BY <1>00, <3>1, SubSeqProperties
    <3>3. k \in 1 .. file.pos - 1 + 1 /\ 1 + k - 1 = k
      BY <1>00
    <3> QED
      BY <2>1, <3>2, <3>3
  <2>6. Piece(file, data, k) = file.cache[k]
    BY <1>1 DEF Piece
  <2> QED
    BY <2>4, <2>5, <2>6
<1>2. CASE ~file.inline
  <2>1. file.writing /\ Len(file.cache) = BlockUnits
    <3>1. file.writing
      BY <1>00 DEF CacheKept
    <3> QED
      BY <1>0, <1>2, <3>1 DEF OpOK, BlockFull
  <2> DEFINE n == Len(file.blocks)
  <2>2. /\ n \in Nat /\ n >= 1 /\ file'.blocks = Append(file.blocks, Block_)
        /\ Len(file'.blocks) = n + 1
        /\ \A i \in 1 .. n : file'.blocks[i] = file.blocks[i]
    BY <1>0, <1>00, <1>2, <2>1 DEF Shape
  <2>3. /\ q \in Nat /\ x \in Nat /\ 1 + x \in 1 .. BlockUnits
        /\ q < n - 1 => 1 + q \in 1 .. n - 1
        /\ ~ (q < n - 1) => k <= file.pos + 1
        /\ ~ (q < n - 1) /\ k <= file.pos + 1 => 1 + x = k - (n - 1) * BlockUnits
    <3>1. ~ (k = file.pos + 1) /\ k <= file.pos + 1
      BY <1>00
    <3> QED
      BY <1>0, <1>00, <1>2, <2>1, <3>1, PlaceIs
  <2>4. q < n
    <3>1. file.pos = (n - 1) * BlockUnits + BlockUnits
      BY <1>0, <1>2, <2>1 DEF Shape
    <3> HIDE DEF n, q
    <3>2. (n - 1) * BlockUnits + BlockUnits = n * BlockUnits
      BY <2>2, Constants
    <3>3. k - 1 \in Nat /\ k - 1 < n * BlockUnits
      BY <1>00, <3>1, <3>2
    <3> QED
      BY <2>2, <3>3, Constants, QuotientBelow DEF q
  <2>5. q < Len(file'.blocks) - 1 /\ 1 + q \in 1 .. n
    BY <2>2, <2>3, <2>4
  <2>6. Piece(file', data', k) = data'[file.blocks[1 + q]][1 + x]
    BY <1>0, <2>2, <2>5 DEF Piece
  <2>7. data'[file.blocks[1 + q]] = data[file.blocks[1 + q]]
    <3>1. file.blocks[1 + q] \in Chain
      <4>1. 1 + q \in DOMAIN file.blocks
        BY <1>00, <2>5
      <4> QED
        BY <1>2, <2>1, <4>1 DEF Chain, ToSet
    <3>2. file.blocks[1 + q] # Block_
      BY <1>0, <3>1 DEF InUse
    <3> HIDE DEF q
    <3> QED
      BY <1>0, <3>2 DEF DataOK
  <2>8. CASE q < n - 1
    <3>1. Piece(file, data, k) = data[file.blocks[1 + q]][1 + x]
      BY <1>2, <2>8 DEF Piece
    <3> QED
      BY <2>6, <2>7, <3>1
  <2>9. CASE ~ (q < n - 1)
    <3>1. 1 + q = n
      BY <2>2, <2>3, <2>4, <2>9
    <3>2. Piece(file, data, k) = file.cache[1 + x]
      BY <1>2, <2>9 DEF Piece
    <3>3. file.blocks[1 + q] = Last(file.blocks)
      BY <1>00, <2>2, <3>1, LastIs
    <3>4. data[Last(file.blocks)] = Filled(file.cache)
      BY <1>2, <2>1 DEF CacheKept
    <3>5. Filled(file.cache)[1 + x] = file.cache[1 + x]
      <4> HIDE DEF x
      <4>1. 1 + x <= Len(file.cache)
        BY <2>1, <2>3
      <4> QED
        BY <1>00, <2>3, <4>1, FilledIs
    <3> QED
      BY <2>6, <2>7, <3>2, <3>3, <3>4, <3>5
  <2> QED
    BY <2>8, <2>9
<1> QED
  BY <1>1, <1>2

\* Writing the last block changes nothing that is in another one.
LEMMA PieceProgrammed ==
  ASSUME FileOK, DataOK, NothingShared, ~file.inline, file.writing,
         NEW c \in Seq(Words),
         data' = data \/ data' = [data EXCEPT ![Last(file.blocks)] = Filled(c)],
         NEW i \in 1 .. Len(file.blocks) - 1
  PROVE  data'[file.blocks[i]] = data[file.blocks[i]]
<1>1. file.blocks[i] \in DataBlocks /\ file.blocks[i] # Last(file.blocks)
  BY Shapes, BeforeLast DEF NothingShared
<1>2. CASE data' = data
  BY <1>2
<1>3. CASE data' = [data EXCEPT ![Last(file.blocks)] = Filled(c)]
  BY <1>1, <1>3, DataWritten
<1> QED
  BY <1>2, <1>3

LEMMA PieceFlushed ==
  ASSUME FileOK, DataOK, NothingShared, file' = file,
         \/ data' = data
         \/ /\ ~file.inline /\ file.writing
            /\ data' = [data EXCEPT ![Last(file.blocks)] = Filled(file.cache)],
         file.writing \/ file.pos = 0,
         NEW k \in 1 .. file.pos
  PROVE  Piece(file', data', k) = Piece(file, data, k)
<1>0. /\ Shape(file) /\ file.cache \in Seq(Words) /\ file.inline \in BOOLEAN
      /\ file.pos \in Nat /\ k \in Nat /\ 1 <= k
  BY Shapes DEF FileOK, Files
<1>1. CASE file.inline
  BY <1>1 DEF Piece
<1>2. CASE ~file.inline
  <2> DEFINE q == (k - 1) \div BlockUnits
  <2>1. file.writing
    BY <1>0
  <2>2. q < Len(file.blocks) - 1 => 1 + q \in 1 .. Len(file.blocks) - 1
    BY <1>0, <1>2, <2>1, PlaceIs
  <2> HIDE DEF q
  <2>3. q < Len(file.blocks) - 1 => data'[file.blocks[1 + q]] = data[file.blocks[1 + q]]
    BY <1>0, <1>2, <2>1, <2>2, PieceProgrammed
  <2> QED
    BY <1>2, <2>3 DEF Piece, q
<1> QED
  BY <1>0, <1>1, <1>2

Replacing(c, p, u) == SubSeq(c, 1, p) \o <<u>> \o SubSeq(c, p + 2, Len(c))

LEMMA ReplacingIs ==
  ASSUME NEW c \in Seq(Words), NEW p \in Nat, p <= Len(c), NEW u \in Words
  PROVE  \A i \in 1 .. Len(Replacing(c, p, u)) :
           Replacing(c, p, u)[i] = IF i = p + 1 THEN u ELSE c[i]
<1> DEFINE s == SubSeq(c, 1, p) \o <<u>> \o SubSeq(c, p + 2, Len(c))
<1>1. /\ s \in Seq(Words) /\ Len(s) = MaxOf(p + 1, Len(c))
      /\ \A i \in 1 .. Len(s) : s[i] = IF i = p + 1 THEN u ELSE c[i]
  BY Overwritten
<1>2. Replacing(c, p, u) = s
  BY DEF Replacing
<1> HIDE DEF s
<1> QED
  BY <1>1, <1>2

\* A unit that is written comes behind those that were.
LEMMA PiecePut ==
  ASSUME OpOK, FileOK, DataOK, NothingShared, CacheKept, Put,
         NEW k \in 1 .. file.pos + 1
  PROVE  Piece(file', data', k) = IF k = file.pos + 1 THEN Unit ELSE Piece(file, data, k)
<1>0. /\ Shape(file) /\ file.cache \in Seq(Words) /\ file.blocks \in Seq(DataBlocks)
      /\ file.inline \in BOOLEAN /\ Len(file.cache) \in Nat /\ Len(file.blocks) \in Nat
      /\ file.pos \in Nat /\ k \in Nat /\ 1 <= k /\ k <= file.pos + 1
  BY Shapes, LenProperties DEF FileOK, Files
<1>1. /\ Placed \in Seq(Words)
      /\ Len(Placed) = IF file.inline THEN MaxOf(file.pos + 1, Len(file.cache))
                       ELSE Len(file.cache) + 1
      /\ file'.inline = file.inline /\ file'.blocks = file.blocks
      /\ file'.cache = Placed /\ (~file.inline => file.writing)
  BY PutStep
<1>2. Unit \in Words
  BY UnitIsWord DEF Put
<1>3. CASE file.inline
  <2>1. file.pos <= Len(file.cache)
    BY <1>0, <1>3 DEF Shape
  <2>2. Placed = SubSeq(file.cache, 1, file.pos) \o <<Unit>>
                   \o SubSeq(file.cache, file.pos + 2, Len(file.cache))
    BY <1>3 DEF Placed
  <2>3. \A i \in 1 .. Len(Placed) :
          Placed[i] = IF i = file.pos + 1 THEN Unit ELSE file.cache[i]
    <3>1. Placed = Replacing(file.cache, file.pos, Unit)
      BY <2>2 DEF Replacing
    <3> HIDE DEF Placed
    <3> QED
      BY <1>0, <1>2, <2>1, <3>1, ReplacingIs
  <2>4. k \in 1 .. Len(Placed)
    <3>1. Len(Placed) = MaxOf(file.pos + 1, Len(file.cache))
      BY <1>1, <1>3
    <3> HIDE DEF Placed
    <3> QED
      BY <1>0, <3>1 DEF MaxOf
  <2> HIDE DEF Placed
  <2>5. Piece(file', data', k) = Placed[k] /\ Piece(file, data, k) = file.cache[k]
    BY <1>1, <1>3 DEF Piece
  <2> QED
    BY <2>3, <2>4, <2>5
<1>4. CASE ~file.inline
  <2> DEFINE n == Len(file.blocks) - 1
             q == (k - 1) \div BlockUnits
             x == (k - 1) % BlockUnits
             m == n * BlockUnits
  <2>1. /\ file.writing /\ Placed = Append(file.cache, Unit)
        /\ Len(file.cache) < BlockUnits /\ file.pos = m + Len(file.cache)
    <3>1. file.writing /\ Len(file.cache) # BlockUnits
      BY <1>1, <1>4 DEF Put, BlockFull
    <3>2. Len(file.cache) <= BlockUnits /\ file.pos = m + Len(file.cache)
      BY <1>0, <1>4, <3>1 DEF Shape
    <3>3. Len(file.cache) < BlockUnits
      BY <1>0, <3>1, <3>2, Constants
    <3> QED
      BY <1>4, <3>1, <3>2, <3>3 DEF Placed
  <2>2. /\ q < n <=> k <= m
        /\ q < n => 1 + q \in 1 .. n
        /\ ~ (q < n) => 1 + x = k - m
        /\ m \in Nat
    <3>1. /\ q < n <=> k <= m
          /\ q < n => 1 + q \in 1 .. n
          /\ ~ (q < n) /\ k <= file.pos + 1 =>
               \/ 1 + x = k - m
               \/ Len(file.cache) = BlockUnits
      BY <1>0, <1>4, <2>1, PlaceIs
    <3>2. Len(file.cache) # BlockUnits
      BY <1>0, <2>1, Constants
    <3>3. m \in Nat
      <4>1. n \in Nat
        BY <1>0, <1>4, <2>1 DEF Shape
      <4> HIDE DEF n
      <4> QED
        BY <4>1, Constants
    <3> QED
      BY <1>0, <3>1, <3>2, <3>3
  <2>3. data' = data \/ data' = [data EXCEPT ![Last(file.blocks)] = Filled(Placed)]
    BY <1>4 DEF Put
  <2> HIDE DEF Placed, q, x, m
  <2>4. CASE q < n
    <3>1. data'[file.blocks[1 + q]] = data[file.blocks[1 + q]]
      BY <1>1, <1>4, <2>1, <2>2, <2>3, <2>4, PieceProgrammed
    <3>2. k # file.pos + 1
      BY <1>0, <2>1, <2>2, <2>4
    <3>3. Piece(file', data', k) = data'[file.blocks[1 + q]][1 + x]
      BY <1>1, <1>4, <2>4 DEF Piece, q, x
    <3>4. Piece(file, data, k) = data[file.blocks[1 + q]][1 + x]
      BY <1>4, <2>4 DEF Piece, q, x
    <3> QED
      BY <3>1, <3>2, <3>3, <3>4
  <2>5. CASE ~ (q < n)
    <3>1. Piece(file', data', k) = Placed[1 + x]
      BY <1>1, <1>4, <2>5 DEF Piece, q, x
    <3>2. Piece(file, data, k) = file.cache[1 + x]
      BY <1>4, <2>5 DEF Piece, q, x
    <3>3. 1 + x \in 1 .. Len(file.cache) + 1
          /\ (k = file.pos + 1 <=> 1 + x = Len(file.cache) + 1)
      <4>1. ~ (k <= m) /\ 1 + x = k - m /\ m \in Nat
        BY <2>2, <2>5
      <4>2. k <= m + Len(file.cache) + 1 /\ k \in Nat /\ Len(file.cache) \in Nat
            /\ file.pos = m + Len(file.cache)
        BY <1>0, <2>1, <4>1
      <4> QED
        BY ONLY <4>1, <4>2
    <3>4. \A i \in 1 .. Len(file.cache) + 1 :
            Placed[i] = IF i = Len(file.cache) + 1 THEN Unit ELSE file.cache[i]
      BY <1>0, <1>2, <2>1
    <3> QED
      BY <3>1, <3>2, <3>3, <3>4
  <2> QED
    BY <2>4, <2>5
<1> QED
  BY <1>0, <1>3, <1>4

-----------------------------------------------------------------------------
(* What the steps come to, for the files.                                  *)

Opens ==
  /\ ~file.open /\ op.call \in {"none", "open"} /\ op' = Idle
  /\ \E n \in DOMAIN Directory : file' = Opened(n, Directory[n])
  /\ data' = data

Starts ==
  /\ op = Idle /\ file' = file /\ data' = data
  /\ \/ /\ op'.call = "open" /\ op'.at = "append" /\ ~file.open
        /\ op'.name \notin DOMAIN Directory
     \/ op'.call = "remove" /\ op'.at = "append" /\ op'.name \in DOMAIN Directory
     \/ op'.call = "write" /\ op'.at = "put" /\ op'.unit \in Units
     \/ /\ op'.call = "close" /\ op'.pos = file.pos
        /\ op'.at = IF file.erred \/ ~file.writing THEN "closed" ELSE "flush"

GoesOn ==
  /\ op.at \in {"append", "erase", "put", "flush"}
  /\ \E at \in {"erase", "compact", "alloc", "put"} :
       /\ op' = [op EXCEPT !.at = at]
       /\ op.at \in {"append", "erase"} <=> at \in {"erase", "compact"}
  /\ file' = file /\ data' = data

Leaves ==
  /\ file' = Closed /\ op' = Idle
  /\ op.at \in {"alloc", "put", "flush"} /\ ~file.inline /\ file.writing
       => \/ data' = data
          \/ data' = [data EXCEPT ![Last(file.blocks)] = Filled(<<>>)]
  /\ ~ (op.at \in {"alloc", "put", "flush"} /\ ~file.inline /\ file.writing)
       => data' = data

LEMMA StepKinds ==
  ASSUME IInv, NamesKept, [Next]_vars
  PROVE  \/ Commits_
         \/ /\ Directory' = Directory
            /\ \/ UNCHANGED <<data, file, op>>
               \/ Opens \/ Starts \/ GoesOn \/ Leaves
               \/ NoSpace \/ Take \/ Put \/ Flush \/ Removed
<1>0. LogOK /\ DirectoryOK /\ DataOK /\ OpOK /\ FileOK
      /\ Fetch(meta).entries = Directory
  BY LogFacts DEF IInv
<1>1. SUFFICES ASSUME Directory' = Directory, ~Commits_
               PROVE  \/ UNCHANGED <<data, file, op>>
                      \/ Opens \/ Starts \/ GoesOn \/ Leaves
                      \/ NoSpace \/ Take \/ Put \/ Flush \/ Removed
  BY <1>0, LogStep
<1>2. CASE Mount \/ Format \/ Scan \/ UNCHANGED vars
  BY <1>2 DEF Mount, Format, Scan, vars, flash
<1>3. CASE \E n \in Names : lfs_file_open(n)
  <2>1. PICK n \in Names : lfs_file_open(n)
    BY <1>3
  <2>2. /\ ~file.open /\ op = Idle /\ data' = data
        /\ IF n \in DOMAIN Directory
           THEN file' = Opened(n, Directory[n]) /\ op' = op
           ELSE /\ op' = [Idle EXCEPT !.call = "open", !.at = "append", !.name = n,
                                      !.entries = Only(n, Inline(<<>>))]
                /\ file' = file
    BY <1>0, <2>1 DEF lfs_file_open, Call, flash
  <2>3. CASE n \in DOMAIN Directory
    <3>1. op.call = "none"
      BY <2>2 DEF Idle
    <3> QED
      BY <2>2, <2>3, <3>1 DEF Opens
  <2>4. CASE n \notin DOMAIN Directory
    <3>1. op'.call = "open" /\ op'.at = "append" /\ op'.name = n
      BY <2>2, <2>4 DEF Idle
    <3> QED
      BY <2>2, <2>4, <3>1 DEF Starts
  <2> QED
    BY <2>3, <2>4
<1>4. CASE \E n \in Names : lfs_remove(n)
  <2>1. PICK n \in Names : lfs_remove(n)
    BY <1>4
  <2>2. /\ op = Idle /\ data' = data /\ file' = file /\ n \in DOMAIN Directory
        /\ op' = [Idle EXCEPT !.call = "remove", !.at = "append", !.name = n,
                              !.entries = Only(n, Deleted)]
    BY <1>0, <2>1 DEF lfs_remove, Call, flash
  <2>3. op'.call = "remove" /\ op'.at = "append" /\ op'.name = n
    BY <2>2 DEF Idle
  <2> QED
    BY <2>2, <2>3 DEF Starts
<1>5. CASE \E u \in Units : lfs_file_write(u)
  <2>1. PICK u \in Units : lfs_file_write(u)
    BY <1>5
  <2>2. /\ op = Idle /\ data' = data /\ file' = file
        /\ op' = [Idle EXCEPT !.call = "write", !.at = "put", !.unit = u]
    BY <2>1 DEF lfs_file_write, flash
  <2>3. op'.call = "write" /\ op'.at = "put" /\ op'.unit = u
    BY <2>2 DEF Idle
  <2> QED
    BY <2>1, <2>2, <2>3 DEF Starts
<1>6. CASE lfs_file_close
  <2>1. /\ op = Idle /\ data' = data /\ file' = file
        /\ op' = [Idle EXCEPT !.call = "close", !.pos = file.pos,
                        !.at = IF file.erred \/ ~file.writing THEN "closed" ELSE "flush"]
    BY <1>6 DEF lfs_file_close, flash
  <2>2. /\ op'.call = "close" /\ op'.pos = file.pos
        /\ op'.at = IF file.erred \/ ~file.writing THEN "closed" ELSE "flush"
    BY <2>1 DEF Idle
  <2> QED
    BY <2>1, <2>2 DEF Starts
<1>7. CASE Append_
  <2>1. \/ op' = [op EXCEPT !.at = "erase"]
        \/ Directory' = Compacted /\ op' = [op EXCEPT !.at = "done"]
    BY <1>0, <1>7, LogAppend
  <2>2. op.at = "append" /\ UNCHANGED <<data, free, file, mounted>>
    BY <1>7 DEF Append_
  <2> QED
    BY <1>1, <2>1, <2>2 DEF GoesOn, Commits_
<1>8. CASE Compact
  <2>1. Directory' = Compacted /\ op' = [op EXCEPT !.at = "done"]
    BY <1>0, <1>8, LogCompact DEF Compact, Goto
  <2>2. op.at = "compact" /\ UNCHANGED <<data, free, file, mounted>>
    BY <1>8 DEF Compact
  <2> QED
    BY <1>1, <2>1, <2>2 DEF Commits_
<1>9. CASE NoRoom \/ EraseBlock \/ NeedsBlock \/ CopyOld
  BY <1>9 DEF NoRoom, EraseBlock, NeedsBlock, CopyOld, At, Goto, GoesOn, flash
<1>10. CASE Created
  <2>1. /\ op.call = "open" /\ op.at = "done" /\ op' = Idle /\ data' = data
        /\ file' = Opened(op.name, Inline(<<>>))
    BY <1>10 DEF Created, At, Return, flash
  <2>2. ~file.open
    BY <1>0, <2>1 DEF OpOK
  <2>3. op.name \in DOMAIN Directory /\ Directory[op.name] = Inline(<<>>)
    BY <2>1 DEF NamesKept
  <2> QED
    BY <2>1, <2>2, <2>3 DEF Opens
<1>11. CASE Synced \/ CloseOnly
  BY <1>11 DEF Synced, CloseOnly, Return, flash, Leaves
<1>12. CASE PowerCut
  <2>1. file' = Closed /\ op' = Idle /\ data' \in Broken
    BY <1>12 DEF PowerCut
  <2>2. \/ data' = data
        \/ /\ Chain # {} /\ op.at \in {"alloc", "put", "flush"}
           /\ data' = [data EXCEPT ![Last(file.blocks)] = Filled(<<>>)]
    BY <2>1 DEF Broken, Junk
  <2>3. Chain # {} => ~file.inline /\ file.writing
    BY DEF Chain
  <2> QED
    BY <2>1, <2>2, <2>3 DEF Leaves
<1> QED
  BY <1>2, <1>3, <1>4, <1>5, <1>6, <1>7, <1>8, <1>9, <1>10, <1>11, <1>12 DEF Next

\* The entries that a step commits, as far as names go.
LEMMA CommitNames ==
  ASSUME LogOK, OpOK, FileOK, Commits_
  PROVE  /\ op.call \in {"open", "remove", "close"} /\ op'.call = op.call
         /\ op'.at = "done" /\ op'.name = op.name /\ op'.pos = op.pos /\ op'.unit = op.unit
         /\ file' = file /\ data' = data
         /\ op.call = "close" => file.open /\ file.writing
         /\ LET n == IF op.call = "close" THEN file.name ELSE op.name
                e == IF op.call = "close" THEN NewEntry
                     ELSE IF op.call = "open" THEN Inline(<<>>) ELSE Deleted
            IN /\ n \in Names
               /\ \A m : m \in DOMAIN Directory' <=>
                    \/ m = n /\ op.call # "remove"
                    \/ m # n /\ m \in DOMAIN Directory
               /\ \A m \in DOMAIN Directory' :
                    Directory'[m] = IF m = n THEN e ELSE Directory[m]
<1>0. /\ op.at \in {"append", "compact"} /\ op' = [op EXCEPT !.at = "done"]
      /\ Directory' = Compacted /\ file' = file /\ data' = data /\ op \in Ops
  BY DEF Commits_, OpOK
<1>1. op'.call = op.call /\ op'.at = "done" /\ op'.name = op.name /\ op'.pos = op.pos
      /\ op'.unit = op.unit
  BY <1>0 DEF Ops
<1>2. PICK n \in Names, e \in Entry :
        /\ op.entries = Only(n, e)
        /\ \/ op.call = "open" /\ n = op.name /\ e = Inline(<<>>)
           \/ op.call = "remove" /\ n = op.name /\ e = Deleted
           \/ /\ op.call = "close" /\ n = file.name /\ e = NewEntry
              /\ file.open /\ file.writing
  BY <1>0, Committed DEF Committing
<1>3. /\ \A m : m \in DOMAIN Compacted <=>
            \/ m = n /\ e.type # "deleted"
            \/ m # n /\ m \in DOMAIN Directory
      /\ \A m \in DOMAIN Compacted : Compacted[m] = IF m = n THEN e ELSE Directory[m]
  BY <1>2, CompactedIs
<1>4. /\ Inline(<<>>).type # "deleted" /\ NewEntry.type # "deleted"
      /\ Deleted.type = "deleted"
  BY DEF Inline, NewEntry, Ctz, Deleted
<1> HIDE DEF Compacted, NewEntry
<1>5. CASE op.call = "open"
  <2>1. n = op.name /\ e = Inline(<<>>)
    BY <1>2, <1>5
  <2> QED
    BY <1>0, <1>1, <1>2, <1>3, <1>4, <1>5, <2>1
<1>6. CASE op.call = "remove"
  <2>1. n = op.name /\ e = Deleted
    BY <1>2, <1>6
  <2> QED
    BY <1>0, <1>1, <1>2, <1>3, <1>4, <1>6, <2>1
<1>7. CASE op.call = "close"
  <2>1. n = file.name /\ e = NewEntry /\ file.open /\ file.writing
    BY <1>2, <1>7
  <2> QED
    BY <1>0, <1>1, <1>2, <1>3, <1>4, <1>7, <2>1
<1> QED
  BY <1>2, <1>5, <1>6, <1>7

\* The step of a call leaves the rest of it alone.
LEMMA OpGoesOn ==
  ASSUME OpOK, NEW at, op' = [op EXCEPT !.at = at]
  PROVE  /\ op'.at = at /\ op'.call = op.call /\ op'.name = op.name
         /\ op'.pos = op.pos /\ op'.unit = op.unit
BY DEF OpOK, Ops

LEMMA NamesStep ==
  ASSUME KInv, [Next]_vars
  PROVE  NamesKept'
<1>0. IInv /\ LogOK /\ OpOK /\ FileOK /\ DataOK /\ WindowOK /\ NothingShared /\ NamesKept
  BY DEF KInv, IInv
<1>1. CASE Commits_
  <2> DEFINE n == IF op.call = "close" THEN file.name ELSE op.name
             e == IF op.call = "close" THEN NewEntry
                  ELSE IF op.call = "open" THEN Inline(<<>>) ELSE Deleted
  <2>1. /\ op.call \in {"open", "remove", "close"} /\ op'.call = op.call
        /\ op'.at = "done" /\ op'.name = op.name
        /\ file' = file
        /\ \A m : m \in DOMAIN Directory' <=>
             \/ m = n /\ op.call # "remove"
             \/ m # n /\ m \in DOMAIN Directory
        /\ \A m \in DOMAIN Directory' : Directory'[m] = IF m = n THEN e ELSE Directory[m]
    BY <1>0, <1>1, CommitNames
  <2>2. op.at \in {"append", "compact"}
    BY <1>1 DEF Commits_
  <2>3. Committing /\ ~Leaving /\ (Behind' <=> Behind)
    BY <2>1, <2>2 DEF Committing, Leaving, At, Behind
  <2> HIDE DEF Directory
  <2>4. CASE op.call = "open"
    <3>1. ~file.open
      BY <1>0, <2>4 DEF OpOK
    <3> QED
      BY <2>1, <2>4, <3>1 DEF NamesKept
  <2>5. CASE op.call = "remove"
    <3>1. file.open /\ ~file.gone /\ ~Leaving' =>
            file.name # op.name /\ file.name \in DOMAIN Directory
            /\ Directory[file.name] = file.entry
      BY <1>0, <2>1, <2>3, <2>5 DEF Leaving, At, NamesKept
    <3> QED
      BY <2>1, <2>5, <3>1 DEF NamesKept
  <2>6. CASE op.call = "close"
    <3>1. Leaving'
      BY <2>1, <2>6 DEF Leaving, At
    <3>2. ~file.gone /\ ~Behind
      BY <1>0, <2>3, <2>6 DEF NamesKept
    <3> QED
      BY <2>1, <2>3, <2>6, <3>1, <3>2 DEF NamesKept
  <2> QED
    BY <2>1, <2>4, <2>5, <2>6
<1>2. CASE Directory' = Directory /\ UNCHANGED <<data, file, op>>
  <2> HIDE DEF Directory
  <2> QED
    BY <1>0, <1>2 DEF NamesKept, Leaving, At, Committing, Behind
<1>3. CASE Directory' = Directory /\ Opens
  <2>1. PICK n \in DOMAIN Directory : file' = Opened(n, Directory[n])
    BY <1>3 DEF Opens
  <2>2. op'.call = "none" /\ file'.name = n /\ file'.entry = Directory[n]
    BY <1>3, <2>1 DEF Opens, Idle, Opened, Closed
  <2> HIDE DEF Directory
  <2> QED
    BY <1>3, <2>1, <2>2 DEF NamesKept
<1>4. CASE Directory' = Directory /\ Starts
  <2>1. op = Idle /\ file' = file
    BY <1>4 DEF Starts
  <2>2. ~Leaving
    BY <2>1 DEF Leaving, At, Idle
  <2>3. \/ op'.call = "open" /\ op'.at = "append" /\ ~file.open
           /\ op'.name \notin DOMAIN Directory
        \/ op'.call = "remove" /\ op'.at = "append" /\ op'.name \in DOMAIN Directory
        \/ op'.call = "write" /\ op'.at = "put" /\ op'.unit \in Units
        \/ op'.call = "close" /\ op'.at \in {"closed", "flush"}
    BY <1>4 DEF Starts
  <2> HIDE DEF Directory
  <2> QED
    BY <1>0, <1>4, <2>1, <2>2, <2>3 DEF NamesKept, Committing
<1>5. CASE Directory' = Directory /\ GoesOn
  <2>1. PICK at \in {"erase", "compact", "alloc", "put"} :
          /\ op' = [op EXCEPT !.at = at]
          /\ op.at \in {"append", "erase"} <=> at \in {"erase", "compact"}
    BY <1>5 DEF GoesOn
  <2>2. op'.at = at /\ op'.call = op.call /\ op'.name = op.name /\ op'.unit = op.unit
    BY <1>0, <2>1, OpGoesOn
  <2>3. file' = file /\ op.at \in {"append", "erase", "put", "flush"}
    BY <1>5 DEF GoesOn
  <2>4. /\ (Committing' <=> Committing) /\ ~Leaving /\ (Behind' <=> Behind)
        /\ op.at # "done" /\ op'.at # "done"
    BY <2>1, <2>2, <2>3 DEF Committing, Leaving, At, Behind
  <2> HIDE DEF Directory
  <2> QED
    BY <1>0, <1>5, <2>2, <2>3, <2>4 DEF NamesKept
<1>6. CASE Leaves
  <2>1. op'.call = "none" /\ file'.open = FALSE
    BY <1>6 DEF Leaves, Idle, Closed
  <2> QED
    BY <2>1 DEF NamesKept
<1>7. CASE Directory' = Directory /\ (NoSpace \/ Take \/ Put)
  <2>1. /\ op.at \in {"alloc", "put"} /\ file'.open = file.open /\ file'.name = file.name
        /\ file'.entry = file.entry /\ file'.gone = file.gone
    <3>1. CASE NoSpace
      <4>1. op.at = "alloc" /\ file' = [file EXCEPT !.erred = TRUE] /\ file \in Files
        BY <1>0, <3>1 DEF NoSpace, FileOK
      <4> QED
        BY <4>1 DEF Files
    <3>2. CASE Take
      <4>1. op.at = "alloc" /\ file.open
        BY <1>0, <3>2, Putting DEF Take
      <4> QED
        BY <1>0, <3>2, <4>1, Taking
    <3>3. CASE Put
      <4>1. op.at = "put" /\ file.open
        BY <1>0, <3>3, Putting DEF Put
      <4> QED
        BY <1>0, <3>3, <4>1, PutStep
    <3> QED
      BY <1>7, <3>1, <3>2, <3>3
  <2>2. \/ op' = Idle
        \/ op' = [op EXCEPT !.at = "closed"]
        \/ op' = [op EXCEPT !.at = "put"]
        \/ op' = [op EXCEPT !.at = "flush"]
    BY <1>7 DEF NoSpace, Take, Put, Return, Goto
  <2>3. \/ op'.call = "none"
        \/ op'.call = op.call /\ op'.unit = op.unit /\ op'.at \in {"closed", "put", "flush"}
    BY <1>0, <2>2, OpGoesOn DEF Idle
  <2>4. op.call \in {"write", "close"} /\ ~Leaving
    BY <1>0, <2>1, Putting DEF Leaving, At
  <2> HIDE DEF Directory
  <2> QED
    BY <1>0, <1>7, <2>1, <2>3, <2>4 DEF NamesKept, Committing
<1>8. CASE Directory' = Directory /\ Flush
  <2>1. /\ op.call = "close" /\ op.at = "flush" /\ file' = file /\ ~Behind
        /\ \/ op' = [op EXCEPT !.at = "closed"]
           \/ /\ op' = [op EXCEPT !.at = "append", !.entries = Only(file.name, NewEntry)]
              /\ ~file.gone
    BY <1>8 DEF Flush, At, Goto, StartCommit
  <2>2. \/ op'.call = "close" /\ op'.at = "closed"
        \/ op'.call = "close" /\ op'.at = "append" /\ ~file.gone
    BY <1>0, <2>1 DEF OpOK, Ops
  <2>3. ~Leaving /\ ~Behind'
    BY <2>1 DEF Leaving, At, Behind
  <2> HIDE DEF Directory
  <2> QED
    BY <1>0, <1>8, <2>1, <2>2, <2>3 DEF NamesKept, Committing
<1>9. CASE Directory' = Directory /\ Removed
  <2>1. /\ op' = Idle /\ op.call = "remove" /\ op.at = "done"
        /\ file' = [file EXCEPT !.gone = @ \/ (file.open /\ file.name = op.name)]
        /\ file \in Files
    BY <1>0, <1>9 DEF Removed, At, Return, FileOK
  <2>2. /\ op'.call = "none" /\ file'.open = file.open /\ file'.name = file.name
        /\ file'.entry = file.entry
        /\ file'.gone <=> file.gone \/ (file.open /\ file.name = op.name)
    BY <2>1 DEF Files, Idle
  <2>3. file.open /\ ~file'.gone => ~file.gone /\ ~Leaving
    BY <2>1, <2>2 DEF Leaving, At
  <2> HIDE DEF Directory
  <2> QED
    BY <1>0, <1>9, <2>2, <2>3 DEF NamesKept
<1> QED
  BY <1>0, <1>1, <1>2, <1>3, <1>4, <1>5, <1>6, <1>7, <1>8, <1>9, StepKinds

\* The last block of the open file is programmed, and no other one.
LEMMA LastWritten ==
  ASSUME FileOK, DataOK, NothingShared, ~At("close", "done"),
         ~file.inline, file.writing, NEW c \in Seq(Words),
         data' = [data EXCEPT ![Last(file.blocks)] = Filled(c)],
         NEW b \in Tree, b \in DataBlocks
  PROVE  data'[b] = data[b]
<1>1. file.blocks \in Seq(DataBlocks) /\ Len(file.blocks) >= 1
  BY DEF FileOK, Files
<1>2. Last(file.blocks) \in Chain
  BY <1>1, LastIs DEF Chain
<1>3. Last(file.blocks) # b
  BY <1>2 DEF NothingShared
<1> QED
  BY <1>3, DataWritten

\* No step writes a block that the directory names.
LEMMA DataStep ==
  ASSUME IInv, NamesKept, [Next]_vars
  PROVE  \A b \in Tree : b \in DataBlocks => data'[b] = data[b]
<1> SUFFICES ASSUME NEW b \in Tree, b \in DataBlocks PROVE data'[b] = data[b]
  OBVIOUS
<1>0. OpOK /\ FileOK /\ DataOK /\ WindowOK /\ NothingShared
  BY DEF IInv
<1>1. CASE data' = data
  BY <1>1
<1>2. CASE Take
  <2>1. Block_ \notin InUse /\ data' = [data EXCEPT ![Block_] = Junk]
    BY <1>0, <1>2, Taking
  <2>2. Block_ # b
    BY <2>1 DEF InUse
  <2> HIDE DEF Block_
  <2> QED
    BY <1>0, <2>1, <2>2 DEF DataOK
<1>3. CASE Put
  <2>1. Placed \in Seq(Words) /\ op.at = "put" /\ (~file.inline => file.writing)
        /\ \/ data' = data
           \/ ~file.inline /\ data' = [data EXCEPT ![Last(file.blocks)] = Filled(Placed)]
    BY <1>0, <1>3, PutStep DEF Put
  <2>2. ~At("close", "done")
    BY <2>1 DEF At
  <2> HIDE DEF Placed
  <2> QED
    BY <1>0, <2>1, <2>2, LastWritten
<1>4. CASE Flush
  <2>1. /\ op.call = "close" /\ op.at = "flush"
        /\ \/ data' = data
           \/ ~file.inline /\ data' = [data EXCEPT ![Last(file.blocks)] = Filled(file.cache)]
    BY <1>4 DEF Flush, At
  <2>2. file.writing /\ file.cache \in Seq(Words) /\ ~At("close", "done")
    BY <1>0, <2>1 DEF OpOK, FileOK, Files, At
  <2> QED
    BY <1>0, <2>1, <2>2, LastWritten
<1>5. CASE Leaves
  <2>1. \/ data' = data
        \/ /\ op.at \in {"alloc", "put", "flush"} /\ ~file.inline /\ file.writing
           /\ data' = [data EXCEPT ![Last(file.blocks)] = Filled(<<>>)]
    BY <1>5 DEF Leaves
  <2>2. CASE op.at \in {"alloc", "put", "flush"} /\ ~file.inline /\ file.writing
             /\ data' = [data EXCEPT ![Last(file.blocks)] = Filled(<<>>)]
    <3>1. <<>> \in Seq(Words) /\ ~At("close", "done")
      BY <2>2, EmptySeq DEF At
    <3> QED
      BY <1>0, <2>2, <3>1, LastWritten
  <2> QED
    BY <2>1, <2>2
<1> QED
  BY <1>1, <1>2, <1>3, <1>4, <1>5, StepKinds DEF Commits_, Opens, Starts, GoesOn,
     NoSpace, Removed, flash

\* What an entry of the directory reads as stays.
LEMMA ReadsKept ==
  ASSUME IInv, NamesKept, [Next]_vars, NEW n \in DOMAIN Directory
  PROVE  Reads(data', Directory[n]) = Reads(data, Directory[n])
<1> DEFINE e == Directory[n]
           at(k) == 1 + ((k - 1) \div BlockUnits)
           in(k) == 1 + ((k - 1) % BlockUnits)
<1>1. FileEntry(e)
  BY DEF IInv, DirectoryOK
<1>2. CASE e.type = "inline"
  BY <1>2 DEF Reads
<1>3. CASE e.type # "inline"
  <2>1. e.type = "ctz"
    BY <1>1, <1>3 DEF FileEntry
  <2>2. data \in Contents
    BY Shapes DEF IInv
  <2>3. \A k \in 1 .. e.size :
          at(k) \in 1 .. Len(e.blocks) /\ e.blocks[at(k)] \in DataBlocks
    BY <1>1, <2>1, <2>2, ReadsIs
  <2>4. DOMAIN e.blocks = 1 .. Len(e.blocks)
    BY <1>1, LenProperties DEF FileEntry, Entry
  <2>5. ChainOf(e) \subseteq Tree
    BY DEF Tree
  <2> HIDE DEF e, at, in
  <2>6. \A k \in 1 .. e.size : e.blocks[at(k)] \in Tree
    BY <2>3, <2>4, <2>5 DEF ChainOf, ToSet
  <2>7. \A k \in 1 .. e.size : data'[e.blocks[at(k)]] = data[e.blocks[at(k)]]
    BY <2>3, <2>6, DataStep
  <2>8. Reads(data', e) = [k \in 1 .. e.size |-> data'[e.blocks[at(k)]][in(k)]]
    BY <1>3 DEF Reads, at, in
  <2>9. Reads(data, e) = [k \in 1 .. e.size |-> data[e.blocks[at(k)]][in(k)]]
    BY <1>3 DEF Reads, at, in
  <2>10. Reads(data', e) = Reads(data, e)
    BY <2>7, <2>8, <2>9
  <2> QED
    BY <2>10 DEF e
<1> QED
  BY <1>2, <1>3

LEMMA CacheStep ==
  ASSUME KInv, [Next]_vars
  PROVE  CacheKept'
<1>0. IInv /\ DirectoryOK /\ OpOK /\ FileOK /\ DataOK /\ WindowOK /\ NothingShared
      /\ NamesKept /\ CacheKept /\ LogOK
  BY DEF KInv, IInv
<1>00. /\ file.inline \in BOOLEAN /\ file.writing \in BOOLEAN /\ file.pos \in Nat
       /\ Len(file.cache) \in Nat /\ file.cache \in Seq(Words)
       /\ file.blocks \in Seq(DataBlocks) /\ file \in Files
  BY <1>0, LenProperties DEF FileOK, Files
\* The file and the flash stay, and no commit of a close begins.
<1>1. ASSUME data' = data,
             /\ file'.inline = file.inline /\ file'.writing = file.writing
             /\ file'.pos = file.pos /\ file'.cache = file.cache
             /\ file'.blocks = file.blocks /\ file'.entry = file.entry,
             op'.call = "close" /\ Committing' => op.call = "close" /\ Committing
      PROVE  CacheKept'
  BY <1>0, <1>1 DEF CacheKept
<1>2. CASE Commits_
  <2>1. op'.call = op.call /\ file' = file /\ data' = data
    BY <1>0, <1>2, CommitNames
  <2>2. Committing
    BY <1>2 DEF Commits_, Committing
  <2> QED
    BY <1>1, <2>1, <2>2
<1>3. CASE UNCHANGED <<data, file, op>>
  BY <1>1, <1>3 DEF Committing
<1>4. CASE Opens
  <2>1. PICK n \in DOMAIN Directory : file' = Opened(n, Directory[n])
    BY <1>4 DEF Opens
  <2> DEFINE e == Directory[n]
  <2>2. FileEntry(e)
    BY <1>0 DEF DirectoryOK
  <2>3. /\ file'.inline = (e.type = "inline") /\ file'.writing = FALSE /\ file'.pos = 0
        /\ file'.cache = e.units /\ file'.entry = e
    BY <2>1 DEF Opened, Closed
  <2> HIDE DEF e
  <2>4. e.type = "inline" => e.size = Len(e.units) /\ Len(e.units) \in Nat
    BY <2>2, LenProperties DEF FileEntry, Entry
  <2>5. file'.inline =>
          /\ file'.entry.type = "inline" /\ file'.entry.size <= Len(file'.cache)
          /\ \A k \in file'.pos + 1 .. Len(file'.cache) :
               k <= file'.entry.size /\ file'.cache[k] = file'.entry.units[k]
    <3>1. SUFFICES ASSUME e.type = "inline"
                   PROVE  /\ file'.entry.type = "inline" /\ file'.entry.size <= Len(file'.cache)
                          /\ \A k \in file'.pos + 1 .. Len(file'.cache) :
                               k <= file'.entry.size /\ file'.cache[k] = file'.entry.units[k]
      BY <2>3
    <3>2. e.size <= Len(e.units) /\ \A k \in 1 .. Len(e.units) : k <= e.size
      BY <2>4, <3>1
    <3>3. file'.pos + 1 = 1
      BY <2>3
    <3> QED
      BY <2>3, <3>1, <3>2, <3>3
  <2> QED
    BY <2>3, <2>5 DEF CacheKept
<1>5. CASE Starts
  <2>1. /\ op = Idle /\ file' = file /\ data' = data
        /\ op'.call = "close" => op'.at \in {"closed", "flush"}
    BY <1>5 DEF Starts
  <2> QED
    BY <1>1, <2>1 DEF Committing
<1>6. CASE GoesOn
  <2>1. PICK at \in {"erase", "compact", "alloc", "put"} :
          /\ op' = [op EXCEPT !.at = at]
          /\ op.at \in {"append", "erase"} <=> at \in {"erase", "compact"}
    BY <1>6 DEF GoesOn
  <2>2. op'.at = at /\ op'.call = op.call
    BY <1>0, <2>1, OpGoesOn
  <2> QED
    BY <1>1, <1>6, <2>1, <2>2 DEF GoesOn, Committing
<1>7. CASE Leaves
  <2>1. file'.writing = FALSE /\ file'.inline = FALSE /\ file'.pos = 0
    BY <1>7 DEF Leaves, Closed
  <2> QED
    BY <2>1 DEF CacheKept
<1>8. CASE NoSpace
  <2>1. /\ file' = [file EXCEPT !.erred = TRUE]
        /\ op' = Idle \/ op' = [op EXCEPT !.at = "closed"]
    BY <1>8 DEF NoSpace, Return, Goto
  <2>2. /\ file'.inline = file.inline /\ file'.writing = file.writing
        /\ file'.pos = file.pos /\ file'.cache = file.cache
        /\ file'.blocks = file.blocks /\ file'.entry = file.entry
    BY <1>00, <2>1 DEF Files
  <2>3. op'.call = "none" \/ op'.at = "closed"
    BY <1>0, <2>1, OpGoesOn DEF Idle
  <2>4. data' = data
    BY <1>8 DEF NoSpace, flash
  <2> QED
    BY <1>1, <2>2, <2>3, <2>4 DEF Committing
<1>9. CASE Take
  <2>1. /\ file'.writing /\ ~file'.inline
        /\ file'.cache = IF file.inline THEN SubSeq(file.cache, 1, file.pos) ELSE <<>>
        /\ op' = [op EXCEPT !.at = "put"]
    BY <1>0, <1>9, Taking
  <2>2. op'.at = "put"
    BY <1>0, <2>1, OpGoesOn
  <2>3. Len(file'.cache) # BlockUnits
    <3>1. CASE file.inline
      <4>1. file.pos <= Len(file.cache) /\ Len(file.cache) <= InlineMax
        BY <1>0, <3>1 DEF FileOK
      <4>2. \A i \in 1 .. file.pos : file.cache[i] \in Words
        BY <1>00, <4>1, ElementOfSeq
      <4>3. Len(SubSeq(file.cache, 1, file.pos))
              = IF 1 <= file.pos THEN file.pos - 1 + 1 ELSE 0
        BY <1>00, <4>2, SubSeqProperties
      <4>4. Len(SubSeq(file.cache, 1, file.pos)) = file.pos
        BY <1>00, <4>3
      <4>5. file.pos # BlockUnits
        BY <1>00, <4>1, Constants, LittleFsAssumption
      <4> QED
        BY <2>1, <3>1, <4>4, <4>5
    <3>2. CASE ~file.inline
      BY <2>1, <3>2, EmptySeq, Constants
    <3> QED
      BY <3>1, <3>2
  <2> QED
    BY <2>1, <2>2, <2>3 DEF CacheKept, Committing
<1>10. CASE Put
  <2>1. /\ Placed \in Seq(Words)
        /\ Len(Placed) = IF file.inline THEN MaxOf(file.pos + 1, Len(file.cache))
                         ELSE Len(file.cache) + 1
        /\ file'.writing /\ file'.inline = file.inline
        /\ file'.pos = file.pos + 1 /\ file'.entry = file.entry
        /\ file'.blocks = file.blocks /\ file'.cache = Placed
        /\ ~file.inline => file.writing
    BY <1>0, <1>10, PutStep
  <2>2. /\ op' = Idle \/ op' = [op EXCEPT !.at = "flush"]
        /\ data' = IF ~file.inline /\ Len(Placed) = BlockUnits
                   THEN [data EXCEPT ![Last(file.blocks)] = Filled(Placed)] ELSE data
    BY <1>10 DEF Put, Return, Goto
  <2>3. ~Committing'
    <3>1. op'.at \in {"idle", "flush"}
      BY <1>0, <2>2, OpGoesOn DEF Idle
    <3> QED
      BY <3>1 DEF Committing
  <2>4. ASSUME file.inline
        PROVE  /\ file.entry.type = "inline" /\ file.entry.size <= Len(Placed)
               /\ \A k \in file.pos + 1 + 1 .. Len(Placed) :
                    k <= file.entry.size /\ Placed[k] = file.entry.units[k]
    <3>1. /\ file.entry.type = "inline" /\ file.entry.size <= Len(file.cache)
          /\ \A k \in file.pos + 1 .. Len(file.cache) :
               k <= file.entry.size /\ file.cache[k] = file.entry.units[k]
      BY <1>0, <2>4 DEF CacheKept
    <3>2. Placed = Replacing(file.cache, file.pos, Unit)
      BY <2>4 DEF Placed, Replacing
    <3> HIDE DEF Placed
    <3>3. Unit \in Words /\ file.pos <= Len(file.cache)
      BY <1>0, <1>10, <2>4, UnitIsWord DEF Put, FileOK
    <3>4. \A k \in 1 .. Len(Placed) :
            Placed[k] = IF k = file.pos + 1 THEN Unit ELSE file.cache[k]
      BY <1>00, <3>2, <3>3, ReplacingIs
    <3>5. Len(Placed) = MaxOf(file.pos + 1, Len(file.cache)) /\ file.entry.size \in Nat
      BY <1>0, <2>1, <2>4 DEF FileOK, Files, Entry
    <3>6. file.entry.size <= Len(Placed)
      BY <1>00, <3>1, <3>5 DEF MaxOf
    <3>7. ASSUME NEW k \in file.pos + 1 + 1 .. Len(Placed)
          PROVE  k <= file.entry.size /\ Placed[k] = file.entry.units[k]
      <4>1. k \in 1 .. Len(Placed) /\ k # file.pos + 1 /\ k \in file.pos + 1 .. Len(file.cache)
        BY <1>00, <3>5 DEF MaxOf
      <4> QED
        BY <3>1, <3>4, <4>1
    <3> QED
      BY <3>1, <3>6, <3>7
  <2>5. ASSUME ~file.inline, Len(Placed) = BlockUnits
        PROVE  data'[Last(file.blocks)] = Filled(Placed)
    <3>1. Last(file.blocks) \in DataBlocks
      <4>1. Len(file.blocks) >= 1
        BY <1>0, <2>1, <2>5 DEF FileOK
      <4> QED
        BY <1>00, <4>1, LastIs
    <3> HIDE DEF Placed
    <3> QED
      BY <1>0, <2>1, <2>2, <2>5, <3>1, DataWritten
  <2> HIDE DEF Placed
  <2> QED
    BY <2>1, <2>3, <2>4, <2>5 DEF CacheKept
<1>11. CASE Flush
  <2>1. /\ file' = file /\ op.call = "close" /\ op.at = "flush"
        /\ data' = IF file.inline THEN data
                   ELSE [data EXCEPT ![Last(file.blocks)] = Filled(file.cache)]
    BY <1>11 DEF Flush, At
  <2>2. ~file.inline => data'[Last(file.blocks)] = Filled(file.cache)
    <3>1. SUFFICES ASSUME ~file.inline
                   PROVE  data'[Last(file.blocks)] = Filled(file.cache)
      OBVIOUS
    <3>2. file.writing
      BY <1>0, <2>1 DEF OpOK
    <3>3. Last(file.blocks) \in DataBlocks
      <4>1. Len(file.blocks) >= 1
        BY <1>0, <3>1, <3>2 DEF FileOK
      <4> QED
        BY <1>00, <4>1, LastIs
    <3> QED
      BY <1>0, <1>00, <2>1, <3>1, <3>3, DataWritten
  <2> QED
    BY <1>0, <2>1, <2>2 DEF CacheKept
<1>12. CASE Removed
  <2>1. /\ file' = [file EXCEPT !.gone = @ \/ (file.open /\ file.name = op.name)]
        /\ op' = Idle /\ data' = data
    BY <1>12 DEF Removed, Return, flash
  <2>2. /\ file'.inline = file.inline /\ file'.writing = file.writing
        /\ file'.pos = file.pos /\ file'.cache = file.cache
        /\ file'.blocks = file.blocks /\ file'.entry = file.entry
    BY <1>00, <2>1 DEF Files
  <2>3. op'.call = "none"
    BY <2>1 DEF Idle
  <2> QED
    BY <1>1, <2>1, <2>2, <2>3
<1> QED
  BY <1>0, <1>2, <1>3, <1>4, <1>5, <1>6, <1>7, <1>8, <1>9, <1>10, <1>11, <1>12, StepKinds

LEMMA CopyStep ==
  ASSUME KInv, [Next]_vars
  PROVE  CopyKept'
<1>0. IInv /\ OpOK /\ FileOK /\ FileOK' /\ DataOK /\ WindowOK /\ NothingShared
      /\ NamesKept /\ CacheKept /\ CopyKept /\ LogOK
  BY StepInv DEF KInv, IInv
<1>00. /\ file.inline \in BOOLEAN /\ file.writing \in BOOLEAN /\ file.pos \in Nat
       /\ op.pos \in Nat /\ file.entry.size \in Nat /\ file \in Files
  BY <1>0 DEF FileOK, Files, OpOK, Ops, Entry
<1>01. (Content(file.entry))' = Reads(data', file'.entry)
  BY DEF Content, Reads
<1>02. Content(file.entry) = Reads(data, file.entry)
  BY SameReads
<1>03. Live => Reads(data', file.entry) = Reads(data, file.entry)
  <2>1. Live => file.name \in DOMAIN Directory /\ Directory[file.name] = file.entry
    BY <1>0 DEF NamesKept, Live
  <2> QED
    BY <1>0, <2>1, ReadsKept
\* A step of the close that copies nothing.
<1>1. ASSUME op.call = "close",
             op'.pos = op.pos, Live' => Live,
             /\ file'.inline => file.inline
             /\ file'.pos = file.pos /\ file'.entry = file.entry,
             Live => \A k \in op.pos + 1 .. file.pos :
                       Piece(file', data', k) = Piece(file, data, k)
      PROVE  CopyKept'
  BY <1>0, <1>00, <1>01, <1>02, <1>03, <1>1 DEF CopyKept
<1>2. CASE op'.call # "close"
  BY <1>2 DEF CopyKept
<1>3. CASE Commits_
  <2>1. /\ op'.call = op.call /\ op'.at = "done" /\ op'.pos = op.pos
        /\ file' = file /\ data' = data
    BY <1>0, <1>3, CommitNames
  <2>2. op'.call = "close" => ~Live'
    BY <2>1 DEF Live, Leaving, At
  <2> QED
    BY <1>1, <1>2, <2>1, <2>2
<1>4. CASE UNCHANGED <<data, file, op>>
  <2>1. Live' => Live
    BY <1>4 DEF Live, Leaving, At
  <2> QED
    BY <1>1, <1>2, <1>4, <2>1
<1>5. CASE Opens \/ Leaves \/ Removed
  <2>1. op' = Idle
    BY <1>5 DEF Opens, Leaves, Removed, Return
  <2> QED
    BY <1>2, <2>1 DEF Idle
<1>6. CASE Starts
  <2>1. op'.call = "close" => op'.pos = file.pos /\ file' = file
    BY <1>6 DEF Starts
  <2> QED
    BY <1>00, <1>2, <2>1 DEF CopyKept
<1>7. CASE GoesOn
  <2>1. PICK at \in {"erase", "compact", "alloc", "put"} : op' = [op EXCEPT !.at = at]
    BY <1>7 DEF GoesOn
  <2>2. op'.at = at /\ op'.call = op.call /\ op'.pos = op.pos /\ op'.name = op.name
    BY <1>0, <2>1, OpGoesOn
  <2>3. file' = file /\ data' = data /\ op.at \in {"append", "erase", "put", "flush"}
    BY <1>7 DEF GoesOn
  <2>4. Live' => Live
    BY <2>2, <2>3 DEF Live, Leaving, At
  <2> QED
    BY <1>1, <1>2, <2>2, <2>3, <2>4
<1>8. CASE NoSpace
  <2>1. /\ op' = IF op.call = "write" THEN Idle ELSE [op EXCEPT !.at = "closed"]
        /\ file' = [file EXCEPT !.erred = TRUE]
    BY <1>8 DEF NoSpace, Return, Goto
  <2>2. /\ op' = [op EXCEPT !.at = "closed"] =>
             op'.at = "closed" /\ op'.call = op.call /\ op'.pos = op.pos
        /\ Idle.call # "close"
    BY <1>0, OpGoesOn DEF Idle
  <2>3. file'.inline = file.inline /\ file'.pos = file.pos /\ file'.entry = file.entry
    BY <1>00, <2>1 DEF Files
  <2>4. op'.call = "close" => ~Live' /\ op.call = "close" /\ op'.pos = op.pos
    BY <2>1, <2>2 DEF Live
  <2>5. /\ op'.call = "close" =>
             /\ op.pos <= file.pos
             /\ file.pos # op.pos => ~file.inline /\ file.pos <= file.entry.size
    BY <1>0, <2>4 DEF CopyKept
  <2> QED
    BY <2>3, <2>4, <2>5 DEF CopyKept
<1>9. CASE Take
  <2>1. /\ ~file'.inline /\ file'.pos = file.pos /\ file'.entry = file.entry
        /\ file'.open /\ file'.gone = file.gone /\ file'.name = file.name
        /\ op' = [op EXCEPT !.at = "put"] /\ op.at = "alloc"
    BY <1>0, <1>9, Taking DEF Take
  <2>2. op'.at = "put" /\ op'.call = op.call /\ op'.pos = op.pos /\ op'.name = op.name
    BY <1>0, <2>1, OpGoesOn
  <2>3. file.open
    BY <1>0, <2>1, Putting
  <2>4. Live' => Live
    BY <2>1, <2>2, <2>3 DEF Live, Leaving, At
  <2>5. \A k \in 1 .. file.pos : Piece(file', data', k) = Piece(file, data, k)
    BY <1>0, <1>9, PieceTaken
  <2>6. \A k \in op.pos + 1 .. file.pos : k \in 1 .. file.pos
    BY <1>00
  <2> QED
    BY <1>1, <1>2, <2>1, <2>2, <2>4, <2>5, <2>6
<1>10. CASE Put /\ op.call = "close"
  <2>1. /\ file'.inline = file.inline /\ file'.pos = file.pos + 1
        /\ file'.entry = file.entry /\ file'.name = file.name /\ file'.gone = file.gone
        /\ op' = [op EXCEPT !.at = "flush"] /\ op.at = "put"
    BY <1>0, <1>10, PutStep DEF Put, Goto
  <2>2. op'.at = "flush" /\ op'.call = op.call /\ op'.pos = op.pos /\ op'.name = op.name
    BY <1>0, <2>1, OpGoesOn
  <2>3. file.open /\ ~file.inline /\ file.pos < file.entry.size
    BY <1>0, <1>10, <2>1, Putting DEF Behind
  <2>4. Live' => Live
    BY <2>1, <2>2, <2>3 DEF Live, Leaving, At
  <2>5. op.pos <= file.pos
        /\ (Live => \A k \in op.pos + 1 .. file.pos :
                      Piece(file, data, k) = Reads(data, file.entry)[k])
    BY <1>0, <1>02, <1>10 DEF CopyKept
  <2>6. Unit = Reads(data, file.entry)[file.pos + 1]
    BY <1>02, <1>10 DEF Unit
  <2>7. \A k \in 1 .. file.pos + 1 :
          Piece(file', data', k) = IF k = file.pos + 1 THEN Unit ELSE Piece(file, data, k)
    BY <1>0, <1>10, PiecePut
  <2>8. ASSUME Live', NEW k \in op.pos + 1 .. file.pos + 1
        PROVE  Piece(file', data', k) = Reads(data', file.entry)[k]
    <3>1. k \in 1 .. file.pos + 1
          /\ (k # file.pos + 1 => k \in op.pos + 1 .. file.pos)
      BY <1>00
    <3> QED
      BY <1>03, <2>4, <2>5, <2>6, <2>7, <2>8, <3>1
  <2>9. op.pos <= file.pos + 1 /\ file.pos + 1 <= file.entry.size
    BY <1>00, <2>3, <2>5
  <2> QED
    BY <1>01, <2>1, <2>2, <2>3, <2>8, <2>9 DEF CopyKept
<1>11. CASE Put /\ op.call # "close"
  <2>1. op' = Idle \/ op' = [op EXCEPT !.at = "flush"]
    BY <1>11 DEF Put, Return, Goto
  <2>2. op'.call # "close"
    BY <1>0, <1>11, <2>1, OpGoesOn DEF Idle
  <2> QED
    BY <1>2, <2>2
<1>12. CASE Flush
  <2>1. /\ file' = file /\ op.call = "close" /\ op.at = "flush"
        /\ data' = IF file.inline THEN data
                   ELSE [data EXCEPT ![Last(file.blocks)] = Filled(file.cache)]
        /\ \/ op' = [op EXCEPT !.at = "closed"]
           \/ op' = [op EXCEPT !.at = "append", !.entries = Only(file.name, NewEntry)]
    BY <1>12 DEF Flush, At, Goto, StartCommit
  <2>2. /\ op'.at \in {"closed", "append"} /\ op'.pos = op.pos /\ op'.call = op.call
        /\ op'.name = op.name
    BY <1>0, <2>1 DEF OpOK, Ops
  <2>3. Live' => Live
    BY <2>1, <2>2 DEF Live, Leaving, At
  <2>4. file.writing
    BY <1>0, <2>1 DEF OpOK
  <2>5. \A k \in 1 .. file.pos : Piece(file', data', k) = Piece(file, data, k)
    BY <1>0, <2>1, <2>4, PieceFlushed
  <2>6. \A k \in op.pos + 1 .. file.pos : k \in 1 .. file.pos
    BY <1>00
  <2> QED
    BY <1>1, <2>1, <2>2, <2>3, <2>5, <2>6
<1> QED
  BY <1>0, <1>3, <1>4, <1>5, <1>6, <1>7, <1>8, <1>9, <1>10, <1>11, <1>12, StepKinds

LEMMA KeptStep == KInv /\ [Next]_vars => KInv'
<1> SUFFICES ASSUME KInv, [Next]_vars PROVE KInv'
  OBVIOUS
<1>1. IInv'
  BY StepInv DEF KInv
<1> QED
  BY <1>1, NamesStep, CacheStep, CopyStep DEF KInv

LEMMA InitKept == Init => KInv
<1> SUFFICES ASSUME Init PROVE KInv
  OBVIOUS
<1>1. /\ op.call = "none" /\ file.open = FALSE /\ file.writing = FALSE
      /\ file.inline = FALSE /\ file.pos = 0
  BY DEF Init, Idle, Closed
<1> QED
  BY <1>1, InitInv DEF KInv, NamesKept, CacheKept, CopyKept

LEMMA AlwaysKept == Spec => []KInv
BY InitKept, KeptStep, PTL DEF Spec

-----------------------------------------------------------------------------
(* The steps as FileStore sees them.                                       *)

\* What replaces the beginning of a file, unit by unit.
LEMMA OverIs ==
  ASSUME NEW s \in Seq(Words), NEW old \in Seq(Words)
  PROVE  /\ Store!Over(s, old) \in Seq(Words)
         /\ Len(Store!Over(s, old)) = MaxOf(Len(s), Len(old))
         /\ \A k \in 1 .. Len(Store!Over(s, old)) :
              Store!Over(s, old)[k] = IF k <= Len(s) THEN s[k] ELSE old[k]
<1> DEFINE a == Len(s)
           b == Len(old)
           t == SubSeq(old, a + 1, b)
<1>0. a \in Nat /\ b \in Nat
  BY LenProperties
<1>1. Store!Over(s, old) = s \o t
  BY DEF Store!Over
<1>2. \A k \in a + 1 .. b : old[k] \in Words
  <2>1. \A k \in a + 1 .. b : k \in 1 .. b
    BY <1>0
  <2> QED
    BY <2>1, ElementOfSeq
<1>3. /\ t \in Seq(Words)
      /\ Len(t) = (IF a + 1 <= b THEN b - (a + 1) + 1 ELSE 0)
      /\ \A k \in 1 .. b - (a + 1) + 1 : t[k] = old[a + 1 + k - 1]
  BY <1>0, <1>2, SubSeqProperties
<1> HIDE DEF t
<1>4. /\ s \o t \in Seq(Words) /\ Len(s \o t) = a + Len(t)
      /\ \A k \in 1 .. a + Len(t) : (s \o t)[k] = IF k <= a THEN s[k] ELSE t[k - a]
  BY <1>3, ConcatProperties
<1> HIDE DEF a, b
<1>5. a + Len(t) = MaxOf(a, b)
  BY <1>0, <1>3 DEF MaxOf
<1>6. ASSUME NEW k \in 1 .. a + Len(t), ~ (k <= a) PROVE t[k - a] = old[k]
  <2>1. k - a \in 1 .. b - (a + 1) + 1 /\ a + 1 + (k - a) - 1 = k
    BY <1>0, <1>3, <1>6
  <2> QED
    BY <1>3, <2>1
<1> QED
  BY <1>1, <1>4, <1>5, <1>6 DEF a, b

\* What a mount reads of a file that is being committed is what was written
\* over what there was.
LEMMA CloseWrites ==
  ASSUME KInv, op.call = "close", Committing, op.at # "done"
  PROVE  Reads(data, NewEntry)
           = Store!Over(SubSeq(Written(file, data), 1, op.pos), Reads(data, file.entry))
<1> DEFINE s == SubSeq(Written(file, data), 1, op.pos)
           old == Reads(data, file.entry)
           new == Reads(data, NewEntry)
           L == Len(file.cache)
<1>0. /\ Shape(file) /\ data \in Contents /\ file.writing /\ file.open
      /\ FileEntry(file.entry) /\ OpOK /\ FileOK /\ CacheKept /\ CopyKept /\ NamesKept
      /\ DataOK
  BY Shapes DEF KInv, IInv, OpOK, FileOK, Committing
<1>00. /\ file.pos \in Nat /\ op.pos \in Nat /\ file.entry.size \in Nat
       /\ file.inline \in BOOLEAN /\ file.cache \in Seq(Words) /\ L \in Nat
       /\ file.blocks \in Seq(DataBlocks) /\ file.entry.units \in Seq(Words)
  BY <1>0, LenProperties DEF Shape, Files, OpOK, Ops, FileEntry, Entry
<1>1. /\ ~file.gone /\ ~Behind /\ Live
  <2>1. ~file.gone /\ ~Behind
    BY <1>0 DEF NamesKept
  <2>2. op.at # "closed" /\ ~Leaving
    BY DEF Leaving, At, Committing
  <2> QED
    BY <1>0, <2>1, <2>2 DEF Live
<1>2. /\ op.pos <= file.pos
      /\ file.pos # op.pos => ~file.inline /\ file.pos <= file.entry.size
      /\ \A k \in op.pos + 1 .. file.pos : Piece(file, data, k) = old[k]
  BY <1>0, <1>1, SameReads DEF CopyKept
<1>3. s \in Seq(Words) /\ Len(s) = op.pos /\ \A k \in 1 .. op.pos : s[k] = Piece(file, data, k)
  BY <1>0, <1>00, <1>2, Handed
<1>4. old \in Seq(Words) /\ Len(old) = file.entry.size
  BY <1>0, ReadsIs
<1>5. new \in Seq(Words) /\ Len(new) = NewEntry.size /\ FileEntry(NewEntry)
  BY <1>0, NewEntryFits, ReadsIs
<1>6. /\ Len(new) = MaxOf(op.pos, file.entry.size)
      /\ \A k \in 1 .. Len(new) : new[k] = IF k <= op.pos THEN Piece(file, data, k) ELSE old[k]
  <2>1. CASE file.inline
    <3>1. new = file.cache /\ Len(new) = L
      BY <2>1 DEF Reads, NewEntry, Inline
    <3>2. op.pos = file.pos /\ file.pos <= L
      BY <1>0, <1>2, <2>1 DEF Shape
    <3>3. /\ file.entry.size <= L /\ old = file.entry.units
          /\ \A k \in file.pos + 1 .. L :
               k <= file.entry.size /\ file.cache[k] = file.entry.units[k]
      BY <1>0, <2>1 DEF CacheKept, Reads
    <3>4. \A k : Piece(file, data, k) = file.cache[k]
      BY <2>1 DEF Piece
    <3> HIDE DEF new, old, L
    <3>5. L = MaxOf(op.pos, file.entry.size)
      <4>1. L > file.pos => L \in file.pos + 1 .. L
        BY <1>00
      <4>2. L > file.pos => L <= file.entry.size
        BY <3>3, <4>1
      <4> QED
        BY <1>00, <3>2, <3>3, <4>2 DEF MaxOf
    <3>6. ASSUME NEW k \in 1 .. L
          PROVE  new[k] = IF k <= op.pos THEN Piece(file, data, k) ELSE old[k]
      <4>1. CASE k <= op.pos
        BY <3>1, <3>4, <4>1
      <4>2. CASE ~ (k <= op.pos)
        <5>1. k \in file.pos + 1 .. L
          BY <1>00, <3>2, <4>2
        <5> QED
          BY <3>1, <3>3, <4>2, <5>1
      <4> QED
        BY <4>1, <4>2
    <3> QED
      BY <3>1, <3>5, <3>6
  <2>2. CASE ~file.inline
    <3> DEFINE n == Len(file.blocks)
    <3>1. NewEntry.type = "ctz" /\ NewEntry.blocks = file.blocks /\ NewEntry.size = file.pos
      BY <2>2 DEF NewEntry, Ctz
    <3>2. file.entry.size <= file.pos
      BY <1>00, <1>1, <2>2 DEF Behind
    <3>3. file.pos = MaxOf(op.pos, file.entry.size)
      BY <1>00, <1>2, <3>2 DEF MaxOf
    <3>4. ASSUME NEW k \in 1 .. file.pos PROVE new[k] = Piece(file, data, k)
      <4> DEFINE q == (k - 1) \div BlockUnits
                 x == (k - 1) % BlockUnits
      <4>1. 1 + q \in 1 .. n /\ 1 + x \in 1 .. BlockUnits
            /\ new[k] = data[file.blocks[1 + q]][1 + x]
        BY <1>0, <1>5, <3>1, ReadsIs
      <4>2. /\ q \in Nat /\ x \in Nat /\ k \in Nat
            /\ q < n - 1 <=> k <= (n - 1) * BlockUnits
            /\ ~ (q < n - 1) => 1 + x = k - (n - 1) * BlockUnits
        <5>1. k \in Nat /\ 1 <= k /\ k <= file.pos /\ k <= file.pos + 1 /\ ~ (k = file.pos + 1)
          BY <1>00
        <5> QED
          BY <1>0, <2>2, <5>1, PlaceIs
      <4>3. n \in Nat /\ file.pos = (n - 1) * BlockUnits + L
        BY <1>0, <1>00, <2>2, LenProperties DEF Shape
      <4>4. CASE q < n - 1
        BY <2>2, <4>1, <4>4 DEF Piece
      <4>5. CASE ~ (q < n - 1)
        <5>1. Piece(file, data, k) = file.cache[1 + x]
          BY <2>2, <4>5 DEF Piece
        <5>2. 1 + q = n
          <6> HIDE DEF q, n
          <6> QED
            BY <4>1, <4>2, <4>3, <4>5
        <5>3. data[Last(file.blocks)] = Filled(file.cache)
          BY <1>0, <2>2 DEF CacheKept
        <5>4. file.blocks[1 + q] = Last(file.blocks)
          <6>1. Len(file.blocks) >= 1
            BY <1>0, <2>2 DEF Shape
          <6> QED
            BY <1>00, <5>2, <6>1, LastIs
        <5>5. 1 + x <= L
          <6> DEFINE m == (n - 1) * BlockUnits
          <6>1. 1 + x = k - m /\ file.pos = m + L
            BY <4>2, <4>3, <4>5
          <6>2. m \in Int
            BY <4>3, Constants
          <6> HIDE DEF m, x, n, L
          <6> QED
            BY <1>00, <6>1, <6>2
        <5>6. Filled(file.cache)[1 + x] = file.cache[1 + x]
          <6> HIDE DEF x
          <6> QED
            BY <1>00, <4>1, <5>5, FilledIs
        <5> QED
          BY <4>1, <5>1, <5>3, <5>4, <5>6
      <4> QED
        BY <4>4, <4>5
    <3> HIDE DEF new, old
    <3>5. ASSUME NEW k \in 1 .. file.pos
          PROVE  new[k] = IF k <= op.pos THEN Piece(file, data, k) ELSE old[k]
      <4>1. ~ (k <= op.pos) => k \in op.pos + 1 .. file.pos
        BY <1>00
      <4> QED
        BY <1>2, <3>4, <4>1
    <3> QED
      BY <1>5, <3>1, <3>3, <3>5
  <2> QED
    BY <1>00, <2>1, <2>2
<1> DEFINE over == Store!Over(s, old)
<1>7. /\ over \in Seq(Words) /\ Len(over) = MaxOf(Len(s), Len(old))
      /\ \A k \in 1 .. Len(over) : over[k] = IF k <= Len(s) THEN s[k] ELSE old[k]
  <2> HIDE DEF s, old
  <2> QED
    BY <1>3, <1>4, OverIs
<1> HIDE DEF s, old, new, over, L
<1>8. Len(new) = Len(over)
  BY <1>3, <1>4, <1>6, <1>7
<1>9. ASSUME NEW k \in 1 .. Len(new) PROVE new[k] = over[k]
  <2>1. CASE k <= op.pos
    <3>1. k \in 1 .. op.pos
      BY <1>00, <2>1
    <3> QED
      BY <1>3, <1>6, <1>7, <1>8, <2>1, <3>1
  <2>2. CASE ~ (k <= op.pos)
    BY <1>3, <1>6, <1>7, <1>8, <2>2
  <2> QED
    BY <2>1, <2>2
<1>10. new = over
  BY <1>5, <1>7, <1>8, <1>9, SeqEqual
<1> QED
  BY <1>10 DEF s, old, new, over

LEMMA InitDirectory == Init => Directory = NoEntries
<1> SUFFICES ASSUME Init PROVE Directory = NoEntries
  OBVIOUS
<1>0. meta = [b \in 0 .. 1 |-> Erased] /\ mdir = Fetch(meta)
  BY DEF Init
<1>1. Erased \in LogBlock /\ Valid(Erased) = 0
  <2>1. Blank \in Slot /\ Blank.kind # "commit"
    BY SlotTypes DEF Blank
  <2> QED
    BY <2>1, RestBlock DEF Erased
<1>2. Valid(meta[Current(meta)]) = 0
  BY <1>0, <1>1, CurrentIsOne
<1>3. SubSeq(meta[Current(meta)].slots, 1, 0) = <<>>
  BY SubSeqEmpty
<1>4. Said(meta) = NoEntries
  BY <1>2, <1>3, OneCommit DEF Said
<1> QED
  BY <1>0, <1>4, FetchFollows DEF Directory

LEMMA HandleIs ==
  /\ Handle = IF Live THEN {[name |-> file.name,
                             data |-> SubSeq(Written(file, data), 1, Limit)]} ELSE {}
  /\ Handle' = IF Live' THEN {[name |-> file'.name,
                               data |-> SubSeq(Written(file', data'), 1, Limit')]} ELSE {}
<1>1. /\ Handle = IF Live THEN {[name |-> file.name, data |-> SubSeq(WrittenUnits, 1, Limit)]}
                  ELSE {}
      /\ WrittenUnits = Written(file, data)
  BY SameReads
<1>2. Handle' = IF Live' THEN {[name |-> file'.name, data |-> SubSeq(WrittenUnits', 1, Limit')]}
                ELSE {}
  BY DEF Handle, Live, Leaving, Limit, At
<1>3. WrittenUnits' = Written(file', data')
  BY DEF WrittenUnits, Written, Content, Reads
<1> QED
  BY <1>1, <1>2, <1>3

LEMMA FoundIs ==
  /\ Found = [n \in DOMAIN Directory |-> Reads(data, Directory[n])]
  /\ Found' = [n \in DOMAIN Directory' |-> Reads(data', Directory'[n])]
BY DEF Found, Content, Reads

\* How much a handle has is never more than where the file is.
LEMMA LimitIs ==
  ASSUME KInv, KInv'
  PROVE  /\ Shape(file) /\ data \in Contents /\ Limit \in Nat /\ Limit <= file.pos
         /\ Shape(file') /\ data' \in Contents /\ Limit' \in Nat /\ Limit' <= file'.pos
         /\ file.writing \/ file.pos = 0
         /\ file'.writing \/ file'.pos = 0
<1>1. /\ Shape(file) /\ data \in Contents
      /\ Shape(file') /\ data' \in Contents
  BY Shapes DEF KInv, IInv
<1>2. /\ file.pos \in Nat /\ file'.pos \in Nat
  BY <1>1 DEF Shape, Files
<1>3. op.pos \in Nat /\ op'.pos \in Nat
  BY DEF KInv, IInv, OpOK, Ops
<1>4. Limit \in Nat /\ Limit <= file.pos
  BY <1>2, <1>3 DEF Limit, KInv, CopyKept
<1>5. Limit' \in Nat /\ Limit' <= file'.pos
  BY <1>2, <1>3 DEF Limit, KInv, CopyKept
<1>6. /\ file.writing \/ file.pos = 0
      /\ file'.writing \/ file'.pos = 0
  BY DEF KInv, CacheKept
<1> QED
  BY <1>1, <1>4, <1>5, <1>6

\* A step that leaves what a handle has, or ends it.
LEMMA HandleKept ==
  ASSUME KInv, KInv', Live' <=> Live,
         Live => /\ file'.name = file.name /\ Limit' = Limit
                 /\ \A k \in 1 .. Limit : Piece(file', data', k) = Piece(file, data, k)
  PROVE  Handle' = Handle
<1>1. CASE Live
  <2>1. SubSeq(Written(file', data'), 1, Limit) = SubSeq(Written(file, data), 1, Limit)
    <3> DEFINE p == Limit
    <3>1. p \in Nat /\ p <= file.pos /\ p <= file'.pos
      BY <1>1, LimitIs
    <3>2. \A k \in 1 .. p : Piece(file', data', k) = Piece(file, data, k)
      BY <1>1
    <3>3. /\ Shape(file) /\ data \in Contents /\ (file.writing \/ file.pos = 0)
          /\ Shape(file') /\ data' \in Contents /\ (file'.writing \/ file'.pos = 0)
      BY LimitIs
    <3> HIDE DEF p
    <3>4. SubSeq(Written(file', data'), 1, p) = SubSeq(Written(file, data), 1, p)
      BY ONLY <3>1, <3>2, <3>3, SameHanded
    <3> QED
      BY <3>4 DEF p
  <2> QED
    BY <1>1, <2>1, HandleIs
<1>2. CASE ~Live
  BY <1>2, HandleIs
<1> QED
  BY <1>1, <1>2

LEMMA FoundKept ==
  ASSUME KInv, [Next]_vars, Directory' = Directory
  PROVE  Found' = Found
<1>1. \A n \in DOMAIN Directory : Reads(data', Directory[n]) = Reads(data, Directory[n])
  BY ReadsKept DEF KInv
<1> HIDE DEF Directory
<1> QED
  BY <1>1, FoundIs

\* A file is opened, or a handle is lost.
LEMMA Aborted ==
  ASSUME Found' = Found, ~Live'
  PROVE  [Store!Next]_(Store!vars)
<1>1. Handle' = {}
  BY HandleIs
<1> QED
  BY <1>1 DEF Store!Next, Store!Abort, Store!vars

LEMMA Stuttered ==
  ASSUME Found' = Found, Handle' = Handle
  PROVE  [Store!Next]_(Store!vars)
BY DEF Store!vars

LEMMA OpensStore ==
  ASSUME KInv, [Next]_vars, Directory' = Directory, Opens
  PROVE  [Store!Next]_(Store!vars)
<1>1. PICK n \in DOMAIN Directory : file' = Opened(n, Directory[n])
  BY DEF Opens
<1>2. /\ file'.open = TRUE /\ file'.gone = FALSE /\ file'.name = n /\ file'.pos = 0
      /\ op'.call = "none" /\ op'.at = "idle"
  BY <1>1 DEF Opens, Opened, Closed, Idle
<1>3. Live' /\ Limit' = 0 /\ ~Live
  BY <1>2 DEF Live, Leaving, At, Limit, Opens
<1>4. SubSeq(Written(file', data'), 1, 0) = <<>>
  BY SubSeqEmpty
<1>5. Handle = {} /\ Handle' = {[name |-> n, data |-> <<>>]}
  BY <1>2, <1>3, <1>4, HandleIs
<1>6. n \in Names /\ n \in DOMAIN Found /\ Found' = Found
  BY FoundKept, FoundIs DEF KInv, IInv, DirectoryOK
<1>7. Store!Open(n)
  BY <1>5, <1>6 DEF Store!Open
<1> QED
  BY <1>6, <1>7 DEF Store!Next

\* A unit is written to the open file.
LEMMA PutStore ==
  ASSUME KInv, KInv', [Next]_vars, Directory' = Directory, Put, op.call = "write"
  PROVE  [Store!Next]_(Store!vars)
<1>0. /\ OpOK /\ FileOK /\ DataOK /\ NothingShared /\ CacheKept
      /\ op.unit \in Units /\ Found' = Found
  BY FoundKept DEF KInv, IInv, NamesKept
<1>1. /\ file'.open /\ file'.name = file.name /\ file'.gone = file.gone
      /\ file'.pos = file.pos + 1 /\ op' = Idle /\ op.at = "put" /\ file.open
  BY <1>0, PutStep, Putting DEF Put, Return
<1>2. Limit' = file.pos + 1 /\ Limit = file.pos /\ (Live' <=> Live)
  BY <1>1 DEF Limit, Live, Leaving, At, Idle
<1>3. CASE ~Live
  BY <1>0, <1>2, <1>3, Aborted
<1>4. CASE Live
  <2> DEFINE s == SubSeq(Written(file, data), 1, file.pos)
             t == SubSeq(Written(file', data'), 1, file.pos + 1)
             u == op.unit
  <2>1. Handle = {[name |-> file.name, data |-> s]}
        /\ Handle' = {[name |-> file.name, data |-> t]}
    BY <1>1, <1>2, <1>4, HandleIs
  <2>2. file.pos \in Nat
    BY LimitIs DEF Shape, Files
  <2>3. s \in Seq(Words) /\ Len(s) = file.pos
        /\ \A k \in 1 .. file.pos : s[k] = Piece(file, data, k)
    BY <2>2, LimitIs, Handed
  <2>4. t \in Seq(Words) /\ Len(t) = file.pos + 1
        /\ \A k \in 1 .. file.pos + 1 : t[k] = Piece(file', data', k)
    <3> DEFINE p == file.pos + 1
    <3>1. p \in Nat /\ p <= file'.pos
      BY <1>1, <2>2
    <3>2. /\ Shape(file') /\ data' \in Contents /\ (file'.writing \/ file'.pos = 0)
      BY LimitIs
    <3> HIDE DEF p
    <3>3. /\ SubSeq(Written(file', data'), 1, p) \in Seq(Words)
          /\ Len(SubSeq(Written(file', data'), 1, p)) = p
          /\ \A k \in 1 .. p : SubSeq(Written(file', data'), 1, p)[k] = Piece(file', data', k)
      BY ONLY <3>1, <3>2, Handed
    <3> QED
      BY <3>3 DEF p
  <2>5. \A k \in 1 .. file.pos + 1 :
          Piece(file', data', k) = IF k = file.pos + 1 THEN u ELSE Piece(file, data, k)
    <3>1. Unit = u
      BY DEF Unit
    <3> QED
      BY <1>0, <3>1, PiecePut
  <2>6. u \in Words
    BY <1>0 DEF Words
  <2> HIDE DEF s, t, u
  <2>7. /\ Append(s, u) \in Seq(Words) /\ Len(Append(s, u)) = file.pos + 1
        /\ \A k \in 1 .. file.pos + 1 :
             Append(s, u)[k] = IF k = file.pos + 1 THEN u ELSE s[k]
    BY <2>2, <2>3, <2>6
  <2>8. \A k \in 1 .. file.pos + 1 : t[k] = Append(s, u)[k]
    <3>1. \A k \in 1 .. file.pos + 1 : k # file.pos + 1 => k \in 1 .. file.pos
      BY <2>2
    <3> QED
      BY <2>3, <2>4, <2>5, <2>7, <3>1
  <2>9. t = Append(s, u)
    BY <2>4, <2>7, <2>8, SeqEqual
  <2>10. Store!Write(u)
    <3> DEFINE h == [name |-> file.name, data |-> s]
    <3>1. [h EXCEPT !.data = Append(@, u)] = [name |-> file.name, data |-> t]
      <4>1. \A x, y, z : [[name |-> x, data |-> y] EXCEPT !.data = Append(@, z)]
                            = [name |-> x, data |-> Append(y, z)]
        OBVIOUS
      <4> QED
        BY <2>9, <4>1
    <3>2. h \in Handle /\ Handle' = {[h EXCEPT !.data = Append(@, u)]}
      BY <2>1, <3>1
    <3> HIDE DEF h
    <3> QED
      BY <1>0, <3>2 DEF Store!Write
  <2> QED
    BY <1>0, <2>10 DEF Store!Next, u
<1> QED
  BY <1>3, <1>4

\* A commit creates, removes or replaces a file.
LEMMA CommitStore ==
  ASSUME KInv, [Next]_vars, Commits_
  PROVE  [Store!Next]_(Store!vars)
<1> DEFINE n == IF op.call = "close" THEN file.name ELSE op.name
           e == IF op.call = "close" THEN NewEntry
                ELSE IF op.call = "open" THEN Inline(<<>>) ELSE Deleted
<1>0. LogOK /\ OpOK /\ FileOK /\ NamesKept
  BY DEF KInv, IInv
<1>1. /\ op.call \in {"open", "remove", "close"} /\ op'.call = op.call
      /\ op'.at = "done" /\ op'.name = op.name /\ op'.pos = op.pos
      /\ file' = file /\ data' = data /\ n \in Names
      /\ op.call = "close" => file.open /\ file.writing
      /\ \A m : m \in DOMAIN Directory' <=>
           \/ m = n /\ op.call # "remove"
           \/ m # n /\ m \in DOMAIN Directory
      /\ \A m \in DOMAIN Directory' : Directory'[m] = IF m = n THEN e ELSE Directory[m]
  BY <1>0, CommitNames
<1>2. op.at \in {"append", "compact"} /\ op.at # "done" /\ Committing
  BY DEF Commits_, Committing
<1>3. /\ DOMAIN Found = DOMAIN Directory
      /\ \A m \in DOMAIN Found : Found[m] = Reads(data, Directory[m])
      /\ DOMAIN Found' = DOMAIN Directory'
      /\ \A m \in DOMAIN Found' : Found'[m] = Reads(data, IF m = n THEN e ELSE Directory[m])
      /\ Found' = [m \in DOMAIN Found' |-> Found'[m]]
      /\ Found = [m \in DOMAIN Found |-> Found[m]]
  <2> HIDE DEF Directory, n, e
  <2> QED
    BY <1>1, FoundIs
<1> HIDE DEF Directory, Found
<1>4. CASE op.call = "open"
  <2>1. n = op.name /\ e = Inline(<<>>) /\ n \notin DOMAIN Found
    BY <1>0, <1>2, <1>3, <1>4 DEF NamesKept
  <2>2. ~file.open
    BY <1>0, <1>4 DEF OpOK
  <2>3. Handle = {} /\ Handle' = {}
    BY <1>1, <2>2, HandleIs DEF Live
  <2>4. Reads(data, Inline(<<>>)) = <<>>
    BY DEF Reads, Inline
  <2> HIDE DEF n, e
  <2>5. DOMAIN Found' = DOMAIN Found \cup {n}
    BY <1>1, <1>3, <1>4
  <2>6. \A m \in DOMAIN Found' : Found'[m] = IF m = n THEN <<>> ELSE Found[m]
    BY <1>3, <2>1, <2>4, <2>5
  <2>7. Store!Create(n)
    BY <1>3, <2>1, <2>3, <2>5, <2>6 DEF Store!Create
  <2> QED
    BY <1>1, <2>7 DEF Store!Next
<1>5. CASE op.call = "remove"
  <2>1. n = op.name /\ n \in DOMAIN Found
    BY <1>0, <1>2, <1>3, <1>5 DEF NamesKept
  <2>2. Live' <=> Live /\ file.name # op.name
    BY <1>1, <1>2, <1>5 DEF Live, Leaving, At
  <2>3. Limit' = Limit
    BY <1>1, <1>5 DEF Limit
  <2>4. Handle' = {h \in Handle : h.name # n}
    <3>1. CASE Live
      <4> DEFINE h == [name |-> file.name, data |-> SubSeq(Written(file, data), 1, Limit)]
      <4>1. Handle = {h} /\ h.name = file.name
        BY <3>1, HandleIs
      <4>2. Handle' = IF file.name # op.name THEN {h} ELSE {}
        BY <1>1, <2>2, <2>3, <3>1, HandleIs
      <4> HIDE DEF h
      <4> QED
        BY <2>1, <4>1, <4>2
    <3>2. CASE ~Live
      BY <2>2, <3>2, HandleIs
    <3> QED
      BY <3>1, <3>2
  <2> HIDE DEF n, e
  <2>5. DOMAIN Found' = DOMAIN Found \ {n}
    BY <1>1, <1>3, <1>5
  <2>6. \A m \in DOMAIN Found' : Found'[m] = Found[m]
    BY <1>3, <2>5
  <2>7. Store!Remove(n)
    BY <1>3, <2>1, <2>4, <2>5, <2>6 DEF Store!Remove
  <2> QED
    BY <1>1, <2>7 DEF Store!Next
<1>6. CASE op.call = "close"
  <2>1. n = file.name /\ e = NewEntry
    BY <1>6
  <2>2. ~file.gone /\ Live /\ ~Live'
    <3>1. ~file.gone
      BY <1>0, <1>2, <1>6 DEF NamesKept
    <3> QED
      BY <1>1, <1>2, <1>6, <3>1 DEF Live, Leaving, At
  <2>3. file.name \in DOMAIN Directory /\ Directory[file.name] = file.entry
    BY <1>0, <2>2 DEF NamesKept, Live
  <2> DEFINE s == SubSeq(Written(file, data), 1, op.pos)
             h == [name |-> file.name, data |-> s]
  <2>4. Handle = {h} /\ Handle' = {} /\ h.name = file.name /\ h.data = s
    BY <1>6, <2>2, HandleIs DEF Limit
  <2>5. Reads(data, NewEntry) = Store!Over(s, Reads(data, file.entry))
    BY <1>2, <1>6, CloseWrites
  <2> HIDE DEF n, e, s, h
  <2>6. DOMAIN Found' = DOMAIN Found
    BY <1>1, <1>3, <1>6, <2>1, <2>3
  <2>7. \A m \in DOMAIN Found' :
          Found'[m] = IF m = h.name THEN Store!Over(h.data, Found[m]) ELSE Found[m]
    BY <1>3, <2>1, <2>3, <2>4, <2>5, <2>6
  <2>8. Found' = [Found EXCEPT ![h.name] = Store!Over(h.data, @)]
    BY <1>3, <2>6, <2>7
  <2>9. Store!Close
    BY <2>4, <2>8 DEF Store!Close
  <2> QED
    BY <2>9 DEF Store!Next
<1> QED
  BY <1>1, <1>4, <1>5, <1>6

LEMMA StoreStep ==
  ASSUME KInv, [Next]_vars
  PROVE  [Store!Next]_(Store!vars)
<1>0. /\ IInv /\ OpOK /\ FileOK /\ DataOK /\ WindowOK /\ NothingShared /\ NamesKept
      /\ CacheKept /\ LogOK /\ KInv'
  BY KeptStep DEF KInv, IInv
<1>00. /\ file \in Files /\ file.pos \in Nat /\ op.pos \in Nat
       /\ Limit \in Nat /\ Limit <= file.pos
  BY <1>0, LimitIs DEF FileOK, Files, OpOK, Ops
<1>1. CASE Commits_
  BY <1>1, CommitStore
<1>2. SUFFICES ASSUME Directory' = Directory
               PROVE  [Store!Next]_(Store!vars)
  BY <1>0, <1>1, StepKinds
<1>3. Found' = Found
  BY <1>2, FoundKept
\* A step that changes neither the file nor the flash, and does not leave.
<1>4. ASSUME file' = file, data' = data, Live' <=> Live, Live => Limit' = Limit
      PROVE  [Store!Next]_(Store!vars)
  BY <1>0, <1>3, <1>4, HandleKept, Stuttered
<1>5. CASE UNCHANGED <<data, file, op>>
  <2>1. (Live' <=> Live) /\ Limit' = Limit
    BY <1>5 DEF Live, Leaving, At, Limit
  <2> QED
    BY <1>4, <1>5, <2>1
<1>6. CASE Opens
  BY <1>2, <1>6, OpensStore
<1>7. CASE Starts
  <2>1. /\ op = Idle /\ file' = file /\ data' = data
        /\ \/ op'.call \in {"open", "remove", "write"} /\ op'.at \in {"append", "put"}
           \/ /\ op'.call = "close" /\ op'.pos = file.pos
              /\ op'.at \in {"closed", "flush"}
    BY <1>7 DEF Starts
  <2>2. (Live <=> file.open /\ ~file.gone) /\ Limit = file.pos
    BY <2>1 DEF Live, Leaving, At, Limit, Idle
  <2>3. CASE op'.at = "closed"
    BY <1>3, <2>3, Aborted DEF Live
  <2>4. CASE op'.at # "closed"
    <3>1. (Live' <=> Live) /\ Limit' = Limit
      BY <2>1, <2>2, <2>4 DEF Live, Leaving, At, Limit
    <3> QED
      BY <1>4, <2>1, <3>1
  <2> QED
    BY <2>3, <2>4
<1>8. CASE GoesOn
  <2>1. PICK at \in {"erase", "compact", "alloc", "put"} : op' = [op EXCEPT !.at = at]
    BY <1>8 DEF GoesOn
  <2>2. op'.at = at /\ op'.call = op.call /\ op'.pos = op.pos /\ op'.name = op.name
    BY <1>0, <2>1, OpGoesOn
  <2>3. file' = file /\ data' = data /\ op.at \in {"append", "erase", "put", "flush"}
    BY <1>8 DEF GoesOn
  <2>4. (Live' <=> Live) /\ Limit' = Limit
    BY <2>2, <2>3 DEF Live, Leaving, At, Limit
  <2> QED
    BY <1>4, <2>3, <2>4
<1>9. CASE Leaves
  <2>1. ~Live'
    BY <1>9 DEF Leaves, Live, Closed
  <2> QED
    BY <1>3, <2>1, Aborted
<1>10. CASE NoSpace
  <2>1. /\ op' = IF op.call = "write" THEN Idle ELSE [op EXCEPT !.at = "closed"]
        /\ file' = [file EXCEPT !.erred = TRUE] /\ data' = data /\ op.at = "alloc"
    BY <1>10 DEF NoSpace, Return, Goto, flash
  <2>2. CASE op.call = "write"
    <3>1. /\ file'.open = file.open /\ file'.gone = file.gone /\ file'.name = file.name
          /\ file'.pos = file.pos /\ file'.inline = file.inline
          /\ file'.cache = file.cache /\ file'.blocks = file.blocks
      BY <1>00, <2>1 DEF Files
    <3>2. op' = Idle
      BY <2>1, <2>2
    <3>3. (Live' <=> Live) /\ Limit' = Limit
      BY <2>1, <2>2, <3>1, <3>2 DEF Live, Leaving, At, Limit, Idle
    <3>4. \A k : Piece(file', data', k) = Piece(file, data, k)
      BY <2>1, <3>1 DEF Piece
    <3> QED
      BY <1>0, <1>3, <3>1, <3>3, <3>4, HandleKept, Stuttered
  <2>3. CASE op.call # "write"
    <3>1. op'.at = "closed"
      BY <1>0, <2>1, <2>3, OpGoesOn
    <3> QED
      BY <1>3, <3>1, Aborted DEF Live
  <2> QED
    BY <2>2, <2>3
<1>11. CASE Take
  <2>1. /\ file'.pos = file.pos /\ file'.open /\ file'.gone = file.gone
        /\ file'.name = file.name /\ op' = [op EXCEPT !.at = "put"] /\ op.at = "alloc"
    BY <1>0, <1>11, Taking DEF Take
  <2>2. op'.at = "put" /\ op'.call = op.call /\ op'.pos = op.pos /\ op'.name = op.name
    BY <1>0, <2>1, OpGoesOn
  <2>3. file.open
    BY <1>0, <2>1, Putting
  <2>4. (Live' <=> Live) /\ Limit' = Limit
    BY <2>1, <2>2, <2>3 DEF Live, Leaving, At, Limit
  <2>5. \A k \in 1 .. file.pos : Piece(file', data', k) = Piece(file, data, k)
    BY <1>0, <1>11, PieceTaken
  <2>6. \A k \in 1 .. Limit : k \in 1 .. file.pos
    BY <1>00
  <2> QED
    BY <1>0, <1>3, <2>1, <2>4, <2>5, <2>6, HandleKept, Stuttered
<1>12. CASE Put /\ op.call = "write"
  BY <1>0, <1>2, <1>12, PutStore
<1>13. CASE Put /\ op.call # "write"
  <2>1. /\ file'.name = file.name /\ file'.gone = file.gone /\ file'.open
        /\ op' = [op EXCEPT !.at = "flush"] /\ op.at = "put"
    BY <1>0, <1>13, PutStep DEF Put, Goto
  <2>2. op'.at = "flush" /\ op'.call = op.call /\ op'.pos = op.pos /\ op'.name = op.name
    BY <1>0, <2>1, OpGoesOn
  <2>3. op.call = "close" /\ file.open
    BY <1>0, <1>13, <2>1, Putting
  <2>4. (Live' <=> Live) /\ Limit' = Limit
    BY <2>1, <2>2, <2>3 DEF Live, Leaving, At, Limit
  <2>5. \A k \in 1 .. file.pos + 1 :
          Piece(file', data', k) = IF k = file.pos + 1 THEN Unit ELSE Piece(file, data, k)
    BY <1>0, <1>13, PiecePut
  <2>6. \A k \in 1 .. Limit : k \in 1 .. file.pos + 1 /\ k # file.pos + 1
    BY <1>00
  <2> QED
    BY <1>0, <1>3, <2>1, <2>4, <2>5, <2>6, HandleKept, Stuttered
<1>14. CASE Flush
  <2>1. /\ file' = file /\ op.call = "close" /\ op.at = "flush"
        /\ data' = IF file.inline THEN data
                   ELSE [data EXCEPT ![Last(file.blocks)] = Filled(file.cache)]
        /\ \/ op' = [op EXCEPT !.at = "closed"]
           \/ op' = [op EXCEPT !.at = "append", !.entries = Only(file.name, NewEntry)]
    BY <1>14 DEF Flush, At, Goto, StartCommit
  <2>2. /\ op'.at \in {"closed", "append"} /\ op'.pos = op.pos /\ op'.call = op.call
        /\ op'.name = op.name
    BY <1>0, <2>1 DEF OpOK, Ops
  <2>3. CASE op'.at = "closed"
    BY <1>3, <2>3, Aborted DEF Live
  <2>4. CASE op'.at = "append"
    <3>1. (Live' <=> Live) /\ Limit' = Limit
      BY <2>1, <2>2, <2>4 DEF Live, Leaving, At, Limit
    <3>2. file.writing
      BY <1>0, <2>1 DEF OpOK
    <3>3. \A k \in 1 .. file.pos : Piece(file', data', k) = Piece(file, data, k)
      BY <1>0, <2>1, <3>2, PieceFlushed
    <3>4. \A k \in 1 .. Limit : k \in 1 .. file.pos
      BY <1>00
    <3> QED
      BY <1>0, <1>3, <2>1, <3>1, <3>3, <3>4, HandleKept, Stuttered
  <2> QED
    BY <2>2, <2>3, <2>4
<1>15. CASE Removed
  <2>1. /\ op' = Idle /\ op.call = "remove" /\ op.at = "done" /\ data' = data
        /\ file' = [file EXCEPT !.gone = @ \/ (file.open /\ file.name = op.name)]
    BY <1>15 DEF Removed, At, Return, flash
  <2>2. /\ file'.open = file.open /\ file'.name = file.name
        /\ file'.pos = file.pos /\ file'.inline = file.inline
        /\ file'.cache = file.cache /\ file'.blocks = file.blocks
        /\ file'.gone <=> file.gone \/ (file.open /\ file.name = op.name)
    BY <1>00, <2>1 DEF Files
  <2>3. (Live' <=> Live) /\ Limit' = Limit
    BY <2>1, <2>2 DEF Live, Leaving, At, Limit, Idle
  <2>4. \A k : Piece(file', data', k) = Piece(file, data, k)
    BY <2>1, <2>2 DEF Piece
  <2> QED
    BY <1>0, <1>3, <2>2, <2>3, <2>4, HandleKept, Stuttered
<1> QED
  BY <1>0, <1>1, <1>2, <1>5, <1>6, <1>7, <1>8, <1>9, <1>10, <1>11, <1>12, <1>13, <1>14,
     <1>15, StepKinds

LEMMA InitStore == Init => Store!Init
<1> SUFFICES ASSUME Init PROVE Store!Init
  OBVIOUS
<1>1. ~Live
  BY DEF Init, Live, Closed
<1>2. Handle = {}
  BY <1>1, HandleIs
<1>3. DOMAIN Directory = {}
  BY InitDirectory DEF NoEntries
<1>4. Found = [n \in {} |-> <<>>]
  BY <1>3, FoundIs
<1> QED
  BY <1>2, <1>4 DEF Store!Init, Store!Absent

\* littlefs keeps what it promises, over any flash and any number of power
\* cuts: a file changes as a whole when it is closed, a write that fails or is
\* cut off leaves it, and what a mount finds is what was closed last.
THEOREM FilesAreKept == Spec => ImplementsFileStore
<1>1. KInv /\ [Next]_vars => [Store!Next]_(Store!vars)
  BY StoreStep
<1> QED
  BY <1>1, InitStore, AlwaysKept, PTL DEF Spec, ImplementsFileStore, Store!Spec

=============================================================================
