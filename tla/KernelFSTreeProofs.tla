------------------------- MODULE KernelFSTreeProofs -------------------------
(***************************************************************************)
(* Proofs about the tree of names that KernelFS keeps: names lead to         *)
(* allocated inodes, every inode has one name and its own blocks, the cache *)
(* agrees with the disk, and freeing visits an inode once.                  *)
(*                                                                         *)
(* The invariant says that there is a set S of inodes around which all is    *)
(* well, rather than which set it is: S starts with the root, takes in an    *)
(* inode when its name is written, loses one when freeInodeTree has listed   *)
(* its children, and keeps those that an error or a death has cut off.       *)
(* What a path leads to is part of it.                                      *)
(***************************************************************************)
EXTENDS KernelFSProofs

-----------------------------------------------------------------------------
(* The invariant. *)

\* The inode and the name in slot k of directory d.
Inum(d, k) == SlotsOf(d)[k].inum

Dots == {".", ".."}

DirsOf(S) == {d \in S : itable[d].fType = "dir"}

\* S is allocated and holds the root and whatever its directories list.
Live(S) ==
    /\ ROOT \in S /\ S \subseteq inodeBitmap
    /\ \A i \in S : itable[i].fType \in {"reg", "dir"}

Closed(S) == \A d \in DirsOf(S) : \A k \in Children(d) : Inum(d, k) \in S \ {ROOT}

\* No two entries of S lead to one inode.
Once(S) ==
    \A d, e \in DirsOf(S) : \A j \in Children(d), k \in Children(e) :
        Inum(d, j) = Inum(e, k) => d = e /\ j = k

Unique(S) ==
    ~blind => \A d \in DirsOf(S) : \A j, k \in Children(d) :
                 SlotsOf(d)[j].name = SlotsOf(d)[k].name => j = k

\* The blocks of S are marked, and each has one place in one inode.
Owned(S) ==
    \A i, j \in S : \A k \in DOMAIN Current(i).blocks, l \in DOMAIN Current(j).blocks :
        /\ Current(i).blocks[k] \in dataBitmap
        /\ Current(i).blocks[k] = Current(j).blocks[l] => i = j /\ k = l

\* The inodes that are still to be written back.
Saving == {todo[k].inum : k \in {l \in DOMAIN todo : todo[l].op = "writeInode"}}

Begins(s, t) == Len(s) <= Len(t) /\ \A k \in 1 .. Len(s) : s[k] = t[k]

\* What the cached inode c has to do with the inode n on disk.
Follows(c, n, saving) ==
    /\ c.fType = n.fType /\ c.owner = n.owner
    /\ ~saving => c.ownerMode = n.ownerMode /\ c.otherMode = n.otherMode
    /\ n.fType = "dir" => Begins(c.blocks, n.blocks)
    /\ n.fType = "reg" => \/ c.blocks = n.blocks
                          \/ saving /\ (Begins(c.blocks, n.blocks) \/ Begins(n.blocks, c.blocks))

Agree(S) == \A i \in S \cap DOMAIN inodeCache : Follows(inodeCache[i], itable[i], i \in Saving)

Tree(S) == Live(S) /\ Closed(S) /\ Once(S) /\ Unique(S) /\ Owned(S) /\ Agree(S)

NewName(d, nm) == nm \notin Dots /\ (~blind => \A k \in Children(d) : SlotsOf(d)[k].name # nm)

\* An inode that makeInode has written and nobody has seen.
Blank(i) == itable[i].blocks = <<>> /\ itable[i].fType \in {"reg", "dir"} /\ i \notin DOMAIN inodeCache

\* A link that is about to be made: of a new inode, or of . or ...
LinkOK(S, t) ==
    /\ t.dir \in DirsOf(S)
    /\ \/ t.name \in Dots
       \/ NewName(t.dir, t.name) /\ t.inum \in inodeBitmap \ S /\ Blank(t.inum)

\* The inode which the writes behind a link are about.
Subject(t) == IF t.name \in Dots THEN t.dir ELSE t.inum

\* From position n on, inode i of type ty gets its . and .., or its text.
Behind(n, i, ty) ==
    \A k \in n .. Len(todo) :
        \/ ty = "dir" /\ todo[k].op = "addDentry" /\ todo[k].dir = i /\ todo[k].name \in Dots
        \/ ty = "reg" /\ todo[k].op = "Falloc" /\ todo[k].inum = i /\ k = Len(todo)

Allocating(S) ==
    LET t == todo[1]
    IN  /\ Len(todo) = 1 /\ t.op = "AllocInode"
        /\ t.dir \in DirsOf(S) /\ NewName(t.dir, t.name) /\ (t.len >= 0 => t.fType = "reg")

Initialising(S) ==
    LET t == todo[1]
    IN  /\ Len(todo) >= 2 /\ t.op = "initInode" /\ t.inum \in inodeBitmap \ S
        /\ todo[2].op = "addDentry" /\ todo[2].inum = t.inum
        /\ todo[2].dir \in DirsOf(S) /\ NewName(todo[2].dir, todo[2].name)
        /\ Behind(3, t.inum, t.fType)

Linking(S) ==
    LET t == todo[1]
    IN  /\ Len(todo) >= 1 /\ t.op \in {"addDentry", "retry"} /\ LinkOK(S, t)
        /\ Behind(2, Subject(t), itable[Subject(t)].fType)

Growing(S) ==
    LET t == todo[1]
        bs == itable[t.dir].blocks
        b  == t.blocks[Len(bs) + 1]
    IN  /\ Len(todo) >= 2 /\ t.op = "saveDir"
        /\ todo[2].op = "retry" /\ todo[2].dir = t.dir /\ LinkOK(S, todo[2])
        /\ Behind(3, Subject(todo[2]), itable[Subject(todo[2])].fType)
        /\ Len(t.blocks) = Len(bs) + 1 /\ Begins(bs, t.blocks)
        /\ b \in dataBitmap /\ ~ListsOld(b)
        /\ \A i \in S : \A k \in DOMAIN Current(i).blocks : Current(i).blocks[k] # b

Truncating(S) ==
    Len(todo) = 1 /\ todo[1].op = "Falloc" /\ todo[1].inum \in S /\ itable[todo[1].inum].fType = "reg"

Writing(S) ==
    LET i == todo[1].inum
    IN  /\ Len(todo) >= 1 /\ todo[1].op \in {"writeDataBlock", "writeInode"}
        /\ i \in S \cap DOMAIN inodeCache
        /\ \A k \in DOMAIN todo :
              /\ todo[k].inum = i
              /\ IF k = Len(todo) THEN todo[k].op = "writeInode"
                 ELSE /\ todo[k].op = "writeDataBlock" /\ itable[i].fType = "reg"
                      /\ todo[k].at \in DOMAIN inodeCache[i].blocks

Unlinking(S) ==
    LET d == todo[1].dir
        k == Find(d, todo[1].name)
    IN  /\ Len(todo) = 2 /\ todo[1].op = "removeDentry" /\ todo[2].op = "freeInodeTree"
        /\ d \in DirsOf(S) /\ k \in Children(d) /\ todo[2].inum = Inum(d, k)

Unlisted(S, i) == i # ROOT /\ \A d \in DirsOf(S) : \A k \in Children(d) : Inum(d, k) # i

FreeOK(S, t) ==
    \/ t.op = "freeInodeTree" /\ t.inum \in S /\ Unlisted(S, t.inum)
    \/ t.op = "FreeInodeFromBitmap" /\ t.inum \in inodeBitmap \ S
    \/ /\ t.op = "freeBlocks" /\ t.inum \in inodeBitmap \ S
       /\ \A i \in S : \A k \in DOMAIN Current(i).blocks : Current(i).blocks[k] \notin ToSet(GetInode(t.inum).blocks)

\* Also the form of no program at all.
Emptying(S) ==
    \A k \in DOMAIN todo : /\ FreeOK(S, todo[k])
                           /\ \A l \in DOMAIN todo : todo[l].inum = todo[k].inum => k = l

Program(S) ==
    \/ Allocating(S) \/ Initialising(S) \/ Linking(S) \/ Growing(S) \/ Truncating(S)
    \/ Writing(S) \/ Unlinking(S) \/ Emptying(S)

Sound == \E S \in SUBSET Inums : Tree(S) /\ Program(S)

IInv == Sane => Sound

-----------------------------------------------------------------------------
(* Slots and blocks. *)

\* Where slot k of a directory is: in which of its blocks, and where there.
Row(k) == ((k - 1) \div EPB) + 1
Col(k) == ((k - 1) % EPB) + 1

\* The positions of the slots in blocks bs.
Spots(bs) == 1 .. (Len(bs) * EPB)

\* The slots in blocks bs, when B are the contents of the blocks.
SlotsIn(bs, B) == [k \in Spots(bs) |-> B[bs[Row(k)]][Col(k)]]

LEMMA SlotsAre ==
    ASSUME NEW d
    PROVE  /\ SlotsOf(d) = SlotsIn(itable[d].blocks, blk)
           /\ SlotsOf(d)' = SlotsIn(itable'[d].blocks, blk')
BY Zenon DEF SlotsOf, SlotsIn, Spots, Row, Col

LEMMA Places ==
    ASSUME NEW n \in Nat
    PROVE  /\ n * EPB \in Nat
           /\ \A k \in 1 .. (n * EPB) : Row(k) \in 1 .. n /\ Col(k) \in 1 .. EPB
           /\ \A k, l \in 1 .. (n * EPB) : Row(k) = Row(l) /\ Col(k) = Col(l) => k = l
<1>1. n * EPB \in Nat /\ EPB \in Nat
  BY Constants
<1>2. ASSUME NEW k \in 1 .. (n * EPB)
      PROVE  Row(k) \in 1 .. n /\ Col(k) \in 1 .. EPB /\ k = (Row(k) - 1) * EPB + Col(k)
  <2>1. ((k - 1) \div EPB) + 1 \in 1 .. n /\ ((k - 1) % EPB) + 1 \in 1 .. EPB
        /\ k = ((k - 1) \div EPB) * EPB + ((k - 1) % EPB) + 1
    BY SlotPlace
  <2> DEFINE q == (k - 1) \div EPB
             r == (k - 1) % EPB
  <2>2. q + 1 \in 1 .. n /\ r + 1 \in 1 .. EPB /\ k = q * EPB + r + 1 /\ Row(k) = q + 1 /\ Col(k) = r + 1
    BY <2>1 DEF Row, Col
  <2>3. q \in Int /\ r \in Int
    BY <1>1, Constants
  <2> HIDE DEF q, r
  <2>4. q * EPB \in Int
    BY <1>1, <2>3
  <2>5. Row(k) - 1 = q /\ q * EPB + Col(k) = q * EPB + r + 1
    BY <2>2, <2>3, <2>4
  <2>6. (Row(k) - 1) * EPB + Col(k) = k
    BY <2>2, <2>5
  <2> QED
    BY <2>2, <2>6
<1> QED
  BY <1>1, <1>2

\* Blocks with the same contents have the same slots.
LEMMA SameSlots ==
    ASSUME NEW bs \in Seq(Blocks), NEW B, NEW C, \A k \in 1 .. Len(bs) : C[bs[k]] = B[bs[k]]
    PROVE  SlotsIn(bs, C) = SlotsIn(bs, B)
<1>1. Len(bs) \in Nat
  OBVIOUS
<1>2. \A k \in 1 .. (Len(bs) * EPB) : Row(k) \in 1 .. Len(bs)
  BY <1>1, Places
<1>3. \A k \in 1 .. (Len(bs) * EPB) : C[bs[Row(k)]][Col(k)] = B[bs[Row(k)]][Col(k)]
  BY <1>2
<1> QED
  BY <1>3 DEF SlotsIn, Spots

\* The blocks of a list are different.
Apart(bs) == \A k, l \in 1 .. Len(bs) : bs[k] = bs[l] => k = l

\* C is B with slot c of block b rewritten to e.
Rewrites(C, B, b, c, e) ==
    /\ C[b][c] = e
    /\ \A x \in Blocks : x # b => C[x] = B[x]
    /\ \A y \in 1 .. EPB : y # c => C[b][y] = B[b][y]

\* From B to C slot m of the blocks bs has become e, and no other has changed.
OnlySlot(bs, B, C, m, e) ==
    /\ SlotsIn(bs, C)[m] = e
    /\ \A k \in Spots(bs) : k # m => SlotsIn(bs, C)[k] = SlotsIn(bs, B)[k]

\* Rewriting a slot rewrites that slot and no other.
LEMMA OneSlot ==
    ASSUME NEW bs \in Seq(Blocks), NEW B, NEW C, NEW e, NEW m \in Spots(bs), NEW b, NEW c,
           b = bs[Row(m)], c = Col(m), Apart(bs), Rewrites(C, B, b, c, e)
    PROVE  OnlySlot(bs, B, C, m, e)
<1>1. Len(bs) \in Nat
  OBVIOUS
<1>2. /\ \A k \in Spots(bs) : Row(k) \in 1 .. Len(bs) /\ Col(k) \in 1 .. EPB
      /\ \A k, l \in Spots(bs) : Row(k) = Row(l) /\ Col(k) = Col(l) => k = l
  BY <1>1, Places DEF Spots
<1>3. ASSUME NEW k \in Spots(bs)
      PROVE  C[bs[Row(k)]][Col(k)] = IF k = m THEN e ELSE B[bs[Row(k)]][Col(k)]
  <2>1. Row(k) \in 1 .. Len(bs) /\ Col(k) \in 1 .. EPB /\ bs[Row(k)] \in Blocks /\ Row(m) \in 1 .. Len(bs)
    BY <1>2
  <2>2. CASE bs[Row(k)] # bs[Row(m)]
    BY <2>1, <2>2 DEF Rewrites
  <2>3. CASE bs[Row(k)] = bs[Row(m)]
    <3>1. Row(k) = Row(m)
      BY <2>1, <2>3 DEF Apart
    <3>2. Col(k) = Col(m) <=> k = m
      BY <1>2, <3>1
    <3> QED
      BY <2>1, <3>1, <3>2 DEF Rewrites
  <2> QED
    BY <2>2, <2>3
<1> QED
  BY <1>3 DEF SlotsIn, OnlySlot

\* The slots of blocks cs begin with those of bs.
Extends(cs, bs, B) ==
    /\ Spots(bs) \subseteq Spots(cs)
    /\ \A k \in Spots(bs) : SlotsIn(cs, B)[k] = SlotsIn(bs, B)[k]
    /\ \A k \in Spots(cs) : Row(k) <= Len(bs) => k \in Spots(bs)

\* The slots of a longer list of blocks begin with those of a shorter one.
LEMMA LongerSlots ==
    ASSUME NEW bs \in Seq(Blocks), NEW cs \in Seq(Blocks), NEW B, Begins(bs, cs)
    PROVE  Extends(cs, bs, B)
<1>1. Len(bs) \in Nat /\ Len(cs) \in Nat /\ Len(bs) <= Len(cs) /\ EPB \in Nat /\ EPB >= 2
  BY Constants DEF Begins
<1>2. Len(bs) * EPB <= Len(cs) * EPB /\ Len(bs) * EPB \in Nat /\ Len(cs) * EPB \in Nat
  BY <1>1
<1>3. \A k \in 1 .. (Len(bs) * EPB) : Row(k) \in 1 .. Len(bs)
  BY <1>1, Places
<1>4. \A k \in 1 .. (Len(bs) * EPB) : bs[Row(k)] = cs[Row(k)]
  BY <1>3 DEF Begins
<1>5. ASSUME NEW k \in 1 .. (Len(cs) * EPB), Row(k) <= Len(bs) PROVE k \in 1 .. (Len(bs) * EPB)
  <2> DEFINE q == (k - 1) \div EPB
             r == (k - 1) % EPB
  <2>1. k = q * EPB + r + 1 /\ q + 1 = Row(k) /\ r + 1 \in 1 .. EPB /\ q \in Int /\ r \in Int /\ q + 1 \in 1 .. Len(cs)
    BY <1>1, SlotPlace DEF Row
  <2> HIDE DEF q, r
  <2>2. (q + 1) * EPB <= Len(bs) * EPB
    BY <1>1, <1>5, <2>1
  <2>3. (q + 1) * EPB = q * EPB + EPB
    BY <1>1, <2>1
  <2>4. q * EPB \in Int
    BY <1>1, <2>1
  <2> QED
    BY <1>1, <1>2, <2>1, <2>2, <2>3, <2>4
<1>6. 1 .. (Len(bs) * EPB) \subseteq 1 .. (Len(cs) * EPB)
  BY <1>2
<1> QED
  BY <1>4, <1>5, <1>6 DEF SlotsIn, Spots, Extends

LEMMA BeginsOn ==
    ASSUME NEW r \in Seq(Blocks), NEW s \in Seq(Blocks), NEW t \in Seq(Blocks), Begins(r, s), Begins(s, t)
    PROVE  Begins(r, t)
<1>1. Len(r) \in Nat /\ Len(s) \in Nat /\ Len(t) \in Nat /\ Len(r) <= Len(s) /\ Len(s) <= Len(t)
  BY DEF Begins
<1>2. \A k \in 1 .. Len(r) : k \in 1 .. Len(s) /\ r[k] = s[k] /\ s[k] = t[k]
  BY <1>1 DEF Begins
<1> QED
  BY <1>1, <1>2 DEF Begins


-----------------------------------------------------------------------------
(* What typing gives, in a form that can be used of the next state, too. *)

NodesFine ==
    \A i \in Inums :
        /\ itable[i] \in Node /\ GetInode(i) \in Node /\ Current(i) \in Node
        /\ Current(i).blocks \in Seq(Blocks) /\ DOMAIN Current(i).blocks = 1 .. Len(Current(i).blocks)
        /\ GetInode(i).blocks \in Seq(Blocks) /\ DOMAIN GetInode(i).blocks = 1 .. Len(GetInode(i).blocks)
        /\ itable[i].blocks \in Seq(Blocks) /\ DOMAIN itable[i].blocks = 1 .. Len(itable[i].blocks)

SlotsFine ==
    \A d \in Inums :
        /\ DOMAIN SlotsOf(d) = 1 .. (Len(itable[d].blocks) * EPB)
        /\ \A k \in DOMAIN SlotsOf(d) : SlotsOf(d)[k] \in Entry
        /\ Children(d) \subseteq DOMAIN SlotsOf(d)

LEMMA TypedNodes == Typed => NodesFine
<1> SUFFICES ASSUME Typed, NEW i \in Inums
             PROVE  /\ itable[i] \in Node /\ GetInode(i) \in Node /\ Current(i) \in Node
                    /\ Current(i).blocks \in Seq(Blocks) /\ DOMAIN Current(i).blocks = 1 .. Len(Current(i).blocks)
                    /\ GetInode(i).blocks \in Seq(Blocks) /\ DOMAIN GetInode(i).blocks = 1 .. Len(GetInode(i).blocks)
                    /\ itable[i].blocks \in Seq(Blocks) /\ DOMAIN itable[i].blocks = 1 .. Len(itable[i].blocks)
  BY DEF NodesFine
<1>1. itable[i] \in Node /\ GetInode(i) \in Node
  BY CachedTyped DEF Typed
<1>2. Current(i) \in Node
  BY <1>1 DEF Current
<1>3. Current(i).blocks \in Seq(Blocks) /\ GetInode(i).blocks \in Seq(Blocks) /\ itable[i].blocks \in Seq(Blocks)
  BY <1>1, <1>2, NodeIs
<1>4. \A s \in Seq(Blocks) : DOMAIN s = 1 .. Len(s)
  OBVIOUS
<1> QED
  BY <1>1, <1>2, <1>3, <1>4

LEMMA TypedSlots == Typed => SlotsFine
BY SlotsTyped DEF SlotsFine

LEMMA TypedNext == Typed' => NodesFine' /\ SlotsFine'
BY TypedNodes, TypedSlots, PTL

-----------------------------------------------------------------------------
(* The program and its first write. *)

\* The first write tells which kind of program it is.
LEMMA Forms ==
    ASSUME Typed, NEW S, Program(S), NEW op, Now(op)
    PROVE  /\ op = "AllocInode" => Allocating(S)
           /\ op = "initInode" => Initialising(S)
           /\ op \in {"addDentry", "retry"} => Linking(S)
           /\ op = "saveDir" => Growing(S)
           /\ op = "Falloc" => Truncating(S)
           /\ op \in {"writeDataBlock", "writeInode"} => Writing(S)
           /\ op = "removeDentry" => Unlinking(S)
           /\ op \in {"freeInodeTree", "freeBlocks", "FreeInodeFromBitmap"} => Emptying(S)
<1>1. todo[1].op = op /\ 1 \in DOMAIN todo
  BY NowIs DEF Typed
<1>2. Emptying(S) => op \in {"freeInodeTree", "freeBlocks", "FreeInodeFromBitmap"}
  BY <1>1 DEF Emptying, FreeOK
<1>3. /\ Allocating(S) => op = "AllocInode"
      /\ Initialising(S) => op = "initInode"
      /\ Linking(S) => op \in {"addDentry", "retry"}
      /\ Growing(S) => op = "saveDir"
      /\ Truncating(S) => op = "Falloc"
      /\ Writing(S) => op \in {"writeDataBlock", "writeInode"}
      /\ Unlinking(S) => op = "removeDentry"
  BY <1>1 DEF Allocating, Initialising, Linking, Growing, Truncating, Writing, Unlinking
<1> QED
  BY <1>2, <1>3 DEF Program

\* Only a program that writes has an inode to write back.
LEMMA NoSaving ==
    ASSUME Typed, NEW S, Program(S), ~Writing(S)
    PROVE  Saving = {}
<1> SUFFICES ASSUME NEW k \in DOMAIN todo, todo[k].op = "writeInode" PROVE FALSE
  BY DEF Saving
<1>0. k \in 1 .. Len(todo) /\ Len(todo) \in Nat
  BY DEF Typed
<1>1. ASSUME NEW n \in Nat, NEW i, NEW ty, Behind(n, i, ty) PROVE k < n
  BY <1>0, <1>1 DEF Behind
<1>2. ~Allocating(S) /\ ~Truncating(S) /\ ~Unlinking(S) /\ ~Emptying(S)
  BY <1>0 DEF Allocating, Truncating, Unlinking, Emptying, FreeOK
<1>3. ~Initialising(S)
  BY <1>0, <1>1 DEF Initialising
<1>4. ~Linking(S)
  BY <1>0, <1>1 DEF Linking
<1>5. ~Growing(S)
  BY <1>0, <1>1 DEF Growing
<1> QED
  BY <1>2, <1>3, <1>4, <1>5 DEF Program

LEMMA SavingIs ==
    ASSUME Typed, NEW S, Writing(S)
    PROVE  Saving = {todo[1].inum} /\ Len(todo) \in 1 .. Len(todo) /\ DOMAIN todo = 1 .. Len(todo)
<1>1. Len(todo) \in 1 .. Len(todo) /\ DOMAIN todo = 1 .. Len(todo)
  BY DEF Typed, Writing
<1>2. todo[Len(todo)].op = "writeInode" /\ todo[Len(todo)].inum = todo[1].inum
  BY <1>1 DEF Writing
<1>3. \A k \in DOMAIN todo : todo[k].inum = todo[1].inum
  BY DEF Writing
<1> QED
  BY <1>1, <1>2, <1>3 DEF Saving

-----------------------------------------------------------------------------
(* Steps that leave the tree alone, or take from it. *)

\* Names stay sound when entries and unlisted inodes go.
LEMMA NamesKept ==
    ASSUME NEW S \in SUBSET Inums, NEW R \in SUBSET S,
           Live(S), Closed(S), Once(S), Unique(S),
           ROOT \in R, \A i \in S \ R : Unlisted(S, i),
           R \subseteq inodeBitmap', blind => blind',
           \A i \in R : itable'[i].fType = itable[i].fType,
           \A d \in DirsOf(R) : \A k \in Children(d)' : k \in Children(d) /\ SlotsOf(d)'[k] = SlotsOf(d)[k]
    PROVE  Live(R)' /\ Closed(R)' /\ Once(R)' /\ Unique(R)'
<1>1. Live(R)'
  BY DEF Live
<1>2. DirsOf(R)' = DirsOf(R) /\ DirsOf(R) \subseteq DirsOf(S)
  BY DEF DirsOf
<1>3. ASSUME NEW d \in DirsOf(R), NEW k \in Children(d)'
      PROVE  k \in Children(d) /\ Inum(d, k)' = Inum(d, k) /\ (SlotsOf(d)[k].name)' = SlotsOf(d)[k].name
  BY DEF Inum
<1>4. Closed(R)'
  <2> SUFFICES ASSUME NEW d \in DirsOf(R), NEW k \in Children(d)' PROVE Inum(d, k)' \in R \ {ROOT}
    BY <1>2 DEF Closed
  <2>1. Inum(d, k) \in S \ {ROOT}
    BY <1>2, <1>3 DEF Closed
  <2>2. Inum(d, k) \notin S \ R
    BY <1>2, <1>3 DEF Unlisted
  <2> QED
    BY <1>3, <2>1, <2>2
<1>5. Once(R)'
  BY <1>2, <1>3 DEF Once
<1>6. Unique(R)'
  BY <1>2, <1>3 DEF Unique
<1> QED
  BY <1>1, <1>4, <1>5, <1>6

\* Blocks stay owned when they go from the ends of inodes.
LEMMA OwnedKept ==
    ASSUME Typed, Typed', NEW S \in SUBSET Inums, NEW R \in SUBSET S, Owned(S),
           \A i \in R : Begins(Current(i)'.blocks, Current(i).blocks),
           \A i \in R : \A k \in DOMAIN (Current(i).blocks)' : Current(i).blocks[k] \in dataBitmap'
    PROVE  Owned(R)'
<1>1. NodesFine /\ NodesFine'
  BY TypedNodes, TypedNext
<1>2. ASSUME NEW i \in R, NEW k \in DOMAIN (Current(i).blocks)'
      PROVE  k \in DOMAIN Current(i).blocks /\ (Current(i).blocks[k])' = Current(i).blocks[k]
  <2>1. /\ DOMAIN (Current(i).blocks)' = 1 .. Len(Current(i)'.blocks)
        /\ DOMAIN Current(i).blocks = 1 .. Len(Current(i).blocks)
        /\ Len(Current(i)'.blocks) \in Nat /\ Len(Current(i).blocks) \in Nat
    BY <1>1 DEF NodesFine
  <2>2. Begins(Current(i)'.blocks, Current(i).blocks)
    OBVIOUS
  <2> QED
    BY <2>1, <2>2 DEF Begins
<1> QED
  BY <1>2 DEF Owned

\* A step that changes neither the inodes of R nor what is in the blocks of its
\* directories; what it caches is what getInode finds, and what it throws out of
\* the cache was saved.
LEMMA TreeKept ==
    ASSUME Typed, Typed', NEW S \in SUBSET Inums, NEW R \in SUBSET S, Tree(S),
           ROOT \in R, \A i \in S \ R : Unlisted(S, i),
           R \subseteq inodeBitmap', blind => blind',
           \A i \in R : itable'[i] = itable[i],
           \A i \in R : i \in DOMAIN inodeCache' => inodeCache'[i] = GetInode(i),
           \A i \in R : i \in Saving => i \in DOMAIN inodeCache' /\ i \in Saving',
           \A i \in R : \A k \in DOMAIN Current(i).blocks : Current(i).blocks[k] \in dataBitmap',
           \A d \in DirsOf(R) : \A k \in 1 .. Len(itable[d].blocks) :
                 blk'[itable[d].blocks[k]] = blk[itable[d].blocks[k]]
    PROVE  /\ Tree(R)' /\ DirsOf(R)' = DirsOf(R)
           /\ \A i \in R : (Current(i).blocks)' = Current(i).blocks
           /\ \A d \in DirsOf(R) : SlotsOf(d)' = SlotsOf(d) /\ Children(d)' = Children(d)
<1>0. NodesFine /\ NodesFine'
  BY TypedNodes, TypedNext
<1>00. Live(S) /\ Closed(S) /\ Once(S) /\ Unique(S) /\ Owned(S) /\ Agree(S)
  BY DEF Tree
<1>1. ASSUME NEW i \in R PROVE (Current(i).blocks)' = Current(i).blocks
  <2>1. CASE itable[i].fType # "reg"
    BY <2>1 DEF Current
  <2>2. CASE itable[i].fType = "reg" /\ i \in DOMAIN inodeCache'
    BY <2>2 DEF Current, GetInode
  <2>3. CASE itable[i].fType = "reg" /\ i \notin DOMAIN inodeCache'
    <3>1. i \notin Saving
      BY <2>3
    <3>2. i \in DOMAIN inodeCache => inodeCache[i].blocks = itable[i].blocks
      BY <1>00, <2>3, <3>1 DEF Agree, Follows
    <3> QED
      BY <2>3, <3>2 DEF Current, GetInode
  <2> QED
    BY <2>1, <2>2, <2>3
<1>2. ASSUME NEW d \in DirsOf(R) PROVE SlotsOf(d)' = SlotsOf(d)
  <2>1. d \in Inums /\ itable'[d].blocks = itable[d].blocks /\ itable[d].blocks \in Seq(Blocks)
    BY <1>0 DEF DirsOf, NodesFine
  <2>2. SlotsIn(itable[d].blocks, blk') = SlotsIn(itable[d].blocks, blk)
    BY <2>1, SameSlots
  <2> QED
    BY <2>1, <2>2, SlotsAre
<1>3. ASSUME NEW d \in DirsOf(R) PROVE Children(d)' = Children(d)
  BY <1>2 DEF Children
<1>4. Live(R)' /\ Closed(R)' /\ Once(R)' /\ Unique(R)'
  BY <1>00, <1>2, <1>3, NamesKept
<1>5. Owned(R)'
  <2>1. \A i \in R : Begins(Current(i)'.blocks, Current(i).blocks)
    BY <1>0, <1>1 DEF NodesFine, Begins
  <2>2. \A i \in R : \A k \in DOMAIN (Current(i).blocks)' : Current(i).blocks[k] \in dataBitmap'
    BY <1>1
  <2> QED
    BY <1>00, <2>1, <2>2, OwnedKept
<1>6. Agree(R)'
  <2> SUFFICES ASSUME NEW i \in R, i \in DOMAIN inodeCache'
               PROVE  Follows(inodeCache'[i], itable'[i], i \in Saving')
    BY DEF Agree
  <2>1. inodeCache'[i] = GetInode(i) /\ itable'[i] = itable[i] /\ (i \in Saving => i \in Saving')
    OBVIOUS
  <2>2. Follows(GetInode(i), itable[i], i \in Saving)
    <3>1. CASE i \in DOMAIN inodeCache
      BY <1>00, <3>1 DEF Agree, GetInode
    <3>2. CASE i \notin DOMAIN inodeCache
      BY <1>0, <3>2 DEF NodesFine, GetInode, Follows, Begins
    <3> QED
      BY <3>1, <3>2
  <2> QED
    BY <2>1, <2>2 DEF Follows
<1>7. DirsOf(R)' = DirsOf(R)
  BY DEF DirsOf
<1> QED
  BY <1>1, <1>2, <1>3, <1>4, <1>5, <1>6, <1>7 DEF Tree

\* Programs lose their first write, or all of them.
LEMMA RestIs ==
    ASSUME Typed, todo # <<>>, todo' = Rest
    PROVE  /\ Len(todo) \in Nat \ {0} /\ Len(todo') = Len(todo) - 1
           /\ DOMAIN todo' = 1 .. (Len(todo) - 1) /\ DOMAIN todo = 1 .. Len(todo)
           /\ \A k \in 1 .. (Len(todo) - 1) : todo'[k] = todo[k + 1]
<1>1. todo \in Seq(Task)
  BY DEF Typed
<1>2. Len(todo) \in Nat \ {0} /\ Len(Tail(todo)) = Len(todo) - 1 /\ Tail(todo) \in Seq(Task)
      /\ \A k \in 1 .. (Len(todo) - 1) : Tail(todo)[k] = todo[k + 1]
  BY <1>1, HeadTailProperties
<1> QED
  BY <1>1, <1>2 DEF Rest

LEMMA BehindRest ==
    ASSUME Typed, todo # <<>>, todo' = Rest, NEW n \in Nat, n >= 1, NEW i, NEW ty, Behind(n + 1, i, ty)
    PROVE  Behind(n, i, ty)'
<1>1. /\ Len(todo) \in Nat \ {0} /\ Len(todo') = Len(todo) - 1
      /\ \A k \in 1 .. (Len(todo) - 1) : todo'[k] = todo[k + 1]
  BY RestIs
<1> SUFFICES ASSUME NEW k \in n .. Len(todo')
             PROVE  \/ ty = "dir" /\ todo'[k].op = "addDentry" /\ todo'[k].dir = i /\ todo'[k].name \in Dots
                    \/ ty = "reg" /\ todo'[k].op = "Falloc" /\ todo'[k].inum = i /\ k = Len(todo')
  BY DEF Behind
<1>2. k + 1 \in (n + 1) .. Len(todo) /\ todo'[k] = todo[k + 1] /\ (k + 1 = Len(todo) => k = Len(todo'))
  BY <1>1
<1> QED
  BY <1>2 DEF Behind

LEMMA NoProgram ==
    ASSUME NEW S, todo' = <<>>
    PROVE  Program(S)' /\ Saving' = {}
<1>1. DOMAIN todo' = {}
  OBVIOUS
<1> QED
  BY <1>1 DEF Program, Emptying, Saving

LEMMA NewNameKept ==
    ASSUME NEW d, NEW nm, NewName(d, nm), blind' = blind, SlotsOf(d)' = SlotsOf(d), Children(d)' = Children(d)
    PROVE  NewName(d, nm)'
BY DEF NewName

\* A step that touches no inode and no block of the tree.
LEMMA TreeUntouched ==
    ASSUME Typed, Typed', NEW S \in SUBSET Inums, Tree(S),
           \A i \in S : itable'[i] = itable[i],
           \A i \in S : i \in DOMAIN inodeCache' => inodeCache'[i] = GetInode(i),
           \A i \in S : i \in Saving => i \in DOMAIN inodeCache' /\ i \in Saving',
           S \subseteq inodeBitmap', blk' = blk, dataBitmap \subseteq dataBitmap', blind => blind'
    PROVE  /\ Tree(S)' /\ DirsOf(S)' = DirsOf(S)
           /\ \A i \in S : (Current(i).blocks)' = Current(i).blocks
           /\ \A d \in DirsOf(S) : SlotsOf(d)' = SlotsOf(d) /\ Children(d)' = Children(d)
<1>1. \A i \in S : \A k \in DOMAIN Current(i).blocks : Current(i).blocks[k] \in dataBitmap'
  BY DEF Tree, Owned
<1>2. ROOT \in S
  BY DEF Tree, Live
<1>3. S \in SUBSET S /\ S \ S = {}
  OBVIOUS
<1> QED
  BY <1>1, <1>2, <1>3, TreeKept

\* The syscall returns with an error, or the engine dies when there is nothing
\* to be written back.
LEMMA Ends ==
    ASSUME Typed, Typed', NEW S \in SUBSET Inums, Tree(S), Saving = {}, Fail \/ Die, UNCHANGED blind
    PROVE  Tree(S)' /\ Program(S)'
<1>1. todo' = <<>> /\ UNCHANGED disk /\ (inodeCache' = inodeCache \/ DOMAIN inodeCache' = {})
  BY DEF Fail, Die
<1>2. \A i \in S : i \in DOMAIN inodeCache' => inodeCache'[i] = GetInode(i)
  BY <1>1 DEF GetInode
<1>3. S \subseteq inodeBitmap'
  BY <1>1 DEF Tree, Live, disk
<1>4. Tree(S)'
  <2>1. itable' = itable /\ blk' = blk /\ dataBitmap' = dataBitmap
    BY <1>1 DEF disk
  <2> QED
    BY <1>2, <1>3, <2>1, TreeUntouched
<1> QED
  BY <1>1, <1>4, NoProgram

-----------------------------------------------------------------------------
(* Making inodes and names. *)

\* The new inode is none of the tree's.
LEMMA AllocKeeps ==
    ASSUME Typed, Typed', NEW S \in SUBSET Inums, Tree(S), Program(S), AllocInode, UNCHANGED blind
    PROVE  Tree(S)' /\ Program(S)'
<1> PICK t : t = Head(todo)
  OBVIOUS
<1> PICK i : i = Lowest(Inums \ inodeBitmap)
  OBVIOUS
<1> DEFINE init == [op |-> "initInode", inum |-> i, fType |-> t.fType, user |-> t.user]
           link == Link(t.dir, t.name, i)
<1>0. Now("AllocInode")
  BY DEF AllocInode
<1>1. t \in Task /\ t = todo[1] /\ t.op = "AllocInode"
  BY <1>0, NowIs
<1>2. /\ t.dir \in Inums /\ t.name \in Names /\ t.fType \in {"reg", "dir"} /\ t.user \in Users /\ t.len \in Int
  BY <1>1, TaskIs
<1>3. Allocating(S) /\ ~Writing(S)
  BY <1>0, <1>1, Forms DEF Writing
<1>4. Saving = {}
  BY <1>3, NoSaving
<1>5. CASE Fail
  BY <1>4, <1>5, Ends
<1>6. CASE ~Fail
  <2>1. /\ ~(Inums \subseteq inodeBitmap) /\ inodeBitmap' = MarkInode(i)
        /\ todo' = <<init, link>>
                     \o (IF t.fType = "dir" THEN <<Link(i, ".", i), Link(i, "..", t.dir)>> ELSE <<>>)
                     \o (IF t.len >= 0 THEN Write(i, t.len) ELSE <<>>)
        /\ UNCHANGED <<itable, dataBitmap, blk, inodeCache, stale, torn>>
    BY <1>6 DEF AllocInode
  <2>2. i \in Inums \ inodeBitmap
    <3>1. Inums \ inodeBitmap \subseteq Nat /\ Inums \ inodeBitmap # {}
      BY <2>1, Constants
    <3> QED
      BY <3>1, LowestIs
  <2>3. i \notin S
    BY <2>2 DEF Tree, Live
  <2>4. Tree(S)' /\ DirsOf(S)' = DirsOf(S) /\ \A d \in DirsOf(S) : SlotsOf(d)' = SlotsOf(d) /\ Children(d)' = Children(d)
    <3>1. S \subseteq inodeBitmap'
      BY <2>1 DEF Tree, Live, MarkInode
    <3>2. \A j \in S : j \in DOMAIN inodeCache' => inodeCache'[j] = GetInode(j)
      BY <2>1 DEF GetInode
    <3> QED
      BY <1>4, <2>1, <3>1, <3>2, TreeUntouched
  <2>5. Initialising(S)'
    <3>0. t.dir \in DirsOf(S) /\ NewName(t.dir, t.name) /\ (t.len >= 0 => t.fType = "reg")
      BY <1>1, <1>3 DEF Allocating
    <3>1. init.op = "initInode" /\ init.inum = i /\ init.fType = t.fType
      OBVIOUS
    <3>2. link.op = "addDentry" /\ link.inum = i /\ link.dir = t.dir /\ link.name = t.name
      BY DEF Link
    <3>3. t.dir \in DirsOf(S)' /\ NewName(t.dir, t.name)'
      BY <2>4, <3>0, NewNameKept
    <3>4. Len(todo') >= 2 /\ todo'[1] = init /\ todo'[2] = link /\ Behind(3, i, t.fType)'
      <4>1. CASE t.fType = "dir"
        <5> DEFINE dot == Link(i, ".", i)
                   dotdot == Link(i, "..", t.dir)
        <5>1. todo' = <<init, link>> \o <<dot, dotdot>> \o <<>>
          BY <2>1, <3>0, <4>1
        <5>2. /\ dot.op = "addDentry" /\ dot.dir = i /\ dot.name \in Dots
              /\ dotdot.op = "addDentry" /\ dotdot.dir = i /\ dotdot.name \in Dots
          BY DEF Link, Dots
        <5> HIDE DEF init, link, dot, dotdot
        <5>3. Len(todo') = 4 /\ todo'[1] = init /\ todo'[2] = link /\ todo'[3] = dot /\ todo'[4] = dotdot
          BY <5>1
        <5> QED
          BY <4>1, <5>2, <5>3 DEF Behind
      <4>2. CASE t.fType = "reg" /\ t.len >= 0
        <5> DEFINE text == [op |-> "Falloc", inum |-> i, len |-> t.len]
        <5>1. todo' = <<init, link>> \o <<>> \o <<text>>
          BY <2>1, <4>2 DEF Write
        <5>2. text.op = "Falloc" /\ text.inum = i
          OBVIOUS
        <5> HIDE DEF init, link, text
        <5>3. Len(todo') = 3 /\ todo'[1] = init /\ todo'[2] = link /\ todo'[3] = text
          BY <5>1
        <5> QED
          BY <4>2, <5>2, <5>3 DEF Behind
      <4>3. CASE t.fType = "reg" /\ ~(t.len >= 0)
        <5>1. todo' = <<init, link>> \o <<>> \o <<>>
          BY <2>1, <4>3
        <5> HIDE DEF init, link
        <5>2. Len(todo') = 2 /\ todo'[1] = init /\ todo'[2] = link
          BY <5>1
        <5> QED
          BY <5>2 DEF Behind
      <4> QED
        BY <1>2, <4>1, <4>2, <4>3
    <3>5. i \in inodeBitmap' \ S
      BY <2>1, <2>3 DEF MarkInode
    <3> HIDE DEF init, link
    <3> QED
      BY <3>1, <3>2, <3>3, <3>4, <3>5 DEF Initialising
  <2> QED
    BY <2>4, <2>5 DEF Program
<1> QED
  BY <1>5, <1>6

\* Nor is it while it is written.
LEMMA InitialKeeps ==
    ASSUME Typed, Typed', NEW S \in SUBSET Inums, Tree(S), Program(S), initInode, UNCHANGED blind
    PROVE  Tree(S)' /\ Program(S)'
<1> PICK t, u : t = Head(todo) /\ u = todo[2]
  OBVIOUS
<1>0. Now("initInode")
  BY DEF initInode
<1>1. t \in Task /\ t = todo[1] /\ t.op = "initInode" /\ todo # <<>> /\ Len(todo) \in Nat
  BY <1>0, NowIs
<1>2. t.inum \in Inums /\ t.fType \in {"reg", "dir"} /\ t.user \in Users
  BY <1>1, TaskIs
<1>3. Initialising(S) /\ ~Writing(S)
  BY <1>0, <1>1, Forms DEF Writing
<1>4. Saving = {}
  BY <1>3, NoSaving
<1>5. /\ itable' = [itable EXCEPT ![t.inum] = FreshInode(t.fType, t.user)]
      /\ inodeCache' = [i \in DOMAIN inodeCache \ {t.inum} |-> inodeCache[i]]
      /\ todo' = Rest
      /\ UNCHANGED <<inodeBitmap, dataBitmap, blk, stale, torn>>
  BY DEF initInode
<1>6. /\ Len(todo) >= 2 /\ t.inum \in inodeBitmap \ S
      /\ u.op = "addDentry" /\ u.inum = t.inum
      /\ u.dir \in DirsOf(S) /\ NewName(u.dir, u.name)
      /\ Behind(3, t.inum, t.fType)
  BY <1>1, <1>3 DEF Initialising
<1>7. Tree(S)' /\ DirsOf(S)' = DirsOf(S) /\ \A d \in DirsOf(S) : SlotsOf(d)' = SlotsOf(d) /\ Children(d)' = Children(d)
  <2>1. S \subseteq inodeBitmap'
    BY <1>5 DEF Tree, Live
  <2>2. \A j \in S : itable'[j] = itable[j] /\ (j \in DOMAIN inodeCache' => inodeCache'[j] = GetInode(j))
    BY <1>5, <1>6 DEF GetInode, Typed
  <2> QED
    BY <1>4, <1>5, <2>1, <2>2, TreeUntouched
<1>8. /\ Len(todo') = Len(todo) - 1 /\ todo'[1] = u
  <2>1. Len(todo') = Len(todo) - 1 /\ \A k \in 1 .. (Len(todo) - 1) : todo'[k] = todo[k + 1]
    BY <1>1, <1>5, RestIs
  <2> QED
    BY <1>1, <1>6, <2>1
<1>9. Behind(2, t.inum, t.fType)'
  BY <1>1, <1>5, <1>6, BehindRest
<1>10. itable'[t.inum].fType = t.fType /\ itable'[t.inum].blocks = <<>> /\ t.inum \notin DOMAIN inodeCache'
  BY <1>2, <1>5 DEF Typed, FreshInode
<1>11. NewName(u.dir, u.name)' /\ u.name \notin Dots
  BY <1>6, <1>7, NewNameKept DEF NewName
<1>12. LinkOK(S, u)'
  BY <1>2, <1>5, <1>6, <1>7, <1>10, <1>11 DEF LinkOK, Blank
<1>13. Linking(S)'
  <2>1. Subject(u) = t.inum
    BY <1>6, <1>11 DEF Subject
  <2>2. Len(todo') >= 1
    BY <1>1, <1>6, <1>8
  <2> QED
    BY <1>6, <1>8, <1>9, <1>10, <1>12, <2>1, <2>2 DEF Linking
<1> QED
  BY <1>7, <1>13 DEF Program

\* What stands behind a link once the link is made.
LEMMA BehindProgram ==
    ASSUME Typed', NEW R, NEW i \in R, Behind(1, i, itable[i].fType)'
    PROVE  Program(R)'
<1>1. Len(todo') \in Nat /\ DOMAIN todo' = 1 .. Len(todo')
  BY DEF Typed
<1>2. CASE Len(todo') = 0
  BY <1>1, <1>2 DEF Program, Emptying
<1>3. CASE Len(todo') > 0
  <2>1. 1 \in 1 .. Len(todo')
    BY <1>1, <1>3
  <2>2. CASE /\ itable'[i].fType = "dir" /\ todo'[1].op = "addDentry" /\ todo'[1].dir = i
             /\ todo'[1].name \in Dots
    <3>1. LinkOK(R, todo[1])'
      BY <2>2 DEF LinkOK, DirsOf
    <3>2. Subject(todo[1])' = i
      BY <2>2 DEF Subject
    <3>3. Behind(2, i, itable[i].fType)'
      <4> SUFFICES ASSUME NEW k \in 2 .. Len(todo')
                   PROVE  \/ /\ itable'[i].fType = "dir" /\ todo'[k].op = "addDentry"
                             /\ todo'[k].dir = i /\ todo'[k].name \in Dots
                          \/ /\ itable'[i].fType = "reg" /\ todo'[k].op = "Falloc"
                             /\ todo'[k].inum = i /\ k = Len(todo')
        BY DEF Behind
      <4>1. k \in 1 .. Len(todo')
        BY <1>1
      <4> QED
        BY <4>1 DEF Behind
    <3>4. Linking(R)'
      BY <1>1, <1>3, <2>2, <3>1, <3>2, <3>3 DEF Linking
    <3> QED
      BY <3>4 DEF Program
  <2>3. CASE itable'[i].fType = "reg" /\ todo'[1].op = "Falloc" /\ todo'[1].inum = i /\ 1 = Len(todo')
    BY <2>3 DEF Program, Truncating
  <2> QED
    BY <2>1, <2>2, <2>3 DEF Behind
<1> QED
  BY <1>1, <1>2, <1>3

\* A slot of a directory of the tree is rewritten: no other slot of the tree changes.
LEMMA SlotSet ==
    ASSUME Typed, NEW S \in SUBSET Inums, Tree(S), NEW d \in DirsOf(S), NEW m \in DOMAIN SlotsOf(d), NEW e,
           blk' = WithSlot(d, m, e), itable' = itable
    PROVE  \A c \in DirsOf(S) :
              /\ DOMAIN SlotsOf(c)' = DOMAIN SlotsOf(c)
              /\ \A k \in DOMAIN SlotsOf(c) : SlotsOf(c)'[k] = IF c = d /\ k = m THEN e ELSE SlotsOf(c)[k]
<1>0. NodesFine /\ SlotsFine
  BY TypedNodes, TypedSlots
<1>1. ASSUME NEW c \in DirsOf(S)
      PROVE  /\ c \in Inums /\ itable[c].blocks \in Seq(Blocks) /\ Current(c) = itable[c] /\ c \in S
             /\ DOMAIN itable[c].blocks = 1 .. Len(itable[c].blocks)
  BY <1>0 DEF DirsOf, Current, NodesFine
<1> PICK bs : bs = itable[d].blocks
  OBVIOUS
<1>2. bs \in Seq(Blocks) /\ DOMAIN bs = 1 .. Len(bs) /\ DOMAIN SlotsOf(d) = Spots(bs) /\ Len(bs) \in Nat
  BY <1>0, <1>1 DEF SlotsFine, Spots
<1>3. Apart(bs)
  BY <1>1, <1>2 DEF Tree, Owned, Apart
<1>4. blk' = [blk EXCEPT ![bs[Row(m)]][Col(m)] = e]
  BY DEF WithSlot, Row, Col
<1>5. m \in Spots(bs) /\ blk \in [Blocks -> [1 .. EPB -> Entry]]
  BY <1>2 DEF Typed
<1>6a. Row(m) \in DOMAIN bs /\ bs[Row(m)] \in Blocks /\ Col(m) \in 1 .. EPB
  <2>1. Row(m) \in 1 .. Len(bs) /\ Col(m) \in 1 .. EPB
    BY <1>2, <1>5, Places DEF Spots
  <2> QED
    BY <1>2, <2>1
<1>6b. /\ \A b \in Blocks : b # bs[Row(m)] => blk'[b] = blk[b]
       /\ \A c \in 1 .. EPB : blk'[bs[Row(m)]][c] = IF c = Col(m) THEN e ELSE blk[bs[Row(m)]][c]
  <2> DEFINE b0 == bs[Row(m)]
             c0 == Col(m)
  <2>1. b0 \in Blocks /\ c0 \in 1 .. EPB /\ blk' = [blk EXCEPT ![b0][c0] = e]
    BY <1>4, <1>6a
  <2> HIDE DEF b0, c0
  <2>2. /\ \A b \in Blocks : b # b0 => blk'[b] = blk[b]
        /\ \A c \in 1 .. EPB : blk'[b0][c] = IF c = c0 THEN e ELSE blk[b0][c]
    BY <1>5, <2>1
  <2> QED
    BY <2>2 DEF b0, c0
<1>6. \A k \in Spots(bs) : SlotsIn(bs, blk')[k] = IF k = m THEN e ELSE SlotsIn(bs, blk)[k]
  <2> PICK B, C : B = blk /\ C = blk'
    OBVIOUS
  <2> PICK b, c : b = bs[Row(m)] /\ c = Col(m)
    OBVIOUS
  <2>1. Rewrites(C, B, b, c, e)
    BY <1>6a, <1>6b DEF Rewrites
  <2>2. OnlySlot(bs, B, C, m, e)
    BY <1>2, <1>3, <1>5, <2>1, OneSlot
  <2> QED
    BY <1>5, <2>2 DEF OnlySlot
<1>7. SlotsOf(d) = SlotsIn(bs, blk) /\ SlotsOf(d)' = SlotsIn(bs, blk')
  BY SlotsAre
<1>8. /\ DOMAIN SlotsOf(d)' = DOMAIN SlotsOf(d)
      /\ \A k \in DOMAIN SlotsOf(d) : SlotsOf(d)'[k] = IF k = m THEN e ELSE SlotsOf(d)[k]
  <2>1. DOMAIN SlotsIn(bs, blk') = Spots(bs)
    BY DEF SlotsIn
  <2> QED
    BY <1>2, <1>6, <1>7, <2>1
<1>9. ASSUME NEW c \in DirsOf(S), c # d PROVE SlotsOf(c)' = SlotsOf(c)
  <2>1. \A k \in 1 .. Len(itable[c].blocks) : itable[c].blocks[k] # bs[Row(m)] /\ itable[c].blocks[k] \in Blocks
    BY <1>1, <1>6a, <1>9 DEF Tree, Owned
  <2>2. SlotsIn(itable[c].blocks, blk') = SlotsIn(itable[c].blocks, blk)
    BY <1>1, <1>6b, <2>1, SameSlots
  <2> QED
    BY <2>2, SlotsAre
<1> QED
  BY <1>8, <1>9

\* addDentry finds a free slot: the new name is in the tree, and its inode.
LEMMA InsertKeeps ==
    ASSUME Typed, Typed', NEW S \in SUBSET Inums, Tree(S), Program(S), addDentryInsert, UNCHANGED blind
    PROVE  \E R \in SUBSET Inums : Tree(R)' /\ Program(R)'
<1> PICK t : t = Head(todo)
  OBVIOUS
<1> PICK d, m : d = t.dir /\ m = FreeSlot(d)
  OBVIOUS
<1>0. Now("addDentry") \/ Now("retry")
  BY DEF addDentryInsert
<1>1. t \in Task /\ t = todo[1] /\ t.op \in {"addDentry", "retry"} /\ todo # <<>>
  BY <1>0, NowIs
<1>2. t.dir \in Inums /\ t.name \in Names /\ t.inum \in Inums /\ t.inum # 0
  BY <1>1, TaskIs, Constants
<1>3. Linking(S)
  BY <1>0, Forms
<1>3a. ~Writing(S)
  BY <1>1 DEF Writing
<1>4. Saving = {}
  BY <1>3a, NoSaving
<1>5. /\ m # 0 /\ blk' = WithSlot(d, m, Slot(t.inum, t.name)) /\ todo' = Rest
      /\ UNCHANGED <<inodeBitmap, itable, dataBitmap, inodeCache, stale, torn>>
  BY DEF addDentryInsert
<1>6. m \in DOMAIN SlotsOf(d) /\ SlotsOf(d)[m].inum = 0
  BY <1>2, <1>5, FreeSlotIs
<1>7. LinkOK(S, t) /\ Behind(2, Subject(t), itable[Subject(t)].fType) /\ d \in DirsOf(S)
  BY <1>1, <1>3 DEF Linking, LinkOK
<1> DEFINE e == Slot(t.inum, t.name)
<1>8. e.inum = t.inum /\ e.name = t.name
  BY DEF Slot
<1> HIDE DEF e
<1>9. \A c \in DirsOf(S) :
          /\ DOMAIN SlotsOf(c)' = DOMAIN SlotsOf(c)
          /\ \A k \in DOMAIN SlotsOf(c) : SlotsOf(c)'[k] = IF c = d /\ k = m THEN e ELSE SlotsOf(c)[k]
  BY <1>5, <1>6, <1>7, SlotSet DEF e
<1>10. \A i \in Inums : Current(i)' = Current(i)
  BY <1>5 DEF Current, GetInode
<1>11. Live(S) /\ Closed(S) /\ Once(S) /\ Unique(S) /\ Owned(S) /\ Agree(S)
  BY DEF Tree
<1>12. Agree(S)' /\ Owned(S)'
  BY <1>4, <1>5, <1>10, <1>11 DEF Agree, Owned, Follows
<1>13. m \notin Children(d)
  BY <1>6 DEF Children, IsChild
<1> PICK i : i = Subject(t)
  OBVIOUS
<1>14. Behind(1, i, itable[i].fType)'
  <2> PICK ty : ty = itable[i].fType
    OBVIOUS
  <2>1. Behind(2, i, ty)
    BY <1>7
  <2>2. Behind(1, i, ty)'
    BY <1>1, <1>5, <2>1, BehindRest
  <2> QED
    BY <1>5, <2>2
<1>15. CASE t.name \in Dots
  <2>1. \A c \in DirsOf(S) : \A k \in Children(c)' : k \in Children(c) /\ SlotsOf(c)'[k] = SlotsOf(c)[k]
    BY <1>8, <1>9, <1>15 DEF Children, IsChild, Dots
  <2>2. \A j \in S \ S : Unlisted(S, j)
    OBVIOUS
  <2>3. ROOT \in S /\ S \subseteq inodeBitmap' /\ S \in SUBSET S
    BY <1>5, <1>11 DEF Live
  <2>4. \A j \in S : itable'[j].fType = itable[j].fType
    BY <1>5
  <2>5. Live(S)' /\ Closed(S)' /\ Once(S)' /\ Unique(S)'
    BY <1>11, <2>1, <2>2, <2>3, <2>4, NamesKept
  <2>6. Program(S)'
    <3>1. i \in S
      BY <1>7, <1>15 DEF Subject, DirsOf
    <3> QED
      BY <1>14, <3>1, BehindProgram
  <2> QED
    BY <1>12, <2>5, <2>6 DEF Tree
<1>16. CASE t.name \notin Dots
  <2>1. i = t.inum /\ i \in inodeBitmap \ S /\ Blank(i) /\ NewName(d, t.name)
    BY <1>7, <1>16 DEF Subject, LinkOK
  <2> DEFINE R == S \cup {i}
  <2>2. R \in SUBSET Inums
    BY <1>2, <2>1
  <2>3. /\ DirsOf(R)' = DirsOf(S) \cup (IF itable[i].fType = "dir" THEN {i} ELSE {})
        /\ d # i
    BY <1>5, <1>7, <2>1 DEF DirsOf
  <2>4. Children(i)' = {}
    <3>1. DOMAIN SlotsOf(i)' = 1 .. (Len(itable'[i].blocks) * EPB)
      BY <2>1, <2>2, TypedNext DEF SlotsFine
    <3>2. Len(itable'[i].blocks) = 0
      BY <1>5, <2>1 DEF Blank
    <3>3. 0 * EPB = 0
      BY Constants
    <3> QED
      BY <3>1, <3>2, <3>3 DEF Children
  <2>5. \A c \in DirsOf(S) : Children(c)' = Children(c) \cup (IF c = d THEN {m} ELSE {})
    BY <1>2, <1>6, <1>8, <1>9, <1>16, <2>1 DEF Children, IsChild, Dots
  <2>6. \A c \in DirsOf(S) : \A k \in Children(c) :
            k \in Children(c)' /\ Inum(c, k)' = Inum(c, k) /\ SlotsOf(c)'[k] = SlotsOf(c)[k]
    BY <1>9, <1>13, <2>5 DEF Children, Inum
  <2>7. Inum(d, m)' = i /\ SlotsOf(d)'[m] = e
    BY <1>6, <1>7, <1>8, <1>9, <2>1 DEF Inum
  <2>8. ASSUME NEW c \in DirsOf(R)', NEW k \in Children(c)'
        PROVE  /\ c \in DirsOf(S)
               /\ \/ c = d /\ k = m
                  \/ k \in Children(c) /\ ~(c = d /\ k = m)
    BY <1>13, <2>3, <2>4, <2>5
  <2>9. Live(R)'
    BY <1>5, <1>11, <2>1 DEF Live, Blank
  <2>10. \A c \in DirsOf(S) : \A k \in Children(c) : Inum(c, k) \in S \ {ROOT} /\ Inum(c, k) # i
    BY <1>11, <2>1 DEF Closed
  <2>11. i # ROOT
    BY <1>11, <2>1 DEF Live
  <2> HIDE DEF R
  <2>12. Closed(R)'
    <3> SUFFICES ASSUME NEW c \in DirsOf(R)', NEW k \in Children(c)' PROVE Inum(c, k)' \in R \ {ROOT}
      BY DEF Closed
    <3> QED
      BY <2>6, <2>7, <2>8, <2>10, <2>11 DEF R
  <2>13. Once(R)'
    <3> SUFFICES ASSUME NEW c \in DirsOf(R)', NEW f \in DirsOf(R)', NEW j \in Children(c)', NEW k \in Children(f)',
                        Inum(c, j)' = Inum(f, k)'
                 PROVE  c = f /\ j = k
      BY DEF Once
    <3>1. CASE c = d /\ j = m
      BY <2>6, <2>7, <2>8, <2>10, <3>1
    <3>2. CASE f = d /\ k = m
      BY <2>6, <2>7, <2>8, <2>10, <3>2
    <3>3. CASE ~(c = d /\ j = m) /\ ~(f = d /\ k = m)
      <4>1. Inum(c, j) = Inum(f, k) /\ c \in DirsOf(S) /\ f \in DirsOf(S) /\ j \in Children(c) /\ k \in Children(f)
        BY <2>6, <2>8, <3>3
      <4> QED
        BY <1>11, <4>1 DEF Once
    <3> QED
      BY <3>1, <3>2, <3>3
  <2>14. Unique(R)'
    <3> SUFFICES ASSUME ~blind, NEW c \in DirsOf(R)', NEW j \in Children(c)', NEW k \in Children(c)',
                        (SlotsOf(c)[j].name)' = (SlotsOf(c)[k].name)'
                 PROVE  j = k
      BY DEF Unique
    <3>0. \A l \in Children(d) : SlotsOf(d)[l].name # t.name
      BY <2>1 DEF NewName
    <3>1. CASE c = d /\ j = m
      BY <1>8, <2>6, <2>7, <2>8, <3>0, <3>1
    <3>2. CASE c = d /\ k = m
      BY <1>8, <2>6, <2>7, <2>8, <3>0, <3>2
    <3>3. CASE ~(c = d /\ j = m) /\ ~(c = d /\ k = m)
      <4>1. SlotsOf(c)[j].name = SlotsOf(c)[k].name /\ c \in DirsOf(S) /\ j \in Children(c) /\ k \in Children(c)
        BY <2>6, <2>8, <3>3
      <4> QED
        BY <1>11, <4>1 DEF Unique
    <3> QED
      BY <3>1, <3>2, <3>3
  <2>15. Owned(R)'
    <3>1. DOMAIN (Current(i).blocks)' = {}
      BY <1>5, <2>1 DEF Current, GetInode, Blank
    <3>2. \A j \in R : \A k \in DOMAIN (Current(j).blocks)' : j \in S
      BY <3>1 DEF R
    <3> QED
      BY <1>12, <3>2 DEF Owned
  <2>16. Agree(R)'
    <3>1. i \notin DOMAIN inodeCache'
      BY <1>5, <2>1 DEF Blank
    <3> QED
      BY <1>12, <3>1 DEF Agree, R
  <2>17. Program(R)'
    BY <1>14, BehindProgram DEF R
  <2> QED
    BY <2>2, <2>9, <2>12, <2>13, <2>14, <2>15, <2>16, <2>17 DEF Tree, R
<1> QED
  BY <1>15, <1>16

\* addDentry takes a block for a full directory: one that nobody has.
LEMMA GrowKeeps ==
    ASSUME Typed, Typed', NEW S \in SUBSET Inums, Tree(S), Program(S), addDentryGrow, Sane', UNCHANGED blind
    PROVE  Tree(S)' /\ Program(S)'
<1> PICK t : t = Head(todo)
  OBVIOUS
<1> PICK d, n, b : d = t.dir /\ n = Len(itable[d].blocks) /\ b = Lowest(Blocks \ dataBitmap)
  OBVIOUS
<1> PICK bs : bs = Append(itable[d].blocks, b)
  OBVIOUS
<1> DEFINE save == [op |-> "saveDir", dir |-> d, blocks |-> bs]
           retry == [t EXCEPT !.op = "retry"]
<1>0. Now("addDentry")
  BY DEF addDentryGrow
<1>1. t \in Task /\ t = todo[1] /\ t.op = "addDentry" /\ todo # <<>> /\ Rest \in Seq(Task)
  BY <1>0, NowIs
<1>2. d \in Inums /\ t.inum \in Inums /\ retry = [op |-> "retry", dir |-> d, name |-> t.name, inum |-> t.inum]
  BY <1>1, TaskIs
<1>3. Linking(S) /\ ~Writing(S)
  BY <1>0, <1>1, Forms DEF Writing
<1>4. Saving = {}
  BY <1>3, NoSaving
<1>5. /\ ~(Blocks \subseteq dataBitmap) /\ dataBitmap' = MarkBlocks({b})
      /\ todo' = <<save, retry>> \o Rest /\ stale' = (stale \/ ListsOld(b))
      /\ UNCHANGED <<inodeBitmap, itable, blk, inodeCache, torn>>
  BY DEF addDentryGrow
<1>6. b \in Blocks \ dataBitmap
  <2>1. Blocks \ dataBitmap \subseteq Nat /\ Blocks \ dataBitmap # {}
    BY <1>5, Constants
  <2> QED
    BY <2>1, LowestIs
<1>7. ~ListsOld(b)
  BY <1>5 DEF Sane
<1>8. /\ Tree(S)' /\ DirsOf(S)' = DirsOf(S) /\ \A i \in S : (Current(i).blocks)' = Current(i).blocks
      /\ \A c \in DirsOf(S) : SlotsOf(c)' = SlotsOf(c) /\ Children(c)' = Children(c)
  <2>1. S \subseteq inodeBitmap' /\ dataBitmap \subseteq dataBitmap'
    BY <1>5 DEF Tree, Live, MarkBlocks
  <2>2. \A j \in S : j \in DOMAIN inodeCache' => inodeCache'[j] = GetInode(j)
    BY <1>5 DEF GetInode
  <2> QED
    BY <1>4, <1>5, <2>1, <2>2, TreeUntouched
<1>9. LinkOK(S, t) /\ Behind(2, Subject(t), itable[Subject(t)].fType) /\ d \in DirsOf(S)
  BY <1>1, <1>3 DEF Linking, LinkOK
<1>10. /\ retry.op = "retry" /\ retry.dir = d /\ retry.name = t.name /\ retry.inum = t.inum
       /\ save.op = "saveDir" /\ save.dir = d /\ save.blocks = bs
  BY <1>2
<1> HIDE DEF save, retry
<1>11. LinkOK(S, retry)'
  <2>1. CASE t.name \in Dots
    BY <1>8, <1>9, <1>10, <2>1 DEF LinkOK
  <2>2. CASE t.name \notin Dots
    <3>1. NewName(d, t.name) /\ t.inum \in inodeBitmap \ S /\ Blank(t.inum)
      BY <1>9, <2>2 DEF LinkOK
    <3>2. NewName(d, t.name)'
      BY <1>8, <1>9, <3>1, NewNameKept
    <3>3. Blank(t.inum)'
      BY <1>5, <3>1 DEF Blank
    <3> QED
      BY <1>5, <1>8, <1>9, <1>10, <3>1, <3>2, <3>3 DEF LinkOK
  <2> QED
    BY <2>1, <2>2
<1>12. /\ Len(todo) \in Nat \ {0} /\ Len(Rest) = Len(todo) - 1 /\ \A k \in 1 .. Len(Rest) : Rest[k] = todo[k + 1]
  BY <1>0, NowIs
<1>13. /\ Len(todo') = Len(todo) + 1 /\ todo'[1] = save /\ todo'[2] = retry
       /\ \A k \in 3 .. Len(todo') : todo'[k] = todo[k - 1]
  <2> PICK r : r = Rest
    OBVIOUS
  <2>1. todo' = <<save, retry>> \o r /\ r \in Seq(Task) /\ Len(r) \in Nat
    BY <1>1, <1>5
  <2>2. /\ Len(todo') = 2 + Len(r) /\ todo'[1] = save /\ todo'[2] = retry
        /\ \A k \in 3 .. (2 + Len(r)) : todo'[k] = r[k - 2]
    BY <2>1
  <2>3. ASSUME NEW k \in 3 .. (2 + Len(r)) PROVE r[k - 2] = todo[k - 1]
    <3>1. k - 2 \in 1 .. Len(Rest) /\ (k - 2) + 1 = k - 1
      BY <2>1
    <3> QED
      BY <1>12, <3>1
  <2> QED
    BY <1>12, <2>1, <2>2, <2>3
<1> PICK i : i = Subject(t)
  OBVIOUS
<1>14. Subject(retry) = i
  BY <1>10 DEF Subject
<1> PICK ty : ty = itable[i].fType
  OBVIOUS
<1>15. Behind(3, i, ty)'
  <2>1. Behind(2, i, ty)
    BY <1>9
  <2> SUFFICES ASSUME NEW k \in 3 .. Len(todo')
               PROVE  \/ ty = "dir" /\ todo'[k].op = "addDentry" /\ todo'[k].dir = i /\ todo'[k].name \in Dots
                      \/ ty = "reg" /\ todo'[k].op = "Falloc" /\ todo'[k].inum = i /\ k = Len(todo')
    BY DEF Behind
  <2>2. k - 1 \in 2 .. Len(todo) /\ todo'[k] = todo[k - 1] /\ (k - 1 = Len(todo) => k = Len(todo'))
    BY <1>12, <1>13
  <2> QED
    BY <2>1, <2>2 DEF Behind
<1>16. /\ n \in Nat /\ Len(bs) = n + 1 /\ bs[n + 1] = b /\ Begins(itable[d].blocks, bs)
  <2>1. itable[d].blocks \in Seq(Blocks)
    BY <1>2, TypedNodes DEF NodesFine
  <2> QED
    BY <2>1 DEF Begins
<1>17. \A j \in S : \A k \in DOMAIN (Current(j).blocks)' : (Current(j).blocks[k])' # b
  BY <1>6, <1>8 DEF Tree, Owned
<1>18. ~ListsOld(b)' /\ b \in dataBitmap'
  BY <1>5, <1>7 DEF ListsOld, MarkBlocks
<1>19. Growing(S)'
  <2>1. Len(todo') >= 2
    BY <1>12, <1>13
  <2>2. itable' = itable
    BY <1>5
  <2> QED
    BY <1>10, <1>11, <1>13, <1>14, <1>15, <1>16, <1>17, <1>18, <2>1, <2>2 DEF Growing
<1> QED
  BY <1>8, <1>19 DEF Program

\* addDentry gives up, or the disk is full.
LEMMA StopKeeps ==
    ASSUME Typed, Typed', NEW S \in SUBSET Inums, Tree(S), Program(S), addDentryFail \/ panic, UNCHANGED blind
    PROVE  Tree(S)' /\ Program(S)'
<1>1. /\ Now("addDentry") \/ Now("retry") \/ Now("Falloc")
      /\ Fail \/ Die
  BY DEF addDentryFail, panic
<1>2. Head(todo).op \in {"addDentry", "retry", "Falloc"} /\ Head(todo) = todo[1]
  BY <1>1, NowIs
<1>3. ~Writing(S)
  BY <1>2 DEF Writing
<1>4. Saving = {}
  BY <1>3, NoSaving
<1> QED
  BY <1>1, <1>4, Ends

\* removeDentry: nothing in the tree leads to the inode any more.
LEMMA RemoveKeeps ==
    ASSUME Typed, Typed', NEW S \in SUBSET Inums, Tree(S), Program(S), removeDentry, UNCHANGED blind
    PROVE  Tree(S)' /\ Program(S)'
<1> PICK t, u : t = Head(todo) /\ u = todo[2]
  OBVIOUS
<1> PICK d, m : d = t.dir /\ m = Find(d, t.name)
  OBVIOUS
<1>0. Now("removeDentry")
  BY DEF removeDentry
<1>1. t \in Task /\ t = todo[1] /\ t.op = "removeDentry" /\ todo # <<>>
  BY <1>0, NowIs
<1>2. Unlinking(S) /\ ~Writing(S)
  BY <1>0, <1>1, Forms DEF Writing
<1>3. Saving = {}
  BY <1>2, NoSaving
<1>4. /\ Len(todo) = 2 /\ u.op = "freeInodeTree" /\ d \in DirsOf(S) /\ m \in Children(d) /\ u.inum = Inum(d, m)
  BY <1>1, <1>2 DEF Unlinking
<1>5. /\ blk' = WithSlot(d, m, Free) /\ todo' = Rest
      /\ UNCHANGED <<inodeBitmap, itable, dataBitmap, inodeCache, stale, torn>>
  BY DEF removeDentry
<1>6. m \in DOMAIN SlotsOf(d)
  BY <1>4 DEF Children
<1> DEFINE e == Free
<1>7. ~IsChild(e)
  BY DEF IsChild, Free, Slot
<1> HIDE DEF e
<1>8. \A c \in DirsOf(S) :
          /\ DOMAIN SlotsOf(c)' = DOMAIN SlotsOf(c)
          /\ \A k \in DOMAIN SlotsOf(c) : SlotsOf(c)'[k] = IF c = d /\ k = m THEN e ELSE SlotsOf(c)[k]
  BY <1>4, <1>5, <1>6, SlotSet DEF e
<1>9. Live(S) /\ Closed(S) /\ Once(S) /\ Unique(S) /\ Owned(S) /\ Agree(S)
  BY DEF Tree
<1>10. \A i \in Inums : Current(i)' = Current(i)
  BY <1>5 DEF Current, GetInode
<1>11. Agree(S)' /\ Owned(S)'
  BY <1>3, <1>5, <1>9, <1>10 DEF Agree, Owned, Follows
<1>12. \A c \in DirsOf(S) : \A k \in Children(c)' :
           k \in Children(c) /\ SlotsOf(c)'[k] = SlotsOf(c)[k] /\ ~(c = d /\ k = m)
  BY <1>7, <1>8 DEF Children
<1>13. Live(S)' /\ Closed(S)' /\ Once(S)' /\ Unique(S)'
  <2>1. ROOT \in S /\ S \subseteq inodeBitmap' /\ S \in SUBSET S /\ \A j \in S : itable'[j].fType = itable[j].fType
    BY <1>5, <1>9 DEF Live
  <2>2. \A j \in S \ S : Unlisted(S, j)
    OBVIOUS
  <2> QED
    BY <1>9, <1>12, <2>1, <2>2, NamesKept
<1>14. u.inum \in S /\ Unlisted(S, u.inum)'
  <2>1. u.inum \in S \ {ROOT}
    BY <1>4, <1>9 DEF Closed
  <2>2. DirsOf(S)' = DirsOf(S)
    BY <1>5 DEF DirsOf
  <2>3. ASSUME NEW c \in DirsOf(S), NEW k \in Children(c)' PROVE Inum(c, k)' # u.inum
    <3>1. k \in Children(c) /\ ~(c = d /\ k = m) /\ Inum(c, k)' = Inum(c, k)
      BY <1>12 DEF Inum
    <3> QED
      BY <1>4, <1>9, <3>1 DEF Once
  <2> QED
    BY <2>1, <2>2, <2>3 DEF Unlisted
<1>15. DOMAIN todo' = {1} /\ todo'[1] = u
  BY <1>1, <1>4, <1>5, RestIs
<1>16. Emptying(S)'
  BY <1>4, <1>14, <1>15 DEF Emptying, FreeOK
<1> QED
  BY <1>11, <1>13, <1>16 DEF Tree, Program

\* The directory has its new block: it lists nothing, and nobody else has it.
LEMMA SaveDirKeeps ==
    ASSUME Typed, Typed', NEW S \in SUBSET Inums, Tree(S), Program(S), saveDir, UNCHANGED blind
    PROVE  Tree(S)' /\ Program(S)'
<1> PICK t, u : t = Head(todo) /\ u = todo[2]
  OBVIOUS
<1> PICK d : d = t.dir
  OBVIOUS
<1> PICK old, new : old = itable[d].blocks /\ new = t.blocks
  OBVIOUS
<1> PICK n, b : n = Len(old) /\ b = new[n + 1]
  OBVIOUS
<1>0. Now("saveDir")
  BY DEF saveDir
<1>1. t \in Task /\ t = todo[1] /\ t.op = "saveDir" /\ todo # <<>> /\ Len(todo) \in Nat
  BY <1>0, NowIs
<1>2. d \in Inums /\ new \in Bounded /\ new \in Seq(Blocks)
  BY <1>1, TaskIs DEF Bounded
<1>3. Growing(S) /\ ~Writing(S)
  BY <1>0, <1>1, Forms DEF Writing
<1>4. Saving = {}
  BY <1>3, NoSaving
<1>5. /\ Len(todo) >= 2 /\ u.op = "retry" /\ u.dir = d /\ LinkOK(S, u)
      /\ Behind(3, Subject(u), itable[Subject(u)].fType)
      /\ Len(new) = n + 1 /\ Begins(old, new) /\ b \in dataBitmap /\ ~ListsOld(b)
      /\ \A i \in S : \A k \in DOMAIN Current(i).blocks : Current(i).blocks[k] # b
  BY <1>1, <1>3 DEF Growing
<1>6. /\ itable' = [itable EXCEPT ![d].blocks = new] /\ todo' = Rest
      /\ UNCHANGED <<inodeBitmap, dataBitmap, blk, inodeCache, stale, torn>>
  BY DEF saveDir
<1>7. /\ \A i \in Inums : i # d => itable'[i] = itable[i]
      /\ itable'[d].blocks = new /\ itable'[d].fType = itable[d].fType /\ itable'[d].owner = itable[d].owner
      /\ itable'[d].ownerMode = itable[d].ownerMode /\ itable'[d].otherMode = itable[d].otherMode
  <2>1. itable \in [Inums -> Node]
    BY DEF Typed
  <2>2. itable' = [itable EXCEPT ![d] = [itable[d] EXCEPT !.blocks = new]]
    BY <1>6
  <2>3. itable[d] \in Node
    BY <1>2, <2>1
  <2>4. itable'[d] = [itable[d] EXCEPT !.blocks = new] /\ \A i \in Inums : i # d => itable'[i] = itable[i]
    BY <1>2, <2>1, <2>2
  <2> QED
    BY <1>2, <2>3, <2>4, NodeWith
<1>8. d \in DirsOf(S) /\ d \in S /\ itable[d].fType = "dir"
  BY <1>5 DEF LinkOK, DirsOf
<1>9. old \in Seq(Blocks) /\ n \in Nat /\ DOMAIN old = 1 .. n /\ DOMAIN new = 1 .. (n + 1) /\ Current(d) = itable[d]
  BY <1>2, <1>5, <1>8, TypedNodes DEF NodesFine, Current
<1>10. Live(S) /\ Closed(S) /\ Once(S) /\ Unique(S) /\ Owned(S) /\ Agree(S)
  BY DEF Tree
<1>11. /\ Children(d)' = Children(d)
       /\ \A k \in Children(d) : SlotsOf(d)'[k] = SlotsOf(d)[k]
  <2>1. SlotsOf(d) = SlotsIn(old, blk) /\ SlotsOf(d)' = SlotsIn(new, blk)
    BY <1>6, <1>7, SlotsAre
  <2>2. DOMAIN SlotsIn(old, blk) = Spots(old) /\ DOMAIN SlotsIn(new, blk) = Spots(new)
    BY DEF SlotsIn
  <2>3. /\ Spots(old) \subseteq Spots(new)
        /\ \A k \in Spots(old) : SlotsIn(new, blk)[k] = SlotsIn(old, blk)[k]
        /\ \A k \in Spots(new) : Row(k) <= n => k \in Spots(old)
    <3> PICK B : B = blk
      OBVIOUS
    <3>1. Extends(new, old, B)
      BY <1>2, <1>5, <1>9, LongerSlots
    <3> QED
      BY <3>1 DEF Extends
  <2>4. ASSUME NEW k \in Spots(new), k \notin Spots(old) PROVE ~IsChild(SlotsIn(new, blk)[k])
    <3>1. Row(k) \in 1 .. (n + 1) /\ Col(k) \in 1 .. EPB
      <4>1. n + 1 \in Nat /\ k \in 1 .. ((n + 1) * EPB)
        <5>1. Len(new) = n + 1
          BY <1>2, <1>5, <1>9
        <5> QED
          BY <1>9, <5>1 DEF Spots
      <4> QED
        BY ONLY <4>1, Places
    <3>2. Row(k) = n + 1
      BY <1>9, <2>3, <2>4, <3>1
    <3>3. SlotsIn(new, blk)[k] = blk[b][Col(k)]
      BY <3>2 DEF SlotsIn
    <3> QED
      BY <1>5, <3>1, <3>3 DEF ListsOld
  <2> QED
    BY <2>1, <2>2, <2>3, <2>4 DEF Children
<1>12. ASSUME NEW c \in DirsOf(S), c # d PROVE SlotsOf(c)' = SlotsOf(c) /\ Children(c)' = Children(c)
  <2>1. c \in Inums
    BY DEF DirsOf
  <2>2. SlotsOf(c)' = SlotsOf(c)
    BY <1>6, <1>7, <1>12, <2>1, SlotsAre
  <2> QED
    BY <2>2 DEF Children
<1>13. Live(S)' /\ Closed(S)' /\ Once(S)' /\ Unique(S)'
  <2>1. ROOT \in S /\ S \subseteq inodeBitmap' /\ S \in SUBSET S
    BY <1>6, <1>10 DEF Live
  <2>2. \A j \in S : itable'[j].fType = itable[j].fType
    BY <1>7
  <2>3. \A j \in S \ S : Unlisted(S, j)
    OBVIOUS
  <2>4. \A c \in DirsOf(S) : \A k \in Children(c)' : k \in Children(c) /\ SlotsOf(c)'[k] = SlotsOf(c)[k]
    BY <1>11, <1>12
  <2> QED
    BY <1>10, <2>1, <2>2, <2>3, <2>4, NamesKept
<1>14. Owned(S)'
  <2>1. \A i \in S : i # d => Current(i)' = Current(i)
    BY <1>6, <1>7 DEF Current, GetInode
  <2>2. (Current(d).blocks)' = new
    BY <1>7, <1>8 DEF Current
  <2>3. ASSUME NEW i \in S, NEW k \in DOMAIN (Current(i).blocks)'
        PROVE  \/ i = d /\ k = n + 1 /\ (Current(i).blocks[k])' = b
               \/ k \in DOMAIN Current(i).blocks /\ (Current(i).blocks[k])' = Current(i).blocks[k]
    <3>1. CASE i # d
      BY <2>1, <3>1
    <3>2. CASE i = d
      <4>1. k \in 1 .. (n + 1) /\ (Current(d).blocks[k])' = new[k]
        BY <1>9, <2>2, <2>3, <3>2
      <4>2. k \in 1 .. n => k \in DOMAIN Current(d).blocks /\ Current(d).blocks[k] = new[k]
        BY <1>5, <1>9 DEF Begins
      <4> QED
        BY <1>9, <3>2, <4>1, <4>2
    <3> QED
      BY <3>1, <3>2
  <2> SUFFICES ASSUME NEW i \in S, NEW j \in S,
                      NEW k \in DOMAIN (Current(i).blocks)', NEW l \in DOMAIN (Current(j).blocks)'
               PROVE  /\ (Current(i).blocks[k])' \in dataBitmap'
                      /\ (Current(i).blocks[k])' = (Current(j).blocks[l])' => i = j /\ k = l
    BY DEF Owned
  <2>4. (Current(i).blocks[k])' \in dataBitmap'
    BY <1>5, <1>6, <1>10, <2>3 DEF Owned
  <2>5. (Current(i).blocks[k])' = (Current(j).blocks[l])' => i = j /\ k = l
    BY <1>5, <1>10, <2>3 DEF Owned
  <2> QED
    BY <2>4, <2>5
<1>15. Agree(S)'
  <2> SUFFICES ASSUME NEW i \in S, i \in DOMAIN inodeCache'
               PROVE  Follows(inodeCache'[i], itable'[i], i \in Saving')
    BY DEF Agree
  <2>0. i \in DOMAIN inodeCache /\ Follows(inodeCache[i], itable[i], i \in Saving) /\ i \notin Saving
    BY <1>4, <1>6, <1>10 DEF Agree
  <2>1. i \in DOMAIN inodeCache /\ inodeCache'[i] = inodeCache[i] /\ Follows(inodeCache[i], itable[i], FALSE)
    BY <1>6, <2>0 DEF Follows
  <2>2. CASE i # d
    BY <1>7, <2>1, <2>2 DEF Follows
  <2>3. CASE i = d
    <3>1. Begins(inodeCache[d].blocks, old)
      BY <1>8, <2>1, <2>3 DEF Follows
    <3>2. inodeCache[d].blocks \in Seq(Blocks)
      BY <1>2, <2>1, <2>3, NodeIs DEF Typed
    <3>3. Begins(inodeCache[d].blocks, new)
      BY <1>2, <1>5, <1>9, <3>1, <3>2, BeginsOn
    <3> QED
      BY <1>7, <1>8, <2>1, <2>3, <3>3 DEF Follows
  <2> QED
    BY <2>2, <2>3
<1> PICK i : i = Subject(u)
  OBVIOUS
<1> PICK ty : ty = itable[i].fType
  OBVIOUS
<1>16. LinkOK(S, u)' /\ itable'[i].fType = ty
  <2>1. d \in DirsOf(S)'
    BY <1>7, <1>8 DEF DirsOf
  <2>2. CASE u.name \in Dots
    BY <1>5, <1>7, <2>1, <2>2 DEF LinkOK, Subject
  <2>3. CASE u.name \notin Dots
    <3>1. NewName(d, u.name) /\ u.inum \in inodeBitmap \ S /\ Blank(u.inum) /\ i = u.inum
      BY <1>5, <2>3 DEF LinkOK, Subject
    <3>2. NewName(d, u.name)'
      BY <1>11, <3>1 DEF NewName
    <3>3. itable'[i] = itable[i]
      <4>1. i \in Inums /\ i # d
        BY <1>8, <3>1 DEF Typed
      <4> QED
        BY <1>7, <4>1
    <3>4. Blank(i)'
      BY <1>6, <3>1, <3>3 DEF Blank
    <3> QED
      BY <1>5, <1>6, <2>1, <3>1, <3>2, <3>3, <3>4 DEF LinkOK
  <2> QED
    BY <2>2, <2>3
<1>17. Behind(2, i, ty)'
  <2>1. Behind(3, i, ty)
    BY <1>5
  <2>2. 2 \in Nat /\ 2 >= 1 /\ 3 = 2 + 1
    OBVIOUS
  <2>3. Behind(2 + 1, i, ty)
    BY <2>1, <2>2
  <2> QED
    BY <1>1, <1>6, <2>2, <2>3, BehindRest
<1>18. Len(todo') >= 1 /\ todo'[1] = u
  BY <1>1, <1>5, <1>6, RestIs
<1>19. Linking(S)'
  BY <1>5, <1>16, <1>17, <1>18 DEF Linking
<1> QED
  BY <1>13, <1>14, <1>15, <1>19 DEF Tree, Program

-----------------------------------------------------------------------------
(* Freeing. *)

\* What is still to be freed stays so when the step is about another inode.
LEMMA FreeOKKept ==
    ASSUME NEW S, NEW R \in SUBSET S, NEW t, FreeOK(S, t), t.inum \in S => t.inum \in R,
           t.inum \in inodeBitmap => t.inum \in inodeBitmap',
           GetInode(t.inum)' = GetInode(t.inum), DirsOf(R)' = DirsOf(R),
           \A i \in R : (Current(i).blocks)' = Current(i).blocks,
           \A d \in DirsOf(R) : SlotsOf(d)' = SlotsOf(d) /\ Children(d)' = Children(d)
    PROVE  FreeOK(R, t)'
<1>1. DirsOf(R) \subseteq DirsOf(S)
  BY DEF DirsOf
<1>2. CASE t.op = "freeInodeTree" /\ t.inum \in S /\ Unlisted(S, t.inum)
  <2>1. ASSUME NEW d \in DirsOf(R), NEW k \in Children(d) PROVE Inum(d, k)' # t.inum
    BY <1>1, <1>2 DEF Unlisted, Inum
  <2>2. Unlisted(R, t.inum)'
    BY <1>2, <2>1 DEF Unlisted
  <2> QED
    BY <1>2, <2>2 DEF FreeOK
<1>3. CASE t.op = "FreeInodeFromBitmap" /\ t.inum \in inodeBitmap \ S
  BY <1>3 DEF FreeOK
<1>4. CASE /\ t.op = "freeBlocks" /\ t.inum \in inodeBitmap \ S
           /\ \A i \in S : \A k \in DOMAIN Current(i).blocks :
                 Current(i).blocks[k] \notin ToSet(GetInode(t.inum).blocks)
  <2>1. \A i \in R : \A k \in DOMAIN (Current(i).blocks)' :
            (Current(i).blocks[k])' \notin ToSet((GetInode(t.inum).blocks)')
    BY <1>4
  <2>2. ToSet((GetInode(t.inum).blocks)') = ToSet(GetInode(t.inum).blocks)'
    BY DEF ToSet
  <2> QED
    BY <1>4, <2>1, <2>2 DEF FreeOK
<1> QED
  BY <1>2, <1>3, <1>4 DEF FreeOK

LEMMA FreeOKOf ==
    ASSUME NEW R, NEW k, NEW v, v = todo'[k], FreeOK(R, v)'
    PROVE  FreeOK(R, todo[k])'
BY DEF FreeOK, Unlisted

\* s is h, then f, then r.
Splices(s, h, f, r) ==
    /\ Len(s) = Len(h) + 1 + Len(r)
    /\ \A k \in 1 .. (Len(h) + 1 + Len(r)) :
          s[k] = IF k <= Len(h) THEN h[k] ELSE IF k = Len(h) + 1 THEN f ELSE r[k - Len(h) - 1]

LEMMA Between ==
    ASSUME NEW h \in Seq(Task), NEW f \in Task, NEW r \in Seq(Task), NEW s, s = h \o <<f>> \o r
    PROVE  Splices(s, h, f, r)
<1> PICK g : g = h \o <<f>>
  OBVIOUS
<1>1. Len(h) \in Nat /\ Len(r) \in Nat /\ <<f>> \in Seq(Task) /\ Len(<<f>>) = 1 /\ <<f>>[1] = f
  OBVIOUS
<1>2. /\ g \in Seq(Task) /\ Len(g) = Len(h) + 1
      /\ \A k \in 1 .. (Len(h) + 1) : g[k] = IF k <= Len(h) THEN h[k] ELSE <<f>>[k - Len(h)]
  BY <1>1, ConcatProperties
<1>3. \A k \in 1 .. (Len(h) + 1) : g[k] = IF k <= Len(h) THEN h[k] ELSE f
  BY <1>1, <1>2
<1>4. /\ Len(g \o r) = Len(g) + Len(r)
      /\ \A k \in 1 .. (Len(g) + Len(r)) : (g \o r)[k] = IF k <= Len(g) THEN g[k] ELSE r[k - Len(g)]
  BY <1>2, ConcatProperties
<1> QED
  BY <1>1, <1>2, <1>3, <1>4 DEF Splices

\* The first of the inodes to be freed and the others.
LEMMA EmptyingIs ==
    ASSUME Typed, NEW S, Emptying(S), todo # <<>>
    PROVE  /\ Len(todo) \in Nat \ {0} /\ DOMAIN todo = 1 .. Len(todo) /\ 1 \in DOMAIN todo /\ Head(todo) = todo[1]
           /\ FreeOK(S, todo[1]) /\ Len(Rest) = Len(todo) - 1 /\ Rest \in Seq(Task)
           /\ \A k \in 1 .. Len(Rest) : /\ Rest[k] = todo[k + 1] /\ FreeOK(S, Rest[k])
                                        /\ Rest[k].inum # todo[1].inum
                                        /\ \A l \in 1 .. Len(Rest) : Rest[l].inum = Rest[k].inum => l = k
<1>1. /\ Len(todo) \in Nat \ {0} /\ Len(Rest) = Len(todo) - 1 /\ Rest \in Seq(Task) /\ Head(todo) = todo[1]
      /\ \A k \in 1 .. Len(Rest) : Rest[k] = todo[k + 1]
  BY HeadTailProperties DEF Typed, Rest
<1>2. DOMAIN todo = 1 .. Len(todo) /\ 1 \in DOMAIN todo
  BY <1>1 DEF Typed
<1>3. \A k \in 1 .. Len(Rest) : k + 1 \in DOMAIN todo /\ k + 1 # 1 /\ k \in Int
  BY <1>1, <1>2
<1>4. FreeOK(S, todo[1])
  BY <1>2 DEF Emptying
<1>5. ASSUME NEW k \in 1 .. Len(Rest)
      PROVE  /\ FreeOK(S, Rest[k]) /\ Rest[k].inum # todo[1].inum
             /\ \A l \in 1 .. Len(Rest) : Rest[l].inum = Rest[k].inum => l = k
  <2>1. Rest[k] = todo[k + 1] /\ k + 1 \in DOMAIN todo /\ k + 1 # 1
    BY <1>1, <1>3
  <2>2. FreeOK(S, Rest[k]) /\ Rest[k].inum # todo[1].inum
    BY <1>2, <2>1 DEF Emptying
  <2>3. ASSUME NEW l \in 1 .. Len(Rest), Rest[l].inum = Rest[k].inum PROVE l = k
    <3>1. Rest[l] = todo[l + 1] /\ l + 1 \in DOMAIN todo
      BY <1>1, <1>3
    <3>2. l + 1 = k + 1
      BY <2>1, <2>3, <3>1 DEF Emptying
    <3> QED
      BY <1>3, <3>2
  <2> QED
    BY <2>2, <2>3
<1> QED
  BY <1>1, <1>2, <1>4, <1>5

\* The blocks of the inode at hand are blocks of the inode that counts.
LEMMA HandBlocks ==
    ASSUME Typed, NEW S \in SUBSET Inums, Tree(S), Saving = {}, NEW i \in S
    PROVE  /\ GetInode(i).fType = itable[i].fType
           /\ \A b \in ToSet(GetInode(i).blocks) : \E k \in DOMAIN Current(i).blocks : b = Current(i).blocks[k]
<1>1. NodesFine
  BY TypedNodes
<1>2. i \in DOMAIN inodeCache => Follows(inodeCache[i], itable[i], i \in Saving)
  BY DEF Tree, Agree
<1>3. GetInode(i).fType = itable[i].fType
  BY <1>2 DEF GetInode, Follows
<1>4. itable[i].fType \in {"reg", "dir"}
  BY DEF Tree, Live
<1>5. Begins(GetInode(i).blocks, Current(i).blocks)
  <2>1. CASE itable[i].fType = "reg"
    BY <1>1, <2>1 DEF Current, NodesFine, Begins
  <2>2. CASE itable[i].fType = "dir"
    <3>1. Current(i) = itable[i]
      BY <2>2 DEF Current
    <3>2. CASE i \in DOMAIN inodeCache
      BY <1>2, <2>2, <3>1, <3>2 DEF GetInode, Follows
    <3>3. CASE i \notin DOMAIN inodeCache
      BY <1>1, <3>1, <3>3 DEF GetInode, NodesFine, Begins
    <3> QED
      BY <3>2, <3>3
  <2> QED
    BY <1>4, <2>1, <2>2
<1>6. ASSUME NEW b \in ToSet(GetInode(i).blocks)
      PROVE  \E k \in DOMAIN Current(i).blocks : b = Current(i).blocks[k]
  <2>0. /\ DOMAIN GetInode(i).blocks = 1 .. Len(GetInode(i).blocks) /\ Len(GetInode(i).blocks) \in Nat
        /\ DOMAIN Current(i).blocks = 1 .. Len(Current(i).blocks) /\ Len(Current(i).blocks) \in Nat
    BY <1>1 DEF NodesFine
  <2>1. PICK k \in DOMAIN GetInode(i).blocks : b = GetInode(i).blocks[k]
    BY DEF ToSet
  <2> QED
    BY <1>5, <2>0, <2>1 DEF Begins
<1> QED
  BY <1>3, <1>6

\* freeInodeTree of an inode that nothing lists: its children become unlisted
\* when it leaves the tree.
LEMMA FreeTreeKeeps ==
    ASSUME Typed, Typed', NEW S \in SUBSET Inums, Tree(S), Program(S), freeInodeTree, UNCHANGED blind
    PROVE  \E R \in SUBSET Inums : Tree(R)' /\ Program(R)'
<1> PICK t, i, rest : t = Head(todo) /\ i = t.inum /\ rest = Rest
  OBVIOUS
<1>k. PICK kids : kids = IF GetInode(i).fType = "dir" THEN Children(i) ELSE {}
  OBVIOUS
<1>h. PICK c, h : /\ c = Cardinality(kids)
                  /\ h = [r \in 1 .. c |-> [op |-> "freeInodeTree", inum |-> SlotsOf(i)[Nth(kids, r - 1)].inum]]
  OBVIOUS
<1> DEFINE f == [op |-> "freeBlocks", inum |-> i]
           R == S \ {i}
<1>0. Now("freeInodeTree")
  BY DEF freeInodeTree
<1>1. t = todo[1] /\ t.op = "freeInodeTree" /\ todo # <<>>
  BY <1>0, NowIs
<1>2. Emptying(S) /\ ~Writing(S)
  BY <1>0, <1>1, Forms DEF Writing
<1>3. Saving = {}
  BY <1>2, NoSaving
<1>4. i \in S /\ i \in Inums /\ Unlisted(S, i) /\ i # ROOT
  <2>1. FreeOK(S, t)
    BY <1>1, <1>2, EmptyingIs
  <2> QED
    BY <1>1, <2>1 DEF FreeOK, Unlisted
<1>5. /\ Len(rest) \in Nat /\ rest \in Seq(Task)
      /\ \A k \in 1 .. Len(rest) : /\ FreeOK(S, rest[k]) /\ rest[k].inum # i
                                   /\ \A l \in 1 .. Len(rest) : rest[l].inum = rest[k].inum => l = k
  BY <1>1, <1>2, EmptyingIs
<1>6. /\ inodeCache' = Cached({i}) /\ todo' = h \o <<f>> \o rest
      /\ UNCHANGED <<inodeBitmap, itable, dataBitmap, blk>>
  BY <1>4, <1>k, <1>h, Zenon DEF freeInodeTree, disk
<1>7. Live(S) /\ Closed(S) /\ Once(S) /\ Owned(S)
  BY DEF Tree
<1>8. \A j \in Inums : /\ GetInode(j)' = GetInode(j)
                       /\ j \in DOMAIN inodeCache' => inodeCache'[j] = GetInode(j)
  <2>1. {i} \in SUBSET Inums
    BY <1>4
  <2>2. /\ DOMAIN Cached({i}) = DOMAIN inodeCache \cup {i}
        /\ \A j \in DOMAIN Cached({i}) : Cached({i})[j] = GetInode(j)
    BY <2>1, CachedTyped
  <2> QED
    BY <1>6, <2>2 DEF GetInode
<1>9. R \in SUBSET S /\ ROOT \in R /\ R \subseteq inodeBitmap' /\ \A j \in S \ R : Unlisted(S, j)
  BY <1>4, <1>6, <1>7 DEF Live
<1>10. /\ Tree(R)' /\ DirsOf(R)' = DirsOf(R)
       /\ \A j \in R : (Current(j).blocks)' = Current(j).blocks
       /\ \A d \in DirsOf(R) : SlotsOf(d)' = SlotsOf(d) /\ Children(d)' = Children(d)
  <2>1. \A j \in R : \A k \in DOMAIN Current(j).blocks : Current(j).blocks[k] \in dataBitmap'
    BY <1>6, <1>7 DEF Owned
  <2> HIDE DEF R
  <2> QED
    BY <1>3, <1>6, <1>8, <1>9, <2>1, TreeKept
<1>11. kids \subseteq Nat /\ IsFiniteSet(kids) /\ c \in Nat /\ kids \subseteq Children(i) /\ (kids # {} => i \in DirsOf(S))
  <2>1. kids \subseteq Nat /\ IsFiniteSet(kids) /\ kids \subseteq Children(i)
    BY <1>4, <1>k, SlotsTyped, FS_EmptySet
  <2>2. c \in Nat
    BY <1>h, <2>1, FS_CardinalityType
  <2>3. GetInode(i).fType = itable[i].fType
    BY <1>3, <1>4, HandBlocks
  <2> QED
    BY <1>4, <1>k, <2>1, <2>2, <2>3 DEF DirsOf
<1>12. ASSUME NEW r \in 1 .. c
       PROVE  Nth(kids, r - 1) \in kids /\ h[r].op = "freeInodeTree" /\ h[r].inum = Inum(i, Nth(kids, r - 1))
  <2>1. r - 1 \in Nat /\ r - 1 < c
    BY <1>11
  <2>2. Nth(kids, r - 1) \in kids
    BY <1>11, <1>h, <2>1, NthIs
  <2>3. h[r] = [op |-> "freeInodeTree", inum |-> SlotsOf(i)[Nth(kids, r - 1)].inum]
    BY <1>h
  <2> QED
    BY <2>2, <2>3 DEF Inum
<1>12a. ASSUME NEW q \in 1 .. c, NEW r \in 1 .. c, Nth(kids, q - 1) = Nth(kids, r - 1) PROVE q = r
  <2> DEFINE below(x) == Cardinality({y \in kids : y < x})
  <2>1. q - 1 \in Nat /\ q - 1 < c /\ r - 1 \in Nat /\ r - 1 < c
    BY <1>11
  <2>2. below(Nth(kids, q - 1)) = q - 1 /\ below(Nth(kids, r - 1)) = r - 1
    BY <1>11, <1>h, <2>1, NthIs
  <2> HIDE DEF below
  <2> QED
    BY <1>12a, <2>1, <2>2
<1>13. ASSUME NEW r \in 1 .. c
       PROVE  FreeOK(R, h[r])' /\ h[r].inum \in S /\ h[r].inum # i /\ ~Unlisted(S, h[r].inum)
  <2> PICK n : n = Nth(kids, r - 1)
    OBVIOUS
  <2>1. n \in Children(i) /\ i \in DirsOf(S) /\ h[r].inum = Inum(i, n) /\ h[r].op = "freeInodeTree"
    BY <1>11, <1>12
  <2>2. h[r].inum \in S \ {ROOT} /\ h[r].inum # i /\ ~Unlisted(S, h[r].inum)
    BY <1>4, <1>7, <2>1 DEF Closed, Unlisted
  <2>3. ASSUME NEW d \in DirsOf(R), NEW k \in Children(d) PROVE Inum(d, k)' # h[r].inum
    <3>1. d \in DirsOf(S) /\ d # i
      BY DEF DirsOf
    <3>2. Inum(d, k) # Inum(i, n)
      BY <1>7, <2>1, <3>1 DEF Once
    <3> QED
      BY <1>10, <2>1, <3>2 DEF Inum
  <2>4. Unlisted(R, h[r].inum)'
    BY <1>10, <2>2, <2>3 DEF Unlisted
  <2> QED
    BY <2>1, <2>2, <2>4 DEF FreeOK
<1>13a. ASSUME NEW q \in 1 .. c, NEW r \in 1 .. c, h[q].inum = h[r].inum PROVE q = r
  <2>1. /\ Nth(kids, q - 1) \in Children(i) /\ Nth(kids, r - 1) \in Children(i) /\ i \in DirsOf(S)
        /\ Inum(i, Nth(kids, q - 1)) = Inum(i, Nth(kids, r - 1))
    BY <1>11, <1>12, <1>13a
  <2>2. Nth(kids, q - 1) = Nth(kids, r - 1)
    BY <1>7, <2>1 DEF Once
  <2> QED
    BY <1>12a, <2>2
<1>14. FreeOK(R, f)' /\ f.inum = i
  <2>1. GetInode(i)' = GetInode(i)
    BY <1>4, <1>8
  <2>2. ASSUME NEW j \in R, NEW k \in DOMAIN Current(j).blocks PROVE Current(j).blocks[k] \notin ToSet(GetInode(i).blocks)
    <3>1. ASSUME Current(j).blocks[k] \in ToSet(GetInode(i).blocks) PROVE FALSE
      <4>1. PICK l \in DOMAIN Current(i).blocks : Current(j).blocks[k] = Current(i).blocks[l]
        BY <1>3, <1>4, <3>1, HandBlocks
      <4>2. i = j
        BY <1>4, <1>7, <4>1 DEF Owned
      <4> QED
        BY <4>2
    <3> QED
      BY <3>1
  <2>3. ToSet(GetInode(i).blocks)' = ToSet(GetInode(i).blocks)
    BY <2>1 DEF ToSet
  <2>4. i \in inodeBitmap' \ R
    BY <1>4, <1>6, <1>7 DEF Live
  <2>5. \A j \in R : \A k \in DOMAIN (Current(j).blocks)' : (Current(j).blocks[k])' \notin ToSet(GetInode(i).blocks)'
    BY <1>10, <2>2, <2>3
  <2>6. f.op = "freeBlocks" /\ f.inum = i
    OBVIOUS
  <2> HIDE DEF f, R
  <2> QED
    BY <2>4, <2>5, <2>6 DEF FreeOK
<1>15. ASSUME NEW l \in 1 .. Len(rest)
       PROVE  /\ FreeOK(R, rest[l])' /\ rest[l].inum # i
              /\ rest[l].inum \notin S \/ Unlisted(S, rest[l].inum)
  <2> PICK v : v = rest[l]
    OBVIOUS
  <2>1. FreeOK(S, v) /\ v.inum # i
    BY <1>5
  <2>2. v.inum \in Inums
    BY <2>1 DEF FreeOK, Typed
  <2>3. GetInode(v.inum)' = GetInode(v.inum)
    BY <1>8, <2>2
  <2>4. (v.inum \in S => v.inum \in R) /\ (v.inum \in inodeBitmap => v.inum \in inodeBitmap')
    BY <1>6, <2>1
  <2>5. FreeOK(R, v)'
    <3> HIDE DEF R
    <3> QED
      BY <1>9, <1>10, <2>1, <2>3, <2>4, FreeOKKept
  <2>6. v.inum \notin S \/ Unlisted(S, v.inum)
    BY <2>1 DEF FreeOK
  <2> QED
    BY <2>1, <2>5, <2>6
<1>15a. ASSUME NEW q \in 1 .. Len(rest), NEW r \in 1 .. Len(rest), rest[q].inum = rest[r].inum PROVE q = r
  BY <1>5, <1>15a
<1> HIDE DEF R
<1>16. /\ DOMAIN todo' = 1 .. (c + 1 + Len(rest))
       /\ \A k \in 1 .. (c + 1 + Len(rest)) :
             todo'[k] = IF k <= c THEN h[k] ELSE IF k = c + 1 THEN f ELSE rest[k - c - 1]
  <2>1. f \in Task
    BY <1>4, TasksMade
  <2>2. h \in Seq(Task) /\ Len(h) = c
    <3>1. ASSUME NEW r \in 1 .. c
          PROVE  [op |-> "freeInodeTree", inum |-> SlotsOf(i)[Nth(kids, r - 1)].inum] \in Task
      <4>1. SlotsOf(i)[Nth(kids, r - 1)].inum \in Targets
        BY <1>4, <1>11, <1>12, SlotsTyped
      <4> QED
        BY <4>1, TasksMade
    <3> QED
      BY <1>11, <1>h, <3>1
  <2> HIDE DEF f
  <2> PICK s : s = todo'
    OBVIOUS
  <2>3. Splices(s, h, f, rest)
    <3>1. s = h \o <<f>> \o rest
      BY <1>6 DEF f
    <3> QED
      BY <1>5, <2>1, <2>2, <3>1, Between
  <2>4. DOMAIN todo' = 1 .. Len(todo')
    BY DEF Typed
  <2> QED
    BY <2>2, <2>3, <2>4 DEF Splices
<1> HIDE DEF f
<1>17. ASSUME NEW k \in DOMAIN todo'
       PROVE  /\ FreeOK(R, todo[k])'
              /\ \A l \in DOMAIN todo' : todo'[l].inum = todo'[k].inum => k = l
  <2>0. ASSUME NEW n \in DOMAIN todo'
        PROVE  \/ n \in 1 .. c /\ todo'[n] = h[n]
               \/ n = c + 1 /\ todo'[n] = f
               \/ n - c - 1 \in 1 .. Len(rest) /\ todo'[n] = rest[n - c - 1]
    BY <1>5, <1>11, <1>16
  <2>1. FreeOK(R, todo[k])'
    <3>1. PICK v : v = todo'[k] /\ FreeOK(R, v)'
      BY <1>13, <1>14, <1>15, <2>0
    <3> QED
      BY <3>1, FreeOKOf
  <2>2. ASSUME NEW l \in DOMAIN todo', todo'[l].inum = todo'[k].inum PROVE k = l
    <3>0. k \in Int /\ l \in Int /\ c \in Int
      BY <1>5, <1>11, <1>16
    <3> DEFINE L == {j \in S : ~Unlisted(S, j)}
    <3>a. \A r \in 1 .. c : h[r].inum \in L
      BY <1>13
    <3>b. i \notin L /\ f.inum = i
      BY <1>4, <1>14
    <3>c. \A r \in 1 .. Len(rest) : rest[r].inum \notin L /\ rest[r].inum # i
      BY <1>15
    <3> HIDE DEF L
    <3>1. CASE k \in 1 .. c /\ todo'[k] = h[k]
      <4>1. l \in 1 .. c /\ todo'[l] = h[l]
        BY <2>0, <2>2, <3>a, <3>b, <3>c, <3>1
      <4> QED
        BY <1>13a, <2>2, <3>1, <4>1
    <3>2. CASE k = c + 1 /\ todo'[k] = f
      <4>1. l = c + 1
        BY <2>0, <2>2, <3>a, <3>b, <3>c, <3>2
      <4> QED
        BY <3>2, <4>1
    <3>3. CASE k - c - 1 \in 1 .. Len(rest) /\ todo'[k] = rest[k - c - 1]
      <4>1. l - c - 1 \in 1 .. Len(rest) /\ todo'[l] = rest[l - c - 1]
        BY <2>0, <2>2, <3>a, <3>b, <3>c, <3>3
      <4>2. l - c - 1 = k - c - 1
        BY <1>15a, <2>2, <3>3, <4>1
      <4> QED
        BY <3>0, <4>2
    <3> QED
      BY <2>0, <3>1, <3>2, <3>3
  <2> QED
    BY <2>1, <2>2
<1>18. Emptying(R)'
  BY <1>17 DEF Emptying
<1>19. R \in SUBSET Inums
  BY <1>9
<1> QED
  BY <1>10, <1>18, <1>19 DEF Program

\* An inode outside the tree loses its blocks.
LEMMA FreeBlocksKeeps ==
    ASSUME Typed, Typed', NEW S \in SUBSET Inums, Tree(S), Program(S), freeBlocks, UNCHANGED blind
    PROVE  Tree(S)' /\ Program(S)'
<1> PICK t, i, rest : t = Head(todo) /\ i = t.inum /\ rest = Rest
  OBVIOUS
<1> DEFINE f == [op |-> "FreeInodeFromBitmap", inum |-> i]
<1>0. Now("freeBlocks")
  BY DEF freeBlocks
<1>1. t = todo[1] /\ t.op = "freeBlocks" /\ todo # <<>>
  BY <1>0, NowIs
<1>2. Emptying(S) /\ ~Writing(S)
  BY <1>0, <1>1, Forms DEF Writing
<1>3. Saving = {}
  BY <1>2, NoSaving
<1>4. /\ i \in inodeBitmap \ S /\ i \in Inums
      /\ \A j \in S : \A k \in DOMAIN Current(j).blocks : Current(j).blocks[k] \notin ToSet(GetInode(i).blocks)
  <2>1. FreeOK(S, t)
    BY <1>1, <1>2, EmptyingIs
  <2> QED
    BY <1>1, <2>1 DEF FreeOK, Typed
<1>5. /\ Len(rest) \in Nat /\ rest \in Seq(Task)
      /\ \A k \in 1 .. Len(rest) : /\ FreeOK(S, rest[k]) /\ rest[k].inum # i
                                   /\ \A l \in 1 .. Len(rest) : rest[l].inum = rest[k].inum => l = k
  BY <1>1, <1>2, EmptyingIs
<1>6. /\ dataBitmap' = dataBitmap \ ToSet(GetInode(i).blocks)
      /\ inodeCache' = [Cached({i}) EXCEPT ![i].blocks = <<>>]
      /\ todo' = <<f>> \o rest
      /\ UNCHANGED <<inodeBitmap, itable, blk>>
  BY DEF freeBlocks
<1>7. \A j \in Inums \ {i} : /\ GetInode(j)' = GetInode(j)
                             /\ j \in DOMAIN inodeCache' => inodeCache'[j] = GetInode(j)
  <2>1. {i} \in SUBSET Inums
    BY <1>4
  <2> PICK ch : ch = Cached({i})
    OBVIOUS
  <2>2. /\ DOMAIN ch = DOMAIN inodeCache \cup {i} /\ ch \in [DOMAIN ch -> Node]
        /\ \A j \in DOMAIN ch : ch[j] = GetInode(j)
    BY <2>1, CachedTyped
  <2>3. inodeCache' = [ch EXCEPT ![i] = [ch[i] EXCEPT !.blocks = <<>>]]
    BY <1>6
  <2>4. DOMAIN inodeCache' = DOMAIN inodeCache \cup {i} /\ \A j \in DOMAIN ch : j # i => inodeCache'[j] = ch[j]
    BY <2>2, <2>3
  <2> QED
    BY <1>6, <2>2, <2>4 DEF GetInode
<1>8. /\ Tree(S)' /\ DirsOf(S)' = DirsOf(S)
      /\ \A j \in S : (Current(j).blocks)' = Current(j).blocks
      /\ \A d \in DirsOf(S) : SlotsOf(d)' = SlotsOf(d) /\ Children(d)' = Children(d)
  <2>1. \A j \in S : \A k \in DOMAIN Current(j).blocks : Current(j).blocks[k] \in dataBitmap'
    BY <1>4, <1>6 DEF Tree, Owned
  <2>2. ROOT \in S /\ S \subseteq inodeBitmap' /\ S \in SUBSET S /\ \A j \in S \ S : Unlisted(S, j)
    BY <1>6 DEF Tree, Live
  <2>3. \A j \in S : itable'[j] = itable[j] /\ (j \in DOMAIN inodeCache' => inodeCache'[j] = GetInode(j))
    BY <1>4, <1>6, <1>7
  <2> QED
    BY <1>3, <1>6, <2>1, <2>2, <2>3, TreeKept
<1>9. FreeOK(S, f)' /\ f.inum = i
  BY <1>4, <1>6 DEF FreeOK
<1>10. ASSUME NEW l \in 1 .. Len(rest) PROVE FreeOK(S, rest[l])'
  <2> PICK v : v = rest[l]
    OBVIOUS
  <2>1. FreeOK(S, v) /\ v.inum # i
    BY <1>5
  <2>2. v.inum \in Inums \ {i}
    BY <2>1 DEF FreeOK, Typed
  <2>3. GetInode(v.inum)' = GetInode(v.inum)
    BY <1>7, <2>2
  <2>4. S \in SUBSET S /\ (v.inum \in inodeBitmap => v.inum \in inodeBitmap')
    BY <1>6
  <2> QED
    BY <1>8, <2>1, <2>3, <2>4, FreeOKKept
<1>11. /\ DOMAIN todo' = 1 .. (1 + Len(rest)) /\ todo'[1] = f
       /\ \A k \in 1 .. (1 + Len(rest)) : k # 1 => k - 1 \in 1 .. Len(rest) /\ todo'[k] = rest[k - 1]
  <2>1. f \in Task
    BY <1>4, TasksMade
  <2> HIDE DEF f
  <2>2. todo' = <<f>> \o rest
    BY <1>6 DEF f
  <2> QED
    BY <1>5, <2>1, <2>2
<1> HIDE DEF f
<1>12. ASSUME NEW k \in DOMAIN todo'
       PROVE  /\ FreeOK(S, todo[k])'
              /\ \A l \in DOMAIN todo' : todo'[l].inum = todo'[k].inum => k = l
  <2>1. PICK v : v = todo'[k] /\ FreeOK(S, v)'
    BY <1>9, <1>10, <1>11
  <2>2. FreeOK(S, todo[k])'
    BY <2>1, FreeOKOf
  <2>3. ASSUME NEW l \in DOMAIN todo', todo'[l].inum = todo'[k].inum PROVE k = l
    <3>0. k \in Int /\ l \in Int
      BY <1>5, <1>11
    <3>1. \A r \in 1 .. Len(rest) : rest[r].inum # i
      BY <1>5
    <3>2. CASE k = 1
      BY <1>9, <1>11, <2>3, <3>1, <3>2
    <3>3. CASE k # 1
      <4>1. l # 1
        BY <1>9, <1>11, <2>3, <3>1, <3>3
      <4>2. k - 1 = l - 1
        BY <1>5, <1>11, <2>3, <3>3, <4>1
      <4> QED
        BY <3>0, <4>2
    <3> QED
      BY <3>2, <3>3
  <2> QED
    BY <2>2, <2>3
<1>13. Emptying(S)'
  BY <1>12 DEF Emptying
<1> QED
  BY <1>8, <1>13 DEF Program

\* An inode outside the tree loses its bit.
LEMMA FreeInodeKeeps ==
    ASSUME Typed, Typed', NEW S \in SUBSET Inums, Tree(S), Program(S), FreeInodeFromBitmap, UNCHANGED blind
    PROVE  Tree(S)' /\ Program(S)'
<1> PICK t, i, rest : t = Head(todo) /\ i = t.inum /\ rest = Rest
  OBVIOUS
<1>0. Now("FreeInodeFromBitmap")
  BY DEF FreeInodeFromBitmap
<1>1. t = todo[1] /\ t.op = "FreeInodeFromBitmap" /\ todo # <<>>
  BY <1>0, NowIs
<1>2. Emptying(S) /\ ~Writing(S)
  BY <1>0, <1>1, Forms DEF Writing
<1>3. Saving = {}
  BY <1>2, NoSaving
<1>4. i \in inodeBitmap \ S
  <2>1. FreeOK(S, t)
    BY <1>1, <1>2, EmptyingIs
  <2> QED
    BY <1>1, <2>1 DEF FreeOK
<1>5. /\ Len(rest) \in Nat /\ rest \in Seq(Task)
      /\ \A k \in 1 .. Len(rest) : /\ FreeOK(S, rest[k]) /\ rest[k].inum # i
                                   /\ \A l \in 1 .. Len(rest) : rest[l].inum = rest[k].inum => l = k
  BY <1>1, <1>2, EmptyingIs
<1>6. /\ inodeBitmap' = inodeBitmap \ {i} /\ todo' = rest
      /\ inodeCache' = [j \in DOMAIN inodeCache \ {i} |-> inodeCache[j]]
      /\ UNCHANGED <<itable, dataBitmap, blk>>
  BY <1>4 DEF FreeInodeFromBitmap
<1>7. \A j : j # i => /\ GetInode(j)' = GetInode(j)
                      /\ j \in DOMAIN inodeCache' => inodeCache'[j] = GetInode(j)
  BY <1>6 DEF GetInode
<1>8. /\ Tree(S)' /\ DirsOf(S)' = DirsOf(S)
      /\ \A j \in S : (Current(j).blocks)' = Current(j).blocks
      /\ \A d \in DirsOf(S) : SlotsOf(d)' = SlotsOf(d) /\ Children(d)' = Children(d)
  <2>1. S \subseteq inodeBitmap' /\ dataBitmap \subseteq dataBitmap'
    BY <1>4, <1>6 DEF Tree, Live
  <2>2. \A j \in S : itable'[j] = itable[j] /\ (j \in DOMAIN inodeCache' => inodeCache'[j] = GetInode(j))
    BY <1>4, <1>6, <1>7
  <2> QED
    BY <1>3, <1>6, <2>1, <2>2, TreeUntouched
<1>9. ASSUME NEW l \in 1 .. Len(rest) PROVE FreeOK(S, rest[l])'
  <2> PICK v : v = rest[l]
    OBVIOUS
  <2>1. FreeOK(S, v) /\ v.inum # i
    BY <1>5
  <2>2. GetInode(v.inum)' = GetInode(v.inum)
    BY <1>7, <2>1
  <2>3. S \in SUBSET S /\ (v.inum \in inodeBitmap => v.inum \in inodeBitmap')
    BY <1>6, <2>1
  <2> QED
    BY <1>8, <2>1, <2>2, <2>3, FreeOKKept
<1>10. ASSUME NEW k \in DOMAIN todo'
       PROVE  /\ FreeOK(S, todo[k])'
              /\ \A l \in DOMAIN todo' : todo'[l].inum = todo'[k].inum => k = l
  <2>0. k \in 1 .. Len(rest) /\ DOMAIN todo' = 1 .. Len(rest)
    BY <1>5, <1>6
  <2>1. PICK v : v = todo'[k] /\ FreeOK(S, v)'
    BY <1>6, <1>9, <2>0
  <2>2. FreeOK(S, todo[k])'
    BY <2>1, FreeOKOf
  <2> QED
    BY <1>5, <1>6, <2>0, <2>2
<1>11. Emptying(S)'
  BY <1>10 DEF Emptying
<1> QED
  BY <1>8, <1>11 DEF Program

-----------------------------------------------------------------------------
(* Writing a file, and an inode back. *)

\* The inode at hand has to do with the one on disk what a cached one has.
LEMMA HandFollows ==
    ASSUME Typed, NEW S \in SUBSET Inums, Agree(S), NEW i \in S
    PROVE  Follows(GetInode(i), itable[i], i \in Saving)
<1>1. CASE i \in DOMAIN inodeCache
  BY <1>1 DEF Agree, GetInode
<1>2. CASE i \notin DOMAIN inodeCache
  BY <1>2, TypedNodes DEF NodesFine, GetInode, Follows, Begins
<1> QED
  BY <1>1, <1>2

\* The n blocks new are the first of bs, or bs and then free ones.
Resizes(new, bs, n) ==
    /\ new \in Bounded /\ new \in Seq(Blocks) /\ Len(new) = n /\ DOMAIN new = 1 .. n
    /\ Begins(new, bs) \/ Begins(bs, new)
    /\ \A k \in 1 .. n : k \in 1 .. Len(bs) => new[k] = bs[k]
    /\ \A k \in 1 .. n : k \notin 1 .. Len(bs) => new[k] \notin dataBitmap
    /\ \A k, l \in 1 .. n : k \notin 1 .. Len(bs) /\ l \notin 1 .. Len(bs) /\ new[k] = new[l] => k = l

\* Falloc keeps some blocks of a file, or all of them and takes free ones.
LEMMA ResizedBlocks ==
    ASSUME Typed, NEW bs \in Seq(Blocks), NEW n \in Nat, n <= MaxFileBlocks,
           n - Len(bs) <= Cardinality(Blocks \ dataBitmap), NEW new, new = Resized(bs, n)
    PROVE  Resizes(new, bs, n)
<1> DEFINE free == Blocks \ dataBitmap
           below(x) == Cardinality({b \in free : b < x})
<1>0. /\ Resized(bs, n) \in Bounded /\ Len(Resized(bs, n)) = n
      /\ \A k \in 1 .. n : IF k <= Len(bs) THEN Resized(bs, n)[k] = bs[k]
                           ELSE Resized(bs, n)[k] = Nth(Blocks \ dataBitmap, k - Len(bs) - 1)
      /\ \A r \in Nat : r < n - Len(bs) =>
            /\ Nth(Blocks \ dataBitmap, r) \in Blocks \ dataBitmap
            /\ Cardinality({b \in Blocks \ dataBitmap : b < Nth(Blocks \ dataBitmap, r)}) = r
  BY ResizedIs, Zenon
<1>1. /\ new \in Bounded /\ Len(new) = n /\ Len(bs) \in Nat
      /\ \A k \in 1 .. n : IF k <= Len(bs) THEN new[k] = bs[k] ELSE new[k] = Nth(free, k - Len(bs) - 1)
      /\ \A r \in Nat : r < n - Len(bs) => Nth(free, r) \in free /\ below(Nth(free, r)) = r
  <2>1. Len(bs) \in Nat
    OBVIOUS
  <2> QED
    BY <1>0, <2>1, Zenon
<1>2. new \in Seq(Blocks) /\ DOMAIN new = 1 .. n
  BY <1>1 DEF Bounded
<1> HIDE DEF free, below
<1>3. \A k \in 1 .. n : k \in 1 .. Len(bs) => new[k] = bs[k]
  BY <1>1
<1>4. ASSUME NEW k \in 1 .. n, k \notin 1 .. Len(bs)
      PROVE  new[k] \in free /\ below(new[k]) = k - Len(bs) - 1
  <2>1. ~(k <= Len(bs)) /\ k - Len(bs) - 1 \in Nat /\ k - Len(bs) - 1 < n - Len(bs)
    BY <1>1, <1>4
  <2>2. new[k] = Nth(free, k - Len(bs) - 1)
    BY <1>1, <2>1
  <2> QED
    BY <1>1, <2>1, <2>2
<1>5. \A k \in 1 .. n : k \notin 1 .. Len(bs) => new[k] \notin dataBitmap
  BY <1>4 DEF free
<1>6. ASSUME NEW k \in 1 .. n, NEW l \in 1 .. n, k \notin 1 .. Len(bs), l \notin 1 .. Len(bs), new[k] = new[l]
      PROVE  k = l
  <2>1. k - Len(bs) - 1 = l - Len(bs) - 1
    BY <1>4, <1>6
  <2> QED
    BY <1>1, <2>1
<1>7. Begins(new, bs) \/ Begins(bs, new)
  <2>1. CASE n <= Len(bs)
    BY <1>1, <1>3, <2>1 DEF Begins
  <2>2. CASE Len(bs) <= n
    BY <1>1, <1>3, <2>2 DEF Begins
  <2> QED
    BY <1>1, <2>1, <2>2
<1> QED
  BY <1>1, <1>2, <1>3, <1>5, <1>6, <1>7 DEF Resizes

\* Falloc of a file: its blocks are its own, and go on those it had.
LEMMA FallocKeeps ==
    ASSUME Typed, Typed', NEW S \in SUBSET Inums, Tree(S), Program(S), Falloc, UNCHANGED blind
    PROVE  Tree(S)' /\ Program(S)'
<1> PICK t, i, n : t = Head(todo) /\ i = t.inum /\ n = t.len
  OBVIOUS
<1> PICK bs : bs = GetInode(i).blocks
  OBVIOUS
<1>n. PICK new : new = Resized(bs, n)
  OBVIOUS
<1>0. Now("Falloc")
  BY DEF Falloc
<1>1. t \in Task /\ t = todo[1] /\ t.op = "Falloc" /\ todo # <<>>
  BY <1>0, NowIs
<1>2. i \in Inums /\ n \in Nat
  BY <1>1, TaskIs
<1>3. Truncating(S) /\ ~Writing(S)
  BY <1>0, <1>1, Forms DEF Writing
<1>4. Saving = {}
  BY <1>3, NoSaving
<1>5. Len(todo) = 1 /\ i \in S /\ itable[i].fType = "reg"
  BY <1>1, <1>3 DEF Truncating
<1>6. CASE Fail
  BY <1>4, <1>6, Ends
<1>7. CASE ~Fail
  <2>h. PICK h : h = [k \in 1 .. n |-> [op |-> "writeDataBlock", inum |-> i, at |-> k]]
    OBVIOUS
  <2>1. /\ ~TooLarge(n) /\ n - Len(bs) <= Cardinality(Blocks \ dataBitmap)
        /\ dataBitmap' = MarkBlocks(ToSet(new)) \ (ToSet(bs) \ ToSet(new))
        /\ inodeCache' = [Cached({i}) EXCEPT ![i].blocks = new]
        /\ todo' = h \o Save(i) \o Rest
        /\ UNCHANGED <<inodeBitmap, itable, blk>>
    BY <1>7, <1>n, <2>h, Zenon DEF Falloc, Resized
  <2>2. bs \in Seq(Blocks) /\ DOMAIN bs = 1 .. Len(bs) /\ Len(bs) \in Nat
    BY <1>2, TypedNodes DEF NodesFine
  <2>3. n <= MaxFileBlocks
    BY <1>2, <2>1, Constants DEF TooLarge
  <2>R. Resizes(new, bs, n)
    BY <1>2, <1>n, <2>1, <2>2, <2>3, ResizedBlocks
  <2>4. /\ new \in Bounded /\ new \in Seq(Blocks) /\ Len(new) = n /\ DOMAIN new = 1 .. n
        /\ Begins(new, bs) \/ Begins(bs, new)
    BY <2>R DEF Resizes
  <2>4a. /\ \A k \in 1 .. n : k \in 1 .. Len(bs) => new[k] = bs[k]
         /\ \A k \in 1 .. n : k \notin 1 .. Len(bs) => new[k] \notin dataBitmap
    BY <2>R DEF Resizes
  <2>4b. \A k, l \in 1 .. n : k \notin 1 .. Len(bs) /\ l \notin 1 .. Len(bs) /\ new[k] = new[l] => k = l
    BY <2>R DEF Resizes
  <2> PICK ch : ch = Cached({i})
    OBVIOUS
  <2>5. /\ DOMAIN ch = DOMAIN inodeCache \cup {i} /\ ch \in [DOMAIN ch -> Node]
        /\ \A j \in DOMAIN ch : ch[j] = GetInode(j)
    <3>1. {i} \in SUBSET Inums
      BY <1>2
    <3> QED
      BY <3>1, CachedTyped
  <2>6. /\ DOMAIN inodeCache' = DOMAIN inodeCache \cup {i}
        /\ \A j \in DOMAIN inodeCache' : j # i => inodeCache'[j] = GetInode(j)
        /\ inodeCache'[i].blocks = new
        /\ inodeCache'[i].fType = GetInode(i).fType /\ inodeCache'[i].owner = GetInode(i).owner
    <3>1. inodeCache' = [ch EXCEPT ![i] = [ch[i] EXCEPT !.blocks = new]]
      BY <2>1
    <3>2. ch[i] \in Node /\ i \in DOMAIN ch
      BY <2>5
    <3>3. inodeCache'[i] = [ch[i] EXCEPT !.blocks = new]
      BY <2>5, <3>1, <3>2
    <3>4. DOMAIN inodeCache' = DOMAIN ch /\ \A j \in DOMAIN ch : j # i => inodeCache'[j] = ch[j]
      BY <2>5, <3>1
    <3>5. /\ inodeCache'[i].blocks = new /\ inodeCache'[i].fType = ch[i].fType /\ inodeCache'[i].owner = ch[i].owner
      BY <2>4, <3>2, <3>3, NodeWith
    <3> QED
      BY <2>5, <3>2, <3>4, <3>5
  <2>7. Live(S) /\ Closed(S) /\ Once(S) /\ Unique(S) /\ Owned(S) /\ Agree(S)
    BY DEF Tree
  <2>8. /\ (Current(i).blocks)' = new /\ Current(i).blocks = bs
        /\ \A j \in S : j # i => (Current(j).blocks)' = Current(j).blocks
    BY <1>5, <2>1, <2>6 DEF Current, GetInode
  <2>9. Live(S)' /\ Closed(S)' /\ Once(S)' /\ Unique(S)'
    <3>1. ROOT \in S /\ S \subseteq inodeBitmap' /\ S \in SUBSET S /\ \A j \in S : itable'[j].fType = itable[j].fType
      BY <2>1, <2>7 DEF Live
    <3>2. \A j \in S \ S : Unlisted(S, j)
      OBVIOUS
    <3>3. \A d : SlotsOf(d)' = SlotsOf(d) /\ Children(d)' = Children(d)
      BY <2>1 DEF SlotsOf, Children
    <3> QED
      BY <2>7, <3>1, <3>2, <3>3, NamesKept
  <2>10. Owned(S)'
    <3>1. ASSUME NEW j \in S, NEW k \in DOMAIN (Current(j).blocks)'
          PROVE  \/ k \in DOMAIN Current(j).blocks /\ (Current(j).blocks[k])' = Current(j).blocks[k]
                 \/ j = i /\ k \in 1 .. n /\ k \notin 1 .. Len(bs) /\ (Current(j).blocks[k])' = new[k]
      BY <2>2, <2>4, <2>4a, <2>8
    <3>2. ASSUME NEW j \in S, NEW k \in DOMAIN (Current(j).blocks)' PROVE (Current(j).blocks[k])' \in dataBitmap'
      <4>1. CASE j = i
        BY <2>1, <2>4, <2>8, <4>1 DEF ToSet, MarkBlocks
      <4>2. CASE j # i
        <5>1. k \in DOMAIN Current(j).blocks /\ (Current(j).blocks[k])' = Current(j).blocks[k]
          BY <2>8, <4>2
        <5>2. Current(j).blocks[k] \in dataBitmap /\ \A l \in 1 .. Len(bs) : Current(j).blocks[k] # bs[l]
          BY <1>5, <2>2, <2>7, <2>8, <4>2, <5>1 DEF Owned
        <5> QED
          BY <2>1, <2>2, <5>1, <5>2 DEF ToSet, MarkBlocks
      <4> QED
        BY <4>1, <4>2
    <3> SUFFICES ASSUME NEW j \in S, NEW m \in S,
                        NEW k \in DOMAIN (Current(j).blocks)', NEW l \in DOMAIN (Current(m).blocks)',
                        (Current(j).blocks[k])' = (Current(m).blocks[l])'
                 PROVE  j = m /\ k = l
      BY <3>2 DEF Owned
    <3>2a. \A x \in S : \A y \in DOMAIN Current(x).blocks : Current(x).blocks[y] \in dataBitmap
      BY <2>7 DEF Owned
    <3>3. CASE /\ k \in DOMAIN Current(j).blocks /\ (Current(j).blocks[k])' = Current(j).blocks[k]
               /\ l \in DOMAIN Current(m).blocks /\ (Current(m).blocks[l])' = Current(m).blocks[l]
      <4>1. Current(j).blocks[k] = Current(m).blocks[l]
        BY <3>3
      <4> QED
        BY <2>7, <3>3, <4>1 DEF Owned
    <3>4. CASE /\ j = i /\ k \in 1 .. n /\ k \notin 1 .. Len(bs) /\ (Current(j).blocks[k])' = new[k]
               /\ m = i /\ l \in 1 .. n /\ l \notin 1 .. Len(bs) /\ (Current(m).blocks[l])' = new[l]
      <4>1. new[k] = new[l]
        BY <3>4
      <4>2. k = l
        BY <2>4b, <3>4, <4>1
      <4> QED
        BY <3>4, <4>2
    <3>5. CASE /\ k \in DOMAIN Current(j).blocks /\ (Current(j).blocks[k])' = Current(j).blocks[k]
               /\ m = i /\ l \in 1 .. n /\ l \notin 1 .. Len(bs) /\ (Current(m).blocks[l])' = new[l]
      <4>1. Current(j).blocks[k] = new[l]
        BY <3>5
      <4>2. new[l] \notin dataBitmap
        BY <2>4a, <3>5
      <4> QED
        BY <3>2a, <3>5, <4>1, <4>2
    <3>6. CASE /\ j = i /\ k \in 1 .. n /\ k \notin 1 .. Len(bs) /\ (Current(j).blocks[k])' = new[k]
               /\ l \in DOMAIN Current(m).blocks /\ (Current(m).blocks[l])' = Current(m).blocks[l]
      <4>1. new[k] = Current(m).blocks[l]
        BY <3>6
      <4>2. new[k] \notin dataBitmap
        BY <2>4a, <3>6
      <4> QED
        BY <3>2a, <3>6, <4>1, <4>2
    <3> QED
      BY <3>1, <3>3, <3>4, <3>5, <3>6
  <2>11. /\ DOMAIN todo' = 1 .. (n + 1) /\ Len(todo') = n + 1
         /\ \A k \in 1 .. n : todo'[k].op = "writeDataBlock" /\ todo'[k].inum = i /\ todo'[k].at = k
         /\ todo'[n + 1].op = "writeInode" /\ todo'[n + 1].inum = i
    <3> DEFINE f == [op |-> "writeInode", inum |-> i]
    <3>1. h \in Seq(Task) /\ Len(h) = n /\ f \in Task
      <4>1. \A k \in 1 .. n : [op |-> "writeDataBlock", inum |-> i, at |-> k] \in Task
        <5>1. \A k \in 1 .. n : k \in Nat \ {0}
          BY <1>2
        <5> QED
          BY <1>2, <5>1, TasksMade
      <4>2. f \in Task
        BY <1>2 DEF Task
      <4> QED
        BY <1>2, <2>h, <4>1, <4>2
    <3>2. Rest = <<>> /\ <<>> \in Seq(Task)
      <4>1. Len(Rest) = 0 /\ Rest \in Seq(Task)
        BY <1>0, <1>5, NowIs
      <4> QED
        BY <4>1, EmptySeq
    <3>3. f.op = "writeInode" /\ f.inum = i
      OBVIOUS
    <3> HIDE DEF f
    <3> PICK s : s = todo'
      OBVIOUS
    <3>4. Splices(s, h, f, <<>>)
      <4>1. s = h \o <<f>> \o <<>>
        BY <2>1, <3>2 DEF Save, f
      <4> QED
        BY <3>1, <3>2, <4>1, Between
    <3>5. Len(s) = n + 1 /\ \A k \in 1 .. n : s[k] = h[k]
      BY <1>2, <3>1, <3>4 DEF Splices
    <3>6. s[n + 1] = f
      <4>1. n + 1 \in 1 .. (Len(h) + 1 + Len(<<>>)) /\ ~(n + 1 <= Len(h)) /\ n + 1 = Len(h) + 1
        BY <1>2, <3>1
      <4> QED
        BY <3>4, <4>1 DEF Splices
    <3>7. DOMAIN todo' = 1 .. Len(todo')
      BY DEF Typed
    <3> QED
      BY <2>h, <3>3, <3>5, <3>6, <3>7
  <2>12. Writing(S)'
    <3>1. todo'[1].inum = i /\ todo'[1].op \in {"writeDataBlock", "writeInode"} /\ Len(todo') >= 1
      <4>1. CASE n = 0
        BY <2>11, <4>1
      <4>2. CASE n # 0
        BY <1>2, <2>11, <4>2
      <4> QED
        BY <4>1, <4>2
    <3>2. i \in S \cap DOMAIN inodeCache'
      BY <1>5, <2>6
    <3>3. ASSUME NEW k \in DOMAIN todo'
          PROVE  /\ todo'[k].inum = i
                 /\ k = Len(todo') => todo'[k].op = "writeInode"
                 /\ k # Len(todo') => /\ todo'[k].op = "writeDataBlock" /\ itable'[i].fType = "reg"
                                      /\ todo'[k].at \in DOMAIN inodeCache'[i].blocks
      <4>1. k \in 1 .. n \/ k = n + 1
        BY <1>2, <2>11
      <4>2. CASE k = n + 1
        BY <2>11, <4>2
      <4>3. CASE k \in 1 .. n
        <5>1. k # Len(todo')
          BY <1>2, <2>11, <4>3
        <5>2. itable'[i].fType = "reg" /\ DOMAIN inodeCache'[i].blocks = 1 .. n
          BY <1>5, <2>1, <2>4, <2>6
        <5> QED
          BY <2>11, <4>3, <5>1, <5>2
      <4> QED
        BY <4>1, <4>2, <4>3
    <3> QED
      BY <3>1, <3>2, <3>3 DEF Writing
  <2>13. i \in Saving'
    <3>1. n + 1 \in DOMAIN todo'
      BY <1>2, <2>11
    <3> QED
      BY <2>11, <3>1 DEF Saving
  <2>14. Agree(S)'
    <3> SUFFICES ASSUME NEW j \in S, j \in DOMAIN inodeCache'
                 PROVE  Follows(inodeCache'[j], itable'[j], j \in Saving')
      BY DEF Agree
    <3>1. Follows(GetInode(j), itable[j], j \in Saving) /\ j \notin Saving /\ itable'[j] = itable[j]
      BY <1>4, <2>1, <2>7, HandFollows
    <3>2. CASE j # i
      BY <2>6, <3>1, <3>2 DEF Follows
    <3>3. CASE j = i
      <4>1. bs = itable[i].blocks
        BY <1>5, <3>1, <3>3 DEF Follows
      <4> QED
        BY <1>5, <2>4, <2>6, <2>13, <3>1, <3>3, <4>1 DEF Follows
    <3> QED
      BY <3>2, <3>3
  <2> QED
    BY <2>9, <2>10, <2>12, <2>14 DEF Tree, Program
<1> QED
  BY <1>6, <1>7

\* A block of a file is no block of a directory.
LEMMA WriteBlockKeeps ==
    ASSUME Typed, Typed', NEW S \in SUBSET Inums, Tree(S), Program(S), writeDataBlock, UNCHANGED blind
    PROVE  Tree(S)' /\ Program(S)'
<1> PICK t, i, n : t = Head(todo) /\ i = t.inum /\ n = Len(todo)
  OBVIOUS
<1> PICK b : b = GetInode(i).blocks[t.at]
  OBVIOUS
<1>0. Now("writeDataBlock")
  BY DEF writeDataBlock
<1>1. t = todo[1] /\ t.op = "writeDataBlock" /\ todo # <<>>
  BY <1>0, NowIs
<1>2. Writing(S)
  BY <1>0, Forms
<1>3. /\ blk' = [blk EXCEPT ![b] = [k \in 1 .. EPB |-> Text]] /\ todo' = Rest
      /\ UNCHANGED <<inodeBitmap, itable, dataBitmap, inodeCache, stale, torn>>
  BY DEF writeDataBlock
<1>4. n \in 1 .. n /\ DOMAIN todo = 1 .. n /\ n \in Nat /\ 1 \in 1 .. n /\ Saving = {i}
  BY <1>1, <1>2, SavingIs DEF Typed
<1>5. i \in S /\ i \in DOMAIN inodeCache
  BY <1>1, <1>2 DEF Writing
<1>6. /\ n # 1 /\ itable[i].fType = "reg" /\ t.at \in DOMAIN inodeCache[i].blocks
      /\ \A k \in 1 .. n : todo[k].inum = i
      /\ todo[n].op = "writeInode"
      /\ \A k \in 1 .. n : k # n => todo[k].op = "writeDataBlock" /\ todo[k].at \in DOMAIN inodeCache[i].blocks
  <2>1. \A k \in 1 .. n : /\ todo[k].inum = i
                          /\ k = n => todo[k].op = "writeInode"
                          /\ k # n => /\ todo[k].op = "writeDataBlock" /\ itable[i].fType = "reg"
                                      /\ todo[k].at \in DOMAIN inodeCache[i].blocks
    BY <1>1, <1>2, <1>4 DEF Writing
  <2>2. n # 1
    BY <1>1, <1>4, <2>1
  <2> QED
    BY <1>1, <1>4, <2>1, <2>2
<1>7. /\ DOMAIN todo' = 1 .. (n - 1) /\ Len(todo') = n - 1
      /\ \A k \in 1 .. (n - 1) : todo'[k] = todo[k + 1] /\ k + 1 \in 1 .. n /\ (k = n - 1 <=> k + 1 = n)
      /\ n - 1 \in Nat /\ n - 1 >= 1 /\ n - 1 \in 1 .. (n - 1) /\ 1 \in 1 .. (n - 1)
  <2>1. Len(todo') = n - 1 /\ DOMAIN todo' = 1 .. (n - 1) /\ \A k \in 1 .. (n - 1) : todo'[k] = todo[k + 1]
    BY <1>1, <1>3, RestIs
  <2> QED
    BY <1>4, <1>6, <2>1
<1>8. i \in Saving'
  BY <1>6, <1>7 DEF Saving
<1>9. Writing(S)'
  <2>1. todo'[1].inum = i /\ todo'[1].op \in {"writeDataBlock", "writeInode"}
    BY <1>6, <1>7
  <2>2. ASSUME NEW k \in DOMAIN todo'
        PROVE  /\ todo'[k].inum = i
               /\ k = Len(todo') => todo'[k].op = "writeInode"
               /\ k # Len(todo') => /\ todo'[k].op = "writeDataBlock" /\ itable'[i].fType = "reg"
                                    /\ todo'[k].at \in DOMAIN inodeCache'[i].blocks
    BY <1>3, <1>6, <1>7
  <2> QED
    BY <1>3, <1>5, <1>7, <2>1, <2>2 DEF Writing
<1>10. Tree(S)'
  <2>1. /\ ROOT \in S /\ S \in SUBSET S /\ S \subseteq inodeBitmap' /\ \A j \in S \ S : Unlisted(S, j)
        /\ \A j \in S : \A k \in DOMAIN Current(j).blocks : Current(j).blocks[k] \in dataBitmap'
    BY <1>3 DEF Tree, Live, Owned
  <2>2. \A j \in S : itable'[j] = itable[j] /\ (j \in DOMAIN inodeCache' => inodeCache'[j] = GetInode(j))
    BY <1>3 DEF GetInode
  <2>3. \A j \in S : j \in Saving => j \in DOMAIN inodeCache' /\ j \in Saving'
    BY <1>3, <1>4, <1>5, <1>8
  <2>4. Current(i) = inodeCache[i] /\ GetInode(i) = inodeCache[i] /\ b = Current(i).blocks[t.at]
        /\ t.at \in DOMAIN Current(i).blocks
    BY <1>5, <1>6 DEF Current, GetInode
  <2>5. ASSUME NEW d \in DirsOf(S), NEW k \in 1 .. Len(itable[d].blocks)
        PROVE  blk'[itable[d].blocks[k]] = blk[itable[d].blocks[k]]
    <3>1. d \in S /\ d # i /\ Current(d) = itable[d]
      BY <1>6 DEF DirsOf, Current
    <3>2. k \in DOMAIN itable[d].blocks /\ itable[d].blocks[k] \in Blocks
      BY <3>1, TypedNodes DEF NodesFine
    <3>3. itable[d].blocks[k] # b
      BY <1>5, <2>4, <3>1, <3>2 DEF Tree, Owned
    <3> QED
      BY <1>3, <3>2, <3>3 DEF Typed
  <2> QED
    BY <2>1, <2>2, <2>3, <2>5, TreeKept
<1> QED
  BY <1>9, <1>10 DEF Program

\* The inode on disk becomes the cached one, which begins it if it is a
\* directory's, and which counts anyway if it is a file's.
LEMMA WriteInodeKeeps ==
    ASSUME Typed, Typed', NEW S \in SUBSET Inums, Tree(S), Program(S), writeInode, UNCHANGED blind
    PROVE  Tree(S)' /\ Program(S)'
<1> PICK t, i : t = Head(todo) /\ i = t.inum
  OBVIOUS
<1> PICK c, n : c = inodeCache[i] /\ n = itable[i]
  OBVIOUS
<1>0. Now("writeInode")
  BY DEF writeInode
<1>1. t = todo[1] /\ t.op = "writeInode" /\ todo # <<>>
  BY <1>0, NowIs
<1>2. Writing(S) /\ Len(todo) \in Nat /\ DOMAIN todo = 1 .. Len(todo) /\ Len(todo) # 0 /\ Saving = {i}
  BY <1>0, <1>1, Forms, SavingIs DEF Typed
<1>3. i \in S /\ i \in DOMAIN inodeCache /\ i \in Inums /\ GetInode(i) = c
  BY <1>1, <1>2 DEF Writing, GetInode
<1>4. Len(todo) = 1
  <2>1. 1 \in DOMAIN todo
    BY <1>2
  <2> QED
    BY <1>1, <1>2, <2>1 DEF Writing
<1>5. /\ itable' = [itable EXCEPT ![i] = c] /\ todo' = Rest
      /\ UNCHANGED <<inodeBitmap, dataBitmap, blk, inodeCache, stale, torn>>
  BY <1>3 DEF writeInode
<1>6. todo' = <<>>
  <2>1. Len(Rest) = 0 /\ Rest \in Seq(Task)
    BY <1>0, <1>4, NowIs
  <2> QED
    BY <1>5, <2>1, EmptySeq
<1>7. Program(S)' /\ Saving' = {}
  BY <1>6, NoProgram
<1>8. itable'[i] = c /\ \A j \in Inums : j # i => itable'[j] = itable[j]
  BY <1>3, <1>5 DEF Typed
<1>9. Live(S) /\ Closed(S) /\ Once(S) /\ Unique(S) /\ Owned(S) /\ Agree(S)
  BY DEF Tree
<1>10. /\ c.fType = n.fType /\ n.fType \in {"reg", "dir"}
       /\ n.fType = "dir" => Begins(c.blocks, n.blocks)
  BY <1>3, <1>9 DEF Agree, Follows, Live
<1>11. c.blocks \in Seq(Blocks) /\ n.blocks \in Seq(Blocks)
  BY <1>3, TypedNodes DEF NodesFine
<1>12. Agree(S)'
  <2> SUFFICES ASSUME NEW j \in S, j \in DOMAIN inodeCache'
               PROVE  Follows(inodeCache'[j], itable'[j], j \in Saving')
    BY DEF Agree
  <2>1. CASE j = i
    BY <1>3, <1>5, <1>8, <1>11, <2>1 DEF Follows, Begins
  <2>2. CASE j # i
    <3>1. Follows(inodeCache[j], itable[j], j \in Saving) /\ j \notin Saving /\ itable'[j] = itable[j] /\ inodeCache' = inodeCache
      BY <1>2, <1>5, <1>8, <1>9, <2>2 DEF Agree
    <3> QED
      BY <3>1 DEF Follows
  <2> QED
    BY <2>1, <2>2
<1>13. ASSUME NEW j \in S PROVE Begins(Current(j)'.blocks, Current(j).blocks)
  <2>0. Current(j).blocks \in Seq(Blocks)
    BY TypedNodes DEF NodesFine
  <2>1. CASE j # i \/ n.fType = "reg"
    <3>1. Current(j)' = Current(j)
      BY <1>3, <1>5, <1>8, <1>10, <2>1 DEF Current, GetInode
    <3> QED
      BY <2>0, <3>1 DEF Begins
  <2>2. CASE j = i /\ n.fType = "dir"
    <3>1. Current(j)' = c /\ Current(j) = n
      BY <1>8, <1>10, <2>2 DEF Current
    <3> QED
      BY <1>10, <2>2, <3>1
  <2> QED
    BY <1>10, <2>1, <2>2
<1>14. Owned(S)'
  <2>1. NodesFine /\ NodesFine'
    BY TypedNodes, TypedNext
  <2>2. \A j \in S : \A k \in DOMAIN (Current(j).blocks)' : Current(j).blocks[k] \in dataBitmap'
    <3> SUFFICES ASSUME NEW j \in S, NEW k \in DOMAIN (Current(j).blocks)' PROVE Current(j).blocks[k] \in dataBitmap'
      OBVIOUS
    <3>1. /\ DOMAIN (Current(j).blocks)' = 1 .. Len(Current(j)'.blocks)
          /\ DOMAIN Current(j).blocks = 1 .. Len(Current(j).blocks)
          /\ Len(Current(j)'.blocks) \in Nat /\ Len(Current(j).blocks) \in Nat
      BY <2>1 DEF NodesFine
    <3>2. Begins(Current(j)'.blocks, Current(j).blocks)
      BY <1>13
    <3>3. k \in DOMAIN Current(j).blocks
      BY <3>1, <3>2 DEF Begins
    <3> QED
      BY <1>5, <1>9, <3>3 DEF Owned
  <2>3. S \in SUBSET S
    OBVIOUS
  <2> QED
    BY <1>9, <1>13, <2>2, <2>3, OwnedKept
<1>15. Live(S)' /\ Closed(S)' /\ Once(S)' /\ Unique(S)'
  <2>1. ROOT \in S /\ S \subseteq inodeBitmap' /\ S \in SUBSET S /\ \A j \in S \ S : Unlisted(S, j)
    BY <1>5, <1>9 DEF Live
  <2>2. \A j \in S : itable'[j].fType = itable[j].fType
    BY <1>8, <1>10
  <2>3. ASSUME NEW d \in DirsOf(S), NEW k \in Children(d)' PROVE k \in Children(d) /\ SlotsOf(d)'[k] = SlotsOf(d)[k]
    <3>0. d \in Inums
      BY DEF DirsOf
    <3>1. CASE d # i
      <4>1. SlotsOf(d)' = SlotsOf(d)
        BY <1>5, <1>8, <3>0, <3>1, SlotsAre
      <4> QED
        BY <4>1 DEF Children
    <3>2. CASE d = i
      <4> PICK B : B = blk
        OBVIOUS
      <4>1. SlotsOf(d) = SlotsIn(n.blocks, B) /\ SlotsOf(d)' = SlotsIn(c.blocks, B)
        BY <1>5, <1>8, <3>2, SlotsAre
      <4>2. Begins(c.blocks, n.blocks)
        BY <1>10, <3>2 DEF DirsOf
      <4>3. Extends(n.blocks, c.blocks, B)
        BY <1>11, <4>2, LongerSlots
      <4>4. DOMAIN SlotsIn(n.blocks, B) = Spots(n.blocks) /\ DOMAIN SlotsIn(c.blocks, B) = Spots(c.blocks)
        BY DEF SlotsIn
      <4>5. k \in Spots(c.blocks)
        BY <4>1, <4>4 DEF Children
      <4>6. k \in Spots(n.blocks) /\ SlotsOf(d)'[k] = SlotsOf(d)[k]
        BY <4>1, <4>3, <4>5 DEF Extends
      <4> QED
        BY <4>1, <4>4, <4>6 DEF Children
    <3> QED
      BY <3>1, <3>2
  <2> QED
    BY <1>9, <2>1, <2>2, <2>3, NamesKept
<1> QED
  BY <1>7, <1>12, <1>14, <1>15 DEF Tree

\* The engine is killed and tears no file: what was not yet written back was
\* longer than what is on disk.
LEMMA KillKeeps ==
    ASSUME Typed, Typed', NEW S \in SUBSET Inums, Tree(S), Program(S), Kill, Sane'
    PROVE  Tree(S)' /\ Program(S)'
<1>0. Die /\ UNCHANGED blind
  BY DEF Kill
<1>1. CASE ~Writing(S)
  <2>1. Saving = {}
    BY <1>1, NoSaving
  <2> QED
    BY <1>0, <2>1, Ends
<1>2. CASE Writing(S)
  <2> PICK i : i = todo[1].inum
    OBVIOUS
  <2>1. todo' = <<>> /\ DOMAIN inodeCache' = {} /\ UNCHANGED <<inodeBitmap, itable, dataBitmap, blk>>
    BY <1>0 DEF Die, disk
  <2>2. Program(S)'
    BY <2>1, NoProgram
  <2>3. Saving = {i} /\ Len(todo) \in DOMAIN todo
    BY <1>2, SavingIs
  <2>4. i \in S /\ i \in DOMAIN inodeCache /\ todo[Len(todo)].inum = i /\ todo[Len(todo)].op = "writeInode"
    BY <1>2, <2>3 DEF Writing
  <2>5. ~(itable[i].fType = "reg" /\ Len(GetInode(i).blocks) < Len(itable[i].blocks))
    BY <2>3, <2>4 DEF Kill, Sane
  <2>6. Live(S) /\ Closed(S) /\ Once(S) /\ Unique(S) /\ Owned(S) /\ Agree(S)
    BY DEF Tree
  <2>7. Agree(S)'
    BY <2>1 DEF Agree
  <2>8. Live(S)' /\ Closed(S)' /\ Once(S)' /\ Unique(S)'
    <3>1. ROOT \in S /\ S \subseteq inodeBitmap' /\ S \in SUBSET S /\ \A j \in S : itable'[j].fType = itable[j].fType
      BY <2>1, <2>6 DEF Live
    <3>2. \A j \in S \ S : Unlisted(S, j)
      OBVIOUS
    <3>3. \A d : SlotsOf(d)' = SlotsOf(d) /\ Children(d)' = Children(d)
      BY <2>1 DEF SlotsOf, Children
    <3> QED
      BY <1>0, <2>6, <3>1, <3>2, <3>3, NamesKept
  <2>9. ASSUME NEW j \in S PROVE Begins(Current(j)'.blocks, Current(j).blocks) /\ Current(j)' = itable[j]
    <3>0. Current(j)' = itable[j]
      BY <2>1 DEF Current, GetInode
    <3>1. /\ itable[j].blocks \in Seq(Blocks) /\ Current(j).blocks \in Seq(Blocks) /\ GetInode(j).blocks \in Seq(Blocks)
          /\ Len(itable[j].blocks) \in Nat /\ Len(GetInode(j).blocks) \in Nat
      BY TypedNodes DEF NodesFine
    <3>2. CASE itable[j].fType # "reg"
      BY <3>0, <3>1, <3>2 DEF Current, Begins
    <3>3. CASE itable[j].fType = "reg"
      <4>1. Current(j) = GetInode(j) /\ Follows(GetInode(j), itable[j], j \in Saving)
        BY <2>6, <3>3, HandFollows DEF Current
      <4>2. CASE GetInode(j).blocks = itable[j].blocks
        BY <3>0, <3>1, <4>1, <4>2 DEF Begins
      <4>3. CASE Begins(itable[j].blocks, GetInode(j).blocks)
        BY <3>0, <4>1, <4>3
      <4>4. CASE j = i /\ Begins(GetInode(j).blocks, itable[j].blocks)
        <5>1. Len(GetInode(j).blocks) = Len(itable[j].blocks)
          BY <2>5, <3>1, <3>3, <4>4 DEF Begins
        <5> QED
          BY <3>0, <4>1, <4>4, <5>1 DEF Begins
      <4> QED
        BY <2>3, <3>3, <4>1, <4>2, <4>3, <4>4 DEF Follows
    <3> QED
      BY <3>2, <3>3
  <2>10. Owned(S)'
    <3>1. \A j \in S : \A k \in DOMAIN (Current(j).blocks)' : Current(j).blocks[k] \in dataBitmap'
      <4> SUFFICES ASSUME NEW j \in S, NEW k \in DOMAIN (Current(j).blocks)' PROVE Current(j).blocks[k] \in dataBitmap'
        OBVIOUS
      <4>1. /\ DOMAIN (Current(j).blocks)' = 1 .. Len(Current(j)'.blocks)
            /\ DOMAIN Current(j).blocks = 1 .. Len(Current(j).blocks)
            /\ Len(Current(j)'.blocks) \in Nat /\ Len(Current(j).blocks) \in Nat
        BY TypedNodes, TypedNext DEF NodesFine
      <4>2. Begins(Current(j)'.blocks, Current(j).blocks)
        BY <2>9
      <4>3. k \in DOMAIN Current(j).blocks
        BY <4>1, <4>2 DEF Begins
      <4> QED
        BY <2>1, <2>6, <4>3 DEF Owned
    <3>2. S \in SUBSET S
      OBVIOUS
    <3> QED
      BY <2>6, <2>9, <3>1, <3>2, OwnedKept
  <2> QED
    BY <2>2, <2>7, <2>8, <2>10 DEF Tree
<1> QED
  BY <1>1, <1>2

-----------------------------------------------------------------------------
(* Syscalls. *)

\* The names a path is made of.
Plain == Names \ Dots

\* A walk that has not left the tree.
Within(S, w) == w.inum \in w.seen /\ w.seen \subseteq S

\* A component of a path leads from the tree into the tree.
LEMMA ResolveWithin ==
    ASSUME Typed, NEW S \in SUBSET Inums, Tree(S), Saving = {}, NEW u, NEW w \in Result, Within(S, w),
           NEW nm \in Plain
    PROVE  Within(S, Resolve(u, w, nm))
<1> PICK d, at : d = w.inum /\ at = Find(d, nm)
  OBVIOUS
<1> DEFINE i == SlotsOf(d)[at].inum
<1>1. d \in S /\ d \in Inums
  BY DEF Within
<1>2. \/ Resolve(u, w, nm) = w
      \/ Resolve(u, w, nm) = [w EXCEPT !.err = "ENOTDIR"]
      \/ Resolve(u, w, nm) = [w EXCEPT !.err = "EACCES"]
      \/ Resolve(u, w, nm) = [w EXCEPT !.err = "ENOENT"]
      \/ Resolve(u, w, nm) = [w EXCEPT !.err = "EIO"]
      \/ /\ GetInode(d).fType = "dir" /\ at # 0
         /\ Resolve(u, w, nm) = [w EXCEPT !.inum = i, !.seen = @ \cup {i}]
  BY Zenon DEF Resolve, i
<1>3. ASSUME NEW e PROVE Within(S, [w EXCEPT !.err = e])
  BY DEF Within, Result
<1>4. ASSUME GetInode(d).fType = "dir", at # 0 PROVE i \in S
  <2>1. d \in DirsOf(S)
    <3>1. GetInode(d).fType = itable[d].fType
      BY <1>1, HandBlocks
    <3> QED
      BY <1>1, <1>4, <3>1 DEF DirsOf
  <2>2. at \in DOMAIN SlotsOf(d) /\ SlotsOf(d)[at].inum # 0 /\ SlotsOf(d)[at].name = nm
    BY <1>1, <1>4, FindIs
  <2>3. at \in Children(d)
    BY <2>2 DEF Children, IsChild, Plain, Dots
  <2> QED
    BY <2>1, <2>3 DEF Tree, Closed, Inum
<1> HIDE DEF i
<1>5. i \in S => Within(S, [w EXCEPT !.inum = i, !.seen = @ \cup {i}])
  BY DEF Within, Result
<1> QED
  BY <1>2, <1>3, <1>4, <1>5

\* What is left of a path of plain names.
LEMMA PlainParent ==
    ASSUME NEW path \in Seq(Plain), path # <<>>
    PROVE  Parent(path) \in Seq(Plain) /\ Last(path) \in Plain
<1> DEFINE n == Len(path)
           m == n - 1
<1>1. n \in Nat /\ n # 0 /\ m \in Nat /\ n \in 1 .. n /\ \A k \in 1 .. m : k \in 1 .. n
  BY EmptySeq
<1>2. \A k \in 1 .. m : path[k] \in Plain
  BY <1>1
<1>3. SubSeq(path, 1, m) \in Seq(Plain)
  <2> HIDE DEF m
  <2> QED
    BY <1>1, <1>2, SubSeqProperties
<1>4. Last(path) \in Plain
  BY <1>1 DEF Last
<1> QED
  BY <1>3, <1>4 DEF Parent

LEMMA PlainPath ==
    ASSUME NEW path \in Seq(Names), \A k \in 1 .. Len(path) : path[k] \notin Dots
    PROVE  path \in Seq(Plain)
<1>1. \A k \in 1 .. Len(path) : path[k] \in Names
  OBVIOUS
<1>2. \A k \in 1 .. Len(path) : path[k] \in Plain
  BY <1>1 DEF Plain
<1> QED
  BY <1>2

LEMMA PlainIsNamed ==
    ASSUME NEW path \in Seq(Plain)
    PROVE  path \in Seq(Names)
BY SeqMonotonic DEF Plain

\* A path does not leave the tree.
LEMMA WalkWithin ==
    ASSUME Typed, NEW S \in SUBSET Inums, Tree(S), Saving = {}, NEW u, NEW path \in Seq(Plain)
    PROVE  Within(S, Walk(u, path))
<1> DEFINE M == {n \in Nat : \E p \in Seq(Plain) : Len(p) = n /\ ~Within(S, Walk(u, p))}
<1> SUFFICES ASSUME ~Within(S, Walk(u, path)) PROVE FALSE
  OBVIOUS
<1>1. PICK n \in M : \A m \in M : n <= m
  <2>1. Len(path) \in M
    OBVIOUS
  <2>2. M \subseteq Nat
    OBVIOUS
  <2> HIDE DEF M
  <2> QED
    BY <2>1, <2>2, Least
<1>2. PICK p \in Seq(Plain) : Len(p) = n /\ ~Within(S, Walk(u, p))
  BY <1>1
<1>3. p \in Seq(Names)
  BY PlainIsNamed
<1>4. CASE p = <<>>
  <2>1. ROOT \in S
    BY DEF Tree, Live
  <2>2. Within(S, Start)
    BY <2>1 DEF Start, Within
  <2> QED
    BY <1>2, <1>3, <1>4, <2>2, WalkUnfolds
<1>5. CASE p # <<>>
  <2>1. /\ Parent(p) \in Seq(Names) /\ Len(Parent(p)) = n - 1
        /\ Walk(u, p) = Resolve(u, Walk(u, Parent(p)), Last(p))
    BY <1>2, <1>3, <1>5, WalkUnfolds
  <2>2. Parent(p) \in Seq(Plain) /\ Last(p) \in Plain
    BY <1>5, PlainParent
  <2>3. Len(Parent(p)) \notin M
    BY <1>1, <2>1
  <2>4. Within(S, Walk(u, Parent(p)))
    BY <2>1, <2>2, <2>3
  <2>5. Walk(u, Parent(p)) \in Result
    BY <2>1, WalkTyped
  <2> QED
    BY <1>2, <2>1, <2>2, <2>4, <2>5, ResolveWithin
<1> QED
  BY <1>4, <1>5

\* What the last component of a path has to do with the rest.
LEMMA LastName ==
    ASSUME Typed, NEW S \in SUBSET Inums, Tree(S), Saving = {}, NEW u \in Users, NEW path \in Paths,
           NEW w, NEW p, NEW nm, w = Walk(u, path), p = Walk(u, Parent(path)), nm = Last(path)
    PROVE  /\ Within(S, w) /\ Within(S, p) /\ w \in Result /\ p \in Result
           /\ path = <<>> => w.err = "ok"
           /\ path # <<>> => nm \in Plain
           /\ path # <<>> /\ w.err = "ENOENT" /\ p.err = "ok" =>
                 /\ p.inum \in DirsOf(S)
                 /\ \A k \in Children(p.inum) : SlotsOf(p.inum)[k].name # nm
           /\ path # <<>> /\ w.err = "ok" =>
                 /\ p.err = "ok" /\ p.inum \in DirsOf(S) /\ Find(p.inum, nm) \in Children(p.inum)
                 /\ w.inum = Inum(p.inum, Find(p.inum, nm))
<1>1. /\ w \in Result /\ p \in Result /\ (path = <<>> => w.err = "ok")
      /\ path # <<>> => nm \in Names \ {".", "..", ""}
  BY PathWalks
<1>2. path \in Seq(Plain)
  <2>1. path \in Seq(Names) /\ \A k \in 1 .. Len(path) : path[k] \notin {".", "..", ""}
    BY PathNames
  <2>2. \A k \in 1 .. Len(path) : path[k] \notin Dots
    BY <2>1, Zenon DEF Dots
  <2> QED
    BY <2>1, <2>2, PlainPath
<1>3. Within(S, w)
  BY <1>2, WalkWithin
<1>4. CASE path = <<>>
  <2>1. Parent(path) = <<>>
    BY <1>4, SubSeqEmpty DEF Parent
  <2> QED
    BY <1>1, <1>3, <1>4, <2>1
<1>5. CASE path # <<>>
  <2>1. Parent(path) \in Seq(Plain) /\ nm \in Plain
    BY <1>2, <1>5, PlainParent
  <2>2. Within(S, p)
    BY <2>1, WalkWithin
  <2>3. w = Resolve(u, p, nm)
    BY <1>2, <1>5, PlainIsNamed, WalkUnfolds
  <2> PICK d, at : d = p.inum /\ at = Find(d, nm)
    OBVIOUS
  <2>4. d \in S /\ d \in Inums /\ GetInode(d).fType = itable[d].fType
    <3>1. d \in S
      BY <2>2 DEF Within
    <3> QED
      BY <3>1, HandBlocks
  <2> DEFINE i == SlotsOf(d)[at].inum
  <2>5. /\ p.err # "ok" => w = p
        /\ p.err = "ok" => \/ w = [p EXCEPT !.err = "ENOTDIR"] \/ w = [p EXCEPT !.err = "EACCES"]
                           \/ GetInode(d).fType = "dir" /\ at = 0 /\ w = [p EXCEPT !.err = "ENOENT"]
                           \/ w = [p EXCEPT !.err = "EIO"]
                           \/ /\ GetInode(d).fType = "dir" /\ at # 0
                              /\ w = [p EXCEPT !.inum = i, !.seen = @ \cup {i}]
    BY <2>3, Zenon DEF Resolve, i
  <2> HIDE DEF i
  <2>6. ASSUME NEW e PROVE [p EXCEPT !.err = e].err = e
    BY <1>1 DEF Result
  <2>7. [p EXCEPT !.inum = i, !.seen = @ \cup {i}].err = p.err /\ [p EXCEPT !.inum = i, !.seen = @ \cup {i}].inum = i
    BY <1>1 DEF Result
  <2>8. ASSUME w.err = "ENOENT", p.err = "ok"
        PROVE  d \in DirsOf(S) /\ \A k \in Children(d) : SlotsOf(d)[k].name # nm
    <3>1. GetInode(d).fType = "dir" /\ at = 0
      BY <2>5, <2>6, <2>7, <2>8
    <3>2. d \in DirsOf(S)
      BY <2>4, <3>1 DEF DirsOf
    <3>3. \A j \in DOMAIN SlotsOf(d) : ~(SlotsOf(d)[j].inum # 0 /\ SlotsOf(d)[j].name = nm)
      <4>1. 0 \notin DOMAIN SlotsOf(d)
        <5> PICK m : m = Len(itable[d].blocks) * EPB
          OBVIOUS
        <5>1. DOMAIN SlotsOf(d) = 1 .. m
          BY <2>4, TypedSlots DEF SlotsFine
        <5>2. 0 \notin 1 .. m
          OBVIOUS
        <5> QED
          BY <5>1, <5>2
      <4> QED
        <5>0. \/ /\ Find(d, nm) = 0
                 /\ \A j \in DOMAIN SlotsOf(d) : ~(SlotsOf(d)[j].inum # 0 /\ SlotsOf(d)[j].name = nm)
              \/ /\ Find(d, nm) \in DOMAIN SlotsOf(d)
                 /\ SlotsOf(d)[Find(d, nm)].inum # 0 /\ SlotsOf(d)[Find(d, nm)].name = nm
          BY <2>4, FindIs
        <5>1. \/ at = 0 /\ \A j \in DOMAIN SlotsOf(d) : ~(SlotsOf(d)[j].inum # 0 /\ SlotsOf(d)[j].name = nm)
              \/ at \in DOMAIN SlotsOf(d) /\ SlotsOf(d)[at].inum # 0 /\ SlotsOf(d)[at].name = nm
          BY <5>0, Zenon
        <5> QED
          BY <3>1, <4>1, <5>1, Zenon
    <3> QED
      BY <3>2, <3>3 DEF Children, IsChild
  <2>9. ASSUME w.err = "ok"
        PROVE  p.err = "ok" /\ d \in DirsOf(S) /\ at \in Children(d) /\ w.inum = Inum(d, at)
    <3>1. p.err = "ok"
      BY <2>5, <2>9
    <3>2. GetInode(d).fType = "dir" /\ at # 0 /\ w.inum = i
      <4> PICK x : x = [p EXCEPT !.inum = i, !.seen = @ \cup {i}]
        OBVIOUS
      <4>1. w # [p EXCEPT !.err = "ENOTDIR"] /\ w # [p EXCEPT !.err = "EACCES"]
            /\ w # [p EXCEPT !.err = "ENOENT"] /\ w # [p EXCEPT !.err = "EIO"]
        BY <2>6, <2>9
      <4>2. GetInode(d).fType = "dir" /\ at # 0 /\ w = x
        BY <2>5, <3>1, <4>1
      <4> QED
        BY <2>7, <4>2
    <3>3. d \in DirsOf(S)
      BY <2>4, <3>2 DEF DirsOf
    <3>4. at \in DOMAIN SlotsOf(d) /\ SlotsOf(d)[at].inum # 0 /\ SlotsOf(d)[at].name = nm
      BY <2>4, <3>2, FindIs
    <3>5. at \in Children(d)
      BY <2>1, <3>4 DEF Children, IsChild, Plain, Dots
    <3> QED
      BY <3>1, <3>2, <3>3, <3>5 DEF Inum, i
  <2> QED
    BY <1>1, <1>3, <1>5, <2>1, <2>2, <2>8, <2>9
<1> QED
  BY <1>4, <1>5

\* A syscall that has loaded inodes of the tree and changed nothing.
LEMMA BeginKeeps ==
    ASSUME Typed, Typed', NEW S \in SUBSET Inums, Tree(S), Saving = {},
           NEW is \in SUBSET S, NEW program, Begin(is, program), blind => blind'
    PROVE  /\ Tree(S)' /\ DirsOf(S)' = DirsOf(S) /\ todo' = program
           /\ itable' = itable /\ blk' = blk
           /\ \A d \in DirsOf(S) : SlotsOf(d)' = SlotsOf(d) /\ Children(d)' = Children(d)
<1>1. inodeCache' = Cached(is) /\ todo' = program /\ UNCHANGED <<inodeBitmap, itable, dataBitmap, blk>>
  BY DEF Begin, disk
<1>2. \A i \in S : i \in DOMAIN inodeCache' => inodeCache'[i] = GetInode(i)
  <2>1. is \in SUBSET Inums
    OBVIOUS
  <2>2. \A i \in DOMAIN Cached(is) : Cached(is)[i] = GetInode(i)
    BY <2>1, CachedTyped
  <2> QED
    BY <1>1, <2>2
<1>3. S \subseteq inodeBitmap'
  BY <1>1 DEF Tree, Live
<1> QED
  BY <1>1, <1>2, <1>3, TreeUntouched

\* A syscall that ends there.
LEMMA LookKeeps ==
    ASSUME Typed, Typed', NEW S \in SUBSET Inums, Tree(S), Saving = {},
           NEW is \in SUBSET S, Begin(is, <<>>), blind => blind'
    PROVE  Tree(S)' /\ Program(S)'
<1>1. Tree(S)' /\ todo' = <<>>
  BY BeginKeeps
<1> QED
  BY <1>1, NoProgram

\* A syscall that goes on to make an inode.
LEMMA MakeKeeps ==
    ASSUME Typed, Typed', NEW S \in SUBSET Inums, Tree(S), Saving = {}, NEW is \in SUBSET S,
           NEW d \in DirsOf(S), NEW nm \in Plain, NEW ty \in {"reg", "dir"}, NEW u, NEW len \in Int, len >= 0 => ty = "reg",
           Begin(is, Make(d, nm, ty, u, len)), blind => blind',
           ~blind' => \A k \in Children(d) : SlotsOf(d)[k].name # nm
    PROVE  Tree(S)' /\ Program(S)'
<1> DEFINE t == [op |-> "AllocInode", dir |-> d, name |-> nm, fType |-> ty, user |-> u, len |-> len]
<1>1. /\ Tree(S)' /\ DirsOf(S)' = DirsOf(S) /\ todo' = Make(d, nm, ty, u, len)
      /\ SlotsOf(d)' = SlotsOf(d) /\ Children(d)' = Children(d)
  BY BeginKeeps
<1>2. Len(todo') = 1 /\ todo'[1] = t
  <2> HIDE DEF t
  <2>1. todo' = <<t>>
    BY <1>1 DEF Make, t
  <2> QED
    BY <2>1
<1>3. NewName(d, nm)'
  BY <1>1 DEF NewName, Plain
<1>4. t.op = "AllocInode" /\ t.dir = d /\ t.name = nm /\ t.fType = ty /\ t.len = len
  OBVIOUS
<1> HIDE DEF t
<1>5. Allocating(S)'
  BY <1>1, <1>2, <1>3, <1>4 DEF Allocating
<1> QED
  BY <1>1, <1>5 DEF Program

\* mkDir and createFile (kernel.go:731-787).
LEMMA CreateKeeps ==
    ASSUME Typed, Typed', NEW S \in SUBSET Inums, Tree(S), Saving = {},
           NEW u \in Users, NEW path \in Paths, NEW ty \in {"reg", "dir"}, Create(u, path, ty)
    PROVE  Tree(S)' /\ Program(S)'
<1>w. PICK w, p, nm : w = Walk(u, path) /\ p = Walk(u, Parent(path)) /\ nm = Last(path)
  OBVIOUS
<1>o. PICK ok : ok = (p.err = "ok" /\ GetInode(p.inum).fType = "dir" /\ May(u, GetInode(p.inum), "w"))
  OBVIOUS
<1>1. /\ Within(S, w) /\ Within(S, p) /\ w \in Result /\ p \in Result
      /\ path = <<>> => w.err = "ok"
      /\ path # <<>> => nm \in Plain
      /\ path # <<>> /\ w.err = "ENOENT" /\ p.err = "ok" =>
            /\ p.inum \in DirsOf(S)
            /\ \A k \in Children(p.inum) : SlotsOf(p.inum)[k].name # nm
  BY <1>w, LastName
<1>2. w.seen \in SUBSET S /\ (w.seen \cup p.seen) \in SUBSET S
  BY <1>1 DEF Within
<1>3. /\ IF w.err = "ok" THEN Begin(w.seen, <<>>)
         ELSE Begin(w.seen \cup p.seen, IF ok THEN Make(p.inum, nm, ty, u, -1) ELSE <<>>)
      /\ blind' = (blind \/ (ok /\ w.err \notin {"ok", "ENOENT"}))
  BY <1>w, <1>o, Zenon DEF Create
<1>4. blind => blind'
  BY <1>3
<1>5. CASE w.err = "ok"
  BY <1>2, <1>3, <1>4, <1>5, LookKeeps
<1>6. CASE w.err # "ok" /\ ~ok
  <2>1. Begin(w.seen \cup p.seen, <<>>)
    BY <1>3, <1>6
  <2> QED
    BY <1>2, <1>4, <2>1, LookKeeps
<1>7. CASE w.err # "ok" /\ ok
  <2>1. Begin(w.seen \cup p.seen, Make(p.inum, nm, ty, u, -1))
    BY <1>3, <1>7
  <2>2. p.err = "ok" /\ p.inum \in S /\ GetInode(p.inum).fType = "dir" /\ nm \in Plain /\ path # <<>>
    BY <1>1, <1>7, <1>o DEF Within
  <2>3. p.inum \in DirsOf(S)
    <3>1. GetInode(p.inum).fType = itable[p.inum].fType
      BY <2>2, HandBlocks
    <3> QED
      BY <2>2, <3>1 DEF DirsOf
  <2>4. ~blind' => w.err = "ENOENT"
    BY <1>3, <1>7
  <2>5. ~blind' => \A k \in Children(p.inum) : SlotsOf(p.inum)[k].name # nm
    BY <1>1, <2>2, <2>4
  <2>6. -1 \in Int /\ ~(-1 >= 0)
    OBVIOUS
  <2> QED
    BY <1>2, <1>4, <2>1, <2>2, <2>3, <2>5, <2>6, MakeKeeps
<1> QED
  BY <1>5, <1>6, <1>7

\* writeFile (kernel.go:793-854).
LEMMA WriteFileKeeps ==
    ASSUME Typed, Typed', NEW S \in SUBSET Inums, Tree(S), Saving = {}, UNCHANGED blind,
           NEW u \in Users, NEW path \in Paths, NEW len \in Lengths, writeFile(u, path, len)
    PROVE  Tree(S)' /\ Program(S)'
<1>w. PICK w, p, nm : w = Walk(u, path) /\ p = Walk(u, Parent(path)) /\ nm = Last(path)
  OBVIOUS
<1>1. /\ Within(S, w) /\ Within(S, p)
      /\ path = <<>> => w.err = "ok"
      /\ path # <<>> => nm \in Plain
      /\ path # <<>> /\ w.err = "ENOENT" /\ p.err = "ok" =>
            /\ p.inum \in DirsOf(S)
            /\ \A k \in Children(p.inum) : SlotsOf(p.inum)[k].name # nm
  BY <1>w, LastName
<1>2. w.seen \in SUBSET S /\ (w.seen \cup p.seen) \in SUBSET S
  BY <1>1 DEF Within
<1>3. \/ w.err = "ENOENT" /\ p.err = "ok" /\ Begin(w.seen \cup p.seen, Make(p.inum, nm, "reg", u, len))
      \/ Begin(w.seen \cup p.seen, <<>>)
      \/ GetInode(w.inum).fType # "dir" /\ Begin(w.seen, Write(w.inum, len))
      \/ Begin(w.seen, <<>>)
  BY <1>w DEF writeFile
<1>4. blind => blind'
  OBVIOUS
<1>5. CASE w.err = "ENOENT" /\ p.err = "ok" /\ Begin(w.seen \cup p.seen, Make(p.inum, nm, "reg", u, len))
  <2>1. path # <<>> /\ nm \in Plain /\ p.inum \in DirsOf(S) /\ \A k \in Children(p.inum) : SlotsOf(p.inum)[k].name # nm
    BY <1>1, <1>5
  <2>2. len \in Int /\ "reg" \in {"reg", "dir"}
    <3>1. Lengths \subseteq Nat
      BY KernelFSAssumption
    <3> QED
      BY <3>1
  <2> QED
    BY <1>2, <1>4, <1>5, <2>1, <2>2, MakeKeeps
<1>6. CASE GetInode(w.inum).fType # "dir" /\ Begin(w.seen, Write(w.inum, len))
  <2> PICK i : i = w.inum
    OBVIOUS
  <2>1. Tree(S)' /\ todo' = Write(i, len) /\ itable' = itable
    BY <1>2, <1>4, <1>6, BeginKeeps
  <2>2. i \in S
    BY <1>1 DEF Within
  <2>3. itable[i].fType = "reg"
    <3>1. GetInode(i).fType = itable[i].fType
      BY <2>2, HandBlocks
    <3>2. itable[i].fType \in {"reg", "dir"}
      BY <2>2 DEF Tree, Live
    <3> QED
      BY <1>6, <3>1, <3>2
  <2>4. Len(todo') = 1 /\ todo'[1].op = "Falloc" /\ todo'[1].inum = i
    BY <2>1 DEF Write
  <2>5. Truncating(S)'
    BY <2>1, <2>2, <2>3, <2>4 DEF Truncating
  <2> QED
    BY <2>1, <2>5 DEF Program
<1> QED
  BY <1>2, <1>3, <1>4, <1>5, <1>6, LookKeeps

\* Looking again finds the same slot.
LEMMA FindSame ==
    ASSUME NEW d, NEW nm, SlotsOf(d)' = SlotsOf(d)
    PROVE  Find(d, nm)' = Find(d, nm)
<1> DEFINE ks(s) == {k \in DOMAIN s : s[k].inum # 0 /\ s[k].name = nm}
<1>1. Find(d, nm) = IF ks(SlotsOf(d)) = {} THEN 0 ELSE CHOOSE k \in ks(SlotsOf(d)) : \A j \in ks(SlotsOf(d)) : k <= j
  BY Zenon DEF Find, FirstSlot
<1>2. Find(d, nm)' = IF ks(SlotsOf(d)') = {} THEN 0 ELSE CHOOSE k \in ks(SlotsOf(d)') : \A j \in ks(SlotsOf(d)') : k <= j
  BY Zenon DEF Find, FirstSlot
<1> HIDE DEF ks
<1> QED
  BY <1>1, <1>2

\* removeAll (kernel.go:680-710).
LEMMA RemoveAllKeeps ==
    ASSUME Typed, Typed', NEW S \in SUBSET Inums, Tree(S), Saving = {}, UNCHANGED blind,
           NEW u \in Users, NEW path \in Paths, removeAll(u, path)
    PROVE  Tree(S)' /\ Program(S)'
<1>w. PICK w, p, nm : w = Walk(u, path) /\ p = Walk(u, Parent(path)) /\ nm = Last(path)
  OBVIOUS
<1>1. /\ Within(S, w) /\ Within(S, p)
      /\ path # <<>> /\ w.err = "ok" =>
            /\ p.err = "ok" /\ p.inum \in DirsOf(S) /\ Find(p.inum, nm) \in Children(p.inum)
            /\ w.inum = Inum(p.inum, Find(p.inum, nm))
  BY <1>w, LastName
<1>2. (w.seen \cup p.seen) \in SUBSET S
  BY <1>1 DEF Within
<1>3. /\ path # <<>>
      /\ \/ w.err = "ok" /\ Begin(w.seen \cup p.seen, Removal(p.inum, nm, w.inum))
         \/ Begin(w.seen \cup p.seen, <<>>)
  BY <1>w, Zenon DEF removeAll
<1>4. blind => blind'
  OBVIOUS
<1>5. CASE w.err = "ok" /\ Begin(w.seen \cup p.seen, Removal(p.inum, nm, w.inum))
  <2> PICK d, i, k : d = p.inum /\ i = w.inum /\ k = Find(d, nm)
    OBVIOUS
  <2>1. d \in DirsOf(S) /\ k \in Children(d) /\ i = Inum(d, k)
    BY <1>1, <1>3, <1>5
  <2>2. /\ Tree(S)' /\ DirsOf(S)' = DirsOf(S) /\ todo' = Removal(d, nm, i) /\ itable' = itable /\ blk' = blk
        /\ SlotsOf(d)' = SlotsOf(d) /\ Children(d)' = Children(d)
    BY <1>2, <1>4, <1>5, <2>1, BeginKeeps
  <2>3. Find(d, nm)' = k
    BY <2>2, FindSame
  <2>4. /\ Len(todo') = 2 /\ todo'[1].op = "removeDentry" /\ todo'[1].dir = d /\ todo'[1].name = nm
        /\ todo'[2].op = "freeInodeTree" /\ todo'[2].inum = i
    BY <2>2 DEF Removal
  <2>5. Inum(d, k)' = i
    BY <2>1, <2>2 DEF Inum
  <2>6. Unlinking(S)'
    BY <2>1, <2>2, <2>3, <2>4, <2>5 DEF Unlinking
  <2> QED
    BY <2>2, <2>6 DEF Program
<1> QED
  BY <1>2, <1>3, <1>4, <1>5, LookKeeps

\* chmod of an inode of the tree: the modes in the cache are ahead of the disk
\* until writeInode (kernel.go:871-890).
LEMMA ChmodKeeps ==
    ASSUME Typed, Typed', NEW S \in SUBSET Inums, Tree(S), Saving = {}, UNCHANGED blind,
           NEW u \in Users, NEW path \in Paths, NEW mode, chmod(u, path, mode)
    PROVE  Tree(S)' /\ Program(S)'
<1>w. PICK w, i : w = Walk(u, path) /\ i = w.inum
  OBVIOUS
<1>1. Within(S, w)
  <2>1. PICK p, nm : p = Walk(u, Parent(path)) /\ nm = Last(path)
    OBVIOUS
  <2> QED
    BY <1>w, <2>1, LastName
<1>2. w.seen \in SUBSET S /\ i \in S /\ i \in w.seen /\ w.seen \in SUBSET Inums
  BY <1>1, <1>w DEF Within
<1>c. PICK c : c = Cached(w.seen)
  OBVIOUS
<1>3. /\ DOMAIN c = DOMAIN inodeCache \cup w.seen /\ c \in [DOMAIN c -> Node]
      /\ \A j \in DOMAIN c : c[j] = GetInode(j)
  BY <1>2, <1>c, CachedTyped
<1>4. /\ UNCHANGED <<disk, stale, torn>>
      /\ \/ inodeCache' = c /\ todo' = <<>>
         \/ /\ inodeCache' = [c EXCEPT ![i].ownerMode = mode[1], ![i].otherMode = mode[2]]
            /\ todo' = Save(i)
  BY <1>w, <1>c, Zenon DEF chmod
<1>5. CASE inodeCache' = c /\ todo' = <<>>
  <2>1. Begin(w.seen, <<>>)
    BY <1>4, <1>5, <1>c DEF Begin
  <2> QED
    BY <1>2, <2>1, LookKeeps
<1>6. CASE /\ inodeCache' = [c EXCEPT ![i].ownerMode = mode[1], ![i].otherMode = mode[2]]
           /\ todo' = Save(i)
  <2>1. UNCHANGED <<inodeBitmap, itable, dataBitmap, blk>>
    BY <1>4 DEF disk
  <2>2. inodeCache' = [j \in DOMAIN c |-> IF j = i
            THEN [[c[i] EXCEPT !.ownerMode = mode[1]] EXCEPT !.otherMode = mode[2]] ELSE c[j]]
    BY <1>3, <1>6
  <2>3. /\ DOMAIN inodeCache' = DOMAIN c /\ i \in DOMAIN c
        /\ \A j \in DOMAIN c : j # i => inodeCache'[j] = GetInode(j)
        /\ inodeCache'[i] = [[c[i] EXCEPT !.ownerMode = mode[1]] EXCEPT !.otherMode = mode[2]]
    BY <1>2, <1>3, <2>2
  <2>4. /\ inodeCache'[i].fType = GetInode(i).fType /\ inodeCache'[i].owner = GetInode(i).owner
        /\ inodeCache'[i].blocks = GetInode(i).blocks
    <3>1. PICK in, new : in = c[i] /\ new = inodeCache'[i]
      OBVIOUS
    <3>2. in \in Node /\ in = GetInode(i)
      BY <1>3, <2>3, <3>1
    <3>3. new = [[in EXCEPT !.ownerMode = mode[1]] EXCEPT !.otherMode = mode[2]]
      BY <2>3, <3>1
    <3>4. new.fType = in.fType /\ new.owner = in.owner /\ new.blocks = in.blocks
      BY <3>2, <3>3 DEF Node
    <3> QED
      BY <3>1, <3>2, <3>4
  <2>5. Len(todo') = 1 /\ DOMAIN todo' = {1} /\ todo'[1].op = "writeInode" /\ todo'[1].inum = i
    BY <1>6 DEF Save
  <2>6. Saving' = {i}
    BY <2>5 DEF Saving
  <2>7. Writing(S)'
    <3>1. i \in S \cap DOMAIN inodeCache'
      BY <1>2, <2>3
    <3> QED
      BY <2>5, <3>1 DEF Writing
  <2>8. Live(S) /\ Closed(S) /\ Once(S) /\ Unique(S) /\ Owned(S) /\ Agree(S)
    BY DEF Tree
  <2>9. ASSUME NEW j \in S, j \in DOMAIN inodeCache' PROVE Follows(inodeCache'[j], itable'[j], j \in Saving')
    <3>1. Follows(GetInode(j), itable[j], FALSE)
      <4>1. Follows(GetInode(j), itable[j], j \in Saving) /\ j \notin Saving
        BY <2>8, HandFollows
      <4> QED
        BY <4>1 DEF Follows
    <3>2. CASE j # i
      <4>1. inodeCache'[j] = GetInode(j) /\ itable'[j] = itable[j] /\ j \notin Saving'
        BY <2>1, <2>3, <2>6, <2>9, <3>2
      <4> QED
        BY <3>1, <4>1 DEF Follows
    <3>3. CASE j = i
      <4>1. itable'[i] = itable[i] /\ i \in Saving'
        BY <2>1, <2>6
      <4> QED
        BY <2>4, <3>1, <3>3, <4>1 DEF Follows
    <3> QED
      BY <3>2, <3>3
  <2>10. Agree(S)'
    BY <2>9 DEF Agree
  <2>11. ASSUME NEW j \in S PROVE (Current(j).blocks)' = Current(j).blocks
    <3>1. GetInode(j)'.blocks = GetInode(j).blocks
      BY <1>3, <2>1, <2>3, <2>4 DEF GetInode
    <3> QED
      BY <2>1, <3>1 DEF Current
  <2>12. Owned(S)'
    BY <2>1, <2>8, <2>11 DEF Owned
  <2>13. \A d \in S : SlotsOf(d)' = SlotsOf(d) /\ Children(d)' = Children(d)
    BY <2>1 DEF SlotsOf, Children
  <2>14. Live(S)' /\ Closed(S)' /\ Once(S)' /\ Unique(S)'
    <3>1. ROOT \in S /\ S \subseteq inodeBitmap' /\ S \in SUBSET S /\ \A j \in S \ S : Unlisted(S, j)
      BY <2>1, <2>8 DEF Live
    <3>2. \A j \in S : itable'[j].fType = itable[j].fType
      BY <2>1
    <3>3. \A d \in DirsOf(S) : \A k \in Children(d)' : k \in Children(d) /\ SlotsOf(d)'[k] = SlotsOf(d)[k]
      BY <2>13 DEF DirsOf
    <3> QED
      BY <2>8, <3>1, <3>2, <3>3, NamesKept
  <2> QED
    BY <2>7, <2>10, <2>12, <2>14 DEF Tree, Program
<1> QED
  BY <1>4, <1>5, <1>6

\* readDir loads the inodes it lists (kernel.go:640-677).
LEMMA ReadDirKeeps ==
    ASSUME Typed, Typed', NEW S \in SUBSET Inums, Tree(S), Saving = {}, UNCHANGED blind,
           NEW u \in Users, NEW path \in Paths, readDir(u, path)
    PROVE  Tree(S)' /\ Program(S)'
<1>w. PICK w, i : w = Walk(u, path) /\ i = w.inum
  OBVIOUS
<1>1. Within(S, w)
  <2>1. PICK p, nm : p = Walk(u, Parent(path)) /\ nm = Last(path)
    OBVIOUS
  <2> QED
    BY <1>w, <2>1, LastName
<1>2. w.seen \in SUBSET S /\ i \in S
  BY <1>1, <1>w DEF Within
<1> DEFINE good == {k \in Children(i) : \A j \in Children(i) : j <= k => SlotsOf(i)[j].inum \in Inums}
<1>3. \/ GetInode(i).fType = "dir" /\ Begin(w.seen \cup {SlotsOf(i)[k].inum : k \in good}, <<>>)
      \/ Begin(w.seen \cup {}, <<>>)
  BY <1>w, Zenon DEF readDir
<1>4. CASE GetInode(i).fType = "dir" /\ Begin(w.seen \cup {SlotsOf(i)[k].inum : k \in good}, <<>>)
  <2>1. i \in DirsOf(S)
    <3>1. GetInode(i).fType = itable[i].fType
      BY <1>2, HandBlocks
    <3> QED
      BY <1>2, <1>4, <3>1 DEF DirsOf
  <2>2. \A k \in Children(i) : SlotsOf(i)[k].inum \in S
    BY <2>1 DEF Tree, Closed, Inum
  <2>3. (w.seen \cup {SlotsOf(i)[k].inum : k \in good}) \in SUBSET S
    BY <1>2, <2>2
  <2> HIDE DEF good
  <2> QED
    BY <1>4, <2>3, LookKeeps
<1>5. CASE Begin(w.seen \cup {}, <<>>)
  <2>1. (w.seen \cup {}) \in SUBSET S
    BY <1>2
  <2> QED
    BY <1>5, <2>1, LookKeeps
<1> QED
  BY <1>3, <1>4, <1>5

\* A syscall begins with no program under way.
LEMMA SyscallKeeps ==
    ASSUME Typed, Typed', NEW S \in SUBSET Inums, Tree(S), Syscall
    PROVE  Tree(S)' /\ Program(S)'
<1>1. PICK u \in Users, path \in Paths :
        \/ mkDir(u, path) \/ createFile(u, path)
        \/ /\ \/ removeAll(u, path)
              \/ \E len \in Lengths : writeFile(u, path, len)
              \/ \E mode \in Modes : chmod(u, path, mode)
              \/ stat(u, path) \/ readFile(u, path) \/ changeDirectory(u, path) \/ readDir(u, path)
           /\ UNCHANGED blind
  BY Zenon DEF Syscall
<1>2. Saving = {}
  <2>1. Idle
    BY <1>1 DEF mkDir, createFile, Create, removeAll, writeFile, chmod, stat, readFile, changeDirectory, readDir
  <2>2. DOMAIN todo = {}
    BY <2>1 DEF Idle
  <2> QED
    BY <2>2 DEF Saving
<1>3. CASE mkDir(u, path) \/ createFile(u, path)
  <2>1. Create(u, path, "dir") \/ Create(u, path, "reg")
    BY <1>3 DEF mkDir, createFile
  <2> QED
    BY <1>2, <2>1, CreateKeeps
<1>4. CASE removeAll(u, path) /\ UNCHANGED blind
  BY <1>2, <1>4, RemoveAllKeeps
<1>5. CASE (\E len \in Lengths : writeFile(u, path, len)) /\ UNCHANGED blind
  BY <1>2, <1>5, WriteFileKeeps
<1>6. CASE (\E mode \in Modes : chmod(u, path, mode)) /\ UNCHANGED blind
  BY <1>2, <1>6, ChmodKeeps
<1>7. CASE readDir(u, path) /\ UNCHANGED blind
  BY <1>2, <1>7, ReadDirKeeps
<1>8. CASE (stat(u, path) \/ readFile(u, path) \/ changeDirectory(u, path)) /\ UNCHANGED blind
  <2>1. Begin(Walk(u, path).seen, <<>>)
    BY <1>8, Zenon DEF stat, readFile, changeDirectory
  <2>2. PICK w, p, nm : w = Walk(u, path) /\ p = Walk(u, Parent(path)) /\ nm = Last(path)
    OBVIOUS
  <2>3. Within(S, w)
    BY <1>2, <2>2, LastName
  <2>4. w.seen \in SUBSET S
    BY <2>3 DEF Within
  <2>5. Begin(w.seen, <<>>)
    BY <2>1, <2>2
  <2> QED
    BY <1>2, <1>8, <2>4, <2>5, LookKeeps
<1> QED
  BY <1>1, <1>3, <1>4, <1>5, <1>6, <1>7, <1>8

-----------------------------------------------------------------------------
(* The invariant holds. *)

\* A formatted disk has a sound tree: the root alone.
LEMMA InitSound == Init => Sound
<1> SUFFICES ASSUME Init PROVE Sound
  OBVIOUS
<1> DEFINE S == {ROOT}
<1>1. Typed /\ ROOT \in Inums
  BY InitTyped, Constants
<1>2. /\ inodeBitmap = {ROOT} /\ DOMAIN inodeCache = {} /\ DOMAIN todo = {} /\ todo = <<>> /\ dataBitmap = {0}
      /\ itable[ROOT] = [FreshInode("dir", "root") EXCEPT !.blocks = <<0>>]
  BY <1>1 DEF Init
<1>3. itable[ROOT].fType = "dir" /\ itable[ROOT].blocks = <<0>>
  BY <1>2 DEF FreshInode
<1>4. Children(ROOT) = {}
  <2>1. \A b \in Blocks : \A k \in 1 .. EPB : ~IsChild(blk[b][k])
    <3> SUFFICES ASSUME NEW b \in Blocks, NEW k \in 1 .. EPB PROVE ~IsChild(blk[b][k])
      OBVIOUS
    <3>1. blk[b][k] = Slot(ROOT, ".") \/ blk[b][k] = Slot(ROOT, "..") \/ blk[b][k] = Free
      BY DEF Init
    <3>2. ~IsChild(Slot(ROOT, ".")) /\ ~IsChild(Slot(ROOT, "..")) /\ ~IsChild(Free)
      BY Zenon DEF IsChild, Slot, Free
    <3> QED
      BY <3>1, <3>2
  <2>2. \A k \in DOMAIN SlotsOf(ROOT) : ~IsChild(SlotsOf(ROOT)[k])
    <3>0. PICK bs : bs = itable[ROOT].blocks
      OBVIOUS
    <3>1. bs \in Seq(Blocks) /\ Len(bs) \in Nat
      BY <1>1, <3>0, TypedNodes DEF NodesFine
    <3>2. SlotsOf(ROOT) = SlotsIn(bs, blk) /\ DOMAIN SlotsIn(bs, blk) = 1 .. (Len(bs) * EPB)
      BY <3>0, SlotsAre DEF SlotsIn, Spots
    <3>3. \A k \in 1 .. (Len(bs) * EPB) : Row(k) \in 1 .. Len(bs) /\ Col(k) \in 1 .. EPB
      BY <3>1, Places
    <3>4. \A k \in 1 .. (Len(bs) * EPB) : SlotsIn(bs, blk)[k] = blk[bs[Row(k)]][Col(k)]
      BY DEF SlotsIn, Spots
    <3> QED
      BY <2>1, <3>1, <3>2, <3>3, <3>4
  <2> QED
    BY <2>2 DEF Children
<1>5. Live(S) /\ Closed(S) /\ Once(S) /\ Unique(S)
  BY <1>2, <1>3, <1>4 DEF Live, Closed, Once, Unique, DirsOf
<1>6. Owned(S) /\ Agree(S)
  <2>1. Current(ROOT).blocks = <<0>>
    BY <1>3 DEF Current
  <2>2. \A k \in DOMAIN Current(ROOT).blocks : k = 1 /\ Current(ROOT).blocks[k] = 0
    BY <2>1
  <2> QED
    BY <1>2, <2>2 DEF Owned, Agree
<1>7. Program(S)
  BY <1>2 DEF Program, Emptying
<1>8. S \in SUBSET Inums /\ Tree(S)
  BY <1>1, <1>5, <1>6 DEF Tree
<1> HIDE DEF S
<1> QED
  BY <1>7, <1>8 DEF Sound

\* The disk stays bad once it has gone bad.
LEMMA SaneBefore ==
    ASSUME Typed, [Next]_vars, Sane'
    PROVE  Sane
<1>1. (stale => stale') /\ (torn => torn')
  <2>1. CASE Syscall
    <3>1. \A is, program : Begin(is, program) => stale' = stale /\ torn' = torn
      BY DEF Begin
    <3>2. ASSUME NEW u, NEW path, NEW ty, Create(u, path, ty) PROVE stale' = stale /\ torn' = torn
      BY <3>1, <3>2 DEF Create
    <3>3. ASSUME NEW u, NEW path, NEW len, writeFile(u, path, len) PROVE stale' = stale /\ torn' = torn
      BY <3>1, <3>3 DEF writeFile
    <3>4. ASSUME NEW u, NEW path, NEW mode, chmod(u, path, mode) PROVE stale' = stale /\ torn' = torn
      BY <3>4 DEF chmod
    <3>5. ASSUME NEW u, NEW path, removeAll(u, path) \/ stat(u, path) \/ readFile(u, path) \/ changeDirectory(u, path)
                                  \/ readDir(u, path)
          PROVE  stale' = stale /\ torn' = torn
      BY <3>1, <3>5 DEF removeAll, stat, readFile, changeDirectory, readDir
    <3> QED
      BY <2>1, <3>2, <3>3, <3>4, <3>5 DEF Syscall, mkDir, createFile
  <2>2. CASE Step
    <3>1. AllocInode \/ initInode \/ addDentryInsert \/ saveDir \/ removeDentry \/ writeDataBlock \/ writeInode =>
             stale' = stale /\ torn' = torn
      BY DEF AllocInode, initInode, addDentryInsert, saveDir, removeDentry, writeDataBlock, writeInode, Fail
    <3>2. freeInodeTree \/ freeBlocks \/ FreeInodeFromBitmap \/ Falloc \/ addDentryFail \/ panic => stale' = stale /\ torn' = torn
      <4>1. freeInodeTree => stale' = stale /\ torn' = torn
        BY DEF freeInodeTree, Fail
      <4>2. Falloc => stale' = stale /\ torn' = torn
        BY DEF Falloc, Fail
      <4> QED
        BY <4>1, <4>2 DEF freeBlocks, FreeInodeFromBitmap, addDentryFail, panic, Fail, Die
    <3>3. addDentryGrow => (stale => stale') /\ torn' = torn
      BY DEF addDentryGrow
    <3> QED
      BY <2>2, <3>1, <3>2, <3>3 DEF Step
  <2>3. CASE Kill
    BY <2>3 DEF Kill, Die
  <2>4. CASE UNCHANGED vars
    BY <2>4 DEF vars
  <2> QED
    BY <2>1, <2>2, <2>3, <2>4 DEF Next
<1> QED
  BY <1>1 DEF Sane

\* A step that changes nothing.
LEMMA StutterKeeps ==
    ASSUME Typed, Typed', NEW S \in SUBSET Inums, Tree(S), Program(S), UNCHANGED vars
    PROVE  Tree(S)' /\ Program(S)'
<1>1. UNCHANGED <<inodeBitmap, itable, dataBitmap, blk, inodeCache, todo, blind>>
  BY DEF vars, disk
<1>2. \A i : GetInode(i)' = GetInode(i) /\ Current(i)' = Current(i)
  BY <1>1 DEF GetInode, Current
<1>3. \A d : SlotsOf(d)' = SlotsOf(d)
  BY <1>1, SlotsAre
<1>4. /\ \A d : Children(d)' = Children(d)
      /\ \A d, k : Inum(d, k)' = Inum(d, k)
      /\ \A d, nm : Find(d, nm)' = Find(d, nm)
  BY <1>3, FindSame DEF Children, Inum
<1>5. DirsOf(S)' = DirsOf(S) /\ Saving' = Saving
  BY <1>1 DEF DirsOf, Saving
<1>6. Tree(S)'
  <2>1. Live(S) /\ Closed(S) /\ Once(S) /\ Unique(S) /\ Owned(S) /\ Agree(S)
    BY DEF Tree
  <2>2. Live(S)' /\ Agree(S)'
    BY <1>1, <1>5, <2>1 DEF Live, Agree
  <2>3. Closed(S)' /\ Once(S)' /\ Unique(S)'
    BY <1>1, <1>3, <1>4, <1>5, <2>1 DEF Closed, Once, Unique
  <2>4. Owned(S)'
    BY <1>1, <1>2, <2>1 DEF Owned
  <2> QED
    BY <2>2, <2>3, <2>4 DEF Tree
<1>7. /\ \A d, nm : NewName(d, nm) => NewName(d, nm)'
      /\ \A n, i, ty : Behind(n, i, ty) => Behind(n, i, ty)'
      /\ \A i : Blank(i) => Blank(i)'
  BY <1>1, <1>3, <1>4 DEF NewName, Behind, Blank
<1>8. \A t : LinkOK(S, t) => LinkOK(S, t)'
  BY <1>1, <1>5, <1>7 DEF LinkOK
<1>9. Allocating(S) => Allocating(S)'
  BY <1>1, <1>5, <1>7 DEF Allocating
<1>10. Initialising(S) => Initialising(S)'
  BY <1>1, <1>5, <1>7 DEF Initialising
<1>11. Linking(S) => Linking(S)'
  BY <1>1, <1>7, <1>8 DEF Linking, Subject
<1>12. Growing(S) => Growing(S)'
  <2>1. \A b : ListsOld(b)' = ListsOld(b)
    BY <1>1 DEF ListsOld
  <2> QED
    BY <1>1, <1>2, <1>7, <1>8, <2>1 DEF Growing, Subject
<1>13. (Truncating(S) => Truncating(S)') /\ (Writing(S) => Writing(S)')
  BY <1>1 DEF Truncating, Writing
<1>14. Unlinking(S) => Unlinking(S)'
  BY <1>1, <1>4, <1>5 DEF Unlinking
<1>15. Emptying(S) => Emptying(S)'
  <2>1. \A i : Unlisted(S, i) => Unlisted(S, i)'
    BY <1>4, <1>5 DEF Unlisted
  <2>2. \A t : FreeOK(S, t) => FreeOK(S, t)'
    BY <1>1, <1>2, <2>1 DEF FreeOK
  <2> QED
    BY <1>1, <2>2 DEF Emptying
<1> QED
  BY <1>6, <1>9, <1>10, <1>11, <1>12, <1>13, <1>14, <1>15 DEF Program

\* Every step leaves a sound tree, unless it is one that spoils the disk.
LEMMA NextSound ==
    ASSUME Typed, Typed', IInv, [Next]_vars
    PROVE  IInv'
<1> SUFFICES ASSUME Sane' PROVE \E R \in SUBSET Inums : Tree(R)' /\ Program(R)'
  BY DEF IInv, Sound
<1>1. Sane
  BY SaneBefore
<1>2. PICK S \in SUBSET Inums : Tree(S) /\ Program(S)
  BY <1>1 DEF IInv, Sound
<1>3. CASE Syscall
  BY <1>2, <1>3, SyscallKeeps
<1>4. CASE Kill
  BY <1>2, <1>4, KillKeeps
<1>5. CASE Step
  <2>1. UNCHANGED blind
    BY <1>5 DEF Step
  <2>2. CASE AllocInode
    BY <1>2, <2>1, <2>2, AllocKeeps
  <2>3. CASE initInode
    BY <1>2, <2>1, <2>3, InitialKeeps
  <2>4. CASE addDentryInsert
    BY <1>2, <2>1, <2>4, InsertKeeps
  <2>5. CASE addDentryGrow
    BY <1>2, <2>1, <2>5, GrowKeeps
  <2>6. CASE addDentryFail \/ panic
    BY <1>2, <2>1, <2>6, StopKeeps
  <2>7. CASE saveDir
    BY <1>2, <2>1, <2>7, SaveDirKeeps
  <2>8. CASE removeDentry
    BY <1>2, <2>1, <2>8, RemoveKeeps
  <2>9. CASE freeInodeTree
    BY <1>2, <2>1, <2>9, FreeTreeKeeps
  <2>10. CASE freeBlocks
    BY <1>2, <2>1, <2>10, FreeBlocksKeeps
  <2>11. CASE FreeInodeFromBitmap
    BY <1>2, <2>1, <2>11, FreeInodeKeeps
  <2>12. CASE Falloc
    BY <1>2, <2>1, <2>12, FallocKeeps
  <2>13. CASE writeDataBlock
    BY <1>2, <2>1, <2>13, WriteBlockKeeps
  <2>14. CASE writeInode
    BY <1>2, <2>1, <2>14, WriteInodeKeeps
  <2> QED
    BY <1>5, <2>2, <2>3, <2>4, <2>5, <2>6, <2>7, <2>8, <2>9, <2>10, <2>11, <2>12, <2>13, <2>14 DEF Step
<1>6. CASE UNCHANGED vars
  BY <1>2, <1>6, StutterKeeps
<1> QED
  BY <1>3, <1>4, <1>5, <1>6 DEF Next

\* A sound tree is an invariant while the disk is sane.
LEMMA SoundInvariance == Spec => []IInv
<1>1. Init => IInv
  BY InitSound DEF IInv
<1>2. Typed /\ Typed' /\ IInv /\ [Next]_vars => IInv'
  BY NextSound
<1> QED
  BY <1>1, <1>2, TypedInvariance, PTL DEF Spec

-----------------------------------------------------------------------------
(* What the invariant says about the inodes a path leads to. *)

\* Reach is within any set that holds the root and what its directories list.
LEMMA ReachWithin ==
    ASSUME NEW T \in SUBSET Inums, ROOT \in T, \A d \in DirsOf(T) : \A k \in Children(d) : Inum(d, k) \in T
    PROVE  Reach \subseteq T
<1>1. T \in SUBSET Targets
  BY DEF Targets
<1>2. ASSUME NEW e \in Lists, e[1] \in T PROVE e[2] \in T
  <2>1. PICK d \in Inums : itable[d].fType = "dir" /\ \E k \in Children(d) : e = <<d, SlotsOf(d)[k].inum>>
    BY DEF Lists
  <2>2. PICK k \in Children(d) : e = <<d, SlotsOf(d)[k].inum>>
    BY <2>1
  <2>3. d \in DirsOf(T)
    BY <1>2, <2>1, <2>2 DEF DirsOf
  <2> QED
    BY <2>2, <2>3 DEF Inum
<1> QED
  BY <1>1, <1>2 DEF Reach

\* The tree holds whatever a path leads to.
LEMMA ReachSound ==
    ASSUME NEW S \in SUBSET Inums, Tree(S)
    PROVE  Reach \subseteq S /\ ReachDirs \subseteq DirsOf(S)
<1>1. Reach \subseteq S
  BY ReachWithin DEF Tree, Live, Closed
<1> QED
  BY <1>1 DEF ReachDirs, DirsOf

\* An inode that nothing lists is not reached, even while the tree holds it.
LEMMA UnlistedUnreached ==
    ASSUME NEW S \in SUBSET Inums, Tree(S), NEW i, Unlisted(S, i)
    PROVE  i \notin Reach
<1> DEFINE T == S \ {i}
<1>1. T \in SUBSET Inums /\ ROOT \in T /\ DirsOf(T) \subseteq DirsOf(S)
  BY DEF Tree, Live, Unlisted, DirsOf
<1>2. \A d \in DirsOf(T) : \A k \in Children(d) : Inum(d, k) \in T
  BY <1>1 DEF Tree, Closed, Unlisted
<1>3. i \notin T
  OBVIOUS
<1> HIDE DEF T
<1> QED
  BY <1>1, <1>2, <1>3, ReachWithin

\* Whenever the disk is sane, every name a path can use leads to an allocated
\* inode: within makeInode and removeAll, after an error and after a crash
\* between any two writes (kernel.go:260-297, 706-710).
THEOREM NamesLeadSomewhere == Spec => []EntriesLive
<1>1. IInv => EntriesLive
  <2> SUFFICES ASSUME IInv, Sane PROVE Reach \subseteq inodeBitmap
    BY DEF EntriesLive
  <2>1. PICK S \in SUBSET Inums : Tree(S) /\ Program(S)
    BY DEF IInv, Sound
  <2> QED
    BY <2>1, ReachSound DEF Tree, Live
<1> QED
  BY <1>1, SoundInvariance, PTL

\* No two entries lead to one inode and none to the root, which is what lets
\* removeAll free without counting links (kernel.go:300).
THEOREM NoHardLinks == Spec => []OneName
<1>1. IInv => OneName
  <2> SUFFICES ASSUME IInv, Sane, NEW d \in ReachDirs, NEW e \in ReachDirs, NEW j \in Children(d), NEW k \in Children(e)
               PROVE  /\ SlotsOf(d)[j].inum # ROOT
                      /\ SlotsOf(d)[j].inum = SlotsOf(e)[k].inum => d = e /\ j = k
    BY DEF OneName
  <2>1. PICK S \in SUBSET Inums : Tree(S) /\ Program(S)
    BY DEF IInv, Sound
  <2>2. d \in DirsOf(S) /\ e \in DirsOf(S)
    BY <2>1, ReachSound
  <2> QED
    BY <2>1, <2>2 DEF Tree, Closed, Once, Inum
<1> QED
  BY <1>1, SoundInvariance, PTL

\* No directory lists a name twice, so removeDentry clears the entry that
\* ResolvePath found (kernel.go:694-708, 740, 768, fs_dir.go:157-195).
THEOREM NoNameTwice == Spec => []NamesUnique
<1>1. IInv => NamesUnique
  <2> SUFFICES ASSUME IInv, Sane, ~blind, NEW d \in ReachDirs, NEW j \in Children(d), NEW k \in Children(d),
                      SlotsOf(d)[j].name = SlotsOf(d)[k].name
               PROVE  j = k
    BY DEF NamesUnique
  <2>1. PICK S \in SUBSET Inums : Tree(S) /\ Program(S)
    BY DEF IInv, Sound
  <2>2. d \in DirsOf(S)
    BY <2>1, ReachSound
  <2> QED
    BY <2>1, <2>2 DEF Tree, Unique
<1> QED
  BY <1>1, SoundInvariance, PTL

\* Every block of a file or directory a path leads to is marked, and has one
\* place in one inode, at every point of Falloc, addDentry and freeInodeTree
\* (fs_falloc.go, fs_dir.go:118-139, kernel.go:301-330).
THEOREM BlocksNotShared == Spec => []BlocksOwned
<1>1. IInv => BlocksOwned
  <2> SUFFICES ASSUME IInv, Sane, NEW i \in Reach, NEW j \in Reach,
                      NEW k \in DOMAIN Current(i).blocks, NEW l \in DOMAIN Current(j).blocks
               PROVE  /\ Current(i).blocks[k] \in dataBitmap
                      /\ Current(i).blocks[k] = Current(j).blocks[l] => i = j /\ k = l
    BY DEF BlocksOwned
  <2>1. PICK S \in SUBSET Inums : Tree(S) /\ Program(S)
    BY DEF IInv, Sound
  <2>2. i \in S /\ j \in S
    BY <2>1, ReachSound
  <2> QED
    BY <2>1, <2>2 DEF Tree, Owned
<1> QED
  BY <1>1, SoundInvariance, PTL

\* Between syscalls the cache tells no more than the disk: it differs at most
\* in the blocks a directory has grown by (kernel.go:154-174, fs_dir.go:118-139).
THEOREM CacheFollowsDisk == Spec => []CacheBehindDisk
<1>1. Typed /\ IInv => CacheBehindDisk
  <2> SUFFICES ASSUME Typed, IInv, Sane, Idle, NEW i \in DOMAIN inodeCache, i \in Reach
               PROVE  /\ IsPrefix(inodeCache[i].blocks, itable[i].blocks)
                      /\ itable[i].fType = "reg" => inodeCache[i].blocks = itable[i].blocks
                      /\ [inodeCache[i] EXCEPT !.blocks = <<>>] = [itable[i] EXCEPT !.blocks = <<>>]
    BY DEF CacheBehindDisk
  <2>1. PICK S \in SUBSET Inums : Tree(S) /\ Program(S)
    BY DEF IInv, Sound
  <2>2. i \in S /\ i \notin Saving
    BY <2>1, ReachSound DEF Idle, Saving
  <2>3. PICK c, n : c = inodeCache[i] /\ n = itable[i]
    OBVIOUS
  <2>4. c \in Node /\ n \in Node /\ c.blocks \in Seq(Blocks) /\ n.blocks \in Seq(Blocks)
    BY <2>2, <2>3, NodeIs DEF Typed
  <2>5. /\ c.fType = n.fType /\ c.owner = n.owner /\ c.ownerMode = n.ownerMode /\ c.otherMode = n.otherMode
        /\ Begins(c.blocks, n.blocks) /\ (n.fType = "reg" => c.blocks = n.blocks)
    <3>1. Follows(c, n, i \in Saving) /\ n.fType \in {"reg", "dir"}
      BY <2>1, <2>2, <2>3 DEF Tree, Agree, Live
    <3> QED
      BY <2>2, <2>4, <3>1 DEF Follows, Begins
  <2>6. IsPrefix(c.blocks, n.blocks)
    <3>1. PICK s, t : s = c.blocks /\ t = n.blocks
      OBVIOUS
    <3>2. s \in Seq(Blocks) /\ t \in Seq(Blocks) /\ Len(s) <= Len(t) /\ \A k \in 1 .. Len(s) : s[k] = t[k]
      BY <2>4, <2>5, <3>1 DEF Begins
    <3>3. SubSeq(s, 1, Len(s)) = SubSeq(t, 1, Len(s))
      BY <3>2
    <3> QED
      BY <3>1, <3>2, <3>3 DEF IsPrefix
  <2>7. [c EXCEPT !.blocks = <<>>] = [n EXCEPT !.blocks = <<>>]
    BY <2>4, <2>5 DEF Node
  <2> QED
    BY <2>3, <2>5, <2>6, <2>7
<1> QED
  BY <1>1, TypedInvariance, SoundInvariance, PTL

\* freeInodeTree visits an inode once, and none that is free already or that a
\* path still leads to, also when it is cut short (kernel.go:301-330).
THEOREM FreesEachOnce == Spec => []FreesOnce
<1>1. Typed /\ IInv => FreesOnce
  <2> SUFFICES ASSUME Typed, IInv, Sane, NEW j \in Freeing, NEW k \in Freeing
               PROVE  /\ todo[j].inum \in inodeBitmap \ Reach
                      /\ todo[j].inum = todo[k].inum => j = k
    BY DEF FreesOnce
  <2>1. PICK S \in SUBSET Inums : Tree(S) /\ Program(S)
    BY DEF IInv, Sound
  <2>2. /\ j \in 1 .. Len(todo) /\ k \in 1 .. Len(todo) /\ Len(todo) \in Nat /\ DOMAIN todo = 1 .. Len(todo)
        /\ todo[j].op \in {"freeInodeTree", "freeBlocks", "FreeInodeFromBitmap"} /\ ~Now("removeDentry")
    BY DEF Freeing, Typed
  <2>3. Emptying(S)
    <3>1. ASSUME NEW n \in Nat, NEW i, NEW ty, Behind(n, i, ty) PROVE j < n
      <4>1. todo[j].op # "addDentry" /\ todo[j].op # "Falloc"
        BY <2>2
      <4>2. j \in Nat /\ j <= Len(todo)
        BY <2>2
      <4>3. j \notin n .. Len(todo)
        BY <3>1, <4>1 DEF Behind
      <4> QED
        BY <2>2, <4>2, <4>3
    <3>2. ~Allocating(S) /\ ~Truncating(S)
      BY <2>2 DEF Allocating, Truncating
    <3>3. ~Initialising(S)
      BY <2>2, <3>1 DEF Initialising
    <3>4. ~Linking(S)
      BY <2>2, <3>1 DEF Linking
    <3>5. ~Growing(S)
      BY <2>2, <3>1 DEF Growing
    <3>6. ~Writing(S)
      BY <2>2 DEF Writing
    <3>7. ~Unlinking(S)
      <4>1. todo # <<>> /\ Head(todo) = todo[1]
        BY <2>2
      <4> QED
        BY <2>2, <4>1 DEF Unlinking, Now
    <3> QED
      BY <2>1, <3>2, <3>3, <3>4, <3>5, <3>6, <3>7 DEF Program
  <2>4. FreeOK(S, todo[j]) /\ (todo[j].inum = todo[k].inum => j = k)
    BY <2>2, <2>3 DEF Emptying
  <2>5. todo[j].inum \in inodeBitmap /\ todo[j].inum \notin Reach
    <3>1. Reach \subseteq S /\ S \subseteq inodeBitmap
      BY <2>1, ReachSound DEF Tree, Live
    <3>2. CASE todo[j].inum \in S /\ Unlisted(S, todo[j].inum)
      BY <2>1, <3>1, <3>2, UnlistedUnreached
    <3>3. CASE todo[j].inum \in inodeBitmap \ S
      BY <3>1, <3>3
    <3> QED
      BY <2>4, <3>2, <3>3 DEF FreeOK
  <2> QED
    BY <2>4, <2>5
<1> QED
  BY <1>1, TypedInvariance, SoundInvariance, PTL
=============================================================================
