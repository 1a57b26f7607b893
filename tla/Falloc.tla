------------------------------- MODULE Falloc -------------------------------
(***************************************************************************)
(* The block allocator of the file system (computer/fs_falloc.go) and the   *)
(* protocol in which its callers use it: writeFile and FileFD.Write,        *)
(* addDentry, freeInodeTree.  A file's blocks are its direct pointers and   *)
(* the words of up to three single-level pointer tables (find, sind, tind), *)
(* which live in data blocks themselves.                                    *)
(*                                                                         *)
(* Every caller holds Kernel.fsMu, so at most one operation is under way;   *)
(* what does interleave with its disk writes is the death of the engine.    *)
(* The inode a caller passes is taken to be the one on disk ("this function *)
(* does assume everything is perfect and correct about the inode"); module  *)
(* KernelFS checks the callers that may pass another.                       *)
(***************************************************************************)
EXTENDS Integers, FiniteSets

CONSTANTS
    Files,          \* regular files and directories, by inode
    Dirs,           \* the directories among them
    NoFile,         \* no operation is under way
    NumDataBlocks,  \* superblock.dataBlockCount
    BLOCKSIZE,      \* bytes in a block
    DIRECT,         \* direct pointers in an inode (12)
    PERIND,         \* pointers in an indirect table (1024)
    Text,           \* words of user data that are no block number
    Payload,        \* the block contents a program may write
    Sizes           \* the lengths in bytes a program may write

Blocks == 0 .. (NumDataBlocks - 1)

Places == 1 .. 3                          \* 1 = find, 2 = sind, 3 = tind

Content == [0 .. (PERIND - 1) -> Blocks \cup Text]

ZeroBlock == [i \in 0 .. (PERIND - 1) |-> 0]

ASSUME GeometryAssumption ==
    /\ NumDataBlocks \in Nat \ {0}
    /\ BLOCKSIZE \in Nat \ {0}
    /\ DIRECT \in Nat \ {0}
    /\ PERIND \in Nat \ {0}

ASSUME FilesAssumption == Dirs \subseteq Files /\ NoFile \notin Files

ASSUME DataAssumption ==
    /\ Payload \subseteq Content
    /\ Sizes \subseteq Nat
    /\ Text \cap Int = {}

VARIABLES
    dataBitmap,     \* the blocks whose bit is set, on disk
    blk,            \* contents of the data region, on disk
    disk,           \* the inode table, on disk
    mem,            \* the inode the operation under way works on (a cached one)
    linked,         \* files a directory entry leads to
    cur,            \* the file whose operation is under way
    stage,          \* how far that operation is
    next,           \* FileFD.Write: the next virtual block to write
    history         \* what deaths of the engine have done to the disk so far

vars == <<dataBitmap, blk, disk, mem, linked, cur, stage, next, history>>

Inode == [size : Nat, direct : [0 .. (DIRECT - 1) -> Blocks], ind : [Places -> Blocks]]

EmptyInode == [size   |-> 0,
               direct |-> [i \in 0 .. (DIRECT - 1) |-> 0],
               ind    |-> [p \in Places |-> 0]]

-----------------------------------------------------------------------------
(* Where a virtual block is. *)

\* The first virtual block behind the table of place p.
Boundary(p) == IF p = 1 THEN DIRECT
               ELSE IF p = 2 THEN DIRECT + PERIND ELSE DIRECT + PERIND + PERIND

\* virtualToPlaceRelative
Place(v) == IF v < Boundary(1) THEN 0
            ELSE IF v < Boundary(2) THEN 1
            ELSE IF v < Boundary(3) THEN 2 ELSE 3

Relative(v) == IF Place(v) = 0 THEN v ELSE v - Boundary(Place(v))

MaxBlocks == Boundary(3) + PERIND

\* ceil(size / BLOCKSIZE)
NumBlocks(size) == (size + BLOCKSIZE - 1) \div BLOCKSIZE

\* The slots of a file of nb blocks that hold a block number: the tables it
\* needs, as -3 (tind), -2 (sind), -1 (find), and its virtual blocks.  Falloc
\* hands out blocks in the order of these numbers.
Slots(nb) == {-p : p \in {q \in Places : nb > Boundary(q)}} \cup 0 .. (nb - 1)

\* The block number in slot s of inode in, when the data region holds b.
Pointer(in, b, s) ==
    IF s < 0 THEN in.ind[-s]
    ELSE IF Place(s) = 0 THEN in.direct[s]
    ELSE b[in.ind[Place(s)]][Relative(s)]

-----------------------------------------------------------------------------
(* The free blocks a growing file gets. *)

\* What findFreeBit returns after r earlier calls: the r-th lowest clear bit,
\* counting from 0.  It finds none when fewer bits are clear.
IsFreeBit(b, r) == b \in Blocks \ dataBitmap
                   /\ Cardinality({c \in Blocks \ dataBitmap : c < b}) = r

\* Mutant: counts the bits from 1.
FreeBitFromOne(r) == 1 + (CHOOSE b \in Blocks : IsFreeBit(b, r))

FreeBit(r) == CHOOSE b \in Blocks : IsFreeBit(b, r)

NewSlots(old, new) == Slots(new) \ Slots(old)

\* Mutant: the tables are left out of the count.
TurnOfData(new, s) == Cardinality({t \in new : 0 <= t /\ t < s})

\* How many blocks are handed out before slot s gets its own.
Turn(new, s) == Cardinality({t \in new : t < s})

\* The call of findFreeBit for slot s finds a block.
Finds(new, s) == \E b \in Blocks : IsFreeBit(b, Turn(new, s))

Grown(in, size, new) ==
    [size   |-> size,
     direct |-> [i \in 0 .. (DIRECT - 1) |->
                    IF i \in new THEN FreeBit(Turn(new, i)) ELSE in.direct[i]],
     ind    |-> [p \in Places |->
                    IF -p \in new THEN FreeBit(Turn(new, -p)) ELSE in.ind[p]]]

\* getDataBlock writes zeros over each table it hands out.
Zeroed(in, ps) == [b \in Blocks |-> IF \E p \in ps : in.ind[p] = b THEN ZeroBlock ELSE blk[b]]

\* The table of place p with the new pointers put into it.
Table(in, b, new, p) ==
    [i \in 0 .. (PERIND - 1) |->
        IF Boundary(p) + i \in new THEN FreeBit(Turn(new, Boundary(p) + i))
                                   ELSE b[in.ind[p]][i]]

\* The tables of the places ps written back (in the order find, sind, tind).
Stored(in, b, new, ps) ==
    [c \in Blocks |->
        IF \E p \in ps : in.ind[p] = c
        THEN Table(in, b, new, CHOOSE p \in ps : in.ind[p] = c
                                    /\ \A q \in ps : in.ind[q] = c => q <= p)
        ELSE b[c]]

\* The tables Falloc loads because a new virtual block lies behind them.
Touched(new) == {p \in Places : \E v \in new : v >= 0 /\ Place(v) = p}

\* Mutant: a table that was there already is zeroed as if it were new.
TablesTouched(new) == Touched(new)

\* The tables getDataBlock hands out.
NewTables(new) == {p \in Places : -p \in new}

-----------------------------------------------------------------------------
(* Falloc(inode, newSize) on mem[f]: the cases that return nil. *)

FallocSame(f, size) ==
    /\ NumBlocks(size) = NumBlocks(mem[f].size)
    /\ mem' = [mem EXCEPT ![f].size = size]
    /\ UNCHANGED <<dataBitmap, blk>>

FallocGrow(f, size) ==
    LET new == NewSlots(NumBlocks(mem[f].size), NumBlocks(size))
        in  == Grown(mem[f], size, new)
    IN  /\ NumBlocks(size) > NumBlocks(mem[f].size)
        /\ NumBlocks(size) <= MaxBlocks
        /\ \A s \in new : Finds(new, s)
        /\ mem' = [mem EXCEPT ![f] = in]
        /\ blk' = Stored(in, Zeroed(in, NewTables(new)), new, Touched(new))
        /\ dataBitmap' = dataBitmap \cup {FreeBit(Turn(new, s)) : s \in new}

\* Mutant: a table goes as soon as one of its pointers does.
FallocShrinkEager(f, size) ==
    LET old == NewSlots(NumBlocks(size), NumBlocks(mem[f].size))
    IN  /\ NumBlocks(size) < NumBlocks(mem[f].size)
        /\ dataBitmap' = dataBitmap \ {Pointer(mem[f], blk, s) : s \in old \cup {-p : p \in Touched(old)}}
        /\ mem' = [mem EXCEPT ![f].size = size]
        /\ UNCHANGED blk

\* Mutant: the tables are kept.
FallocShrinkData(f, size) ==
    LET old == NewSlots(NumBlocks(size), NumBlocks(mem[f].size))
    IN  /\ NumBlocks(size) < NumBlocks(mem[f].size)
        /\ dataBitmap' = dataBitmap \ {Pointer(mem[f], blk, s) : s \in {t \in old : t >= 0}}
        /\ mem' = [mem EXCEPT ![f].size = size]
        /\ UNCHANGED blk

\* The pointers of the freed slots stay where they are.
FallocShrink(f, size) ==
    LET old == NewSlots(NumBlocks(size), NumBlocks(mem[f].size))
    IN  /\ NumBlocks(size) < NumBlocks(mem[f].size)
        /\ dataBitmap' = dataBitmap \ {Pointer(mem[f], blk, s) : s \in old}
        /\ mem' = [mem EXCEPT ![f].size = size]
        /\ UNCHANGED blk

Falloc(f, size) == FallocSame(f, size) \/ FallocGrow(f, size) \/ FallocShrink(f, size)

-----------------------------------------------------------------------------
(* The callers. *)

Idle == stage = "idle"

Done == stage' = "idle" /\ cur' = NoFile /\ next' = 0

\* makeInode writes a fresh inode and links it.
Create(f) ==
    /\ Idle /\ f \notin linked
    /\ linked' = linked \cup {f}
    /\ mem' = [mem EXCEPT ![f] = EmptyInode]
    /\ disk' = [disk EXCEPT ![f] = EmptyInode]
    /\ UNCHANGED <<dataBitmap, blk, cur, stage, next, history>>

\* writeFile truncates to the new length before it writes.  When Falloc says
\* the file would be too large, writeFile returns and nothing has changed.
Resize(f, size) ==
    /\ Idle /\ f \in linked \ Dirs
    /\ Falloc(f, size)
    /\ cur' = f /\ stage' = "resized" /\ next' = 0
    /\ UNCHANGED <<disk, linked, history>>

\* FileFD.Write: the blocks of the file in order, one disk write each.
WriteData(words) ==
    LET b == Pointer(mem[cur], blk, next)
    IN  /\ stage = "resized" /\ next < NumBlocks(mem[cur].size)
        /\ b \in Blocks
        /\ blk' = [blk EXCEPT ![b] = words]
        /\ next' = next + 1
        /\ UNCHANGED <<dataBitmap, disk, mem, linked, cur, stage, history>>

\* writeInode ends writeFile, after the last block.
WriteInode ==
    /\ stage = "resized" /\ next = NumBlocks(mem[cur].size)
    /\ disk' = [disk EXCEPT ![cur] = mem[cur]]
    /\ Done
    /\ UNCHANGED <<dataBitmap, blk, mem, linked, history>>

\* addDentry adds a block to a full directory and writes the inode at once.
GrowDir(f) ==
    /\ Idle /\ f \in linked \cap Dirs
    /\ FallocGrow(f, mem[f].size + BLOCKSIZE)
    /\ cur' = f /\ stage' = "grown" /\ next' = 0
    /\ UNCHANGED <<disk, linked, history>>

WriteDirInode ==
    /\ stage = "grown"
    /\ disk' = [disk EXCEPT ![cur] = mem[cur]]
    /\ Done
    /\ UNCHANGED <<dataBitmap, blk, mem, linked, history>>

\* tryInsert and removeDentry rewrite one block of a directory.
WriteDir(f, v, words) ==
    LET b == Pointer(mem[f], blk, v)
    IN  /\ Idle /\ f \in linked \cap Dirs
        /\ v \in 0 .. (NumBlocks(mem[f].size) - 1) /\ b \in Blocks
        /\ blk' = [blk EXCEPT ![b] = words]
        /\ UNCHANGED <<dataBitmap, disk, mem, linked, cur, stage, next, history>>

\* removeAll takes the name away first,
Unlink(f) ==
    /\ Idle /\ f \in linked
    /\ linked' = linked \ {f}
    /\ cur' = f /\ stage' = "unlinked" /\ next' = 0
    /\ UNCHANGED <<dataBitmap, blk, disk, mem, history>>

\* then freeInodeTree gives the blocks back.  The inode on disk keeps its size.
FreeInode ==
    /\ stage = "unlinked"
    /\ Falloc(cur, 0)
    /\ Done
    /\ UNCHANGED <<disk, linked, history>>

-----------------------------------------------------------------------------
(* The engine dies and is started again: what was in memory is lost. *)

Restart == mem' = disk /\ Done /\ UNCHANGED <<disk, linked>>

InWrite == stage \in {"resized", "grown"}

\* A shrunken file whose inode was not written leads to blocks that are free.
Tears == InWrite /\ NumBlocks(mem[cur].size) < NumBlocks(disk[cur].size)

\* A grown file whose inode was not written, and an unlinked one, lose blocks.
Leaks == \/ InWrite /\ NumBlocks(mem[cur].size) > NumBlocks(disk[cur].size)
         \/ stage = "unlinked" /\ mem[cur].size # 0

\* Between two disk writes.
Kill ==
    /\ Restart
    /\ UNCHANGED <<dataBitmap, blk>>
    /\ history' = IF Tears THEN "torn"
                  ELSE IF Leaks /\ history = "intact" THEN "leaky" ELSE history

\* Inside a growing Falloc, by a signal or by its own panic when no block is
\* free: the first tables are zeroed (tind first), or all are and the first
\* tables are written back (find first); the bitmap is the last to be written.
KillInFalloc(f, size, zeroed, stored) ==
    LET new == NewSlots(NumBlocks(mem[f].size), NumBlocks(size))
        in  == Grown(mem[f], size, new)
        zs  == {p \in NewTables(new) : p >= zeroed}
        ss  == {p \in Touched(new) : p <= stored}
    IN  /\ Idle /\ f \in linked
        /\ NumBlocks(size) > NumBlocks(mem[f].size) /\ NumBlocks(size) <= MaxBlocks
        /\ f \in Dirs => size = mem[f].size + BLOCKSIZE
        /\ \A p \in zs : Finds(new, -p)
        /\ stored > 0 => zs = NewTables(new) /\ \A s \in new : Finds(new, s)
        /\ blk' = Stored(in, Zeroed(in, zs), new, ss)
        /\ Restart
        /\ UNCHANGED <<dataBitmap, history>>

-----------------------------------------------------------------------------
Init ==
    /\ dataBitmap = {}
    /\ blk = [b \in Blocks |-> ZeroBlock]
    /\ disk = [f \in Files |-> EmptyInode]
    /\ mem = disk
    /\ linked = {}
    /\ cur = NoFile /\ stage = "idle" /\ next = 0
    /\ history = "intact"

Next ==
    \/ \E f \in Files : Create(f)
    \/ \E f \in Files, size \in Sizes : Resize(f, size)
    \/ \E words \in Payload : WriteData(words)
    \/ WriteInode
    \/ \E f \in Files : GrowDir(f)
    \/ WriteDirInode
    \/ \E f \in Files, words \in Payload, v \in 0 .. (MaxBlocks - 1) : WriteDir(f, v, words)
    \/ \E f \in Files : Unlink(f)
    \/ FreeInode
    \/ Kill
    \/ \E f \in Files, size \in Sizes, z \in 1 .. 4, s \in 0 .. 3 : KillInFalloc(f, size, z, s)

Spec == Init /\ [][Next]_vars

-----------------------------------------------------------------------------
(* Properties. *)

\* The variables hold what their declarations say: bitmap and pointers stay
\* inside the data region, and an operation is under way exactly when a file
\* is being worked on.
TypeOK ==
    /\ dataBitmap \subseteq Blocks
    /\ blk \in [Blocks -> Content]
    /\ disk \in [Files -> Inode] /\ mem \in [Files -> Inode]
    /\ linked \subseteq Files
    /\ cur \in Files \cup {NoFile}
    /\ stage \in {"idle", "resized", "grown", "unlinked"}
    /\ stage = "idle" <=> cur = NoFile
    /\ next \in Nat
    /\ history \in {"intact", "leaky", "torn"}

\* The files that own blocks: those linked, and the one being freed.
Holders == linked \cup (IF stage = "unlinked" THEN {cur} ELSE {})

SlotsOf(f) == Slots(NumBlocks(mem[f].size))

BlockIn(f, s) == Pointer(mem[f], blk, s)

\* Every block a file uses, tables included, has its bit set in the data
\* bitmap, so Falloc cannot hand it out again (findFreeBit and setBit,
\* fs_falloc.go:137-143), whatever crashes came before short of a torn shrink.
Allocated ==
    history # "torn" => \A f \in Holders : \A s \in SlotsOf(f) : BlockIn(f, s) \in dataBitmap

\* No block serves two files or two places of one file: not two data blocks,
\* not a data block and a pointer table (fs_falloc.go:121-189 grows, 247-258
\* frees a table when its last pointer goes).
NoSharing ==
    history # "torn" =>
        \A f, g \in Holders : \A s \in SlotsOf(f), t \in SlotsOf(g) :
            BlockIn(f, s) = BlockIn(g, t) => f = g /\ s = t

\* When no crash has leaked anything, a block whose bit is set is in use by
\* some file: shrinking and freeing give every block back, tables included
\* (fs_falloc.go:191-259, kernel.go:322).
NoLeak ==
    history = "intact" =>
        dataBitmap \subseteq UNION {{BlockIn(f, s) : s \in SlotsOf(f)} : f \in Holders}

\* The files as a program sees them: arrays of block contents.
Arrays ==
    [f \in linked |-> [v \in 0 .. (NumBlocks(mem[f].size) - 1) |-> blk[BlockIn(f, v)]]]

Abstract == INSTANCE FileArrays
    WITH arrays <- IF history = "torn" THEN [f \in {} |-> {}] ELSE Arrays,
         sound  <- history # "torn"

\* The allocator and its callers implement plain arrays of blocks: every step,
\* death and restart included, creates, removes or resizes one file, keeping
\* every block that remains, or writes one block of one file; no step reaches
\* the contents of another file (fs_falloc.go:61-275, fs_fd.go:105-142).
ImplementsFileArrays == Abstract!Spec
=============================================================================
