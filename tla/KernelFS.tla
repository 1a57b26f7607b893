------------------------------ MODULE KernelFS ------------------------------
(***************************************************************************)
(* The file-system syscalls of the kernel (computer/kernel.go) over the     *)
(* inode table, the directories (fs_dir.go), the two bitmaps and the inode  *)
(* cache.  A syscall resolves its path and then runs a program of disk      *)
(* writes; fsMu keeps other syscalls out until it returns, but the engine   *)
(* may die between any two writes, and a write that fails abandons the      *)
(* rest of the program.                                                     *)
(*                                                                         *)
(* An inode's pointers are a sequence of block numbers (module Falloc       *)
(* models how they are stored), lengths are counted in blocks, and a block  *)
(* is EPB slots of 64 bytes (64 of them in the code): a free slot, an       *)
(* entry, or text, which read as an entry names an inode that is not there. *)
(***************************************************************************)
EXTENDS Integers, Sequences, FiniteSets, SequencesExt

CONSTANTS
    Inums,          \* inode numbers from ROOT up
    NumBlocks,      \* data blocks
    EPB,            \* entries per block
    MaxFileBlocks,  \* MaxBlocks of Falloc
    Users,          \* effective users
    Paths,          \* the paths syscalls are asked for, as sequences of names
    LongNames,      \* names of more than 55 bytes
    Lengths,        \* lengths of a written file, in blocks
    Modes           \* the <<ownerMode, otherMode>> chmod may set

ROOT == 2

ASSUME KernelFSAssumption ==
    /\ ROOT \in Inums /\ Inums \subseteq Nat \ {0}
    /\ NumBlocks \in Nat \ {0} /\ EPB \in Nat /\ EPB >= 2
    /\ MaxFileBlocks \in Nat \ {0}
    /\ "root" \in Users /\ Lengths \subseteq Nat
    /\ Paths \subseteq Seq(STRING)
    /\ \A path \in Paths : ToSet(path) \cap {".", "..", ""} = {}
    /\ Modes \subseteq (SUBSET {"r", "w", "x"}) \X (SUBSET {"r", "w", "x"})

VARIABLES
    inodeBitmap,    \* inodes whose bit is set
    itable,         \* the inode table on disk
    dataBitmap,     \* blocks whose bit is set
    blk,            \* contents of the data blocks
    inodeCache,     \* Kernel.inodeCache
    todo,           \* what the syscall under way still has to do, in order
    stale,          \* a directory has been given a block that lists old entries
    torn,           \* the engine died between a shrinking Falloc and writeInode
    blind           \* a name was added in a directory that could not be searched

disk == <<inodeBitmap, itable, dataBitmap, blk>>
vars == <<disk, inodeCache, todo, stale, torn, blind>>

Blocks == 0 .. (NumBlocks - 1)

\* A slot of a block: inum 0 marks it free.
Slot(i, nm) == [inum |-> i, name |-> nm]
Free == Slot(0, "")
Text == Slot(-1, "text")       \* text read as an entry: no such inode

FreshInode(ty, u) ==           \* what makeInode writes
    [fType |-> ty, owner |-> u, ownerMode |-> {"r", "w", "x"}, otherMode |-> {"r", "x"},
     blocks |-> <<>>]

-----------------------------------------------------------------------------
(* Inodes and directories. *)

\* getInode: the cache first, then the disk.
GetInode(i) == IF i \in DOMAIN inodeCache THEN inodeCache[i] ELSE itable[i]

\* The cache after getInode of every inode in is.
Cached(is) == [i \in DOMAIN inodeCache \cup is |-> GetInode(i)]

\* iterBlocks: every slot of a directory, in order, by the inode on disk.
SlotsOf(d) ==
    LET bs == itable[d].blocks
    IN  [k \in 1 .. (Len(bs) * EPB) |-> blk[bs[((k - 1) \div EPB) + 1]][((k - 1) % EPB) + 1]]

\* Mutant: .. is taken for a child.
IsChildOrParent(e) == e.inum # 0 /\ e.name # "."

IsChild(e) == e.inum # 0 /\ e.name \notin {".", ".."}

\* The slots of a directory that hold a child: decodeDirEntries skips the free
\* ones, its callers the directory itself and its parent.
Children(d) == {k \in DOMAIN SlotsOf(d) : IsChild(SlotsOf(d)[k])}

\* The member of a set of numbers that has r smaller ones in it.
Nth(S, r) == CHOOSE x \in S : Cardinality({y \in S : y < x}) = r

\* The first position of a directory whose slot satisfies Test, or 0.
FirstSlot(d, Test(_)) ==
    LET ks == {k \in DOMAIN SlotsOf(d) : Test(SlotsOf(d)[k])}
    IN  IF ks = {} THEN 0 ELSE CHOOSE k \in ks : \A j \in ks : k <= j

FreeSlot(d) == FirstSlot(d, LAMBDA e : e.inum = 0)

Find(d, nm) == FirstSlot(d, LAMBDA e : e.inum # 0 /\ e.name = nm)

\* blk after slot k of directory d has been rewritten.
WithSlot(d, k, e) ==
    [blk EXCEPT ![itable[d].blocks[((k - 1) \div EPB) + 1]][((k - 1) % EPB) + 1] = e]

\* canRead, canWrite, canExecute
May(u, in, right) ==
    \/ u = "root"
    \/ in.owner = u /\ right \in in.ownerMode
    \/ in.owner # u /\ right \in in.otherMode

-----------------------------------------------------------------------------
(* ResolvePath: a path is a sequence of names.  The result carries the inode  *)
(* reached, how the walk ended and the inodes it loaded into the cache.       *)

\* One component of the path.
Resolve(u, w, nm) ==
    LET in == GetInode(w.inum)
        at == Find(w.inum, nm)
        i  == SlotsOf(w.inum)[at].inum
    IN  IF w.err # "ok" THEN w
        ELSE IF in.fType # "dir" THEN [w EXCEPT !.err = "ENOTDIR"]
        ELSE IF ~May(u, in, "x") THEN [w EXCEPT !.err = "EACCES"]
        ELSE IF at = 0 THEN [w EXCEPT !.err = "ENOENT"]
        ELSE IF i \notin Inums THEN [w EXCEPT !.err = "EIO"]
        ELSE [w EXCEPT !.inum = i, !.seen = @ \cup {i}]

Walk(u, path) ==
    LET walk[k \in 0 .. Len(path)] ==
            IF k = 0 THEN [inum |-> ROOT, err |-> "ok", seen |-> {ROOT}]
            ELSE Resolve(u, walk[k - 1], path[k])
    IN  walk[Len(path)]

-----------------------------------------------------------------------------
(* The programs of disk writes. *)

\* makeInode; len is -1, or the length writeFile goes on to write.
Make(d, nm, ty, u, len) ==
    <<[op |-> "AllocInode", dir |-> d, name |-> nm, fType |-> ty, user |-> u, len |-> len]>>

Link(d, nm, i) == [op |-> "addDentry", dir |-> d, name |-> nm, inum |-> i]

\* writeFile from the truncation on.
Write(i, len) == <<[op |-> "Falloc", inum |-> i, len |-> len]>>

\* Mutant: the inode is freed before its name is gone.
RemovalFreesFirst(d, nm, i) == <<[op |-> "freeInodeTree", inum |-> i],
                                [op |-> "removeDentry", dir |-> d, name |-> nm]>>

\* removeAll
Removal(d, nm, i) == <<[op |-> "removeDentry", dir |-> d, name |-> nm],
                      [op |-> "freeInodeTree", inum |-> i]>>

\* Mutant: the cached inode is changed and not written back.
SaveForgotten(i) == <<>>

Save(i) == <<[op |-> "writeInode", inum |-> i]>>

Idle == todo = <<>>

\* A syscall begins: it has loaded the inodes of is into the cache.
Begin(is, program) ==
    /\ inodeCache' = Cached(is)
    /\ todo' = program
    /\ UNCHANGED <<disk, stale, torn>>

-----------------------------------------------------------------------------
(* The syscalls, by user u on a path. *)

Parent(path) == SubSeq(path, 1, Len(path) - 1)

\* Mutant: the path is not looked up first.
CreateUnchecked(u, path, ty) ==
    LET p == Walk(u, Parent(path))
    IN  /\ Idle /\ path # <<>>
        /\ Begin(p.seen, IF p.err = "ok" /\ GetInode(p.inum).fType = "dir"
                            /\ May(u, GetInode(p.inum), "w")
                         THEN Make(p.inum, Last(path), ty, u, -1) ELSE <<>>)
        /\ UNCHANGED blind

\* mkDir and createFile: they differ only in what they make.  The path itself
\* must not resolve; / always does.  A user who may write to the directory but
\* not search it gets EACCES for a name that is there, too.
Create(u, path, ty) ==
    LET w == Walk(u, path)
        p == Walk(u, Parent(path))
        ok == /\ p.err = "ok"
              /\ GetInode(p.inum).fType = "dir"
              /\ May(u, GetInode(p.inum), "w")
    IN  /\ Idle
        /\ IF w.err = "ok" THEN Begin(w.seen, <<>>)
           ELSE Begin(w.seen \cup p.seen,
                      IF ok THEN Make(p.inum, Last(path), ty, u, -1) ELSE <<>>)
        /\ blind' = (blind \/ (ok /\ w.err \notin {"ok", "ENOENT"}))

mkDir(u, path) == Create(u, path, "dir")

createFile(u, path) == Create(u, path, "reg")

\* writeFile makes the file if only its last name is missing.
writeFile(u, path, len) ==
    LET w == Walk(u, path)
        p == Walk(u, Parent(path))
    IN  /\ Idle
        /\ CASE w.err = "ENOENT" ->
                  Begin(w.seen \cup p.seen,
                        IF p.err = "ok" /\ May(u, GetInode(p.inum), "w")
                        THEN Make(p.inum, Last(path), "reg", u, len) ELSE <<>>)
             [] w.err = "ok" ->
                  Begin(w.seen,
                        IF GetInode(w.inum).fType # "dir" /\ May(u, GetInode(w.inum), "w")
                        THEN Write(w.inum, len) ELSE <<>>)
             [] OTHER -> Begin(w.seen, <<>>)

removeAll(u, path) ==
    LET w == Walk(u, path)
        p == Walk(u, Parent(path))
        ok == /\ w.err = "ok" /\ p.err = "ok"
              /\ May(u, GetInode(p.inum), "w") /\ May(u, GetInode(p.inum), "x")
    IN  /\ Idle /\ path # <<>>
        /\ Begin(w.seen \cup p.seen, IF ok THEN Removal(p.inum, Last(path), w.inum) ELSE <<>>)

\* chmod changes the cached inode and writes it back.
chmod(u, path, mode) ==
    LET w  == Walk(u, path)
        in == GetInode(w.inum)
        ok == w.err = "ok" /\ (u = "root" \/ in.owner = u)
    IN  /\ Idle
        /\ inodeCache' = IF ok THEN [Cached(w.seen) EXCEPT ![w.inum].ownerMode = mode[1],
                                                           ![w.inum].otherMode = mode[2]]
                         ELSE Cached(w.seen)
        /\ todo' = IF ok THEN Save(w.inum) ELSE <<>>
        /\ UNCHANGED <<disk, stale, torn>>

\* Three syscalls only look, and fill the cache.
stat(u, path) == Idle /\ Begin(Walk(u, path).seen, <<>>)

readFile(u, path) == Idle /\ Begin(Walk(u, path).seen, <<>>)

changeDirectory(u, path) == Idle /\ Begin(Walk(u, path).seen, <<>>)

\* readDir loads the inode of every entry too, up to one that is not there.
readDir(u, path) ==
    LET w  == Walk(u, path)
        ok == w.err = "ok" /\ GetInode(w.inum).fType = "dir" /\ May(u, GetInode(w.inum), "r")
        inum(k) == SlotsOf(w.inum)[k].inum
        good == {k \in Children(w.inum) : \A j \in Children(w.inum) : j <= k => inum(j) \in Inums}
    IN  /\ Idle
        /\ Begin(w.seen \cup (IF ok THEN {inum(k) : k \in good} ELSE {}), <<>>)

-----------------------------------------------------------------------------
(* The steps of a program.  An error makes the syscall return: what it has     *)
(* written stays.                                                             *)

Now(op) == todo # <<>> /\ Head(todo).op = op

Rest == Tail(todo)

Fail == todo' = <<>> /\ UNCHANGED <<disk, inodeCache, stale, torn>>

\* The engine dies and is started again: the cache is empty.
Die == todo' = <<>> /\ inodeCache' = [i \in {} |-> 0] /\ UNCHANGED <<disk, stale>>

Lowest(S) == CHOOSE x \in S : \A y \in S : x <= y

\* Mutant: the bit is not set.
MarkInodeNot(i) == inodeBitmap

\* The inode bitmap with the bit of i set.
MarkInode(i) == inodeBitmap \cup {i}

AllocInode ==
    LET t == Head(todo)
        i == Lowest(Inums \ inodeBitmap)
        init == [op |-> "initInode", inum |-> i, fType |-> t.fType, user |-> t.user]
    IN  /\ Now("AllocInode")
        /\ \/ Inums \subseteq inodeBitmap /\ Fail
           \/ /\ ~(Inums \subseteq inodeBitmap)
              /\ inodeBitmap' = MarkInode(i)
              /\ todo' = <<init, Link(t.dir, t.name, i)>>
                         \o (IF t.fType = "dir" THEN <<Link(i, ".", i), Link(i, "..", t.dir)>>
                                                ELSE <<>>)
                         \o (IF t.len >= 0 THEN Write(i, t.len) ELSE <<>>)
              /\ UNCHANGED <<itable, dataBitmap, blk, inodeCache, stale, torn>>

\* writeInode of the fresh inode; a stale cached one is thrown away.
initInode ==
    LET t == Head(todo)
    IN  /\ Now("initInode")
        /\ itable' = [itable EXCEPT ![t.inum] = FreshInode(t.fType, t.user)]
        /\ inodeCache' = [i \in DOMAIN inodeCache \ {t.inum} |-> inodeCache[i]]
        /\ todo' = Rest
        /\ UNCHANGED <<inodeBitmap, dataBitmap, blk, stale, torn>>

\* Mutant: one block too many is let through.
TooLargeByOne(n) == n > MaxFileBlocks + 1

\* Falloc refuses a file of n blocks.
TooLarge(n) == n > MaxFileBlocks

\* Mutant: Falloc does not write the bitmap back.
MarkBlocksNot(bs) == dataBitmap

\* The data bitmap with the bits of bs set.
MarkBlocks(bs) == dataBitmap \cup bs

\* A block of slots that lists a child: what it was used for before.
ListsOld(b) == \E k \in 1 .. EPB : IsChild(blk[b][k])

\* addDentry with a free slot in some block of the directory.
addDentryInsert ==
    LET t == Head(todo)
        k == FreeSlot(t.dir)
    IN  /\ Now("addDentry") \/ Now("retry")
        /\ t.name \notin LongNames /\ k # 0
        /\ blk' = WithSlot(t.dir, k, Slot(t.inum, t.name))
        /\ todo' = Rest
        /\ UNCHANGED <<inodeBitmap, itable, dataBitmap, inodeCache, stale, torn>>

\* addDentry in a full directory: Falloc one more block, write the inode (read
\* from disk, not from the cache) and try again.  The block is not zeroed.
addDentryGrow ==
    LET t == Head(todo)
        b == Lowest(Blocks \ dataBitmap)
        bs == Append(itable[t.dir].blocks, b)
    IN  /\ Now("addDentry")
        /\ t.name \notin LongNames /\ FreeSlot(t.dir) = 0
        /\ ~(Blocks \subseteq dataBitmap) /\ ~TooLarge(Len(bs))
        /\ dataBitmap' = MarkBlocks({b})
        /\ todo' = <<[op |-> "saveDir", dir |-> t.dir, blocks |-> bs], [t EXCEPT !.op = "retry"]>> \o Rest
        /\ stale' = (stale \/ ListsOld(b))
        /\ UNCHANGED <<inodeBitmap, itable, blk, inodeCache, torn>>

\* addDentry returns an error: the name is too long, the directory cannot
\* grow, or the block it got is full of old entries.
addDentryFail ==
    LET t == Head(todo)
    IN  /\ \/ Now("addDentry") /\ (\/ t.name \in LongNames
                                   \/ FreeSlot(t.dir) = 0 /\ TooLarge(Len(itable[t.dir].blocks) + 1))
           \/ Now("retry") /\ FreeSlot(t.dir) = 0
        /\ Fail

saveDir ==
    LET t == Head(todo)
    IN  /\ Now("saveDir")
        /\ itable' = [itable EXCEPT ![t.dir].blocks = t.blocks]
        /\ todo' = Rest
        /\ UNCHANGED <<inodeBitmap, dataBitmap, blk, inodeCache, stale, torn>>

\* Falloc panics when no block is free: the whole engine goes down.
panic ==
    LET t == Head(todo)
    IN  /\ \/ Now("addDentry") /\ t.name \notin LongNames /\ FreeSlot(t.dir) = 0
              /\ ~TooLarge(Len(itable[t.dir].blocks) + 1) /\ Blocks \subseteq dataBitmap
           \/ Now("Falloc") /\ ~TooLarge(t.len)
              /\ t.len - Len(GetInode(t.inum).blocks) > Cardinality(Blocks \ dataBitmap)
        /\ Die
        /\ UNCHANGED torn

\* The entry is there: ResolvePath has just found it, under the same lock.
removeDentry ==
    LET t == Head(todo)
        k == Find(t.dir, t.name)
    IN  /\ Now("removeDentry") /\ k # 0
        /\ blk' = WithSlot(t.dir, k, Free)
        /\ todo' = Rest
        /\ UNCHANGED <<inodeBitmap, itable, dataBitmap, inodeCache, stale, torn>>

\* freeInodeTree: the children first, as the directory on disk lists them.
freeInodeTree ==
    LET t == Head(todo)
        in == GetInode(t.inum)
        kids == IF in.fType = "dir" THEN Children(t.inum) ELSE {}
    IN  /\ Now("freeInodeTree")
        /\ \/ t.inum \notin Inums /\ Fail
           \/ /\ t.inum \in Inums
              /\ inodeCache' = Cached({t.inum})
              /\ todo' = [r \in 1 .. Cardinality(kids) |->
                             [op |-> "freeInodeTree", inum |-> SlotsOf(t.inum)[Nth(kids, r - 1)].inum]]
                         \o <<[op |-> "freeBlocks", inum |-> t.inum]>> \o Rest
              /\ UNCHANGED <<disk, stale, torn>>

\* Falloc(in, 0) on the inode freeInodeTree holds: the cached one.
freeBlocks ==
    LET i == Head(todo).inum
    IN  /\ Now("freeBlocks")
        /\ dataBitmap' = dataBitmap \ ToSet(GetInode(i).blocks)
        /\ inodeCache' = [Cached({i}) EXCEPT ![i].blocks = <<>>]
        /\ todo' = <<[op |-> "FreeInodeFromBitmap", inum |-> i]>> \o Rest
        /\ UNCHANGED <<inodeBitmap, itable, blk, stale, torn>>

FreeInodeFromBitmap ==
    LET i == Head(todo).inum
    IN  /\ Now("FreeInodeFromBitmap")
        /\ inodeBitmap' = inodeBitmap \ {i}
        /\ IF i \in inodeBitmap
           THEN todo' = Rest /\ inodeCache' = [j \in DOMAIN inodeCache \ {i} |-> inodeCache[j]]
           ELSE todo' = <<>> /\ UNCHANGED inodeCache      \* already free: an error
        /\ UNCHANGED <<itable, dataBitmap, blk, stale, torn>>

\* writeFile truncates the cached inode, then writes every block and the inode.
Falloc ==
    LET t  == Head(todo)
        i  == t.inum
        bs == GetInode(i).blocks
        grown == bs \o [r \in 1 .. (t.len - Len(bs)) |-> Nth(Blocks \ dataBitmap, r - 1)]
        new == IF t.len > Len(bs) THEN grown ELSE SubSeq(bs, 1, t.len)
    IN  /\ Now("Falloc")
        /\ \/ TooLarge(t.len) /\ Fail
           \/ /\ ~TooLarge(t.len) /\ t.len - Len(bs) <= Cardinality(Blocks \ dataBitmap)
              /\ dataBitmap' = MarkBlocks(ToSet(new)) \ (ToSet(bs) \ ToSet(new))
              /\ inodeCache' = [Cached({i}) EXCEPT ![i].blocks = new]
              /\ todo' = [k \in 1 .. t.len |-> [op |-> "writeDataBlock", inum |-> i, at |-> k]]
                         \o Save(i) \o Rest
              /\ UNCHANGED <<inodeBitmap, itable, blk, stale, torn>>

writeDataBlock ==
    LET t == Head(todo)
    IN  /\ Now("writeDataBlock")
        /\ blk' = [blk EXCEPT ![GetInode(t.inum).blocks[t.at]] = [k \in 1 .. EPB |-> Text]]
        /\ todo' = Rest
        /\ UNCHANGED <<inodeBitmap, itable, dataBitmap, inodeCache, stale, torn>>

writeInode ==
    LET i == Head(todo).inum
    IN  /\ Now("writeInode")
        /\ itable' = [itable EXCEPT ![i] = GetInode(i)]
        /\ todo' = Rest
        /\ UNCHANGED <<inodeBitmap, dataBitmap, blk, inodeCache, stale, torn>>

Step ==
    /\ \/ AllocInode \/ initInode \/ addDentryInsert \/ addDentryGrow \/ addDentryFail
       \/ saveDir \/ removeDentry \/ freeInodeTree \/ freeBlocks \/ FreeInodeFromBitmap
       \/ Falloc \/ writeDataBlock \/ writeInode \/ panic
    /\ UNCHANGED blind

\* The engine is killed.  A file that was shrunk and whose inode was not yet
\* written leads to blocks that are free.
Kill ==
    /\ Die /\ UNCHANGED blind
    /\ torn' = (torn \/ \E k \in DOMAIN todo :
                            /\ todo[k].op = "writeInode" /\ itable[todo[k].inum].fType = "reg"
                            /\ Len(GetInode(todo[k].inum).blocks) < Len(itable[todo[k].inum].blocks))

-----------------------------------------------------------------------------
\* A formatted disk whose root directory lists . and .. (NewFileSystem and the
\* first lines of initFSTree).
Init ==
    /\ inodeBitmap = {ROOT}
    /\ itable = [i \in Inums |-> IF i = ROOT THEN [FreshInode("dir", "root") EXCEPT !.blocks = <<0>>]
                                             ELSE FreshInode("none", "root")]
    /\ dataBitmap = {0}
    /\ blk = [b \in Blocks |-> [k \in 1 .. EPB |->
                 IF b = 0 /\ k = 1 THEN Slot(ROOT, ".")
                 ELSE IF b = 0 /\ k = 2 THEN Slot(ROOT, "..") ELSE Free]]
    /\ inodeCache = [i \in {} |-> 0]
    /\ todo = <<>>
    /\ stale = FALSE /\ torn = FALSE /\ blind = FALSE

Syscall ==
    \E u \in Users, path \in Paths :
        \/ mkDir(u, path) \/ createFile(u, path)
        \/ /\ \/ removeAll(u, path)
              \/ \E len \in Lengths : writeFile(u, path, len)
              \/ \E mode \in Modes : chmod(u, path, mode)
              \/ stat(u, path) \/ readFile(u, path) \/ changeDirectory(u, path) \/ readDir(u, path)
           /\ UNCHANGED blind

Next == Syscall \/ Step \/ Kill

Spec == Init /\ [][Next]_vars

-----------------------------------------------------------------------------
(* Properties. *)

Inode == [fType : {"none", "reg", "dir"}, owner : Users,
          ownerMode : SUBSET {"r", "w", "x"}, otherMode : SUBSET {"r", "w", "x"},
          blocks : Seq(Blocks)]

\* The variables hold what their declarations say; no inode on disk has more
\* blocks than Falloc allows (fs_falloc.go:102-105), and a free slot is all zero
\* (removeDentry, fs_dir.go:157-195).
TypeOK ==
    /\ inodeBitmap \subseteq Inums /\ dataBitmap \subseteq Blocks
    /\ \A i \in Inums : itable[i] \in Inode /\ Len(itable[i].blocks) <= MaxFileBlocks
    /\ DOMAIN inodeCache \subseteq Inums
    /\ \A i \in DOMAIN inodeCache : inodeCache[i] \in Inode
    /\ \A b \in Blocks : \A k \in 1 .. EPB :
          blk[b][k].inum \in Inums \cup {0, -1} /\ (blk[b][k].inum = 0 => blk[b][k] = Free)
    /\ stale \in BOOLEAN /\ torn \in BOOLEAN /\ blind \in BOOLEAN

\* No directory has been given a block of old entries, and no crash has torn a
\* file: the two ways in which the disk goes bad.
Sane == ~stale /\ ~torn

\* What an entry can lead to: text leads nowhere.
Targets == Inums \cup {-1}

\* Which directory lists which inode.
Lists == UNION {{<<d, SlotsOf(d)[k].inum>> : k \in Children(d)} :
                   d \in {x \in Inums : itable[x].fType = "dir"}}

\* The inodes a path leads to: the least set that holds the root and, with a
\* directory, what it lists.
Reach ==
    LET lists  == Lists
        closed == {S \in SUBSET Targets : ROOT \in S /\ \A e \in lists : e[1] \in S => e[2] \in S}
    IN  {i \in Targets : \A S \in closed : i \in S}

ReachDirs == {d \in Reach \cap Inums : itable[d].fType = "dir"}

\* Every name a path can use leads to an inode that is allocated, at every
\* point of every syscall and after every crash: makeInode allocates and writes
\* the inode before it links it, removeAll unlinks it before it frees it
\* (kernel.go:260-297, 706-710).
EntriesLive == Sane => Reach \subseteq inodeBitmap

\* An inode has one name: no two entries, in one directory or in two, lead to
\* the same inode, and none leads back to the root ("no hard links yet so
\* freeing is unconditional", kernel.go:300).
OneName ==
    Sane => LET dirs == ReachDirs
            IN  \A d, e \in dirs : \A j \in Children(d), k \in Children(e) :
                   /\ SlotsOf(d)[j].inum # ROOT
                   /\ SlotsOf(d)[j].inum = SlotsOf(e)[k].inum => d = e /\ j = k

\* No directory lists a name twice, so removeDentry removes the entry that
\* ResolvePath found, unless mkDir or createFile could not search the directory
\* for it (kernel.go:694-708, 740, 768, fs_dir.go:157-195).
NamesUnique ==
    Sane /\ ~blind => \A d \in ReachDirs : \A j, k \in Children(d) :
                         SlotsOf(d)[j].name = SlotsOf(d)[k].name => j = k

\* The inode that counts: a file's cached one, a directory's on disk, since the
\* directory operations read that (fs_dir.go:99-100, 157-158, 203-204).
Current(i) == IF itable[i].fType = "reg" THEN GetInode(i) ELSE itable[i]

\* Every block of a file or directory a path leads to is marked as used, and by
\* no other: neither syscalls nor crashes let two inodes share a block, whether
\* the cache or the disk is the one consulted (fs_falloc.go, kernel.go:301-330).
BlocksOwned ==
    LET of == [i \in Reach |-> Current(i).blocks]
    IN  Sane => \A i, j \in DOMAIN of : \A k \in DOMAIN of[i], l \in DOMAIN of[j] :
                   /\ of[i][k] \in dataBitmap
                   /\ of[i][k] = of[j][l] => i = j /\ k = l

\* The cache is never ahead of the disk in a way that a crash or a later
\* syscall would turn into damage: type, owner and modes agree whenever no
\* syscall is under way, a file's blocks too, and a directory's cached blocks
\* are the first of its blocks on disk (getInode, kernel.go:154-174, and
\* addDentry, which grows the inode on disk only).
CacheBehindDisk ==
    Sane /\ Idle =>
        \A i \in DOMAIN inodeCache \cap Reach :
            /\ IsPrefix(inodeCache[i].blocks, itable[i].blocks)
            /\ itable[i].fType = "reg" => inodeCache[i].blocks = itable[i].blocks
            /\ [inodeCache[i] EXCEPT !.blocks = <<>>] = [itable[i] EXCEPT !.blocks = <<>>]

\* What freeInodeTree still has to visit, once the name is gone.
Freeing == {k \in DOMAIN todo :
               /\ ~Now("removeDentry")
               /\ todo[k].op \in {"freeInodeTree", "freeBlocks", "FreeInodeFromBitmap"}}

\* freeInodeTree visits an inode once, frees none that a path still leads to,
\* and none that is free already; so it comes to an end and gives back only
\* what it should (kernel.go:301-330).
FreesOnce ==
    Sane /\ Freeing # {} =>
        LET held == inodeBitmap \ Reach
        IN  \A j, k \in Freeing : /\ todo[j].inum \in held
                                  /\ todo[j].inum = todo[k].inum => j = k

\* "the fresh block is zeroed so the scan lands in its first slot"
\* (fs_dir.go:137-139): what addDentry relies on when it tries again.
FreshBlockEmpty ==
    Now("retry") => LET d == Head(todo).dir
                    IN  FreeSlot(d) = (Len(itable[d].blocks) - 1) * EPB + 1

\* "hands all the data blocks back" (kernel.go:322): once freeInodeTree has
\* called Falloc(in, 0), no block of the inode is marked as used.
HandsBlocksBack ==
    [][Sane /\ Now("freeBlocks") /\ todo' # <<>> =>
          ToSet(itable[Head(todo).inum].blocks) \cap dataBitmap' = {}]_vars
=============================================================================
