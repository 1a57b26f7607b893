--------------------------- MODULE KernelFSProofs ---------------------------
(***************************************************************************)
(* Proofs about KernelFS, for every size of the disk and of the inode       *)
(* table, all users, paths and lengths, and any number of syscalls, errors  *)
(* and deaths of the engine.                                                *)
(***************************************************************************)
EXTENDS KernelFS, FiniteSetTheorems, SequenceTheorems, WellFoundedInduction, TLAPS

-----------------------------------------------------------------------------
(* Numbers. *)

\* A set of numbers has a least one.
LEMMA Least ==
    ASSUME NEW M, M \subseteq Nat, M # {}
    PROVE  \E x \in M : \A y \in M : x <= y
<1> DEFINE R == OpToRel(<, Nat)
<1>1. IsWellFoundedOn(R, Nat)
  BY NatLessThanWellFounded
<1>2. \A y, x \in Nat : y < x => <<y, x>> \in R
  BY DEF OpToRel
<1> HIDE DEF R
<1>3. \E x \in M : \A y \in M : ~(<<y, x>> \in R)
  BY <1>1, WFMin
<1>4. \A x, y \in Nat : ~(y < x) => x <= y
  OBVIOUS
<1> QED
  BY <1>2, <1>3, <1>4

\* The lowest member is one (findFreeBit, fs_falloc.go:34-59).
LEMMA LowestIs ==
    ASSUME NEW M, M \subseteq Nat, M # {}
    PROVE  Lowest(M) \in M /\ \A y \in M : Lowest(M) <= y
BY Least DEF Lowest

\* As long as a finite set has more than r members, one of them has r below it.
LEMMA NthIs ==
    ASSUME NEW S, S \subseteq Nat, IsFiniteSet(S), NEW n \in Nat, n < Cardinality(S)
    PROVE  Nth(S, n) \in S /\ Cardinality({y \in S : y < Nth(S, n)}) = n
<1> DEFINE Below(x) == {y \in S : y < x}
           M == {r \in 0 .. n : ~\E x \in S : Cardinality(Below(x)) = r}
<1>0. Cardinality(S) \in Nat /\ \A y \in S : y \in Nat
  BY FS_CardinalityType
<1>1. M = {}
  <2> SUFFICES ASSUME M # {} PROVE FALSE
    OBVIOUS
  <2>1. PICK r \in M : \A q \in M : r <= q
    <3>1. M \subseteq Nat
      OBVIOUS
    <3> HIDE DEF M
    <3> QED
      BY <3>1, Least
  <2>2. r \in 0 .. n /\ ~\E x \in S : Cardinality(Below(x)) = r
    BY <2>1
  <2>3. CASE r = 0
    <3>1. S # {}
      BY <1>0, FS_EmptySet
    <3>2. PICK x \in S : \A y \in S : x <= y
      BY <3>1, Least
    <3>3. Below(x) = {}
      <4>1. \A y \in S : ~(y < x)
        BY <1>0, <3>2
      <4> QED
        BY <4>1
    <3> QED
      BY <2>2, <2>3, <3>3, FS_EmptySet
  <2>4. CASE r # 0
    <3> DEFINE q == r - 1
    <3>1. q \in 0 .. n /\ q < r
      BY <2>2, <2>4
    <3>2. PICK x \in S : Cardinality(Below(x)) = q
      BY <2>1, <3>1
    <3>3. IsFiniteSet(Below(x)) /\ x \notin Below(x)
      BY FS_Subset
    <3> DEFINE upto == Below(x) \cup {x}
               above == {y \in S : x < y}
    <3>4. IsFiniteSet(upto) /\ Cardinality(upto) = r
      <4>1. IsFiniteSet(upto) /\ Cardinality(upto) = Cardinality(Below(x)) + 1
        BY <3>3, FS_AddElement
      <4> QED
        BY <2>2, <3>2, <4>1
    <3>5. above # {}
      <4> SUFFICES ASSUME above = {} PROVE FALSE
        OBVIOUS
      <4>1. \A y \in S : y < x \/ y = x
        BY <1>0
      <4>2. S = upto
        BY <4>1
      <4> HIDE DEF upto
      <4> QED
        BY <1>0, <2>2, <3>4, <4>2
    <3>6. PICK z \in above : \A y \in above : z <= y
      <4>1. above \subseteq Nat
        OBVIOUS
      <4> HIDE DEF above
      <4> QED
        BY <3>5, <4>1, Least
    <3>7. Below(z) = upto
      <4>1. z \in S /\ x < z /\ \A y \in S : x < y => z <= y
        BY <3>6
      <4>2. \A y \in S : y < z <=> y < x \/ y = x
        BY <1>0, <4>1
      <4> QED
        BY <4>2
    <3>8. z \in S
      BY <3>6
    <3> HIDE DEF upto, above
    <3> QED
      BY <2>2, <3>4, <3>7, <3>8
  <2> QED
    BY <2>3, <2>4
<1>2. n \in 0 .. n
  OBVIOUS
<1>3. \E x \in S : Cardinality({y \in S : y < x}) = n
  BY <1>1, <1>2
<1> QED
  BY <1>3 DEF Nth

-----------------------------------------------------------------------------
(* Types. *)

\* The names there are: those of paths and entries, and of no entry.
Names == {".", "..", "", "text"} \cup UNION {Range(path) : path \in Paths}

Bounded == {s \in Seq(Blocks) : Len(s) <= MaxFileBlocks}

Node == [fType : {"none", "reg", "dir"}, owner : Users,
         ownerMode : SUBSET {"r", "w", "x"}, otherMode : SUBSET {"r", "w", "x"},
         blocks : Bounded]

Entry == {e \in [inum : Targets \cup {0}, name : Names] : e.inum = 0 => e = Free}

\* The writes a syscall can have before it.
Task ==
    [op : {"AllocInode"}, dir : Inums, name : Names, fType : {"reg", "dir"}, user : Users, len : Int]
      \cup [op : {"initInode"}, inum : Inums, fType : {"reg", "dir"}, user : Users]
      \cup [op : {"addDentry", "retry"}, dir : Inums, name : Names, inum : Inums]
      \cup [op : {"saveDir"}, dir : Inums, blocks : Bounded]
      \cup [op : {"removeDentry"}, dir : Inums, name : Names]
      \cup [op : {"freeInodeTree"}, inum : Targets]
      \cup [op : {"freeBlocks", "FreeInodeFromBitmap", "writeInode"}, inum : Inums]
      \cup [op : {"Falloc"}, inum : Inums, len : Nat]
      \cup [op : {"writeDataBlock"}, inum : Inums, at : Nat \ {0}]

Typed ==
    /\ inodeBitmap \subseteq Inums /\ dataBitmap \subseteq Blocks
    /\ itable \in [Inums -> Node]
    /\ DOMAIN inodeCache \subseteq Inums /\ inodeCache \in [DOMAIN inodeCache -> Node]
    /\ blk \in [Blocks -> [1 .. EPB -> Entry]]
    /\ todo \in Seq(Task)
    /\ stale \in BOOLEAN /\ torn \in BOOLEAN

\* Numbers of inodes and of blocks are natural; 0 and -1 are no inodes.
LEMMA Constants ==
    /\ Inums \subseteq Nat \ {0} /\ ROOT \in Inums /\ 0 \notin Inums /\ -1 \notin Inums
    /\ Blocks \subseteq Nat /\ IsFiniteSet(Blocks) /\ 0 \in Blocks
    /\ EPB \in Nat /\ EPB >= 2 /\ MaxFileBlocks \in Nat /\ MaxFileBlocks >= 1
    /\ "root" \in Users
<1>1. IsFiniteSet(0 .. (NumBlocks - 1)) /\ NumBlocks - 1 \in Nat
  <2>0. NumBlocks \in Nat \ {0}
    BY KernelFSAssumption
  <2>1. NumBlocks - 1 \in Nat
    BY <2>0
  <2>2. \A a, b \in Int : IsFiniteSet(a .. b)
    BY FS_Interval
  <2> QED
    BY <2>1, <2>2
<1>2. Blocks \subseteq Nat /\ IsFiniteSet(Blocks) /\ 0 \in Blocks
  BY <1>1 DEF Blocks
<1>3. /\ Inums \subseteq Nat \ {0} /\ ROOT \in Inums
      /\ EPB \in Nat /\ EPB >= 2 /\ MaxFileBlocks \in Nat \ {0} /\ "root" \in Users
  BY KernelFSAssumption
<1>4. 0 \notin Nat \ {0} /\ -1 \notin Nat \ {0} /\ \A m \in Nat \ {0} : m >= 1
  OBVIOUS
<1> QED
  BY <1>2, <1>3, <1>4

\* A path is a sequence of names, none of them . or .. or empty.
LEMMA PathNames ==
    ASSUME NEW path \in Paths
    PROVE  path \in Seq(Names) /\ \A k \in 1 .. Len(path) : path[k] \notin {".", "..", ""}
<1>1. path \in Seq(STRING) /\ ToSet(path) \cap {".", "..", ""} = {}
  BY KernelFSAssumption
<1>2. path \in Seq(Range(path))
  BY <1>1, SeqOfRange
<1>3. Range(path) \subseteq Names
  BY DEF Names
<1>4. path \in Seq(Names)
  BY <1>2, <1>3, SeqMonotonic
<1>5. ASSUME NEW k \in 1 .. Len(path) PROVE path[k] \in ToSet(path)
  BY <1>4 DEF ToSet
<1> QED
  BY <1>1, <1>4, <1>5

\* Slot k of a directory of n blocks is a slot of one of them (iterBlocks,
\* fs_dir.go:99-130).
LEMMA SlotPlace ==
    ASSUME NEW n \in Nat, NEW k \in 1 .. (n * EPB)
    PROVE  /\ ((k - 1) \div EPB) + 1 \in 1 .. n
           /\ ((k - 1) % EPB) + 1 \in 1 .. EPB
           /\ k = ((k - 1) \div EPB) * EPB + ((k - 1) % EPB) + 1
<1> DEFINE q == (k - 1) \div EPB
           r == (k - 1) % EPB
<1>1. EPB \in Nat \ {0} /\ k - 1 \in Nat /\ n * EPB \in Nat
  BY Constants
<1>2. q \in Nat /\ r \in 0 .. (EPB - 1) /\ k - 1 = EPB * q + r
  BY <1>1
<1>3. q < n
  <2> SUFFICES ASSUME q >= n PROVE FALSE
    BY <1>2
  <2> HIDE DEF q, r
  <2>1. EPB * q >= EPB * n
    BY <1>1, <1>2
  <2> QED
    BY <1>1, <1>2, <2>1
<1> HIDE DEF q, r
<1>4. EPB * q = q * EPB
  BY <1>1, <1>2
<1>5. q + 1 \in 1 .. n /\ r + 1 \in 1 .. EPB /\ k = q * EPB + r + 1
  BY <1>1, <1>2, <1>3, <1>4
<1> QED
  BY <1>5 DEF q, r

\* A node has the type of an inode, and at most the blocks Falloc allows.
LEMMA NodeIs ==
    ASSUME NEW in \in Node
    PROVE  in \in Inode /\ in.blocks \in Seq(Blocks) /\ Len(in.blocks) <= MaxFileBlocks /\ Len(in.blocks) \in Nat
BY DEF Node, Inode, Bounded

\* A node keeps all but its blocks.
LEMMA NodeWith ==
    ASSUME NEW in \in Node, NEW bs \in Bounded
    PROVE  LET new == [in EXCEPT !.blocks = bs]
           IN  /\ new \in Node /\ new.blocks = bs /\ new.fType = in.fType /\ new.owner = in.owner
               /\ new.ownerMode = in.ownerMode /\ new.otherMode = in.otherMode
BY DEF Node

\* The slots of a directory are entries.
LEMMA SlotsTyped ==
    ASSUME Typed, NEW d \in Inums
    PROVE  /\ DOMAIN SlotsOf(d) = 1 .. (Len(itable[d].blocks) * EPB)
           /\ \A k \in DOMAIN SlotsOf(d) : SlotsOf(d)[k] \in Entry
           /\ DOMAIN SlotsOf(d) \subseteq Nat /\ IsFiniteSet(DOMAIN SlotsOf(d))
           /\ Children(d) \subseteq Nat /\ IsFiniteSet(Children(d)) /\ Children(d) \subseteq DOMAIN SlotsOf(d)
           /\ \A k \in Children(d) : SlotsOf(d)[k].inum \in Targets
<1> DEFINE n == Len(itable[d].blocks)
<1>1. itable[d] \in Node /\ itable[d].blocks \in Seq(Blocks) /\ n \in Nat
  BY NodeIs DEF Typed
<1>2. n * EPB \in Nat
  BY <1>1, Constants
<1>3. DOMAIN SlotsOf(d) = 1 .. (n * EPB)
  BY DEF SlotsOf
<1>4. ASSUME NEW k \in 1 .. (n * EPB) PROVE SlotsOf(d)[k] \in Entry
  <2>1. ((k - 1) \div EPB) + 1 \in 1 .. n /\ ((k - 1) % EPB) + 1 \in 1 .. EPB
    BY <1>1, SlotPlace
  <2>2. itable[d].blocks[((k - 1) \div EPB) + 1] \in Blocks
    BY <1>1, <2>1
  <2>3. blk[itable[d].blocks[((k - 1) \div EPB) + 1]][((k - 1) % EPB) + 1] \in Entry
    BY <2>1, <2>2 DEF Typed
  <2> QED
    BY <2>3 DEF SlotsOf
<1>5. IsFiniteSet(1 .. (n * EPB)) /\ 1 .. (n * EPB) \subseteq Nat
  BY <1>2, FS_Interval
<1>6. Children(d) \subseteq DOMAIN SlotsOf(d)
  BY DEF Children
<1>7. ASSUME NEW k \in Children(d) PROVE SlotsOf(d)[k].inum \in Targets
  BY <1>3, <1>4, <1>6 DEF Children, IsChild, Entry
<1> HIDE DEF n
<1>8. IsFiniteSet(Children(d))
  BY <1>3, <1>5, <1>6, FS_Subset
<1> QED
  BY <1>3, <1>4, <1>5, <1>6, <1>7, <1>8 DEF n

-----------------------------------------------------------------------------
(* Resolving paths. *)

Start == [inum |-> ROOT, err |-> "ok", seen |-> {ROOT}]

\* f[k] is what k components of path lead to, up to n.
Chain(f, u, path, n) ==
    f = [k \in 0 .. n |-> IF k = 0 THEN Start ELSE Resolve(u, f[k - 1], path[k])]

\* Walk takes the last of such a chain.
LEMMA WalkIs ==
    ASSUME NEW u, NEW path
    PROVE  Walk(u, path) = (CHOOSE f : Chain(f, u, path, Len(path)))[Len(path)]
BY Zenon DEF Walk, Chain, Start

\* There is a chain for every number of components.
LEMMA ChainExists ==
    ASSUME NEW u, NEW path
    PROVE  \A n \in Nat : \E f : Chain(f, u, path, n)
<1> DEFINE M == {n \in Nat : ~\E f : Chain(f, u, path, n)}
<1> SUFFICES ASSUME M # {} PROVE FALSE
  OBVIOUS
<1>1. PICK n \in M : \A m \in M : n <= m
  <2>1. M \subseteq Nat
    OBVIOUS
  <2> HIDE DEF M
  <2> QED
    BY <2>1, Least
<1>2. n \in Nat /\ ~\E f : Chain(f, u, path, n)
  BY <1>1
<1>3. CASE n = 0
  <2> DEFINE f == [k \in 0 .. 0 |-> Start]
  <2>1. f = [k \in 0 .. 0 |-> IF k = 0 THEN Start ELSE Resolve(u, f[k - 1], path[k])]
    OBVIOUS
  <2> QED
    BY <1>2, <1>3, <2>1 DEF Chain
<1>4. CASE n # 0
  <2> DEFINE m == n - 1
  <2>1. m \in Nat /\ m < n
    BY <1>2, <1>4
  <2>2. PICK f : Chain(f, u, path, m)
    <3>1. ~(n <= m)
      BY <1>2, <2>1
    <3> QED
      BY <1>1, <2>1, <3>1
  <2> DEFINE g == [k \in 0 .. n |-> IF k = n THEN Resolve(u, f[k - 1], path[k]) ELSE f[k]]
             e(k) == IF k = 0 THEN Start ELSE Resolve(u, g[k - 1], path[k])
  <2>3. ASSUME NEW k \in 0 .. n PROVE g[k] = e(k)
    <3>1. k = 0 \/ (k - 1 \in 0 .. m /\ k - 1 \in 0 .. n /\ k - 1 # n)
      BY <1>2
    <3>2. k = 0 \/ g[k - 1] = f[k - 1]
      BY <3>1
    <3>3. CASE k = n
      BY <1>4, <3>2, <3>3
    <3>4. CASE k # n
      <4>1. k \in 0 .. m /\ g[k] = f[k]
        BY <1>2, <3>4
      <4>2. f[k] = IF k = 0 THEN Start ELSE Resolve(u, f[k - 1], path[k])
        BY <2>2, <4>1 DEF Chain
      <4> QED
        BY <3>2, <4>1, <4>2
    <3> QED
      BY <3>3, <3>4
  <2>4. g = [k \in 0 .. n |-> e(k)]
    <3>1. DOMAIN g = 0 .. n /\ g = [k \in 0 .. n |-> g[k]]
      OBVIOUS
    <3> HIDE DEF g, e
    <3> QED
      BY <2>3, <3>1
  <2> QED
    BY <1>2, <2>4 DEF Chain
<1> QED
  BY <1>3, <1>4

\* Chains for paths that begin alike do.
LEMMA ChainsAgree ==
    ASSUME NEW u, NEW p, NEW q, NEW m \in Nat, NEW n \in Nat, m <= n,
           \A k \in 1 .. m : p[k] = q[k],
           NEW f, Chain(f, u, p, m), NEW g, Chain(g, u, q, n)
    PROVE  \A k \in 0 .. m : f[k] = g[k]
<1> DEFINE M == {k \in 0 .. m : f[k] # g[k]}
<1>f. \A k \in 0 .. m : f[k] = IF k = 0 THEN Start ELSE Resolve(u, f[k - 1], p[k])
  BY DEF Chain
<1>g. \A k \in 0 .. n : g[k] = IF k = 0 THEN Start ELSE Resolve(u, g[k - 1], q[k])
  BY DEF Chain
<1> SUFFICES ASSUME M # {} PROVE FALSE
  OBVIOUS
<1>1. PICK k \in M : \A j \in M : k <= j
  <2>1. M \subseteq Nat
    OBVIOUS
  <2> HIDE DEF M
  <2> QED
    BY <2>1, Least
<1>2. k \in 0 .. m /\ k \in 0 .. n /\ f[k] # g[k]
  BY <1>1
<1>3. CASE k = 0
  BY <1>2, <1>3, <1>f, <1>g
<1>4. CASE k # 0
  <2>1. k - 1 \in 0 .. m /\ ~(k <= k - 1) /\ k \in 1 .. m
    BY <1>2, <1>4
  <2>2. f[k - 1] = g[k - 1]
    BY <1>1, <2>1
  <2>3. f[k] = Resolve(u, f[k - 1], p[k]) /\ g[k] = Resolve(u, g[k - 1], q[k]) /\ p[k] = q[k]
    BY <1>2, <1>4, <2>1, <1>f, <1>g
  <2> QED
    BY <1>2, <2>2, <2>3
<1> QED
  BY <1>3, <1>4

\* The empty path is the root; a longer one resolves its last name where the
\* rest leads (ResolvePath, kernel.go:208-256).
LEMMA WalkUnfolds ==
    ASSUME NEW u, NEW path \in Seq(Names)
    PROVE  /\ path = <<>> => Walk(u, path) = Start
           /\ path # <<>> => /\ Parent(path) \in Seq(Names) /\ Last(path) \in Names
                             /\ Len(Parent(path)) = Len(path) - 1
                             /\ Walk(u, path) = Resolve(u, Walk(u, Parent(path)), Last(path))
<1> DEFINE n == Len(path)
<1>0. n \in Nat
  OBVIOUS
<1>1. PICK f : Chain(f, u, path, n) /\ f = (CHOOSE x : Chain(x, u, path, n))
  <2>1. \E f : Chain(f, u, path, n)
    BY <1>0, ChainExists
  <2> QED
    BY <2>1, Zenon
<1>2. Walk(u, path) = f[n]
  BY <1>1, WalkIs, Zenon
<1>3. f[n] = IF n = 0 THEN Start ELSE Resolve(u, f[n - 1], path[n])
  <2>1. n \in 0 .. n
    BY <1>0
  <2> QED
    BY <1>1, <2>1 DEF Chain
<1>4. CASE path = <<>>
  BY <1>2, <1>3, <1>4
<1>5. CASE path # <<>>
  <2> DEFINE p == Parent(path)
             m == n - 1
  <2>1. n # 0 /\ m \in Nat /\ m <= n /\ n \in 1 .. n
    BY <1>0, <1>5, EmptySeq
  <2>2. /\ p \in Seq(Names) /\ Len(p) = m /\ \A k \in 1 .. m : p[k] = path[k]
        /\ Last(path) = path[n] /\ path[n] \in Names
    <3>1. 1 \in 1 .. (n + 1) /\ m \in 0 .. n
      BY <2>1
    <3>2. SubSeq(path, 1, m) \in Seq(Names) /\ Len(SubSeq(path, 1, m)) = m
      <4>1. \A i \in 1 .. m : path[i] \in Names
        BY <2>1
      <4>2. /\ SubSeq(path, 1, m) \in Seq(Names)
            /\ Len(SubSeq(path, 1, m)) = IF 1 <= m THEN m - 1 + 1 ELSE 0
        <5> HIDE DEF m
        <5> QED
          BY <2>1, <4>1, SubSeqProperties
      <4> HIDE DEF m, n
      <4>3. m = IF 1 <= m THEN m - 1 + 1 ELSE 0
        BY <2>1
      <4> QED
        BY <4>2, <4>3
    <3>3. \A k \in 1 .. m : SubSeq(path, 1, m)[k] = path[k]
      BY <2>1
    <3>4. Last(path) = path[n] /\ path[n] \in Names
      BY <2>1 DEF Last
    <3> QED
      BY <3>2, <3>3, <3>4 DEF Parent
  <2> HIDE DEF p, m
  <2>3. PICK g : Chain(g, u, p, m) /\ g = (CHOOSE x : Chain(x, u, p, m))
    <3>1. \E g : Chain(g, u, p, m)
      BY <2>1, ChainExists
    <3> QED
      BY <3>1, Zenon
  <2>4. Walk(u, p) = g[m]
    <3>1. Walk(u, p) = (CHOOSE x : Chain(x, u, p, Len(p)))[Len(p)]
      BY WalkIs
    <3> QED
      BY <2>2, <2>3, <3>1, Zenon
  <2>5. \A k \in 0 .. m : g[k] = f[k]
    <3>1. /\ n \in Nat /\ m \in Nat /\ m <= n /\ \A k \in 1 .. m : p[k] = path[k]
          /\ Chain(g, u, p, m) /\ Chain(f, u, path, n)
      BY <1>0, <1>1, <2>1, <2>2, <2>3
    <3> HIDE DEF n
    <3> QED
      BY <3>1, ChainsAgree
  <2>6. m \in 0 .. m
    BY <2>1
  <2>7. f[n] = Resolve(u, f[n - 1], path[n])
    BY <1>3, <2>1
  <2>8. Walk(u, path) = Resolve(u, Walk(u, p), Last(path))
    BY <1>2, <2>2, <2>4, <2>5, <2>6, <2>7 DEF m
  <2> QED
    BY <1>5, <2>2, <2>8 DEF p, m
<1> QED
  BY <1>4, <1>5

\* Find returns the first slot with the name, or 0 when there is none.
LEMMA FindIs ==
    ASSUME Typed, NEW d \in Inums, NEW nm
    PROVE  LET k == Find(d, nm)
           IN  \/ k = 0 /\ \A j \in DOMAIN SlotsOf(d) : ~(SlotsOf(d)[j].inum # 0 /\ SlotsOf(d)[j].name = nm)
               \/ k \in DOMAIN SlotsOf(d) /\ SlotsOf(d)[k].inum # 0 /\ SlotsOf(d)[k].name = nm
<1> DEFINE ks == {k \in DOMAIN SlotsOf(d) : SlotsOf(d)[k].inum # 0 /\ SlotsOf(d)[k].name = nm}
<1>1. Find(d, nm) = IF ks = {} THEN 0 ELSE CHOOSE k \in ks : \A j \in ks : k <= j
  BY Zenon DEF Find, FirstSlot
<1>2. ks \subseteq Nat
  BY SlotsTyped
<1>3. ks # {} => Find(d, nm) \in ks
  <2> HIDE DEF ks
  <2> QED
    BY <1>1, <1>2, Least
<1> QED
  BY <1>1, <1>3

\* FreeSlot returns the first free slot, or 0 when there is none.
LEMMA FreeSlotIs ==
    ASSUME Typed, NEW d \in Inums
    PROVE  LET k == FreeSlot(d)
           IN  \/ k = 0 /\ \A j \in DOMAIN SlotsOf(d) : SlotsOf(d)[j].inum # 0
               \/ k \in DOMAIN SlotsOf(d) /\ SlotsOf(d)[k].inum = 0
<1> DEFINE ks == {k \in DOMAIN SlotsOf(d) : SlotsOf(d)[k].inum = 0}
<1>1. FreeSlot(d) = IF ks = {} THEN 0 ELSE CHOOSE k \in ks : \A j \in ks : k <= j
  BY Zenon DEF FreeSlot, FirstSlot
<1>2. ks \subseteq Nat
  BY SlotsTyped
<1>3. ks # {} => FreeSlot(d) \in ks
  <2> HIDE DEF ks
  <2> QED
    BY <1>1, <1>2, Least
<1> QED
  BY <1>1, <1>3

\* The inode at hand is a node, and so is all that is cached with it.
LEMMA CachedTyped ==
    ASSUME Typed
    PROVE  /\ \A i \in Inums : GetInode(i) \in Node
           /\ \A is \in SUBSET Inums :
                 /\ DOMAIN Cached(is) = DOMAIN inodeCache \cup is
                 /\ DOMAIN Cached(is) \subseteq Inums /\ Cached(is) \in [DOMAIN Cached(is) -> Node]
                 /\ \A i \in DOMAIN Cached(is) : Cached(is)[i] = GetInode(i)
<1>1. ASSUME NEW i \in Inums PROVE GetInode(i) \in Node
  BY DEF Typed, GetInode
<1>2. ASSUME NEW is \in SUBSET Inums
      PROVE  /\ DOMAIN Cached(is) = DOMAIN inodeCache \cup is
             /\ DOMAIN Cached(is) \subseteq Inums /\ Cached(is) \in [DOMAIN Cached(is) -> Node]
             /\ \A i \in DOMAIN Cached(is) : Cached(is)[i] = GetInode(i)
  <2>1. DOMAIN inodeCache \cup is \subseteq Inums
    BY DEF Typed
  <2>2. Cached(is) \in [DOMAIN inodeCache \cup is -> Node]
    BY <1>1, <2>1 DEF Cached
  <2> QED
    BY <2>1, <2>2 DEF Cached
<1> QED
  BY <1>1, <1>2

Result == [inum : Inums, err : {"ok", "ENOTDIR", "EACCES", "ENOENT", "EIO"}, seen : SUBSET Inums]

\* A component leads from an inode to an inode.
LEMMA ResolveTyped ==
    ASSUME Typed, NEW u, NEW w \in Result, NEW nm
    PROVE  Resolve(u, w, nm) \in Result
<1> DEFINE i == SlotsOf(w.inum)[Find(w.inum, nm)].inum
<1>1. /\ [w EXCEPT !.err = "ENOTDIR"] \in Result /\ [w EXCEPT !.err = "EACCES"] \in Result
      /\ [w EXCEPT !.err = "ENOENT"] \in Result /\ [w EXCEPT !.err = "EIO"] \in Result
  BY DEF Result
<1>2. i \in Inums => [w EXCEPT !.inum = i, !.seen = @ \cup {i}] \in Result
  <2> HIDE DEF i
  <2> QED
    BY DEF Result
<1> HIDE DEF i
<1>3. \/ Resolve(u, w, nm) = w
      \/ Resolve(u, w, nm) = [w EXCEPT !.err = "ENOTDIR"]
      \/ Resolve(u, w, nm) = [w EXCEPT !.err = "EACCES"]
      \/ Resolve(u, w, nm) = [w EXCEPT !.err = "ENOENT"]
      \/ Resolve(u, w, nm) = [w EXCEPT !.err = "EIO"]
      \/ i \in Inums /\ Resolve(u, w, nm) = [w EXCEPT !.inum = i, !.seen = @ \cup {i}]
  BY Zenon DEF Resolve, i
<1> QED
  BY <1>1, <1>2, <1>3

\* So does a path; the empty one leads to the root.
LEMMA WalkTyped ==
    ASSUME Typed, NEW u, NEW path \in Seq(Names)
    PROVE  Walk(u, path) \in Result
<1> DEFINE M == {n \in Nat : \E p \in Seq(Names) : Len(p) = n /\ Walk(u, p) \notin Result}
<1> SUFFICES ASSUME Walk(u, path) \notin Result PROVE FALSE
  OBVIOUS
<1>1. PICK n \in M : \A m \in M : n <= m
  <2>1. Len(path) \in M
    OBVIOUS
  <2>2. M \subseteq Nat
    OBVIOUS
  <2> HIDE DEF M
  <2> QED
    BY <2>1, <2>2, Least
<1>2. PICK p \in Seq(Names) : Len(p) = n /\ Walk(u, p) \notin Result
  BY <1>1
<1>3. CASE p = <<>>
  <2>0. ROOT \in Inums
    BY Constants
  <2>1. Start \in Result
    BY <2>0 DEF Start, Result
  <2> QED
    BY <1>2, <1>3, <2>1, WalkUnfolds
<1>4. CASE p # <<>>
  <2>1. /\ Parent(p) \in Seq(Names) /\ Len(Parent(p)) = n - 1
        /\ Walk(u, p) = Resolve(u, Walk(u, Parent(p)), Last(p))
    BY <1>2, <1>4, WalkUnfolds
  <2>2. Len(Parent(p)) \notin M
    BY <1>1, <2>1
  <2>3. Walk(u, Parent(p)) \in Result
    BY <2>1, <2>2
  <2> QED
    BY <1>2, <2>1, <2>3, ResolveTyped
<1> QED
  BY <1>3, <1>4

-----------------------------------------------------------------------------
(* Typing of the steps. *)

\* What the first write of a program is made of.
LEMMA TaskIs ==
    ASSUME NEW t \in Task
    PROVE  /\ t.op = "AllocInode" => /\ t.dir \in Inums /\ t.name \in Names
                                     /\ t.fType \in {"reg", "dir"} /\ t.user \in Users /\ t.len \in Int
           /\ t.op = "initInode" => t.inum \in Inums /\ t.fType \in {"reg", "dir"} /\ t.user \in Users
           /\ t.op \in {"addDentry", "retry"} =>
                 /\ t.dir \in Inums /\ t.name \in Names /\ t.inum \in Inums
                 /\ [t EXCEPT !.op = "retry"] = [op |-> "retry", dir |-> t.dir, name |-> t.name, inum |-> t.inum]
           /\ t.op = "saveDir" => t.dir \in Inums /\ t.blocks \in Bounded
           /\ t.op = "removeDentry" => t.dir \in Inums /\ t.name \in Names
           /\ t.op = "freeInodeTree" => t.inum \in Targets
           /\ t.op \in {"freeBlocks", "FreeInodeFromBitmap", "writeInode"} => t.inum \in Inums
           /\ t.op = "Falloc" => t.inum \in Inums /\ t.len \in Nat
           /\ t.op = "writeDataBlock" => t.inum \in Inums /\ t.at \in Nat \ {0}
<1>1. CASE t \in [op : {"addDentry", "retry"}, dir : Inums, name : Names, inum : Inums]
  BY <1>1
<1>2. CASE t \notin [op : {"addDentry", "retry"}, dir : Inums, name : Names, inum : Inums]
  BY <1>2 DEF Task
<1> QED
  BY <1>1, <1>2

\* The write at hand, and those behind it.
LEMMA NowIs ==
    ASSUME Typed, NEW op, Now(op)
    PROVE  /\ Head(todo) \in Task /\ Head(todo).op = op /\ Rest \in Seq(Task)
           /\ todo # <<>> /\ Len(todo) \in Nat \ {0} /\ Len(Rest) = Len(todo) - 1
           /\ Head(todo) = todo[1] /\ \A k \in 1 .. Len(Rest) : Rest[k] = todo[k + 1]
BY HeadTailProperties DEF Typed, Now, Rest

\* Programs of one, two or no writes, and programs put together.
LEMMA Programs ==
    /\ <<>> \in Seq(Task)
    /\ \A s \in Task : <<s>> \in Seq(Task) /\ \A t \in Task : <<s, t>> \in Seq(Task)
    /\ \A s, t \in Seq(Task) : s \o t \in Seq(Task)
<1>1. \A s, t \in Seq(Task) : s \o t \in Seq(Task)
  BY ConcatProperties
<1> QED
  BY <1>1

\* The writes that the operations put into programs.
LEMMA TasksMade ==
    /\ \A d \in Inums, nm \in Names, ty \in {"reg", "dir"}, u \in Users, len \in Int :
          Make(d, nm, ty, u, len) \in Seq(Task)
    /\ \A d \in Inums, nm \in Names, i \in Inums :
          /\ Link(d, nm, i) \in Task /\ Removal(d, nm, i) \in Seq(Task)
          /\ [op |-> "retry", dir |-> d, name |-> nm, inum |-> i] \in Task
    /\ \A i \in Inums, len \in Nat : Write(i, len) \in Seq(Task)
    /\ \A i \in Inums : /\ Save(i) \in Seq(Task)
                        /\ [op |-> "freeBlocks", inum |-> i] \in Task
                        /\ [op |-> "FreeInodeFromBitmap", inum |-> i] \in Task
                        /\ \A k \in Nat \ {0} : [op |-> "writeDataBlock", inum |-> i, at |-> k] \in Task
    /\ \A i \in Targets : [op |-> "freeInodeTree", inum |-> i] \in Task
    /\ \A i \in Inums, ty \in {"reg", "dir"}, u \in Users :
          [op |-> "initInode", inum |-> i, fType |-> ty, user |-> u] \in Task
    /\ \A d \in Inums, bs \in Bounded : [op |-> "saveDir", dir |-> d, blocks |-> bs] \in Task
<1>1. ASSUME NEW d \in Inums, NEW nm \in Names, NEW ty \in {"reg", "dir"}, NEW u \in Users, NEW len \in Int
      PROVE  Make(d, nm, ty, u, len) \in Seq(Task)
  <2>1. [op |-> "AllocInode", dir |-> d, name |-> nm, fType |-> ty, user |-> u, len |-> len] \in Task
    BY DEF Task
  <2> QED
    BY <2>1, Programs DEF Make
<1>2. ASSUME NEW d \in Inums, NEW nm \in Names, NEW i \in Inums
      PROVE  /\ Link(d, nm, i) \in Task /\ Removal(d, nm, i) \in Seq(Task)
             /\ [op |-> "retry", dir |-> d, name |-> nm, inum |-> i] \in Task
  <2>1. [op |-> "removeDentry", dir |-> d, name |-> nm] \in Task /\ [op |-> "freeInodeTree", inum |-> i] \in Task
    BY DEF Task, Targets
  <2>2. Link(d, nm, i) \in Task /\ [op |-> "retry", dir |-> d, name |-> nm, inum |-> i] \in Task
    BY DEF Task, Link
  <2> QED
    BY <2>1, <2>2, Programs DEF Removal
<1>3. ASSUME NEW i \in Inums, NEW len \in Nat PROVE Write(i, len) \in Seq(Task)
  <2>1. [op |-> "Falloc", inum |-> i, len |-> len] \in Task
    BY DEF Task
  <2> QED
    BY <2>1, Programs DEF Write
<1>4. ASSUME NEW i \in Inums
      PROVE  /\ Save(i) \in Seq(Task)
             /\ [op |-> "freeBlocks", inum |-> i] \in Task
             /\ [op |-> "FreeInodeFromBitmap", inum |-> i] \in Task
             /\ \A k \in Nat \ {0} : [op |-> "writeDataBlock", inum |-> i, at |-> k] \in Task
  <2>1. [op |-> "writeInode", inum |-> i] \in Task
    BY DEF Task
  <2> QED
    BY <2>1, Programs DEF Task, Save
<1>5. /\ \A i \in Targets : [op |-> "freeInodeTree", inum |-> i] \in Task
      /\ \A i \in Inums, ty \in {"reg", "dir"}, u \in Users :
            [op |-> "initInode", inum |-> i, fType |-> ty, user |-> u] \in Task
      /\ \A d \in Inums, bs \in Bounded : [op |-> "saveDir", dir |-> d, blocks |-> bs] \in Task
  BY DEF Task
<1> QED
  BY <1>1, <1>2, <1>3, <1>4, <1>5

\* The disk of a new node.
LEMMA InitTyped == Init => Typed
<1> SUFFICES ASSUME Init PROVE Typed
  OBVIOUS
<1>0. /\ ROOT \in Inums /\ 0 \in Blocks /\ "root" \in Users /\ EPB \in Nat /\ MaxFileBlocks \in Nat /\ 1 <= MaxFileBlocks
      /\ ROOT \in Targets
  BY Constants DEF Targets
<1>1. inodeBitmap \subseteq Inums /\ dataBitmap \subseteq Blocks
  BY <1>0 DEF Init
<1>2. itable \in [Inums -> Node]
  <2>1. <<>> \in Bounded /\ <<0>> \in Bounded
    BY <1>0 DEF Bounded
  <2>2. FreshInode("none", "root") \in Node /\ [FreshInode("dir", "root") EXCEPT !.blocks = <<0>>] \in Node
    BY <1>0, <2>1 DEF FreshInode, Node
  <2> QED
    BY <2>2 DEF Init
<1>3. DOMAIN inodeCache \subseteq Inums /\ inodeCache \in [DOMAIN inodeCache -> Node]
  BY DEF Init
<1>4. blk \in [Blocks -> [1 .. EPB -> Entry]]
  <2>0. "." \in Names /\ ".." \in Names /\ "" \in Names /\ ROOT # 0
    BY DEF Names, ROOT
  <2>1. Slot(ROOT, ".") \in Entry /\ Slot(ROOT, "..") \in Entry /\ Free \in Entry
    BY <1>0, <2>0 DEF Entry, Slot, Free
  <2> QED
    BY <2>1 DEF Init
<1>5. todo \in Seq(Task)
  BY Programs DEF Init
<1> QED
  BY <1>1, <1>2, <1>3, <1>4, <1>5 DEF Init, Typed

\* A syscall that has loaded inodes and begun a program.
LEMMA BeginTyped ==
    ASSUME Typed, NEW is \in SUBSET Inums, NEW program \in Seq(Task), Begin(is, program)
    PROVE  Typed'
<1>1. DOMAIN Cached(is) \subseteq Inums /\ Cached(is) \in [DOMAIN Cached(is) -> Node]
  BY CachedTyped
<1> QED
  BY <1>1 DEF Typed, Begin, disk

\* What the syscalls know of their path.
LEMMA PathWalks ==
    ASSUME Typed, NEW u \in Users, NEW path \in Paths
    PROVE  /\ Walk(u, path) \in Result /\ Walk(u, Parent(path)) \in Result
           /\ path = <<>> => Walk(u, path).err = "ok"
           /\ path # <<>> => Last(path) \in Names \ {".", "..", ""}
<1>1. path \in Seq(Names) /\ \A k \in 1 .. Len(path) : path[k] \notin {".", "..", ""}
  BY PathNames
<1>2. CASE path = <<>>
  <2>1. Parent(path) = <<>>
    BY <1>2, SubSeqEmpty DEF Parent
  <2>2. Walk(u, path) \in Result
    BY <1>1, WalkTyped
  <2>3. Walk(u, path) = Start
    BY <1>1, <1>2, WalkUnfolds
  <2>4. Walk(u, path).err = "ok"
    BY <2>3 DEF Start
  <2> QED
    BY <1>2, <2>1, <2>2, <2>4
<1>3. CASE path # <<>>
  <2>1. Parent(path) \in Seq(Names) /\ Last(path) \in Names
    BY <1>1, <1>3, WalkUnfolds
  <2>2. Last(path) = path[Len(path)] /\ Len(path) \in 1 .. Len(path)
    <3>1. Len(path) \in Nat /\ Len(path) # 0
      BY <1>1, <1>3, EmptySeq
    <3> QED
      BY <3>1 DEF Last
  <2> QED
    BY <1>1, <1>3, <2>1, <2>2, WalkTyped
<1> QED
  BY <1>2, <1>3

\* A syscall begins with typed state.
LEMMA SyscallTyped ==
    ASSUME Typed, Syscall
    PROVE  Typed'
<1> PICK u \in Users, path \in Paths :
        \/ mkDir(u, path) \/ createFile(u, path) \/ removeAll(u, path)
        \/ \E len \in Lengths : writeFile(u, path, len)
        \/ \E mode \in Modes : chmod(u, path, mode)
        \/ stat(u, path) \/ readFile(u, path) \/ changeDirectory(u, path) \/ readDir(u, path)
  BY Zenon DEF Syscall
<1> DEFINE w == Walk(u, path)
           p == Walk(u, Parent(path))
<1>0. /\ w \in Result /\ p \in Result /\ (path = <<>> => w.err = "ok")
      /\ path # <<>> => Last(path) \in Names
  BY PathWalks
<1>00. /\ w.inum \in Inums /\ p.inum \in Inums
       /\ w.seen \in SUBSET Inums /\ p.seen \in SUBSET Inums /\ (w.seen \cup p.seen) \in SUBSET Inums
  BY <1>0 DEF Result
<1> HIDE DEF w, p
<1>1. ASSUME NEW ty \in {"reg", "dir"}, Create(u, path, ty) PROVE Typed'
  <2>1. CASE w.err = "ok"
    <3>1. Begin(w.seen, <<>>)
      BY <1>1, <2>1 DEF Create, w
    <3> QED
      BY <1>00, <3>1, Programs, BeginTyped
  <2>2. CASE w.err # "ok"
    <3>0. Last(path) \in Names /\ -1 \in Int
      BY <1>0, <2>2
    <3>1. Make(p.inum, Last(path), ty, u, -1) \in Seq(Task)
      BY ONLY <1>00, <3>0, ty \in {"reg", "dir"}, u \in Users, TasksMade
    <3>2. <<>> \in Seq(Task)
      BY Programs
    <3>3. Begin(w.seen \cup p.seen, Make(p.inum, Last(path), ty, u, -1)) \/ Begin(w.seen \cup p.seen, <<>>)
      BY <1>1, <2>2, Zenon DEF Create, w, p
    <3> QED
      BY <1>00, <3>1, <3>2, <3>3, BeginTyped
  <2> QED
    BY <2>1, <2>2
<1>2. ASSUME removeAll(u, path) PROVE Typed'
  <2>1. path # <<>>
    BY <1>2 DEF removeAll
  <2>2. Removal(p.inum, Last(path), w.inum) \in Seq(Task) /\ <<>> \in Seq(Task)
    BY <1>0, <1>00, <2>1, TasksMade, Programs
  <2>3. Begin(w.seen \cup p.seen, Removal(p.inum, Last(path), w.inum)) \/ Begin(w.seen \cup p.seen, <<>>)
    BY <1>2, Zenon DEF removeAll, w, p
  <2> QED
    BY <1>00, <2>2, <2>3, BeginTyped
<1>3. ASSUME NEW len \in Lengths, writeFile(u, path, len) PROVE Typed'
  <2>0. len \in Nat /\ len \in Int
    <3>1. Lengths \subseteq Nat
      BY KernelFSAssumption
    <3> QED
      BY <3>1
  <2>1. \/ w.err = "ENOENT" /\ Begin(w.seen \cup p.seen, Make(p.inum, Last(path), "reg", u, len))
        \/ Begin(w.seen \cup p.seen, <<>>) \/ Begin(w.seen, Write(w.inum, len)) \/ Begin(w.seen, <<>>)
    BY <1>3 DEF writeFile, w, p
  <2>2. CASE w.err = "ENOENT" /\ Begin(w.seen \cup p.seen, Make(p.inum, Last(path), "reg", u, len))
    <3>1. Make(p.inum, Last(path), "reg", u, len) \in Seq(Task)
      BY <1>0, <1>00, <2>0, <2>2, TasksMade
    <3> QED
      BY <1>00, <2>2, <3>1, BeginTyped
  <2>3. CASE Begin(w.seen, Write(w.inum, len))
    <3>1. Write(w.inum, len) \in Seq(Task)
      BY <1>00, <2>0, TasksMade
    <3> QED
      BY <1>00, <2>3, <3>1, BeginTyped
  <2> QED
    BY <1>00, <2>1, <2>2, <2>3, Programs, BeginTyped
<1>4. ASSUME NEW mode \in Modes, chmod(u, path, mode) PROVE Typed'
  <2> DEFINE c == Cached(w.seen)
             d == [c EXCEPT ![w.inum].ownerMode = mode[1], ![w.inum].otherMode = mode[2]]
  <2>0. mode[1] \in SUBSET {"r", "w", "x"} /\ mode[2] \in SUBSET {"r", "w", "x"}
    <3>1. mode \in (SUBSET {"r", "w", "x"}) \X (SUBSET {"r", "w", "x"})
      BY KernelFSAssumption
    <3> QED
      BY <3>1
  <2>1. DOMAIN c \subseteq Inums /\ c \in [DOMAIN c -> Node]
    BY <1>00, CachedTyped
  <2>2. \/ inodeCache' = d /\ todo' = Save(w.inum)
        \/ inodeCache' = c /\ todo' = <<>>
    BY <1>4, Zenon DEF chmod, w
  <2>3. d \in [DOMAIN c -> Node] /\ DOMAIN d = DOMAIN c
    <3> HIDE DEF c
    <3>1. ASSUME NEW in \in Node
          PROVE  [[in EXCEPT !.ownerMode = mode[1]] EXCEPT !.otherMode = mode[2]] \in Node
      BY <2>0 DEF Node
    <3>2. d = [i \in DOMAIN c |-> IF i = w.inum
                  THEN [[c[i] EXCEPT !.ownerMode = mode[1]] EXCEPT !.otherMode = mode[2]] ELSE c[i]]
      BY <2>1
    <3> QED
      BY <2>1, <3>1, <3>2
  <2>4. Save(w.inum) \in Seq(Task) /\ <<>> \in Seq(Task)
    BY <1>00, TasksMade, Programs
  <2> HIDE DEF c, d
  <2>5. DOMAIN inodeCache' \subseteq Inums /\ inodeCache' \in [DOMAIN inodeCache' -> Node] /\ todo' \in Seq(Task)
    BY <2>1, <2>2, <2>3, <2>4
  <2>6. UNCHANGED <<disk, stale, torn>>
    BY <1>4 DEF chmod
  <2> QED
    BY <2>5, <2>6 DEF Typed, disk
<1>5. ASSUME stat(u, path) \/ readFile(u, path) \/ changeDirectory(u, path) PROVE Typed'
  <2>1. Begin(w.seen, <<>>)
    BY <1>5, Zenon DEF stat, readFile, changeDirectory, w
  <2> QED
    BY <1>00, <2>1, Programs, BeginTyped
<1>6. ASSUME readDir(u, path) PROVE Typed'
  <2> DEFINE inum(k) == SlotsOf(w.inum)[k].inum
             good == {k \in Children(w.inum) : \A j \in Children(w.inum) : j <= k => inum(j) \in Inums}
  <2>1. \/ Begin(w.seen \cup {inum(k) : k \in good}, <<>>) \/ Begin(w.seen \cup {}, <<>>)
    BY <1>6, Zenon DEF readDir, w
  <2>2. \A k \in Children(w.inum) : k <= k
    BY <1>00, SlotsTyped
  <2>3. {inum(k) : k \in good} \subseteq Inums
    BY <2>2
  <2> HIDE DEF inum, good
  <2>4. (w.seen \cup {inum(k) : k \in good}) \in SUBSET Inums /\ (w.seen \cup {}) \in SUBSET Inums
    BY <1>00, <2>3
  <2> QED
    BY <2>1, <2>4, Programs, BeginTyped
<1> QED
  BY <1>1, <1>2, <1>3, <1>4, <1>5, <1>6 DEF mkDir, createFile

\* Rewriting a slot leaves a disk of entries.
LEMMA WithSlotTyped ==
    ASSUME Typed, NEW d, NEW k, NEW e \in Entry
    PROVE  WithSlot(d, k, e) \in [Blocks -> [1 .. EPB -> Entry]]
<1> DEFINE b == itable[d].blocks[((k - 1) \div EPB) + 1]
           j == ((k - 1) % EPB) + 1
<1>1. WithSlot(d, k, e) = [blk EXCEPT ![b] = [blk[b] EXCEPT ![j] = e]]
  BY DEF WithSlot
<1> HIDE DEF b, j
<1> QED
  BY <1>1 DEF Typed

\* Death and errors leave typed state.
LEMMA EndsTyped ==
    ASSUME Typed, Fail \/ Die, torn' \in BOOLEAN
    PROVE  Typed'
<1>1. todo' \in Seq(Task)
  BY Programs DEF Fail, Die
<1>2. DOMAIN inodeCache' \subseteq Inums /\ inodeCache' \in [DOMAIN inodeCache' -> Node]
  <2>1. CASE Fail
    BY <2>1 DEF Fail, Typed
  <2>2. CASE Die
    BY <2>2 DEF Die
  <2> QED
    BY <2>1, <2>2
<1>3. UNCHANGED <<disk, stale>>
  BY DEF Fail, Die
<1> QED
  BY <1>1, <1>2, <1>3 DEF Typed, disk

\* makeInode (kernel.go:258-297).
LEMMA AllocTyped ==
    ASSUME Typed, AllocInode \/ initInode
    PROVE  Typed'
<1> DEFINE t == Head(todo)
<1>1. CASE AllocInode
  <2>1. /\ t.dir \in Inums /\ t.name \in Names /\ t.fType \in {"reg", "dir"} /\ t.user \in Users
        /\ t.len \in Int
    BY <1>1, NowIs, TaskIs DEF AllocInode
  <2>2. CASE Fail
    BY <2>2, EndsTyped DEF Fail, Typed
  <2>3. CASE ~(Inums \subseteq inodeBitmap)
    <3> DEFINE i == Lowest(Inums \ inodeBitmap)
               head == <<[op |-> "initInode", inum |-> i, fType |-> t.fType, user |-> t.user],
                         Link(t.dir, t.name, i)>>
               dots == IF t.fType = "dir" THEN <<Link(i, ".", i), Link(i, "..", t.dir)>> ELSE <<>>
               text == IF t.len >= 0 THEN Write(i, t.len) ELSE <<>>
    <3>0. Inums \ inodeBitmap # {} /\ Inums \ inodeBitmap \subseteq Nat
      BY <2>3, Constants
    <3>1. i \in Inums \ inodeBitmap
      BY <3>0, LowestIs
    <3> HIDE DEF i
    <3>2. head \in Seq(Task)
      BY <2>1, <3>1, TasksMade, Programs
    <3>3. dots \in Seq(Task)
      <4>1. "." \in Names /\ ".." \in Names
        BY DEF Names
      <4> QED
        BY <2>1, <3>1, <4>1, TasksMade, Programs
    <3>4. text \in Seq(Task)
      <4>1. t.len >= 0 => t.len \in Nat
        BY <2>1
      <4> QED
        BY <3>1, <4>1, TasksMade, Programs
    <3>5. (head \o dots) \o text \in Seq(Task)
      <4> HIDE DEF head, dots, text
      <4> QED
        BY <3>2, <3>3, <3>4, Programs
    <3>6. /\ todo' = (head \o dots) \o text /\ inodeBitmap' = inodeBitmap \cup {i}
          /\ UNCHANGED <<itable, dataBitmap, blk, inodeCache, stale, torn>>
      BY <1>1, <2>3 DEF AllocInode, MarkInode, i
    <3> HIDE DEF head, dots, text
    <3> QED
      BY <3>1, <3>5, <3>6 DEF Typed
  <2> QED
    BY <1>1, <2>2, <2>3 DEF AllocInode
<1>2. CASE initInode
  <2>1. t.inum \in Inums /\ t.fType \in {"reg", "dir"} /\ t.user \in Users /\ Rest \in Seq(Task)
    BY <1>2, NowIs, TaskIs DEF initInode
  <2>2. FreshInode(t.fType, t.user) \in Node
    <3>1. <<>> \in Bounded
      BY Constants DEF Bounded
    <3> QED
      BY <2>1, <3>1 DEF FreshInode, Node
  <2>3. itable' \in [Inums -> Node]
    BY <1>2, <2>2 DEF Typed, initInode
  <2>4. DOMAIN inodeCache' \subseteq Inums /\ inodeCache' \in [DOMAIN inodeCache' -> Node]
    BY <1>2 DEF Typed, initInode
  <2> QED
    BY <1>2, <2>1, <2>3, <2>4 DEF Typed, initInode
<1> QED
  BY <1>1, <1>2

\* addDentry and removeDentry (fs_dir.go:75-195).
LEMMA DentryTyped ==
    ASSUME Typed, addDentryInsert \/ addDentryGrow \/ addDentryFail \/ saveDir \/ removeDentry
    PROVE  Typed'
<1> DEFINE t == Head(todo)
<1>1. CASE addDentryInsert
  <2>1. t.inum \in Inums /\ t.name \in Names /\ Rest \in Seq(Task)
    BY <1>1, NowIs, TaskIs DEF addDentryInsert
  <2>2. Slot(t.inum, t.name) \in Entry
    BY <2>1, Constants DEF Slot, Entry, Targets
  <2>3. blk' \in [Blocks -> [1 .. EPB -> Entry]]
    BY <1>1, <2>2, WithSlotTyped DEF addDentryInsert
  <2> QED
    BY <1>1, <2>1, <2>3 DEF Typed, addDentryInsert
<1>2. CASE addDentryGrow
  <2> DEFINE b == Lowest(Blocks \ dataBitmap)
             bs == Append(itable[t.dir].blocks, b)
  <2>1. /\ t.dir \in Inums /\ t.inum \in Inums /\ t.name \in Names /\ Rest \in Seq(Task)
        /\ [t EXCEPT !.op = "retry"] = [op |-> "retry", dir |-> t.dir, name |-> t.name, inum |-> t.inum]
    BY <1>2, NowIs, TaskIs DEF addDentryGrow
  <2>2. b \in Blocks
    <3>1. Blocks \ dataBitmap # {} /\ Blocks \ dataBitmap \subseteq Nat
      BY <1>2, Constants DEF addDentryGrow
    <3> QED
      BY <3>1, LowestIs
  <2> HIDE DEF b
  <2>3. bs \in Bounded
    <3>1. itable[t.dir].blocks \in Seq(Blocks) /\ itable[t.dir] \in Node
      BY <2>1, NodeIs DEF Typed
    <3>2. bs \in Seq(Blocks) /\ Len(bs) \in Nat
      BY <2>2, <3>1
    <3>3. ~(Len(bs) > MaxFileBlocks)
      BY <1>2 DEF addDentryGrow, TooLarge, b
    <3> HIDE DEF bs
    <3> QED
      BY <3>2, <3>3, Constants DEF Bounded
  <2> HIDE DEF bs
  <2>4. todo' \in Seq(Task)
    <3>1. <<[op |-> "saveDir", dir |-> t.dir, blocks |-> bs], [t EXCEPT !.op = "retry"]>> \in Seq(Task)
      BY <2>1, <2>3, TasksMade, Programs
    <3>2. todo' = <<[op |-> "saveDir", dir |-> t.dir, blocks |-> bs], [t EXCEPT !.op = "retry"]>> \o Rest
      BY <1>2 DEF addDentryGrow, bs, b
    <3> QED
      BY <2>1, <3>1, <3>2, Programs
  <2>5. dataBitmap' = dataBitmap \cup {b} /\ stale' \in BOOLEAN
    BY <1>2 DEF addDentryGrow, MarkBlocks, b
  <2> QED
    BY <1>2, <2>2, <2>4, <2>5 DEF Typed, addDentryGrow
<1>3. CASE addDentryFail
  BY <1>3, EndsTyped DEF addDentryFail, Fail, Typed
<1>4. CASE saveDir
  <2>1. t.dir \in Inums /\ t.blocks \in Bounded /\ Rest \in Seq(Task)
    BY <1>4, NowIs, TaskIs DEF saveDir
  <2>2. [itable[t.dir] EXCEPT !.blocks = t.blocks] \in Node
    BY <2>1, NodeWith DEF Typed
  <2>3. itable' = [itable EXCEPT ![t.dir] = [itable[t.dir] EXCEPT !.blocks = t.blocks]]
    BY <1>4 DEF saveDir
  <2>4. itable' \in [Inums -> Node]
    BY <2>2, <2>3 DEF Typed
  <2> QED
    BY <1>4, <2>1, <2>4 DEF Typed, saveDir
<1>5. CASE removeDentry
  <2>1. Rest \in Seq(Task)
    BY <1>5, NowIs DEF removeDentry
  <2>2. Free \in Entry
    BY DEF Free, Slot, Entry, Names
  <2>3. blk' \in [Blocks -> [1 .. EPB -> Entry]]
    BY <1>5, <2>2, WithSlotTyped DEF removeDentry
  <2> QED
    BY <1>5, <2>1, <2>3 DEF Typed, removeDentry
<1> QED
  BY <1>1, <1>2, <1>3, <1>4, <1>5

\* freeInodeTree (kernel.go:301-330).
LEMMA FreeingTyped ==
    ASSUME Typed, freeInodeTree \/ freeBlocks \/ FreeInodeFromBitmap
    PROVE  Typed'
<1> DEFINE i == Head(todo).inum
<1>1. CASE freeInodeTree
  <2>0. Rest \in Seq(Task)
    BY <1>1, NowIs DEF freeInodeTree
  <2>1. CASE Fail
    BY <2>1, EndsTyped DEF Fail, Typed
  <2>2. CASE i \in Inums
    <3> DEFINE kids == IF GetInode(i).fType = "dir" THEN Children(i) ELSE {}
               head == [r \in 1 .. Cardinality(kids) |->
                           [op |-> "freeInodeTree", inum |-> SlotsOf(i)[Nth(kids, r - 1)].inum]]
    <3>1. /\ kids \subseteq Nat /\ IsFiniteSet(kids) /\ kids \subseteq Children(i)
          /\ \A k \in Children(i) : SlotsOf(i)[k].inum \in Targets
      BY <2>2, SlotsTyped, FS_EmptySet
    <3>2. head \in Seq(Task)
      <4> HIDE DEF kids
      <4>1. Cardinality(kids) \in Nat
        BY <3>1, FS_CardinalityType
      <4>2. ASSUME NEW r \in 1 .. Cardinality(kids)
            PROVE  [op |-> "freeInodeTree", inum |-> SlotsOf(i)[Nth(kids, r - 1)].inum] \in Task
        <5>1. r - 1 \in Nat /\ r - 1 < Cardinality(kids)
          BY <4>1
        <5>2. Nth(kids, r - 1) \in kids
          BY <3>1, <5>1, NthIs
        <5> QED
          BY <3>1, <5>2, TasksMade
      <4> QED
        BY <4>1, <4>2
    <3>3. <<[op |-> "freeBlocks", inum |-> i]>> \in Seq(Task)
      BY <2>2, TasksMade, Programs
    <3>4. (head \o <<[op |-> "freeBlocks", inum |-> i]>>) \o Rest \in Seq(Task)
      <4> HIDE DEF head
      <4> QED
        BY <2>0, <3>2, <3>3, Programs
    <3>5. /\ todo' = (head \o <<[op |-> "freeBlocks", inum |-> i]>>) \o Rest
          /\ inodeCache' = Cached({i}) /\ UNCHANGED <<disk, stale, torn>>
          \/ Fail
      BY <1>1, Zenon DEF freeInodeTree
    <3>6. DOMAIN Cached({i}) \subseteq Inums /\ Cached({i}) \in [DOMAIN Cached({i}) -> Node]
      BY <2>2, CachedTyped
    <3> HIDE DEF head, i
    <3> QED
      BY <2>1, <3>4, <3>5, <3>6 DEF Typed, disk
  <2> QED
    BY <1>1, <2>1, <2>2 DEF freeInodeTree
<1>2. CASE freeBlocks
  <2>1. i \in Inums /\ Rest \in Seq(Task)
    BY <1>2, NowIs, TaskIs DEF freeBlocks
  <2> DEFINE c == Cached({i})
  <2>2. DOMAIN c \subseteq Inums /\ c \in [DOMAIN c -> Node] /\ i \in DOMAIN c
    BY <2>1, CachedTyped
  <2>3. <<>> \in Bounded
    BY Constants DEF Bounded
  <2> HIDE DEF c, i
  <2>4. [c[i] EXCEPT !.blocks = <<>>] \in Node
    BY <2>2, <2>3, NodeWith
  <2>5. inodeCache' = [c EXCEPT ![i] = [c[i] EXCEPT !.blocks = <<>>]]
    BY <1>2 DEF freeBlocks, c, i
  <2>6. DOMAIN inodeCache' \subseteq Inums /\ inodeCache' \in [DOMAIN inodeCache' -> Node]
    BY <2>2, <2>4, <2>5
  <2>7. todo' \in Seq(Task)
    <3>1. <<[op |-> "FreeInodeFromBitmap", inum |-> i]>> \in Seq(Task)
      BY <2>1, TasksMade, Programs
    <3> QED
      BY <1>2, <2>1, <3>1, Programs DEF freeBlocks, i
  <2> QED
    BY <1>2, <2>6, <2>7 DEF Typed, freeBlocks
<1>3. CASE FreeInodeFromBitmap
  <2>1. Rest \in Seq(Task)
    BY <1>3, NowIs DEF FreeInodeFromBitmap
  <2>2. todo' \in Seq(Task)
    BY <1>3, <2>1, Programs DEF FreeInodeFromBitmap
  <2>3. DOMAIN inodeCache' \subseteq Inums /\ inodeCache' \in [DOMAIN inodeCache' -> Node]
    BY <1>3 DEF Typed, FreeInodeFromBitmap
  <2> QED
    BY <1>3, <2>2, <2>3 DEF Typed, FreeInodeFromBitmap
<1> QED
  BY <1>1, <1>2, <1>3

\* What Falloc makes of the blocks bs of a file, for a length of n blocks.
Resized(bs, n) ==
    IF n > Len(bs) THEN bs \o [r \in 1 .. (n - Len(bs)) |-> Nth(Blocks \ dataBitmap, r - 1)]
                   ELSE SubSeq(bs, 1, n)

\* Falloc keeps the blocks that stay and adds free ones, in their order
\* (fs_falloc.go:61-275).
LEMMA ResizedIs ==
    ASSUME Typed, NEW bs \in Seq(Blocks), NEW n \in Nat, n <= MaxFileBlocks,
           n - Len(bs) <= Cardinality(Blocks \ dataBitmap)
    PROVE  /\ Resized(bs, n) \in Bounded /\ Len(Resized(bs, n)) = n
           /\ \A k \in 1 .. n : IF k <= Len(bs) THEN Resized(bs, n)[k] = bs[k]
                                ELSE Resized(bs, n)[k] = Nth(Blocks \ dataBitmap, k - Len(bs) - 1)
           /\ \A r \in Nat : r < n - Len(bs) =>
                 /\ Nth(Blocks \ dataBitmap, r) \in Blocks \ dataBitmap
                 /\ Cardinality({b \in Blocks \ dataBitmap : b < Nth(Blocks \ dataBitmap, r)}) = r
<1> DEFINE free == Blocks \ dataBitmap
           l == Len(bs)
<1>0. free \subseteq Nat /\ IsFiniteSet(free) /\ Cardinality(free) \in Nat /\ l \in Nat
  <2>1. Blocks \subseteq Nat /\ IsFiniteSet(Blocks) /\ free \subseteq Blocks
    BY Constants
  <2> HIDE DEF free
  <2>2. IsFiniteSet(free)
    BY <2>1, FS_Subset
  <2>3. Cardinality(free) \in Nat
    BY <2>2, FS_CardinalityType
  <2> QED
    BY <2>1, <2>2, <2>3
<1>1. ASSUME NEW r \in Nat, r < n - l
      PROVE  Nth(free, r) \in free /\ Cardinality({b \in free : b < Nth(free, r)}) = r
  <2>1. r < Cardinality(free)
    BY <1>0, <1>1
  <2> HIDE DEF free
  <2> QED
    BY <1>0, <2>1, NthIs
<1>2. CASE n > l
  <2> DEFINE new == [r \in 1 .. (n - l) |-> Nth(free, r - 1)]
  <2>0. n - l \in Nat
    BY <1>0, <1>2
  <2>1. ASSUME NEW r \in 1 .. (n - l) PROVE Nth(free, r - 1) \in Blocks
    <3>1. r - 1 \in Nat /\ r - 1 < n - l
      BY <2>0
    <3> QED
      BY <1>1, <3>1
  <2>2. new \in Seq(Blocks) /\ Len(new) = n - l
    <3> HIDE DEF free, l
    <3> QED
      BY <2>0, <2>1
  <2>3. Resized(bs, n) = bs \o new
    BY <1>2 DEF Resized
  <2> HIDE DEF l
  <2>4. /\ bs \o new \in Seq(Blocks) /\ Len(bs \o new) = l + (n - l)
        /\ \A k \in 1 .. (l + (n - l)) : (bs \o new)[k] = IF k <= l THEN bs[k] ELSE new[k - l]
    <3> HIDE DEF new
    <3> QED
      BY <2>2, ConcatProperties DEF l
  <2>5. l + (n - l) = n
    BY <1>0
  <2>6. ASSUME NEW k \in 1 .. n, ~(k <= l) PROVE new[k - l] = Nth(free, k - l - 1)
    <3>1. k - l \in 1 .. (n - l)
      BY <1>0, <2>6
    <3> QED
      BY <3>1
  <2> HIDE DEF new, free
  <2>7. Resized(bs, n) \in Bounded /\ Len(Resized(bs, n)) = n
    BY <2>3, <2>4, <2>5 DEF Bounded
  <2>8. \A k \in 1 .. n : IF k <= l THEN Resized(bs, n)[k] = bs[k] ELSE Resized(bs, n)[k] = Nth(free, k - l - 1)
    BY <2>3, <2>4, <2>5, <2>6
  <2> QED
    BY <1>1, <2>7, <2>8 DEF free, l
<1>3. CASE ~(n > l)
  <2>1. Resized(bs, n) = SubSeq(bs, 1, n) /\ n <= l
    BY <1>0, <1>3 DEF Resized
  <2>2. /\ SubSeq(bs, 1, n) \in Seq(Blocks) /\ Len(SubSeq(bs, 1, n)) = n
        /\ \A k \in 1 .. n : SubSeq(bs, 1, n)[k] = bs[k] /\ k <= l
    BY <1>0, <2>1
  <2> HIDE DEF l, free
  <2> QED
    BY <1>1, <2>1, <2>2 DEF Bounded, l, free
<1> QED
  BY <1>2, <1>3

\* Falloc of a file that is written, and the writes that follow it.
LEMMA WriteTyped ==
    ASSUME Typed, Falloc \/ writeDataBlock \/ writeInode
    PROVE  Typed'
<1> DEFINE i == Head(todo).inum
<1>1. CASE Falloc
  <2> DEFINE n == Head(todo).len
             bs == GetInode(i).blocks
             new == Resized(bs, n)
             c == Cached({i})
             head == [k \in 1 .. n |-> [op |-> "writeDataBlock", inum |-> i, at |-> k]]
  <2>1. i \in Inums /\ n \in Nat /\ Rest \in Seq(Task)
    BY <1>1, NowIs, TaskIs DEF Falloc
  <2>2. CASE Fail
    BY <2>2, EndsTyped DEF Fail, Typed
  <2>3. CASE ~Fail
    <3>1. /\ ~TooLarge(n) /\ n - Len(bs) <= Cardinality(Blocks \ dataBitmap)
          /\ dataBitmap' = MarkBlocks(ToSet(new)) \ (ToSet(bs) \ ToSet(new))
          /\ inodeCache' = [c EXCEPT ![i].blocks = new]
          /\ todo' = (head \o Save(i)) \o Rest
          /\ UNCHANGED <<inodeBitmap, itable, blk, stale, torn>>
      BY <1>1, <2>3, Zenon DEF Falloc, Resized
    <3>2. bs \in Seq(Blocks) /\ GetInode(i) \in Node
      BY <2>1, CachedTyped, NodeIs
    <3>3. n <= MaxFileBlocks
      BY <2>1, <3>1, Constants DEF TooLarge
    <3>4. new \in Bounded /\ new \in Seq(Blocks)
      <4> HIDE DEF bs, n
      <4>1. new \in Bounded
        BY <2>1, <3>1, <3>2, <3>3, ResizedIs
      <4> HIDE DEF new
      <4> QED
        BY <4>1 DEF Bounded
    <3>5. DOMAIN c \subseteq Inums /\ c \in [DOMAIN c -> Node] /\ i \in DOMAIN c
      BY <2>1, CachedTyped
    <3> HIDE DEF c, new, bs
    <3>6. [c[i] EXCEPT !.blocks = new] \in Node
      BY <3>4, <3>5, NodeWith
    <3>7. inodeCache' = [c EXCEPT ![i] = [c[i] EXCEPT !.blocks = new]]
      BY <3>1
    <3>8. DOMAIN inodeCache' \subseteq Inums /\ inodeCache' \in [DOMAIN inodeCache' -> Node]
      <4> HIDE DEF i
      <4> QED
        BY <3>5, <3>6, <3>7
    <3>9. todo' \in Seq(Task)
      <4>1. head \in Seq(Task)
        <5>1. \A k \in 1 .. n : [op |-> "writeDataBlock", inum |-> i, at |-> k] \in Task
          <6>1. \A k \in 1 .. n : k \in Nat \ {0}
            BY <2>1
          <6> HIDE DEF i, n
          <6> QED
            BY <2>1, <6>1, TasksMade
        <5> HIDE DEF i, n
        <5> QED
          BY <2>1, <5>1
      <4>2. Save(i) \in Seq(Task)
        BY <2>1, TasksMade
      <4> HIDE DEF head, i
      <4> QED
        BY <2>1, <3>1, <4>1, <4>2, Programs
    <3>10. ToSet(new) \subseteq Blocks
      BY <3>4 DEF ToSet
    <3>11. dataBitmap' \subseteq Blocks
      BY <3>1, <3>10 DEF MarkBlocks, Typed
    <3> QED
      BY <3>1, <3>8, <3>9, <3>11 DEF Typed
  <2> QED
    BY <2>2, <2>3
<1>2. CASE writeDataBlock
  <2>1. Rest \in Seq(Task)
    BY <1>2, NowIs DEF writeDataBlock
  <2>2. Text \in Entry
    BY DEF Text, Slot, Entry, Names, Targets
  <2>3. [k \in 1 .. EPB |-> Text] \in [1 .. EPB -> Entry]
    BY <2>2
  <2>4. blk' \in [Blocks -> [1 .. EPB -> Entry]]
    <3> DEFINE b == GetInode(Head(todo).inum).blocks[Head(todo).at]
    <3>1. blk' = [blk EXCEPT ![b] = [k \in 1 .. EPB |-> Text]]
      BY <1>2 DEF writeDataBlock
    <3> HIDE DEF b
    <3> QED
      BY <2>3, <3>1 DEF Typed
  <2> QED
    BY <1>2, <2>1, <2>4 DEF Typed, writeDataBlock
<1>3. CASE writeInode
  <2>1. Rest \in Seq(Task) /\ i \in Inums
    BY <1>3, NowIs, TaskIs DEF writeInode
  <2>2. itable' = [itable EXCEPT ![i] = GetInode(i)] /\ GetInode(i) \in Node
    BY <1>3, <2>1, CachedTyped DEF writeInode
  <2> HIDE DEF i
  <2>3. itable' \in [Inums -> Node]
    BY <2>2 DEF Typed
  <2> QED
    BY <1>3, <2>1, <2>3 DEF Typed, writeInode
<1> QED
  BY <1>1, <1>2, <1>3

\* Every step leaves typed state.
LEMMA NextTyped == Typed /\ [Next]_vars => Typed'
<1> SUFFICES ASSUME Typed, [Next]_vars PROVE Typed'
  OBVIOUS
<1>1. CASE Syscall
  BY <1>1, SyscallTyped
<1>2. CASE Step
  <2>1. CASE panic
    BY <2>1, EndsTyped DEF panic, Typed
  <2> QED
    BY <1>2, <2>1, AllocTyped, DentryTyped, FreeingTyped, WriteTyped DEF Step
<1>3. CASE Kill
  <2>1. torn' \in BOOLEAN
    BY <1>3 DEF Kill
  <2> QED
    BY <1>3, <2>1, EndsTyped DEF Kill
<1>4. CASE UNCHANGED vars
  BY <1>4 DEF vars, disk, Typed
<1> QED
  BY <1>1, <1>2, <1>3, <1>4 DEF Next

\* Typing is an invariant.
LEMMA TypedInvariance == Spec => []Typed
BY InitTyped, NextTyped, PTL DEF Spec

\* The record of names added unseen is a truth value.
LEMMA BlindIsFlag == Spec => [](blind \in BOOLEAN)
<1>1. Init => blind \in BOOLEAN
  BY DEF Init
<1>2. blind \in BOOLEAN /\ [Next]_vars => (blind \in BOOLEAN)'
  <2>1. \A u \in Users, path \in Paths, ty \in {"reg", "dir"} : Create(u, path, ty) => blind' \in BOOLEAN
    BY Zenon DEF Create
  <2> QED
    BY <2>1 DEF Next, vars, Syscall, Step, Kill, mkDir, createFile
<1> QED
  BY <1>1, <1>2, PTL DEF Spec

\* Inode table, bitmaps, cache and directory blocks stay well formed, and no file
\* gets more blocks than Falloc allows, whatever the syscalls and wherever they
\* are cut short (fs_falloc.go:102-105, fs_dir.go:157-195).
THEOREM TypeCorrect == Spec => []TypeOK
<1>1. Typed /\ blind \in BOOLEAN => TypeOK
  <2> SUFFICES ASSUME Typed, blind \in BOOLEAN PROVE TypeOK
    OBVIOUS
  <2>1. \A i \in Inums : itable[i] \in Inode /\ Len(itable[i].blocks) <= MaxFileBlocks
    BY NodeIs DEF Typed
  <2>2. \A i \in DOMAIN inodeCache : inodeCache[i] \in Inode
    BY NodeIs DEF Typed
  <2>3. ASSUME NEW b \in Blocks, NEW k \in 1 .. EPB
        PROVE  blk[b][k].inum \in Inums \cup {0, -1} /\ (blk[b][k].inum = 0 => blk[b][k] = Free)
    BY DEF Typed, Entry, Targets
  <2> QED
    BY <2>1, <2>2, <2>3 DEF TypeOK, Typed
<1> QED
  BY <1>1, TypedInvariance, BlindIsFlag, PTL
=============================================================================
