---------------------------- MODULE FallocProofs ----------------------------
(***************************************************************************)
(* Proofs about Falloc, for every geometry of the disk, every set of files  *)
(* and every choice of lengths and contents.                                *)
(***************************************************************************)
EXTENDS Falloc, FiniteSetTheorems, TLAPS

-----------------------------------------------------------------------------
(* Arithmetic of blocks, places and slots. *)

\* A length in bytes needs a natural number of blocks, and none when it is 0
\* (the rounding division at fs_falloc.go:69).
LEMMA NumBlocksNat ==
    /\ \A size \in Nat : NumBlocks(size) \in Nat
    /\ NumBlocks(0) = 0
BY GeometryAssumption DEF NumBlocks

\* virtualToPlaceRelative takes a virtual block to a pointer that exists: a
\* direct one, or a word of the table of its place.
LEMMA PlaceRelative ==
    ASSUME NEW v \in 0 .. (MaxBlocks - 1)
    PROVE  /\ Place(v) \in 0 .. 3
           /\ Place(v) = 0 => v \in 0 .. (DIRECT - 1)
           /\ Place(v) # 0 => /\ Place(v) \in Places
                              /\ Relative(v) \in 0 .. (PERIND - 1)
                              /\ v = Boundary(Place(v)) + Relative(v)
                              /\ v >= Boundary(Place(v))
BY GeometryAssumption DEF Place, Relative, Boundary, MaxBlocks, Places

\* The boundaries of the places are natural numbers.
LEMMA BoundariesNat == MaxBlocks \in Nat /\ \A p \in Places : Boundary(p) \in Nat
BY GeometryAssumption DEF MaxBlocks, Boundary, Places

\* The slots of a file are a table's or a virtual block's.
LEMMA SlotsMember ==
    ASSUME NEW nb \in Nat, NEW s
    PROVE  s \in Slots(nb) <=> \/ s \in {-3, -2, -1} /\ nb > Boundary(-s)
                               \/ s \in 0 .. (nb - 1)
BY GeometryAssumption DEF Slots, Boundary, Places

\* A file with a virtual block behind a table has the table too, and a longer
\* file has every slot of a shorter one.
LEMMA SlotsClosed ==
    /\ \A nb \in 0 .. MaxBlocks : \A s \in Slots(nb) :
          s >= 0 /\ Place(s) # 0 => -Place(s) \in Slots(nb)
    /\ \A m, n \in Nat : m <= n => Slots(m) \subseteq Slots(n)
    /\ Slots(0) = {}
    /\ \A nb \in Nat : Slots(nb) \subseteq Int
<1>0. MaxBlocks \in Nat /\ \A p \in Places : Boundary(p) \in Nat
  BY BoundariesNat
<1>1. ASSUME NEW nb \in 0 .. MaxBlocks, NEW s \in Slots(nb), s >= 0, Place(s) # 0
      PROVE  -Place(s) \in Slots(nb)
  <2>1. s \in 0 .. (nb - 1)
    BY <1>0, <1>1, SlotsMember
  <2>2. Place(s) \in Places /\ nb > Boundary(Place(s))
    BY <1>0, <1>1, <2>1, PlaceRelative DEF Places
  <2> QED
    BY <2>2 DEF Slots
<1>2. ASSUME NEW m \in Nat, NEW n \in Nat, m <= n
      PROVE  Slots(m) \subseteq Slots(n)
  BY <1>0, <1>2 DEF Slots
<1>3. Slots(0) = {}
  BY <1>0 DEF Slots
<1>4. ASSUME NEW nb \in Nat
      PROVE  Slots(nb) \subseteq Int
  BY <1>4 DEF Slots, Places
<1> QED
  BY <1>1, <1>2, <1>3, <1>4

\* The slots of a file are finite in number.
LEMMA SlotsFinite == \A nb \in Nat : IsFiniteSet(Slots(nb))
<1> SUFFICES ASSUME NEW nb \in Nat PROVE IsFiniteSet(Slots(nb))
  OBVIOUS
<1>1. IsFiniteSet((-3) .. nb)
  BY FS_Interval
<1>2. Slots(nb) \subseteq (-3) .. nb
  BY SlotsMember
<1> QED
  BY <1>1, <1>2, FS_Subset

-----------------------------------------------------------------------------
(* The blocks handed out. *)

\* No two slots have the same turn, so findFreeBit is called anew for each.
LEMMA TurnInjective ==
    ASSUME NEW new, new \subseteq Int, IsFiniteSet(new),
           NEW s \in new, NEW t \in new, Turn(new, s) = Turn(new, t)
    PROVE  s = t
<1> DEFINE Below(u) == {w \in new : w < u}
<1>1. ASSUME NEW a \in new, NEW b \in new, a < b
      PROVE  Turn(new, a) # Turn(new, b)
  <2>0. a \in Int /\ b \in Int /\ \A w \in new : w \in Int
    OBVIOUS
  <2>1. Below(a) \subseteq Below(b)
    <3>1. ASSUME NEW w \in new, w < a PROVE w < b
      BY <1>1, <2>0, <3>1
    <3> QED
      BY <3>1
  <2>4. a \in Below(b) /\ a \notin Below(a)
    BY <1>1, <2>0
  <2>2. IsFiniteSet(Below(b))
    BY FS_Subset
  <2>3. Cardinality(Below(a)) # Cardinality(Below(b))
    BY <2>1, <2>2, <2>4, FS_Subset
  <2> QED
    BY <2>3 DEF Turn
<1>2. s < t \/ t < s \/ s = t
  OBVIOUS
<1> QED
  BY <1>1, <1>2

\* When findFreeBit finds a block for a slot, the block was free, and two slots
\* never get the same one.
LEMMA FreeBits ==
    ASSUME NEW new, new \subseteq Int, IsFiniteSet(new),
           NEW ss, ss \subseteq new, \A s \in ss : Finds(new, s)
    PROVE  /\ \A s \in ss : FreeBit(Turn(new, s)) \in Blocks \ dataBitmap
           /\ \A s, t \in ss : FreeBit(Turn(new, s)) = FreeBit(Turn(new, t)) => s = t
<1>1. \A s \in ss : IsFreeBit(FreeBit(Turn(new, s)), Turn(new, s))
  BY DEF Finds, FreeBit
<1>2. \A s, t \in ss : FreeBit(Turn(new, s)) = FreeBit(Turn(new, t))
                          => Turn(new, s) = Turn(new, t)
  BY <1>1 DEF IsFreeBit
<1>3. \A s, t \in ss : Turn(new, s) = Turn(new, t) => s = t
  BY TurnInjective
<1>4. \A s \in ss : FreeBit(Turn(new, s)) \in Blocks \ dataBitmap
  BY <1>1 DEF IsFreeBit
<1> QED
  BY <1>2, <1>3, <1>4

-----------------------------------------------------------------------------
(* The inductive invariant. *)

\* Every block in use is marked, and by one slot of one file only.
Sound ==
    /\ \A f \in Holders : \A s \in SlotsOf(f) : BlockIn(f, s) \in dataBitmap
    /\ \A f, g \in Holders : \A s \in SlotsOf(f), t \in SlotsOf(g) :
          BlockIn(f, s) = BlockIn(g, t) => f = g /\ s = t

\* No inode has more blocks than its tables can name.
Fits == \A f \in Files : /\ NumBlocks(mem[f].size) <= MaxBlocks
                         /\ NumBlocks(disk[f].size) <= MaxBlocks

\* What a restart reads back: inode a leads to the blocks inode b leads to, as
\* far as a reaches.
Agrees(a, b) ==
    /\ \A i \in 0 .. (DIRECT - 1) : i < NumBlocks(a.size) => a.direct[i] = b.direct[i]
    /\ \A p \in Places : NumBlocks(a.size) > Boundary(p) => a.ind[p] = b.ind[p]

\* Only the file worked on differs from its inode on disk, and then, unless it
\* was shrunk, only behind the end of the one on disk.
Coherent ==
    /\ \A f \in linked : f # cur => mem[f] = disk[f]
    /\ stage \in {"resized", "grown"} =>
          (NumBlocks(mem[cur].size) >= NumBlocks(disk[cur].size) => Agrees(disk[cur], mem[cur]))

InOperation ==
    /\ stage \in {"resized", "grown"} => cur \in linked
    /\ stage = "unlinked" => cur \notin linked

IInv ==
    /\ TypeOK
    /\ Fits
    /\ InOperation
    /\ history # "torn" => Sound /\ Coherent

-----------------------------------------------------------------------------
(* What a growing Falloc writes. *)

\* Falloc grows f to size: new are the slots that get a block, in is the inode
\* it builds, zs are the tables it has zeroed and ss those it has written back.
Growing(f, size, new, in, zs, ss) ==
    /\ NumBlocks(size) > NumBlocks(mem[f].size) /\ NumBlocks(size) <= MaxBlocks
    /\ new = NewSlots(NumBlocks(mem[f].size), NumBlocks(size))
    /\ in = Grown(mem[f], size, new)
    /\ zs \subseteq NewTables(new) /\ \A p \in zs : Finds(new, -p)
    /\ ss \subseteq Touched(new) /\ (ss # {} => \A s \in new : Finds(new, s))

\* A growing Falloc writes block contents, and hands out block numbers, in every
\* state of the disk.
LEMMA GrowType ==
    ASSUME TypeOK, NEW f \in Files, NEW size \in Nat,
           NEW new, NEW in, NEW zs, NEW ss, Growing(f, size, new, in, zs, ss),
           NEW b, b = Stored(in, Zeroed(in, zs), new, ss)
    PROVE  /\ b \in [Blocks -> Content]
           /\ (\A s \in new : Finds(new, s)) => in \in Inode
<1> DEFINE z == Zeroed(in, zs)
<1>1. /\ new = NewSlots(NumBlocks(mem[f].size), NumBlocks(size))
      /\ in = Grown(mem[f], size, new)
      /\ ss \subseteq Places /\ (ss # {} => \A s \in new : Finds(new, s))
  BY DEF Growing, Touched
<1>2. new \subseteq Int /\ IsFiniteSet(new)
  <2>1. NumBlocks(size) \in Nat
    BY NumBlocksNat
  <2>2. Slots(NumBlocks(size)) \subseteq Int /\ IsFiniteSet(Slots(NumBlocks(size)))
    BY <2>1, SlotsClosed, SlotsFinite
  <2> QED
    BY <1>1, <2>2, FS_Subset DEF NewSlots
<1>3. ASSUME \A s \in new : Finds(new, s)
      PROVE  \A s \in new : FreeBit(Turn(new, s)) \in Blocks
  BY <1>2, <1>3, FreeBits
<1>4. ASSUME \A s \in new : Finds(new, s)
      PROVE  in \in Inode
  <2>1. mem[f] \in Inode
    BY DEF TypeOK
  <2>2. \A p \in Places : (IF -p \in new THEN FreeBit(Turn(new, -p)) ELSE mem[f].ind[p]) \in Blocks
    BY <1>3, <1>4, <2>1 DEF Inode
  <2>3. \A i \in 0 .. (DIRECT - 1) :
           (IF i \in new THEN FreeBit(Turn(new, i)) ELSE mem[f].direct[i]) \in Blocks
    BY <1>3, <1>4, <2>1 DEF Inode
  <2> QED
    BY <1>1, <2>2, <2>3 DEF Grown, Inode
<1>5. z \in [Blocks -> Content]
  BY GeometryAssumption DEF Zeroed, ZeroBlock, TypeOK, Content, Blocks
<1> HIDE DEF z
<1>6. ASSUME NEW p \in ss PROVE Table(in, z, new, p) \in Content
  <2>1. in.ind[p] \in Blocks
    BY <1>1, <1>4 DEF Inode
  <2>2. \A i \in 0 .. (PERIND - 1) : z[in.ind[p]][i] \in Blocks \cup Text
    BY <1>5, <2>1 DEF Content
  <2>3. \A i \in 0 .. (PERIND - 1) :
           (IF Boundary(p) + i \in new THEN FreeBit(Turn(new, Boundary(p) + i))
                                       ELSE z[in.ind[p]][i]) \in Blocks \cup Text
    BY <1>1, <1>3, <2>2
  <2> QED
    BY <2>3 DEF Table, Content
<1>7. ASSUME NEW c \in Blocks PROVE b[c] \in Content
  <2> DEFINE Top(p) == in.ind[p] = c /\ \A q \in ss : in.ind[q] = c => q <= p
  <2>1. CASE \A p \in ss : in.ind[p] # c
    BY <1>5, <2>1 DEF Stored, z
  <2>2. CASE \E p \in ss : in.ind[p] = c
    <3>1. \E p \in ss : Top(p)
      <4>1. CASE 3 \in ss /\ in.ind[3] = c
        BY <1>1, <4>1 DEF Places
      <4>2. CASE ~(3 \in ss /\ in.ind[3] = c) /\ 2 \in ss /\ in.ind[2] = c
        BY <1>1, <4>2 DEF Places
      <4>3. CASE ~(3 \in ss /\ in.ind[3] = c) /\ ~(2 \in ss /\ in.ind[2] = c)
        BY <1>1, <2>2, <4>3 DEF Places
      <4> QED
        BY <4>1, <4>2, <4>3
    <3>2. (CHOOSE p \in ss : Top(p)) \in ss
      BY <3>1
    <3>3. b[c] = Table(in, z, new, CHOOSE p \in ss : Top(p))
      BY <2>2 DEF Stored, z
    <3> QED
      BY <1>6, <3>2, <3>3
  <2> QED
    BY <2>1, <2>2
<1>8. b = [c \in Blocks |-> b[c]]
  BY DEF Stored
<1> QED
  BY <1>4, <1>7, <1>8

\* The writes of a growing Falloc, complete or cut off, leave every pointer and
\* every data block of every file as it was: what is zeroed was free, and a
\* table written back keeps the words in use (fs_falloc.go:107-119, 262-271).
LEMMA GrowWrites ==
    ASSUME TypeOK, Fits, Sound, NEW f \in Holders, NEW size \in Nat,
           NEW new, NEW in, NEW zs, NEW ss, Growing(f, size, new, in, zs, ss),
           NEW b, b = Stored(in, Zeroed(in, zs), new, ss)
    PROVE  /\ b \in [Blocks -> Content]
           /\ \A g \in Holders : \A s \in SlotsOf(g) :
                 /\ Pointer(mem[g], b, s) = BlockIn(g, s)
                 /\ s >= 0 => b[BlockIn(g, s)] = blk[BlockIn(g, s)]
           /\ \A p \in ss : \A i \in 0 .. (PERIND - 1) :
                 Boundary(p) + i \in new =>
                    b[in.ind[p]][i] = FreeBit(Turn(new, Boundary(p) + i))
<1>0. /\ NumBlocks(size) > NumBlocks(mem[f].size) /\ NumBlocks(size) <= MaxBlocks
      /\ new = NewSlots(NumBlocks(mem[f].size), NumBlocks(size))
      /\ in = Grown(mem[f], size, new)
      /\ zs \subseteq NewTables(new) /\ \A p \in zs : Finds(new, -p)
      /\ ss \subseteq Touched(new) /\ (ss # {} => \A s \in new : Finds(new, s))
  BY DEF Growing
<1> USE <1>0
<1> DEFINE m == NumBlocks(mem[f].size)
           n == NumBlocks(size)
           z == Zeroed(in, zs)
<1>1. /\ f \in Files /\ Holders \subseteq Files
      /\ m \in Nat /\ n \in Nat /\ m < n /\ n <= MaxBlocks /\ MaxBlocks \in Nat
      /\ \A p \in Places : Boundary(p) \in Nat /\ -p < 0 /\ -(-p) = p
  <2>1. Holders \subseteq Files
    BY DEF TypeOK, Holders
  <2>2. f \in Files /\ m \in Nat /\ n \in Nat
    BY <2>1, NumBlocksNat DEF TypeOK, Inode
  <2>3. \A p \in Places : -p < 0 /\ -(-p) = p
    BY DEF Places
  <2> QED
    BY <2>1, <2>2, <2>3, BoundariesNat
<1>2. /\ new = Slots(n) \ Slots(m) /\ new \subseteq Int /\ IsFiniteSet(new)
      /\ SlotsOf(f) = Slots(m) /\ SlotsOf(f) \cap new = {}
  <2>1. new = Slots(n) \ Slots(m) /\ SlotsOf(f) = Slots(m)
    BY DEF NewSlots, SlotsOf
  <2>2. Slots(n) \subseteq Int /\ IsFiniteSet(Slots(n))
    BY <1>1, SlotsClosed, SlotsFinite
  <2> QED
    BY <2>1, <2>2, FS_Subset
<1>3. \A p \in Places : in.ind[p] = IF -p \in new THEN FreeBit(Turn(new, -p)) ELSE mem[f].ind[p]
  BY DEF Grown
<1>4. \A p \in zs : p \in Places /\ in.ind[p] \in Blocks \ dataBitmap
  <2>1. {-p : p \in zs} \subseteq new /\ \A p \in zs : p \in Places /\ -p \in new
    BY DEF NewTables
  <2>3. \A s \in {-p : p \in zs} : Finds(new, s)
    OBVIOUS
  <2>2. \A s \in {-p : p \in zs} : FreeBit(Turn(new, s)) \in Blocks \ dataBitmap
    BY <1>2, <2>1, <2>3, FreeBits
  <2> QED
    BY <1>3, <2>1, <2>2
<1>5. \A p \in Touched(new) : p \in Places /\ -p \in Slots(n)
  <2> SUFFICES ASSUME NEW p \in Touched(new) PROVE p \in Places /\ -p \in Slots(n)
    OBVIOUS
  <2>1. PICK v \in new : v >= 0 /\ Place(v) = p
    BY DEF Touched
  <2>2. p \in Places /\ p # 0
    BY DEF Touched, Places
  <2> QED
    BY <1>1, <1>2, <2>1, <2>2, SlotsClosed
<1>6. \A p \in ss : \/ -p \in new /\ in.ind[p] \in Blocks \ dataBitmap
                    \/ -p \in SlotsOf(f) /\ in.ind[p] = BlockIn(f, -p) /\ in.ind[p] \in dataBitmap
  <2> SUFFICES ASSUME NEW p \in ss
               PROVE  \/ -p \in new /\ in.ind[p] \in Blocks \ dataBitmap
                      \/ -p \in SlotsOf(f) /\ in.ind[p] = BlockIn(f, -p) /\ in.ind[p] \in dataBitmap
    OBVIOUS
  <2>1. p \in Places /\ -p \in Slots(n)
    BY <1>5
  <2>2. CASE -p \in new
    <3>1. \A s \in new : Finds(new, s)
      OBVIOUS
    <3>2. FreeBit(Turn(new, -p)) \in Blocks \ dataBitmap
      BY <1>2, <2>2, <3>1, FreeBits
    <3> QED
      BY <1>3, <2>1, <2>2, <3>2
  <2>3. CASE -p \notin new
    <3>1. -p \in SlotsOf(f) /\ in.ind[p] = mem[f].ind[p]
      BY <1>2, <1>3, <2>1, <2>3
    <3>2. BlockIn(f, -p) = mem[f].ind[p]
      BY <1>1, <2>1 DEF BlockIn, Pointer
    <3> QED
      BY <3>1, <3>2 DEF Sound
  <2> QED
    BY <2>2, <2>3
<1>7. \A p, q \in ss : in.ind[p] = in.ind[q] => p = q
  <2> SUFFICES ASSUME NEW p \in ss, NEW q \in ss, in.ind[p] = in.ind[q] PROVE p = q
    OBVIOUS
  <2>0. p \in Places /\ q \in Places /\ p \in Int /\ q \in Int
    BY <1>5 DEF Places
  <2>1. CASE -p \in new /\ -q \in new
    <3>1. -p = -q
      BY <1>2, <1>3, <2>0, <2>1, FreeBits
    <3> QED
      BY <2>0, <3>1
  <2>2. CASE -p \in SlotsOf(f) /\ -q \in SlotsOf(f)
    <3>0. -p \notin new /\ -q \notin new
      BY <1>2, <2>2
    <3>1. BlockIn(f, -p) = BlockIn(f, -q)
      BY <1>6, <3>0
    <3>2. -p = -q
      BY <2>2, <3>1 DEF Sound
    <3> QED
      BY <2>0, <3>2
  <2> QED
    BY <1>6, <2>1, <2>2
<1>8. \A c \in Blocks : (\A p \in zs : in.ind[p] # c) => z[c] = blk[c]
  BY DEF Zeroed
<1>9. \A p \in ss : b[in.ind[p]] = Table(in, z, new, p)
  <2> SUFFICES ASSUME NEW p \in ss PROVE b[in.ind[p]] = Table(in, z, new, p)
    OBVIOUS
  <2> DEFINE Top(q) == in.ind[q] = in.ind[p] /\ \A r \in ss : in.ind[r] = in.ind[p] => r <= q
  <2>1. in.ind[p] \in Blocks
    BY <1>6 DEF TypeOK
  <2>2. \A q \in ss : Top(q) => q = p
    BY <1>7
  <2>3. Top(p)
    BY <1>5, <1>7 DEF Places
  <2>4. (CHOOSE q \in ss : Top(q)) = p
    BY <2>2, <2>3
  <2> QED
    BY <2>1, <2>4 DEF Stored
<1>10. \A c \in Blocks : (\A p \in ss : in.ind[p] # c) => b[c] = z[c]
  BY DEF Stored
<1>11. \A p \in ss : \A i \in 0 .. (PERIND - 1) :
          b[in.ind[p]][i] = IF Boundary(p) + i \in new THEN FreeBit(Turn(new, Boundary(p) + i))
                                                       ELSE z[in.ind[p]][i]
  <2> SUFFICES ASSUME NEW p \in ss, NEW i \in 0 .. (PERIND - 1)
               PROVE  Table(in, z, new, p)[i] =
                         IF Boundary(p) + i \in new THEN FreeBit(Turn(new, Boundary(p) + i))
                                                    ELSE z[in.ind[p]][i]
    BY <1>9
  <2> HIDE DEF z
  <2> QED
    BY DEF Table
<1> HIDE DEF z, m, n
<1>12. ASSUME NEW g \in Holders, NEW s \in SlotsOf(g), s >= 0
       PROVE  b[BlockIn(g, s)] = blk[BlockIn(g, s)]
  <2>1. BlockIn(g, s) \in dataBitmap /\ BlockIn(g, s) \in Blocks
    BY DEF Sound, TypeOK
  <2>2. \A p \in zs : in.ind[p] # BlockIn(g, s)
    BY <1>4, <2>1
  <2>3. ASSUME NEW p \in ss, in.ind[p] = BlockIn(g, s) PROVE FALSE
    <3>1. -p \in SlotsOf(f) /\ BlockIn(f, -p) = BlockIn(g, s)
      BY <1>6, <2>1, <2>3
    <3>2. -p = s
      BY <3>1 DEF Sound
    <3> QED
      BY <1>1, <1>5, <1>12, <3>2 DEF Places
  <2> QED
    BY <1>8, <1>10, <2>1, <2>2, <2>3
<1>13. ASSUME NEW g \in Holders, NEW p \in Places, -p \in SlotsOf(g),
              NEW i \in 0 .. (PERIND - 1), Boundary(p) + i \in SlotsOf(g)
       PROVE  b[mem[g].ind[p]][i] = blk[mem[g].ind[p]][i]
  <2> DEFINE c == mem[g].ind[p]
  <2>1. BlockIn(g, -p) = c
    BY <1>1 DEF BlockIn, Pointer
  <2>2. c \in dataBitmap /\ c \in Blocks
    BY <1>13, <2>1 DEF Sound, TypeOK
  <2>3. z[c] = blk[c]
    BY <1>4, <1>8, <2>2
  <2>4. CASE \A q \in ss : in.ind[q] # c
    BY <1>10, <2>2, <2>3, <2>4
  <2>5. ASSUME NEW q \in ss, in.ind[q] = c PROVE b[c][i] = blk[c][i]
    <3>1. -q \in SlotsOf(f) /\ BlockIn(f, -q) = BlockIn(g, -p)
      BY <1>6, <2>1, <2>2, <2>5
    <3>2. f = g /\ -q = -p
      BY <1>13, <3>1 DEF Sound
    <3>3. q = p
      BY <1>5, <3>2 DEF Places
    <3>4. Boundary(p) + i \notin new
      BY <1>2, <1>13, <3>2
    <3> QED
      BY <1>11, <2>3, <2>5, <3>3, <3>4
  <2> QED
    BY <2>4, <2>5
<1>14. ASSUME NEW g \in Holders, NEW s \in SlotsOf(g)
       PROVE  Pointer(mem[g], b, s) = BlockIn(g, s)
  <2>0. g \in Files /\ NumBlocks(mem[g].size) \in 0 .. MaxBlocks
    BY <1>1, NumBlocksNat DEF TypeOK, Inode, Fits
  <2>1. CASE s < 0 \/ Place(s) = 0
    BY <2>1 DEF BlockIn, Pointer
  <2>2. CASE ~(s < 0) /\ Place(s) # 0
    <3>1. s \in 0 .. (NumBlocks(mem[g].size) - 1) /\ s >= 0
      BY <2>0, <2>2, SlotsMember DEF SlotsOf
    <3>2. -Place(s) \in SlotsOf(g)
      BY <2>0, <2>2, <3>1, SlotsClosed DEF SlotsOf
    <3>3. /\ Place(s) \in Places /\ Relative(s) \in 0 .. (PERIND - 1)
          /\ s = Boundary(Place(s)) + Relative(s)
      BY <1>1, <2>0, <2>2, <3>1, PlaceRelative
    <3>4. b[mem[g].ind[Place(s)]][Relative(s)] = blk[mem[g].ind[Place(s)]][Relative(s)]
      BY <1>13, <3>2, <3>3
    <3> QED
      BY <2>2, <3>4 DEF BlockIn, Pointer
  <2> QED
    BY <2>1, <2>2
<1>15. b \in [Blocks -> Content]
  BY <1>1, GrowType
<1> QED
  BY <1>11, <1>12, <1>14, <1>15

-----------------------------------------------------------------------------
(* Falloc keeps the invariant. *)

\* Whatever inode it is given, a Falloc that returns nil leaves a well-formed
\* bitmap, data region and inode, has set the size, and has touched no other
\* inode.  Unless it shrinks the file, the old blocks stay where they were.
LEMMA FallocType ==
    ASSUME TypeOK, Fits, NEW f \in Files, NEW size \in Nat, Falloc(f, size)
    PROVE  /\ dataBitmap' \subseteq Blocks /\ blk' \in [Blocks -> Content]
           /\ mem' \in [Files -> Inode]
           /\ \A g \in Files : NumBlocks(mem'[g].size) <= MaxBlocks
           /\ mem'[f].size = size
           /\ \A g \in Files : g # f => mem'[g] = mem[g]
           /\ Agrees(mem[f], mem'[f])
<1> DEFINE m == NumBlocks(mem[f].size)
           n == NumBlocks(size)
<1>1. /\ mem[f] \in Inode /\ m \in Nat /\ n \in Nat
      /\ \A g \in Files : NumBlocks(mem[g].size) \in 0 .. MaxBlocks
  <2>2. mem[f] \in Inode /\ m \in Nat /\ n \in Nat
    BY NumBlocksNat DEF TypeOK, Inode
  <2>3. \A g \in Files : NumBlocks(mem[g].size) \in 0 .. MaxBlocks
    BY NumBlocksNat, BoundariesNat DEF TypeOK, Inode, Fits
  <2> QED
    BY <2>2, <2>3
<1> HIDE DEF m, n
<1>2. CASE FallocSame(f, size) \/ FallocShrink(f, size)
  <2>1. /\ n <= m /\ mem' = [mem EXCEPT ![f].size = size] /\ blk' = blk
        /\ dataBitmap' \subseteq dataBitmap
    BY <1>1, <1>2 DEF FallocSame, FallocShrink, m, n
  <2>2. /\ mem' \in [Files -> Inode] /\ mem'[f].size = size
        /\ mem'[f].direct = mem[f].direct /\ mem'[f].ind = mem[f].ind
        /\ \A g \in Files : g # f => mem'[g] = mem[g]
    BY <1>1, <2>1 DEF TypeOK, Inode
  <2>3. \A g \in Files : NumBlocks(mem'[g].size) <= MaxBlocks
    BY <1>1, <2>1, <2>2, BoundariesNat DEF m, n
  <2>4. Agrees(mem[f], mem'[f])
    BY <2>2 DEF Agrees
  <2> QED
    BY <2>1, <2>2, <2>3, <2>4 DEF TypeOK
<1>3. CASE FallocGrow(f, size)
  <2> DEFINE new == NewSlots(m, n)
             in  == Grown(mem[f], size, new)
  <2>1. /\ n > m /\ n <= MaxBlocks /\ (\A s \in new : Finds(new, s))
        /\ mem' = [mem EXCEPT ![f] = in]
        /\ blk' = Stored(in, Zeroed(in, NewTables(new)), new, Touched(new))
        /\ dataBitmap' = dataBitmap \cup {FreeBit(Turn(new, s)) : s \in new}
    BY <1>3 DEF FallocGrow, m, n
  <2>2. Growing(f, size, new, in, NewTables(new), Touched(new))
    BY <2>1 DEF Growing, NewTables, m, n
  <2>3. new = Slots(n) \ Slots(m) /\ new \subseteq Int /\ IsFiniteSet(new)
    <3>1. Slots(n) \subseteq Int /\ IsFiniteSet(Slots(n))
      BY <1>1, SlotsClosed, SlotsFinite
    <3> QED
      BY <3>1, FS_Subset DEF NewSlots
  <2>4. \A s \in new : FreeBit(Turn(new, s)) \in Blocks
    BY <2>1, <2>3, FreeBits
  <2>5. /\ in.size = size
        /\ \A p \in Places :
              in.ind[p] = IF -p \in new THEN FreeBit(Turn(new, -p)) ELSE mem[f].ind[p]
        /\ \A i \in 0 .. (DIRECT - 1) :
              in.direct[i] = IF i \in new THEN FreeBit(Turn(new, i)) ELSE mem[f].direct[i]
    BY DEF Grown
  <2> HIDE DEF new, in
  <2>6. blk' \in [Blocks -> Content] /\ in \in Inode
    BY <2>1, <2>2, GrowType
  <2>7. /\ mem' \in [Files -> Inode] /\ mem'[f] = in
        /\ \A g \in Files : g # f => mem'[g] = mem[g]
    BY <2>1, <2>6 DEF TypeOK
  <2>8. \A g \in Files : NumBlocks(mem'[g].size) <= MaxBlocks
    BY <1>1, <2>1, <2>5, <2>7, BoundariesNat DEF n
  <2>9. Agrees(mem[f], mem'[f])
    <3>1. \A p \in Places : m > Boundary(p) => -p \in Slots(m)
      BY DEF Slots
    <3>2. \A i \in 0 .. (DIRECT - 1) : i < m => i \in Slots(m)
      BY <1>1, SlotsMember
    <3> QED
      BY <2>3, <2>5, <2>7, <3>1, <3>2 DEF Agrees, m
  <2>10. dataBitmap' \subseteq Blocks
    BY <2>1, <2>4 DEF TypeOK
  <2> QED
    BY <2>5, <2>6, <2>7, <2>8, <2>9, <2>10
<1> QED
  BY <1>2, <1>3 DEF Falloc

\* The slots a growing Falloc fills lead to the blocks it found free, the old
\* ones to the blocks they had, and no old data block is written.
LEMMA GrowPointers ==
    ASSUME TypeOK, Fits, Sound, NEW f \in Holders, NEW size \in Nat, FallocGrow(f, size),
           NEW new, new = NewSlots(NumBlocks(mem[f].size), NumBlocks(size))
    PROVE  /\ \A s \in new : FreeBit(Turn(new, s)) \in Blocks \ dataBitmap
           /\ \A s, t \in new : FreeBit(Turn(new, s)) = FreeBit(Turn(new, t)) => s = t
           /\ dataBitmap' = dataBitmap \cup {FreeBit(Turn(new, s)) : s \in new}
           /\ Slots(NumBlocks(size)) = SlotsOf(f) \cup new /\ SlotsOf(f) \cap new = {}
           /\ \A s \in new : Pointer(mem'[f], blk', s) = FreeBit(Turn(new, s))
           /\ \A g \in Holders : \A s \in SlotsOf(g) :
                 /\ Pointer(mem'[g], blk', s) = BlockIn(g, s)
                 /\ s >= 0 => blk'[BlockIn(g, s)] = blk[BlockIn(g, s)]
<1> DEFINE m == NumBlocks(mem[f].size)
           n == NumBlocks(size)
           in == Grown(mem[f], size, new)
<1>1. /\ f \in Files /\ Holders \subseteq Files /\ mem[f] \in Inode
      /\ m \in Nat /\ n \in Nat
      /\ \A g \in Files : NumBlocks(mem[g].size) \in 0 .. MaxBlocks
  <2>1. Holders \subseteq Files
    BY DEF TypeOK, Holders
  <2>2. f \in Files /\ mem[f] \in Inode /\ m \in Nat /\ n \in Nat
    BY <2>1, NumBlocksNat DEF TypeOK, Inode
  <2>3. \A g \in Files : NumBlocks(mem[g].size) \in 0 .. MaxBlocks
    BY NumBlocksNat, BoundariesNat DEF TypeOK, Inode, Fits
  <2> QED
    BY <2>1, <2>2, <2>3
<1> HIDE DEF m, n
<1>2. new = NewSlots(m, n)
  BY DEF m, n
<1>3. /\ n > m /\ n <= MaxBlocks /\ (\A s \in new : Finds(new, s))
      /\ mem' = [mem EXCEPT ![f] = in]
      /\ blk' = Stored(in, Zeroed(in, NewTables(new)), new, Touched(new))
      /\ dataBitmap' = dataBitmap \cup {FreeBit(Turn(new, s)) : s \in new}
  BY <1>2 DEF FallocGrow, m, n
<1>4. /\ new = Slots(n) \ Slots(m) /\ new \subseteq Int /\ IsFiniteSet(new)
      /\ SlotsOf(f) = Slots(m) /\ Slots(m) \subseteq Slots(n)
  <2>1. new = Slots(n) \ Slots(m) /\ SlotsOf(f) = Slots(m)
    BY <1>2 DEF NewSlots, SlotsOf, m
  <2>2. Slots(n) \subseteq Int /\ IsFiniteSet(Slots(n)) /\ Slots(m) \subseteq Slots(n)
    BY <1>1, <1>3, SlotsClosed, SlotsFinite
  <2> QED
    BY <2>1, <2>2, FS_Subset
<1>5. Growing(f, size, new, in, NewTables(new), Touched(new))
  BY <1>2, <1>3 DEF Growing, NewTables, m, n
<1>6. /\ \A s \in new : FreeBit(Turn(new, s)) \in Blocks \ dataBitmap
      /\ \A s, t \in new : FreeBit(Turn(new, s)) = FreeBit(Turn(new, t)) => s = t
  BY <1>3, <1>4, FreeBits
<1>7. /\ \A p \in Places :
            in.ind[p] = IF -p \in new THEN FreeBit(Turn(new, -p)) ELSE mem[f].ind[p]
      /\ \A i \in 0 .. (DIRECT - 1) :
            in.direct[i] = IF i \in new THEN FreeBit(Turn(new, i)) ELSE mem[f].direct[i]
  BY DEF Grown
<1> HIDE DEF in
<1>8. /\ \A g \in Holders : \A s \in SlotsOf(g) :
            /\ Pointer(mem[g], blk', s) = BlockIn(g, s)
            /\ s >= 0 => blk'[BlockIn(g, s)] = blk[BlockIn(g, s)]
      /\ \A p \in Touched(new) : \A i \in 0 .. (PERIND - 1) :
            Boundary(p) + i \in new =>
               blk'[in.ind[p]][i] = FreeBit(Turn(new, Boundary(p) + i))
  BY <1>3, <1>5, GrowWrites
<1>9. mem'[f] = in /\ \A g \in Files : g # f => mem'[g] = mem[g]
  BY <1>1, <1>3 DEF TypeOK
<1>10. ASSUME NEW s \in Slots(m) PROVE Pointer(in, blk', s) = BlockIn(f, s)
  <2>0. s \notin new /\ Pointer(mem[f], blk', s) = BlockIn(f, s)
    BY <1>4, <1>8
  <2>1. CASE s < 0
    <3>1. s \in {-3, -2, -1}
      BY <1>1, <2>1, SlotsMember
    <3>2. -s \in Places /\ -(-s) = s
      BY <3>1 DEF Places
    <3> QED
      BY <1>7, <2>0, <2>1, <3>2 DEF Pointer
  <2>2. CASE ~(s < 0)
    <3>1. s \in 0 .. (m - 1) /\ s \in 0 .. (MaxBlocks - 1) /\ s >= 0
      BY <1>1, <1>3, <2>2, SlotsMember, BoundariesNat
    <3>2. CASE Place(s) = 0
      BY <1>7, <2>0, <2>2, <3>1, <3>2, PlaceRelative DEF Pointer
    <3>3. CASE Place(s) # 0
      <4>1. Place(s) \in Places /\ -Place(s) \in Slots(m)
        BY <1>1, <3>1, <3>3, PlaceRelative, SlotsClosed DEF m
      <4>2. in.ind[Place(s)] = mem[f].ind[Place(s)]
        BY <1>4, <1>7, <4>1
      <4> QED
        BY <2>0, <2>2, <3>3, <4>2 DEF Pointer
    <3> QED
      BY <3>2, <3>3
  <2> QED
    BY <2>1, <2>2
<1>11. ASSUME NEW s \in new PROVE Pointer(in, blk', s) = FreeBit(Turn(new, s))
  <2>0. s \in Slots(n)
    BY <1>4
  <2>1. CASE s < 0
    <3>1. s \in {-3, -2, -1}
      BY <1>1, <2>0, <2>1, SlotsMember
    <3>2. -s \in Places /\ -(-s) = s
      BY <3>1 DEF Places
    <3> QED
      BY <1>7, <2>1, <3>2 DEF Pointer
  <2>2. CASE ~(s < 0)
    <3>1. s \in 0 .. (n - 1) /\ s \in 0 .. (MaxBlocks - 1) /\ s >= 0
      BY <1>1, <1>3, <2>0, <2>2, SlotsMember, BoundariesNat
    <3>2. CASE Place(s) = 0
      BY <1>7, <2>2, <3>1, <3>2, PlaceRelative DEF Pointer
    <3>3. CASE Place(s) # 0
      <4>1. /\ Place(s) \in Places /\ Relative(s) \in 0 .. (PERIND - 1)
            /\ s = Boundary(Place(s)) + Relative(s)
        BY <3>1, <3>3, PlaceRelative
      <4>2. Place(s) \in Touched(new)
        BY <3>1, <4>1 DEF Touched
      <4>3. blk'[in.ind[Place(s)]][Relative(s)] = FreeBit(Turn(new, s))
        BY <1>8, <4>1, <4>2
      <4> QED
        BY <2>2, <3>3, <4>3 DEF Pointer
    <3> QED
      BY <3>2, <3>3
  <2> QED
    BY <2>1, <2>2
<1>12. ASSUME NEW g \in Holders, NEW s \in SlotsOf(g)
       PROVE  Pointer(mem'[g], blk', s) = BlockIn(g, s)
  <2>1. CASE g # f
    BY <1>1, <1>8, <1>9, <2>1
  <2>2. CASE g = f
    BY <1>4, <1>9, <1>10, <2>2
  <2> QED
    BY <2>1, <2>2
<1>13. Slots(n) = SlotsOf(f) \cup new /\ SlotsOf(f) \cap new = {}
  BY <1>4
<1> QED
  BY <1>3, <1>6, <1>8, <1>9, <1>11, <1>12, <1>13 DEF n

\* After a Falloc that returns nil every block in use is marked and unshared.
LEMMA FallocSound ==
    ASSUME TypeOK, Fits, Sound, NEW f \in Holders, NEW size \in Nat, Falloc(f, size)
    PROVE  /\ \A g \in Holders : \A s \in Slots(NumBlocks(mem'[g].size)) :
                 Pointer(mem'[g], blk', s) \in dataBitmap'
           /\ \A g, h \in Holders :
                 \A s \in Slots(NumBlocks(mem'[g].size)), t \in Slots(NumBlocks(mem'[h].size)) :
                    Pointer(mem'[g], blk', s) = Pointer(mem'[h], blk', t) => g = h /\ s = t
<1> DEFINE m == NumBlocks(mem[f].size)
           n == NumBlocks(size)
<1>1. /\ f \in Files /\ Holders \subseteq Files /\ mem[f] \in Inode
      /\ m \in Nat /\ n \in Nat
      /\ \A g \in Files : NumBlocks(mem[g].size) \in 0 .. MaxBlocks
  <2>1. Holders \subseteq Files
    BY DEF TypeOK, Holders
  <2>2. f \in Files /\ mem[f] \in Inode /\ m \in Nat /\ n \in Nat
    BY <2>1, NumBlocksNat DEF TypeOK, Inode
  <2>3. \A g \in Files : NumBlocks(mem[g].size) \in 0 .. MaxBlocks
    BY NumBlocksNat, BoundariesNat DEF TypeOK, Inode, Fits
  <2> QED
    BY <2>1, <2>2, <2>3
<1>2. mem'[f].size = size /\ \A g \in Files : g # f => mem'[g] = mem[g]
  BY <1>1, FallocType
<1> HIDE DEF m, n
\* The two cases that only change the size.
<1>3. ASSUME n <= m, mem' = [mem EXCEPT ![f].size = size], blk' = blk, NEW g \in Holders
      PROVE  /\ Slots(NumBlocks(mem'[g].size)) \subseteq SlotsOf(g)
             /\ \A s : Pointer(mem'[g], blk', s) = BlockIn(g, s)
  <2>1. CASE g # f
    BY <1>1, <1>2, <1>3, <2>1 DEF BlockIn, SlotsOf
  <2>2. CASE g = f
    <3>1. Slots(n) \subseteq Slots(m)
      BY <1>1, <1>3, SlotsClosed
    <3>2. mem'[f].direct = mem[f].direct /\ mem'[f].ind = mem[f].ind
      BY <1>1, <1>3 DEF TypeOK, Inode
    <3>3. \A s : Pointer(mem'[g], blk', s) = BlockIn(g, s)
      BY <1>3, <2>2, <3>2 DEF BlockIn, Pointer
    <3> QED
      BY <1>2, <2>2, <3>1, <3>3 DEF SlotsOf, m, n
  <2> QED
    BY <2>1, <2>2
<1>4. CASE FallocSame(f, size)
  <2>1. n <= m /\ mem' = [mem EXCEPT ![f].size = size] /\ blk' = blk /\ dataBitmap' = dataBitmap
    BY <1>1, <1>4 DEF FallocSame, m, n
  <2>2. \A g \in Holders : /\ Slots(NumBlocks(mem'[g].size)) \subseteq SlotsOf(g)
                           /\ \A s : Pointer(mem'[g], blk', s) = BlockIn(g, s)
    BY <1>3, <2>1
  <2> QED
    BY <2>1, <2>2 DEF Sound
<1>5. CASE FallocShrink(f, size)
  <2>1. n <= m /\ mem' = [mem EXCEPT ![f].size = size] /\ blk' = blk
    BY <1>1, <1>5 DEF FallocShrink, m, n
  <2>2. dataBitmap' = dataBitmap \ {BlockIn(f, s) : s \in Slots(m) \ Slots(n)}
    BY <1>5 DEF FallocShrink, NewSlots, BlockIn, m, n
  <2>3. \A g \in Holders : /\ Slots(NumBlocks(mem'[g].size)) \subseteq SlotsOf(g)
                           /\ \A s : Pointer(mem'[g], blk', s) = BlockIn(g, s)
    BY <1>3, <2>1
  <2>4. ASSUME NEW g \in Holders, NEW s \in Slots(NumBlocks(mem'[g].size))
        PROVE  BlockIn(g, s) \in dataBitmap'
    <3>1. s \in SlotsOf(g) /\ BlockIn(g, s) \in dataBitmap
      BY <2>3 DEF Sound
    <3>2. ASSUME NEW t \in Slots(m) \ Slots(n), BlockIn(g, s) = BlockIn(f, t) PROVE FALSE
      <4>1. t \in SlotsOf(f)
        BY DEF SlotsOf, m
      <4>2. g = f /\ s = t
        BY <3>1, <3>2, <4>1 DEF Sound
      <4> QED
        BY <1>2, <4>2 DEF n
    <3> QED
      BY <2>2, <3>1, <3>2
  <2> QED
    BY <2>3, <2>4 DEF Sound
<1>6. CASE FallocGrow(f, size)
  <2> DEFINE new == NewSlots(m, n)
  <2>0. new = NewSlots(NumBlocks(mem[f].size), NumBlocks(size))
    BY DEF m, n
  <2> HIDE DEF new
  <2>1. /\ \A s \in new : FreeBit(Turn(new, s)) \in Blocks \ dataBitmap
        /\ \A s, t \in new : FreeBit(Turn(new, s)) = FreeBit(Turn(new, t)) => s = t
        /\ dataBitmap' = dataBitmap \cup {FreeBit(Turn(new, s)) : s \in new}
        /\ Slots(n) = SlotsOf(f) \cup new
        /\ \A s \in new : Pointer(mem'[f], blk', s) = FreeBit(Turn(new, s))
        /\ \A g \in Holders : \A s \in SlotsOf(g) : Pointer(mem'[g], blk', s) = BlockIn(g, s)
    BY <1>6, <2>0, GrowPointers DEF n
  <2>2. \A g \in Holders : \A s \in Slots(NumBlocks(mem'[g].size)) :
            \/ s \in SlotsOf(g) /\ Pointer(mem'[g], blk', s) = BlockIn(g, s)
            \/ g = f /\ s \in new /\ Pointer(mem'[g], blk', s) = FreeBit(Turn(new, s))
    <3> SUFFICES ASSUME NEW g \in Holders, NEW s \in Slots(NumBlocks(mem'[g].size))
                 PROVE  \/ s \in SlotsOf(g) /\ Pointer(mem'[g], blk', s) = BlockIn(g, s)
                        \/ g = f /\ s \in new /\ Pointer(mem'[g], blk', s) = FreeBit(Turn(new, s))
      OBVIOUS
    <3>1. CASE g # f
      BY <1>1, <1>2, <2>1, <3>1 DEF SlotsOf
    <3>2. CASE g = f
      BY <1>2, <2>1, <3>2 DEF n
    <3> QED
      BY <3>1, <3>2
  <2>3. \A g \in Holders : \A s \in Slots(NumBlocks(mem'[g].size)) :
            Pointer(mem'[g], blk', s) \in dataBitmap'
    BY <2>1, <2>2 DEF Sound
  <2>4. ASSUME NEW g \in Holders, NEW h \in Holders,
               NEW s \in Slots(NumBlocks(mem'[g].size)), NEW t \in Slots(NumBlocks(mem'[h].size)),
               Pointer(mem'[g], blk', s) = Pointer(mem'[h], blk', t)
        PROVE  g = h /\ s = t
    BY <2>1, <2>2, <2>4 DEF Sound
  <2> QED
    BY <2>3, <2>4
<1> QED
  BY <1>4, <1>5, <1>6 DEF Falloc

\* What a Falloc that returns nil does to the blocks in use: a slot the file
\* keeps leads where it led, to the same data; a bit that is new belongs to a
\* slot that is new; and a slot given up has its bit cleared.
LEMMA FallocExact ==
    ASSUME TypeOK, Fits, Sound, NEW f \in Holders, NEW size \in Nat, Falloc(f, size)
    PROVE  /\ \A g \in Holders : \A s \in SlotsOf(g) :
                 s \in Slots(NumBlocks(mem'[g].size)) =>
                    /\ Pointer(mem'[g], blk', s) = BlockIn(g, s)
                    /\ s >= 0 => blk'[BlockIn(g, s)] = blk[BlockIn(g, s)]
           /\ \A c \in dataBitmap' \ dataBitmap :
                 \E s \in Slots(NumBlocks(mem'[f].size)) : Pointer(mem'[f], blk', s) = c
           /\ \A s \in SlotsOf(f) :
                 s \in Slots(NumBlocks(mem'[f].size)) \/ BlockIn(f, s) \notin dataBitmap'
<1> DEFINE m == NumBlocks(mem[f].size)
           n == NumBlocks(size)
<1>1. /\ f \in Files /\ Holders \subseteq Files /\ mem[f] \in Inode
      /\ m \in Nat /\ n \in Nat
  <2>1. Holders \subseteq Files
    BY DEF TypeOK, Holders
  <2> QED
    BY <2>1, NumBlocksNat DEF TypeOK, Inode
<1>2. mem'[f].size = size /\ \A g \in Files : g # f => mem'[g] = mem[g]
  BY <1>1, FallocType
<1>3. SlotsOf(f) = Slots(m)
  BY DEF SlotsOf
<1> HIDE DEF m, n
<1>4. CASE FallocSame(f, size) \/ FallocShrink(f, size)
  <2>1. /\ mem' = [mem EXCEPT ![f].size = size] /\ blk' = blk
        /\ dataBitmap' \subseteq dataBitmap
    BY <1>4 DEF FallocSame, FallocShrink
  <2>2. ASSUME NEW g \in Holders, NEW s PROVE Pointer(mem'[g], blk', s) = BlockIn(g, s)
    <3>1. mem'[g].direct = mem[g].direct /\ mem'[g].ind = mem[g].ind
      BY <1>1, <2>1 DEF TypeOK, Inode
    <3> QED
      BY <2>1, <3>1 DEF BlockIn, Pointer
  <2>3. ASSUME NEW s \in SlotsOf(f) PROVE s \in Slots(n) \/ BlockIn(f, s) \notin dataBitmap'
    <3>1. CASE FallocSame(f, size)
      BY <1>3, <3>1 DEF FallocSame, m, n
    <3>2. CASE FallocShrink(f, size)
      <4>1. dataBitmap' = dataBitmap \ {BlockIn(f, t) : t \in Slots(m) \ Slots(n)}
        BY <3>2 DEF FallocShrink, NewSlots, BlockIn, m, n
      <4> QED
        BY <1>3, <4>1
    <3> QED
      BY <1>4, <3>1, <3>2
  <2> QED
    BY <1>2, <2>1, <2>2, <2>3 DEF n
<1>5. CASE FallocGrow(f, size)
  <2> DEFINE new == NewSlots(m, n)
  <2>0. new = NewSlots(NumBlocks(mem[f].size), NumBlocks(size))
    BY DEF m, n
  <2> HIDE DEF new
  <2>1. /\ dataBitmap' = dataBitmap \cup {FreeBit(Turn(new, s)) : s \in new}
        /\ Slots(n) = SlotsOf(f) \cup new
        /\ \A s \in new : Pointer(mem'[f], blk', s) = FreeBit(Turn(new, s))
        /\ \A g \in Holders : \A s \in SlotsOf(g) :
              /\ Pointer(mem'[g], blk', s) = BlockIn(g, s)
              /\ s >= 0 => blk'[BlockIn(g, s)] = blk[BlockIn(g, s)]
    BY <1>5, <2>0, GrowPointers DEF n
  <2>2. NumBlocks(mem'[f].size) = n
    BY <1>2 DEF n
  <2>3. ASSUME NEW c \in dataBitmap' \ dataBitmap
        PROVE  \E s \in Slots(n) : Pointer(mem'[f], blk', s) = c
    BY <2>1
  <2> QED
    BY <2>1, <2>2, <2>3
<1> QED
  BY <1>4, <1>5 DEF Falloc

-----------------------------------------------------------------------------
(* Each action keeps the invariant. *)

\* Inodes that agree lead to the same blocks.
LEMMA AgreesPointer ==
    ASSUME NEW a \in Inode, NEW b \in Inode, Agrees(a, b), NumBlocks(a.size) <= MaxBlocks,
           NEW s \in Slots(NumBlocks(a.size)), NEW r
    PROVE  Pointer(a, r, s) = Pointer(b, r, s)
<1> DEFINE nb == NumBlocks(a.size)
<1>1. nb \in Nat /\ nb <= MaxBlocks /\ MaxBlocks \in Nat
  BY NumBlocksNat, BoundariesNat DEF Inode
<1>2. \A p \in Places : -p \in Slots(nb) => a.ind[p] = b.ind[p]
  <2> SUFFICES ASSUME NEW p \in Places, -p \in Slots(nb) PROVE nb > Boundary(p)
    BY DEF Agrees
  <2>1. -p < 0 /\ -(-p) = p
    BY DEF Places
  <2> QED
    BY <1>1, <2>1, SlotsMember
<1> HIDE DEF nb
<1>3. CASE s < 0
  <2>1. s \in {-3, -2, -1}
    BY <1>1, <1>3, SlotsMember DEF nb
  <2>2. -s \in Places /\ -(-s) = s
    BY <2>1 DEF Places
  <2> QED
    BY <1>2, <1>3, <2>2 DEF Pointer, nb
<1>4. CASE ~(s < 0)
  <2>1. s \in 0 .. (nb - 1) /\ s \in 0 .. (MaxBlocks - 1) /\ s >= 0 /\ s < nb
    BY <1>1, <1>4, SlotsMember DEF nb
  <2>2. CASE Place(s) = 0
    BY <1>4, <2>1, <2>2, PlaceRelative DEF Pointer, Agrees, nb
  <2>3. CASE Place(s) # 0
    <3>1. Place(s) \in Places /\ -Place(s) \in Slots(nb)
      BY <1>1, <2>1, <2>3, PlaceRelative, SlotsClosed DEF nb
    <3> QED
      BY <1>2, <1>4, <2>3, <3>1 DEF Pointer
  <2> QED
    BY <2>2, <2>3
<1> QED
  BY <1>3, <1>4

\* b is the data region with at most the block of virtual block v of f changed.
Writes(f, v, b) ==
    /\ v \in SlotsOf(f) /\ v >= 0
    /\ \A c \in Blocks : c # BlockIn(f, v) => b[c] = blk[c]

\* Writing a data block of one file moves no block of any file: the block
\* written is no pointer table (fs_fd.go:120-136, fs_dir.go:112-120).
LEMMA WriteKeepsPointers ==
    ASSUME TypeOK, Fits, Sound, NEW f \in Holders, NEW v, NEW b, Writes(f, v, b),
           NEW g \in Holders, NEW s \in SlotsOf(g)
    PROVE  Pointer(mem[g], b, s) = BlockIn(g, s)
<1>1. g \in Files /\ NumBlocks(mem[g].size) \in 0 .. MaxBlocks /\ NumBlocks(mem[g].size) \in Nat
  <2>1. g \in Files
    BY DEF TypeOK, Holders
  <2> QED
    BY <2>1, NumBlocksNat, BoundariesNat DEF TypeOK, Inode, Fits
<1>2. CASE s < 0 \/ Place(s) = 0
  BY <1>2 DEF BlockIn, Pointer
<1>3. CASE ~(s < 0) /\ Place(s) # 0
  <2>1. s \in 0 .. (NumBlocks(mem[g].size) - 1) /\ s \in 0 .. (MaxBlocks - 1) /\ s >= 0
    BY <1>1, <1>3, SlotsMember, BoundariesNat DEF SlotsOf
  <2>2. -Place(s) \in SlotsOf(g) /\ Place(s) \in Places
    BY <1>1, <1>3, <2>1, SlotsClosed, PlaceRelative DEF SlotsOf
  <2>3. -Place(s) < 0 /\ -(-Place(s)) = Place(s) /\ -Place(s) # v
    BY <2>2 DEF Places, Writes
  <2>4. mem[g].ind[Place(s)] = BlockIn(g, -Place(s))
    BY <2>3 DEF BlockIn, Pointer
  <2>5. BlockIn(g, -Place(s)) # BlockIn(f, v)
    BY <2>2, <2>3 DEF Sound, Writes
  <2>6. b[mem[g].ind[Place(s)]] = blk[mem[g].ind[Place(s)]]
    BY <1>1, <2>2, <2>4, <2>5 DEF TypeOK, Inode, Writes
  <2> QED
    BY <1>3, <2>6 DEF BlockIn, Pointer
<1> QED
  BY <1>2, <1>3

\* A new inode has no blocks.
LEMMA EmptyInodeType == EmptyInode \in Inode /\ EmptyInode.size = 0
BY GeometryAssumption DEF EmptyInode, Inode, Blocks, Places

\* Creating a file.
LEMMA CreateIInv ==
    ASSUME IInv, NEW f \in Files, Create(f)
    PROVE  IInv'
<1> USE DEF IInv
<1>1. /\ stage = "idle" /\ cur = NoFile /\ f \notin linked
      /\ linked' = linked \cup {f}
      /\ mem' = [mem EXCEPT ![f] = EmptyInode]
      /\ disk' = [disk EXCEPT ![f] = EmptyInode]
      /\ UNCHANGED <<dataBitmap, blk, cur, stage, next, history>>
  BY DEF Create, Idle, TypeOK
<1>2. TypeOK'
  BY <1>1, EmptyInodeType DEF TypeOK
<1>3. /\ mem'[f] = EmptyInode /\ disk'[f] = EmptyInode
      /\ \A g \in Files : g # f => mem'[g] = mem[g] /\ disk'[g] = disk[g]
  BY <1>1 DEF TypeOK
<1>4. NumBlocks(EmptyInode.size) = 0
  BY EmptyInodeType, NumBlocksNat
<1>5. Fits'
  BY <1>3, <1>4, BoundariesNat DEF Fits
<1>6. InOperation'
  BY <1>1 DEF InOperation
<1>7. ASSUME history # "torn" PROVE Sound' /\ Coherent'
  <2>1. Holders = linked /\ Holders' = linked \cup {f} /\ linked \subseteq Files
    BY <1>1 DEF Holders, TypeOK
  <2>2. SlotsOf(f)' = {}
    BY <1>3, <1>4, SlotsClosed DEF SlotsOf
  <2>3. ASSUME NEW g \in linked PROVE SlotsOf(g)' = SlotsOf(g) /\ \A s : BlockIn(g, s)' = BlockIn(g, s)
    BY <1>1, <1>3, <2>1, <2>3 DEF SlotsOf, BlockIn
  <2>4. ASSUME NEW g \in Holders', NEW s \in SlotsOf(g)'
        PROVE  g \in Holders /\ s \in SlotsOf(g) /\ BlockIn(g, s)' = BlockIn(g, s)
    BY <2>1, <2>2, <2>3
  <2>5. Sound'
    BY <1>1, <1>7, <2>4 DEF Sound
  <2>6. Coherent'
    BY <1>1, <1>3, <1>7, <2>1 DEF Coherent
  <2> QED
    BY <2>5, <2>6
<1> QED
  BY <1>1, <1>2, <1>5, <1>6, <1>7

\* The truncation that begins writeFile.
LEMMA ResizeIInv ==
    ASSUME IInv, NEW f \in Files, NEW size \in Sizes, Resize(f, size)
    PROVE  IInv'
<1> USE DEF IInv
<1>1. /\ stage = "idle" /\ f \in linked /\ size \in Nat /\ Falloc(f, size)
      /\ cur' = f /\ stage' = "resized" /\ next' = 0
      /\ UNCHANGED <<disk, linked, history>>
  BY DataAssumption DEF Resize, Idle
<1>2. /\ dataBitmap' \subseteq Blocks /\ blk' \in [Blocks -> Content]
      /\ mem' \in [Files -> Inode]
      /\ \A g \in Files : NumBlocks(mem'[g].size) <= MaxBlocks
      /\ \A g \in Files : g # f => mem'[g] = mem[g]
      /\ Agrees(mem[f], mem'[f])
  BY <1>1, FallocType
<1>3. TypeOK'
  BY <1>1, <1>2, FilesAssumption DEF TypeOK
<1>4. Fits'
  BY <1>1, <1>2 DEF Fits
<1>5. InOperation'
  BY <1>1 DEF InOperation
<1>6. ASSUME history # "torn" PROVE Sound' /\ Coherent'
  <2>1. Holders' = Holders /\ f \in Holders
    BY <1>1 DEF Holders
  <2>2. Sound'
    BY <1>1, <1>6, <2>1, FallocSound DEF Sound, SlotsOf, BlockIn
  <2>3. \A g \in linked : g \in Files /\ mem[g] = disk[g]
    BY <1>1, <1>6, FilesAssumption DEF Coherent, TypeOK
  <2>4. Agrees(disk'[f], mem'[f])
    BY <1>1, <1>2, <2>3
  <2>5. Coherent'
    BY <1>1, <1>2, <2>3, <2>4 DEF Coherent
  <2> QED
    BY <2>2, <2>5
<1> QED
  BY <1>1, <1>3, <1>4, <1>5, <1>6

\* One block of the file being written.
LEMMA WriteDataIInv ==
    ASSUME IInv, NEW words \in Payload, WriteData(words)
    PROVE  IInv'
<1> USE DEF IInv
<1>1. /\ stage = "resized" /\ next < NumBlocks(mem[cur].size)
      /\ BlockIn(cur, next) \in Blocks
      /\ blk' = [blk EXCEPT ![BlockIn(cur, next)] = words]
      /\ next' = next + 1 /\ words \in Content
      /\ UNCHANGED <<dataBitmap, disk, mem, linked, cur, stage, history>>
  BY DataAssumption DEF WriteData, BlockIn
<1>2. TypeOK'
  BY <1>1 DEF TypeOK
<1>3. Fits' /\ InOperation' /\ cur \in linked
  BY <1>1 DEF Fits, InOperation
<1>4. ASSUME history # "torn" PROVE Sound' /\ Coherent'
  <2>1. Holders' = Holders /\ cur \in Holders /\ cur \in Files
    BY <1>1, <1>3 DEF Holders, TypeOK
  <2>2. next \in SlotsOf(cur) /\ next >= 0
    <3>1. NumBlocks(mem[cur].size) \in Nat /\ next \in Nat
      BY <2>1, NumBlocksNat DEF TypeOK, Inode
    <3> QED
      BY <1>1, <3>1, SlotsMember DEF SlotsOf
  <2>3. \A g \in Holders : /\ SlotsOf(g)' = SlotsOf(g)
                           /\ \A s \in SlotsOf(g) : BlockIn(g, s)' = BlockIn(g, s)
    <3>1. TypeOK /\ Fits /\ Sound /\ Writes(cur, next, blk')
      BY <1>1, <1>4, <2>2 DEF Writes, TypeOK
    <3>2. \A g \in Holders : \A s \in SlotsOf(g) : Pointer(mem[g], blk', s) = BlockIn(g, s)
      BY <2>1, <3>1, WriteKeepsPointers
    <3> QED
      BY <1>1, <3>2 DEF SlotsOf, BlockIn
  <2>4. Sound'
    BY <1>1, <1>4, <2>1, <2>3 DEF Sound
  <2>5. Coherent'
    BY <1>1, <1>4 DEF Coherent
  <2> QED
    BY <2>4, <2>5
<1> QED
  BY <1>1, <1>2, <1>3, <1>4

\* The inode written to disk, at the end of writeFile and inside addDentry.
LEMMA WriteInodeIInv ==
    ASSUME IInv, WriteInode \/ WriteDirInode
    PROVE  IInv'
<1> USE DEF IInv
<1>1. /\ stage \in {"resized", "grown"}
      /\ disk' = [disk EXCEPT ![cur] = mem[cur]]
      /\ stage' = "idle" /\ cur' = NoFile /\ next' = 0
      /\ UNCHANGED <<dataBitmap, blk, mem, linked, history>>
  BY DEF WriteInode, WriteDirInode, Done
<1>2. cur \in linked /\ cur \in Files
  BY <1>1 DEF InOperation, TypeOK
<1>3. TypeOK'
  BY <1>1, <1>2 DEF TypeOK
<1>4. disk'[cur] = mem[cur] /\ \A g \in Files : g # cur => disk'[g] = disk[g]
  BY <1>1, <1>2 DEF TypeOK
<1>5. Fits'
  BY <1>1, <1>4 DEF Fits
<1>6. InOperation'
  BY <1>1 DEF InOperation
<1>7. ASSUME history # "torn" PROVE Sound' /\ Coherent'
  <2>1. Holders' = Holders
    BY <1>1 DEF Holders
  <2>2. Sound'
    BY <1>1, <1>7, <2>1 DEF Sound, SlotsOf, BlockIn
  <2>3. \A g \in linked : mem[g] = disk'[g]
    BY <1>4, <1>7 DEF Coherent, TypeOK
  <2>4. Coherent'
    BY <1>1, <2>3 DEF Coherent
  <2> QED
    BY <2>2, <2>4
<1> QED
  BY <1>1, <1>3, <1>5, <1>6, <1>7

\* A directory that grows by one block.
LEMMA GrowDirIInv ==
    ASSUME IInv, NEW f \in Files, GrowDir(f)
    PROVE  IInv'
<1> USE DEF IInv
<1> DEFINE size == mem[f].size + BLOCKSIZE
<1>1. /\ stage = "idle" /\ f \in linked /\ size \in Nat /\ Falloc(f, size)
      /\ cur' = f /\ stage' = "grown" /\ next' = 0
      /\ UNCHANGED <<disk, linked, history>>
  <2>1. size \in Nat
    BY GeometryAssumption DEF TypeOK, Inode
  <2> QED
    BY <2>1 DEF GrowDir, Idle, Falloc
<1> HIDE DEF size
<1>2. /\ dataBitmap' \subseteq Blocks /\ blk' \in [Blocks -> Content]
      /\ mem' \in [Files -> Inode]
      /\ \A g \in Files : NumBlocks(mem'[g].size) <= MaxBlocks
      /\ \A g \in Files : g # f => mem'[g] = mem[g]
      /\ Agrees(mem[f], mem'[f])
  BY <1>1, FallocType
<1>3. TypeOK'
  BY <1>1, <1>2, FilesAssumption DEF TypeOK
<1>4. Fits'
  BY <1>1, <1>2 DEF Fits
<1>5. InOperation'
  BY <1>1 DEF InOperation
<1>6. ASSUME history # "torn" PROVE Sound' /\ Coherent'
  <2>1. Holders' = Holders /\ f \in Holders
    BY <1>1 DEF Holders
  <2>2. Sound'
    BY <1>1, <1>6, <2>1, FallocSound DEF Sound, SlotsOf, BlockIn
  <2>3. \A g \in linked : g \in Files /\ mem[g] = disk[g]
    BY <1>1, <1>6, FilesAssumption DEF Coherent, TypeOK
  <2>4. Agrees(disk'[f], mem'[f])
    BY <1>1, <1>2, <2>3
  <2>5. Coherent'
    BY <1>1, <1>2, <2>3, <2>4 DEF Coherent
  <2> QED
    BY <2>2, <2>5
<1> QED
  BY <1>1, <1>3, <1>4, <1>5, <1>6

\* One block of a directory.
LEMMA WriteDirIInv ==
    ASSUME IInv, NEW f \in Files, NEW words \in Payload,
           NEW v \in 0 .. (MaxBlocks - 1), WriteDir(f, v, words)
    PROVE  IInv'
<1> USE DEF IInv
<1>1. /\ stage = "idle" /\ f \in linked
      /\ v \in 0 .. (NumBlocks(mem[f].size) - 1) /\ BlockIn(f, v) \in Blocks
      /\ blk' = [blk EXCEPT ![BlockIn(f, v)] = words] /\ words \in Content
      /\ UNCHANGED <<dataBitmap, disk, mem, linked, cur, stage, next, history>>
  BY DataAssumption DEF WriteDir, Idle, BlockIn
<1>2. TypeOK'
  BY <1>1 DEF TypeOK
<1>3. Fits' /\ InOperation'
  BY <1>1 DEF Fits, InOperation
<1>4. ASSUME history # "torn" PROVE Sound' /\ Coherent'
  <2>1. Holders' = Holders /\ f \in Holders
    BY <1>1 DEF Holders
  <2>2. v \in SlotsOf(f) /\ v >= 0
    <3>1. NumBlocks(mem[f].size) \in Nat
      BY NumBlocksNat DEF TypeOK, Inode
    <3> QED
      BY <1>1, <3>1, SlotsMember DEF SlotsOf
  <2>3. \A g \in Holders : /\ SlotsOf(g)' = SlotsOf(g)
                           /\ \A s \in SlotsOf(g) : BlockIn(g, s)' = BlockIn(g, s)
    <3>1. TypeOK /\ Fits /\ Sound /\ Writes(f, v, blk')
      BY <1>1, <1>4, <2>2 DEF Writes, TypeOK
    <3>2. \A g \in Holders : \A s \in SlotsOf(g) : Pointer(mem[g], blk', s) = BlockIn(g, s)
      BY <2>1, <3>1, WriteKeepsPointers
    <3> QED
      BY <1>1, <3>2 DEF SlotsOf, BlockIn
  <2>4. Sound'
    BY <1>1, <1>4, <2>1, <2>3 DEF Sound
  <2>5. Coherent'
    BY <1>1, <1>4 DEF Coherent
  <2> QED
    BY <2>4, <2>5
<1> QED
  BY <1>1, <1>2, <1>3, <1>4

\* The name taken away.
LEMMA UnlinkIInv ==
    ASSUME IInv, NEW f \in Files, Unlink(f)
    PROVE  IInv'
<1> USE DEF IInv
<1>1. /\ stage = "idle" /\ f \in linked /\ linked' = linked \ {f}
      /\ cur' = f /\ stage' = "unlinked" /\ next' = 0
      /\ UNCHANGED <<dataBitmap, blk, disk, mem, history>>
  BY DEF Unlink, Idle
<1>2. TypeOK'
  BY <1>1, FilesAssumption DEF TypeOK
<1>3. Fits' /\ InOperation'
  BY <1>1 DEF Fits, InOperation
<1>4. ASSUME history # "torn" PROVE Sound' /\ Coherent'
  <2>1. Holders' = Holders
    BY <1>1 DEF Holders
  <2>2. Sound'
    BY <1>1, <1>4, <2>1 DEF Sound, SlotsOf, BlockIn
  <2>3. \A g \in linked : mem[g] = disk[g]
    BY <1>1, <1>4, FilesAssumption DEF Coherent, TypeOK
  <2>4. Coherent'
    BY <1>1, <2>3 DEF Coherent
  <2> QED
    BY <2>2, <2>4
<1> QED
  BY <1>1, <1>2, <1>3, <1>4

\* The blocks given back.
LEMMA FreeInodeIInv ==
    ASSUME IInv, FreeInode
    PROVE  IInv'
<1> USE DEF IInv
<1>1. /\ stage = "unlinked" /\ Falloc(cur, 0) /\ cur \in Files /\ cur \notin linked
      /\ stage' = "idle" /\ cur' = NoFile /\ next' = 0
      /\ UNCHANGED <<disk, linked, history>>
  BY DEF FreeInode, Done, TypeOK, InOperation
<1>2. /\ dataBitmap' \subseteq Blocks /\ blk' \in [Blocks -> Content]
      /\ mem' \in [Files -> Inode]
      /\ \A g \in Files : NumBlocks(mem'[g].size) <= MaxBlocks
      /\ \A g \in Files : g # cur => mem'[g] = mem[g]
  BY <1>1, FallocType
<1>3. TypeOK'
  BY <1>1, <1>2 DEF TypeOK
<1>4. Fits' /\ InOperation'
  BY <1>1, <1>2 DEF Fits, InOperation
<1>5. ASSUME history # "torn" PROVE Sound' /\ Coherent'
  <2>1. Holders' \subseteq Holders /\ cur \in Holders
    BY <1>1 DEF Holders
  <2>2. /\ \A g \in Holders : \A s \in Slots(NumBlocks(mem'[g].size)) :
              Pointer(mem'[g], blk', s) \in dataBitmap'
        /\ \A g, h \in Holders :
              \A s \in Slots(NumBlocks(mem'[g].size)), t \in Slots(NumBlocks(mem'[h].size)) :
                 Pointer(mem'[g], blk', s) = Pointer(mem'[h], blk', t) => g = h /\ s = t
    BY <1>1, <1>5, <2>1, FallocSound
  <2>3. Sound'
    BY <2>1, <2>2 DEF Sound, SlotsOf, BlockIn
  <2>4. \A g \in linked : mem'[g] = disk[g]
    BY <1>1, <1>2, <1>5 DEF Coherent, TypeOK
  <2>5. Coherent'
    BY <1>1, <2>4 DEF Coherent
  <2> QED
    BY <2>3, <2>5
<1> QED
  BY <1>1, <1>3, <1>4, <1>5

\* A restart that finds on disk what memory held, as far as the disk reaches.
LEMMA RestartIInv ==
    ASSUME IInv, Restart, dataBitmap' = dataBitmap, blk' \in [Blocks -> Content],
           history' \in {"intact", "leaky", "torn"},
           history' # "torn" =>
              /\ history # "torn"
              /\ \A g \in linked :
                    /\ NumBlocks(disk[g].size) <= NumBlocks(mem[g].size)
                    /\ Agrees(disk[g], mem[g])
                    /\ \A s \in SlotsOf(g) : Pointer(mem[g], blk', s) = BlockIn(g, s)
    PROVE  IInv'
<1> USE DEF IInv
<1>1. mem' = disk /\ disk' = disk /\ linked' = linked /\ stage' = "idle" /\ cur' = NoFile /\ next' = 0
  BY DEF Restart, Done
<1>2. TypeOK'
  BY <1>1 DEF TypeOK
<1>3. Fits' /\ InOperation'
  BY <1>1 DEF Fits, InOperation
<1>4. ASSUME history' # "torn" PROVE Sound' /\ Coherent'
  <2>1. Holders' = linked /\ linked \subseteq Holders /\ linked \subseteq Files
    BY <1>1 DEF Holders, TypeOK
  <2>2. ASSUME NEW g \in linked, NEW s \in SlotsOf(g)'
        PROVE  s \in SlotsOf(g) /\ BlockIn(g, s)' = BlockIn(g, s)
    <3>1. /\ disk[g] \in Inode /\ mem[g] \in Inode
          /\ NumBlocks(disk[g].size) \in Nat /\ NumBlocks(mem[g].size) \in Nat
          /\ NumBlocks(disk[g].size) <= MaxBlocks
      BY <2>1, NumBlocksNat DEF TypeOK, Inode, Fits
    <3>2. s \in Slots(NumBlocks(disk[g].size))
      BY <1>1 DEF SlotsOf
    <3>3. s \in SlotsOf(g)
      BY <1>4, <3>1, <3>2, SlotsClosed DEF SlotsOf
    <3>4. Pointer(disk[g], blk', s) = Pointer(mem[g], blk', s)
      BY <1>4, <3>1, <3>2, AgreesPointer
    <3>5. BlockIn(g, s)' = Pointer(disk[g], blk', s)
      BY <1>1 DEF BlockIn
    <3> QED
      BY <1>4, <3>3, <3>4, <3>5
  <2>3. Sound'
    BY <1>4, <2>1, <2>2 DEF Sound
  <2>4. Coherent'
    BY <1>1 DEF Coherent
  <2> QED
    BY <2>3, <2>4
<1> QED
  BY <1>2, <1>3, <1>4

\* The engine dies between two operations on the disk.
LEMMA KillIInv ==
    ASSUME IInv, Kill
    PROVE  IInv'
<1>0. TypeOK /\ Fits /\ InOperation /\ (history # "torn" => Sound /\ Coherent)
  BY DEF IInv
<1>1. Restart /\ dataBitmap' = dataBitmap /\ blk' = blk
  BY DEF Kill
<1>2. \A g \in linked : g \in Files /\ NumBlocks(mem[g].size) \in Nat /\ NumBlocks(disk[g].size) \in Nat
  BY <1>0, NumBlocksNat DEF TypeOK, Inode
<1>3. /\ history' \in {"intact", "leaky", "torn"}
      /\ history' # "torn" => history # "torn"
      /\ history' # "torn" /\ stage \in {"resized", "grown"} =>
            ~(NumBlocks(mem[cur].size) < NumBlocks(disk[cur].size))
  <2>1. history' = IF Tears THEN "torn" ELSE IF Leaks /\ history = "intact" THEN "leaky" ELSE history
    BY DEF Kill
  <2> QED
    BY <1>0, <2>1 DEF Tears, InWrite, TypeOK
<1>4. ASSUME history' # "torn", NEW g \in linked
      PROVE  /\ NumBlocks(disk[g].size) <= NumBlocks(mem[g].size)
             /\ Agrees(disk[g], mem[g])
             /\ \A s \in SlotsOf(g) : Pointer(mem[g], blk', s) = BlockIn(g, s)
  <2>1. Coherent
    BY <1>0, <1>3, <1>4
  <2>2. CASE g # cur
    BY <1>1, <1>2, <2>1, <2>2 DEF Coherent, Agrees, BlockIn
  <2>3. CASE g = cur
    <3>1. stage \in {"resized", "grown"}
      BY <1>0, <1>2, <2>3, FilesAssumption DEF TypeOK, InOperation
    <3>2. NumBlocks(mem[g].size) >= NumBlocks(disk[g].size)
      BY <1>2, <1>3, <1>4, <2>3, <3>1
    <3> QED
      BY <1>1, <1>2, <2>1, <2>3, <3>1, <3>2 DEF Coherent, BlockIn
  <2> QED
    BY <2>2, <2>3
<1>5. blk' \in [Blocks -> Content]
  BY <1>0, <1>1 DEF TypeOK
<1> QED
  BY <1>1, <1>3, <1>4, <1>5, RestartIInv

\* The engine dies inside a growing Falloc.
LEMMA KillInFallocIInv ==
    ASSUME IInv, NEW f \in Files, NEW size \in Sizes, NEW zeroed \in 1 .. 4, NEW stored \in 0 .. 3,
           KillInFalloc(f, size, zeroed, stored)
    PROVE  IInv'
<1>0. TypeOK /\ Fits /\ InOperation /\ (history # "torn" => Sound /\ Coherent)
  BY DEF IInv
<1> DEFINE new == NewSlots(NumBlocks(mem[f].size), NumBlocks(size))
           in  == Grown(mem[f], size, new)
           zs  == {p \in NewTables(new) : p >= zeroed}
           ss  == {p \in Touched(new) : p <= stored}
<1>1. /\ stage = "idle" /\ f \in linked /\ size \in Nat
      /\ NumBlocks(size) > NumBlocks(mem[f].size) /\ NumBlocks(size) <= MaxBlocks
      /\ \A p \in zs : Finds(new, -p)
      /\ stored > 0 => \A s \in new : Finds(new, s)
      /\ blk' = Stored(in, Zeroed(in, zs), new, ss)
      /\ Restart /\ dataBitmap' = dataBitmap /\ history' = history
  BY DataAssumption DEF KillInFalloc, Idle
<1>2. ss # {} => \A s \in new : Finds(new, s)
  <2>1. ASSUME NEW p \in ss PROVE stored > 0
    BY DEF Touched, Places
  <2> QED
    BY <1>1, <2>1
<1>3. Growing(f, size, new, in, zs, ss)
  BY <1>1, <1>2 DEF Growing
<1> HIDE DEF new, in, zs, ss
<1>4. blk' \in [Blocks -> Content]
  BY <1>0, <1>1, <1>3, GrowType
<1>5. ASSUME history' # "torn", NEW g \in linked
      PROVE  /\ NumBlocks(disk[g].size) <= NumBlocks(mem[g].size)
             /\ Agrees(disk[g], mem[g])
             /\ \A s \in SlotsOf(g) : Pointer(mem[g], blk', s) = BlockIn(g, s)
  <2>1. Sound /\ Coherent /\ f \in Holders /\ g \in Holders
    BY <1>0, <1>1, <1>5 DEF Holders
  <2>2. mem[g] = disk[g] /\ NumBlocks(mem[g].size) \in Nat
    BY <1>0, <1>1, <2>1, FilesAssumption, NumBlocksNat DEF Coherent, TypeOK, Inode
  <2>3. \A s \in SlotsOf(g) : Pointer(mem[g], blk', s) = BlockIn(g, s)
    BY <1>0, <1>1, <1>3, <2>1, GrowWrites
  <2> QED
    BY <2>2, <2>3 DEF Agrees
<1>6. history' \in {"intact", "leaky", "torn"}
  BY <1>0, <1>1 DEF TypeOK
<1> QED
  BY <1>1, <1>4, <1>5, <1>6, RestartIInv

-----------------------------------------------------------------------------
(* The theorems. *)

\* The state the disk is formatted in.
LEMMA InitIInv == Init => IInv
<1> SUFFICES ASSUME Init PROVE IInv
  OBVIOUS
<1>1. 0 \in Blocks
  BY GeometryAssumption DEF Blocks
<1>2. TypeOK
  BY <1>1, EmptyInodeType DEF Init, TypeOK, ZeroBlock, Content
<1>3. Fits
  BY EmptyInodeType, NumBlocksNat, BoundariesNat DEF Init, Fits
<1>4. InOperation /\ Sound /\ Coherent
  BY DEF Init, InOperation, Sound, Coherent, Holders
<1> QED
  BY <1>2, <1>3, <1>4 DEF IInv

\* The invariant is inductive.
LEMMA NextIInv == IInv /\ [Next]_vars => IInv'
<1> SUFFICES ASSUME IInv, [Next]_vars PROVE IInv'
  OBVIOUS
<1>1. CASE UNCHANGED vars
  BY <1>1 DEF vars, IInv, TypeOK, Fits, InOperation, Sound, Coherent, Holders, SlotsOf, BlockIn
<1>2. CASE \E f \in Files : Create(f)
  BY <1>2, CreateIInv
<1>3. CASE \E f \in Files, size \in Sizes : Resize(f, size)
  BY <1>3, ResizeIInv
<1>4. CASE \E words \in Payload : WriteData(words)
  BY <1>4, WriteDataIInv
<1>5. CASE WriteInode \/ WriteDirInode
  BY <1>5, WriteInodeIInv
<1>6. CASE \E f \in Files : GrowDir(f)
  BY <1>6, GrowDirIInv
<1>7. CASE \E f \in Files, words \in Payload, v \in 0 .. (MaxBlocks - 1) : WriteDir(f, v, words)
  BY <1>7, WriteDirIInv
<1>8. CASE \E f \in Files : Unlink(f)
  BY <1>8, UnlinkIInv
<1>9. CASE FreeInode
  BY <1>9, FreeInodeIInv
<1>10. CASE Kill
  BY <1>10, KillIInv
<1>11. CASE \E f \in Files, size \in Sizes, z \in 1 .. 4, s \in 0 .. 3 : KillInFalloc(f, size, z, s)
  BY <1>11, KillInFallocIInv
<1> QED
  BY <1>1, <1>2, <1>3, <1>4, <1>5, <1>6, <1>7, <1>8, <1>9, <1>10, <1>11 DEF Next

\* The inductive invariant holds throughout.
LEMMA Invariance == Spec => []IInv
<1>1. Init => IInv
  BY InitIInv
<1>2. IInv /\ [Next]_vars => IInv'
  BY NextIInv
<1> QED
  BY <1>1, <1>2, PTL DEF Spec

\* Bitmap, inodes and pointer tables stay well formed, on every disk and
\* whenever the engine dies (fs_falloc.go, fs_inode.go).
THEOREM TypeCorrect == Spec => []TypeOK
<1>1. IInv => TypeOK
  BY DEF IInv
<1> QED
  BY <1>1, Invariance, PTL

\* Falloc never hands out a block that a file uses: every block in use is
\* marked in the bitmap, short of a death inside a shrinking write.
THEOREM AlwaysAllocated == Spec => []Allocated
<1>1. IInv => Allocated
  BY DEF IInv, Sound, Allocated
<1> QED
  BY <1>1, Invariance, PTL

\* No block ever belongs to two files, or to two places of one file, short of
\* a death inside a shrinking write.
THEOREM NeverShared == Spec => []NoSharing
<1>1. IInv => NoSharing
  BY DEF IInv, Sound, NoSharing
<1> QED
  BY <1>1, Invariance, PTL

-----------------------------------------------------------------------------
(* Nothing is lost: the bitmap marks no more than the files use. *)

Tight == \A c \in dataBitmap : \E f \in Holders : \E s \in SlotsOf(f) : BlockIn(f, s) = c

\* A step loses no block when each block in use stays in use or is unmarked,
\* and each block newly marked is in use.
LEMMA StaysTight ==
    ASSUME Tight,
           \A g \in Holders : \A s \in SlotsOf(g) :
              \/ g \in Holders' /\ s \in SlotsOf(g)' /\ BlockIn(g, s)' = BlockIn(g, s)
              \/ BlockIn(g, s) \notin dataBitmap',
           \A c \in dataBitmap' \ dataBitmap :
              \E g \in Holders' : \E s \in SlotsOf(g)' : BlockIn(g, s)' = c
    PROVE  Tight'
<1> SUFFICES ASSUME NEW c \in dataBitmap'
             PROVE  \E g \in Holders' : \E s \in SlotsOf(g)' : BlockIn(g, s)' = c
  BY DEF Tight
<1>1. CASE c \in dataBitmap
  <2>1. PICK g \in Holders : \E s \in SlotsOf(g) : BlockIn(g, s) = c
    BY <1>1 DEF Tight
  <2> QED
    BY <2>1
<1> QED
  BY <1>1

\* Falloc loses no block: growing marks what it hands out, shrinking unmarks
\* what it takes back, tables included (fs_falloc.go:121-259).
LEMMA FallocTight ==
    ASSUME TypeOK, Fits, Sound, Tight, NEW f \in Holders, NEW size \in Nat, Falloc(f, size),
           Holders' = Holders \/ (Holders' = Holders \ {f} /\ size = 0)
    PROVE  Tight'
<1>1. /\ \A g \in Holders : \A s \in SlotsOf(g) :
            s \in Slots(NumBlocks(mem'[g].size)) => Pointer(mem'[g], blk', s) = BlockIn(g, s)
      /\ \A c \in dataBitmap' \ dataBitmap :
            \E s \in Slots(NumBlocks(mem'[f].size)) : Pointer(mem'[f], blk', s) = c
      /\ \A s \in SlotsOf(f) :
            s \in Slots(NumBlocks(mem'[f].size)) \/ BlockIn(f, s) \notin dataBitmap'
  BY FallocExact
<1>2. Holders \subseteq Files /\ f \in Files
  BY DEF TypeOK, Holders
<1>3. mem'[f].size = size /\ \A g \in Files : g # f => mem'[g] = mem[g]
  BY <1>2, FallocType
<1>4. size = 0 => Slots(NumBlocks(mem'[f].size)) = {}
  <2>1. size = 0 => NumBlocks(mem'[f].size) = 0
    BY <1>3, NumBlocksNat
  <2> QED
    BY <2>1, SlotsClosed
<1>5. ASSUME NEW g \in Holders, NEW s \in SlotsOf(g)
      PROVE  \/ g \in Holders' /\ s \in SlotsOf(g)' /\ BlockIn(g, s)' = BlockIn(g, s)
             \/ BlockIn(g, s) \notin dataBitmap'
  <2>1. CASE g # f
    <3>1. g \in Holders' /\ s \in Slots(NumBlocks(mem'[g].size))
      BY <1>2, <1>3, <2>1 DEF SlotsOf
    <3> QED
      BY <1>1, <3>1 DEF SlotsOf, BlockIn
  <2>2. CASE g = f
    <3>1. CASE s \in Slots(NumBlocks(mem'[f].size))
      BY <1>1, <1>4, <2>2, <3>1 DEF SlotsOf, BlockIn
    <3>2. CASE s \notin Slots(NumBlocks(mem'[f].size))
      BY <1>1, <2>2, <3>2
    <3> QED
      BY <3>1, <3>2
  <2> QED
    BY <2>1, <2>2
<1>6. ASSUME NEW c \in dataBitmap' \ dataBitmap
      PROVE  \E g \in Holders' : \E s \in SlotsOf(g)' : BlockIn(g, s)' = c
  <2>1. PICK s \in Slots(NumBlocks(mem'[f].size)) : Pointer(mem'[f], blk', s) = c
    BY <1>1
  <2>2. f \in Holders'
    BY <1>4
  <2> QED
    BY <2>1, <2>2 DEF SlotsOf, BlockIn
<1> QED
  BY <1>5, <1>6, StaysTight

\* A restart loses no block when the disk holds what memory held.
LEMMA RestartTight ==
    ASSUME IInv, Sound, Tight, Restart, dataBitmap' = dataBitmap,
           stage = "unlinked" => SlotsOf(cur) = {},
           \A g \in linked : /\ NumBlocks(disk[g].size) = NumBlocks(mem[g].size)
                             /\ Agrees(disk[g], mem[g])
                             /\ \A s \in SlotsOf(g) : Pointer(mem[g], blk', s) = BlockIn(g, s)
    PROVE  Tight'
<1>1. mem' = disk /\ linked' = linked /\ stage' = "idle"
  BY DEF Restart, Done
<1>2. Holders' = linked /\ linked \subseteq Files
  BY <1>1 DEF Holders, IInv, TypeOK
<1>3. ASSUME NEW g \in Holders, NEW s \in SlotsOf(g)
      PROVE  g \in Holders' /\ s \in SlotsOf(g)' /\ BlockIn(g, s)' = BlockIn(g, s)
  <2>1. g \in linked
    BY DEF Holders
  <2>2. /\ disk[g] \in Inode /\ mem[g] \in Inode /\ NumBlocks(disk[g].size) <= MaxBlocks
        /\ s \in Slots(NumBlocks(disk[g].size))
    BY <1>2, <2>1 DEF IInv, TypeOK, Fits, SlotsOf
  <2>3. Pointer(disk[g], blk', s) = Pointer(mem[g], blk', s)
    BY <2>1, <2>2, AgreesPointer
  <2> QED
    BY <1>1, <1>2, <2>1, <2>2, <2>3 DEF SlotsOf, BlockIn
<1> QED
  BY <1>3, StaysTight
\* What FileFD.Write writes is a data block of the file worked on.
LEMMA WriteDataWrites ==
    ASSUME TypeOK, InOperation, NEW words \in Payload, WriteData(words)
    PROVE  /\ cur \in Holders /\ cur \in linked /\ next \in 0 .. (NumBlocks(mem[cur].size) - 1)
           /\ Writes(cur, next, blk')
           /\ UNCHANGED <<dataBitmap, mem, linked, cur, stage>>
<1>1. /\ stage = "resized" /\ next < NumBlocks(mem[cur].size) /\ BlockIn(cur, next) \in Blocks
      /\ blk' = [blk EXCEPT ![BlockIn(cur, next)] = words]
      /\ UNCHANGED <<dataBitmap, mem, linked, cur, stage>>
  BY DEF WriteData, BlockIn
<1>2. cur \in linked /\ cur \in Holders /\ cur \in Files
  BY <1>1 DEF InOperation, Holders, TypeOK
<1>3. NumBlocks(mem[cur].size) \in Nat /\ next \in Nat
  BY <1>2, NumBlocksNat DEF TypeOK, Inode
<1>4. next \in SlotsOf(cur)
  BY <1>1, <1>3, SlotsMember DEF SlotsOf
<1> QED
  BY <1>1, <1>2, <1>3, <1>4 DEF Writes, TypeOK

\* What tryInsert and removeDentry write is a data block of the directory.
LEMMA WriteDirWrites ==
    ASSUME TypeOK, NEW f \in Files, NEW words \in Payload, NEW v, WriteDir(f, v, words)
    PROVE  /\ f \in Holders /\ f \in linked /\ Writes(f, v, blk')
           /\ UNCHANGED <<dataBitmap, mem, linked, cur, stage>>
<1>1. /\ f \in linked /\ v \in 0 .. (NumBlocks(mem[f].size) - 1) /\ BlockIn(f, v) \in Blocks
      /\ blk' = [blk EXCEPT ![BlockIn(f, v)] = words]
      /\ UNCHANGED <<dataBitmap, mem, linked, cur, stage>>
  BY DEF WriteDir, BlockIn
<1>2. v \in SlotsOf(f)
  <2>1. NumBlocks(mem[f].size) \in Nat
    BY NumBlocksNat DEF TypeOK, Inode
  <2> QED
    BY <1>1, <2>1, SlotsMember DEF SlotsOf
<1> QED
  BY <1>1, <1>2 DEF Writes, TypeOK, Holders

\* A death inside a growing Falloc leaves every pointer and every data block of
\* the files on disk as they were.
LEMMA CutOffWrites ==
    ASSUME TypeOK, Fits, Sound, Coherent, NEW f \in Files, NEW size \in Sizes,
           NEW zeroed \in 1 .. 4, NEW stored \in 0 .. 3, KillInFalloc(f, size, zeroed, stored),
           NEW g \in linked
    PROVE  /\ mem[g] = disk[g]
           /\ \A s \in SlotsOf(g) : /\ Pointer(mem[g], blk', s) = BlockIn(g, s)
                                    /\ s >= 0 => blk'[BlockIn(g, s)] = blk[BlockIn(g, s)]
<1> DEFINE new == NewSlots(NumBlocks(mem[f].size), NumBlocks(size))
           in  == Grown(mem[f], size, new)
           zs  == {p \in NewTables(new) : p >= zeroed}
           ss  == {p \in Touched(new) : p <= stored}
<1>1. /\ stage = "idle" /\ f \in linked /\ size \in Nat
      /\ NumBlocks(size) > NumBlocks(mem[f].size) /\ NumBlocks(size) <= MaxBlocks
      /\ \A p \in zs : Finds(new, -p)
      /\ stored > 0 => \A s \in new : Finds(new, s)
      /\ blk' = Stored(in, Zeroed(in, zs), new, ss)
  BY DataAssumption DEF KillInFalloc, Idle
<1>2. ss # {} => \A s \in new : Finds(new, s)
  <2>1. ASSUME NEW p \in ss PROVE stored > 0
    BY DEF Touched, Places
  <2> QED
    BY <1>1, <2>1
<1>3. Growing(f, size, new, in, zs, ss)
  BY <1>1, <1>2 DEF Growing
<1> HIDE DEF new, in, zs, ss
<1>4. mem[g] = disk[g]
  BY <1>1, FilesAssumption DEF Coherent, TypeOK
<1>5. f \in Holders /\ g \in Holders
  BY <1>1 DEF Holders
<1>6. \A s \in SlotsOf(g) : /\ Pointer(mem[g], blk', s) = BlockIn(g, s)
                            /\ s >= 0 => blk'[BlockIn(g, s)] = blk[BlockIn(g, s)]
  BY <1>1, <1>3, <1>5, GrowWrites
<1> QED
  BY <1>4, <1>6

\* Every step but a death that leaks keeps the bitmap tight.
LEMMA NextTight ==
    ASSUME IInv, history = "intact" => Tight, [Next]_vars, history' = "intact"
    PROVE  Tight'
<1>0. TypeOK /\ Fits /\ InOperation
  BY DEF IInv
<1>1. CASE UNCHANGED vars
  BY <1>1 DEF vars, Tight, Holders, SlotsOf, BlockIn
<1>2. CASE history # "intact"
  BY <1>1, <1>2 DEF Next, Create, Resize, WriteData, WriteInode, GrowDir, WriteDirInode,
                    WriteDir, Unlink, FreeInode, Kill, KillInFalloc
<1>3. ASSUME history = "intact" PROVE Tight /\ Sound /\ Coherent
  BY <1>3 DEF IInv
<1> USE <1>3
<1>4. ASSUME history = "intact", NEW f \in Files, Create(f) PROVE Tight'
  <2>1. /\ Holders = linked /\ Holders' = linked \cup {f} /\ linked \subseteq Files /\ f \notin linked
        /\ dataBitmap' = dataBitmap /\ blk' = blk
        /\ \A g \in Files : g # f => mem'[g] = mem[g]
    BY <1>0, <1>4 DEF Holders, Create, Idle, TypeOK
  <2>2. ASSUME NEW g \in Holders PROVE SlotsOf(g)' = SlotsOf(g) /\ \A s : BlockIn(g, s)' = BlockIn(g, s)
    BY <2>1 DEF SlotsOf, BlockIn
  <2> QED
    BY <1>4, <2>1, <2>2, StaysTight
<1>5. ASSUME history = "intact", NEW f \in Files, NEW size \in Sizes, Resize(f, size) PROVE Tight'
  <2>1. f \in Holders /\ Holders' = Holders /\ size \in Nat /\ Falloc(f, size)
    BY <1>0, <1>5, DataAssumption DEF Resize, Idle, Holders
  <2> QED
    BY <1>0, <1>5, <2>1, FallocTight
<1>6. ASSUME history = "intact", NEW f \in Files, GrowDir(f) PROVE Tight'
  <2>1. /\ f \in Holders /\ Holders' = Holders /\ mem[f].size + BLOCKSIZE \in Nat
        /\ Falloc(f, mem[f].size + BLOCKSIZE)
    BY <1>0, <1>6, GeometryAssumption DEF GrowDir, Idle, Holders, Falloc, TypeOK, Inode
  <2> QED
    BY <1>0, <1>6, <2>1, FallocTight
<1>7. ASSUME history = "intact", NEW f \in Holders, NEW v, Writes(f, v, blk'),
             UNCHANGED <<dataBitmap, mem, linked, cur, stage>>
      PROVE  Tight'
  <2>1. Holders' = Holders
    BY <1>7 DEF Holders
  <2>2. \A g \in Holders : \A s \in SlotsOf(g) : Pointer(mem[g], blk', s) = BlockIn(g, s)
    BY <1>0, <1>7, WriteKeepsPointers
  <2>3. \A g \in Holders : \A s \in SlotsOf(g) : s \in SlotsOf(g)' /\ BlockIn(g, s)' = BlockIn(g, s)
    BY <1>7, <2>2 DEF SlotsOf, BlockIn
  <2> QED
    BY <1>7, <2>1, <2>3, StaysTight
<1>8. ASSUME history = "intact", NEW words \in Payload, WriteData(words) PROVE Tight'
  <2>1. cur \in Holders /\ Writes(cur, next, blk') /\ UNCHANGED <<dataBitmap, mem, linked, cur, stage>>
    BY <1>0, <1>8, WriteDataWrites
  <2> QED
    BY <1>7, <1>8, <2>1
<1>9. ASSUME history = "intact", NEW f \in Files, NEW words \in Payload,
             NEW v \in 0 .. (MaxBlocks - 1), WriteDir(f, v, words)
      PROVE  Tight'
  <2>1. f \in Holders /\ Writes(f, v, blk') /\ UNCHANGED <<dataBitmap, mem, linked, cur, stage>>
    BY <1>0, <1>9, WriteDirWrites
  <2> QED
    BY <1>7, <1>9, <2>1
<1>10. ASSUME history = "intact", WriteInode \/ WriteDirInode PROVE Tight'
  <2>1. Holders' = Holders /\ UNCHANGED <<dataBitmap, mem, blk>>
    BY <1>10 DEF WriteInode, WriteDirInode, Done, Holders
  <2> QED
    BY <1>10, <2>1 DEF Tight, SlotsOf, BlockIn
<1>11. ASSUME history = "intact", NEW f \in Files, Unlink(f) PROVE Tight'
  <2>1. Holders' = Holders /\ UNCHANGED <<dataBitmap, mem, blk>>
    BY <1>11 DEF Unlink, Idle, Holders
  <2> QED
    BY <1>11, <2>1 DEF Tight, SlotsOf, BlockIn
<1>12. ASSUME history = "intact", FreeInode PROVE Tight'
  <2>1. cur \in Holders /\ Holders' = Holders \ {cur} /\ Falloc(cur, 0)
    BY <1>0, <1>12 DEF FreeInode, Done, Holders, InOperation
  <2> QED
    BY <1>0, <1>12, <2>1, FallocTight
<1>13. ASSUME history = "intact", Kill PROVE Tight'
  <2>1. ~Tears /\ ~Leaks /\ Restart /\ dataBitmap' = dataBitmap /\ blk' = blk
    BY <1>13 DEF Kill
  <2>2. stage = "unlinked" => SlotsOf(cur) = {}
    BY <2>1, NumBlocksNat, SlotsClosed DEF Leaks, SlotsOf
  <2>3. ASSUME NEW g \in linked
        PROVE  /\ NumBlocks(disk[g].size) = NumBlocks(mem[g].size)
               /\ Agrees(disk[g], mem[g])
               /\ \A s \in SlotsOf(g) : Pointer(mem[g], blk', s) = BlockIn(g, s)
    <3>1. g \in Files /\ NumBlocks(mem[g].size) \in Nat /\ NumBlocks(disk[g].size) \in Nat
      BY <1>0, NumBlocksNat DEF TypeOK, Inode
    <3>2. CASE g # cur
      BY <1>13, <2>1, <3>1, <3>2 DEF Coherent, Agrees, BlockIn
    <3>3. CASE g = cur
      <4>1. stage \in {"resized", "grown"}
        BY <1>0, <3>1, <3>3, FilesAssumption DEF TypeOK, InOperation
      <4>2. NumBlocks(mem[g].size) = NumBlocks(disk[g].size)
        BY <2>1, <3>1, <3>3, <4>1 DEF Tears, Leaks, InWrite
      <4> QED
        BY <1>13, <2>1, <3>1, <3>3, <4>1, <4>2 DEF Coherent, BlockIn
    <3> QED
      BY <3>2, <3>3
  <2> QED
    BY <1>13, <2>1, <2>2, <2>3, RestartTight
<1>14. ASSUME history = "intact", NEW f \in Files, NEW size \in Sizes,
              NEW zeroed \in 1 .. 4, NEW stored \in 0 .. 3, KillInFalloc(f, size, zeroed, stored)
       PROVE  Tight'
  <2>1. Restart /\ dataBitmap' = dataBitmap /\ stage = "idle" /\ cur = NoFile
    BY <1>0, <1>14 DEF KillInFalloc, Idle, TypeOK
  <2>2. ASSUME NEW g \in linked
        PROVE  mem[g] = disk[g] /\ \A s \in SlotsOf(g) : Pointer(mem[g], blk', s) = BlockIn(g, s)
    BY <1>0, <1>14, CutOffWrites
  <2> QED
    BY <1>14, <2>1, <2>2, RestartTight DEF Agrees
<1> QED
  BY <1>1, <1>2, <1>4, <1>5, <1>6, <1>8, <1>9, <1>10, <1>11, <1>12, <1>13, <1>14 DEF Next

\* As long as no death has leaked, every marked block is in use: growing,
\* shrinking and freeing give every block back, tables included, whatever
\* operations came before (fs_falloc.go:191-259, kernel.go:322).
THEOREM NothingLeaks == Spec => []NoLeak
<1> DEFINE LInv == IInv /\ (history = "intact" => Tight)
<1>1. Init => LInv
  BY InitIInv DEF Init, Tight
<1>2. LInv /\ [Next]_vars => LInv'
  BY NextIInv, NextTight
<1>3. LInv => NoLeak
  BY DEF Tight, NoLeak
<1> QED
  BY <1>1, <1>2, <1>3, PTL DEF Spec
-----------------------------------------------------------------------------
(* The files are arrays of blocks: Falloc implements FileArrays. *)

\* The array of a file, before and after a step.
LEMMA ArraysAre ==
    /\ DOMAIN Arrays = linked
    /\ \A g \in linked :
          /\ DOMAIN Arrays[g] = 0 .. (NumBlocks(mem[g].size) - 1)
          /\ \A v \in 0 .. (NumBlocks(mem[g].size) - 1) : Arrays[g][v] = blk[BlockIn(g, v)]
          /\ Arrays[g] = [v \in 0 .. (NumBlocks(mem[g].size) - 1) |-> blk[BlockIn(g, v)]]
BY DEF Arrays

\* A file whose blocks a step leaves alone is the same array.
LEMMA SameArray ==
    ASSUME NEW g \in linked, g \in linked', NumBlocks(mem'[g].size) = NumBlocks(mem[g].size),
           \A v \in 0 .. (NumBlocks(mem[g].size) - 1) : blk'[BlockIn(g, v)'] = blk[BlockIn(g, v)]
    PROVE  Arrays'[g] = Arrays[g]
BY DEF Arrays

\* A step that leaves every file alone changes no array.
LEMMA SameArrays ==
    ASSUME linked' = linked, \A g \in linked : Arrays'[g] = Arrays[g]
    PROVE  Arrays' = Arrays
<1>1. Arrays = [g \in linked |-> Arrays[g]] /\ Arrays' = [g \in linked' |-> Arrays'[g]]
  BY DEF Arrays
<1> QED
  BY <1>1

\* The data blocks of a file are slots of it.
LEMMA DataSlots ==
    ASSUME TypeOK, NEW g \in Files
    PROVE  \A v \in 0 .. (NumBlocks(mem[g].size) - 1) : v \in SlotsOf(g) /\ v >= 0
<1>1. NumBlocks(mem[g].size) \in Nat
  BY NumBlocksNat DEF TypeOK, Inode
<1> QED
  BY <1>1, SlotsMember DEF SlotsOf

\* What the abstract specification's actions say of the arrays.
LEMMA AbstractStep ==
    ASSUME history # "torn", history' # "torn", NEW f \in Files,
           \/ /\ f \notin linked /\ linked' = linked \cup {f} /\ DOMAIN Arrays'[f] = {}
              /\ \A g \in linked \ {f} : Arrays'[g] = Arrays[g]
           \/ /\ f \in linked /\ linked' = linked \ {f}
              /\ \A g \in linked \ {f} : Arrays'[g] = Arrays[g]
           \/ /\ f \in linked /\ linked' = linked
              /\ \A i \in DOMAIN Arrays[f] \cap DOMAIN Arrays'[f] : Arrays'[f][i] = Arrays[f][i]
              /\ \A i \in DOMAIN Arrays'[f] : Arrays'[f][i] \in Content
              /\ \A g \in linked \ {f} : Arrays'[g] = Arrays[g]
           \/ /\ f \in linked
              /\ \E i \in DOMAIN Arrays[f], c \in Content : Arrays' = [Arrays EXCEPT ![f][i] = c]
    PROVE  Abstract!Next
<1>1. DOMAIN Arrays = linked /\ DOMAIN Arrays' = linked'
  BY DEF Arrays
<1>2. Abstract!Create(f) \/ Abstract!Remove(f) \/ Abstract!Resize(f) \/ Abstract!Write(f)
  BY <1>1 DEF Abstract!Create, Abstract!Remove, Abstract!Resize, Abstract!Write, Abstract!Others
<1> QED
  BY <1>2 DEF Abstract!Next
\* A Falloc that returns nil resizes the array of its file and no other: blocks
\* that stay keep their contents (fs_falloc.go:121-259).
LEMMA FallocArrays ==
    ASSUME TypeOK, Fits, Sound, TypeOK', NEW f \in Holders, NEW size \in Nat, Falloc(f, size),
           linked' = linked, Sound'
    PROVE  /\ \A g \in linked \ {f} : Arrays'[g] = Arrays[g]
           /\ f \in linked =>
                 /\ \A i \in DOMAIN Arrays[f] \cap DOMAIN Arrays'[f] : Arrays'[f][i] = Arrays[f][i]
                 /\ \A i \in DOMAIN Arrays'[f] : Arrays'[f][i] \in Content
<1>1. \A g \in Holders : \A s \in SlotsOf(g) :
         s \in Slots(NumBlocks(mem'[g].size)) =>
            /\ Pointer(mem'[g], blk', s) = BlockIn(g, s)
            /\ s >= 0 => blk'[BlockIn(g, s)] = blk[BlockIn(g, s)]
  BY FallocExact
<1>2. Holders \subseteq Files /\ f \in Files /\ linked \subseteq Holders
  BY DEF TypeOK, Holders
<1>3. \A g \in Files : g # f => mem'[g] = mem[g]
  BY <1>2, FallocType
<1>4. /\ \A g \in Files : \A v \in 0 .. (NumBlocks(mem[g].size) - 1) : v \in SlotsOf(g) /\ v >= 0
      /\ \A g \in Files : \A v \in 0 .. (NumBlocks(mem'[g].size) - 1) :
            v \in Slots(NumBlocks(mem'[g].size)) /\ v >= 0
  <2>1. \A g \in Files : NumBlocks(mem[g].size) \in Nat /\ NumBlocks(mem'[g].size) \in Nat
    BY NumBlocksNat DEF TypeOK, Inode
  <2> QED
    BY <2>1, SlotsMember DEF SlotsOf
<1>5. ASSUME NEW g \in linked \ {f} PROVE Arrays'[g] = Arrays[g]
  <2>1. mem'[g] = mem[g] /\ g \in Files /\ g \in Holders
    BY <1>2, <1>3
  <2>2. ASSUME NEW v \in 0 .. (NumBlocks(mem[g].size) - 1)
        PROVE  blk'[BlockIn(g, v)'] = blk[BlockIn(g, v)]
    <3>1. v \in SlotsOf(g) /\ v >= 0 /\ v \in Slots(NumBlocks(mem'[g].size))
      BY <1>4, <2>1 DEF SlotsOf
    <3>2. Pointer(mem'[g], blk', v) = BlockIn(g, v) /\ blk'[BlockIn(g, v)] = blk[BlockIn(g, v)]
      BY <1>1, <2>1, <3>1
    <3>3. BlockIn(g, v)' = Pointer(mem'[g], blk', v)
      BY DEF BlockIn
    <3> QED
      BY <3>2, <3>3
  <2> QED
    BY <2>1, <2>2, SameArray
<1>6. ASSUME f \in linked
      PROVE  /\ \A i \in DOMAIN Arrays[f] \cap DOMAIN Arrays'[f] : Arrays'[f][i] = Arrays[f][i]
             /\ \A i \in DOMAIN Arrays'[f] : Arrays'[f][i] \in Content
  <2>1. /\ DOMAIN Arrays[f] = 0 .. (NumBlocks(mem[f].size) - 1)
        /\ DOMAIN Arrays'[f] = 0 .. (NumBlocks(mem'[f].size) - 1)
        /\ \A i \in DOMAIN Arrays[f] : Arrays[f][i] = blk[BlockIn(f, i)]
        /\ \A i \in DOMAIN Arrays'[f] : Arrays'[f][i] = blk'[BlockIn(f, i)']
    BY <1>6 DEF Arrays
  <2>2. ASSUME NEW i \in DOMAIN Arrays[f] \cap DOMAIN Arrays'[f] PROVE Arrays'[f][i] = Arrays[f][i]
    <3>1. i \in SlotsOf(f) /\ i >= 0 /\ i \in Slots(NumBlocks(mem'[f].size))
      BY <1>2, <1>4, <2>1
    <3>2. Pointer(mem'[f], blk', i) = BlockIn(f, i) /\ blk'[BlockIn(f, i)] = blk[BlockIn(f, i)]
      BY <1>1, <3>1
    <3>3. BlockIn(f, i)' = Pointer(mem'[f], blk', i)
      BY DEF BlockIn
    <3> QED
      BY <2>1, <3>2, <3>3
  <2>3. ASSUME NEW i \in DOMAIN Arrays'[f] PROVE Arrays'[f][i] \in Content
    <3>1. i \in SlotsOf(f)' /\ f \in Holders'
      BY <1>2, <1>4, <1>6, <2>1 DEF SlotsOf, Holders
    <3>2. BlockIn(f, i)' \in Blocks
      BY <3>1 DEF Sound, TypeOK
    <3> QED
      BY <2>1, <3>2 DEF TypeOK
  <2> QED
    BY <2>2, <2>3
<1> QED
  BY <1>5, <1>6

\* A block written is one block of one array, and of no other: no block serves
\* two files (fs_fd.go:105-142, fs_dir.go:112-120).
LEMMA WriteArrays ==
    ASSUME TypeOK, Fits, Sound, NEW f \in linked, NEW v \in 0 .. (NumBlocks(mem[f].size) - 1),
           NEW words \in Content, Writes(f, v, blk'), blk' = [blk EXCEPT ![BlockIn(f, v)] = words],
           UNCHANGED <<mem, linked>>
    PROVE  \E i \in DOMAIN Arrays[f], c \in Content : Arrays' = [Arrays EXCEPT ![f][i] = c]
<1>1. linked \subseteq Holders /\ linked \subseteq Files /\ f \in Holders
  BY DEF TypeOK, Holders
<1>2. ASSUME NEW g \in linked, NEW s \in 0 .. (NumBlocks(mem[g].size) - 1)
      PROVE  /\ BlockIn(g, s)' = BlockIn(g, s)
             /\ blk'[BlockIn(g, s)] = IF g = f /\ s = v THEN words ELSE blk[BlockIn(g, s)]
  <2>1. s \in SlotsOf(g) /\ v \in SlotsOf(f)
    BY <1>1, DataSlots
  <2>2. BlockIn(g, s) \in Blocks /\ BlockIn(f, v) \in Blocks
    BY <1>1, <2>1 DEF Sound, TypeOK
  <2>3. Pointer(mem[g], blk', s) = BlockIn(g, s)
    BY <1>1, <2>1, WriteKeepsPointers
  <2>4. BlockIn(g, s)' = BlockIn(g, s)
    BY <2>3 DEF BlockIn
  <2>5. CASE g = f /\ s = v
    BY <2>2, <2>4, <2>5 DEF TypeOK
  <2>6. CASE ~(g = f /\ s = v)
    <3>1. BlockIn(g, s) # BlockIn(f, v)
      BY <1>1, <2>1, <2>6 DEF Sound
    <3> QED
      BY <2>2, <2>4, <2>6, <3>1 DEF TypeOK
  <2> QED
    BY <2>5, <2>6
<1>3. ASSUME NEW g \in linked
      PROVE  Arrays'[g] = IF g = f THEN [Arrays[f] EXCEPT ![v] = words] ELSE Arrays[g]
  <2>1. Arrays'[g] = [s \in 0 .. (NumBlocks(mem[g].size) - 1) |-> blk'[BlockIn(g, s)']]
    BY DEF Arrays
  <2>2. Arrays[g] = [s \in 0 .. (NumBlocks(mem[g].size) - 1) |-> blk[BlockIn(g, s)]]
    BY DEF Arrays
  <2>3. CASE g = f
    <3>1. [Arrays[f] EXCEPT ![v] = words]
             = [s \in 0 .. (NumBlocks(mem[f].size) - 1) |-> IF s = v THEN words ELSE blk[BlockIn(f, s)]]
      BY <2>2, <2>3
    <3>2. \A s \in 0 .. (NumBlocks(mem[f].size) - 1) :
             blk'[BlockIn(f, s)'] = IF s = v THEN words ELSE blk[BlockIn(f, s)]
      BY <1>2
    <3>3. Arrays'[f]
             = [s \in 0 .. (NumBlocks(mem[f].size) - 1) |-> IF s = v THEN words ELSE blk[BlockIn(f, s)]]
      <4>1. /\ DOMAIN Arrays'[f] = 0 .. (NumBlocks(mem[f].size) - 1)
            /\ Arrays'[f] = [s \in DOMAIN Arrays'[f] |-> Arrays'[f][s]]
            /\ \A s \in 0 .. (NumBlocks(mem[f].size) - 1) : Arrays'[f][s] = blk'[BlockIn(f, s)']
        BY DEF Arrays
      <4> QED
        BY <3>2, <4>1
    <3>4. Arrays'[f] = [Arrays[f] EXCEPT ![v] = words]
      BY <3>1, <3>3, Zenon
    <3> QED
      BY <2>3, <3>4, Zenon
  <2>4. CASE g # f
    <3>1. \A s \in 0 .. (NumBlocks(mem[g].size) - 1) : blk'[BlockIn(g, s)'] = blk[BlockIn(g, s)]
      BY <1>2, <2>4
    <3> QED
      BY <2>1, <2>2, <2>4, <3>1
  <2> QED
    BY <2>3, <2>4
<1>4. Arrays' = [Arrays EXCEPT ![f][v] = words]
  <2>1. Arrays' = [g \in linked |-> Arrays'[g]]
    BY DEF Arrays
  <2>2. Arrays = [g \in linked |-> Arrays[g]]
    BY DEF Arrays
  <2> DEFINE w == [Arrays[f] EXCEPT ![v] = words]
  <2>3. \A g \in linked : Arrays'[g] = IF g = f THEN w ELSE Arrays[g]
    BY <1>3
  <2>4. [Arrays EXCEPT ![f][v] = words] = [Arrays EXCEPT ![f] = w]
    OBVIOUS
  <2> HIDE DEF w
  <2>5. [Arrays EXCEPT ![f] = w] = [g \in linked |-> IF g = f THEN w ELSE Arrays[g]]
    BY <2>2
  <2> QED
    BY <2>1, <2>3, <2>4, <2>5
<1>5. v \in DOMAIN Arrays[f]
  BY DEF Arrays
<1> QED
  BY <1>4, <1>5
\* A death between two disk writes that tears nothing takes back at most the
\* growth of the file worked on.
LEMMA KillArrays ==
    ASSUME IInv, Kill, history # "torn", history' # "torn", IInv'
    PROVE  Abstract!Next \/ Arrays' = Arrays
<1>0. TypeOK /\ Fits /\ InOperation /\ Sound /\ Coherent /\ TypeOK' /\ Sound'
  BY DEF IInv
<1>1. mem' = disk /\ linked' = linked /\ blk' = blk /\ ~Tears
  BY DEF Kill, Restart, Done
<1>2. linked \subseteq Files /\ linked \subseteq Holders
  BY <1>0 DEF TypeOK, Holders
<1>3. ASSUME NEW g \in linked, g # cur PROVE Arrays'[g] = Arrays[g]
  <2>1. mem'[g] = mem[g]
    BY <1>0, <1>1, <1>3 DEF Coherent
  <2>2. \A v \in 0 .. (NumBlocks(mem[g].size) - 1) : blk'[BlockIn(g, v)'] = blk[BlockIn(g, v)]
    BY <1>1, <2>1 DEF BlockIn
  <2> QED
    BY <1>1, <2>1, <2>2, SameArray
<1>4. CASE cur \notin linked
  BY <1>1, <1>3, <1>4, SameArrays
<1>5. CASE cur \in linked
  <2>1. cur \in Files /\ stage \in {"resized", "grown"}
    BY <1>0, <1>2, <1>5, FilesAssumption DEF TypeOK, InOperation
  <2>2. /\ NumBlocks(mem[cur].size) \in Nat /\ NumBlocks(disk[cur].size) \in Nat
        /\ disk[cur] \in Inode /\ mem[cur] \in Inode
    BY <1>0, <2>1, NumBlocksNat DEF TypeOK, Inode
  <2>3. /\ NumBlocks(disk[cur].size) <= NumBlocks(mem[cur].size)
        /\ NumBlocks(disk[cur].size) <= MaxBlocks
        /\ Agrees(disk[cur], mem[cur])
    BY <1>0, <1>1, <2>1, <2>2 DEF Tears, InWrite, Coherent, Fits
  <2>4. /\ DOMAIN Arrays[cur] = 0 .. (NumBlocks(mem[cur].size) - 1)
        /\ DOMAIN Arrays'[cur] = 0 .. (NumBlocks(disk[cur].size) - 1)
        /\ \A i \in DOMAIN Arrays[cur] : Arrays[cur][i] = blk[Pointer(mem[cur], blk, i)]
        /\ \A i \in DOMAIN Arrays'[cur] : Arrays'[cur][i] = blk[Pointer(disk[cur], blk, i)]
    BY <1>1, <1>5 DEF Arrays, BlockIn
  <2>5. ASSUME NEW i \in DOMAIN Arrays'[cur]
        PROVE  Arrays'[cur][i] \in Content /\ Arrays'[cur][i] = Arrays[cur][i]
    <3>1. i \in Slots(NumBlocks(disk[cur].size)) /\ i \in SlotsOf(cur) /\ i \in DOMAIN Arrays[cur]
      BY <2>2, <2>3, <2>4, SlotsMember DEF SlotsOf
    <3>2. Pointer(disk[cur], blk, i) = Pointer(mem[cur], blk, i)
      BY <2>2, <2>3, <3>1, AgreesPointer
    <3>3. Pointer(mem[cur], blk, i) \in Blocks
      BY <1>0, <1>2, <1>5, <3>1 DEF Sound, TypeOK, BlockIn
    <3> QED
      BY <1>0, <2>4, <3>1, <3>2, <3>3 DEF TypeOK
  <2>6. /\ \A i \in DOMAIN Arrays[cur] \cap DOMAIN Arrays'[cur] : Arrays'[cur][i] = Arrays[cur][i]
        /\ \A i \in DOMAIN Arrays'[cur] : Arrays'[cur][i] \in Content
        /\ \A g \in linked \ {cur} : Arrays'[g] = Arrays[g]
    BY <1>3, <2>5
  <2> QED
    BY <1>1, <1>5, <2>1, <2>6, AbstractStep
<1> QED
  BY <1>4, <1>5

\* Every step creates, removes, resizes or writes one array, or none.
LEMMA StepArrays ==
    ASSUME IInv, IInv', Next, history # "torn", history' # "torn"
    PROVE  Abstract!Next \/ Arrays' = Arrays
<1>0. TypeOK /\ Fits /\ InOperation /\ Sound /\ Coherent /\ TypeOK' /\ Sound'
  BY DEF IInv
<1>1. linked \subseteq Files /\ linked \subseteq Holders
  BY <1>0 DEF TypeOK, Holders
<1>2. ASSUME NEW f \in Files, Create(f) PROVE Abstract!Next
  <2>1. /\ f \notin linked /\ linked' = linked \cup {f} /\ blk' = blk
        /\ mem'[f] = EmptyInode /\ \A g \in linked : mem'[g] = mem[g]
    BY <1>0, <1>1, <1>2 DEF Create, TypeOK
  <2>2. ASSUME NEW g \in linked PROVE Arrays'[g] = Arrays[g]
    <3>1. \A v \in 0 .. (NumBlocks(mem[g].size) - 1) : blk'[BlockIn(g, v)'] = blk[BlockIn(g, v)]
      BY <2>1 DEF BlockIn
    <3> QED
      BY <2>1, <3>1, SameArray
  <2>3. DOMAIN Arrays'[f] = {}
    <3>1. NumBlocks(mem'[f].size) = 0
      BY <2>1, EmptyInodeType, NumBlocksNat
    <3>2. DOMAIN Arrays'[f] = 0 .. (NumBlocks(mem'[f].size) - 1)
      BY <2>1 DEF Arrays
    <3> QED
      BY <3>1, <3>2
  <2> QED
    BY <2>1, <2>2, <2>3, AbstractStep
<1>3. ASSUME NEW f \in linked, NEW size \in Nat, Falloc(f, size), linked' = linked PROVE Abstract!Next
  <2>1. f \in Holders /\ f \in Files
    BY <1>1
  <2>2. /\ \A g \in linked \ {f} : Arrays'[g] = Arrays[g]
        /\ \A i \in DOMAIN Arrays[f] \cap DOMAIN Arrays'[f] : Arrays'[f][i] = Arrays[f][i]
        /\ \A i \in DOMAIN Arrays'[f] : Arrays'[f][i] \in Content
    BY <1>0, <1>3, <2>1, FallocArrays
  <2> QED
    BY <1>3, <2>1, <2>2, AbstractStep
<1>4. ASSUME NEW f \in Files, NEW size \in Sizes, Resize(f, size) PROVE Abstract!Next
  BY <1>3, <1>4, DataAssumption DEF Resize
<1>5. ASSUME NEW f \in Files, GrowDir(f) PROVE Abstract!Next
  <2>1. f \in linked /\ mem[f].size + BLOCKSIZE \in Nat /\ linked' = linked
    BY <1>0, <1>5, GeometryAssumption DEF GrowDir, TypeOK, Inode
  <2>2. Falloc(f, mem[f].size + BLOCKSIZE)
    BY <1>5 DEF GrowDir, Falloc
  <2> QED
    BY <1>3, <2>1, <2>2
<1>6. ASSUME NEW words \in Payload, WriteData(words) PROVE Abstract!Next
  <2>1. /\ cur \in linked /\ next \in 0 .. (NumBlocks(mem[cur].size) - 1)
        /\ Writes(cur, next, blk') /\ UNCHANGED <<mem, linked>>
    BY <1>0, <1>6, WriteDataWrites
  <2>2. blk' = [blk EXCEPT ![BlockIn(cur, next)] = words] /\ words \in Content
    BY <1>6, DataAssumption DEF WriteData, BlockIn
  <2>3. \E i \in DOMAIN Arrays[cur], c \in Content : Arrays' = [Arrays EXCEPT ![cur][i] = c]
    BY <1>0, <2>1, <2>2, WriteArrays
  <2> QED
    BY <1>1, <2>1, <2>3, AbstractStep
<1>7. ASSUME NEW f \in Files, NEW words \in Payload,
             NEW v \in 0 .. (MaxBlocks - 1), WriteDir(f, v, words)
      PROVE  Abstract!Next
  <2>1. f \in linked /\ Writes(f, v, blk') /\ UNCHANGED <<mem, linked>>
    BY <1>0, <1>7, WriteDirWrites
  <2>2. /\ blk' = [blk EXCEPT ![BlockIn(f, v)] = words] /\ words \in Content
        /\ v \in 0 .. (NumBlocks(mem[f].size) - 1)
    BY <1>7, DataAssumption DEF WriteDir, BlockIn
  <2>3. \E i \in DOMAIN Arrays[f], c \in Content : Arrays' = [Arrays EXCEPT ![f][i] = c]
    BY <1>0, <2>1, <2>2, WriteArrays
  <2> QED
    BY <2>1, <2>3, AbstractStep
<1>8. ASSUME WriteInode \/ WriteDirInode PROVE Arrays' = Arrays
  <2>1. UNCHANGED <<mem, blk, linked>>
    BY <1>8 DEF WriteInode, WriteDirInode
  <2> QED
    BY <2>1 DEF Arrays, BlockIn
<1>9. ASSUME NEW f \in Files, Unlink(f) PROVE Abstract!Next
  <2>1. f \in linked /\ linked' = linked \ {f} /\ UNCHANGED <<mem, blk>>
    BY <1>9 DEF Unlink
  <2>2. ASSUME NEW g \in linked \ {f} PROVE Arrays'[g] = Arrays[g]
    <3>1. \A v \in 0 .. (NumBlocks(mem[g].size) - 1) : blk'[BlockIn(g, v)'] = blk[BlockIn(g, v)]
      BY <2>1 DEF BlockIn
    <3> QED
      BY <2>1, <3>1, SameArray
  <2> QED
    BY <2>1, <2>2, AbstractStep
<1>10. ASSUME FreeInode PROVE Arrays' = Arrays
  <2>1. cur \in Holders /\ cur \notin linked /\ Falloc(cur, 0) /\ linked' = linked
    BY <1>0, <1>10 DEF FreeInode, InOperation, Holders
  <2>2. \A g \in linked \ {cur} : Arrays'[g] = Arrays[g]
    BY <1>0, <2>1, FallocArrays
  <2> QED
    BY <2>1, <2>2, SameArrays
<1>11. ASSUME NEW f \in Files, NEW size \in Sizes,
              NEW zeroed \in 1 .. 4, NEW stored \in 0 .. 3, KillInFalloc(f, size, zeroed, stored)
       PROVE  Arrays' = Arrays
  <2>1. mem' = disk /\ linked' = linked
    BY <1>11 DEF KillInFalloc, Restart
  <2>2. ASSUME NEW g \in linked PROVE Arrays'[g] = Arrays[g]
    <3>1. /\ mem[g] = disk[g]
          /\ \A s \in SlotsOf(g) : /\ Pointer(mem[g], blk', s) = BlockIn(g, s)
                                   /\ s >= 0 => blk'[BlockIn(g, s)] = blk[BlockIn(g, s)]
      BY <1>0, <1>11, CutOffWrites
    <3>2. \A v \in 0 .. (NumBlocks(mem[g].size) - 1) : v \in SlotsOf(g) /\ v >= 0
      BY <1>0, <1>1, DataSlots
    <3>3. \A v \in 0 .. (NumBlocks(mem[g].size) - 1) : BlockIn(g, v)' = BlockIn(g, v)
      BY <2>1, <3>1, <3>2 DEF BlockIn
    <3> QED
      BY <2>1, <3>1, <3>2, <3>3, SameArray
  <2> QED
    BY <2>1, <2>2, SameArrays
<1> QED
  BY <1>2, <1>4, <1>5, <1>6, <1>7, <1>8, <1>9, <1>10, <1>11, KillArrays DEF Next

\* The allocator and its callers implement arrays of blocks: whatever the disk,
\* the files, the sizes and the contents written, and wherever the engine dies,
\* a step changes one file as the abstract specification allows, until a death
\* tears a shrinking write (fs_falloc.go:61-275, fs_fd.go:105-142).
THEOREM FilesAreArrays == Spec => ImplementsFileArrays
<1>1. Init => Abstract!Init
  <2> SUFFICES ASSUME Init PROVE Abstract!Init
    OBVIOUS
  <2>1. history # "torn" /\ linked = {}
    BY DEF Init
  <2>2. Arrays = [f \in {} |-> {}]
    BY <2>1 DEF Arrays
  <2> QED
    BY <2>1, <2>2 DEF Abstract!Init
<1>2. IInv /\ IInv' /\ [Next]_vars => [Abstract!Next]_(Abstract!vars)
  <2> SUFFICES ASSUME IInv, IInv', [Next]_vars PROVE Abstract!Next \/ UNCHANGED Abstract!vars
    OBVIOUS
  <2>1. CASE UNCHANGED vars
    BY <2>1 DEF vars, Abstract!vars, Arrays, BlockIn
  <2>2. CASE history' = "torn"
    BY <2>2 DEF Abstract!Next
  <2>3. CASE Next /\ history' # "torn"
    <3>1. history # "torn"
      BY <2>3 DEF Next, Create, Resize, WriteData, WriteInode, GrowDir, WriteDirInode,
                  WriteDir, Unlink, FreeInode, Kill, KillInFalloc
    <3>2. Abstract!Next \/ Arrays' = Arrays
      BY <2>3, <3>1, StepArrays
    <3> QED
      BY <2>3, <3>1, <3>2 DEF Abstract!vars
  <2> QED
    BY <2>1, <2>2, <2>3
<1> QED
  BY <1>1, <1>2, Invariance, PTL DEF Spec, ImplementsFileArrays, Abstract!Spec
=============================================================================
