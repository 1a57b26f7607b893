-------------------------------- MODULE Boot --------------------------------
(***************************************************************************)
(* How a node's disk.img comes into being (NewFileSystem in computer/fs.go, *)
(* NewComputer and initFSTree in computer/computer.go).  Formatting is one  *)
(* disk write after another and the engine may die between any two, so an   *)
(* image is known by how far it has got.  Whether a later boot              *)
(* formats is decided by the superblock alone, which is written first.      *)
(***************************************************************************)
EXTENDS Integers, Sequences

\* The writes in their order: the superblock; both bitmaps, the inode table, the
\* data blocks and the padding; the root inode; and the first-boot tree.
Steps == <<"super", "layout", "root", "tree">>

\* step: the writes done; users: whether /etc/passwd has entries.
Image == [step : 0 .. Len(Steps), users : BOOLEAN]

\* A file that OpenFile has just created and Truncate has filled with zeros.
Blank == [step |-> 0, users |-> FALSE]

\* A disk of an earlier version, with users on it.
Outdated == [step |-> 0, users |-> TRUE]

Complete(img) == img.step = Len(Steps)

\* Mutant: a disk whose header is right is formatted again.
IsInitializedNever(img) == FALSE

\* Magic and version are right.
IsInitialized(img) == img.step > 0

\* The image after the next write.  The first one gives up what was there.
Written(img) == [step |-> img.step + 1, users |-> img.users /\ img.step > 0]

\* What addUser may find: it reads and writes /etc/passwd when the tree is
\* complete; on a disk without all of its tree it may fail.
CanAddUser(img) == IF Complete(img) THEN {TRUE} ELSE BOOLEAN
=============================================================================
