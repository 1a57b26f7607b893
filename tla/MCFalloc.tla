------------------------------ MODULE MCFalloc ------------------------------
(***************************************************************************)
(* Falloc on a disk of nine blocks: one direct pointer and tables of two,   *)
(* so that every boundary, every table and a full disk are within reach of  *)
(* a few operations.                                                        *)
(***************************************************************************)
EXTENDS Falloc

CONSTANTS
    reg, dir, t,
    MaxOps          \* operations started in a behaviour

VARIABLE budget

MCFiles == {reg, dir}
MCDirs  == {dir}
MCText  == {t}

\* A program writes text mixed with bytes that look like a pointer to block 1.
MCPayload == {[i \in 0 .. (PERIND - 1) |-> IF i = 0 THEN t ELSE 1]}

\* 0, 1, 2, 3, 6 blocks: both sides of the boundaries 1, 3 and 5; and 8, too many.
MCSizes == {0, 2, 3, 6, 11, 15}

MCInit == Init /\ budget = MaxOps

MCNext ==
    /\ Next
    /\ Idle => budget > 0
    /\ budget' = IF Idle THEN budget - 1 ELSE budget

MCSpec == MCInit /\ [][MCNext]_<<vars, budget>>

\* After a torn shrink the invariants promise nothing, and torn is for good.
NotTorn == history # "torn"
=============================================================================
