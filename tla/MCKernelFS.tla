----------------------------- MODULE MCKernelFS -----------------------------
(***************************************************************************)
(* KernelFS on a disk of four blocks of three slots and four inodes: a       *)
(* directory is full with one child, so directories grow, and disk and      *)
(* inode table can run out.                                                 *)
(***************************************************************************)
EXTENDS KernelFS

CONSTANT MaxOps     \* syscalls and crashes in a behaviour

VARIABLE budget

MCInums == 2 .. 5
MCPaths == {<<>>, <<"a">>, <<"b">>, <<"a", "a">>, <<"long">>}
MCModes == {<<{"r", "w"}, {"r", "w", "x"}>>, <<{"r", "w", "x"}, {"r", "w"}>>}

MCInit == Init /\ budget = MaxOps

MCNext ==
    \/ budget > 0 /\ budget' = budget - 1 /\ (Syscall \/ (~Idle /\ Kill))
    \/ UNCHANGED budget /\ Step

\* A directory that lists itself is freed without end.
Finite == Len(todo) <= 8

MCSpec == MCInit /\ [][MCNext]_<<vars, budget>>
=============================================================================
