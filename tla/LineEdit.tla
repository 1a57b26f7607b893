------------------------------ MODULE LineEdit ------------------------------
(***************************************************************************)
(* What a line editor promises: a line, and a cursor in it; a key changes  *)
(* the line at the cursor, moves the cursor by one, recalls another line or*)
(* empties this one, as was asked.  Module Keyboard implements this, with  *)
(* positions that the code counts in runes or in bytes and a signal handler*)
(* that comes in between.                                                  *)
(***************************************************************************)
EXTENDS Integers, Sequences, SequencesExt

CONSTANT Runes

VARIABLES
    before, after,  \* the line on both sides of the cursor
    sound,          \* nothing has been typed that the editor cannot count
    asked           \* what the user asks for, which the editor does not choose

vars == <<before, after, sound>>

Init == before = <<>> /\ after = <<>> /\ sound = TRUE

\* Text is put in at the cursor, which ends up behind it.
Insert ==
    /\ asked = "text"
    /\ IsPrefix(before, before') /\ Len(before') > Len(before)
    /\ Range(before') \subseteq Runes
    /\ after' = after

Delete == asked = "delete" /\ before # <<>> /\ before' = Front(before) /\ after' = after

\* By one place, to either side.
Move ==
    /\ asked = "move"
    /\ before' \o after' = before \o after /\ Len(before') - Len(before) \in {-1, 1}

\* Another line, with the cursor at its end.
Recall == asked = "recall" /\ Range(before') \subseteq Runes /\ after' = <<>>

Clear == asked = "clear" /\ before' = <<>> /\ after' = <<>>

Next ==
    \/ sound' = FALSE
    \/ sound = TRUE /\ sound' = TRUE /\ (Insert \/ Delete \/ Move \/ Recall \/ Clear)

Spec == Init /\ [][Next]_vars
=============================================================================
