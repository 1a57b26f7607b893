----------------------------- MODULE FileArrays -----------------------------
(***************************************************************************)
(* What the block allocator and its callers promise: a file is an array of  *)
(* blocks, and every step changes one array in one way.  Module Falloc      *)
(* implements this, with bitmaps, pointer tables and an engine that dies.   *)
(***************************************************************************)
EXTENDS Integers

CONSTANTS
    Files,          \* names of arrays
    Content         \* what a block may hold

VARIABLES
    arrays,         \* the arrays that exist, each a function on 0 .. (n - 1)
    sound           \* no death has torn a shrinking write

vars == <<arrays, sound>>

Others(f) == \A g \in DOMAIN arrays \ {f} : g \in DOMAIN arrays' /\ arrays'[g] = arrays[g]

Init == arrays = [f \in {} |-> {}] /\ sound = TRUE

\* A new array is empty.
Create(f) ==
    /\ f \notin DOMAIN arrays /\ DOMAIN arrays' = DOMAIN arrays \cup {f}
    /\ DOMAIN arrays'[f] = {}
    /\ Others(f)

Remove(f) ==
    /\ f \in DOMAIN arrays /\ DOMAIN arrays' = DOMAIN arrays \ {f}
    /\ Others(f)

\* Growing and shrinking, and a restart that takes growth back, keep every
\* block that is there before and after; a new block may hold anything.
Resize(f) ==
    /\ f \in DOMAIN arrays /\ DOMAIN arrays' = DOMAIN arrays
    /\ \A i \in DOMAIN arrays[f] \cap DOMAIN arrays'[f] : arrays'[f][i] = arrays[f][i]
    /\ \A i \in DOMAIN arrays'[f] : arrays'[f][i] \in Content
    /\ Others(f)

\* A write changes one block of one array.
Write(f) ==
    /\ f \in DOMAIN arrays
    /\ \E i \in DOMAIN arrays[f], c \in Content : arrays' = [arrays EXCEPT ![f][i] = c]

\* Nothing is promised once a shrinking write has been torn.
Next ==
    \/ sound' = FALSE
    \/ /\ sound = TRUE /\ sound' = TRUE
       /\ \E f \in Files : Create(f) \/ Remove(f) \/ Resize(f) \/ Write(f)

Spec == Init /\ [][Next]_vars
=============================================================================
