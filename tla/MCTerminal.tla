----------------------------- MODULE MCTerminal -----------------------------
(***************************************************************************)
(* Terminal with a bounded number of keystrokes.                            *)
(***************************************************************************)
EXTENDS Terminal

CONSTANT MaxKeys    \* keystrokes in a behaviour, over all connections

VARIABLE typed

MCInit == Init /\ typed = 0

MCNext ==
    \E c \in Conns :
       \/ \E key \in Keys : typed < MaxKeys /\ typed' = typed + 1 /\ Type(c, key)
       \/ (Connect(c) \/ HangUp(c)) /\ UNCHANGED typed
       \/ Main(c) /\ UNCHANGED typed
       \/ Interrupted(c) /\ UNCHANGED typed
       \/ DeferredRaw(c) /\ UNCHANGED typed
       \/ Scanner(c) /\ UNCHANGED typed

MCSpec == MCInit /\ [][MCNext]_<<vars, typed>> /\ Fairness
=============================================================================
