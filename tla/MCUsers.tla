------------------------------ MODULE MCUsers ------------------------------
(***************************************************************************)
(* Users with two names, two goroutines that add users, each of them the   *)
(* program or the admin command, two logins, of one user or of two, and as *)
(* many inodes for their directories as names.  u1 has 13 bytes, and u2 is *)
(* u1 with more behind it.                                                 *)
(***************************************************************************)
EXTENDS Users

CONSTANTS u1, u2, a1, a2, l1, l2

MCUserNames == {u1, u2}
MCPrefix    == [u \in MCUserNames |-> u1]
MCInums     == {1, 2}
MCAdders    == {a1, a2}
MCLogins    == {l1, l2}

\* What adds users and what logs them in share nothing but one reading of the
\* file, CheckCredentials: they take turns.
OneKind ==
    \/ \A a \in Adders : add[a].at = "idle"
    \/ \A l \in Logins : login[l].at = "idle"
=============================================================================
