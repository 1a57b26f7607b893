------------------------------ MODULE MCEngine ------------------------------
(***************************************************************************)
(* Engine with two admins, who can spawn, delete and reset against each     *)
(* other, two names and addresses, so that a spawn can clash in either, and *)
(* a client.                                                                *)
(***************************************************************************)
EXTENDS Engine

CONSTANTS n1, n2, i1, i2, a1, a2, c1

MCNames   == {n1, n2}
MCIPs     == {i1, i2}
MCAdmins  == {a1, a2}
MCClients == {c1}
=============================================================================
