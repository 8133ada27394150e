------------------------------ MODULE MCCache ------------------------------
(* Small instances of Cache.                                               *)
EXTENDS Cache

CONSTANTS k1, k2, h1
=============================================================================
