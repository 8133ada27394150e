----------------------------- MODULE MCProtocol -----------------------------
(* Small instances of Protocol: two clients that send ordinary commands    *)
(* and one that redirects the channel.                                     *)
EXTENDS Protocol

CONSTANTS x1, x2, r1
=============================================================================
