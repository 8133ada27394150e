----------------------------- MODULE MCStreams -----------------------------
(* Small instances of Streams.                                             *)
EXTENDS Streams

CONSTANTS c1, c2
=============================================================================
