---------------------------- MODULE MCInputBuf ----------------------------
(* Small instances of InputBuf.                                            *)
EXTENDS InputBuf
=============================================================================
