----------------------------- MODULE MCAsyncReq -----------------------------
(* Small instances of AsyncReq.                                            *)
EXTENDS AsyncReq

CONSTANTS w1, w2, w3, r1
=============================================================================
