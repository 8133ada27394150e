---------------------------- MODULE MCEventQueue ----------------------------
(* Small instances of EventQueue.  Nodes of event_buf are interchangeable. *)
EXTENDS EventQueue, TLC

CONSTANTS c1, b1, b2, n1, n2

NodeSymmetry == Permutations(EventBuf)
=============================================================================
