----------------------------- MODULE MCRunCtrl -----------------------------
EXTENDS RunCtrl
CONSTANTS t1, t2, t3, p1, p2
OneProcess == (t1 :> p1) @@ (t2 :> p1)
TwoThreads == <<t1, t2>>
ThreeThreads == <<t1, t2, t3>>
OneAndTwo == (t1 :> p1) @@ (t2 :> p1) @@ (t3 :> p2)
=============================================================================
