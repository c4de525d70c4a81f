---------------------------- MODULE MCEventFlag ----------------------------
(* EventFlag on small instances. *)
EXTENDS EventFlag, TLC

CONSTANTS t1, t2, t3, f1, b1, b2

MCTask    == {t1, t2, t3}
MCBasePri == t1 :> 1 @@ t2 :> 2 @@ t3 :> 2
MCFlg     == {f1}
MCInitPtn == f1 :> {}
MCBit     == {b1, b2}
MCModes   == {{"ORW", "BITCLR"}, {"CLR"}}
MCFlgWaits == {-1, 1}

MCSymmetry == Permutations({t2, t3}) \cup Permutations({b1, b2})
=============================================================================
