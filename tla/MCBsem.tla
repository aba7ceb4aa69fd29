------------------------------- MODULE MCBsem -------------------------------
(* Instances of Bsem for TLC: two processes, one with two threads.           *)
EXTENDS Bsem, TLC

CONSTANTS t1, t2, t3
Threads3 == {t1, t2, t3}
ProcOf3 == t1 :> 1 @@ t2 :> 1 @@ t3 :> 2
SlotOf3 == t1 :> 0 @@ t2 :> 1 @@ t3 :> 0
=============================================================================
