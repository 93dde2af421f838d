------------------------------- MODULE MCConf -------------------------------
(* Conf with three keys, two of which have the same hash.                  *)
EXTENDS Conf, TLC

CONSTANTS k1, k2, k3

HashWithCollision == k1 :> 7 @@ k2 :> 7 @@ k3 :> 5
=============================================================================
