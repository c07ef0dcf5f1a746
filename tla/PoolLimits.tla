----------------------------- MODULE PoolLimits -----------------------------
(***************************************************************************)
(* What the controller of AutoRegistration and the estimate of             *)
(* PoolCapacity share: the cap on the usable accounts of the pool and the  *)
(* two comparisons of image_pool_capacity.go.                              *)
(***************************************************************************)
EXTENDS Integers

CONSTANT MaxUsable    \* image_pool_max_usable_accounts

ASSUME LimitAssumption == MaxUsable \in Nat \ {0}

minInt(a, b) == IF a < b THEN a ELSE b
maxInt(a, b) == IF a > b THEN a ELSE b
=============================================================================
