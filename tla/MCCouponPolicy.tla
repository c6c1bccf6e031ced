---------------------------- MODULE MCCouponPolicy ----------------------------
(* An instance of CouponPolicyReload for TLC.                              *)
EXTENDS CouponPolicyReload
=============================================================================
