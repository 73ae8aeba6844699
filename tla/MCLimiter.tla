----------------------------- MODULE MCLimiter ------------------------------
(* TLC instances of Limiter                                                  *)
EXTENDS Limiter
=============================================================================
