-------------------------- MODULE MCLockProviders --------------------------
(* Instances of LockProviders for TLC. *)
EXTENDS LockProviders, TLC

CONSTANTS t1, t2, t3

Callers == Permutations({t1, t2, t3})
=============================================================================
