--------------------------- MODULE MCTransactions ---------------------------
(* Instances of Transactions for TLC: two calls, and a nested one that the *)
(* callback of the first makes or leaves behind.                           *)
EXTENDS Transactions

CONSTANTS t1, t2, t3, q, k1, k2

TwoAndOne == [t \in Tx |-> IF t = t1 THEN 2 ELSE IF t = t2 THEN 1 ELSE 0]

NestedThird == [t \in Tx |-> IF t = t3 THEN t1 ELSE None]
=============================================================================
