--------------------------- MODULE MCIdempotency ---------------------------
(* Instances of Idempotency for TLC: two calls that send the same request  *)
(* to the same build, and a third that reuses the key for another request  *)
(* or is served by the next build.                                         *)
EXTENDS Idempotency, TLC

CONSTANTS r1, r2, r3, fpA, fpB

OneFp == [r \in Request |-> fpA]
OtherRequest == [r \in Request |-> IF r = r3 THEN fpB ELSE fpA]

OneVersion == [r \in Request |-> 1]

\* A rolling deploy: the third call is served by the next build.
TwoVersions == [r \in Request |-> IF r = r3 THEN 2 ELSE 1]

EmptyStore == {None}

\* A store that earlier or later builds have used as well.
UsedStore ==
  {None} \union
  [version : {1, 2}, state : {"completed"}, fp : {fpA}, claim : {None}, life : {1}] \union
  [version : {1}, state : {"unknown"}, fp : {fpA}, claim : {None}, life : {1}]

ReadFaults == {"get"}
AllFaults == RemoteCall

SameRequest == Permutations({r1, r2})
=============================================================================
