------------------------------- MODULE MCStores -------------------------------
(* Instances of Stores for TLC.                                            *)
EXTENDS Stores

CONSTANTS k1, k2, k3, v1, v2, c1, c2, big

CacheCall(op, keys, value, ttl) ==
  [op |-> op, keys |-> keys, value |-> value, ttl |-> ttl]

\* A batch that meets single calls, three keys for two places, and a lifetime of
\* its own.
Batches ==
  {CacheCall("get", <<k1>>, v1, 0), CacheCall("get", <<k1, k2>>, v1, 0),
   CacheCall("set", <<k1>>, v2, 1), CacheCall("set", <<k2>>, v1, 0),
   CacheCall("set", <<k3>>, v1, 1), CacheCall("set", <<k2, k1>>, v1, 0),
   CacheCall("delete", <<k1>>, v1, 0)}

\* One secret, by its full name and by a key under the source's prefix.
SecretGets == {[op |-> "get", key |-> k1], [op |-> "required", key |-> k2]}

\* The bare key stands for the name.
Prefixed == [b \in {k2} |-> k1]

Symmetric == Permutations({c1, c2})
===============================================================================
