-------------------------------- MODULE Stores --------------------------------
(***************************************************************************)
(* The stores a process keeps its data in: cache, secret source and upload *)
(* manager.  They share nothing, so each behaviour is of one of them,      *)
(* chosen at the start, and the others stay as they began.                 *)
(***************************************************************************)
EXTENDS Caches

CONSTANTS
  SecretName, Secret, Bare, Under, Reader, Sources, TtlMs, Latency,
  SecretHorizon, Gets, MaxReads, MaxRotations,     \* of Secrets
  NumKeys, Version, Typed, TooLarge, User, Backends,
  PageSize, MaxJobs, MaxBreakdowns                 \* of Buckets

VARIABLES
  part,   \* what the behaviour is of
  source, upstream, kept, inflight, reads, instant, turns, told, was,
  backend, objects, side, litter, jobs, spent, reply

secretVars ==
  <<source, upstream, kept, inflight, reads, instant, turns, told, was>>
bucketVars == <<backend, objects, side, litter, jobs, spent, reply>>

S == INSTANCE Secrets WITH Requests <- Gets

B == INSTANCE Buckets

ASSUME StoresAssumption ==
  CachesAssumption /\ S!SecretsAssumption /\ B!BucketsAssumption

\* What a store could choose at its start is not varied where it stands still.
StoresInit ==
  /\ part \in {"cache", "source", "bucket"}
  /\ Init /\ S!Init /\ B!Init
  /\ part # "cache" => cache = CHOOSE c \in CacheProviders : TRUE
  /\ part # "source" =>
       /\ source.name = CHOOSE name \in Sources : TRUE
       /\ upstream = [n \in SecretName |-> None]
  /\ part # "bucket" => backend = CHOOSE b \in Backends : TRUE

StoresNext ==
  /\ UNCHANGED part
  /\ \/ /\ part = "cache" /\ Next
        /\ UNCHANGED <<secretVars, bucketVars>>
     \/ /\ part = "source" /\ S!Next
        /\ UNCHANGED <<cacheVars, bucketVars>>
     \/ /\ part = "bucket" /\ B!Next
        /\ UNCHANGED <<cacheVars, secretVars>>

storesVars == <<part, cacheVars, secretVars, bucketVars>>

StoresSpec == StoresInit /\ [][StoresNext]_storesVars

-----------------------------------------------------------------------------
(* Besides the properties of Caches, those of the other stores.            *)

\* A secret is read as it was no longer ago than the cache keeps one and a call
\* takes, and readers of a cached key share one call (Secrets); an object is always
\* one whole version the size limit admits, and calls answer versions that were
\* there while they ran (Buckets).
StoresAreTruthful == S!FreshAndShared /\ B!ObjectsAreWhole
=============================================================================
