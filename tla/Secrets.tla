-------------------------------- MODULE Secrets --------------------------------
(***************************************************************************)
(* A secret source and its readers.  The remote sources (SSM, Secret       *)
(* Manager, Kubernetes) may stand behind a CachingSecretSource, which      *)
(* keeps what it finds for a while and lets concurrent reads of one key    *)
(* share a call.  Operators rotate, create and delete secrets meanwhile.   *)
(***************************************************************************)
EXTENDS Naturals

CONSTANTS
  SecretName, Secret,
  Bare,          \* keys that are no full names
  Under,         \* the name a bare key stands for under the source's prefix
  Reader,
  Sources,       \* the sources in use
  TtlMs,         \* how long a value found is kept; 0: without end
  Latency,       \* bound: how long a remote call takes
  SecretHorizon, \* bound: the last instant of the clock
  Requests,      \* bound: the reads made, [op, key]
  MaxReads,      \* bound: how many calls are made
  MaxRotations,  \* bound: how often a secret changes
  None           \* absent

VARIABLES
  source,    \* the source in use, and whether it is cached
  upstream,  \* the secret each name stands for
  kept,      \* the cached value of each key and when it expires
  inflight,  \* the reader whose call the others of a key share
  reads,     \* each reader's call
  instant,
  turns,     \* how many reads and rotations there were
  told,      \* history: the answers given in the last step
  was        \* history: what each name stood for during each instant

secretVars == <<source, upstream, kept, inflight, reads, instant, turns, told, was>>

SecretKey == SecretName \union Bare

Remote == {"ssm", "gcp", "kubectl"}

\* at is where the call is: looking in the cache, asking the remote source,
\* storing its answer, found, or waiting for the call of another reader.  since
\* is when it was made and asked when its remote call was.
Read == [op : {"get", "required", "ping"}, key : SecretKey, since : Nat, asked : Nat,
         at : {"looking", "asking", "storing", "waiting"},
         found : Secret \union {None}]

\* A value that is kept, until when; 0 stands for no end.
Kept == [value : Secret, until : Nat]

SecretsAssumption ==
  /\ Bare \intersect SecretName = {} /\ Under \in [Bare -> SecretName]
  /\ Sources \subseteq Remote \union {"env", "static", "noop"}
  /\ TtlMs \in Nat /\ Latency \in Nat /\ SecretHorizon \in Nat
  /\ Requests \subseteq [op : {"get", "required"}, key : SecretKey]
  /\ MaxReads \in Nat /\ MaxRotations \in Nat /\ SecretName # {}
  /\ None \notin Secret \union Reader \union SecretName \union Read \union Kept
  /\ None \notin {"missing", "failed", "ok"}
  /\ Secret \intersect {"missing", "failed", "ok"} = {}

NewRead(op, k, at) ==
  [op |-> op, key |-> k, since |-> instant, asked |-> instant, at |-> at,
   found |-> None]

At(r) == IF reads[r] = None THEN "idle" ELSE reads[r].at

TypeOK ==
  /\ source.name \in Sources /\ source.cached \in BOOLEAN
  /\ upstream \in [SecretName -> Secret \union {None}]
  /\ kept \in [SecretKey -> Kept \union {None}]
  /\ inflight \in [SecretKey -> Reader \union {None}]
  /\ reads \in [Reader -> Read \union {None}]
  /\ instant \in 0..SecretHorizon
  /\ turns \in [reads : 0..MaxReads, rotations : 0..MaxRotations]
  /\ told \subseteq [op : {"get", "required", "ping"}, key : SecretKey, since : Nat,
                     answer : Secret \union {None, "missing", "failed", "ok"}]
  /\ was \in [SecretName -> [0..SecretHorizon -> SUBSET (Secret \union {None})]]

\* A cached source is never a local one, nor is the cache kept with a TTL of 0.
Init ==
  /\ \E name \in Sources, cached \in BOOLEAN :
       /\ cached => name \in Remote /\ TtlMs > 0
       /\ source = [name |-> name, cached |-> cached]
  /\ upstream \in [SecretName -> Secret \union {None}]
  /\ kept = [k \in SecretKey |-> None]
  /\ inflight = [k \in SecretKey |-> None]
  /\ instant = 0
  /\ reads = [r \in Reader |-> None]
  /\ told = {}
  /\ turns = [reads |-> 0, rotations |-> 0]
  /\ was = [n \in SecretName |->
              [t \in 0..SecretHorizon |-> IF t = 0 THEN {upstream[n]} ELSE {}]]

-----------------------------------------------------------------------------
(* Names and answers.                                                      *)

\* The name a key stands for.  A map has its own keys and no prefix, the
\* environment's prefix goes before every key, and the remote sources take a name
\* that is complete as it is.
NameOf(k) ==
  IF k \in Bare THEN IF source.name = "static" THEN None ELSE Under[k]
  ELSE IF source.name = "env" THEN None ELSE k

Held(k) == IF NameOf(k) = None THEN None ELSE upstream[NameOf(k)]

\* Kubernetes names are secret-name/key, and one without its slash is refused.
Refused(k) == source.name = "kubectl" /\ k \in Bare

\* getRequired turns an absent secret into an error.
Told(r, answer) ==
  IF reads[r].op = "required" /\ answer = None THEN "missing" ELSE answer

\* The calls in rs end with that answer.
EndAll(rs, answer) ==
  /\ reads' = [r \in Reader |-> IF r \in rs THEN None ELSE reads[r]]
  /\ told' = {[op |-> reads[r].op, key |-> reads[r].key,
               since |-> reads[r].since, answer |-> Told(r, answer)] : r \in rs}

Silent == told' = {}

Sharers(r) ==
  {r} \union {s \in Reader : At(s) = "waiting" /\ reads[s].key = reads[r].key}

\* Mutant of Settle: a call that failed stays the one to wait for.
SettleLeaving(r, answer) ==
  IF source.cached /\ reads[r].op # "ping"
    THEN /\ EndAll(Sharers(r), answer)
         /\ inflight' = IF answer = "failed" THEN inflight
                        ELSE [inflight EXCEPT ![reads[r].key] = None]
    ELSE EndAll({r}, answer) /\ UNCHANGED inflight

\* A shared call ends for all that wait for it, and is forgotten, however it
\* ends.
Settle(r, answer) ==
  IF source.cached /\ reads[r].op # "ping"
    THEN /\ EndAll(Sharers(r), answer)
         /\ inflight' = [inflight EXCEPT ![reads[r].key] = None]
    ELSE EndAll({r}, answer) /\ UNCHANGED inflight

-----------------------------------------------------------------------------
(* Calls.                                                                  *)

Counted == /\ turns.reads < MaxReads
           /\ turns' = [turns EXCEPT !.reads = @ + 1]

Idle(r) == reads[r] = None /\ Silent

\* The registration is made before anything is awaited.
CachedGet(r, op, k) ==
  /\ Idle(r) /\ Counted /\ source.cached
  /\ IF inflight[k] # None
       THEN /\ reads' = [reads EXCEPT ![r] = NewRead(op, k, "waiting")]
            /\ UNCHANGED inflight
       ELSE /\ reads' = [reads EXCEPT ![r] = NewRead(op, k, "looking")]
            /\ inflight' = [inflight EXCEPT ![k] = r]
  /\ UNCHANGED <<source, upstream, kept, instant, was>>

DirectGet(r, op, k) ==
  /\ Idle(r) /\ Counted /\ ~source.cached
  /\ reads' = [reads EXCEPT ![r] = NewRead(op, k, "asking")]
  /\ UNCHANGED <<source, upstream, kept, inflight, instant, was>>

\* ping() of a remote source asks for a secret that need not exist, and of a
\* local one nothing; the cache passes it on.
Ping(r) ==
  /\ reads[r] = None /\ Counted
  /\ LET k == CHOOSE j \in SecretKey : TRUE
     IN  IF source.name \in Remote
           THEN Silent /\ reads' = [reads EXCEPT ![r] = NewRead("ping", k, "asking")]
           ELSE /\ told' = {[op |-> "ping", key |-> k, since |-> instant,
                             answer |-> "ok"]}
                /\ UNCHANGED reads
  /\ UNCHANGED <<source, upstream, kept, inflight, instant, was>>

Hit(k) == kept[k] # None /\ (kept[k].until = 0 \/ kept[k].until > instant)

LookUp(r) ==
  /\ At(r) = "looking"
  /\ IF Hit(reads[r].key)
       THEN Settle(r, kept[reads[r].key].value)
       ELSE /\ reads' = [reads EXCEPT ![r].at = "asking", ![r].asked = instant]
            /\ Silent /\ UNCHANGED inflight
  /\ UNCHANGED <<source, upstream, kept, instant, turns, was>>

\* The cache of another process fails, which fails the read.
CacheFails(r) ==
  /\ At(r) \in {"looking", "storing"}
  /\ Settle(r, "failed")
  /\ UNCHANGED <<source, upstream, kept, instant, turns, was>>

-----------------------------------------------------------------------------
(* Sources.                                                                *)

\* The remote source has answered; only what it found is kept.
Reply(r, value) ==
  IF source.cached /\ value # None
    THEN /\ reads' = [reads EXCEPT ![r].at = "storing", ![r].found = value]
         /\ Silent /\ UNCHANGED inflight
    ELSE Settle(r, value)

Asking(r, name) == source.name = name /\ At(r) = "asking"

Getting(r) == reads[r].op # "ping"

\* A ParameterNotFound is a miss.
SsmAnswers(r) ==
  /\ Asking(r, "ssm") /\ Getting(r)
  /\ Reply(r, Held(reads[r].key))
  /\ UNCHANGED <<source, upstream, kept, instant, turns, was>>

\* So is a NOT_FOUND, and a version without a payload.
GcpAnswers(r) ==
  /\ Asking(r, "gcp") /\ Getting(r)
  /\ Reply(r, Held(reads[r].key))
  /\ UNCHANGED <<source, upstream, kept, instant, turns, was>>

\* So is a 404, and a secret that lacks the key.
KubectlAnswers(r) ==
  /\ Asking(r, "kubectl") /\ Getting(r)
  /\ IF Refused(reads[r].key) THEN Settle(r, "failed")
     ELSE Reply(r, Held(reads[r].key))
  /\ UNCHANGED <<source, upstream, kept, instant, turns, was>>

PingAnswered(r) ==
  /\ At(r) = "asking" /\ reads[r].op = "ping"
  /\ \E answer \in {"ok", "failed"} : EndAll({r}, answer)
  /\ UNCHANGED <<source, upstream, kept, inflight, instant, turns, was>>

\* Any other error is the reader's.
RemoteFails(r) ==
  /\ source.name \in Remote /\ At(r) = "asking" /\ Getting(r)
  /\ Settle(r, "failed")
  /\ UNCHANGED <<source, upstream, kept, instant, turns, was>>

EnvAnswers(r) ==
  /\ Asking(r, "env")
  /\ Settle(r, Held(reads[r].key))
  /\ UNCHANGED <<source, upstream, kept, instant, turns, was>>

StaticAnswers(r) ==
  /\ Asking(r, "static")
  /\ Settle(r, Held(reads[r].key))
  /\ UNCHANGED <<source, upstream, kept, instant, turns, was>>

NoopAnswers(r) ==
  /\ Asking(r, "noop")
  /\ Settle(r, None)
  /\ UNCHANGED <<source, upstream, kept, instant, turns, was>>

Store(r) ==
  /\ At(r) = "storing"
  /\ kept' = [kept EXCEPT ![reads[r].key] =
                [value |-> reads[r].found,
                 until |-> IF TtlMs = 0 THEN 0 ELSE instant + TtlMs]]
  /\ Settle(r, reads[r].found)
  /\ UNCHANGED <<source, upstream, instant, turns, was>>

-----------------------------------------------------------------------------

\* Environments and static maps do not change.
Rotate(n, s) ==
  /\ source.name \in Remote
  /\ turns.rotations < MaxRotations /\ s # upstream[n]
  /\ turns' = [turns EXCEPT !.rotations = @ + 1]
  /\ upstream' = [upstream EXCEPT ![n] = s]
  /\ was' = [was EXCEPT ![n][instant] = @ \union {s}]
  /\ Silent /\ UNCHANGED <<source, kept, inflight, reads, instant>>

\* The clock waits for no call but one that takes the longest a call may.
Elapse ==
  /\ instant < SecretHorizon
  /\ \A r \in Reader :
       At(r) \in {"asking", "storing"} => instant < reads[r].asked + Latency
  /\ instant' = instant + 1
  /\ was' = [n \in SecretName |-> [was[n] EXCEPT ![instant + 1] = {upstream[n]}]]
  /\ Silent /\ UNCHANGED <<source, upstream, kept, inflight, reads, turns>>

Next ==
  \/ \E r \in Reader :
       \/ \E q \in Requests : CachedGet(r, q.op, q.key) \/ DirectGet(r, q.op, q.key)
       \/ Ping(r) \/ LookUp(r) \/ CacheFails(r)
       \/ SsmAnswers(r) \/ GcpAnswers(r) \/ KubectlAnswers(r) \/ RemoteFails(r)
       \/ EnvAnswers(r) \/ StaticAnswers(r) \/ NoopAnswers(r)
       \/ PingAnswered(r) \/ Store(r)
  \/ \E n \in SecretName, s \in Secret \union {None} : Rotate(n, s)
  \/ Elapse

Spec == Init /\ [][Next]_secretVars

-----------------------------------------------------------------------------
(* Properties.                                                             *)

Before(t, d) == IF t > d THEN t - d ELSE 0

\* What name n stood for from instant t on.
Since(n, t) == UNION {was[n][u] : u \in t..instant}

\* A read answers a value its secret had no longer ago than the cache keeps one
\* and a remote call takes, whoever made that call; it answers that there is none
\* only if there was none within such a call; and no key has two remote calls
\* under way when the source is cached, nor a reader waiting for no call.  The
\* variables keep their types.
FreshAndShared ==
  /\ TypeOK
  /\ \A x \in told : x.answer \in Secret =>
       /\ NameOf(x.key) # None
       /\ x.answer \in Since(NameOf(x.key), Before(x.since, TtlMs + Latency))
  /\ \A x \in told : x.answer \in {None, "missing"} =>
       \/ source.name = "noop" \/ NameOf(x.key) = None
       \/ None \in Since(NameOf(x.key), Before(x.since, Latency))
  /\ source.cached =>
       \A k \in SecretKey :
         LET mine   == {r \in Reader : At(r) # "idle" /\ reads[r].key = k
                                       /\ reads[r].op # "ping"}
             owners == {r \in mine : At(r) # "waiting"}
         IN  (\A r, q \in owners : r = q) /\ (mine # {} => owners # {})
=============================================================================
