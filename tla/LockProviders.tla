--------------------------- MODULE LockProviders ---------------------------
(***************************************************************************)
(* The memory, redis and postgres providers of DistributedLock, for one    *)
(* key.  The store keeps one row; callers reach it through calls that are  *)
(* sent, served and answered, so a lease may lapse on the way, an answer   *)
(* may be lost while its command still lands, and ioredis may send a       *)
(* command a second time.                                                  *)
(*                                                                         *)
(* A row's life is the time to its expiry: above zero it is live, at zero  *)
(* its expiry is now, and at -1 it is past.  The stores differ in which of *)
(* the three they treat how, and in whether they keep a dead row at all.   *)
(* Each acquire() call mints a unique token, so the token is the call and  *)
(* the Lock object it returns.                                             *)
(***************************************************************************)
EXTENDS Integers

CONSTANTS
  Token,     \* the acquire() calls, each with the token it mints
  Providers, \* the providers in use, among "memory", "redis" and "postgres"
  Ttls,      \* the lease lifetimes that callers ask for
  Resends,   \* maxRetriesPerRequest: how often ioredis sends a command again
  None       \* absent: row, call

VARIABLES
  provider, \* the provider that serves this key
  row,      \* the store's lease for the key, live or dead
  caller,   \* what each acquire() call's maker knows
  sure,     \* how long it may rely on its lease, counted from when it asked
  call      \* the command each maker has under way, by operation

vars == <<provider, row, caller, sure, call>>

Op == {"acquire", "refresh", "release"}

\* new: not asked yet; acquiring: no answer yet; held: told it holds the key;
\* over: answered and no longer relying on it; gone: never learned the answer.
Standing == {"new", "acquiring", "held", "over", "gone"}

Row == [token : Token, life : Nat \union {-1}]

\* ttl is the lease a command asks for (none, for a release), and left what a
\* positive answer leaves its caller of it, counted from the moment it asked.
\* A call nobody awaits any more may still be served.
Call == [ttl : Ttls \union {0}, left : Nat, served : BOOLEAN, ok : BOOLEAN,
         awaited : BOOLEAN, resends : 0..Resends]

ASSUME LockAssumption ==
  /\ Providers \subseteq {"memory", "redis", "postgres"}
  /\ Ttls \subseteq Nat \ {0}
  /\ Resends \in Nat
  /\ None \notin Token /\ None \notin Row /\ None \notin Call

TypeOK ==
  /\ provider \in Providers
  /\ row \in Row \union {None}
  /\ caller \in [Token -> Standing]
  /\ sure \in [Token -> Nat]
  /\ call \in [Op -> [Token -> Call \union {None}]]
  /\ \A o \in Op, t \in Token :
       call[o][t] # None => (call[o][t].ttl = 0 <=> o = "release")

Least(m, n) == IF m < n THEN m ELSE n

-----------------------------------------------------------------------------
(* The stores' conditions.                                                 *)

Live == row # None /\ row.life > 0

\* Mutant of Grantable: nobody takes over a dead row.
GrantableIfAbsent == row = None

\* memory: free, or swept because expiresAt <= now.  redis: SET NX, and redis
\* drops a key as it expires.  postgres: no row, or one with expires_at < now().
Grantable ==
  row # None =>
    \/ provider = "memory" /\ row.life <= 0
    \/ provider = "postgres" /\ row.life < 0

Owns(t) == row # None /\ row.token = t

\* Mutant of Extendable: whoever's lease it is, it is extended.
ExtendableByAnyone(t) == Live

\* Mutant of Extendable: the token decides, live or not.
ExtendableByToken(t) == Owns(t)

\* memory's #owns and the postgres UPDATE also ask that the lease be live; the
\* redis script need not.
Extendable(t) == Owns(t) /\ (provider \in {"memory", "postgres"} => row.life > 0)

\* The postgres DELETE matches the token alone.
Releasable(t) == Owns(t) /\ (provider = "memory" => row.life > 0)

-----------------------------------------------------------------------------
Init ==
  /\ provider \in Providers
  /\ row = None
  /\ caller = [t \in Token |-> "new"]
  /\ sure = [t \in Token |-> 0]
  /\ call = [o \in Op |-> [t \in Token |-> None]]

Asked(ttl) ==
  [ttl |-> ttl, left |-> ttl, served |-> FALSE, ok |-> FALSE, awaited |-> TRUE, resends |-> 0]

Ask(o, t, ttl) == call' = [call EXCEPT ![o][t] = Asked(ttl)]

Pending(o, t) == call[o][t] # None /\ ~call[o][t].served

Answered(o, t) == call[o][t] # None /\ call[o][t].served /\ call[o][t].awaited

\* The store has executed a command; an answer nobody awaits is dropped.
Served(c, ok) == IF c.awaited THEN [c EXCEPT !.served = TRUE, !.ok = ok] ELSE None

Serve(o, t, ok) == call' = [call EXCEPT ![o][t] = Served(call[o][t], ok)]

\* Lock.acquire is called.
AskAcquire(t) ==
  /\ caller[t] = "new"
  /\ caller' = [caller EXCEPT ![t] = "acquiring"]
  /\ \E ttl \in Ttls : Ask("acquire", t, ttl)
  /\ UNCHANGED <<provider, row, sure>>

\* Lock.refresh is called with a lifetime of its own.  Until the answer is in,
\* its caller can count on the shorter of the two leases.
AskRefresh(t) ==
  /\ caller[t] = "held" /\ call["refresh"][t] = None
  /\ \E ttl \in Ttls :
       /\ Ask("refresh", t, ttl)
       /\ sure' = [sure EXCEPT ![t] = Least(sure[t], ttl)]
  /\ UNCHANGED <<provider, row, caller>>

\* Lock.release is called; a refresh of the same lock may still be under way.
AskRelease(t) ==
  /\ caller[t] = "held" /\ call["release"][t] = None
  /\ caller' = [caller EXCEPT ![t] = "over"]
  /\ Ask("release", t, 0)
  /\ UNCHANGED <<provider, row, sure>>

ServeAcquire(t) ==
  /\ Pending("acquire", t)
  /\ \/ Grantable /\ row' = [token |-> t, life |-> call["acquire"][t].ttl]
                  /\ Serve("acquire", t, TRUE)
     \/ ~Grantable /\ UNCHANGED row /\ Serve("acquire", t, FALSE)
  /\ UNCHANGED <<provider, caller, sure>>

ServeRefresh(t) ==
  /\ Pending("refresh", t)
  /\ \/ Extendable(t) /\ row' = [row EXCEPT !.life = call["refresh"][t].ttl]
                      /\ Serve("refresh", t, TRUE)
     \/ ~Extendable(t) /\ UNCHANGED row /\ Serve("refresh", t, FALSE)
  /\ UNCHANGED <<provider, caller, sure>>

ServeRelease(t) ==
  /\ Pending("release", t)
  /\ \/ Releasable(t) /\ row' = None /\ Serve("release", t, TRUE)
     \/ ~Releasable(t) /\ UNCHANGED row /\ Serve("release", t, FALSE)
  /\ UNCHANGED <<provider, caller, sure>>

\* acquire() resolves with a Lock, or with undefined.
AnswerAcquire(t) ==
  /\ Answered("acquire", t)
  /\ IF call["acquire"][t].ok
       THEN /\ caller' = [caller EXCEPT ![t] = "held"]
            /\ sure' = [sure EXCEPT ![t] = call["acquire"][t].left]
       ELSE /\ caller' = [caller EXCEPT ![t] = "over"]
            /\ UNCHANGED sure
  /\ call' = [call EXCEPT !["acquire"][t] = None]
  /\ UNCHANGED <<provider, row>>

\* refresh() resolves: the lease runs from when it was asked for, or it is
\* lost and the exclusive work stops.
AnswerRefresh(t) ==
  /\ Answered("refresh", t)
  /\ IF call["refresh"][t].ok
       THEN /\ sure' = [sure EXCEPT ![t] = call["refresh"][t].left]
            /\ UNCHANGED caller
       ELSE /\ caller' = [caller EXCEPT ![t] = "over"]
            /\ UNCHANGED sure
  /\ call' = [call EXCEPT !["refresh"][t] = None]
  /\ UNCHANGED <<provider, row>>

AnswerRelease(t) ==
  /\ Answered("release", t)
  /\ call' = [call EXCEPT !["release"][t] = None]
  /\ UNCHANGED <<provider, row, caller, sure>>

-----------------------------------------------------------------------------
Unawaited(c) == IF c # None /\ ~c.served THEN [c EXCEPT !.awaited = FALSE] ELSE None

\* A redis or postgres call rejects, before or after its command is served, or
\* while it is still on its way.
Fail(o, t) ==
  /\ provider # "memory"
  /\ call[o][t] # None /\ call[o][t].awaited
  /\ call' = [call EXCEPT ![o][t] = Unawaited(call[o][t])]
  /\ caller' = IF o = "acquire" THEN [caller EXCEPT ![t] = "gone"] ELSE caller
  /\ UNCHANGED <<provider, row, sure>>

SentAgain(c) == [c EXCEPT !.served = FALSE, !.ok = FALSE, !.resends = c.resends + 1]

\* ioredis loses the connection after redis has executed a command and before
\* the reply is in, and sends the command again.
Resend(o, t) ==
  /\ provider = "redis"
  /\ Answered(o, t) /\ call[o][t].resends < Resends
  /\ call' = [call EXCEPT ![o][t] = SentAgain(call[o][t])]
  /\ UNCHANGED <<provider, row, caller, sure>>

\* The caller dies; what it has sent may still be served.
Crash(t) ==
  /\ caller[t] \in {"acquiring", "held"}
  /\ caller' = [caller EXCEPT ![t] = IF caller[t] = "acquiring" THEN "gone" ELSE "over"]
  /\ call' = [o \in Op |-> [call[o] EXCEPT ![t] = Unawaited(call[o][t])]]
  /\ UNCHANGED <<provider, row, sure>>

\* PostgresDistributedLock.cleanupExpired.
CleanupExpired ==
  /\ provider = "postgres" /\ row # None /\ row.life < 0
  /\ row' = None
  /\ UNCHANGED <<provider, caller, sure, call>>

Down(n) == IF n > 0 THEN n - 1 ELSE 0

\* One tick of a row: redis drops a key as it expires.
Aged(r) ==
  IF r = None \/ (provider = "redis" /\ r.life <= 1) THEN None
  ELSE [r EXCEPT !.life = IF r.life > -1 THEN r.life - 1 ELSE -1]

Waited(c) == IF c = None THEN None ELSE [c EXCEPT !.left = Down(c.left)]

Tick ==
  /\ row' = Aged(row)
  /\ sure' = [t \in Token |-> Down(sure[t])]
  /\ call' = [o \in Op |-> [t \in Token |-> Waited(call[o][t])]]
  /\ UNCHANGED <<provider, caller>>

Step(t) ==
  \/ AskAcquire(t) \/ AskRefresh(t) \/ AskRelease(t)
  \/ ServeAcquire(t) \/ ServeRefresh(t) \/ ServeRelease(t)
  \/ AnswerAcquire(t) \/ AnswerRefresh(t) \/ AnswerRelease(t)
  \/ Crash(t)
  \/ \E o \in Op : Fail(o, t) \/ Resend(o, t)

Next == Tick \/ CleanupExpired \/ \E t \in Token : Step(t)

Spec == Init /\ [][Next]_vars

\* The stores' clocks go on.
FairSpec == Spec /\ WF_vars(Tick)

-----------------------------------------------------------------------------
\* A caller that was told it holds the key, and has not let its lease run out.
Relies(t) == caller[t] = "held" /\ sure[t] > 0

\* No two callers rely on the key at once, whatever is delayed, lost or sent
\* twice: what "distributed mutual exclusion" means to the code in between.
HoldersExclude == \A t, u \in Token : Relies(t) /\ Relies(u) => t = u

\* "false when the lease had already expired" (distributedlock.ts:11): release()
\* resolves true only when it freed a lease that was still live.
ReleaseTellsTruth ==
  [][\A t \in Token :
       ServeRelease(t) /\ call'["release"][t] # None /\ call'["release"][t].ok =>
         Live /\ row.token = t]_vars

\* "a stale holder never deadlocks the key" (distributedlock.ts:39): the lease of
\* a caller that has gone away comes to an end, and the key can be acquired.
AbandonedLeaseEnds ==
  \A t \in Token :
    Owns(t) /\ caller[t] \in {"over", "gone"} ~> Grantable \/ ~Owns(t)

Promise == INSTANCE LeaseLock WITH
  owner    <- IF Live THEN row.token ELSE None,
  entitled <- {t \in Token : call["acquire"][t] # None /\ call["acquire"][t].ok},
  resolved <- {t \in Token : caller[t] \in {"held", "over"}}

\* All three providers implement the promise.
KeepsLeasePromise == Promise!Spec
=============================================================================
