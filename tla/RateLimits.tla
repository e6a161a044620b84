------------------------------ MODULE RateLimits ------------------------------
(***************************************************************************)
(* A fixed-window rate limiter and the checks of its clients: windows kept *)
(* in the Map of one process, or counters on a redis server, incremented   *)
(* and armed by one script.  ioredis sends a command again when the        *)
(* connection breaks before its answer, and rejects it after a few tries   *)
(* or when commandTimeout is up; what it has sent may still run after that. *)
(***************************************************************************)
EXTENDS Integers, SequencesExt

CONSTANTS
  Subject,        \* the keys that are limited
  Caller,
  LimiterProviders,
  Limit, WindowMs,
  MaxKeys,        \* how many windows the Map may hold
  FailOpen,       \* failOpen of the redis limiter
  Costs,          \* bound: the costs callers ask for
  MaxChecks,      \* bound: how many calls are made
  MaxFaults,      \* bound: how often redis fails or is interfered with
  LimiterHorizon, \* bound: the last instant of the clock
  None            \* absent

VARIABLES
  limiter,  \* the provider in use
  windows,  \* the window or counter of each key
  opened,   \* the order of the Map: pairs of its keys, the older one first
  checks,   \* each caller's call, the last one until it makes another
  checked,  \* how many calls have been made
  faults,   \* how many faults there were
  time,
  ledger    \* history: what was asked and granted in each key's window

limiterVars == <<limiter, windows, opened, checks, checked, faults, time, ledger>>

\* A counter that has lost its expiry.
Never == -1

\* used is the cost a window counts, until the instant it ends at.
Window == [used : Int, until : Nat \union {Never}]

RateLimitsAssumption ==
  /\ LimiterProviders \subseteq {"memory", "redis", "noop"}
  /\ Limit \in Nat /\ WindowMs \in Nat \ {0} /\ MaxKeys \in Nat \ {0}
  /\ FailOpen \in BOOLEAN /\ Costs \subseteq Int
  /\ MaxChecks \in Nat /\ MaxFaults \in Nat /\ LimiterHorizon \in Nat
  /\ Subject # {} /\ None \notin Window

\* count and ttl are the script's reply.  answer, remaining and resetAt are what
\* the caller is told; due and left, kept as history, when the window ended that
\* it was served from and how much of the limit was not granted.
Check == [op : {"limit", "reset"}, key : Subject, cost : Int, count : Int,
          ttl : Int, at : {"queued", "served", "late", "over"},
          answer : {"none", "allowed", "denied", "refused", "failed"},
          remaining : Nat, resetAt : Nat, due : Int, left : Int]

NewCheck(op, k, cost) ==
  [op |-> op, key |-> k, cost |-> cost, count |-> 0, ttl |-> 0, at |-> "queued",
   answer |-> "none", remaining |-> 0, resetAt |-> 0, due |-> 0, left |-> 0]

Unused == [asked |-> 0, granted |-> 0]

Known == {k \in Subject : windows[k] # None}

Before(j, k) == <<j, k>> \in opened

\* The Map knows in which order its windows were put into it, and keeps to its cap.
MapIsSound ==
  /\ opened \subseteq Known \X Known
  /\ \A j, k \in Known : Before(j, k) <=> j # k /\ ~Before(k, j)
  /\ \A i, j, k \in Known : Before(i, j) /\ Before(j, k) => Before(i, k)
  /\ Cardinality(Known) <= MaxKeys

LimiterTypeOK ==
  /\ limiter \in LimiterProviders
  /\ windows \in [Subject -> Window \union {None}]
  /\ IF limiter = "memory" THEN MapIsSound ELSE opened = {}
  /\ checks \in [Caller -> Check]
  /\ checked \in 0..MaxChecks /\ faults \in 0..MaxFaults /\ time \in 0..LimiterHorizon
  /\ ledger \in [Subject -> [asked : Nat, granted : Nat]]

LimiterInit ==
  /\ limiter \in LimiterProviders
  /\ windows = [k \in Subject |-> None]
  /\ opened = {}
  /\ LET k == CHOOSE j \in Subject : TRUE
     IN  checks = [c \in Caller |-> [NewCheck("limit", k, 0) EXCEPT !.at = "over"]]
  /\ checked = 0 /\ faults = 0 /\ time = 0
  /\ ledger = [k \in Subject |-> Unused]

-----------------------------------------------------------------------------

\* Mutant of ValidCost: any integer will do.
AnyCost(cost) == cost \in Int

ValidCost(cost) == cost >= 0

Ended(w) == w = None \/ (w.until # Never /\ w.until <= time)

\* What is known of key k's window once a check of that cost was served from it,
\* as the first one or not, and granted or not.
Booked(k, first, cost, granted) ==
  LET units == IF cost > 0 THEN cost ELSE 0
      l     == IF first THEN Unused ELSE ledger[k]
  IN  [ledger EXCEPT ![k] = [asked   |-> l.asked + units,
                             granted |-> l.granted + IF granted THEN units ELSE 0]]

Later(a, b) == IF a > b THEN a ELSE b

\* A cost that is no natural number is refused before anything is asked.
Ask(c, op, k, cost) ==
  /\ checks[c].at = "over" /\ checked < MaxChecks
  /\ checked' = checked + 1
  /\ checks' = [checks EXCEPT ![c] =
                  IF op = "reset" \/ ValidCost(cost) THEN NewCheck(op, k, cost)
                  ELSE [NewCheck(op, k, cost) EXCEPT !.at = "over",
                                                     !.answer = "refused"]]
  /\ UNCHANGED <<limiter, windows, opened, faults, time, ledger>>

-----------------------------------------------------------------------------
(* The Map.                                                                *)

\* The keys that keep their window when a new key needs one: at the cap those
\* whose window has ended go, and of the others the oldest.
KeptKeys ==
  LET live   == {k \in Known : ~Ended(windows[k])}
      excess == Cardinality(live) - MaxKeys + 1
  IN  IF Cardinality(Known) < MaxKeys THEN Known
      ELSE {k \in live : Cardinality({j \in live : Before(j, k)}) >= excess}

Among(ks) == opened \intersect (ks \X ks)

MemoryLimit(c) ==
  LET k     == checks[c].key
      cost  == checks[c].cost
      first == Ended(windows[k])
      kept  == IF k \in Known THEN Known ELSE KeptKeys
      w     == IF first THEN [used |-> 0, until |-> time + WindowMs]
               ELSE windows[k]
      fits  == w.used + cost <= Limit
      spent == IF fits THEN w.used + cost ELSE w.used
  IN  /\ limiter = "memory" /\ checks[c].at = "queued" /\ checks[c].op = "limit"
      /\ ledger' = Booked(k, first, cost, fits)
      /\ opened' = Among(kept) \union IF k \in Known THEN {} ELSE kept \X {k}
      /\ windows' = [j \in Subject |->
                       CASE j = k -> [w EXCEPT !.used = spent]
                         [] j # k /\ j \in kept -> windows[j]
                         [] OTHER -> None]
      /\ checks' = [checks EXCEPT ![c].at = "over", ![c].due = w.until,
                      ![c].answer = IF fits THEN "allowed" ELSE "denied",
                      ![c].remaining = Later(0, Limit - spent),
                      ![c].resetAt = w.until,
                      ![c].left = Limit - ledger'[k].granted]
      /\ UNCHANGED <<limiter, checked, faults, time>>

MemoryReset(c) ==
  LET k == checks[c].key
  IN  /\ limiter = "memory" /\ checks[c].at = "queued" /\ checks[c].op = "reset"
      /\ windows' = [windows EXCEPT ![k] = None]
      /\ opened' = Among(Known \ {k})
      /\ checks' = [checks EXCEPT ![c].at = "over"]
      /\ UNCHANGED <<limiter, checked, faults, time, ledger>>

\* The noop limiter allows everything.
NoopLimit(c) ==
  /\ limiter = "noop" /\ checks[c].at = "queued"
  /\ checks' = [checks EXCEPT ![c].at = "over", ![c].answer = "allowed"]
  /\ UNCHANGED <<limiter, windows, opened, checked, faults, time, ledger>>

-----------------------------------------------------------------------------
(* The counters on the server.                                             *)

\* What is asked of the server, or was given up and gets there all the same.
Sent(c) == checks[c].at \in {"queued", "late"}

\* Nobody waits for the reply of what was given up.
Run(k) == IF k.at = "late" THEN "over" ELSE "served"

\* Mutant of Armed: only a counter that is new is given an expiry.
ArmedOnce(w) == IF w = None \/ Ended(w) THEN time + WindowMs ELSE w.until

\* The expiry a counter has after the script: one without any is given one.
Armed(w) == IF Ended(w) \/ w.until = Never THEN time + WindowMs ELSE w.until

\* The script counts the cost, fitting or not.
ScriptRuns(c) ==
  LET k     == checks[c].key
      cost  == checks[c].cost
      first == Ended(windows[k])
      count == IF first THEN cost ELSE windows[k].used + cost
  IN  /\ limiter = "redis" /\ Sent(c) /\ checks[c].op = "limit"
      /\ windows' = [windows EXCEPT ![k] = [used |-> count,
                                            until |-> Armed(windows[k])]]
      /\ ledger' = Booked(k, first, cost, count <= Limit)
      /\ checks' = [checks EXCEPT ![c].at = Run(checks[c]), ![c].count = count,
                      ![c].ttl = windows'[k].until - time,
                      ![c].due = windows'[k].until,
                      ![c].left = Limit - ledger'[k].granted]
      /\ UNCHANGED <<limiter, opened, checked, faults, time>>

ResetRuns(c) ==
  /\ limiter = "redis" /\ Sent(c) /\ checks[c].op = "reset"
  /\ windows' = [windows EXCEPT ![checks[c].key] = None]
  /\ checks' = [checks EXCEPT ![c].at = Run(checks[c])]
  /\ UNCHANGED <<limiter, opened, checked, faults, time, ledger>>

\* The decision is the server's count against the limit.  The instant of the
\* reset is reckoned from when the answer arrives.
Answered(c) ==
  LET k      == checks[c]
      before == IF k.count > Limit THEN k.count - k.cost ELSE k.count
  IN  /\ limiter = "redis" /\ k.at = "served"
      /\ checks' = [checks EXCEPT ![c] =
           IF k.op = "reset" THEN [k EXCEPT !.at = "over"]
           ELSE [k EXCEPT !.at = "over",
                   !.answer = IF k.count > Limit THEN "denied" ELSE "allowed",
                   !.remaining = Later(0, Limit - before),
                   !.resetAt = Later(0, time +
                                  IF k.ttl >= 0 THEN k.ttl ELSE WindowMs)]]
      /\ UNCHANGED <<limiter, windows, opened, checked, faults, time, ledger>>

Fault == faults < MaxFaults /\ faults' = faults + 1

\* The connection breaks behind the script's run, and the command is sent again.
SentAgain(c) ==
  /\ Fault /\ limiter = "redis" /\ checks[c].at = "served"
  /\ checks' = [checks EXCEPT ![c].at = "queued"]
  /\ UNCHANGED <<limiter, windows, opened, checked, time, ledger>>

\* The command is rejected, run or not, or still to run, and the policy decides.
RedisError(c) ==
  /\ Fault /\ limiter = "redis" /\ checks[c].at \in {"queued", "served"}
  /\ \E at \in {"over"} \union IF checks[c].at = "queued" THEN {"late"} ELSE {} :
       checks' = [checks EXCEPT ![c].at = at, ![c].answer = "failed",
                    ![c].remaining = IF FailOpen THEN Limit ELSE 0,
                    ![c].resetAt = time + WindowMs]
  /\ UNCHANGED <<limiter, windows, opened, checked, time, ledger>>

\* An operator's PERSIST, or a restore, takes the expiry of a counter away.
Persist(k) ==
  /\ Fault /\ limiter = "redis" /\ ~Ended(windows[k])
  /\ windows' = [windows EXCEPT ![k].until = Never]
  /\ UNCHANGED <<limiter, opened, checks, checked, time, ledger>>

Passes ==
  /\ time < LimiterHorizon
  /\ time' = time + 1
  /\ UNCHANGED <<limiter, windows, opened, checks, checked, faults, ledger>>

LimiterNext ==
  \/ \E c \in Caller :
       \/ \E k \in Subject, cost \in Costs : Ask(c, "limit", k, cost)
       \/ \E k \in Subject : Ask(c, "reset", k, 0)
       \/ MemoryLimit(c) \/ MemoryReset(c) \/ NoopLimit(c)
       \/ ScriptRuns(c) \/ ResetRuns(c) \/ Answered(c) \/ SentAgain(c)
       \/ RedisError(c)
  \/ \E k \in Subject : Persist(k)
  \/ Passes

LimiterSpec == LimiterInit /\ [][LimiterNext]_limiterVars

-----------------------------------------------------------------------------
(* Properties.                                                             *)

\* Until a window ends, is reset, or is evicted, the costs granted from it never
\* exceed the limit; a caller that is denied and waits until the resetAt it was
\* told finds that window over, even after the counter had lost its expiry; and
\* no answer tells of more capacity than the grants of the window had left.
GrantsAreHonest ==
  /\ \A k \in Subject : ledger[k].granted <= Limit
  /\ \A c \in Caller :
       /\ checks[c].answer = "denied" =>
            checks[c].due # Never /\ checks[c].due <= checks[c].resetAt
       /\ checks[c].answer \in {"allowed", "denied"} /\ limiter # "noop" =>
            checks[c].remaining <= checks[c].left

\* The variables keep their types, and the Map its order and its cap.
WindowHolds == LimiterTypeOK /\ GrantsAreHonest
=============================================================================
