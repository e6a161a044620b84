--------------------------- MODULE CircuitBreaker ---------------------------
(***************************************************************************)
(* One partition of PartitionedCircuitBreaker and the guarded calls of its *)
(* users: Uploader and the Elasticsearch and Algolia document indices.     *)
(* Every method of the breaker is synchronous, but a call is admitted in   *)
(* one turn of the event loop and reports in a later one, when the circuit *)
(* may have changed under it.                                              *)
(*                                                                         *)
(* Time is kept as ages, counted up to OpenDuration: the code only ever    *)
(* asks whether a whole openDurationMs has gone by.                        *)
(***************************************************************************)
EXTENDS Integers

CONSTANTS
  Client,              \* the callers; each makes one guarded call at a time
  Unpaired,            \* callers that may leave without reporting
  FailureThreshold,    \* failures in a row that open a closed circuit
  OpenDuration,        \* openDurationMs, in ticks
  HalfOpenMaxAttempts  \* probes admitted while half-open

ASSUME BreakerAssumption ==
  /\ Unpaired \subseteq Client
  /\ FailureThreshold \in Nat \ {0}
  /\ OpenDuration \in Nat \ {0}
  /\ HalfOpenMaxAttempts \in Nat \ {0}

VARIABLES
  state,          \* #state
  failures,       \* #failures, counted up to the threshold
  sinceOpened,    \* time since #openedAt
  sinceHalfOpen,  \* time since #halfOpenAt
  attempts,       \* #halfOpenAttempts
  calls,          \* where each caller is
  streak,         \* history: the failures reported since the last success
  recent          \* history: probes admitted in the last so many ticks

breakerVars == <<state, failures, sinceOpened, sinceHalfOpen, attempts, calls, streak, recent>>

State == {"closed", "open", "half-open"}

\* idle: outside; running: admitted, the downstream call is under way;
\* rejected: turned away with a circuit-broken error.
Place == {"idle", "running", "rejected"}

\* recent[0] counts the probes of this tick, recent[1] those of this tick and the
\* one before, and so on up to a whole openDurationMs.
Age == 0..OpenDuration - 1

BreakerTypeOK ==
  /\ state \in State
  /\ failures \in 0..FailureThreshold
  /\ sinceOpened \in 0..OpenDuration
  /\ sinceHalfOpen \in 0..OpenDuration
  /\ attempts \in 0..HalfOpenMaxAttempts
  /\ state = "half-open" <=> attempts > 0
  /\ calls \in [Client -> Place]
  /\ streak \in 0..FailureThreshold
  /\ recent \in [Age -> Nat]

BreakerInit ==
  /\ state = "closed" /\ failures = 0 /\ attempts = 0
  /\ sinceOpened = OpenDuration /\ sinceHalfOpen = OpenDuration
  /\ calls = [c \in Client |-> "idle"]
  /\ streak = 0
  /\ recent = [age \in Age |-> 0]

\* A count that matters up to a limit only.
UpTo(limit, n) == IF n < limit THEN n ELSE limit

-----------------------------------------------------------------------------
CooldownElapsed == sinceOpened >= OpenDuration

HalfOpenStalled == attempts >= HalfOpenMaxAttempts /\ sinceHalfOpen >= OpenDuration

Open == state' = "open" /\ sinceOpened' = 0 /\ attempts' = 0 /\ UNCHANGED <<failures, sinceHalfOpen>>

\* Mutant of Close: the failures that opened the circuit still count.
CloseOnly == state' = "closed" /\ attempts' = 0 /\ UNCHANGED <<failures, sinceOpened, sinceHalfOpen>>

Close == state' = "closed" /\ failures' = 0 /\ attempts' = 0 /\ UNCHANGED <<sinceOpened, sinceHalfOpen>>

Reject(c) ==
  /\ calls' = [calls EXCEPT ![c] = "rejected"]
  /\ UNCHANGED recent

Admit(c) ==
  /\ calls' = [calls EXCEPT ![c] = "running"]
  /\ recent' = IF state = "closed" THEN recent ELSE [age \in Age |-> recent[age] + 1]

\* canProceed() in a closed circuit.
PassClosed(c) ==
  /\ state = "closed"
  /\ Admit(c)
  /\ UNCHANGED <<state, failures, sinceOpened, sinceHalfOpen, attempts>>

\* canProceed() in an open circuit: once the cooldown is over, the circuit goes
\* half-open and the same call takes the first probe.
PassOpen(c) ==
  /\ state = "open" /\ CooldownElapsed
  /\ state' = "half-open" /\ sinceHalfOpen' = 0 /\ attempts' = 1
  /\ Admit(c)
  /\ UNCHANGED <<failures, sinceOpened>>

RejectOpen(c) ==
  /\ state = "open" /\ ~CooldownElapsed
  /\ Reject(c)
  /\ UNCHANGED <<state, failures, sinceOpened, sinceHalfOpen, attempts>>

\* canProceed() in a half-open circuit takes one of the probes, if any is left.
PassHalfOpen(c) ==
  /\ state = "half-open" /\ attempts < HalfOpenMaxAttempts
  /\ attempts' = attempts + 1
  /\ Admit(c)
  /\ UNCHANGED <<state, failures, sinceOpened, sinceHalfOpen>>

\* Mutant of RejectHalfOpen: spent probes are not given up on.
RejectSpent(c) ==
  /\ state = "half-open" /\ attempts >= HalfOpenMaxAttempts
  /\ Reject(c)
  /\ UNCHANGED <<state, failures, sinceOpened, sinceHalfOpen, attempts>>

\* Mutant of RejectHalfOpen: fresh probes straight away, without a cooldown.
RejectOrRenew(c) ==
  /\ state = "half-open" /\ attempts >= HalfOpenMaxAttempts
  /\ IF HalfOpenStalled
       THEN sinceHalfOpen' = 0 /\ attempts' = 1 /\ Admit(c) /\ UNCHANGED <<state, failures, sinceOpened>>
       ELSE Reject(c) /\ UNCHANGED <<state, failures, sinceOpened, sinceHalfOpen, attempts>>

\* The probes are spent; when none of them has reported for a whole cooldown,
\* the circuit is forced back open.
RejectHalfOpen(c) ==
  /\ state = "half-open" /\ attempts >= HalfOpenMaxAttempts
  /\ IF HalfOpenStalled THEN Open
                        ELSE UNCHANGED <<state, failures, sinceOpened, sinceHalfOpen, attempts>>
  /\ Reject(c)

\* A guarded call is made.
Try(c) ==
  /\ calls[c] = "idle"
  /\ \/ PassClosed(c) \/ PassOpen(c) \/ RejectOpen(c)
     \/ PassHalfOpen(c) \/ RejectHalfOpen(c)
  /\ UNCHANGED streak

\* Nothing ties a report to the admission it belongs to.
Leave(c) == calls[c] = "running" /\ calls' = [calls EXCEPT ![c] = "idle"] /\ UNCHANGED recent

\* succeeded(): the downstream call returned, or a delete found nothing.
Succeeded(c) ==
  /\ Leave(c)
  /\ streak' = 0
  /\ IF state = "half-open" THEN Close
     ELSE failures' = 0 /\ UNCHANGED <<state, sinceOpened, sinceHalfOpen, attempts>>

\* failed(): the downstream call threw, whoever's fault it is.
Failed(c) ==
  /\ Leave(c)
  /\ streak' = UpTo(FailureThreshold, streak + 1)
  /\ IF state = "half-open" THEN Open
     ELSE /\ failures' = UpTo(FailureThreshold, failures + 1)
          /\ IF failures + 1 >= FailureThreshold
               THEN state' = "open" /\ sinceOpened' = 0 /\ UNCHANGED <<sinceHalfOpen, attempts>>
               ELSE UNCHANGED <<state, sinceOpened, sinceHalfOpen, attempts>>

\* The consumer of Uploader.list stops iterating, or search("") throws: neither
\* succeeded() nor failed() is called.
LeaveUnreported(c) ==
  /\ c \in Unpaired
  /\ Leave(c)
  /\ UNCHANGED <<state, failures, sinceOpened, sinceHalfOpen, attempts, streak>>

\* The caller has got its circuit-broken error.
TurnAway(c) ==
  /\ calls[c] = "rejected"
  /\ calls' = [calls EXCEPT ![c] = "idle"]
  /\ UNCHANGED <<state, failures, sinceOpened, sinceHalfOpen, attempts, streak, recent>>

Tick ==
  /\ sinceOpened' = UpTo(OpenDuration, sinceOpened + 1)
  /\ sinceHalfOpen' = UpTo(OpenDuration, sinceHalfOpen + 1)
  /\ recent' = [age \in Age |-> IF age = 0 THEN 0 ELSE recent[age - 1]]
  /\ UNCHANGED <<state, failures, attempts, calls, streak>>

BreakerNext ==
  \/ Tick
  \/ \E c \in Client :
       Try(c) \/ Succeeded(c) \/ Failed(c) \/ LeaveUnreported(c) \/ TurnAway(c)

BreakerSpec == BreakerInit /\ [][BreakerNext]_breakerVars

\* The clock goes on; nothing else has to happen.
FairBreakerSpec == BreakerSpec /\ WF_breakerVars(Tick)

-----------------------------------------------------------------------------
\* The dependency is spared a flood: until the circuit closes again, it sees no
\* more than halfOpenMaxAttempts probes in any stretch of openDurationMs, whatever
\* is reported late, out of turn or not at all.  The counters keep their ranges.
FloodBounded ==
  /\ BreakerTypeOK
  /\ \A age \in Age : recent[age] <= HalfOpenMaxAttempts

\* "reached after failureThreshold consecutive failures" (circuitbreaking.ts:8): a
\* closed circuit has counted the failures since the last success, no more and no
\* fewer, also when reports of calls from before it opened come in late.
CountsConsecutive == state = "closed" => failures = streak /\ streak < FailureThreshold

\* No permanent wedge (circuitbreaking.test.ts:170): while calls keep coming and
\* are turned away, some are let through again and again, even if every probe so
\* far has hung or gone without a report.
NeverWedges ==
  []<><<\E c \in Client : Try(c) /\ calls'[c] = "rejected">>_breakerVars
    => []<><<\E c \in Client : Try(c) /\ calls'[c] = "running">>_breakerVars
=============================================================================
