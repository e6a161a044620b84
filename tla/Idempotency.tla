---------------------------- MODULE Idempotency ----------------------------
(***************************************************************************)
(* IdempotencyManager.run, for one key: the store's record, the claim      *)
(* lock's lease, and any number of concurrent run() calls, one action per  *)
(* remote call a run makes.  Everything between two awaits is local and    *)
(* belongs to the action of the first of them.                             *)
(*                                                                         *)
(* Lifetimes are remaining ticks: a record or lease whose lifetime reaches *)
(* zero is gone, so no absolute clock is needed and time never runs out.   *)
(* A request claims at most once, so the request itself stands for the     *)
(* unique claim id and for the unique lock token it mints.                 *)
(***************************************************************************)
EXTENDS Naturals

CONSTANTS
  Request,        \* the run() calls made with this key
  Fingerprint,    \* the request fingerprints callers may send
  FpOf,           \* the fingerprint each call sends
  Version,        \* the record versions the deployed builds may write
  VersionOf,      \* RECORD_VERSION of the build that serves each call
  InFlightTtl,    \* inFlightTtlMs: lifetime of a claim
  Ttl,            \* ttlMs: lifetime of a completed record
  LockTtl,        \* lockTtlMs: lifetime of the claim lock's lease
  LockWait,       \* lockWaitMs: how long withLock keeps retrying
  FailOpen,       \* storeFailurePolicy = "fail-open"
  Faulty,         \* the remote calls that may fail
  InitialRecords, \* what earlier builds may have left in the store
  PromptWork,     \* no execution outruns its claim
  PromptLock,     \* no claim section outruns its lease
  None            \* absent: record, lease, outcome

RemoteCall == {"get", "set", "delete", "acquire", "release"}

RecordState == {"in-flight", "completed", "unknown"}

\* IdempotencyRecord, with the lifetime the store keeps beside it.  The value
\* is named by the execution that produced it.
Record == [version : Version, state : RecordState, fp : Fingerprint,
           claim : Request \union {None}, life : Nat \ {0}]

Lease == [token : Request, life : Nat \ {0}]

Outcome == [status : {"executed", "threw", "in-flight", "mismatch", "unavailable"}]
             \union [status : {"replayed"}, value : Request \union {None}]

ASSUME IdempotencyAssumption ==
  /\ None \notin Request
  /\ FpOf \in [Request -> Fingerprint]
  /\ VersionOf \in [Request -> Version]
  /\ InFlightTtl \in Nat \ {0} /\ Ttl \in Nat \ {0}
  /\ LockTtl \in Nat \ {0} /\ LockWait \in Nat
  /\ FailOpen \in BOOLEAN /\ PromptWork \in BOOLEAN /\ PromptLock \in BOOLEAN
  /\ Faulty \subseteq RemoteCall
  /\ None \notin Record /\ None \notin Lease /\ None \notin Outcome
  /\ InitialRecords \subseteq Record \union {None}
  \* No call made here owns what was in the store before it.
  /\ \A old \in InitialRecords \ {None} : old.claim = None

VARIABLES
  record,   \* the store's entry for the key
  lease,    \* the locker's entry for the key
  pc,       \* where each run() is
  wait,     \* what is left of each run's withLock budget
  outcome,  \* what each run has decided to answer
  claimed,  \* history: the runs whose claim landed in the store
  produced  \* history: the runs whose work returned a recordable value

vars == <<record, lease, pc, wait, outcome, claimed, produced>>

Stage == {"idle", "acquire", "refused", "reread", "claim", "unlock", "work",
          "confirm", "commit", "release", "done", "crashed"}

TypeOK ==
  /\ record \in Record \union {None}
  /\ lease \in Lease \union {None}
  /\ pc \in [Request -> Stage]
  /\ wait \in [Request -> Nat]
  /\ outcome \in [Request -> Outcome \union {None}]
  /\ claimed \subseteq Request
  /\ produced \subseteq Request

-----------------------------------------------------------------------------
(* What a read of the store tells a run, and what it answers.              *)

\* Mutant of Usable: #load without the version check.
UsableAnyVersion(r) == record # None

\* #load: a record of another version reads as absent.
Usable(r) == record # None /\ record.version = VersionOf[r]

\* Mutant of Resolve: the state is looked at, the fingerprint is not.
ResolveByState(r) ==
  IF record.state = "completed"
    THEN [status |-> "replayed", value |-> record.claim]
    ELSE [status |-> "in-flight"]

\* #resolve: the fingerprint is looked at before the state, and a state this
\* build does not know is refused.
Resolve(r) ==
  IF record.fp # FpOf[r] THEN [status |-> "mismatch"]
  ELSE IF record.state = "completed"
         THEN [status |-> "replayed", value |-> record.claim]
         ELSE [status |-> "in-flight"]

CanFail(call) == call \in Faulty

Goto(r, stage) == pc' = [pc EXCEPT ![r] = stage]

Answer(r, status) == outcome' = [outcome EXCEPT ![r] = [status |-> status]]

Claim(r) ==
  [version |-> VersionOf[r], state |-> "in-flight", fp |-> FpOf[r],
   claim |-> r, life |-> InFlightTtl]

Completed(r) == [Claim(r) EXCEPT !.state = "completed", !.life = Ttl]

LandClaim(r) == record' = Claim(r) /\ claimed' = claimed \union {r}

-----------------------------------------------------------------------------
Init ==
  /\ record \in InitialRecords
  /\ lease = None
  /\ pc = [r \in Request |-> "idle"]
  /\ wait = [r \in Request |-> 0]
  /\ outcome = [r \in Request |-> None]
  /\ claimed = {}
  /\ produced = {}

\* Step 1 of run: the read before the lock found a usable record.
PreReadHit(r) ==
  /\ pc[r] = "idle"
  /\ Usable(r)
  /\ outcome' = [outcome EXCEPT ![r] = Resolve(r)]
  /\ Goto(r, "done")
  /\ UNCHANGED <<record, lease, wait, claimed, produced>>

\* Step 1 of run: nothing usable, or a failed read that fails open.  The
\* withLock deadline starts here.
PreReadMiss(r) ==
  /\ pc[r] = "idle"
  /\ ~Usable(r) \/ (FailOpen /\ CanFail("get"))
  /\ wait' = [wait EXCEPT ![r] = LockWait]
  /\ Goto(r, "acquire")
  /\ UNCHANGED <<record, lease, outcome, claimed, produced>>

\* Step 1 of run: a failed read under fail-closed throws.
PreReadFails(r) ==
  /\ pc[r] = "idle"
  /\ ~FailOpen /\ CanFail("get")
  /\ Answer(r, "unavailable")
  /\ Goto(r, "done")
  /\ UNCHANGED <<record, lease, wait, claimed, produced>>

-----------------------------------------------------------------------------
\* Mutant of Acquire: the lease is taken whether or not somebody holds it.
AcquireHeld(r) ==
  /\ pc[r] = "acquire"
  /\ lease' = [token |-> r, life |-> LockTtl]
  /\ Goto(r, "reread")
  /\ UNCHANGED <<record, wait, outcome, claimed, produced>>

\* withLock: the lease was free.
Acquire(r) ==
  /\ pc[r] = "acquire"
  /\ lease = None
  /\ lease' = [token |-> r, life |-> LockTtl]
  /\ Goto(r, "reread")
  /\ UNCHANGED <<record, wait, outcome, claimed, produced>>

\* withLock: the lease was held by another caller.
AcquireRefused(r) ==
  /\ pc[r] = "acquire"
  /\ lease # None
  /\ Goto(r, "refused")
  /\ UNCHANGED <<record, lease, wait, outcome, claimed, produced>>

\* withLock: the acquire call failed, and may still have taken the lease.
AcquireFails(r) ==
  /\ pc[r] = "acquire"
  /\ CanFail("acquire")
  /\ \/ UNCHANGED lease
     \/ lease = None /\ lease' = [token |-> r, life |-> LockTtl]
  /\ Answer(r, "unavailable")
  /\ Goto(r, "done")
  /\ UNCHANGED <<record, wait, claimed, produced>>

\* withLock: the deadline has not passed, so the run sleeps and tries again.
RetryAcquire(r) ==
  /\ pc[r] = "refused"
  /\ wait[r] > 0
  /\ Goto(r, "acquire")
  /\ UNCHANGED <<record, lease, wait, outcome, claimed, produced>>

\* Mutant of GiveUp: contention is taken for a claim, and the work runs.
GiveUpAndRun(r) ==
  /\ pc[r] = "refused"
  /\ wait[r] = 0
  /\ Goto(r, "work")
  /\ UNCHANGED <<record, lease, wait, outcome, claimed, produced>>

\* withLock: the deadline has passed; run answers in-flight.
GiveUp(r) ==
  /\ pc[r] = "refused"
  /\ wait[r] = 0
  /\ Answer(r, "in-flight")
  /\ Goto(r, "done")
  /\ UNCHANGED <<record, lease, wait, claimed, produced>>

-----------------------------------------------------------------------------
\* #claim, under the lock: the re-read found a record somebody landed.
ReReadHit(r) ==
  /\ pc[r] = "reread"
  /\ Usable(r)
  /\ outcome' = [outcome EXCEPT ![r] = Resolve(r)]
  /\ Goto(r, "unlock")
  /\ UNCHANGED <<record, lease, wait, claimed, produced>>

\* Mutant of ReReadMiss: the claim is written without looking again.
ClaimWithoutReRead(r) ==
  /\ pc[r] = "reread"
  /\ Goto(r, "claim")
  /\ UNCHANGED <<record, lease, wait, outcome, claimed, produced>>

\* #claim, under the lock: the re-read found nothing, or failed open.
ReReadMiss(r) ==
  /\ pc[r] = "reread"
  /\ ~Usable(r) \/ (FailOpen /\ CanFail("get"))
  /\ Goto(r, "claim")
  /\ UNCHANGED <<record, lease, wait, outcome, claimed, produced>>

\* #claim, under the lock: the re-read failed closed.
ReReadFails(r) ==
  /\ pc[r] = "reread"
  /\ ~FailOpen /\ CanFail("get")
  /\ Answer(r, "unavailable")
  /\ Goto(r, "unlock")
  /\ UNCHANGED <<record, lease, wait, claimed, produced>>

\* #claim, under the lock: the in-flight record is written.
WriteClaim(r) ==
  /\ pc[r] = "claim"
  /\ LandClaim(r)
  /\ Goto(r, "unlock")
  /\ UNCHANGED <<lease, wait, outcome, produced>>

\* #claim, under the lock: the write failed, and may still have landed.
WriteClaimFails(r) ==
  /\ pc[r] = "claim"
  /\ CanFail("set")
  /\ LandClaim(r) \/ UNCHANGED <<record, claimed>>
  /\ Answer(r, "unavailable")
  /\ Goto(r, "unlock")
  /\ UNCHANGED <<lease, wait, produced>>

\* Mutant of Unlock: only the release of a lease still held counts as done.
UnlockHeld(r) ==
  /\ pc[r] = "unlock"
  /\ lease # None /\ lease.token = r
  /\ lease' = None
  /\ Goto(r, IF outcome[r] = None THEN "work" ELSE "done")
  /\ UNCHANGED <<record, wait, outcome, claimed, produced>>

\* withLock's finally: a best-effort release that frees only an owned lease.
\* A run that has decided its answer returns it; a run that claimed goes on.
Unlock(r) ==
  /\ pc[r] = "unlock"
  /\ \/ lease' = IF lease # None /\ lease.token = r THEN None ELSE lease
     \/ CanFail("release") /\ UNCHANGED lease
  /\ Goto(r, IF outcome[r] = None THEN "work" ELSE "done")
  /\ UNCHANGED <<record, wait, outcome, claimed, produced>>

-----------------------------------------------------------------------------
\* Step 3 of run: fn returns a value worth recording.
WorkReturns(r) ==
  /\ pc[r] = "work"
  /\ produced' = produced \union {r}
  /\ Answer(r, "executed")
  /\ Goto(r, "confirm")
  /\ UNCHANGED <<record, lease, wait, claimed>>

\* Step 3 of run: fn returns a value that recordable() rejects.
WorkUnrecordable(r) ==
  /\ pc[r] = "work"
  /\ Answer(r, "executed")
  /\ Goto(r, "confirm")
  /\ UNCHANGED <<record, lease, wait, claimed, produced>>

\* Step 3 of run: fn throws.
WorkThrows(r) ==
  /\ pc[r] = "work"
  /\ Answer(r, "threw")
  /\ Goto(r, "confirm")
  /\ UNCHANGED <<record, lease, wait, claimed, produced>>

\* #stillOurs: the read before the final write shows the run's own claim.
ConfirmOurs(r) ==
  /\ pc[r] = "confirm"
  /\ Usable(r) /\ record.claim = r
  /\ Goto(r, IF r \in produced THEN "commit" ELSE "release")
  /\ UNCHANGED <<record, lease, wait, outcome, claimed, produced>>

\* #stillOurs: anything else, a failed read included, is a lost claim, and
\* the final write is skipped.
ConfirmLost(r) ==
  /\ pc[r] = "confirm"
  /\ ~(Usable(r) /\ record.claim = r) \/ CanFail("get")
  /\ Goto(r, "done")
  /\ UNCHANGED <<record, lease, wait, outcome, claimed, produced>>

\* #commit: the completed record is written; a failed write is swallowed and
\* may still have landed.
Commit(r) ==
  /\ pc[r] = "commit"
  /\ \/ record' = Completed(r)
     \/ CanFail("set") /\ UNCHANGED record
  /\ Goto(r, "done")
  /\ UNCHANGED <<lease, wait, outcome, claimed, produced>>

\* #release: the key is deleted, whatever it holds by now; a failed delete is
\* swallowed and may still have landed.
Release(r) ==
  /\ pc[r] = "release"
  /\ \/ record' = None
     \/ CanFail("delete") /\ UNCHANGED record
  /\ Goto(r, "done")
  /\ UNCHANGED <<lease, wait, outcome, claimed, produced>>

-----------------------------------------------------------------------------
\* The process serving a run dies; what it wrote remotely survives it.
Crash(r) ==
  /\ pc[r] \notin {"idle", "done", "crashed"}
  /\ Goto(r, "crashed")
  /\ UNCHANGED <<record, lease, wait, outcome, claimed, produced>>

\* A run between its claim and its final write.
Executing(r) ==
  \/ pc[r] \in {"work", "confirm", "commit", "release"}
  \/ pc[r] = "unlock" /\ outcome[r] = None

\* A run inside the critical section of its claim lock.
Locked(r) == pc[r] \in {"reread", "claim", "unlock"}

\* Mutant of Aged: an entry never expires.
Unaged(entry) == entry

\* One tick less to live; an entry that has none left is gone.
Aged(entry) ==
  IF entry = None \/ entry.life = 1 THEN None
  ELSE [entry EXCEPT !.life = @ - 1]

LastTickOfClaim(r) == record # None /\ record.claim = r /\ record.life = 1
LastTickOfLease(r) == lease # None /\ lease.token = r /\ lease.life = 1

\* Time passes.  Under PromptWork and PromptLock it does not take a claim or a
\* lease away from the live run that still relies on it.
Tick ==
  /\ \/ record # None \/ lease # None
     \/ \E r \in Request : wait[r] > 0
  /\ PromptWork => \A r \in Request : ~(Executing(r) /\ LastTickOfClaim(r))
  /\ PromptLock => \A r \in Request : ~(Locked(r) /\ LastTickOfLease(r))
  /\ record' = Aged(record)
  /\ lease' = Aged(lease)
  /\ wait' = [r \in Request |-> IF wait[r] > 0 THEN wait[r] - 1 ELSE 0]
  /\ UNCHANGED <<pc, outcome, claimed, produced>>

\* Everything a run does by itself.
Run(r) ==
  \/ PreReadHit(r) \/ PreReadMiss(r) \/ PreReadFails(r)
  \/ Acquire(r) \/ AcquireRefused(r) \/ AcquireFails(r)
  \/ RetryAcquire(r) \/ GiveUp(r)
  \/ ReReadHit(r) \/ ReReadMiss(r) \/ ReReadFails(r)
  \/ WriteClaim(r) \/ WriteClaimFails(r) \/ Unlock(r)
  \/ WorkReturns(r) \/ WorkUnrecordable(r) \/ WorkThrows(r)
  \/ ConfirmOurs(r) \/ ConfirmLost(r) \/ Commit(r) \/ Release(r)

Next == Tick \/ \E r \in Request : Run(r) \/ Crash(r)

Spec == Init /\ [][Next]_vars

\* The event loop resumes every run whose remote call has returned, and the
\* clock goes on.  A call that is made is served; nobody has to make one.
Fairness ==
  /\ WF_vars(Tick)
  /\ \A r \in Request : WF_vars(pc[r] # "idle" /\ Run(r))

FairSpec == Spec /\ Fairness

-----------------------------------------------------------------------------
(* Safety.                                                                 *)

\* No two executions of the guarded work are under way at once: what the
\* claim protocol of manager.node.ts is for.  It needs the documented
\* deployment rules (PromptWork, PromptLock) and fail-closed reads.
AtMostOneExecution ==
  \A r, s \in Request : Executing(r) /\ Executing(s) => r = s

\* While a result is retained, nothing is executing: a retry is answered from
\* the record for as long as the record lives.
NoExecutionBehindResult ==
  record # None /\ record.state = "completed" => \A r \in Request : ~Executing(r)

\* A replayed value was produced by work that succeeded, for a request with
\* the same fingerprint, under a build with the same record version.  It needs
\* no assumption on timing or failures.
ReplayIsFaithful ==
  \A r \in Request :
    outcome[r] # None /\ outcome[r].status = "replayed" /\ outcome[r].value # None =>
      LET s == outcome[r].value IN
        s # r /\ s \in produced /\ FpOf[s] = FpOf[r] /\ VersionOf[s] = VersionOf[r]

\* A claim lands only on a key whose record its build cannot use: a crashed
\* execution's claim refuses every retry until it expires, and so does a
\* retained result.
ClaimsOnlyFreeKey == [][\A r \in claimed' \ claimed : ~Usable(r)]_vars

\* "Only its owner may complete or release it" (record.ts:38): the final write
\* of a run never replaces or deletes a record that is not its own.
OnlyOwnerSettles ==
  [][\A r \in Request :
       (Commit(r) \/ Release(r)) /\ record' # record => record = None \/ record.claim = r]_vars

(* Liveness.                                                               *)

\* Every run that has been called is answered, or its process dies: neither
\* lock contention nor any failure keeps a caller waiting for ever.
EveryRunAnswers ==
  \A r \in Request : pc[r] = "acquire" ~> pc[r] \in {"done", "crashed"}

\* No claim blocks its key for ever, whatever became of its owner.
ClaimsEnd ==
  (record # None /\ record.state = "in-flight")
    ~> (record = None \/ record.state = "completed")

\* Nobody is held up for ever: callers of run() by one another or by a failure, or
\* a key by a claim whose owner is gone.
RunsAndClaimsEnd == EveryRunAnswers /\ ClaimsEnd

-----------------------------------------------------------------------------
(* What callers and the store can observe, as the abstract promise sees it. *)

Promise == INSTANCE AtMostOnce WITH
  holder  <- IF record # None /\ record.state = "in-flight" THEN record.claim ELSE None,
  settled <- IF record # None /\ record.state = "completed" THEN record.claim ELSE None,
  answer  <- [r \in Request |-> IF pc[r] = "done" THEN outcome[r] ELSE None]

\* The protocol implements the promise, faults and crashes included.
KeepsPromise == Promise!Spec
=============================================================================
