------------------------- MODULE IdempotencyProofs -------------------------
(***************************************************************************)
(* The claim protocol is safe for any number of runs, any fingerprints and *)
(* any lifetimes.  Types need no more than the constants' assumption; that *)
(* no two executions overlap needs the deployment rules of Guarded.        *)
(***************************************************************************)
EXTENDS Idempotency, TLAPS

LEMMA AgedRecord ==
  ASSUME NEW entry \in Record \union {None}
  PROVE  /\ Aged(entry) \in Record \union {None}
         /\ Aged(entry) # None =>
              /\ entry # None
              /\ Aged(entry).version = entry.version
              /\ Aged(entry).claim = entry.claim
              /\ Aged(entry).state = entry.state
              /\ Aged(entry).fp = entry.fp
         /\ entry # None /\ entry.life # 1 => Aged(entry) # None
  BY IdempotencyAssumption DEF Aged, Record

LEMMA AgedLease ==
  ASSUME NEW entry \in Lease \union {None}
  PROVE  /\ Aged(entry) \in Lease \union {None}
         /\ Aged(entry) # None => entry # None /\ Aged(entry).token = entry.token
         /\ entry # None /\ entry.life # 1 => Aged(entry) # None
  BY IdempotencyAssumption DEF Aged, Lease

LEMMA ClaimType ==
  ASSUME NEW r \in Request
  PROVE  /\ Claim(r) \in Record
         /\ Claim(r).version = VersionOf[r] /\ Claim(r).claim = r
         /\ Claim(r).state = "in-flight" /\ Claim(r).fp = FpOf[r]
         /\ Completed(r) \in Record
         /\ Completed(r).version = VersionOf[r] /\ Completed(r).claim = r
         /\ Completed(r).state = "completed" /\ Completed(r).fp = FpOf[r]
  BY IdempotencyAssumption DEF Claim, Completed, Record, RecordState

LEMMA ResolveType ==
  ASSUME TypeOK, NEW r \in Request, Usable(r)
  PROVE  Resolve(r) \in Outcome
  BY DEF TypeOK, Usable, Resolve, Record, Outcome

LEMMA StatusType ==
  \A status \in {"executed", "threw", "in-flight", "mismatch", "unavailable"} :
    [status |-> status] \in Outcome
  BY DEF Outcome

-----------------------------------------------------------------------------
LEMMA TypeInit == Init => TypeOK
  BY IdempotencyAssumption DEF Init, TypeOK, Stage

LEMMA TypeTick == TypeOK /\ Tick => TypeOK'
  <1> SUFFICES ASSUME TypeOK, Tick PROVE TypeOK'
    OBVIOUS
  <1>1. record' \in Record \union {None}
    BY AgedRecord DEF TypeOK, Tick
  <1>2. lease' \in Lease \union {None}
    BY AgedLease DEF TypeOK, Tick
  <1>3. wait' \in [Request -> Nat]
    BY DEF TypeOK, Tick
  <1> QED
    BY <1>1, <1>2, <1>3 DEF TypeOK, Tick

LEMMA TypeRun ==
  ASSUME TypeOK, NEW r \in Request, Run(r) \/ Crash(r)
  PROVE  TypeOK'
  <1> USE DEF TypeOK, Goto, Stage
  <1>1. CASE PreReadHit(r)
    BY <1>1, ResolveType DEF PreReadHit
  <1>2. CASE PreReadMiss(r)
    BY <1>2, IdempotencyAssumption DEF PreReadMiss
  <1>3. CASE PreReadFails(r)
    BY <1>3, StatusType DEF PreReadFails, Answer
  <1>4. CASE Acquire(r)
    BY <1>4, IdempotencyAssumption DEF Acquire, Lease
  <1>5. CASE AcquireRefused(r)
    BY <1>5 DEF AcquireRefused
  <1>6. CASE AcquireFails(r)
    BY <1>6, StatusType, IdempotencyAssumption DEF AcquireFails, Answer, Lease
  <1>7. CASE RetryAcquire(r)
    BY <1>7 DEF RetryAcquire
  <1>8. CASE GiveUp(r)
    BY <1>8, StatusType DEF GiveUp, Answer
  <1>9. CASE ReReadHit(r)
    BY <1>9, ResolveType DEF ReReadHit
  <1>10. CASE ReReadMiss(r)
    BY <1>10 DEF ReReadMiss
  <1>11. CASE ReReadFails(r)
    BY <1>11, StatusType DEF ReReadFails, Answer
  <1>12. CASE WriteClaim(r)
    BY <1>12, ClaimType DEF WriteClaim, LandClaim
  <1>13. CASE WriteClaimFails(r)
    BY <1>13, ClaimType, StatusType DEF WriteClaimFails, LandClaim, Answer
  <1>14. CASE Unlock(r)
    BY <1>14 DEF Unlock
  <1>15. CASE WorkReturns(r)
    BY <1>15, StatusType DEF WorkReturns, Answer
  <1>16. CASE WorkUnrecordable(r)
    BY <1>16, StatusType DEF WorkUnrecordable, Answer
  <1>17. CASE WorkThrows(r)
    BY <1>17, StatusType DEF WorkThrows, Answer
  <1>18. CASE ConfirmOurs(r)
    BY <1>18 DEF ConfirmOurs
  <1>19. CASE ConfirmLost(r)
    BY <1>19 DEF ConfirmLost
  <1>20. CASE Commit(r)
    BY <1>20, ClaimType DEF Commit
  <1>21. CASE Release(r)
    BY <1>21 DEF Release
  <1>22. CASE Crash(r)
    BY <1>22 DEF Crash
  <1> QED
    BY <1>1, <1>2, <1>3, <1>4, <1>5, <1>6, <1>7, <1>8, <1>9, <1>10, <1>11, <1>12,
       <1>13, <1>14, <1>15, <1>16, <1>17, <1>18, <1>19, <1>20, <1>21, <1>22 DEF Run

\* Every variable keeps its type, under every fault, crash and expiry.
THEOREM TypeCorrect == Spec => []TypeOK
  <1>1. TypeOK /\ [Next]_vars => TypeOK'
    <2> SUFFICES ASSUME TypeOK, [Next]_vars PROVE TypeOK'
      OBVIOUS
    <2>1. CASE Tick
      BY <2>1, TypeTick
    <2>2. CASE \E r \in Request : Run(r) \/ Crash(r)
      BY <2>2, TypeRun
    <2>3. CASE UNCHANGED vars
      BY <2>3 DEF vars, TypeOK
    <2> QED
      BY <2>1, <2>2, <2>3 DEF Next
  <1> QED
    BY <1>1, TypeInit, PTL DEF Spec

-----------------------------------------------------------------------------
(* The deployment rules of the idempotency README: work is faster than its *)
(* claim, the claim section faster than its lease, reads fail closed, and   *)
(* every build writes the same record version.                             *)
Guarded ==
  /\ PromptWork /\ PromptLock /\ ~FailOpen
  /\ \A r, s \in Request : VersionOf[r] = VersionOf[s]

\* Whoever is in the critical section holds the lease.
LockHeld ==
  \A r \in Request : Locked(r) => lease # None /\ lease.token = r

\* A run about to write its claim still sees a free key: the re-read is not
\* outdated by the time the claim lands.
ReReadHolds ==
  \A r \in Request : pc[r] = "claim" => ~Usable(r)

\* An execution's own claim is what the store holds, until its final write.
ClaimHeld ==
  \A r \in Request : Executing(r) =>
    /\ Usable(r)
    /\ record.claim = r
    /\ record.state = "in-flight"

IInv == TypeOK /\ LockHeld /\ ReReadHolds /\ ClaimHeld

LEMMA InvInit == Init => IInv
  BY TypeInit DEF Init, IInv, LockHeld, ReReadHolds, ClaimHeld, Locked, Executing

\* While a run is about to write its claim, nobody is executing.
LEMMA ClaimersExcludeExecutions ==
  ASSUME IInv, Guarded, NEW r \in Request, pc[r] = "claim", NEW s \in Request
  PROVE  ~Executing(s)
  BY DEF IInv, Guarded, ReReadHolds, ClaimHeld, Usable

\* No two runs are in the critical section.
LEMMA LockExcludes ==
  ASSUME IInv, NEW r \in Request, NEW s \in Request, Locked(r), Locked(s)
  PROVE  r = s
  BY DEF IInv, LockHeld

LEMMA InvTick == IInv /\ Guarded /\ Tick => IInv'
  <1> SUFFICES ASSUME IInv, Guarded, Tick PROVE IInv'
    OBVIOUS
  <1> USE DEF IInv
  <1>1. TypeOK'
    BY TypeTick
  <1>2. LockHeld'
    <2> SUFFICES ASSUME NEW r \in Request, Locked(r)' PROVE (lease # None /\ lease.token = r)'
      BY DEF LockHeld
    <2>1. lease # None /\ lease.token = r /\ lease.life # 1
      BY DEF LockHeld, Locked, Tick, Guarded, LastTickOfLease
    <2> QED
      BY <2>1, AgedLease DEF TypeOK, Tick
  <1>3. ReReadHolds'
    BY AgedRecord DEF ReReadHolds, Usable, Tick, TypeOK
  <1>4. ClaimHeld'
    <2> SUFFICES ASSUME NEW r \in Request, Executing(r)'
                 PROVE  (Usable(r) /\ record.claim = r /\ record.state = "in-flight")'
      BY DEF ClaimHeld
    <2>1. Executing(r)
      BY DEF Executing, Tick
    <2>2. Usable(r) /\ record.claim = r /\ record.state = "in-flight" /\ record.life # 1
      BY <2>1 DEF ClaimHeld, Tick, Guarded, LastTickOfClaim, Usable
    <2> QED
      BY <2>2, AgedRecord DEF Usable, TypeOK, Tick
  <1> QED
    BY <1>1, <1>2, <1>3, <1>4


\* A step of one run leaves every other run where it was.
LEMMA OthersStay ==
  ASSUME TypeOK, NEW r \in Request, Run(r) \/ Crash(r), NEW s \in Request, s # r
  PROVE  pc'[s] = pc[s] /\ outcome'[s] = outcome[s]
  BY DEF TypeOK, Run, Goto, Answer, PreReadHit, PreReadMiss, PreReadFails, Acquire,
         AcquireRefused, AcquireFails, RetryAcquire, GiveUp, ReReadHit, ReReadMiss, ReReadFails,
         WriteClaim, WriteClaimFails, Unlock, WorkReturns, WorkUnrecordable, WorkThrows,
         ConfirmOurs, ConfirmLost, Commit, Release, Crash

LEMMA LockRun ==
  ASSUME IInv, NEW r \in Request, Run(r) \/ Crash(r)
  PROVE  LockHeld'
  <1> USE DEF IInv, TypeOK, Goto, Locked
  <1> SUFFICES ASSUME NEW s \in Request, Locked(s)' PROVE (lease # None /\ lease.token = s)'
    BY DEF LockHeld
  <1>1. CASE s = r
    <2>1. Acquire(r) \/ (Locked(r) /\ UNCHANGED lease)
      BY <1>1 DEF Run, PreReadHit, PreReadMiss, PreReadFails, AcquireRefused, AcquireFails,
           RetryAcquire, GiveUp, ReReadHit, ReReadMiss, ReReadFails, WriteClaim,
           WriteClaimFails, Unlock, WorkReturns, WorkUnrecordable, WorkThrows, ConfirmOurs,
           ConfirmLost, Commit, Release, Crash
    <2>2. CASE Acquire(r)
      BY <1>1, <2>2, IdempotencyAssumption DEF Acquire, Lease
    <2>3. CASE Locked(r) /\ UNCHANGED lease
      BY <1>1, <2>3 DEF LockHeld
    <2> QED
      BY <2>1, <2>2, <2>3
  <1>2. CASE s # r
    <2>1. lease # None /\ lease.token = s
      BY <1>2, OthersStay DEF LockHeld
    <2>2. UNCHANGED lease
      BY <2>1, <1>2 DEF Run, PreReadHit, PreReadMiss, PreReadFails, Acquire, AcquireRefused,
           AcquireFails, RetryAcquire, GiveUp, ReReadHit, ReReadMiss, ReReadFails, WriteClaim,
           WriteClaimFails, Unlock, WorkReturns, WorkUnrecordable, WorkThrows, ConfirmOurs,
           ConfirmLost, Commit, Release, Crash
    <2> QED
      BY <2>1, <2>2
  <1> QED
    BY <1>1, <1>2

\* The store changes only when the run in the critical section claims, or an
\* execution settles its own claim.
LEMMA StoreChanges ==
  ASSUME IInv, NEW r \in Request, Run(r) \/ Crash(r), record' # record
  PROVE  \/ pc[r] = "claim" /\ pc'[r] = "unlock" /\ record' = Claim(r)
         \/ Executing(r) /\ pc'[r] = "done" /\ record' \in {Completed(r), None}
  BY DEF IInv, TypeOK, Goto, Executing, Run, LandClaim, PreReadHit, PreReadMiss, PreReadFails,
         Acquire, AcquireRefused, AcquireFails, RetryAcquire, GiveUp, ReReadHit, ReReadMiss,
         ReReadFails, WriteClaim, WriteClaimFails, Unlock, WorkReturns, WorkUnrecordable,
         WorkThrows, ConfirmOurs, ConfirmLost, Commit, Release, Crash

LEMMA ReReadRun ==
  ASSUME IInv, Guarded, NEW r \in Request, Run(r) \/ Crash(r)
  PROVE  ReReadHolds'
  <1> USE DEF IInv, TypeOK, Goto
  <1> SUFFICES ASSUME NEW s \in Request, pc'[s] = "claim" PROVE ~Usable(s)'
    BY DEF ReReadHolds
  <1>1. CASE s = r
    <2>1. ReReadMiss(r)
      BY <1>1 DEF Run, PreReadHit, PreReadMiss, PreReadFails, Acquire, AcquireRefused,
           AcquireFails, RetryAcquire, GiveUp, ReReadHit, ReReadFails, WriteClaim,
           WriteClaimFails, Unlock, WorkReturns, WorkUnrecordable, WorkThrows, ConfirmOurs,
           ConfirmLost, Commit, Release, Crash
    <2> QED
      BY <1>1, <2>1 DEF ReReadMiss, Usable, Guarded
  <1>2. CASE s # r
    <2>1. pc[s] = "claim"
      BY <1>2, OthersStay
    <2>2. pc[r] # "claim"
      BY <1>2, <2>1, LockExcludes DEF Locked
    <2>3. ~Executing(r)
      BY <2>1, ClaimersExcludeExecutions
    <2>4. UNCHANGED record
      BY <2>2, <2>3, StoreChanges
    <2> QED
      BY <2>1, <2>4 DEF ReReadHolds, Usable
  <1> QED
    BY <1>1, <1>2

LEMMA ClaimRun ==
  ASSUME IInv, Guarded, NEW r \in Request, Run(r) \/ Crash(r)
  PROVE  ClaimHeld'
  <1> USE DEF IInv, TypeOK, Goto
  <1> SUFFICES ASSUME NEW s \in Request, Executing(s)'
               PROVE  (Usable(s) /\ record.claim = s /\ record.state = "in-flight")'
    BY DEF ClaimHeld
  <1>1. CASE s = r
    <2>1. WriteClaim(r) \/ (Executing(r) /\ UNCHANGED record)
      BY <1>1, ResolveType, StatusType, IdempotencyAssumption
         DEF Executing, Run, Answer, PreReadHit, PreReadMiss, PreReadFails, Acquire,
           AcquireRefused, AcquireFails, RetryAcquire, GiveUp, ReReadHit, ReReadMiss,
           ReReadFails, WriteClaimFails, Unlock, WorkReturns, WorkUnrecordable, WorkThrows,
           ConfirmOurs, ConfirmLost, Commit, Release, Crash
    <2>2. CASE WriteClaim(r)
      BY <1>1, <2>2, ClaimType, IdempotencyAssumption DEF WriteClaim, LandClaim, Usable
    <2>3. CASE Executing(r) /\ UNCHANGED record
      BY <1>1, <2>3 DEF ClaimHeld, Usable
    <2> QED
      BY <2>1, <2>2, <2>3
  <1>2. CASE s # r
    <2>1. Executing(s)
      BY <1>2, OthersStay DEF Executing
    <2>2. pc[r] # "claim"
      BY <2>1, ClaimersExcludeExecutions
    <2>3. ~Executing(r)
      BY <1>2, <2>1 DEF ClaimHeld
    <2>4. UNCHANGED record
      BY <2>2, <2>3, StoreChanges
    <2> QED
      BY <2>1, <2>4 DEF ClaimHeld, Usable
  <1> QED
    BY <1>1, <1>2

LEMMA InvNext == IInv /\ Guarded /\ [Next]_vars => IInv'
  <1> SUFFICES ASSUME IInv, Guarded, [Next]_vars PROVE IInv'
    OBVIOUS
  <1>1. CASE Tick
    BY <1>1, InvTick
  <1>2. ASSUME NEW r \in Request, Run(r) \/ Crash(r) PROVE IInv'
    BY <1>2, TypeRun, LockRun, ReReadRun, ClaimRun DEF IInv
  <1>3. CASE UNCHANGED vars
    BY <1>3 DEF vars, IInv, TypeOK, LockHeld, Locked, ReReadHolds, ClaimHeld, Executing, Usable
  <1> QED
    BY <1>1, <1>2, <1>3 DEF Next

LEMMA Invariant == Guarded /\ Spec => []IInv
  <1> SUFFICES ASSUME Guarded PROVE Spec => []IInv
    OBVIOUS
  <1>1. IInv /\ [Next]_vars => IInv'
    BY InvNext
  <1> QED
    BY <1>1, InvInit, PTL DEF Spec

-----------------------------------------------------------------------------
\* No two executions of one key overlap, however many runs there are and
\* whatever fails or crashes.
THEOREM ExecutionsExclude == Guarded /\ Spec => []AtMostOneExecution
  <1>1. IInv => AtMostOneExecution
    BY DEF IInv, ClaimHeld, AtMostOneExecution
  <1> QED
    BY <1>1, Invariant, PTL

\* A retained result is never retained beside a running execution.
THEOREM ResultsEndExecutions == Guarded /\ Spec => []NoExecutionBehindResult
  <1>1. IInv => NoExecutionBehindResult
    BY DEF IInv, ClaimHeld, NoExecutionBehindResult
  <1> QED
    BY <1>1, Invariant, PTL

\* A claim never lands on a key somebody holds or a result is retained for.
THEOREM ClaimsLandOnFreeKeys == Guarded /\ Spec => ClaimsOnlyFreeKey
  <1>1. IInv /\ [Next]_vars => [\A r \in claimed' \ claimed : ~Usable(r)]_vars
    <2> SUFFICES ASSUME IInv, [Next]_vars, NEW r \in claimed' \ claimed PROVE ~Usable(r)
      OBVIOUS
    <2>1. r \in Request /\ pc[r] = "claim"
      BY DEF IInv, TypeOK, Next, Tick, vars, Run, LandClaim, PreReadHit, PreReadMiss,
           PreReadFails, Acquire, AcquireRefused, AcquireFails, RetryAcquire, GiveUp, ReReadHit,
           ReReadMiss, ReReadFails, WriteClaim, WriteClaimFails, Unlock, WorkReturns,
           WorkUnrecordable, WorkThrows, ConfirmOurs, ConfirmLost, Commit, Release, Crash
    <2> QED
      BY <2>1 DEF IInv, ReReadHolds
  <1> QED
    BY <1>1, Invariant, PTL DEF Spec, ClaimsOnlyFreeKey

\* The final write of a run only ever replaces or deletes its own claim.
THEOREM OwnersSettle == Guarded /\ Spec => OnlyOwnerSettles
  <1>1. IInv => [\A r \in Request : (Commit(r) \/ Release(r)) /\ record' # record
                   => record = None \/ record.claim = r]_vars
    BY DEF IInv, ClaimHeld, Executing, Commit, Release
  <1> QED
    BY <1>1, Invariant, PTL DEF OnlyOwnerSettles

-----------------------------------------------------------------------------
(* What runs are told, without any rule of deployment.                     *)

\* The stages before a run's claim can have landed.
Early == {"idle", "acquire", "refused", "reread", "claim"}

\* The stage a run is in says what it has claimed and produced, and what it is
\* about to answer.
StagesTell ==
  \A r \in Request :
    /\ pc[r] \in Early => outcome[r] = None /\ r \notin claimed
    /\ pc[r] \in Early \union {"unlock", "work"} => r \notin produced
    /\ Executing(r) => r \in claimed
    /\ pc[r] = "work" => outcome[r] = None
    /\ pc[r] \in {"confirm", "release"} =>
         /\ outcome[r] \in {[status |-> "executed"], [status |-> "threw"]}
         /\ r \in produced => outcome[r] = [status |-> "executed"]
    /\ pc[r] = "commit" => r \in produced /\ outcome[r] = [status |-> "executed"]
    /\ pc[r] = "release" => r \notin produced

\* The record of a run of this deployment tells of that run.
RecordTells ==
  record # None /\ record.claim # None =>
    /\ record.claim \in claimed
    /\ record.fp = FpOf[record.claim]
    /\ record.version = VersionOf[record.claim]
    /\ record.state \in {"in-flight", "completed"}
    /\ record.state = "completed" => record.claim \in produced

\* What a run is told has its evidence.
AnswersTell ==
  \A r \in Request : outcome[r] # None =>
    /\ outcome[r].status \in {"executed", "threw"} => r \in claimed
    /\ outcome[r].status \in {"in-flight", "mismatch", "replayed"} => r \notin claimed
    /\ outcome[r].status = "replayed" /\ outcome[r].value # None =>
         /\ outcome[r].value \in produced
         /\ FpOf[outcome[r].value] = FpOf[r]
         /\ VersionOf[outcome[r].value] = VersionOf[r]

HInv == TypeOK /\ StagesTell /\ produced \subseteq claimed /\ RecordTells /\ AnswersTell

LEMMA HistoryInit == Init => HInv
  BY TypeInit, IdempotencyAssumption
     DEF Init, HInv, StagesTell, RecordTells, AnswersTell, Early, Executing

LEMMA HistoryTick == HInv /\ Tick => HInv'
  <1> SUFFICES ASSUME HInv, Tick PROVE HInv'
    OBVIOUS
  <1>1. UNCHANGED <<pc, outcome, claimed, produced>>
    BY DEF Tick
  <1>2. RecordTells'
    BY <1>1, AgedRecord DEF HInv, TypeOK, Tick, RecordTells
  <1> QED
    BY <1>1, <1>2, TypeTick DEF HInv, StagesTell, AnswersTell, Executing

\* Only the run that moves changes its histories.
LEMMA HistoryGrows ==
  ASSUME NEW r \in Request, Run(r) \/ Crash(r)
  PROVE  /\ claimed' \in {claimed, claimed \union {r}}
         /\ produced' \in {produced, produced \union {r}}
  BY DEF Run, LandClaim, PreReadHit, PreReadMiss, PreReadFails, Acquire, AcquireRefused,
         AcquireFails, RetryAcquire, GiveUp, ReReadHit, ReReadMiss, ReReadFails, WriteClaim,
         WriteClaimFails, Unlock, WorkReturns, WorkUnrecordable, WorkThrows, ConfirmOurs,
         ConfirmLost, Commit, Release, Crash

\* Of the run that moves.
LEMMA MoverStages ==
  ASSUME HInv, NEW r \in Request, Run(r) \/ Crash(r)
  PROVE  /\ pc'[r] \in Early => outcome'[r] = None /\ r \notin claimed'
         /\ pc'[r] \in Early \union {"unlock", "work"} => r \notin produced'
         /\ Executing(r)' => r \in claimed'
         /\ pc'[r] = "work" => outcome'[r] = None
         /\ pc'[r] \in {"confirm", "release"} =>
              /\ outcome'[r] \in {[status |-> "executed"], [status |-> "threw"]}
              /\ r \in produced' => outcome'[r] = [status |-> "executed"]
         /\ pc'[r] = "commit" => r \in produced' /\ outcome'[r] = [status |-> "executed"]
         /\ pc'[r] = "release" => r \notin produced'
  <1> USE DEF HInv, TypeOK, StagesTell, Early, Executing, Goto, Answer
  <1>1. CASE PreReadHit(r) \/ PreReadMiss(r) \/ PreReadFails(r) \/ Crash(r)
    BY <1>1 DEF PreReadHit, PreReadMiss, PreReadFails, Crash
  <1>2. CASE Acquire(r) \/ AcquireRefused(r) \/ AcquireFails(r) \/ RetryAcquire(r) \/ GiveUp(r)
    BY <1>2 DEF Acquire, AcquireRefused, AcquireFails, RetryAcquire, GiveUp
  <1>3. CASE ReReadHit(r)
    BY <1>3, ResolveType, IdempotencyAssumption DEF ReReadHit
  <1>4. CASE ReReadMiss(r) \/ ReReadFails(r)
    BY <1>4, StatusType, IdempotencyAssumption DEF ReReadMiss, ReReadFails
  <1>5. CASE WriteClaim(r) \/ WriteClaimFails(r)
    BY <1>5, StatusType, IdempotencyAssumption DEF WriteClaim, WriteClaimFails, LandClaim
  <1>6. CASE Unlock(r)
    BY <1>6 DEF Unlock
  <1>7. CASE WorkReturns(r) \/ WorkUnrecordable(r) \/ WorkThrows(r)
    BY <1>7 DEF WorkReturns, WorkUnrecordable, WorkThrows
  <1>8. CASE ConfirmOurs(r) \/ ConfirmLost(r) \/ Commit(r) \/ Release(r)
    BY <1>8 DEF ConfirmOurs, ConfirmLost, Commit, Release
  <1> QED
    BY <1>1, <1>2, <1>3, <1>4, <1>5, <1>6, <1>7, <1>8 DEF Run

LEMMA StagesRun ==
  ASSUME HInv, NEW r \in Request, Run(r) \/ Crash(r)
  PROVE  StagesTell'
  <1> SUFFICES ASSUME NEW s \in Request, s # r
               PROVE  /\ pc'[s] \in Early => outcome'[s] = None /\ s \notin claimed'
                      /\ pc'[s] \in Early \union {"unlock", "work"} => s \notin produced'
                      /\ Executing(s)' => s \in claimed'
                      /\ pc'[s] = "work" => outcome'[s] = None
                      /\ pc'[s] \in {"confirm", "release"} =>
                           /\ outcome'[s] \in {[status |-> "executed"], [status |-> "threw"]}
                           /\ s \in produced' => outcome'[s] = [status |-> "executed"]
                      /\ pc'[s] = "commit" =>
                           s \in produced' /\ outcome'[s] = [status |-> "executed"]
                      /\ pc'[s] = "release" => s \notin produced'
    BY MoverStages DEF StagesTell
  <1>1. pc'[s] = pc[s] /\ outcome'[s] = outcome[s]
    BY OthersStay DEF HInv
  <1>2. (s \in claimed' <=> s \in claimed) /\ (s \in produced' <=> s \in produced)
    BY HistoryGrows
  <1> QED
    BY <1>1, <1>2 DEF HInv, StagesTell, Executing

LEMMA RecordRun ==
  ASSUME HInv, NEW r \in Request, Run(r) \/ Crash(r)
  PROVE  RecordTells' /\ produced' \subseteq claimed'
  <1> USE DEF HInv, TypeOK
  <1>1. claimed \subseteq claimed' /\ produced \subseteq produced'
    BY HistoryGrows
  <1>2. CASE UNCHANGED record
    <2>1. produced' \subseteq claimed'
      BY <1>1, <1>2, HistoryGrows DEF StagesTell, Executing, Run, LandClaim, PreReadHit, PreReadMiss, PreReadFails,
         Acquire, AcquireRefused, AcquireFails, RetryAcquire, GiveUp, ReReadHit, ReReadMiss,
         ReReadFails, WriteClaim, WriteClaimFails, Unlock, WorkReturns, WorkUnrecordable,
         WorkThrows, ConfirmOurs, ConfirmLost, Commit, Release, Crash
    <2> QED
      BY <1>1, <1>2, <2>1 DEF RecordTells
  <1>3. CASE WriteClaim(r) \/ WriteClaimFails(r)
    BY <1>2, <1>3, ClaimType DEF WriteClaim, WriteClaimFails, LandClaim, RecordTells
  <1>4. CASE Commit(r)
    BY <1>2, <1>4, ClaimType DEF Commit, RecordTells, StagesTell
  <1>5. CASE Release(r)
    BY <1>2, <1>5 DEF Release, RecordTells
  <1> QED
    BY <1>2, <1>3, <1>4, <1>5 DEF Run, PreReadHit, PreReadMiss, PreReadFails,
         Acquire, AcquireRefused, AcquireFails, RetryAcquire, GiveUp, ReReadHit, ReReadMiss,
         ReReadFails, Unlock, WorkReturns, WorkUnrecordable,
         WorkThrows, ConfirmOurs, ConfirmLost, Crash

LEMMA AnswersRun ==
  ASSUME HInv, NEW r \in Request, Run(r) \/ Crash(r)
  PROVE  AnswersTell'
  <1> USE DEF HInv, TypeOK, AnswersTell
  <1> DEFINE Told(s) ==
        outcome[s] # None =>
          /\ outcome[s].status \in {"executed", "threw"} => s \in claimed
          /\ outcome[s].status \in {"in-flight", "mismatch", "replayed"} => s \notin claimed
          /\ outcome[s].status = "replayed" /\ outcome[s].value # None =>
               /\ outcome[s].value \in produced
               /\ FpOf[outcome[s].value] = FpOf[s]
               /\ VersionOf[outcome[s].value] = VersionOf[s]
  <1>1. ASSUME NEW s \in Request, s # r PROVE Told(s)'
    <2>1. outcome'[s] = outcome[s]
      BY <1>1, OthersStay
    <2>2. (s \in claimed' <=> s \in claimed) /\ produced \subseteq produced'
      BY <1>1, HistoryGrows
    <2> QED
      BY <2>1, <2>2
  <1>2. Told(r)'
    <2> USE DEF Goto, Answer, StagesTell, Early, Executing
    <2>1. CASE PreReadHit(r) \/ ReReadHit(r)
      <3>1. Usable(r) /\ outcome' = [outcome EXCEPT ![r] = Resolve(r)]
              /\ r \notin claimed /\ UNCHANGED <<claimed, produced>>
        BY <2>1 DEF PreReadHit, ReReadHit
      <3>2. outcome'[r] = Resolve(r)
        BY <3>1
      <3> QED
        BY <3>1, <3>2 DEF Resolve, Usable, RecordTells
    <2>2. CASE PreReadMiss(r) \/ PreReadFails(r) \/ Crash(r)
      BY <2>2 DEF PreReadMiss, PreReadFails, Crash
    <2>3. CASE Acquire(r) \/ AcquireRefused(r) \/ AcquireFails(r) \/ RetryAcquire(r) \/ GiveUp(r)
      BY <2>3 DEF Acquire, AcquireRefused, AcquireFails, RetryAcquire, GiveUp
    <2>4. CASE ReReadMiss(r) \/ ReReadFails(r)
      BY <2>4 DEF ReReadMiss, ReReadFails
    <2>5. CASE WriteClaim(r) \/ WriteClaimFails(r)
      BY <2>5 DEF WriteClaim, WriteClaimFails, LandClaim
    <2>6. CASE Unlock(r)
      BY <2>6 DEF Unlock
    <2>7. CASE WorkReturns(r) \/ WorkUnrecordable(r) \/ WorkThrows(r)
      BY <2>7 DEF WorkReturns, WorkUnrecordable, WorkThrows
    <2>8. CASE ConfirmOurs(r) \/ ConfirmLost(r) \/ Commit(r) \/ Release(r)
      BY <2>8 DEF ConfirmOurs, ConfirmLost, Commit, Release
    <2> QED
      BY <2>1, <2>2, <2>3, <2>4, <2>5, <2>6, <2>7, <2>8 DEF Run
  <1> QED
    BY <1>1, <1>2

LEMMA HistoryNext == HInv /\ [Next]_vars => HInv'
  <1> SUFFICES ASSUME HInv, [Next]_vars PROVE HInv'
    OBVIOUS
  <1>1. CASE Tick
    BY <1>1, HistoryTick
  <1>2. ASSUME NEW r \in Request, Run(r) \/ Crash(r) PROVE HInv'
    BY <1>2, TypeRun, StagesRun, RecordRun, AnswersRun DEF HInv
  <1>3. CASE UNCHANGED vars
    BY <1>3 DEF vars, HInv, TypeOK, StagesTell, RecordTells, AnswersTell, Executing
  <1> QED
    BY <1>1, <1>2, <1>3 DEF Next

LEMMA Histories == Spec => []HInv
  BY HistoryInit, HistoryNext, PTL DEF Spec

\* A replayed value was produced by another run that sent the same fingerprint
\* under the same record version: no rule of deployment is needed, stores may have
\* been used before, reads may fail open and every claim may lapse.
THEOREM ReplaysAreFaithful == Spec => []ReplayIsFaithful
  <1>1. HInv => ReplayIsFaithful
    BY DEF HInv, AnswersTell, ReplayIsFaithful
  <1> QED
    BY <1>1, Histories, PTL

-----------------------------------------------------------------------------
(* The protocol keeps the promise of AtMostOnce.                           *)

\* Nothing that an earlier build left in the store can be used by these builds.
FreshStore == \A old \in InitialRecords \ {None}, r \in Request : old.version # VersionOf[r]

Leftovers == record # None /\ record.claim = None => \A r \in Request : ~Usable(r)

\* The evidence that RecordTells and AnswersTell leave out, because a leftover record
\* does not have it.
Evidence ==
  \A r \in Request : outcome[r] # None =>
    /\ outcome[r].status = "mismatch" => \E s \in claimed : FpOf[s] # FpOf[r]
    /\ outcome[r].status = "replayed" => outcome[r].value # None

PInv == IInv /\ HInv /\ Leftovers /\ Evidence

LEMMA LeftoversNext ==
  ASSUME HInv, Leftovers, [Next]_vars
  PROVE  Leftovers'
  <1> USE DEF Leftovers
  <1>1. CASE Tick
    BY <1>1, AgedRecord DEF HInv, TypeOK, Tick, Usable
  <1>2. ASSUME NEW r \in Request, Run(r) \/ Crash(r) PROVE Leftovers'
    <2>1. UNCHANGED record \/ record' \in {Claim(r), Completed(r), None}
      BY <1>2 DEF Run, LandClaim, PreReadHit, PreReadMiss, PreReadFails, Acquire, AcquireRefused,
         AcquireFails, RetryAcquire, GiveUp, ReReadHit, ReReadMiss, ReReadFails, WriteClaim,
         WriteClaimFails, Unlock, WorkReturns, WorkUnrecordable, WorkThrows, ConfirmOurs,
         ConfirmLost, Commit, Release, Crash
    <2> QED
      BY <2>1, ClaimType, IdempotencyAssumption DEF Usable
  <1>3. CASE UNCHANGED vars
    BY <1>3 DEF vars, Usable
  <1> QED
    BY <1>1, <1>2, <1>3 DEF Next

LEMMA EvidenceNext ==
  ASSUME HInv, Leftovers, Evidence, [Next]_vars
  PROVE  Evidence'
  <1> USE DEF HInv, TypeOK, Evidence
  <1> DEFINE Shown(s) ==
        outcome[s] # None =>
          /\ outcome[s].status = "mismatch" => \E u \in claimed : FpOf[u] # FpOf[s]
          /\ outcome[s].status = "replayed" => outcome[s].value # None
  <1>1. ASSUME NEW r \in Request, Run(r) \/ Crash(r) PROVE Evidence'
    <2> USE <1>1
    <2>1. claimed \subseteq claimed'
      BY HistoryGrows
    <2>2. ASSUME NEW s \in Request, s # r PROVE Shown(s)'
      BY <2>1, <2>2, OthersStay
    <2>3. CASE PreReadHit(r) \/ ReReadHit(r)
      <3>1. Usable(r) /\ outcome'[r] = Resolve(r)
        BY <2>3 DEF PreReadHit, ReReadHit
      <3>2. record.claim # None /\ record.claim \in claimed /\ record.fp = FpOf[record.claim]
        BY <3>1 DEF Leftovers, RecordTells, Usable
      <3>3. Shown(r)'
        BY <2>1, <3>1, <3>2 DEF Resolve
      <3> QED
        BY <2>2, <3>3
    <2>4. CASE ~(PreReadHit(r) \/ ReReadHit(r))
      <3>1. \/ outcome'[r] = outcome[r]
            \/ \E status \in {"executed", "threw", "in-flight", "unavailable"} :
                 outcome'[r] = [status |-> status]
        BY <2>4 DEF Answer, Run, PreReadMiss, PreReadFails, Acquire, AcquireRefused,
         AcquireFails, RetryAcquire, GiveUp, ReReadMiss, ReReadFails, WriteClaim,
         WriteClaimFails, Unlock, WorkReturns, WorkUnrecordable, WorkThrows, ConfirmOurs,
         ConfirmLost, Commit, Release, Crash
      <3>2. Shown(r)'
        BY <2>1, <3>1
      <3> QED
        BY <2>2, <3>2
    <2> QED
      BY <2>3, <2>4
  <1>2. CASE Tick \/ UNCHANGED vars
    BY <1>2 DEF Tick, vars
  <1> QED
    BY <1>1, <1>2 DEF Next

LEMMA PromiseInvariant == Guarded /\ FreshStore /\ Spec => []PInv
  <1> SUFFICES ASSUME Guarded, FreshStore PROVE Spec => []PInv
    OBVIOUS
  <1>1. Init => Leftovers /\ Evidence
    BY IdempotencyAssumption DEF Init, Leftovers, Evidence, FreshStore, Usable
  <1>2. HInv /\ Leftovers /\ Evidence /\ [Next]_vars => (Leftovers /\ Evidence)'
    BY LeftoversNext, EvidenceNext
  <1> QED
    BY <1>1, <1>2, Invariant, Histories, PTL DEF Spec, PInv

-----------------------------------------------------------------------------
\* The abstract state, by the names of AtMostOnce.
Holder == IF record # None /\ record.state = "in-flight" THEN record.claim ELSE None
Settled == IF record # None /\ record.state = "completed" THEN record.claim ELSE None
Answered == [r \in Request |-> IF pc[r] = "done" THEN outcome[r] ELSE None]

LEMMA PromiseInit == Init => Promise!Init
  BY IdempotencyAssumption DEF Init, Promise!Init

\* A run that is told something while nothing else changes for the abstract state.
LEMMA Telling ==
  ASSUME PInv, PInv', NEW r \in Request, pc[r] # "done", pc'[r] = "done", outcome'[r] # None,
         \A s \in Request \ {r} : pc'[s] = pc[s] /\ outcome'[s] = outcome[s],
         UNCHANGED <<record, claimed, produced>>
  PROVE  Promise!Tell(r)
  <1> USE DEF PInv, HInv, TypeOK
  <1>1. PICK a : a = outcome'[r]
    OBVIOUS
  <1>2. a \in Promise!Answers
    BY <1>1 DEF Promise!Answers, Outcome, AnswersTell, Evidence
  <1>3. Promise!Supported(r, a)
    BY <1>1 DEF Promise!Supported, AnswersTell, Evidence, Outcome
  <1>4. Promise!Reply(r, a)
    BY <1>1, IdempotencyAssumption DEF Promise!Reply
  <1>5. Holder' = Holder /\ Settled' = Settled
    BY DEF Holder, Settled
  <1>6. \E b \in Promise!Answers : Promise!Supported(r, b) /\ Promise!Reply(r, b)
    BY <1>2, <1>3, <1>4
  <1> QED
    BY <1>5, <1>6 DEF Promise!Tell, Holder, Settled

\* A step that changes nothing the promise speaks of.
LEMMA Silent ==
  ASSUME PInv, UNCHANGED <<record, claimed, produced>>,
         \A s \in Request : IF pc[s] = "done" THEN pc'[s] = "done" /\ outcome'[s] = outcome[s]
                                              ELSE pc'[s] # "done"
  PROVE  UNCHANGED Promise!vars
  BY DEF Promise!vars

\* Time ends a hold or a retention, or nothing at all.
LEMMA PromiseTick == PInv /\ Tick => [Promise!Next]_(Promise!vars)
  <1> SUFFICES ASSUME PInv, Tick PROVE Promise!Expire \/ UNCHANGED Promise!vars
    BY DEF Promise!Next
  <1> USE DEF PInv, HInv, TypeOK
  <1>1. UNCHANGED <<pc, outcome, claimed, produced>>
    BY DEF Tick
  <1>2. CASE record' # None \/ record = None \/ record.claim = None
    <2>1. Holder' = Holder /\ Settled' = Settled
      BY <1>2, AgedRecord DEF Tick, Holder, Settled
    <2> QED
      BY <1>1, <2>1 DEF Promise!vars, Holder, Settled
  <1>3. CASE record # None /\ record.claim # None /\ record' = None
    <2>1. Holder' = None /\ Settled' = None
      BY <1>3 DEF Holder, Settled
    <2>2. \/ Holder # None /\ Settled = None
          \/ Settled # None /\ Holder = None
      BY <1>3 DEF RecordTells, Holder, Settled
    <2> QED
      BY <1>1, <2>1, <2>2 DEF Promise!Expire, Holder, Settled
  <1> QED
    BY <1>2, <1>3

\* A claim that lands takes a key that is free.
LEMMA PromiseTake ==
  ASSUME PInv, Guarded, NEW r \in Request, pc[r] = "claim", LandClaim(r), Goto(r, "unlock"),
         produced' = produced, \A s \in Request \ {r} : outcome'[s] = outcome[s]
  PROVE  Promise!Take(r)
  <1> USE DEF PInv, HInv, TypeOK
  <1>1. Holder = None /\ Settled = None
    BY DEF IInv, ReReadHolds, Usable, RecordTells, Guarded, Holder, Settled
  <1>2. r \notin claimed
    BY DEF StagesTell, Early
  <1>3. Holder' = r /\ Settled' = None /\ claimed' = claimed \union {r}
    BY ClaimType, IdempotencyAssumption DEF LandClaim, Holder, Settled
  <1>4. Answered' = Answered
    BY DEF Goto, Answered
  <1> QED
    BY <1>1, <1>2, <1>3, <1>4 DEF Promise!Take, Holder, Settled, Answered

\* An execution holds the key, and nothing is retained beside it.
LEMMA ExecutionHolds ==
  ASSUME PInv, NEW r \in Request, Executing(r)
  PROVE  Holder = r /\ Settled = None
  BY IdempotencyAssumption DEF PInv, IInv, ClaimHeld, Usable, Holder, Settled

LEMMA PromiseProduce ==
  ASSUME PInv, NEW r \in Request, WorkReturns(r)
  PROVE  Promise!Produce(r)
  <1> USE DEF PInv, HInv, TypeOK
  <1>1. Holder = r
    BY ExecutionHolds DEF WorkReturns, Executing
  <1>2. r \notin produced
    BY DEF WorkReturns, StagesTell, Early
  <1>3. UNCHANGED <<record, claimed>> /\ produced' = produced \union {r}
    BY DEF WorkReturns
  <1>4. Answered' = Answered
    BY DEF WorkReturns, Goto, Answer, Answered
  <1> QED
    BY <1>1, <1>2, <1>3, <1>4 DEF Promise!Produce, Holder, Settled, Answered

\* A run that ends is replied to, and only that run.
LEMMA Replying ==
  ASSUME TypeOK, NEW r \in Request, pc[r] # "done", Goto(r, "done"), NEW a, outcome'[r] = a,
         \A s \in Request \ {r} : outcome'[s] = outcome[s]
  PROVE  Promise!Reply(r, a)
  BY IdempotencyAssumption DEF TypeOK, Goto, Promise!Reply

\* A completed record settles the key; one that never landed leaves it held.
LEMMA PromiseCommit ==
  ASSUME PInv, PInv', NEW r \in Request, Commit(r)
  PROVE  Promise!Settle(r) \/ Promise!Tell(r)
  <1> USE DEF PInv, HInv, TypeOK
  <1>1. Holder = r /\ Settled = None
    BY ExecutionHolds DEF Commit, Executing
  <1>2. r \in produced /\ outcome[r] = [status |-> "executed"]
    BY DEF Commit, StagesTell
  <1>3. CASE record' = Completed(r)
    <2>1. Holder' = None /\ Settled' = r
      BY <1>3, ClaimType, IdempotencyAssumption DEF Holder, Settled
    <2>2. Promise!Reply(r, [status |-> "executed"])
      BY <1>2, Replying DEF Commit
    <2> QED
      BY <1>1, <1>2, <2>1, <2>2 DEF Promise!Settle, Commit, Holder, Settled
  <1>4. CASE UNCHANGED record
    <2>1. pc[r] # "done" /\ pc'[r] = "done" /\ outcome' = outcome
          /\ UNCHANGED <<record, claimed, produced>>
          /\ \A s \in Request \ {r} : pc'[s] = pc[s]
      BY <1>4 DEF Commit, Goto
    <2>2. outcome'[r] # None
      BY <1>2, <2>1, StatusType, IdempotencyAssumption
    <2> QED
      BY <2>1, <2>2, Telling
  <1> QED
    BY <1>3, <1>4 DEF Commit

\* A deleted claim gives the key back; a delete that never landed leaves it held.
LEMMA PromiseRelease ==
  ASSUME PInv, PInv', NEW r \in Request, Release(r)
  PROVE  Promise!GiveBack(r) \/ Promise!Tell(r)
  <1> USE DEF PInv, HInv, TypeOK
  <1>1. Holder = r /\ Settled = None
    BY ExecutionHolds DEF Release, Executing
  <1>2. r \notin produced /\ outcome[r] \in {[status |-> "executed"], [status |-> "threw"]}
    BY DEF Release, StagesTell
  <1>3. CASE record' = None
    <2>1. Holder' = None /\ Settled' = None
      BY <1>3 DEF Holder, Settled
    <2>2. \E status \in {"executed", "threw"} : Promise!Reply(r, [status |-> status])
      BY <1>2, Replying DEF Release
    <2> QED
      BY <1>1, <1>2, <2>1, <2>2 DEF Promise!GiveBack, Release, Holder, Settled
  <1>4. CASE UNCHANGED record
    <2>1. pc[r] # "done" /\ pc'[r] = "done" /\ outcome' = outcome
          /\ UNCHANGED <<record, claimed, produced>>
          /\ \A s \in Request \ {r} : pc'[s] = pc[s]
      BY <1>4 DEF Release, Goto
    <2>2. outcome'[r] # None
      BY <1>2, <2>1, StatusType, IdempotencyAssumption
    <2> QED
      BY <2>1, <2>2, Telling
  <1> QED
    BY <1>3, <1>4 DEF Release

\* Every other step of a run tells it something, or is silent.
LEMMA PromiseRun ==
  ASSUME PInv, PInv', Guarded, NEW r \in Request, Run(r) \/ Crash(r)
  PROVE  [Promise!Next]_(Promise!vars)
  <1> USE DEF PInv, HInv, TypeOK, Goto
  <1>1. \A s \in Request \ {r} : pc'[s] = pc[s] /\ outcome'[s] = outcome[s]
    BY OthersStay
  <1>2. CASE PreReadHit(r) \/ PreReadFails(r) \/ AcquireFails(r) \/ GiveUp(r) \/ ConfirmLost(r)
    <2>1. UNCHANGED <<record, claimed, produced>> /\ pc[r] # "done" /\ pc'[r] = "done"
      BY <1>2 DEF PreReadHit, PreReadFails, AcquireFails, GiveUp, ConfirmLost
    <2>2. outcome'[r] \in Outcome
      <3>1. CASE PreReadHit(r)
        BY <3>1, ResolveType DEF PreReadHit
      <3>2. CASE PreReadFails(r) \/ AcquireFails(r) \/ GiveUp(r)
        BY <3>2, StatusType DEF PreReadFails, AcquireFails, GiveUp, Answer
      <3>3. CASE ConfirmLost(r)
        BY <3>3, StatusType DEF ConfirmLost, StagesTell
      <3> QED
        BY <1>2, <3>1, <3>2, <3>3
    <2>3. outcome'[r] # None
      BY <2>2, IdempotencyAssumption
    <2> QED
      BY <1>1, <2>1, <2>3, Telling DEF Promise!Next
  <1>3. CASE WriteClaim(r) \/ WriteClaimFails(r)
    <2>1. CASE LandClaim(r)
      BY <1>1, <1>3, <2>1, PromiseTake DEF WriteClaim, WriteClaimFails, Promise!Next
    <2>2. CASE UNCHANGED <<record, claimed>>
      BY <1>1, <1>3, <2>2, Silent DEF WriteClaim, WriteClaimFails
    <2> QED
      BY <1>3, <2>1, <2>2 DEF WriteClaim, WriteClaimFails
  <1>4. CASE Unlock(r)
    <2>1. UNCHANGED <<record, outcome, claimed, produced>> /\ pc[r] # "done"
      BY <1>4 DEF Unlock
    <2>2. CASE outcome[r] = None
      <3>1. pc'[r] # "done"
        BY <1>4, <2>2 DEF Unlock
      <3> QED
        BY <1>1, <2>1, <3>1, Silent
    <2>3. CASE outcome[r] # None
      <3>1. pc'[r] = "done"
        BY <1>4, <2>3 DEF Unlock
      <3> QED
        BY <1>1, <2>1, <2>3, <3>1, Telling DEF Promise!Next
    <2> QED
      BY <2>2, <2>3
  <1>5. CASE WorkReturns(r)
    BY <1>5, PromiseProduce DEF Promise!Next
  <1>6. CASE Commit(r)
    BY <1>6, PromiseCommit DEF Promise!Next
  <1>7. CASE Release(r)
    BY <1>7, PromiseRelease DEF Promise!Next
  <1>8. CASE \/ PreReadMiss(r) \/ Acquire(r) \/ AcquireRefused(r) \/ RetryAcquire(r)
             \/ ReReadHit(r) \/ ReReadMiss(r) \/ ReReadFails(r)
             \/ WorkUnrecordable(r) \/ WorkThrows(r) \/ ConfirmOurs(r) \/ Crash(r)
    <2>1. UNCHANGED <<record, claimed, produced>> /\ pc[r] # "done" /\ pc'[r] # "done"
      BY <1>8 DEF PreReadMiss, Acquire, AcquireRefused, RetryAcquire, ReReadHit, ReReadMiss,
           ReReadFails, WorkUnrecordable, WorkThrows, ConfirmOurs, Crash
    <2> QED
      BY <1>1, <2>1, Silent
  <1> QED
    BY <1>2, <1>3, <1>4, <1>5, <1>6, <1>7, <1>8 DEF Run

LEMMA PromiseNext == Guarded /\ PInv /\ PInv' /\ [Next]_vars => [Promise!Next]_(Promise!vars)
  <1> SUFFICES ASSUME Guarded, PInv, PInv', [Next]_vars PROVE [Promise!Next]_(Promise!vars)
    OBVIOUS
  <1>1. CASE UNCHANGED vars
    BY <1>1 DEF vars, Promise!vars
  <1> QED
    BY <1>1, PromiseTick, PromiseRun DEF Next

\* The store, the lock and the concurrent runs implement the one-key promise: every step is
\* a step of AtMostOnce or changes nothing it speaks of, under the rules of Guarded and
\* on a store that holds nothing these builds would take for their own.
THEOREM PromiseKept == Guarded /\ FreshStore /\ Spec => KeepsPromise
  <1> SUFFICES ASSUME Guarded, FreshStore PROVE Spec => KeepsPromise
    OBVIOUS
  <1>1. PInv /\ PInv' /\ [Next]_vars => [Promise!Next]_(Promise!vars)
    BY PromiseNext
  <1>2. Spec => []PInv
    BY PromiseInvariant
  <1> QED
    BY <1>1, <1>2, PromiseInit, PTL DEF Spec, KeepsPromise, Promise!Spec
=============================================================================
