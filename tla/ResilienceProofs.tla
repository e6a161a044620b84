--------------------------- MODULE ResilienceProofs ---------------------------
(***************************************************************************)
(* What stands between a process and those it calls or serves: one call    *)
(* over fetch with its retries, health checks and analytics, the circuit   *)
(* breaker, the rate limiter, the cookies and the pages of lists it        *)
(* answers with.  They share no state, and each has an inductive invariant *)
(* of its own.                                                             *)
(***************************************************************************)
EXTENDS Outgoing, CircuitBreaker, Serving,
        FiniteSetTheorems, FunctionTheorems, SequenceTheorems, WellFoundedInduction, TLAPS

-----------------------------------------------------------------------------
(* One call over fetch, for any calls and any maxAttempts: what may be     *)
(* replayed, what an abort ends, and what a settled call has earned,       *)
(* however often attempts are lost, time out, or are run by the server     *)
(* after they were given up on.                                            *)

(* The inductive invariant.                                                *)

RequestTypes ==
  /\ request \in Requests
  /\ at \in {"called", "head", "asking", "sleeping", "answered", "reading", "over"}
  /\ tries \in Nat /\ started \in Nat /\ strays \in Nat /\ effects \in Nat
  /\ aborted \in BOOLEAN
  /\ wire \in {"none", "sent", "done"}
  /\ status \in {"none", "ok", "busy", "refused"}
  /\ result \in {"none", "resolved", "rejected", "aborted", "stopped"}
  /\ at = "over" <=> result # "none"

\* An attempt is on the wire only while the call asks, and every request that was
\* put there has been run, may still be run, or never will be.
Outstanding == IF wire = "sent" THEN 1 ELSE 0

Accounted ==
  /\ wire # "none" => at = "asking"
  /\ effects + strays + Outstanding <= started

\* The policy has attempts left while the loop goes on, and each attempt it made
\* before this one has failed; without a policy that may retry there is just one.
LoopBounded ==
  /\ tries <= MaxAttempts /\ started <= MaxAttempts
  /\ at \in {"called", "head", "sleeping"} => started <= tries /\ tries < MaxAttempts
  /\ at = "asking" => started <= tries + 1 /\ tries < MaxAttempts
  /\ ~Retryable(request) =>
       /\ started <= 1 /\ at # "sleeping"
       /\ at \in {"called", "head", "asking"} => tries = 0

\* Only this instrument has been told, and once.
Once(i) == [Quiet EXCEPT ![i] = 1]

\* Each instrument is told at most once, and only as the call settles; the HTTP
\* client's before it reads the body.
TallyFits ==
  /\ at \notin {"reading", "over"} => tally = Quiet
  /\ at = "reading" => tally = IF request.api = "http" THEN Once("recorded") ELSE Quiet
  /\ at = "over" => tally = Quiet \/ \E i \in Instruments : tally = Once(i)
  /\ at = "over" /\ request.api = "http" =>
       tally = IF request.sound THEN Once("recorded") ELSE Quiet
  /\ at = "over" /\ request.api \in {"send", "sdk"} =>
       IF result = "resolved" THEN tally = Once("sends") ELSE tally \in {Quiet, Once("errors")}

\* A call that went on past its start was sound.
SoundGoesOn == at \notin {"called", "over"} => request.sound

\* An ok status was earned by a run.
OkWasRun ==
  /\ status = "ok" => effects >= 1
  /\ result = "resolved" => status = "ok" \/ (request.api = "http" /\ ~request.strict)

RequestInv == RequestTypes /\ Accounted /\ LoopBounded /\ TallyFits /\ SoundGoesOn /\ OkWasRun

LEMMA OnceIs ==
  /\ Quiet \in [Instruments -> 0..1] /\ \A i \in Instruments : Quiet[i] = 0
  /\ \A i \in Instruments :
       /\ Once(i) \in [Instruments -> 0..1] /\ Once(i)[i] = 1
       /\ \A j \in Instruments \ {i} : Once(i)[j] = 0
  BY DEF Quiet, Once, Instruments

\* An instrument that is told first is told once.
LEMMA ToldIs ==
  ASSUME NEW i \in Instruments, tally = Quiet
  PROVE  Tell(i) = Once(i)
  BY DEF Tell, Once, Quiet

LEMMA TypeImplied == HttpRequestsAssumption /\ RequestInv => RequestTypeOK
  <1> SUFFICES ASSUME HttpRequestsAssumption, RequestInv PROVE RequestTypeOK
    OBVIOUS
  <1>1. tally \in [Instruments -> 0..1]
    BY OnceIs DEF RequestInv, TallyFits, RequestTypes, Instruments
  <1>2. strays <= started /\ effects <= started
    BY DEF RequestInv, RequestTypes, Accounted, Outstanding
  <1> QED
    BY <1>1, <1>2 DEF RequestInv, RequestTypes, LoopBounded, RequestTypeOK, HttpRequestsAssumption

LEMMA RequestInvInit == HttpRequestsAssumption /\ RequestInit => RequestInv
  <1> SUFFICES ASSUME HttpRequestsAssumption, RequestInit PROVE RequestInv
    OBVIOUS
  <1>1. RequestTypes /\ SoundGoesOn /\ OkWasRun
    BY DEF RequestInit, RequestTypes, SoundGoesOn, OkWasRun
  <1>2. Accounted /\ LoopBounded
    BY DEF RequestInit, Accounted, Outstanding, LoopBounded, HttpRequestsAssumption
  <1>3. TallyFits
    BY DEF RequestInit, TallyFits
  <1> QED
    BY <1>1, <1>2, <1>3 DEF RequestInv

-----------------------------------------------------------------------------
(* The loop of the policy.                                                 *)

\* What becomes of a failed attempt, given up on or not.
LEMMA FailedKeeps ==
  ASSUME HttpRequestsAssumption, RequestInv, at \in {"head", "asking"}, request.api # "sdk",
         NEW kind \in {"error", "status"}, AttemptFails(kind),
         kind = "status" => request.api # "http",
         UNCHANGED <<request, aborted, effects, started>>, status' \in {status, "none"}, GivenUp
  PROVE  RequestInv'
  <1>1. /\ tries < MaxAttempts /\ tries' = tries + 1 /\ started <= tries + 1 /\ tries \in Nat
        /\ started \in Nat /\ MaxAttempts \in Nat /\ tally = Quiet /\ request.sound /\ wire' = "none"
        /\ result = "none"
    BY DEF RequestInv, RequestTypes, LoopBounded, TallyFits, SoundGoesOn, AttemptFails, HttpRequestsAssumption
  <1>2. \/ /\ at' = "over" /\ result' \in {"aborted", "rejected"}
           /\ tally' = IF request.api = "http" THEN Once("recorded") ELSE Quiet
        \/ kind = "status" /\ at' = "answered" /\ UNCHANGED <<result, tally>>
        \/ /\ Retryable(request) /\ tries + 1 < MaxAttempts /\ at' = "sleeping"
           /\ UNCHANGED <<result, tally>>
    <2>1. Recorded = IF request.api = "http" THEN Once("recorded") ELSE Quiet
      BY <1>1, ToldIs DEF Recorded, Instruments
    <2> QED
      BY <2>1 DEF AttemptFails, Settle
  <1>3. RequestTypes'
    BY <1>1, <1>2 DEF RequestInv, RequestTypes, GivenUp
  <1>4. Accounted'
    BY <1>1 DEF RequestInv, RequestTypes, Accounted, Outstanding, GivenUp
  <1>5. LoopBounded'
    <2>1. Retryable(request)' <=> Retryable(request)
      BY DEF Retryable
    <2>2. at' \in {"over", "answered", "sleeping"}
            /\ (at' = "sleeping" => Retryable(request) /\ tries + 1 < MaxAttempts)
      BY <1>2
    <2> QED
      BY <1>1, <2>1, <2>2 DEF RequestInv, LoopBounded
  <1>6. TallyFits'
    BY <1>1, <1>2 DEF TallyFits, Instruments
  <1>7. SoundGoesOn' /\ OkWasRun'
    BY <1>1, <1>2 DEF RequestInv, SoundGoesOn, OkWasRun
  <1> QED
    BY <1>3, <1>4, <1>5, <1>6, <1>7 DEF RequestInv

\* A call is made, or refused on the spot.
LEMMA CallKeeps ==
  ASSUME HttpRequestsAssumption, RequestInv, Call
  PROVE  RequestInv'
  <1>1. \/ request.sound /\ at' = "head" /\ result' = result
        \/ ~request.sound /\ at' = "over" /\ result' = "rejected"
    BY DEF Call, Settle
  <1>2. RequestTypes' /\ SoundGoesOn' /\ OkWasRun' /\ TallyFits'
    BY <1>1 DEF Call, RequestInv, RequestTypes, SoundGoesOn, OkWasRun, TallyFits
  <1>3. Accounted' /\ LoopBounded'
    <2>1. Retryable(request)' <=> Retryable(request)
      BY DEF Retryable, Call
    <2> QED
      BY <1>1, <2>1 DEF Call, RequestInv, Accounted, Outstanding, LoopBounded
  <1> QED
    BY <1>2, <1>3 DEF RequestInv

\* Another request goes on the wire: over fetch, or by Postmark's SDK.
LEMMA SentKeeps ==
  ASSUME HttpRequestsAssumption, RequestInv, at = "head", at' = "asking", wire' = "sent",
         started' = started + 1, status' \in {status, "none"},
         UNCHANGED <<request, tries, aborted, strays, effects, result, tally>>
  PROVE  RequestInv'
  <1>1. wire = "none" /\ started <= tries /\ tries < MaxAttempts
    BY DEF RequestInv, Accounted, RequestTypes, LoopBounded
  <1>2. RequestTypes' /\ SoundGoesOn' /\ OkWasRun' /\ TallyFits'
    BY DEF RequestInv, RequestTypes, SoundGoesOn, OkWasRun, TallyFits
  <1>3. Accounted'
    BY <1>1 DEF RequestInv, RequestTypes, Accounted, Outstanding
  <1>4. LoopBounded'
    <2>1. Retryable(request)' <=> Retryable(request)
      BY DEF Retryable
    <2> QED
      BY <1>1, <2>1 DEF RequestInv, RequestTypes, LoopBounded, HttpRequestsAssumption
  <1> QED
    BY <1>2, <1>3, <1>4 DEF RequestInv

\* The loop ends by an abort before another attempt, or goes on after its delay.
LEMMA LoopKeeps ==
  ASSUME HttpRequestsAssumption, RequestInv, at \in {"head", "sleeping"}, request.api # "sdk",
         \/ at' = "over" /\ result' = "aborted" /\ tally' = Recorded
         \/ at' = "head" /\ UNCHANGED <<result, tally>>,
         status' \in {status, "none"},
         UNCHANGED <<request, tries, aborted, wire, strays, started, effects>>
  PROVE  RequestInv'
  <1>1. tally = Quiet /\ request.sound
    BY DEF RequestInv, TallyFits, SoundGoesOn
  <1>2. Recorded = IF request.api = "http" THEN Once("recorded") ELSE Quiet
    BY <1>1, ToldIs DEF Recorded, Instruments
  <1>3. TallyFits'
    BY <1>1, <1>2 DEF TallyFits, Instruments
  <1>4. RequestTypes' /\ SoundGoesOn' /\ OkWasRun'
    BY <1>1 DEF RequestInv, RequestTypes, SoundGoesOn, OkWasRun
  <1>5. Accounted' /\ LoopBounded'
    <2>1. Retryable(request)' <=> Retryable(request)
      BY DEF Retryable
    <2> QED
      BY <2>1 DEF RequestInv, RequestTypes, Accounted, Outstanding, LoopBounded
  <1> QED
    BY <1>3, <1>4, <1>5 DEF RequestInv

LEMMA AttemptKeeps ==
  ASSUME HttpRequestsAssumption, RequestInv, Attempt \/ Sleep \/ PostmarkAsks
  PROVE  RequestInv'
  <1>1. CASE Attempt
    <2>1. at = "head" /\ request.api # "sdk" /\ status' = "none" /\ UNCHANGED <<request, aborted, effects>>
      BY <1>1 DEF Attempt
    <2>2. wire = "none"
      BY <2>1 DEF RequestInv, Accounted, RequestTypes
    <2>3. CASE Retryable(request) /\ aborted
      BY <1>1, <2>1, <2>3, LoopKeeps DEF Attempt, Settle
    <2>4. CASE ~(Retryable(request) /\ aborted) /\ aborted /\ "caller" \in SignalOf(request)
      <3>1. AttemptFails("error") /\ UNCHANGED <<strays, started>>
        BY <1>1, <2>4 DEF Attempt
      <3>2. GivenUp
        BY <2>2, <3>1 DEF GivenUp
      <3> QED
        BY <2>1, <3>1, <3>2, FailedKeeps
    <2>5. CASE ~(Retryable(request) /\ aborted) /\ ~(aborted /\ "caller" \in SignalOf(request))
      BY <1>1, <2>1, <2>5, SentKeeps DEF Attempt
    <2> QED
      BY <2>3, <2>4, <2>5
  <1>2. CASE Sleep
    <2>1. Retryable(request)
      BY <1>2 DEF Sleep, RequestInv, LoopBounded
    <2>2. request \in Request /\ request.policy
      BY <2>1 DEF Retryable, RequestInv, RequestTypes, HttpRequestsAssumption
    <2>3. request.api # "sdk"
      BY <2>2 DEF HttpRequestsAssumption, RequestInv, RequestTypes
    <2> QED
      BY <1>2, <2>3, LoopKeeps DEF Sleep, Settle
  <1>3. CASE PostmarkAsks
    BY <1>3, SentKeeps DEF PostmarkAsks
  <1> QED
    BY <1>1, <1>2, <1>3

\* An attempt ends: lost, cut off, or answered.
LEMMA AskingKeeps ==
  ASSUME HttpRequestsAssumption, RequestInv, Lost \/ AttemptEnded \/ Arrives
  PROVE  RequestInv'
  <1>1. at = "asking" /\ UNCHANGED <<request, aborted, status, effects, started>>
    BY DEF Lost, AttemptEnded, Arrives
  <1>2. CASE Lost
    BY <1>1, <1>2, FailedKeeps DEF Lost
  <1>3. CASE AttemptEnded
    <2>1. request.api # "sdk"
      BY <1>3 DEF AttemptEnded, SignalOf, HttpRequestsAssumption, RequestInv, RequestTypes
    <2> QED
      BY <1>1, <1>3, <2>1, FailedKeeps DEF AttemptEnded
  <1>4. CASE Arrives /\ FailsOnStatus
    <2>1. GivenUp
      BY <1>4 DEF Arrives, GivenUp
    <2> QED
      BY <1>1, <1>4, <2>1, FailedKeeps DEF Arrives, FailsOnStatus
  <1>5. CASE Arrives /\ ~FailsOnStatus
    <2>1. at' = "answered" /\ wire' = "none" /\ wire = "done" /\ UNCHANGED <<tries, strays, result, tally>>
      BY <1>5 DEF Arrives
    <2>2. RequestTypes' /\ SoundGoesOn' /\ OkWasRun' /\ TallyFits'
      BY <1>1, <2>1 DEF RequestInv, RequestTypes, SoundGoesOn, OkWasRun, TallyFits
    <2>3. Accounted'
      BY <1>1, <2>1 DEF RequestInv, RequestTypes, Accounted, Outstanding
    <2>4. LoopBounded'
      <3>1. Retryable(request)' <=> Retryable(request)
        BY <1>1 DEF Retryable
      <3> QED
        BY <1>1, <2>1, <3>1 DEF RequestInv, LoopBounded
    <2> QED
      BY <2>2, <2>3, <2>4 DEF RequestInv
  <1> QED
    BY <1>2, <1>3, <1>4, <1>5

-----------------------------------------------------------------------------
(* What the components make of an answer.                                  *)

\* An answer is made something of, and nothing of the loop or the wire moves.
LEMMA ReadingKeeps ==
  ASSUME RequestInv, at \in {"answered", "reading"}, Untouched, TallyFits',
         \/ at' = "reading" /\ result' = result
         \/ at' = "over" /\ result' \in {"resolved", "rejected", "aborted", "stopped"},
         result' = "resolved" => status = "ok" \/ (request.api = "http" /\ ~request.strict)
  PROVE  RequestInv'
  <1>1. RequestTypes' /\ SoundGoesOn' /\ OkWasRun'
    BY DEF RequestInv, RequestTypes, SoundGoesOn, OkWasRun, Untouched
  <1>2. Accounted' /\ LoopBounded'
    <2>1. Retryable(request)' <=> Retryable(request)
      BY DEF Retryable, Untouched
    <2> QED
      BY <2>1 DEF RequestInv, RequestTypes, Accounted, Outstanding, LoopBounded, Untouched
  <1> QED
    BY <1>1, <1>2 DEF RequestInv

LEMMA HttpReads ==
  ASSUME RequestInv, HttpAnswered \/ HttpRead
  PROVE  RequestInv'
  <1>1. CASE HttpAnswered
    <2>1. tally' = Once("recorded")
      BY <1>1, ToldIs DEF HttpAnswered, RequestInv, TallyFits, Instruments
    <2>2. TallyFits'
      BY <1>1, <2>1 DEF HttpAnswered, Untouched, TallyFits
    <2> QED
      BY <1>1, <2>2, ReadingKeeps DEF HttpAnswered, RequestInv, RequestTypes
  <1>2. CASE HttpRead
    <2>1. at = "reading" /\ request.api = "http" /\ request.sound /\ tally = Once("recorded")
      BY <1>2 DEF HttpRead, RequestInv, TallyFits, SoundGoesOn
    <2>2. TallyFits'
      BY <1>2, <2>1 DEF HttpRead, Untouched, TallyFits, Settle, Instruments
    <2> QED
      BY <1>2, <2>1, <2>2, ReadingKeeps DEF HttpRead, Settle
  <1> QED
    BY <1>1, <1>2

LEMMA SendsKeeps ==
  ASSUME RequestInv, NEW id, Sends(id)
  PROVE  RequestInv'
  <1>1. /\ at \in {"answered", "reading"} /\ request.api = "send" /\ tally = Quiet /\ Untouched
        /\ result = "none"
    BY DEF Sends, RequestInv, TallyFits, RequestTypes
  <1>2. \/ status = "ok" /\ at' = "over" /\ result' = "resolved" /\ tally' = Once("sends")
        \/ at' = "over" /\ result' = "rejected" /\ tally' = Once("errors")
        \/ at' = "reading" /\ result' = result /\ tally' = Quiet
    BY <1>1, ToldIs DEF Sends, Settle, Instruments
  <1>3. TallyFits'
    BY <1>1, <1>2 DEF TallyFits, Untouched, Instruments
  <1> QED
    BY <1>1, <1>2, <1>3, ReadingKeeps

\* Completions, streams and pings, whose counters nobody is told the outcome by.
LEMMA OthersRead ==
  ASSUME RequestInv, Completes \/ Streams \/ Pings
  PROVE  RequestInv'
  <1>1. /\ at \in {"answered", "reading"} /\ request.api \in {"complete", "stream", "ping"}
        /\ tally = Quiet /\ Untouched /\ result = "none"
    BY DEF Completes, Streams, Pings, RequestInv, TallyFits, RequestTypes
  <1>2. /\ \/ at' = "reading" /\ result' = result /\ tally' = Quiet
           \/ at' = "over" /\ result' = "resolved" /\ status = "ok" /\ tally' \in {Quiet, Once("tokens")}
           \/ at' = "over" /\ result' \in {"rejected", "stopped"} /\ tally' = Quiet
    BY <1>1, ToldIs DEF Completes, Streams, Pings, Settle, Instruments
  <1>3. TallyFits'
    BY <1>1, <1>2 DEF TallyFits, Untouched, Instruments
  <1> QED
    BY <1>1, <1>2, <1>3, ReadingKeeps

\* The body breaks off or is cut.
LEMMA BodyEnds ==
  ASSUME RequestInv, Broken \/ Cut
  PROVE  RequestInv'
  <1>1. /\ at = "reading" /\ Untouched /\ tally' = tally /\ at' = "over"
        /\ result' \in {"rejected", "aborted"} /\ request.sound
    BY DEF Broken, Cut, Settle, RequestInv, SoundGoesOn
  <1>2. tally = IF request.api = "http" THEN Once("recorded") ELSE Quiet
    BY <1>1 DEF RequestInv, TallyFits
  <1>3. TallyFits'
    BY <1>1, <1>2 DEF TallyFits, Untouched, Instruments
  <1> QED
    BY <1>1, <1>3, ReadingKeeps

\* Postmark's SDK has its answer, or its error.
LEMMA PostmarkKeeps ==
  ASSUME HttpRequestsAssumption, RequestInv, PostmarkSends
  PROVE  RequestInv'
  <1>1. /\ at = "asking" /\ request.api = "sdk" /\ tally = Quiet /\ request.sound /\ wire' = "none"
        /\ UNCHANGED <<request, tries, aborted, status, started, effects>> /\ GivenUp /\ at' = "over"
    BY DEF PostmarkSends, RequestInv, TallyFits, SoundGoesOn, Settle
  <1>2. \/ status = "ok" /\ result' = "resolved" /\ tally' = Once("sends")
        \/ result' = "rejected" /\ tally' = Once("errors")
    BY <1>1, ToldIs DEF PostmarkSends, Settle, Instruments
  <1>3. TallyFits'
    BY <1>1, <1>2 DEF TallyFits, Instruments
  <1>4. RequestTypes' /\ SoundGoesOn' /\ OkWasRun'
    BY <1>1, <1>2 DEF RequestInv, RequestTypes, SoundGoesOn, OkWasRun, GivenUp
  <1>5. Accounted'
    BY <1>1 DEF RequestInv, RequestTypes, Accounted, Outstanding, GivenUp
  <1>6. LoopBounded'
    <2>1. Retryable(request)' <=> Retryable(request)
      BY <1>1 DEF Retryable
    <2> QED
      BY <1>1, <2>1 DEF RequestInv, LoopBounded
  <1> QED
    BY <1>3, <1>4, <1>5, <1>6 DEF RequestInv

-----------------------------------------------------------------------------
(* The caller and the server.                                              *)

LEMMA OutsideKeeps ==
  ASSUME HttpRequestsAssumption, RequestInv, Abort \/ Serves \/ StrayRuns
  PROVE  RequestInv'
  <1>1. UNCHANGED <<request, at, tries, result, started, tally>>
    BY DEF Abort, Serves, StrayRuns
  <1>2. /\ effects <= effects' /\ effects' \in Nat /\ strays' \in Nat
        /\ status' = "ok" => effects' >= 1
        /\ status' \in {"none", "ok", "busy", "refused"} /\ (at # "asking" => status' = status)
        /\ wire' \in {"none", "sent", "done"} /\ (at # "asking" => wire' = "none")
        /\ effects' + strays' + (IF wire' = "sent" THEN 1 ELSE 0) <= started
    BY DEF Abort, Serves, StrayRuns, RequestInv, RequestTypes, Accounted, Outstanding, OkWasRun
  <1>3. RequestTypes' /\ SoundGoesOn' /\ TallyFits' /\ Accounted'
    BY <1>1, <1>2
       DEF Abort, Serves, StrayRuns, RequestInv, RequestTypes, SoundGoesOn, TallyFits, Accounted, Outstanding
  <1>4. OkWasRun'
    BY <1>1, <1>2 DEF RequestInv, RequestTypes, OkWasRun
  <1>5. LoopBounded'
    <2>1. Retryable(request)' <=> Retryable(request)
      BY <1>1 DEF Retryable
    <2> QED
      BY <1>1, <2>1 DEF RequestInv, LoopBounded
  <1> QED
    BY <1>3, <1>4, <1>5 DEF RequestInv

LEMMA RequestInvNext == HttpRequestsAssumption /\ RequestInv /\ [RequestNext]_requestVars => RequestInv'
  <1> SUFFICES ASSUME HttpRequestsAssumption, RequestInv, [RequestNext]_requestVars PROVE RequestInv'
    OBVIOUS
  <1>1. CASE Reads
    BY <1>1, HttpReads, SendsKeeps, OthersRead
       DEF Reads, ResendSends, MailgunSends, MailjetSends, SendgridSends, AnthropicCompletes,
           OpenAICompletes, AnthropicStreams, OpenAIStreams, VendorPings, AnthropicPings, OpenAIPings
  <1>2. CASE Moves
    BY <1>1, <1>2, CallKeeps, AttemptKeeps, AskingKeeps, HttpReads, BodyEnds DEF Moves
  <1>3. CASE Lost \/ Arrives \/ PostmarkSends \/ Broken
    BY <1>3, AskingKeeps, PostmarkKeeps, BodyEnds
  <1>4. CASE Abort \/ Serves \/ StrayRuns
    BY <1>4, OutsideKeeps
  <1>5. CASE UNCHANGED requestVars
    <2>1. Retryable(request)' <=> Retryable(request)
      BY <1>5 DEF Retryable, requestVars
    <2> QED
      BY <1>5, <2>1 DEF requestVars, RequestInv, RequestTypes, Accounted, Outstanding, LoopBounded, TallyFits,
                        SoundGoesOn, OkWasRun
  <1> QED
    BY <1>1, <1>2, <1>3, <1>4, <1>5 DEF RequestNext

LEMMA RequestInvariance == HttpRequestsAssumption => (RequestSpec => []RequestInv)
  <1> SUFFICES ASSUME HttpRequestsAssumption PROVE RequestSpec => []RequestInv
    OBVIOUS
  <1>1. RequestInit => RequestInv
    BY RequestInvInit
  <1>2. RequestInv /\ [RequestNext]_requestVars => RequestInv'
    BY RequestInvNext
  <1> QED
    BY <1>1, <1>2, PTL DEF RequestSpec

-----------------------------------------------------------------------------
\* A server runs a call twice only if policy and method, or the caller's word, allow
\* it to be replayed, and never more often than the policy has attempts, also
\* counting the attempts that were given up on and may still be run.
THEOREM ReplaysAreAllowed == HttpRequestsAssumption /\ RequestSpec => []ReplaysOnlyIdempotent
  <1> SUFFICES ASSUME HttpRequestsAssumption PROVE RequestSpec => []ReplaysOnlyIdempotent
    OBVIOUS
  <1>1. ASSUME RequestInv PROVE ReplaysOnlyIdempotent
    <2>1. /\ effects + strays <= started /\ started <= MaxAttempts /\ effects <= started
          /\ ~Retryable(request) => started <= 1
      BY <1>1 DEF RequestInv, RequestTypes, Accounted, Outstanding, LoopBounded
    <2>2. /\ effects \in Nat /\ strays \in Nat /\ started \in Nat /\ MaxAttempts \in Nat
      BY <1>1 DEF RequestInv, RequestTypes, HttpRequestsAssumption
    <2>3. CASE Retryable(request)
      <3>1. /\ request.policy
            /\ request.api = "http" =>
                 \/ request.idempotent = "yes"
                 \/ request.idempotent # "no" /\ request.method \notin {"POST", "PATCH"}
        BY <2>3 DEF Retryable, IdempotentMethods
      <3> QED
        BY <2>1, <2>2, <3>1 DEF ReplaysOnlyIdempotent
    <2>4. CASE ~Retryable(request)
      <3>1. effects + strays <= 1 /\ ~(effects > 1) /\ 1 <= MaxAttempts
        BY <2>1, <2>2, <2>4 DEF HttpRequestsAssumption
      <3>2. effects + strays <= IF request.policy THEN MaxAttempts ELSE 1
        BY <2>2, <3>1
      <3> QED
        BY <3>1, <3>2 DEF ReplaysOnlyIdempotent
    <2> QED
      BY <2>3, <2>4
  <1> QED
    BY <1>1, RequestInvariance, PTL

\* What a call tells is what happened: it resolves as a success only if the server
\* ran it, and its counters say what its caller was told; the variables keep their
\* types.
THEOREM OutcomesAreEarned == HttpRequestsAssumption /\ RequestSpec => []AnswersAreEarned
  <1> SUFFICES ASSUME HttpRequestsAssumption PROVE RequestSpec => []AnswersAreEarned
    OBVIOUS
  <1>1. ASSUME RequestInv PROVE AnswersAreEarned
    <2>1. result = "resolved" => IF status = "ok" THEN effects >= 1
                                 ELSE request.api = "http" /\ ~request.strict
      BY <1>1 DEF RequestInv, OkWasRun
    <2>2. at = "over" /\ request.api \in {"send", "sdk"} =>
            /\ tally["sends"] = 1 <=> result = "resolved"
            /\ tally["sends"] + tally["errors"] <= 1
      BY <1>1, OnceIs DEF RequestInv, TallyFits, Instruments
    <2>3. at = "over" /\ request.api = "http" =>
            tally["recorded"] = IF request.sound THEN 1 ELSE 0
      BY <1>1, OnceIs DEF RequestInv, TallyFits, Instruments
    <2> QED
      BY <1>1, <2>1, <2>2, <2>3, TypeImplied DEF AnswersAreEarned
  <1> QED
    BY <1>1, RequestInvariance, PTL

\* Once the caller has aborted, nothing more goes on the wire, and a call that was
\* still in its loop is rejected with the abort, whatever failure it hid.
THEOREM AbortsAreFinal == HttpRequestsAssumption /\ RequestSpec => AbortIsFinal
  <1> SUFFICES ASSUME HttpRequestsAssumption PROVE RequestSpec => AbortIsFinal
    OBVIOUS
  <1>1. ASSUME RequestInv, RequestNext, aborted, request.signalled
        PROVE  /\ started' = started
               /\ at \in {"head", "asking", "sleeping"} /\ at' = "over" => result' = "aborted"
    <2>1. "caller" \in SignalOf(request) /\ request.api # "sdk"
      BY <1>1 DEF SignalOf, RequestInv, RequestTypes, HttpRequestsAssumption
    <2>2. ASSUME NEW kind, AttemptFails(kind)
          PROVE  at' = "over" => result' = "aborted"
      BY <1>1, <2>1, <2>2 DEF AttemptFails, Settle
    <2>3. CASE Attempt \/ Lost \/ AttemptEnded \/ Arrives
      BY <1>1, <2>1, <2>2, <2>3 DEF Attempt, Lost, AttemptEnded, Arrives, Settle
    <2>4. CASE Sleep
      BY <2>4 DEF Sleep, Settle
    <2>5. CASE Reads
      BY <2>5 DEF Reads, HttpRead, ResendSends, MailgunSends, MailjetSends, SendgridSends, Sends,
                  AnthropicCompletes, OpenAICompletes, Completes, AnthropicStreams, OpenAIStreams,
                  Streams, VendorPings, AnthropicPings, OpenAIPings, Pings, Untouched
    <2>6. CASE Call \/ HttpAnswered \/ Cut \/ Broken
      BY <2>6 DEF Call, HttpAnswered, Cut, Broken, Untouched
    <2>7. CASE PostmarkAsks \/ PostmarkSends
      BY <2>1, <2>7 DEF PostmarkAsks, PostmarkSends
    <2>8. CASE Abort \/ Serves \/ StrayRuns
      BY <2>8 DEF Abort, Serves, StrayRuns
    <2> QED
      BY <1>1, <2>3, <2>4, <2>5, <2>6, <2>7, <2>8 DEF RequestNext, Moves
  <1>2. RequestInv /\ [RequestNext]_requestVars =>
          [aborted /\ request.signalled =>
             /\ started' = started
             /\ at \in {"head", "asking", "sleeping"} /\ at' = "over"
                  => result' = "aborted"]_requestVars
    BY <1>1
  <1> QED
    BY <1>2, RequestInvariance, PTL DEF RequestSpec, AbortIsFinal

-----------------------------------------------------------------------------
(* A health report, for any components, checkers and answers.              *)

\* A result is what the component answered of itself, or a failure of it that the
\* report may rest on.
Earned(n) ==
  /\ n \in H!Entry
  /\ results[n] = "healthy" => own[n] = "healthy"
  /\ results[n] = "degraded" => own[n] = "degraded"
  /\ results[n] = "unhealthy" =>
       \/ own[n] \in {"unhealthy", "thrown"}
       \/ own[n] = Absent /\ (backstop \/ entries[n].timed)
       \/ own[n] = "cancelled" /\ halt # "AbortError"

\* Nothing is answered before the checkers run or behind the report's back.
Unanswered ==
  /\ report = "idle" => \A n \in Component : results[n] = Absent
  /\ report \in {"idle", "running"} =>
       \A n \in Component : results[n] = Absent => own[n] = Absent

Cancelled == \A n \in Component : own[n] = "cancelled" => halt # Absent

\* A report that ended has every result, and is their aggregate.
Aggregated ==
  report \in H!HealthStatus =>
    /\ \A n \in H!Entry : results[n] # Absent
    /\ report = H!Aggregate({results[n] : n \in H!Entry})

HealthInv ==
  /\ H!TypeOK /\ Unanswered /\ Cancelled /\ Aggregated
  /\ \A n \in Component : results[n] # Absent => Earned(n)


LEMMA HealthInit == H!HealthChecksAssumption /\ H!Init => HealthInv
  BY DEF H!Init, HealthInv, H!TypeOK, Unanswered, Cancelled, Aggregated, H!HealthStatus,
         H!HealthChecksAssumption

\* A component that is waited for gets its result.
LEMMA ResultKeeps ==
  ASSUME H!HealthChecksAssumption, HealthInv, NEW n \in Component, H!Waiting(n),
         NEW s \in H!HealthStatus, H!Result(n, s),
         NEW w \in H!HealthStatus \union {"thrown", "cancelled", Absent},
         own' = [own EXCEPT ![n] = w], w = "cancelled" => halt # Absent,
         s = "healthy" => w = "healthy", s = "degraded" => w = "degraded",
         s = "unhealthy" =>
           \/ w \in {"unhealthy", "thrown"}
           \/ w = Absent /\ (backstop \/ entries[n].timed)
           \/ w = "cancelled" /\ halt # "AbortError",
         UNCHANGED <<checkers, backstop, entries, halt, report>>
  PROVE  HealthInv'
  <1>1. /\ results' = [results EXCEPT ![n] = s]
        /\ results \in [Component -> H!HealthStatus \union {Absent}]
        /\ own \in [Component -> H!HealthStatus \union {"thrown", "cancelled", Absent}]
        /\ s # Absent /\ report = "running" /\ n \in H!Entry
    BY DEF H!Result, H!Waiting, HealthInv, H!TypeOK, H!HealthChecksAssumption
  <1>2. /\ results'[n] = s /\ own'[n] = w
        /\ \A m \in Component \ {n} : results'[m] = results[m] /\ own'[m] = own[m]
    BY <1>1
  <1>3. H!TypeOK'
    BY <1>1 DEF HealthInv, H!TypeOK
  <1>4. Unanswered' /\ Cancelled'
    BY <1>1, <1>2 DEF HealthInv, Unanswered, Cancelled
  <1>5. Aggregated'
    BY <1>1 DEF Aggregated, H!HealthStatus
  <1>6. ASSUME NEW m \in Component, results'[m] # Absent PROVE Earned(m)'
    <2>1. H!Entry' = H!Entry
      BY DEF H!Entry
    <2>2. CASE m = n
      BY <1>1, <1>2, <2>1, <2>2 DEF Earned
    <2>3. CASE m # n
      <3>1. results'[m] = results[m] /\ own'[m] = own[m] /\ Earned(m)
        BY <1>2, <1>6, <2>3 DEF HealthInv
      <3> QED
        BY <2>1, <3>1 DEF Earned
    <2> QED
      BY <2>2, <2>3
  <1> QED
    BY <1>3, <1>4, <1>5, <1>6 DEF HealthInv

LEMMA AnswersKeeps ==
  ASSUME H!HealthChecksAssumption, HealthInv, NEW n \in Component, NEW s \in H!HealthStatus,
         H!Answers(n, s)
  PROVE  HealthInv'
  BY ResultKeeps DEF H!Answers, H!HealthStatus

LEMMA TimesOut ==
  ASSUME H!HealthChecksAssumption, HealthInv, NEW n \in Component,
         H!OwnTimeout(n) \/ H!Deadline(n)
  PROVE  HealthInv'
  <1>1. /\ H!Waiting(n) /\ H!Result(n, "unhealthy") /\ (backstop \/ entries[n].timed)
        /\ UNCHANGED <<checkers, backstop, entries, own, halt, report>>
    BY DEF H!OwnTimeout, H!Deadline
  <1>2. own[n] = Absent
    BY <1>1 DEF H!Waiting, HealthInv, Unanswered
  <1>3. own' = [own EXCEPT ![n] = Absent]
    BY <1>1, <1>2 DEF HealthInv, H!TypeOK
  <1>4. /\ Absent # "cancelled" /\ "unhealthy" \in H!HealthStatus
        /\ "unhealthy" \notin {"healthy", "degraded"}
    BY <1>1 DEF H!HealthStatus, H!HealthChecksAssumption
  <1> QED
    BY <1>1, <1>3, <1>4, ResultKeeps

LEMMA ThrowsKeeps ==
  ASSUME H!HealthChecksAssumption, HealthInv, NEW n \in Component,
         NEW what \in {"thrown", "cancelled"}, H!Throws(n, what)
  PROVE  HealthInv'
  <1>1. /\ H!Waiting(n)
        /\ what = "cancelled" => halt # Absent
        /\ own' = [own EXCEPT ![n] = what] /\ UNCHANGED <<checkers, backstop, entries, halt>>
    BY DEF H!Throws
  <1>2. CASE report' = "rejected" /\ UNCHANGED results
    <2>1. own'[n] = what /\ \A m \in Component \ {n} : own'[m] = own[m]
      BY <1>1 DEF HealthInv, H!TypeOK
    <2>2. H!TypeOK' /\ Cancelled'
      BY <1>1, <1>2, <2>1 DEF HealthInv, H!TypeOK, Cancelled
    <2>3. Unanswered' /\ Aggregated'
      BY <1>2 DEF Unanswered, Aggregated, H!HealthStatus
    <2>4. ASSUME NEW m \in Component, results'[m] # Absent PROVE Earned(m)'
      <3>1. m # n /\ results[m] # Absent
        BY <1>1, <1>2, <2>4 DEF H!Waiting
      <3> QED
        BY <1>1, <1>2, <2>1, <3>1 DEF HealthInv, Earned, H!Entry
    <2> QED
      BY <2>2, <2>3, <2>4 DEF HealthInv
  <1>3. CASE H!Result(n, "unhealthy") /\ UNCHANGED report
                /\ ~(what = "cancelled" /\ halt = "AbortError")
    BY <1>1, <1>3, ResultKeeps DEF H!HealthStatus
  <1> QED
    BY <1>2, <1>3 DEF H!Throws

\* The report ends with the aggregate of what it has.
LEMMA CollectKeeps ==
  ASSUME H!HealthChecksAssumption, HealthInv, H!Collect
  PROVE  HealthInv'
  <1>1. /\ report = "running" /\ UNCHANGED <<checkers, backstop, entries, own, results, halt>>
        /\ \A n \in H!Entry : results[n] # Absent
        /\ report' = H!Aggregate({results[n] : n \in H!Entry})
        /\ report' \in H!HealthStatus
    BY DEF H!Collect, H!Aggregate, H!HealthStatus
  <1>2. H!TypeOK' /\ Unanswered' /\ Cancelled'
    BY <1>1 DEF HealthInv, H!TypeOK, Unanswered, Cancelled, H!HealthStatus
  <1>3. H!Entry' = H!Entry
    BY <1>1 DEF H!Entry
  <1>4. Aggregated'
    BY <1>1, <1>3 DEF Aggregated
  <1>5. ASSUME NEW n \in Component, results'[n] # Absent PROVE Earned(n)'
    BY <1>1, <1>3, <1>5 DEF HealthInv, Earned
  <1> QED
    BY <1>2, <1>4, <1>5 DEF HealthInv

LEMMA HealthNext ==
  H!HealthChecksAssumption /\ HealthInv /\ [H!Next]_healthVars => HealthInv'
  <1> SUFFICES ASSUME H!HealthChecksAssumption, HealthInv, [H!Next]_healthVars
               PROVE  HealthInv'
    OBVIOUS
  <1>1. CASE UNCHANGED healthVars
    BY <1>1 DEF healthVars, HealthInv, H!TypeOK, Unanswered, Cancelled, Aggregated, Earned,
                H!Entry
  <1>2. CASE H!Check
    BY <1>2 DEF H!Check, HealthInv, H!TypeOK, Unanswered, Cancelled, Aggregated, Earned,
                H!HealthStatus
  <1>3. ASSUME NEW n \in Component, NEW c \in H!Checker, H!Register(n, c) PROVE HealthInv'
    BY <1>3 DEF H!Register, HealthInv, H!TypeOK, Unanswered, Cancelled, Aggregated, Earned,
                H!HealthStatus, H!Entry
  <1>4. ASSUME NEW reason \in Reasons, H!Halt(reason) PROVE HealthInv'
    <2>1. /\ report = "running" /\ halt = Absent /\ halt' = reason /\ reason # Absent
          /\ UNCHANGED <<checkers, backstop, entries, own, results, report>>
      BY <1>4 DEF H!Halt, H!HealthChecksAssumption
    <2>2. H!TypeOK' /\ Unanswered' /\ Cancelled' /\ Aggregated'
      BY <2>1 DEF HealthInv, H!TypeOK, Unanswered, Cancelled, Aggregated, H!HealthStatus
    <2>3. \A n \in Component : own[n] # "cancelled"
      BY <2>1 DEF HealthInv, Cancelled
    <2> QED
      BY <2>1, <2>2, <2>3 DEF HealthInv, Earned, H!Entry
  <1> QED
    BY <1>1, <1>2, <1>3, <1>4, AnswersKeeps, TimesOut, ThrowsKeeps, CollectKeeps
    DEF H!Next, H!Moves

LEMMA HealthIsTold == H!HealthChecksAssumption /\ HealthInv => H!ReportsAreTruthful
  <1> SUFFICES ASSUME H!HealthChecksAssumption, HealthInv, report \in H!HealthStatus
               PROVE  H!ReportsAreTruthful
    BY DEF HealthInv, H!ReportsAreTruthful, H!HealthStatus
  <1> DEFINE heard == {results[n] : n \in H!Entry}
  <1>1. /\ report = H!Aggregate(heard)
        /\ \A n \in H!Entry : results[n] \in H!HealthStatus /\ Earned(n)
    BY DEF HealthInv, H!TypeOK, Aggregated, H!Entry
  <1>2. /\ report = "unhealthy" => "unhealthy" \in heard
        /\ report = "degraded" => "degraded" \in heard /\ "unhealthy" \notin heard
        /\ report = "healthy" => "degraded" \notin heard /\ "unhealthy" \notin heard
    BY <1>1 DEF H!Aggregate, H!HealthStatus
  <1>3. report = "healthy" => \A n \in H!Entry : own[n] = "healthy"
    BY <1>1, <1>2 DEF Earned, H!HealthStatus
  <1>4. report = "degraded" => /\ \A n \in H!Entry : own[n] \in {"healthy", "degraded"}
                               /\ \E n \in H!Entry : own[n] = "degraded"
    BY <1>1, <1>2 DEF Earned, H!HealthStatus
  <1>5. report = "unhealthy" =>
          \E n \in H!Entry :
            \/ own[n] \in {"unhealthy", "thrown"}
            \/ own[n] = Absent /\ (backstop \/ entries[n].timed)
            \/ own[n] = "cancelled" /\ halt # "AbortError"
    BY <1>1, <1>2 DEF Earned
  <1> QED
    BY <1>3, <1>4, <1>5 DEF HealthInv, H!ReportsAreTruthful

-----------------------------------------------------------------------------
(* The events of analytics, for any sources, configs and number of events. *)

\* The events that are held or delivered carry the source they were reported for.
Labelled ==
  /\ buffer \in [Source -> Seq(A!Event)] /\ got \in [Source -> Seq(A!Event)]
  /\ \A s \in Source : /\ \A i \in 1..Len(buffer[s]) : buffer[s][i].source = s
                       /\ \A i \in 1..Len(got[s]) : got[s][i].source = s

\* The counters c of a source add up, with so many events held, delivered, reported.
AddsUp(s, held, sent, c, r) ==
  A!Sdk(s) =>
    /\ c.sent = sent + held + c.lost
    /\ reporters[s] \in A!Servers =>
         c.dropped >= c.failed /\ r = c.sent + c.dropped - c.failed

AnalyticsInv ==
  /\ A!TypeOK /\ Labelled
  /\ \A s \in Source : AddsUp(s, Len(buffer[s]), Len(got[s]), counts[s], reported[s])

LEMMA AnalyticsInit == A!AnalyticsAssumption /\ A!Init => AnalyticsInv
  <1> SUFFICES ASSUME A!AnalyticsAssumption, A!Init PROVE AnalyticsInv
    OBVIOUS
  <1>1. reporters \in [Source -> (A!Provider \ {"broken"}) \union {Absent}]
    BY DEF A!Init, A!Built, A!AnalyticsAssumption, A!Provider, A!Servers, A!Browsers
  <1>2. A!TypeOK
    BY <1>1 DEF A!Init, A!TypeOK, A!Counts, A!AnalyticsAssumption
  <1>3. Labelled
    BY DEF A!Init, Labelled
  <1>4. \A s \in Source : AddsUp(s, Len(buffer[s]), Len(got[s]), counts[s], reported[s])
    BY DEF A!Init, AddsUp
  <1> QED
    BY <1>2, <1>3, <1>4 DEF AnalyticsInv

\* What holds of a sequence of events labelled with their source.
EventsOf(s, events) == events \in Seq(A!Event) /\ \A i \in 1..Len(events) : events[i].source = s

LEMMA AppendsOf ==
  ASSUME NEW s \in Source, NEW events, EventsOf(s, events)
  PROVE  LET e == [source |-> s]
         IN  EventsOf(s, Append(events, e)) /\ Len(Append(events, e)) = Len(events) + 1
  BY DEF EventsOf, A!Event

LEMMA CutsOf ==
  ASSUME NEW s \in Source, NEW events, EventsOf(s, events), NEW n \in 1..Len(events)
  PROVE  /\ EventsOf(s, SubSeq(events, 1, n)) /\ Len(SubSeq(events, 1, n)) = n
         /\ EventsOf(s, SubSeq(events, n + 1, Len(events)))
         /\ Len(SubSeq(events, n + 1, Len(events))) = Len(events) - n
  <1>1. events \in Seq(A!Event) /\ \A i \in 1..Len(events) : events[i].source = s
    BY DEF EventsOf
  <1>2. EventsOf(s, SubSeq(events, 1, n)) /\ Len(SubSeq(events, 1, n)) = n
    BY <1>1 DEF EventsOf
  <1>3. /\ EventsOf(s, SubSeq(events, n + 1, Len(events)))
        /\ Len(SubSeq(events, n + 1, Len(events))) = Len(events) - n
    BY <1>1 DEF EventsOf
  <1> QED
    BY <1>2, <1>3

LEMMA JoinsOf ==
  ASSUME NEW s \in Source, NEW events, NEW more, EventsOf(s, events), EventsOf(s, more)
  PROVE  EventsOf(s, events \o more) /\ Len(events \o more) = Len(events) + Len(more)
  BY DEF EventsOf

\* An event that was taken, or dropped, and a batch that was delivered, or lost.
LEMMA TakenAddsUp ==
  ASSUME NEW s, NEW held \in Nat, NEW sent \in Nat, NEW c \in A!Counts, NEW r \in Nat,
         AddsUp(s, held, sent, c, r)
  PROVE  LET taken == [c EXCEPT !.sent = @ + 1]
             gone  == [c EXCEPT !.sent = @ + 1, !.lost = @ + 1]
             shed  == [c EXCEPT !.dropped = @ + 1]
         IN  /\ taken \in A!Counts /\ AddsUp(s, held + 1, sent, taken, r + 1)
             /\ gone \in A!Counts /\ AddsUp(s, held, sent, gone, r + 1)
             /\ shed \in A!Counts /\ AddsUp(s, held, sent, shed, r + 1)
  <1> DEFINE taken == [c EXCEPT !.sent = @ + 1]
             gone  == [c EXCEPT !.sent = @ + 1, !.lost = @ + 1]
             shed  == [c EXCEPT !.dropped = @ + 1]
  <1>1. c.sent \in Nat /\ c.lost \in Nat /\ c.dropped \in Nat /\ c.failed \in Nat
    BY DEF A!Counts
  <1>2. taken \in A!Counts /\ gone \in A!Counts /\ shed \in A!Counts
    <2>1. taken \in A!Counts
      BY DEF A!Counts
    <2>2. gone \in A!Counts
      <3>1. taken.lost + 1 \in Nat /\ gone = [taken EXCEPT !.lost = taken.lost + 1]
        BY <1>1, <2>1 DEF A!Counts
      <3> QED
        BY <2>1, <3>1 DEF A!Counts
    <2>3. shed \in A!Counts
      BY DEF A!Counts
    <2> QED
      BY <2>1, <2>2, <2>3
  <1>3. /\ taken.sent = c.sent + 1 /\ taken.lost = c.lost
        /\ taken.dropped = c.dropped /\ taken.failed = c.failed
        /\ gone.sent = c.sent + 1 /\ gone.lost = c.lost + 1
        /\ gone.dropped = c.dropped /\ gone.failed = c.failed
        /\ shed.sent = c.sent /\ shed.lost = c.lost
        /\ shed.dropped = c.dropped + 1 /\ shed.failed = c.failed
    BY DEF A!Counts
  <1> HIDE DEF taken, gone, shed
  <1>4. AddsUp(s, held + 1, sent, taken, r + 1)
    BY <1>1, <1>3 DEF AddsUp
  <1>5. AddsUp(s, held, sent, gone, r + 1)
    BY <1>1, <1>3 DEF AddsUp
  <1>6. AddsUp(s, held, sent, shed, r + 1)
    BY <1>1, <1>3 DEF AddsUp
  <1> QED
    BY <1>2, <1>4, <1>5, <1>6 DEF taken, gone, shed

LEMMA SentAddsUp ==
  ASSUME NEW s, NEW held \in Nat, NEW sent \in Nat, NEW c \in A!Counts, NEW r \in Nat,
         AddsUp(s, held, sent, c, r), NEW n \in Nat
  PROVE  AddsUp(s, held - n, sent + n, c, r)
  BY DEF AddsUp, A!Counts

LEMMA LostAddsUp ==
  ASSUME NEW s, NEW held \in Nat, NEW sent \in Nat, NEW c \in A!Counts, NEW r \in Nat,
         AddsUp(s, held, sent, c, r), NEW n \in Nat, NEW drops \in Nat,
         reporters[s] \in A!Servers => drops = c.dropped + 1
  PROVE  LET lossy == [c EXCEPT !.dropped = drops, !.lost = @ + n, !.failed = @ + 1]
         IN  lossy \in A!Counts /\ AddsUp(s, held - n, sent, lossy, r)
  <1> DEFINE lossy == [c EXCEPT !.dropped = drops, !.lost = @ + n, !.failed = @ + 1]
  <1>1. c.sent \in Nat /\ c.lost \in Nat /\ c.dropped \in Nat /\ c.failed \in Nat
    BY DEF A!Counts
  <1>2. lossy \in A!Counts
    <2>1. \A a, b, d \in Nat : [c EXCEPT !.dropped = a, !.lost = b, !.failed = d] \in A!Counts
      BY DEF A!Counts
    <2>2. drops \in Nat /\ c.lost + n \in Nat /\ c.failed + 1 \in Nat
      BY <1>1
    <2> QED
      BY <2>1, <2>2
  <1>3. /\ lossy.sent = c.sent /\ lossy.lost = c.lost + n
        /\ lossy.dropped = drops /\ lossy.failed = c.failed + 1
    BY DEF A!Counts
  <1> HIDE DEF lossy
  <1>4. A!Sdk(s) => lossy.sent = sent + (held - n) + lossy.lost
    BY <1>1, <1>3 DEF AddsUp
  <1>5. A!Sdk(s) /\ reporters[s] \in A!Servers =>
          lossy.dropped >= lossy.failed /\ r = lossy.sent + lossy.dropped - lossy.failed
    BY <1>1, <1>3 DEF AddsUp
  <1> QED
    BY <1>2, <1>4, <1>5 DEF AddsUp, lossy

LEMMA Fits ==
  ASSUME A!AnalyticsAssumption, AnalyticsInv, NEW s \in Source
  PROVE  /\ EventsOf(s, buffer[s]) /\ Len(buffer[s]) \in Nat /\ buffer = [buffer EXCEPT ![s] = buffer[s]]
         /\ EventsOf(s, got[s]) /\ Len(got[s]) \in Nat /\ got = [got EXCEPT ![s] = got[s]]
         /\ counts[s] \in A!Counts /\ counts = [counts EXCEPT ![s] = counts[s]]
         /\ reported[s] \in Nat /\ reported = [reported EXCEPT ![s] = reported[s]]
         /\ AddsUp(s, Len(buffer[s]), Len(got[s]), counts[s], reported[s])
  <1>1. /\ EventsOf(s, buffer[s]) /\ Len(buffer[s]) \in Nat
        /\ buffer = [buffer EXCEPT ![s] = buffer[s]]
    BY DEF AnalyticsInv, Labelled, EventsOf
  <1>2. EventsOf(s, got[s]) /\ Len(got[s]) \in Nat /\ got = [got EXCEPT ![s] = got[s]]
    BY DEF AnalyticsInv, Labelled, EventsOf
  <1>3. /\ counts[s] \in A!Counts /\ counts = [counts EXCEPT ![s] = counts[s]]
        /\ reported[s] \in Nat /\ reported = [reported EXCEPT ![s] = reported[s]]
    BY DEF AnalyticsInv, A!TypeOK, A!AnalyticsAssumption
  <1> QED
    BY <1>1, <1>2, <1>3 DEF AnalyticsInv

\* A step that concerns one source keeps the others as they are.
LEMMA SourceKeeps ==
  ASSUME AnalyticsInv, NEW s \in Source, UNCHANGED <<config, reporters, shut, flush>>,
         NEW held, NEW sent, NEW c \in A!Counts, NEW r \in 0..MaxEvents,
         EventsOf(s, held), EventsOf(s, sent), AddsUp(s, Len(held), Len(sent), c, r),
         buffer' = [buffer EXCEPT ![s] = held], got' = [got EXCEPT ![s] = sent],
         counts' = [counts EXCEPT ![s] = c], reported' = [reported EXCEPT ![s] = r],
         warned' \subseteq Source
  PROVE  AnalyticsInv'
  <1>1. /\ buffer'[s] = held /\ got'[s] = sent /\ counts'[s] = c /\ reported'[s] = r
        /\ \A t \in Source \ {s} : /\ buffer'[t] = buffer[t] /\ got'[t] = got[t]
                                   /\ counts'[t] = counts[t] /\ reported'[t] = reported[t]
    BY DEF AnalyticsInv, A!TypeOK, Labelled
  <1>2. buffer' \in [Source -> Seq(A!Event)] /\ got' \in [Source -> Seq(A!Event)]
    BY DEF AnalyticsInv, Labelled, EventsOf
  <1>3. A!TypeOK'
    BY <1>2 DEF AnalyticsInv, A!TypeOK
  <1>4. Labelled'
    BY <1>1, <1>2 DEF AnalyticsInv, Labelled, EventsOf
  <1>5. ASSUME NEW t \in Source
        PROVE  AddsUp(t, Len(buffer[t]), Len(got[t]), counts[t], reported[t])'
    BY <1>1 DEF AnalyticsInv, AddsUp, A!Sdk
  <1> QED
    BY <1>3, <1>4, <1>5 DEF AnalyticsInv

LEMMA ReportKeeps ==
  ASSUME A!AnalyticsAssumption, AnalyticsInv, NEW s \in Source, NEW claimed,
         A!Report(s, claimed)
  PROVE  AnalyticsInv'
  <1> DEFINE e == [source |-> s]
             r == reported[s] + 1
             c == counts[s]
             taken == [c EXCEPT !.sent = @ + 1]
             gone  == [c EXCEPT !.sent = @ + 1, !.lost = @ + 1]
             shed  == [c EXCEPT !.dropped = @ + 1]
  <1>1. /\ EventsOf(s, buffer[s]) /\ Len(buffer[s]) \in Nat /\ buffer = [buffer EXCEPT ![s] = buffer[s]]
        /\ EventsOf(s, got[s]) /\ Len(got[s]) \in Nat /\ got = [got EXCEPT ![s] = got[s]]
        /\ c \in A!Counts /\ counts = [counts EXCEPT ![s] = c] /\ reported[s] \in Nat
        /\ AddsUp(s, Len(buffer[s]), Len(got[s]), c, reported[s])
    BY Fits
  <1>2. /\ reported' = [reported EXCEPT ![s] = r] /\ r \in 0..MaxEvents
        /\ UNCHANGED <<config, reporters, shut, flush>>
        /\ \/ A!Unknown(s) \/ A!Local(s, e) \/ A!Thrown(s) \/ A!Taken(s, e)
    BY <1>1 DEF A!Report, A!WithSource, A!AnalyticsAssumption, A!PostHogTakes, A!SegmentTakes,
                A!BrowserTakes
  <1>3. /\ taken \in A!Counts /\ AddsUp(s, Len(buffer[s]) + 1, Len(got[s]), taken, r)
        /\ gone \in A!Counts /\ AddsUp(s, Len(buffer[s]), Len(got[s]), gone, r)
        /\ shed \in A!Counts /\ AddsUp(s, Len(buffer[s]), Len(got[s]), shed, r)
    BY <1>1, TakenAddsUp
  <1>4. /\ EventsOf(s, Append(buffer[s], e)) /\ Len(Append(buffer[s], e)) = Len(buffer[s]) + 1
        /\ EventsOf(s, Append(got[s], e))
    BY <1>1, AppendsOf
  <1>5. /\ A!Thrown(s) => counts' = [counts EXCEPT ![s] = shed]
        /\ A!Taken(s, e) =>
             /\ counts' = [counts EXCEPT ![s] = IF shut[s] THEN gone ELSE taken]
             /\ buffer' = [buffer EXCEPT ![s] = IF shut[s] THEN buffer[s] ELSE Append(buffer[s], e)]
        /\ A!Local(s, e) => \/ got' = [got EXCEPT ![s] = Append(got[s], e)]
                            \/ UNCHANGED got
    <2>1. A!Thrown(s) => counts' = [counts EXCEPT ![s] = shed]
      BY <1>1 DEF A!Thrown, A!Counts
    <2>2. A!Taken(s, e) => counts' = [counts EXCEPT ![s] = IF shut[s] THEN gone ELSE taken]
      <3>1. counts \in [Source -> A!Counts] /\ shut[s] \in BOOLEAN
        BY DEF AnalyticsInv, A!TypeOK
      <3>2. CASE shut[s]
        BY <3>1, <3>2 DEF A!Taken, A!Counts
      <3>3. CASE ~shut[s]
        BY <3>1, <3>3 DEF A!Taken, A!Counts
      <3> QED
        BY <3>1, <3>2, <3>3
    <2>3. A!Taken(s, e) =>
            buffer' = [buffer EXCEPT ![s] = IF shut[s] THEN buffer[s] ELSE Append(buffer[s], e)]
      BY <1>1 DEF A!Taken, AnalyticsInv, Labelled
    <2>4. A!Local(s, e) => \/ got' = [got EXCEPT ![s] = Append(got[s], e)]
                           \/ UNCHANGED got
      BY <1>1 DEF A!Local, AnalyticsInv, Labelled
    <2> QED
      BY <2>1, <2>2, <2>3, <2>4
  <1> HIDE DEF e, r, c, taken, gone, shed
  <1>6. CASE A!Unknown(s)
    <2>1. ~A!Sdk(s) /\ warned' \subseteq Source /\ UNCHANGED <<buffer, got, counts>>
      BY <1>6 DEF A!Unknown, A!Sdk, AnalyticsInv, A!TypeOK, A!AnalyticsAssumption, A!Provider
    <2>2. AddsUp(s, Len(buffer[s]), Len(got[s]), c, r)
      BY <2>1 DEF AddsUp
    <2> QED
      BY <1>1, <1>2, <2>1, <2>2, SourceKeeps
  <1>7. CASE A!Local(s, e)
    <2>1. ~A!Sdk(s) /\ UNCHANGED <<buffer, counts, warned>>
      BY <1>7 DEF A!Local, A!Sdk, A!Servers, A!Browsers
    <2>2. PICK g \in {got[s], Append(got[s], e)} : got' = [got EXCEPT ![s] = g]
      BY <1>1, <1>5, <1>7
    <2>3. EventsOf(s, g) /\ AddsUp(s, Len(buffer[s]), Len(g), c, r) /\ warned' \subseteq Source
      BY <1>1, <1>4, <2>1 DEF AddsUp, AnalyticsInv, A!TypeOK
    <2> QED
      BY <1>1, <1>2, <2>1, <2>2, <2>3, SourceKeeps
  <1>8. CASE A!Thrown(s)
    <2>1. UNCHANGED <<buffer, got, warned>> /\ warned \subseteq Source
      BY <1>8 DEF A!Thrown, AnalyticsInv, A!TypeOK
    <2> QED
      BY <1>1, <1>2, <1>3, <1>5, <1>8, <2>1, SourceKeeps
  <1>9. CASE A!Taken(s, e)
    <2>1. UNCHANGED <<got, warned>> /\ warned \subseteq Source
      BY <1>9 DEF A!Taken, AnalyticsInv, A!TypeOK
    <2>2. CASE shut[s]
      BY <1>1, <1>2, <1>3, <1>5, <1>9, <2>1, <2>2, SourceKeeps
    <2>3. CASE ~shut[s]
      <3>1. AddsUp(s, Len(Append(buffer[s], e)), Len(got[s]), taken, r)
        BY <1>3, <1>4
      <3>2. /\ buffer' = [buffer EXCEPT ![s] = Append(buffer[s], e)]
            /\ counts' = [counts EXCEPT ![s] = taken]
        BY <1>5, <1>9, <2>3
      <3> QED
        BY <1>1, <1>2, <1>3, <1>4, <2>1, <3>1, <3>2, SourceKeeps
    <2> QED
      BY <2>2, <2>3
  <1> QED
    BY <1>2, <1>6, <1>7, <1>8, <1>9

LEMMA DeliveryKeeps ==
  ASSUME A!AnalyticsAssumption, AnalyticsInv, NEW s \in Source, NEW n \in 1..MaxEvents,
         A!Deliver(s, n) \/ A!Fails(s, n)
  PROVE  AnalyticsInv'
  <1> DEFINE left  == SubSeq(buffer[s], n + 1, Len(buffer[s]))
             batch == SubSeq(buffer[s], 1, n)
             c     == counts[s]
             drops == A!OnBackgroundError(s)
             lossy == [c EXCEPT !.dropped = drops, !.lost = @ + n, !.failed = @ + 1]
  <1>1. /\ EventsOf(s, buffer[s]) /\ Len(buffer[s]) \in Nat
        /\ EventsOf(s, got[s]) /\ Len(got[s]) \in Nat /\ got = [got EXCEPT ![s] = got[s]]
        /\ c \in A!Counts /\ counts = [counts EXCEPT ![s] = c]
        /\ AddsUp(s, Len(buffer[s]), Len(got[s]), c, reported[s])
    BY Fits
  <1>2. /\ n \in 1..Len(buffer[s]) /\ n \in Nat /\ buffer' = [buffer EXCEPT ![s] = left]
        /\ UNCHANGED <<config, reporters, shut, warned, reported, flush>>
    BY <1>1 DEF A!Deliver, A!Fails, AnalyticsInv, Labelled
  <1>3. /\ reported[s] \in 0..MaxEvents /\ reported[s] \in Nat
        /\ reported' = [reported EXCEPT ![s] = reported[s]] /\ warned' \subseteq Source
    BY <1>2 DEF AnalyticsInv, A!TypeOK, A!AnalyticsAssumption
  <1>4. EventsOf(s, left) /\ Len(left) = Len(buffer[s]) - n /\ EventsOf(s, batch) /\ Len(batch) = n
    BY <1>1, <1>2, CutsOf
  <1>5. CASE A!Deliver(s, n)
    <2>1. got' = [got EXCEPT ![s] = got[s] \o batch] /\ UNCHANGED counts
      BY <1>5 DEF A!Deliver, AnalyticsInv, Labelled
    <2> HIDE DEF left, batch, c
    <2>2. EventsOf(s, got[s] \o batch) /\ Len(got[s] \o batch) = Len(got[s]) + n
      BY <1>1, <1>4, JoinsOf
    <2>3. AddsUp(s, Len(left), Len(got[s] \o batch), c, reported[s])
      BY <1>1, <1>2, <1>3, <1>4, <2>2, SentAddsUp
    <2> QED
      BY <1>1, <1>2, <1>3, <1>4, <2>1, <2>2, <2>3, SourceKeeps
  <1>6. CASE A!Fails(s, n)
    <2>1. counts' = [counts EXCEPT ![s] = lossy] /\ UNCHANGED got
      BY <1>1, <1>6 DEF A!Fails, A!Counts
    <2>2. drops \in Nat /\ (reporters[s] \in A!Servers => drops = c.dropped + 1)
      BY <1>1 DEF A!OnBackgroundError, A!Counts
    <2> HIDE DEF left, c, drops
    <2>3. lossy \in A!Counts /\ AddsUp(s, Len(buffer[s]) - n, Len(got[s]), lossy, reported[s])
      BY <1>1, <1>2, <1>3, <2>2, LostAddsUp
    <2>4. AddsUp(s, Len(left), Len(got[s]), lossy, reported[s])
      BY <1>4, <2>3
    <2> HIDE DEF lossy
    <2> QED
      BY <1>1, <1>2, <1>3, <1>4, <2>1, <2>3, <2>4, SourceKeeps
  <1> QED
    BY <1>5, <1>6

LEMMA AnalyticsNext ==
  A!AnalyticsAssumption /\ AnalyticsInv /\ [A!Next]_analyticsVars => AnalyticsInv'
  <1> SUFFICES ASSUME A!AnalyticsAssumption, AnalyticsInv, [A!Next]_analyticsVars
               PROVE  AnalyticsInv'
    OBVIOUS
  <1>1. ASSUME UNCHANGED <<config, reporters, buffer, got, warned, counts, reported>>,
               flush' \in [Source -> {"idle", "flush", "shutdown", "over"}],
               shut' \in [Source -> BOOLEAN]
        PROVE  AnalyticsInv'
    BY <1>1 DEF AnalyticsInv, A!TypeOK, Labelled, AddsUp, A!Sdk
  <1>2. CASE UNCHANGED analyticsVars
    BY <1>1, <1>2 DEF analyticsVars, AnalyticsInv, A!TypeOK
  <1>3. ASSUME NEW s \in Source, A!Over(s) PROVE AnalyticsInv'
    BY <1>1, <1>3 DEF A!Over, AnalyticsInv, A!TypeOK
  <1>4. ASSUME NEW op \in {"flush", "shutdown"}, A!FlushAll(op) PROVE AnalyticsInv'
    BY <1>1, <1>4 DEF A!FlushAll, AnalyticsInv, A!TypeOK, A!Sdk
  <1> QED
    BY <1>2, <1>3, <1>4, ReportKeeps, DeliveryKeeps
    DEF A!Next, A!Moves, A!Abandon, A!NothingToFlush, A!WorkEnds

LEMMA LabelsOf ==
  ASSUME NEW s, NEW events, EventsOf(s, events), NEW e \in A!Range(events)
  PROVE  e.source = s
  BY DEF EventsOf, A!Range

LEMMA EventsAreTold == A!AnalyticsAssumption /\ AnalyticsInv => A!EventsAreAccounted
  <1> SUFFICES ASSUME A!AnalyticsAssumption, AnalyticsInv, NEW s \in Source,
                      NEW e \in A!Range(got[s] \o buffer[s])
               PROVE  e.source = s
    BY DEF AnalyticsInv, A!EventsAreAccounted, AddsUp
  <1>1. EventsOf(s, got[s] \o buffer[s])
    <2>1. EventsOf(s, got[s]) /\ EventsOf(s, buffer[s])
      BY Fits
    <2> QED
      BY <2>1, JoinsOf
  <1> QED
    BY <1>1, LabelsOf

-----------------------------------------------------------------------------

PartsInv == HealthInv /\ AnalyticsInv

\* Whatever components answer, hang or fail and callers abort, a health report is as
\* bad as its worst component and no worse (check of the health registry); and
\* whatever vendors take, lose or are shut down under, every event of analytics keeps
\* the source it was reported for and is accounted for by the counters.
THEOREM ReportsStayTrue == PartsSpec => []ReportsAreTrue
  <1>1. PartsInit => PartsInv
    BY OutgoingAssumption, HealthInit, AnalyticsInit DEF PartsInit, PartsInv
  <1>2. PartsInv /\ [PartsNext]_partsVars => PartsInv'
    <2> SUFFICES ASSUME PartsInv, [PartsNext]_partsVars PROVE PartsInv'
      OBVIOUS
    <2>1. [H!Next]_healthVars /\ [A!Next]_analyticsVars
      BY DEF PartsNext, partsVars, Requesting, Checking, Reporting
    <2> QED
      BY <2>1, OutgoingAssumption, HealthNext, AnalyticsNext DEF PartsInv
  <1>3. PartsInv => ReportsAreTrue
    BY OutgoingAssumption, HealthIsTold, EventsAreTold DEF PartsInv, ReportsAreTrue
  <1> QED
    BY <1>1, <1>2, <1>3, PTL DEF PartsSpec

-----------------------------------------------------------------------------
(* The circuit breaker, for any number of callers, any thresholds and any  *)
(* cooldown: its counters keep their ranges, a recovering dependency is    *)
(* spared a flood of probes, and only consecutive failures open a closed   *)
(* circuit.                                                                *)

ProbesBounded == \A age \in Age : recent[age] <= HalfOpenMaxAttempts

\* While open, nothing was let through since the circuit opened.
QuietSinceOpened ==
  state = "open" => \A age \in Age : age < sinceOpened => recent[age] = 0

\* While half-open, the probes of the last cooldown are among those the circuit
\* has counted since it went half-open.
ProbesCounted ==
  state = "half-open" => \A age \in Age : recent[age] <= attempts

BreakerInv == BreakerTypeOK /\ ProbesBounded /\ QuietSinceOpened /\ ProbesCounted /\ CountsConsecutive

LEMMA UpToBounds ==
  ASSUME NEW limit \in Nat, NEW n \in 0..limit
  PROVE  UpTo(limit, n + 1) \in 0..limit /\ UpTo(limit, n + 1) <= n + 1
  BY DEF UpTo

LEMMA BreakerInvInit == BreakerInit => BreakerInv
  BY BreakerAssumption
     DEF BreakerInit, BreakerInv, BreakerTypeOK, ProbesBounded, QuietSinceOpened, ProbesCounted, CountsConsecutive,
         State, Place, Age

-----------------------------------------------------------------------------
(* The circuit and its counters keep their types.                          *)

LEMMA TypeTick == BreakerTypeOK /\ Tick => BreakerTypeOK'
  <1> SUFFICES ASSUME BreakerTypeOK, Tick PROVE BreakerTypeOK'
    OBVIOUS
  <1>1. sinceOpened' \in 0..OpenDuration /\ sinceHalfOpen' \in 0..OpenDuration
    BY BreakerAssumption, UpToBounds DEF BreakerTypeOK, Tick
  <1>2. recent' \in [Age -> Nat]
    BY BreakerAssumption DEF BreakerTypeOK, Tick, Age
  <1> QED
    BY <1>1, <1>2 DEF BreakerTypeOK, Tick

LEMMA TypeAdmit ==
  ASSUME BreakerTypeOK, NEW c \in Client, Admit(c) \/ Reject(c) \/ Leave(c)
  PROVE  calls' \in [Client -> Place] /\ recent' \in [Age -> Nat]
  BY DEF BreakerTypeOK, Admit, Reject, Leave, Place, Age

LEMMA TypeTry ==
  ASSUME BreakerTypeOK, NEW c \in Client, Try(c)
  PROVE  BreakerTypeOK'
  <1> USE BreakerAssumption DEF BreakerTypeOK, Try, State
  <1>1. calls' \in [Client -> Place] /\ recent' \in [Age -> Nat]
    BY TypeAdmit DEF PassClosed, PassOpen, RejectOpen, PassHalfOpen, RejectHalfOpen
  <1>2. CASE PassClosed(c) \/ RejectOpen(c)
    BY <1>1, <1>2 DEF PassClosed, RejectOpen
  <1>3. CASE PassOpen(c)
    BY <1>1, <1>3 DEF PassOpen
  <1>4. CASE PassHalfOpen(c)
    BY <1>1, <1>4 DEF PassHalfOpen
  <1>5. CASE RejectHalfOpen(c)
    BY <1>1, <1>5 DEF RejectHalfOpen, Open
  <1> QED
    BY <1>2, <1>3, <1>4, <1>5

LEMMA TypeReport ==
  ASSUME BreakerTypeOK, NEW c \in Client, Succeeded(c) \/ Failed(c) \/ LeaveUnreported(c) \/ TurnAway(c)
  PROVE  BreakerTypeOK'
  <1> USE BreakerAssumption DEF BreakerTypeOK, State
  <1>1. CASE Succeeded(c)
    BY <1>1, TypeAdmit DEF Succeeded, Close
  <1>2. CASE Failed(c)
    <2>1. streak' \in 0..FailureThreshold /\ UpTo(FailureThreshold, failures + 1) \in 0..FailureThreshold
      BY <1>2, UpToBounds DEF Failed
    <2> QED
      BY <1>2, <2>1, TypeAdmit DEF Failed, Open
  <1>3. CASE LeaveUnreported(c)
    BY <1>3, TypeAdmit DEF LeaveUnreported
  <1>4. CASE TurnAway(c)
    BY <1>4 DEF TurnAway, Place
  <1> QED
    BY <1>1, <1>2, <1>3, <1>4

-----------------------------------------------------------------------------
(* The probes of the last cooldown stay counted.                           *)

LEMMA ProbesTick ==
  ASSUME BreakerInv, Tick
  PROVE  ProbesBounded' /\ QuietSinceOpened' /\ ProbesCounted'
  <1> USE BreakerAssumption DEF BreakerInv, BreakerTypeOK, Tick, Age
  <1>1. ProbesBounded'
    BY DEF ProbesBounded
  <1>2. QuietSinceOpened'
    <2> SUFFICES ASSUME state = "open", NEW age \in 0..OpenDuration - 1, age < sinceOpened'
                 PROVE  recent'[age] = 0
      BY DEF QuietSinceOpened
    <2>1. sinceOpened \in Nat /\ sinceOpened' \in Nat /\ sinceOpened' <= sinceOpened + 1
      BY UpToBounds
    <2>2. CASE age # 0
      <3>1. age - 1 \in 0..OpenDuration - 1
        BY <2>2
      <3>2. age - 1 < sinceOpened
        <4> HIDE DEF Tick
        <4> QED
          BY <2>1, <2>2
      <3>3. recent[age - 1] = 0
        BY <3>1, <3>2 DEF QuietSinceOpened
      <3> QED
        BY <2>2, <3>3
    <2> QED
      BY <2>2
  <1>3. ProbesCounted'
    BY DEF ProbesCounted
  <1> QED
    BY <1>1, <1>2, <1>3

LEMMA ProbesTry ==
  ASSUME BreakerInv, NEW c \in Client, Try(c)
  PROVE  ProbesBounded' /\ QuietSinceOpened' /\ ProbesCounted'
  <1> USE BreakerAssumption
          DEF BreakerInv, BreakerTypeOK, Try, ProbesBounded, QuietSinceOpened, ProbesCounted
  <1>1. CASE PassClosed(c)
    BY <1>1 DEF PassClosed, Admit
  <1>2. CASE PassOpen(c)
    <2>1. \A age \in Age : recent[age] = 0
      BY <1>2 DEF PassOpen, CooldownElapsed, Age
    <2> QED
      BY <1>2, <2>1 DEF PassOpen, Admit
  <1>3. CASE PassHalfOpen(c)
    BY <1>3 DEF PassHalfOpen, Admit
  <1>4. CASE RejectOpen(c)
    BY <1>4 DEF RejectOpen, Reject
  <1>5. CASE RejectHalfOpen(c)
    BY <1>5 DEF RejectHalfOpen, Reject, Open, Age
  <1> QED
    BY <1>1, <1>2, <1>3, <1>4, <1>5

LEMMA ProbesReport ==
  ASSUME BreakerInv, NEW c \in Client,
         Succeeded(c) \/ Failed(c) \/ LeaveUnreported(c) \/ TurnAway(c)
  PROVE  ProbesBounded' /\ QuietSinceOpened' /\ ProbesCounted'
  <1> USE BreakerAssumption
          DEF BreakerInv, BreakerTypeOK, ProbesBounded, QuietSinceOpened, ProbesCounted, Leave
  <1>1. CASE Succeeded(c)
    BY <1>1 DEF Succeeded, Close
  <1>2. CASE Failed(c)
    BY <1>2 DEF Failed, Open, Age
  <1>3. CASE LeaveUnreported(c) \/ TurnAway(c)
    BY <1>3 DEF LeaveUnreported, TurnAway
  <1> QED
    BY <1>1, <1>2, <1>3

-----------------------------------------------------------------------------
(* Only the failures since the last success are counted.                   *)

LEMMA CountsStep ==
  ASSUME BreakerInv, NEW c \in Client, Succeeded(c) \/ Failed(c)
  PROVE  CountsConsecutive'
  <1> USE BreakerAssumption DEF BreakerInv, BreakerTypeOK, CountsConsecutive
  <1>1. CASE Succeeded(c)
    BY <1>1 DEF Succeeded, Close
  <1>2. CASE Failed(c)
    BY <1>2 DEF Failed, Open, UpTo
  <1> QED
    BY <1>1, <1>2

LEMMA CountsElse ==
  ASSUME BreakerInv, NEW c \in Client, Try(c) \/ LeaveUnreported(c) \/ TurnAway(c)
  PROVE  CountsConsecutive'
  BY DEF BreakerInv, CountsConsecutive, Try, PassClosed, PassOpen, RejectOpen, PassHalfOpen,
         RejectHalfOpen, Open, LeaveUnreported, TurnAway

LEMMA BreakerInvNext == BreakerInv /\ [BreakerNext]_breakerVars => BreakerInv'
  <1> SUFFICES ASSUME BreakerInv, [BreakerNext]_breakerVars PROVE BreakerInv'
    OBVIOUS
  <1>1. CASE Tick
    BY <1>1, TypeTick, ProbesTick DEF BreakerInv, CountsConsecutive, Tick
  <1>2. ASSUME NEW c \in Client, Try(c) PROVE BreakerInv'
    BY <1>2, TypeTry, ProbesTry, CountsElse DEF BreakerInv
  <1>3. ASSUME NEW c \in Client, Succeeded(c) \/ Failed(c) PROVE BreakerInv'
    BY <1>3, TypeReport, ProbesReport, CountsStep DEF BreakerInv
  <1>4. ASSUME NEW c \in Client, LeaveUnreported(c) \/ TurnAway(c) PROVE BreakerInv'
    BY <1>4, TypeReport, ProbesReport, CountsElse DEF BreakerInv
  <1>5. CASE UNCHANGED breakerVars
    BY <1>5 DEF breakerVars, BreakerInv, BreakerTypeOK, ProbesBounded, QuietSinceOpened, ProbesCounted,
                CountsConsecutive
  <1> QED
    BY <1>1, <1>2, <1>3, <1>4, <1>5 DEF BreakerNext

LEMMA BreakerInvariance == BreakerSpec => []BreakerInv
  BY BreakerInvInit, BreakerInvNext, PTL DEF BreakerSpec

-----------------------------------------------------------------------------
\* Until it closes again, a circuit lets no more than halfOpenMaxAttempts probes through in
\* any stretch of openDurationMs, for any number of callers, whatever is reported late, out
\* of turn or not at all.
THEOREM FloodsAreBounded == BreakerSpec => []FloodBounded
  <1>1. BreakerInv => FloodBounded
    BY DEF BreakerInv, ProbesBounded, FloodBounded
  <1> QED
    BY <1>1, BreakerInvariance, PTL

\* A closed circuit has counted exactly the failures since the last success, and fewer
\* than open it, also when reports of older calls come in late.
THEOREM FailuresAreConsecutive == BreakerSpec => []CountsConsecutive
  <1>1. BreakerInv => CountsConsecutive
    BY DEF BreakerInv
  <1> QED
    BY <1>1, BreakerInvariance, PTL

-----------------------------------------------------------------------------
(* The rate limiter, for any keys, callers, costs, limit and window: no    *)
(* window grants more than the limit, a denial tells when the window is    *)
(* over, and no answer tells of capacity that is gone; in the Map, whose   *)
(* windows may be evicted, and on a redis server, whose counters lose      *)
(* their expiry and whose script may run twice for one check; and the Map  *)
(* keeps its order and its cap.                                            *)

(* The inductive invariant.                                                *)

\* The types of LimiterTypeOK but for the order of the Map's keys.
LimitTypes ==
  /\ limiter \in LimiterProviders
  /\ windows \in [Subject -> Window \union {None}]
  /\ checks \in [Caller -> Check]
  /\ time \in Nat
  /\ ledger \in [Subject -> [asked : Nat, granted : Nat]]

\* A window has counted what it granted, and the Map's windows do end.
CountsGrants ==
  \A k \in Subject :
    windows[k] # None =>
      /\ ledger[k].granted <= windows[k].used
      /\ limiter = "memory" => windows[k].until # Never

\* A check that is under way has a cost, and no answer unless it was given up.
UnderWay(k) ==
  k.at # "over" => k.cost >= 0 /\ k.answer = IF k.at = "late" THEN "failed" ELSE "none"

Pending == \A c \in Caller : UnderWay(checks[c])

\* The reply the script has sent: the count, less a cost that was not granted, is
\* no less than what was granted, and the window ends within ttl.
Reply(k) ==
  /\ 0 <= k.left
  /\ Limit - (IF k.count > Limit THEN k.count - k.cost ELSE k.count) <= k.left
  /\ k.due # Never /\ k.due <= time + k.ttl

ServedIsSound ==
  \A c \in Caller : checks[c].at = "served" /\ checks[c].op = "limit" => Reply(checks[c])

\* What GrantsAreHonest says of one check.
Told(k) ==
  /\ k.answer = "denied" => k.due # Never /\ k.due <= k.resetAt
  /\ k.answer \in {"allowed", "denied"} /\ limiter # "noop" => k.remaining <= k.left

LimiterInv == LimitTypes /\ CountsGrants /\ Pending /\ ServedIsSound /\ GrantsAreHonest

LEMMA LaterIs ==
  ASSUME NEW a \in Int, NEW b \in Int
  PROVE  /\ Later(a, b) \in Int /\ Later(a, b) >= a /\ Later(a, b) >= b
         /\ \A n \in Int : a <= n /\ b <= n => Later(a, b) <= n
  BY DEF Later

LEMMA LimiterInvInit == RateLimitsAssumption /\ LimiterInit => LimiterInv
  <1> SUFFICES ASSUME RateLimitsAssumption, LimiterInit PROVE LimiterInv
    OBVIOUS
  <1> DEFINE k == CHOOSE j \in Subject : TRUE
             d == [NewCheck("limit", k, 0) EXCEPT !.at = "over"]
  <1>1. k \in Subject
    BY DEF RateLimitsAssumption
  <1> HIDE DEF k
  <1>2. d \in Check /\ d.at = "over" /\ d.answer = "none"
    BY <1>1 DEF NewCheck, Check
  <1>3. checks = [c \in Caller |-> d]
    BY DEF LimiterInit, k
  <1> HIDE DEF d
  <1>4. LimitTypes
    BY <1>2, <1>3 DEF LimiterInit, LimitTypes, Unused, RateLimitsAssumption
  <1>5. Pending /\ ServedIsSound
    BY <1>2, <1>3 DEF Pending, UnderWay, ServedIsSound
  <1>6. CountsGrants /\ GrantsAreHonest
    BY <1>2, <1>3 DEF LimiterInit, CountsGrants, GrantsAreHonest, Unused, RateLimitsAssumption
  <1> QED
    BY <1>4, <1>5, <1>6 DEF LimiterInv

-----------------------------------------------------------------------------
(* One check moves, and the store stays.                                   *)

LEMMA CheckMoves ==
  ASSUME LimiterInv, NEW c \in Caller, NEW d \in Check, checks' = [checks EXCEPT ![c] = d],
         UnderWay(d), d.at = "served" /\ d.op = "limit" => Reply(d),
         Told(d), UNCHANGED <<limiter, time>>,
         windows' \in [Subject -> Window \union {None}],
         ledger' \in [Subject -> [asked : Nat, granted : Nat]],
         CountsGrants', \A k \in Subject : ledger'[k].granted <= Limit
  PROVE  LimiterInv'
  <1>1. checks' \in [Caller -> Check] /\ \A b \in Caller : checks'[b] = IF b = c THEN d ELSE checks[b]
    BY DEF LimiterInv, LimitTypes
  <1>2. LimitTypes' /\ Pending'
    BY <1>1 DEF LimiterInv, LimitTypes, Pending
  <1>3. ServedIsSound'
    BY <1>1 DEF LimiterInv, ServedIsSound, Reply
  <1>4. GrantsAreHonest'
    BY <1>1 DEF LimiterInv, GrantsAreHonest, Told
  <1> QED
    BY <1>2, <1>3, <1>4 DEF LimiterInv

\* Windows may go, by a reset or an eviction; one that stays is as it was.
LEMMA WindowsGo ==
  ASSUME LimiterInv, UNCHANGED <<limiter, ledger>>, windows' \in [Subject -> Window \union {None}],
         \A k \in Subject : windows'[k] \in {windows[k], None}
  PROVE  /\ CountsGrants' /\ ledger' \in [Subject -> [asked : Nat, granted : Nat]]
         /\ \A k \in Subject : ledger'[k].granted <= Limit
  BY DEF LimiterInv, CountsGrants, LimitTypes, GrantsAreHonest

\* What is booked: the grants of a window that was used before, and this one.
LEMMA BookedIs ==
  ASSUME LimitTypes, NEW k \in Subject, NEW first \in BOOLEAN, NEW granted \in BOOLEAN,
         NEW cost \in Nat, ledger' = Booked(k, first, cost, granted)
  PROVE  /\ ledger' \in [Subject -> [asked : Nat, granted : Nat]]
         /\ \A j \in Subject \ {k} : ledger'[j] = ledger[j]
         /\ ledger'[k].granted = (IF first THEN 0 ELSE ledger[k].granted)
                                   + (IF granted THEN cost ELSE 0)
  <1> DEFINE l == IF first THEN Unused ELSE ledger[k]
             e == [asked |-> l.asked + cost, granted |-> l.granted + IF granted THEN cost ELSE 0]
  <1>1. l \in [asked : Nat, granted : Nat] /\ l.granted = IF first THEN 0 ELSE ledger[k].granted
    BY DEF LimitTypes, Unused
  <1>2. cost = IF cost > 0 THEN cost ELSE 0
    OBVIOUS
  <1>3. ledger' = [ledger EXCEPT ![k] = e]
    BY <1>2 DEF Booked
  <1> HIDE DEF l
  <1>4. e \in [asked : Nat, granted : Nat] /\ e.granted = l.granted + IF granted THEN cost ELSE 0
    BY <1>1
  <1> HIDE DEF e
  <1> QED
    BY <1>1, <1>3, <1>4 DEF LimitTypes

\* The store is left alone.
LEMMA StoreStays ==
  ASSUME LimiterInv, UNCHANGED <<limiter, windows, ledger>>
  PROVE  /\ windows' \in [Subject -> Window \union {None}]
         /\ CountsGrants' /\ ledger' \in [Subject -> [asked : Nat, granted : Nat]]
         /\ \A k \in Subject : ledger'[k].granted <= Limit
  BY DEF LimiterInv, CountsGrants, LimitTypes, GrantsAreHonest

LEMMA AskKeeps ==
  ASSUME RateLimitsAssumption, LimiterInv, NEW c \in Caller, NEW op \in {"limit", "reset"},
         NEW k \in Subject, NEW cost \in Int, op = "reset" => cost = 0, Ask(c, op, k, cost)
  PROVE  LimiterInv'
  <1> DEFINE new == NewCheck(op, k, cost)
             refused == [new EXCEPT !.at = "over", !.answer = "refused"]
             d == IF op = "reset" \/ ValidCost(cost) THEN new ELSE refused
  <1>1. /\ new \in Check /\ new.at = "queued" /\ new.answer = "none" /\ new.cost = cost
        /\ new.op = op
    BY DEF NewCheck, Check
  <1>2. checks' = [checks EXCEPT ![c] = d]
    BY DEF Ask
  <1> HIDE DEF new
  <1>3. refused \in Check /\ refused.at = "over" /\ refused.answer = "refused"
    BY <1>1 DEF Check
  <1>4. cost >= 0 \/ d = refused
    BY DEF ValidCost
  <1> HIDE DEF refused
  <1>5. d \in Check /\ Told(d) /\ UnderWay(d)
    BY <1>1, <1>3, <1>4 DEF Told, UnderWay
  <1>6. d.at # "served"
    BY <1>1, <1>3
  <1>7. UNCHANGED <<limiter, windows, time, ledger>>
    BY DEF Ask
  <1> HIDE DEF d
  <1> QED
    BY <1>2, <1>5, <1>6, <1>7, StoreStays, CheckMoves

-----------------------------------------------------------------------------
(* The Map.                                                                *)

LEMMA MemoryLimitKeeps ==
  ASSUME RateLimitsAssumption, LimiterInv, NEW c \in Caller, MemoryLimit(c)
  PROVE  LimiterInv' /\ windows'[checks[c].key] # None
  <1>0. limiter = "memory" /\ checks[c].at = "queued" /\ checks[c] \in Check
          /\ Limit \in Nat /\ UNCHANGED <<limiter, time>>
    <2>1. limiter = "memory" /\ checks[c].at = "queued" /\ UNCHANGED <<limiter, time>>
      BY DEF MemoryLimit
    <2> QED
      BY <2>1 DEF LimiterInv, LimitTypes, RateLimitsAssumption
  <1> DEFINE k     == checks[c].key
             cost  == checks[c].cost
             first == Ended(windows[k])
             w     == IF first THEN [used |-> 0, until |-> time + WindowMs] ELSE windows[k]
             fits  == w.used + cost <= Limit
             spent == IF fits THEN w.used + cost ELSE w.used
             e     == [w EXCEPT !.used = spent]
             left  == Limit - ledger'[k].granted
             tells == IF fits THEN "allowed" ELSE "denied"
             rest  == Later(0, Limit - spent)
             d     == [checks[c] EXCEPT !.at = "over", !.due = w.until, !.answer = tells,
                         !.remaining = rest, !.resetAt = w.until, !.left = left]
  <1>1. checks[c] \in Check /\ k \in Subject /\ cost \in Nat /\ Limit \in Nat /\ limiter = "memory"
    <2>1. cost >= 0
      BY <1>0 DEF LimiterInv, Pending, UnderWay
    <2>2. cost \in Int /\ k \in Subject
      BY <1>0 DEF Check
    <2> QED
      BY <1>0, <2>1, <2>2
  <1>2. UNCHANGED <<limiter, time>> /\ ledger' = Booked(k, first, cost, fits)
          /\ checks' = [checks EXCEPT ![c] = d]
    <2>1. ledger' = Booked(k, first, cost, fits)
      BY DEF MemoryLimit
    <2>2. checks' = [checks EXCEPT ![c].at = "over", ![c].due = w.until,
                       ![c].answer = tells, ![c].remaining = rest,
                       ![c].resetAt = w.until, ![c].left = left]
      BY DEF MemoryLimit
    <2> HIDE DEF w, tells, rest, left
    <2>3. checks' = [checks EXCEPT ![c] = d]
      BY <2>2 DEF LimiterInv, LimitTypes
    <2> QED
      BY <1>0, <2>1, <2>3
  <1>3. windows'[k] = e /\ \A j \in Subject \ {k} : windows'[j] \in {windows[j], None}
    <2> DEFINE kept == IF k \in Known THEN Known ELSE KeptKeys
    <2>1. windows' = [j \in Subject |-> CASE j = k -> e
                                          [] j # k /\ j \in kept -> windows[j]
                                          [] OTHER -> None]
      BY DEF MemoryLimit
    <2> HIDE DEF kept, k, e
    <2> QED
      BY <1>1, <2>1
  <1>4. DOMAIN windows' = Subject /\ windows' = [j \in Subject |-> windows'[j]]
    BY DEF MemoryLimit
  <1>5. w \in Window /\ w.until # Never /\ w.until \in Nat /\ w.used \in Int
    <2>1. CASE first
      BY <1>1, <2>1 DEF LimiterInv, LimitTypes, Window, Never, RateLimitsAssumption
    <2>2. CASE ~first
      <3>1. windows[k] # None /\ windows[k] \in Window /\ w = windows[k]
        BY <1>1, <2>2 DEF LimiterInv, LimitTypes, Ended
      <3> QED
        BY <1>1, <3>1 DEF LimiterInv, CountsGrants, Window
    <2> QED
      BY <2>1, <2>2
  <1>6. (IF first THEN 0 ELSE ledger[k].granted) <= w.used
          /\ (IF first THEN 0 ELSE ledger[k].granted) <= Limit
          /\ (IF first THEN 0 ELSE ledger[k].granted) \in Nat
    <2>1. CASE first
      BY <1>1, <2>1
    <2>2. CASE ~first
      <3>1. windows[k] # None /\ w = windows[k]
        BY <2>2 DEF Ended
      <3> QED
        BY <1>1, <2>2, <3>1 DEF LimiterInv, CountsGrants, GrantsAreHonest, LimitTypes
    <2> QED
      BY <2>1, <2>2
  <1>7. first \in BOOLEAN /\ fits \in BOOLEAN
    BY DEF Ended
  <1> HIDE DEF k, cost, first, w
  <1>8. /\ ledger' \in [Subject -> [asked : Nat, granted : Nat]]
        /\ \A j \in Subject \ {k} : ledger'[j] = ledger[j]
        /\ ledger'[k].granted = (IF first THEN 0 ELSE ledger[k].granted)
                                  + (IF fits THEN cost ELSE 0)
    BY <1>1, <1>2, <1>7, BookedIs DEF LimiterInv
  <1>9. /\ spent \in Int /\ ledger'[k].granted <= spent /\ ledger'[k].granted <= Limit
        /\ ledger'[k].granted \in Nat
    BY <1>1, <1>5, <1>6, <1>8
  <1> HIDE DEF fits, spent
  <1>10. e \in Window /\ e.used = spent /\ e.until = w.until
    BY <1>5, <1>9 DEF Window
  <1> HIDE DEF e
  <1>11. /\ windows' \in [Subject -> Window \union {None}]
         /\ CountsGrants'
         /\ \A j \in Subject : ledger'[j].granted <= Limit
    <2>1. windows' \in [Subject -> Window \union {None}]
      BY <1>3, <1>4, <1>10 DEF LimiterInv, LimitTypes
    <2>2. \A j \in Subject : ledger'[j].granted <= Limit
      BY <1>8, <1>9 DEF LimiterInv, GrantsAreHonest
    <2>3. CountsGrants'
      BY <1>2, <1>3, <1>5, <1>8, <1>9, <1>10 DEF LimiterInv, CountsGrants
    <2> QED
      BY <2>1, <2>2, <2>3
  <1>12. left \in Int /\ 0 <= left /\ Limit - spent <= left
    BY <1>1, <1>9
  <1>13. rest \in Nat /\ rest <= left
    <2>1. 0 \in Int /\ Limit - spent \in Int
      BY <1>1, <1>9
    <2> HIDE DEF left
    <2> QED
      BY <1>12, <2>1 DEF Later
  <1>14. tells \in {"none", "allowed", "denied", "refused", "failed"} /\ w.until \in Int
    BY <1>5
  <1> HIDE DEF left, rest, tells
  <1>15. /\ d \in Check /\ d.at = "over" /\ d.due = w.until /\ d.resetAt = w.until
         /\ d.remaining = rest /\ d.left = left
    BY <1>1, <1>5, <1>12, <1>13, <1>14 DEF Check
  <1> HIDE DEF d
  <1>16. Told(d) /\ UnderWay(d)
    BY <1>5, <1>13, <1>15 DEF Told, UnderWay
  <1>17. windows'[k] # None
    BY <1>3, <1>10 DEF RateLimitsAssumption
  <1> QED
    BY <1>2, <1>8, <1>11, <1>15, <1>16, <1>17, CheckMoves DEF k

\* Resets answer nothing, and the noop limiter keeps nothing.
LEMMA ResetKeeps ==
  ASSUME RateLimitsAssumption, LimiterInv, NEW c \in Caller,
         MemoryReset(c) \/ NoopLimit(c) \/ ResetRuns(c)
  PROVE  LimiterInv'
  <1>1. /\ checks[c] \in Check /\ checks[c].at \in {"queued", "late"} /\ checks[c].key \in Subject
        /\ checks[c].answer = (IF checks[c].at = "late" THEN "failed" ELSE "none")
        /\ checks[c].cost >= 0
    BY DEF MemoryReset, NoopLimit, ResetRuns, Sent, LimiterInv, LimitTypes, Pending, UnderWay,
           Check
  <1>2. UNCHANGED <<limiter, time, ledger>>
    BY DEF MemoryReset, NoopLimit, ResetRuns
  <1>3. /\ windows' \in [Subject -> Window \union {None}]
        /\ CountsGrants' /\ ledger' \in [Subject -> [asked : Nat, granted : Nat]]
        /\ \A k \in Subject : ledger'[k].granted <= Limit
    <2>1. CASE NoopLimit(c)
      BY <1>2, <2>1, StoreStays DEF NoopLimit
    <2>2. CASE MemoryReset(c) \/ ResetRuns(c)
      <3>1. windows' = [windows EXCEPT ![checks[c].key] = None]
        BY <2>2 DEF MemoryReset, ResetRuns
      <3>2. windows' \in [Subject -> Window \union {None}]
              /\ \A k \in Subject : windows'[k] \in {windows[k], None}
        BY <1>1, <3>1 DEF LimiterInv, LimitTypes
      <3> QED
        BY <1>2, <3>2, WindowsGo
    <2> QED
      BY <2>1, <2>2
  <1>4. CASE NoopLimit(c)
    <2> DEFINE d == [checks[c] EXCEPT !.at = "over", !.answer = "allowed"]
    <2>1. checks' = [checks EXCEPT ![c] = d] /\ limiter = "noop"
      BY <1>4 DEF NoopLimit, LimiterInv, LimitTypes
    <2>2. d \in Check /\ d.at = "over" /\ d.answer = "allowed"
      BY <1>1 DEF Check
    <2> HIDE DEF d
    <2>3. Told(d) /\ UnderWay(d)
      BY <2>1, <2>2 DEF Told, UnderWay
    <2> QED
      BY <1>2, <1>3, <2>1, <2>2, <2>3, CheckMoves
  <1>5. CASE MemoryReset(c) \/ ResetRuns(c)
    <2> DEFINE goes == IF MemoryReset(c) THEN "over" ELSE Run(checks[c])
               d    == [checks[c] EXCEPT !.at = goes]
    <2>1. checks' = [checks EXCEPT ![c] = d] /\ checks[c].op = "reset"
      BY <1>5 DEF MemoryReset, ResetRuns, LimiterInv, LimitTypes
    <2>2. /\ d \in Check /\ d.op = "reset" /\ d.answer = checks[c].answer /\ d.cost >= 0
          /\ d.at = "over" \/ (d.at = "served" /\ checks[c].at = "queued")
      BY <1>1, <1>5, <2>1 DEF Check, Run
    <2> HIDE DEF d
    <2>3. Told(d) /\ UnderWay(d)
      BY <1>1, <2>2 DEF Told, UnderWay
    <2> QED
      BY <1>2, <1>3, <2>1, <2>2, <2>3, CheckMoves
  <1> QED
    BY <1>4, <1>5

-----------------------------------------------------------------------------
(* The counters on the server.                                             *)

LEMMA ScriptKeeps ==
  ASSUME RateLimitsAssumption, LimiterInv, NEW c \in Caller, ScriptRuns(c)
  PROVE  LimiterInv'
  <1> DEFINE k     == checks[c].key
             cost  == checks[c].cost
             first == Ended(windows[k])
             count == IF first THEN cost ELSE windows[k].used + cost
             until == Armed(windows[k])
             e     == [used |-> count, until |-> until]
             ttl   == windows'[k].until - time
             left  == Limit - ledger'[k].granted
             d     == [checks[c] EXCEPT !.at = Run(checks[c]), !.count = count, !.ttl = ttl,
                         !.due = windows'[k].until, !.left = left]
  <1>1. /\ checks[c] \in Check /\ k \in Subject /\ cost \in Nat /\ Limit \in Nat /\ WindowMs \in Nat \ {0}
        /\ checks[c].answer = (IF checks[c].at = "late" THEN "failed" ELSE "none")
        /\ limiter = "redis" /\ time \in Nat
    <2>1. checks[c] \in Check /\ checks[c].at \in {"queued", "late"}
      BY DEF ScriptRuns, Sent, LimiterInv, LimitTypes
    <2>2. /\ cost >= 0 /\ cost \in Int
          /\ checks[c].answer = (IF checks[c].at = "late" THEN "failed" ELSE "none")
      BY <2>1 DEF LimiterInv, Pending, UnderWay, Check
    <2>3. k \in Subject /\ limiter = "redis"
      BY <2>1 DEF ScriptRuns, Check
    <2>4. Limit \in Nat /\ WindowMs \in Nat \ {0} /\ time \in Nat
      BY DEF RateLimitsAssumption, LimiterInv, LimitTypes
    <2> QED
      BY <2>1, <2>2, <2>3, <2>4
  <1>2. /\ UNCHANGED <<limiter, time>> /\ ledger' = Booked(k, first, cost, count <= Limit)
        /\ checks' = [checks EXCEPT ![c] = d] /\ windows' = [windows EXCEPT ![k] = e]
    <2>1. UNCHANGED <<limiter, time>> /\ ledger' = Booked(k, first, cost, count <= Limit)
            /\ windows' = [windows EXCEPT ![k] = e]
      BY DEF ScriptRuns
    <2>2. checks' = [checks EXCEPT ![c].at = Run(checks[c]), ![c].count = count, ![c].ttl = ttl,
                                   ![c].due = windows'[k].until, ![c].left = left]
      BY DEF ScriptRuns
    <2> HIDE DEF count, ttl, left, first, until, e
    <2>3. checks' = [checks EXCEPT ![c] = d]
      BY <2>2 DEF LimiterInv, LimitTypes
    <2> QED
      BY <2>1, <2>3
  <1>3. until \in Nat /\ until # Never
    <2>1. CASE first \/ windows[k].until = Never
      BY <1>1, <2>1 DEF Armed, Never
    <2>2. CASE ~(first \/ windows[k].until = Never)
      <3>1. windows[k] \in Window
        BY <1>1, <2>2 DEF Ended, LimiterInv, LimitTypes
      <3> QED
        BY <2>2, <3>1 DEF Armed, Window, Never
    <2> QED
      BY <2>1, <2>2
  <1>4. /\ ~first => windows[k] \in Window /\ windows[k] # None /\ windows[k].used \in Int
        /\ count \in Int
    <2>1. ~first => windows[k] \in Window /\ windows[k] # None
      BY <1>1 DEF Ended, LimiterInv, LimitTypes
    <2> QED
      BY <1>1, <2>1 DEF Window
  <1>5. first \in BOOLEAN /\ (count <= Limit) \in BOOLEAN
    BY DEF Ended
  <1>6. ~first => ledger[k].granted <= windows[k].used /\ ledger[k].granted <= Limit
          /\ ledger[k].granted \in Nat
    BY <1>1, <1>4 DEF LimiterInv, CountsGrants, GrantsAreHonest, LimitTypes
  <1>7. count - cost = IF first THEN 0 ELSE windows[k].used
    BY <1>1, <1>4
  <1> HIDE DEF k, cost, first
  <1>8. /\ ledger' \in [Subject -> [asked : Nat, granted : Nat]]
        /\ \A j \in Subject \ {k} : ledger'[j] = ledger[j]
        /\ ledger'[k].granted = (IF first THEN 0 ELSE ledger[k].granted)
                                  + (IF count <= Limit THEN cost ELSE 0)
    BY <1>1, <1>2, <1>5, BookedIs DEF LimiterInv
  <1> HIDE DEF until, count
  <1>9. /\ ledger'[k].granted \in Nat /\ ledger'[k].granted <= Limit
        /\ ledger'[k].granted <= (IF count > Limit THEN count - cost ELSE count)
        /\ ledger'[k].granted <= count
    <2>1. CASE first
      <3>1. ledger'[k].granted = (IF count <= Limit THEN cost ELSE 0) /\ count = cost
        BY <1>1, <1>4, <1>7, <1>8, <2>1
      <3> QED
        BY <1>1, <3>1
    <2>2. CASE ~first
      <3>1. /\ ledger'[k].granted = ledger[k].granted + (IF count <= Limit THEN cost ELSE 0)
            /\ ledger[k].granted <= count - cost /\ ledger[k].granted <= Limit
            /\ ledger[k].granted \in Nat
        BY <1>6, <1>7, <1>8, <2>2
      <3> QED
        BY <1>1, <1>4, <3>1
    <2> QED
      BY <2>1, <2>2
  <1>10. /\ e \in Window /\ e.used = count /\ e.until = until
    BY <1>3, <1>4 DEF Window
  <1> HIDE DEF e
  <1>11. /\ windows' \in [Subject -> Window \union {None}]
         /\ windows'[k] = e /\ \A j \in Subject \ {k} : windows'[j] = windows[j]
    BY <1>1, <1>2, <1>10 DEF LimiterInv, LimitTypes
  <1>12. CountsGrants' /\ \A j \in Subject : ledger'[j].granted <= Limit
    <2>1. \A j \in Subject : ledger'[j].granted <= Limit
      BY <1>8, <1>9 DEF LimiterInv, GrantsAreHonest
    <2>2. CountsGrants'
      BY <1>1, <1>2, <1>3, <1>8, <1>9, <1>10, <1>11 DEF LimiterInv, CountsGrants
    <2> QED
      BY <2>1, <2>2
  <1>13. /\ ttl \in Int /\ windows'[k].until = until /\ until \in Int /\ until <= time + ttl
         /\ left \in Int /\ 0 <= left
         /\ Limit - (IF count > Limit THEN count - cost ELSE count) <= left
    BY <1>1, <1>3, <1>4, <1>9, <1>10, <1>11
  <1> HIDE DEF ttl, left
  <1>14. /\ d \in Check /\ d.due = until /\ d.ttl = ttl /\ d.count = count
         /\ d.left = left /\ d.answer = checks[c].answer /\ d.cost = cost
         /\ d.at = IF checks[c].at = "late" THEN "over" ELSE "served"
    BY <1>1, <1>4, <1>13 DEF Check, Run, cost
  <1> HIDE DEF d
  <1>15. Reply(d) /\ Told(d) /\ UnderWay(d)
    BY <1>1, <1>3, <1>13, <1>14 DEF Reply, Told, UnderWay
  <1> QED
    BY <1>2, <1>8, <1>11, <1>12, <1>14, <1>15, CheckMoves

LEMMA AnswerKeeps ==
  ASSUME RateLimitsAssumption, LimiterInv, NEW c \in Caller, Answered(c)
  PROVE  LimiterInv'
  <1> DEFINE k      == checks[c]
             before == IF k.count > Limit THEN k.count - k.cost ELSE k.count
             tells  == IF k.count > Limit THEN "denied" ELSE "allowed"
             rest   == Later(0, Limit - before)
             ends   == Later(0, time + IF k.ttl >= 0 THEN k.ttl ELSE WindowMs)
             over   == [k EXCEPT !.at = "over"]
             heard   == [k EXCEPT !.at = "over", !.answer = tells, !.remaining = rest,
                                 !.resetAt = ends]
  <1>1. /\ k \in Check /\ k.at = "served" /\ k.answer = "none"
        /\ Limit \in Nat /\ WindowMs \in Nat /\ time \in Nat
    BY DEF Answered, LimiterInv, LimitTypes, Pending, UnderWay, RateLimitsAssumption
  <1>2. UNCHANGED <<limiter, windows, time, ledger>>
          /\ checks' = [checks EXCEPT ![c] = IF k.op = "reset" THEN over ELSE heard]
    BY DEF Answered
  <1>3. CASE k.op = "reset"
    <2>1. over \in Check /\ over.at = "over" /\ over.answer = "none"
      BY <1>1 DEF Check
    <2> HIDE DEF over
    <2>2. Told(over) /\ UnderWay(over)
      BY <2>1 DEF Told, UnderWay
    <2> QED
      BY <1>2, <1>3, <2>1, <2>2, StoreStays, CheckMoves
  <1>4. CASE k.op # "reset"
    <2>1. k.op = "limit" /\ Reply(k)
      BY <1>1, <1>4 DEF Check, LimiterInv, ServedIsSound
    <2>2. k.count \in Int /\ k.cost \in Int /\ k.ttl \in Int /\ k.due \in Int /\ k.left \in Int
      BY <1>1 DEF Check
    <2>3. before \in Int /\ Limit - before <= k.left /\ 0 <= k.left /\ k.due <= time + k.ttl
            /\ k.due # Never
      BY <1>1, <2>1, <2>2 DEF Reply
    <2> HIDE DEF before, k
    <2>4. rest \in Nat /\ rest <= k.left
      BY <1>1, <2>2, <2>3 DEF Later
    <2>5. ends \in Nat /\ k.due <= ends
      BY <1>1, <2>2, <2>3 DEF Later
    <2>6. tells \in {"none", "allowed", "denied", "refused", "failed"}
      OBVIOUS
    <2> HIDE DEF rest, ends, tells
    <2>7. /\ heard \in Check /\ heard.at = "over" /\ heard.remaining = rest /\ heard.resetAt = ends
          /\ heard.left = k.left /\ heard.due = k.due
      BY <1>1, <2>4, <2>5, <2>6 DEF Check
    <2> HIDE DEF heard
    <2>8. Told(heard) /\ UnderWay(heard)
      BY <2>3, <2>4, <2>5, <2>7 DEF Told, UnderWay
    <2> QED
      BY <1>2, <1>4, <2>7, <2>8, StoreStays, CheckMoves
  <1> QED
    BY <1>3, <1>4

\* A command sent again, and one that is rejected.
LEMMA FaultKeeps ==
  ASSUME RateLimitsAssumption, LimiterInv, NEW c \in Caller, SentAgain(c) \/ RedisError(c)
  PROVE  LimiterInv'
  <1>1. checks[c] \in Check /\ checks[c].answer = "none" /\ checks[c].cost >= 0
    BY DEF SentAgain, RedisError, LimiterInv, LimitTypes, Pending, UnderWay
  <1>2. UNCHANGED <<limiter, windows, time, ledger>>
    BY DEF SentAgain, RedisError
  <1>3. CASE SentAgain(c)
    <2> DEFINE d == [checks[c] EXCEPT !.at = "queued"]
    <2>1. checks' = [checks EXCEPT ![c] = d]
      BY <1>3 DEF SentAgain, LimiterInv, LimitTypes
    <2>2. d \in Check /\ d.at = "queued" /\ d.answer = "none" /\ d.cost >= 0
      BY <1>1 DEF Check
    <2> HIDE DEF d
    <2> QED
      BY <1>2, <2>1, <2>2, StoreStays, CheckMoves DEF Told, UnderWay
  <1>4. CASE RedisError(c)
    <2>0. PICK stage \in {"over", "late"} :
            checks' = [checks EXCEPT ![c].at = stage, ![c].answer = "failed",
                         ![c].remaining = IF FailOpen THEN Limit ELSE 0,
                         ![c].resetAt = time + WindowMs]
      BY <1>4 DEF RedisError
    <2> DEFINE rest == IF FailOpen THEN Limit ELSE 0
               ends == time + WindowMs
               d == [checks[c] EXCEPT !.at = stage, !.answer = "failed", !.remaining = rest,
                                      !.resetAt = ends]
    <2>1. checks' = [checks EXCEPT ![c] = d]
      BY <2>0 DEF LimiterInv, LimitTypes
    <2>2. rest \in Nat /\ ends \in Nat
      BY DEF RateLimitsAssumption, LimiterInv, LimitTypes
    <2> HIDE DEF rest, ends
    <2>3. d \in Check /\ d.at = stage /\ d.answer = "failed" /\ d.cost >= 0
      BY <1>1, <2>2 DEF Check
    <2> HIDE DEF d
    <2> QED
      BY <1>2, <2>1, <2>3, StoreStays, CheckMoves DEF Told, UnderWay
  <1> QED
    BY <1>3, <1>4

\* A counter loses its expiry, or time passes, and no check moves.
LEMMA OthersKeep ==
  ASSUME RateLimitsAssumption, LimiterInv, Passes \/ \E k \in Subject : Persist(k)
  PROVE  LimiterInv'
  <1>1. UNCHANGED <<limiter, checks, ledger>> /\ time' \in Nat /\ time' >= time
    BY DEF Passes, Persist, LimiterInv, LimitTypes
  <1>2. windows' \in [Subject -> Window \union {None}] /\ CountsGrants'
    <2>1. CASE Passes
      BY <2>1 DEF Passes, LimiterInv, LimitTypes, CountsGrants
    <2>2. ASSUME NEW k \in Subject, Persist(k)
          PROVE  windows' \in [Subject -> Window \union {None}] /\ CountsGrants'
      <3> DEFINE e == [windows[k] EXCEPT !.until = Never]
      <3>1. windows[k] \in Window /\ windows[k] # None /\ limiter = "redis"
              /\ windows' = [windows EXCEPT ![k] = e]
        BY <2>2 DEF Persist, Ended, LimiterInv, LimitTypes
      <3>2. e \in Window /\ e.used = windows[k].used
        BY <3>1 DEF Window
      <3> HIDE DEF e
      <3> QED
        BY <1>1, <3>1, <3>2 DEF LimiterInv, LimitTypes, CountsGrants
    <2> QED
      BY <2>1, <2>2
  <1>3. ServedIsSound'
    <2> SUFFICES ASSUME NEW c \in Caller, checks[c].at = "served", checks[c].op = "limit"
                 PROVE  Reply(checks[c])'
      BY <1>1 DEF ServedIsSound
    <2>1. checks[c].due \in Int /\ checks[c].ttl \in Int /\ time \in Nat /\ Reply(checks[c])
      BY DEF LimiterInv, LimitTypes, Check, ServedIsSound
    <2> QED
      BY <1>1, <2>1 DEF Reply
  <1> QED
    BY <1>1, <1>2, <1>3 DEF LimiterInv, LimitTypes, Pending, UnderWay, GrantsAreHonest

LEMMA LimiterInvNext == RateLimitsAssumption /\ LimiterInv /\ [LimiterNext]_limiterVars => LimiterInv'
  <1> SUFFICES ASSUME RateLimitsAssumption, LimiterInv, [LimiterNext]_limiterVars PROVE LimiterInv'
    OBVIOUS
  <1>1. ASSUME NEW c \in Caller, NEW k \in Subject, NEW cost \in Costs, Ask(c, "limit", k, cost)
        PROVE  LimiterInv'
    BY <1>1, AskKeeps DEF RateLimitsAssumption
  <1>2. ASSUME NEW c \in Caller, NEW k \in Subject, Ask(c, "reset", k, 0) PROVE LimiterInv'
    BY <1>2, AskKeeps
  <1>3. ASSUME NEW c \in Caller,
               \/ MemoryLimit(c) \/ MemoryReset(c) \/ NoopLimit(c) \/ ScriptRuns(c)
               \/ ResetRuns(c) \/ Answered(c) \/ SentAgain(c) \/ RedisError(c)
        PROVE  LimiterInv'
    BY <1>3, MemoryLimitKeeps, ResetKeeps, ScriptKeeps, AnswerKeeps, FaultKeeps
  <1>4. CASE Passes \/ \E k \in Subject : Persist(k)
    BY <1>4, OthersKeep
  <1>5. CASE UNCHANGED limiterVars
    BY <1>5 DEF limiterVars, LimiterInv, LimitTypes, CountsGrants, Pending, UnderWay,
                ServedIsSound, Reply, GrantsAreHonest
  <1> QED
    BY <1>1, <1>2, <1>3, <1>4, <1>5 DEF LimiterNext

-----------------------------------------------------------------------------
(* The Map: its order and its cap.                                         *)

\* What LimiterTypeOK says besides LimitTypes; and the keys of the Map can be counted.
MapInv ==
  /\ checked \in 0..MaxChecks /\ faults \in 0..MaxFaults /\ time \in 0..LimiterHorizon
  /\ limiter = "memory" => IsFiniteSet(Known)
  /\ IF limiter = "memory" THEN MapIsSound ELSE opened = {}

LEMMA MapInit == RateLimitsAssumption /\ LimiterInit => MapInv
  <1> SUFFICES ASSUME RateLimitsAssumption, LimiterInit PROVE MapInv
    OBVIOUS
  <1>1. Known = {} /\ IsFiniteSet({}) /\ Cardinality({}) = 0
    BY FS_EmptySet DEF Known, LimiterInit
  <1>2. MapIsSound
    BY <1>1 DEF MapIsSound, LimiterInit, RateLimitsAssumption
  <1> QED
    BY <1>1, <1>2 DEF MapInv, LimiterInit, RateLimitsAssumption

\* Of the keys of a set there is an oldest: the one with the fewest before it.
LEMMA OldestOf ==
  ASSUME MapIsSound, NEW S \in SUBSET Known, IsFiniteSet(S), S # {}
  PROVE  \E k \in S : \A j \in S \ {k} : Before(k, j)
  <1> DEFINE Older(k) == {j \in S : Before(j, k)}
             ranks    == {Cardinality(Older(k)) : k \in S}
  <1>1. \A k \in S : IsFiniteSet(Older(k)) /\ Cardinality(Older(k)) \in Nat
    BY FS_Subset, FS_CardinalityType
  <1>2. ranks \subseteq Nat /\ ranks # {}
    BY <1>1
  <1>3. PICK r \in ranks : \A q \in ranks : ~ (<<q, r>> \in OpToRel(<, Nat))
    <2> HIDE DEF ranks
    <2> QED
      BY <1>2, NatLessThanWellFounded, WFMin
  <1>4. PICK k \in S : r = Cardinality(Older(k))
    OBVIOUS
  <1>5. ASSUME NEW j \in S, j # k, ~Before(k, j) PROVE FALSE
    <2>1. Before(j, k) /\ ~Before(j, j)
      BY <1>5 DEF MapIsSound
    <2>2. Older(j) \subseteq Older(k) /\ j \in Older(k) /\ j \notin Older(j)
      BY <2>1 DEF MapIsSound
    <2>3. Cardinality(Older(j)) < Cardinality(Older(k))
      <3> HIDE DEF Older
      <3> QED
        BY <1>1, <2>2, FS_Subset
    <2>4. <<Cardinality(Older(j)), r>> \in OpToRel(<, Nat)
      <3> HIDE DEF Older
      <3> QED
        BY <1>1, <1>4, <2>3 DEF OpToRel
    <2>5. Cardinality(Older(j)) \in ranks
      OBVIOUS
    <2> QED
      BY <1>3, <2>4, <2>5
  <1> QED
    BY <1>5

\* Windows leave the Map, and the others keep their order.
LEMMA KeysGo ==
  ASSUME RateLimitsAssumption, MapInv, NEW S \in SUBSET Known, Known' = S, opened' = Among(S),
         UNCHANGED <<limiter, faults, time>>, checked' \in 0..MaxChecks
  PROVE  MapInv'
  <1>1. CASE limiter = "memory"
    <2>1. IsFiniteSet(S) /\ Cardinality(S) <= Cardinality(Known) /\ Cardinality(S) \in Nat
            /\ Cardinality(Known) \in Nat
      BY <1>1, FS_Subset, FS_CardinalityType DEF MapInv
    <2>2. opened' \subseteq Known' \X Known'
      BY <1>1 DEF Among, MapInv, MapIsSound
    <2>3. \A i, j \in S : Before(i, j)' <=> Before(i, j)
      BY DEF Before, Among
    <2>4. /\ \A j, k \in Known' : Before(j, k)' <=> j # k /\ ~Before(k, j)'
          /\ \A i, j, k \in Known' : Before(i, j)' /\ Before(j, k)' => Before(i, k)'
      BY <1>1, <2>3 DEF MapInv, MapIsSound
    <2>5. Cardinality(Known') <= MaxKeys
      BY <1>1, <2>1 DEF MapInv, MapIsSound, RateLimitsAssumption
    <2> QED
      BY <1>1, <2>1, <2>2, <2>4, <2>5 DEF MapInv, MapIsSound
  <1>2. CASE limiter # "memory"
    BY <1>2 DEF MapInv, Among
  <1> QED
    BY <1>1, <1>2

\* A window comes into a Map that has room for it.
LEMMA KeyComes ==
  ASSUME RateLimitsAssumption, MapInv, limiter = "memory",
         NEW S \in SUBSET Known, NEW k \in Subject \ Known,
         Known' = S \union {k}, opened' = Among(S) \union (S \X {k}),
         Cardinality(S) < MaxKeys, UNCHANGED <<limiter, checked, faults, time>>
  PROVE  MapInv'
  <1>1. /\ IsFiniteSet(S) /\ k \notin S /\ Cardinality(S) \in Nat
        /\ IsFiniteSet(S \union {k}) /\ Cardinality(S \union {k}) = Cardinality(S) + 1
    <2>1. IsFiniteSet(S) /\ k \notin S /\ Cardinality(S) \in Nat
      BY FS_Subset, FS_CardinalityType DEF MapInv
    <2> QED
      BY <2>1, FS_AddElement
  <1>2. opened' \subseteq Known' \X Known'
    BY DEF Among, MapInv, MapIsSound
  <1>3. /\ \A i, j \in S : Before(i, j)' <=> Before(i, j)
        /\ \A i \in S : Before(i, k)' /\ ~Before(k, i)'
        /\ ~Before(k, k)'
    BY <1>1 DEF Before, Among
  <1>4. /\ \A j, l \in Known' : Before(j, l)' <=> j # l /\ ~Before(l, j)'
        /\ \A h, j, l \in Known' : Before(h, j)' /\ Before(j, l)' => Before(h, l)'
    BY <1>1, <1>3 DEF MapInv, MapIsSound
  <1>5. Cardinality(Known') <= MaxKeys
    BY <1>1 DEF RateLimitsAssumption
  <1> QED
    BY <1>1, <1>2, <1>4, <1>5 DEF MapInv, MapIsSound

\* Making room: windows go until there is a place.  A Map at its cap has at most one
\* more than fits, so the oldest that has not ended is all that need go besides.
LEMMA RoomIsMade ==
  ASSUME RateLimitsAssumption, MapInv, limiter = "memory"
  PROVE  KeptKeys \subseteq Known /\ Cardinality(KeptKeys) < MaxKeys
  <1> DEFINE live == {k \in Known : ~Ended(windows[k])}
             n == Cardinality(live)
             excess == n - MaxKeys + 1
             Older(k) == {j \in live : Before(j, k)}
  <1>1. /\ live \subseteq Known /\ IsFiniteSet(live) /\ n \in Nat
        /\ Cardinality(Known) \in Nat /\ n <= Cardinality(Known)
        /\ MaxKeys \in Nat \ {0} /\ MapIsSound /\ Cardinality(Known) <= MaxKeys
    <2>1. live \subseteq Known /\ IsFiniteSet(Known) /\ MapIsSound
      BY DEF MapInv
    <2>2. MaxKeys \in Nat \ {0} /\ Cardinality(Known) <= MaxKeys
      BY <2>1 DEF MapIsSound, RateLimitsAssumption
    <2> HIDE DEF live
    <2> QED
      BY <2>1, <2>2, FS_Subset, FS_CardinalityType
  <1>2. CASE Cardinality(Known) < MaxKeys
    BY <1>2 DEF KeptKeys
  <1>3. CASE ~(Cardinality(Known) < MaxKeys)
    <2>1. KeptKeys = {k \in live : Cardinality(Older(k)) >= excess}
      BY <1>3 DEF KeptKeys
    <2> HIDE DEF live
    <2>2. \A k \in live : IsFiniteSet(Older(k)) /\ Cardinality(Older(k)) \in Nat
      BY <1>1, FS_Subset, FS_CardinalityType
    <2>3. n <= MaxKeys
      BY <1>1
    <2>4. CASE n < MaxKeys
      <3>1. KeptKeys = live
        <4> HIDE DEF Older
        <4> QED
          BY <1>1, <2>1, <2>2, <2>4
      <3> QED
        BY <1>1, <2>4, <3>1
    <2>5. CASE n = MaxKeys
      <3>1. excess = 1
        BY <1>1, <2>5
      <3>2. \A k \in live : k \in KeptKeys <=> Older(k) # {}
        <4> HIDE DEF Older
        <4> QED
          BY <2>1, <2>2, <3>1, FS_EmptySet
      <3>3. PICK m \in live : \A j \in live \ {m} : Before(m, j)
        <4>1. live # {}
          BY <1>1, <2>5, FS_EmptySet
        <4> QED
          BY <1>1, <4>1, OldestOf
      <3>4. m \notin KeptKeys
        BY <1>1, <3>2, <3>3 DEF MapIsSound
      <3>5. KeptKeys \subseteq live /\ KeptKeys # live
        BY <2>1, <3>3, <3>4
      <3>6. Cardinality(KeptKeys) \in Nat /\ Cardinality(KeptKeys) <= n
              /\ Cardinality(KeptKeys) # n
        BY <1>1, <3>5, FS_Subset, FS_CardinalityType
      <3> QED
        BY <1>1, <2>5, <3>5, <3>6
    <2> QED
      BY <1>1, <2>3, <2>4, <2>5
  <1> QED
    BY <1>2, <1>3

LEMMA LimitKeepsMap ==
  ASSUME RateLimitsAssumption, LimiterInv, MapInv, NEW c \in Caller, MemoryLimit(c)
  PROVE  MapInv'
  <1> DEFINE k == checks[c].key
             kept == IF k \in Known THEN Known ELSE KeptKeys
  <1>1. /\ k \in Subject /\ limiter = "memory" /\ UNCHANGED <<limiter, checked, faults, time>>
        /\ opened' = Among(kept) \union (IF k \in Known THEN {} ELSE kept \X {k})
    BY DEF MemoryLimit, LimiterInv, LimitTypes, Check
  <1>2. PICK e : windows' = [j \in Subject |-> CASE j = k -> e
                                                 [] j # k /\ j \in kept -> windows[j]
                                                 [] OTHER -> None]
    BY DEF MemoryLimit
  <1>3. windows'[k] # None
    BY MemoryLimitKeeps
  <1>4. CASE k \in Known
    <2>1. \A j \in Subject : windows'[j] = None <=> windows[j] = None
      BY <1>1, <1>2, <1>3, <1>4 DEF Known
    <2>2. Known' = Known /\ opened' = Among(Known) /\ checked' \in 0..MaxChecks
      BY <1>1, <1>4, <2>1 DEF Known, MapInv
    <2> QED
      BY <1>1, <2>2, KeysGo
  <1>5. CASE k \notin Known
    <2>1. KeptKeys \subseteq Known /\ Cardinality(KeptKeys) < MaxKeys
      BY <1>1, RoomIsMade
    <2>2. opened' = Among(KeptKeys) \union (KeptKeys \X {k})
      BY <1>1, <1>5
    <2>3. \A j \in Subject : windows'[j] # None <=> j \in KeptKeys \union {k}
      <3>1. kept = KeptKeys
        BY <1>5
      <3> HIDE DEF kept, k
      <3> QED
        BY <1>1, <1>2, <1>3, <1>5, <2>1, <3>1 DEF Known
    <2>4. Known' = KeptKeys \union {k}
      BY <1>1, <2>1, <2>3 DEF Known
    <2> HIDE DEF k, kept
    <2> QED
      BY <1>1, <1>5, <2>1, <2>2, <2>4, KeyComes
  <1> QED
    BY <1>4, <1>5

LEMMA MapNext == RateLimitsAssumption /\ LimiterInv /\ MapInv /\ [LimiterNext]_limiterVars => MapInv'
  <1> SUFFICES ASSUME RateLimitsAssumption, LimiterInv, MapInv, [LimiterNext]_limiterVars PROVE MapInv'
    OBVIOUS
  <1>1. ASSUME UNCHANGED <<limiter, windows, opened>>, checked' \in 0..MaxChecks,
               faults' \in 0..MaxFaults, time' \in 0..LimiterHorizon
        PROVE  MapInv'
    <2>1. Known' = Known
      BY <1>1 DEF Known
    <2> QED
      BY <1>1, <2>1 DEF MapInv, MapIsSound, Before
  <1>2. ASSUME limiter # "memory", UNCHANGED <<limiter, opened, checked, time>>,
               faults' \in 0..MaxFaults
        PROVE  MapInv'
    BY <1>2 DEF MapInv
  <1>3. Fault => faults' \in 0..MaxFaults
    BY DEF Fault, MapInv, RateLimitsAssumption
  <1>4. ASSUME NEW c \in Caller, NEW op, NEW k, NEW cost, Ask(c, op, k, cost) PROVE MapInv'
    BY <1>1, <1>4 DEF Ask, MapInv, RateLimitsAssumption
  <1>5. ASSUME NEW c \in Caller, MemoryReset(c) PROVE MapInv'
    <2>1. checks[c].key \in Subject
      BY DEF LimiterInv, LimitTypes, Check
    <2>2. Known' = Known \ {checks[c].key} /\ opened' = Among(Known \ {checks[c].key})
      BY <1>5, <2>1 DEF MemoryReset, Known, LimiterInv, LimitTypes
    <2>3. UNCHANGED <<limiter, faults, time>> /\ checked' \in 0..MaxChecks
      BY <1>5 DEF MemoryReset, MapInv
    <2>4. Known \ {checks[c].key} \in SUBSET Known
      OBVIOUS
    <2> QED
      BY <2>2, <2>3, <2>4, KeysGo
  <1>6. ASSUME NEW c \in Caller,
               \/ NoopLimit(c) \/ ScriptRuns(c) \/ ResetRuns(c) \/ Answered(c)
               \/ SentAgain(c) \/ RedisError(c)
        PROVE  MapInv'
    BY <1>1, <1>2, <1>3, <1>6
       DEF NoopLimit, ScriptRuns, ResetRuns, Answered, SentAgain, RedisError, MapInv
  <1>7. CASE \E k \in Subject : Persist(k)
    BY <1>2, <1>3, <1>7 DEF Persist
  <1>8. CASE Passes
    BY <1>1, <1>8 DEF Passes, MapInv, RateLimitsAssumption
  <1>9. CASE UNCHANGED limiterVars
    BY <1>1, <1>9 DEF limiterVars, MapInv
  <1> QED
    BY <1>4, <1>5, <1>6, <1>7, <1>8, <1>9, LimitKeepsMap DEF LimiterNext

\* No window grants more than the limit, a caller that is denied and waits until the
\* resetAt it was told finds the window over, and no answer tells of more than the
\* grants have left, whoever calls, at whatever cost, and whatever redis does; and
\* the Map keeps its order and its cap.
THEOREM LimitsAreKept == RateLimitsAssumption /\ LimiterSpec => []WindowHolds
  <1> SUFFICES ASSUME RateLimitsAssumption PROVE LimiterSpec => []WindowHolds
    OBVIOUS
  <1>1. LimiterInit => LimiterInv /\ MapInv
    BY LimiterInvInit, MapInit
  <1>2. LimiterInv /\ MapInv /\ [LimiterNext]_limiterVars => LimiterInv' /\ MapInv'
    BY LimiterInvNext, MapNext
  <1>3. LimiterInv /\ MapInv => WindowHolds
    BY DEF LimiterInv, MapInv, LimitTypes, LimiterTypeOK, WindowHolds
  <1> QED
    BY <1>1, <1>2, <1>3, PTL DEF LimiterSpec

-----------------------------------------------------------------------------
(* Cookies: what a handler's last word on each name does to the next       *)
(* request, for any names and any values.                                  *)

\* While a request is handled: a name nobody was warned of has a pending Set-Cookie
\* that leaves it as the handler reads it, or none and the value it came with.
Foretold(n) ==
  IF n \in DOMAIN pending
  THEN /\ pending[n].expires => n \notin DOMAIN cookies /\ ~C!Oversized(pending[n])
       /\ ~pending[n].expires =>
            /\ n \in DOMAIN cookies /\ ~C!Oversized(pending[n])
            /\ C!Decoded(pending[n].wire) = cookies[n]
  ELSE /\ n \in DOMAIN cookies <=> n \in DOMAIN jar
       /\ n \in DOMAIN jar => cookies[n] = C!Decoded(jar[n])

CookiesInv ==
  /\ phase \in {"idle", "handling", "answered"}
  /\ phase = "handling" => \A n \in Cookie \ told : Foretold(n)
  /\ C!ReadsReflectWrites

LEMMA CookiesInit == C!Init => CookiesInv
  BY DEF C!Init, CookiesInv, C!ReadsReflectWrites

LEMMA ReceiveKeeps == CookiesInv /\ C!Receive => CookiesInv'
  <1> SUFFICES ASSUME C!Receive, NEW n \in Cookie PROVE Foretold(n)' /\ phase' = "handling"
    BY DEF CookiesInv, C!ReadsReflectWrites, C!Receive
  <1>1. /\ phase' = "handling" /\ pending' = <<>> /\ jar' = jar
        /\ cookies' = [m \in DOMAIN jar |-> C!Decoded(jar[m])]
    BY DEF C!Receive, C!ParseCookieHeader
  <1>2. DOMAIN pending' = {}
    BY <1>1
  <1> QED
    BY <1>1, <1>2 DEF Foretold

\* A handler that sets a cookie.
LEMMA HeaderSetKeeps ==
  ASSUME CookiesInv, NEW name \in Cookie, NEW value \in C!Values, NEW options \in C!Options,
         C!HeaderSet(name, value, options)
  PROVE  CookiesInv'
  <1> DEFINE set == C!SerializeCookie(value, options)
  <1>1. /\ phase = "handling" /\ phase' = "handling" /\ jar' = jar
        /\ cookies' = C!With(cookies, name, value)
        /\ pending' = IF set = None THEN pending ELSE C!With(pending, name, set)
        /\ told' = IF set = None \/ options = "expired" THEN told \union {name}
                   ELSE IF C!Oversized(set) THEN told \union {name} ELSE told \ {name}
    BY DEF C!HeaderSet
  <1>2. /\ DOMAIN cookies' = DOMAIN cookies \union {name} /\ cookies'[name] = value
        /\ \A m \in DOMAIN cookies : m # name => cookies'[m] = cookies[m]
    BY <1>1 DEF C!With
  <1>3. CASE set = None
    BY <1>1, <1>2, <1>3 DEF CookiesInv, Foretold, C!ReadsReflectWrites
  <1>4. CASE set # None
    <2>1. /\ DOMAIN pending' = DOMAIN pending \union {name} /\ pending'[name] = set
          /\ \A m \in DOMAIN pending : m # name => pending'[m] = pending[m]
      BY <1>1, <1>4 DEF C!With
    <2>2. set = [wire |-> C!Encoded(value), expires |-> options = "expired"]
      BY <1>4 DEF C!SerializeCookie
    <2>3. C!Encoded(value) = <<"encoded", value>>
      BY <1>4 DEF C!SerializeCookie, C!Encoded
    <2>4. C!Decoded(set.wire) = value
      BY <2>2, <2>3 DEF C!Decoded
    <2> HIDE DEF set
    <2>5. ASSUME NEW n \in Cookie \ told' PROVE Foretold(n)'
      <3>1. CASE n = name
        <4>1. options # "expired" /\ ~C!Oversized(set)
          BY <1>1, <1>4, <3>1, <2>5
        <4>2. ~set.expires
          BY <2>2, <4>1
        <4> QED
          BY <1>2, <2>1, <2>4, <3>1, <4>1, <4>2 DEF Foretold, C!Oversized
      <3>2. CASE n # name
        <4>1. n \notin told
          BY <1>1, <3>2, <2>5
        <4> QED
          BY <1>1, <1>2, <2>1, <3>2, <4>1 DEF CookiesInv, Foretold, C!Oversized
      <3> QED
        BY <3>1, <3>2
    <2> QED
      BY <1>1, <2>5 DEF CookiesInv, C!ReadsReflectWrites
  <1> QED
    BY <1>3, <1>4

LEMMA HeaderDeleteKeeps ==
  ASSUME CookiesInv, NEW name \in Cookie, NEW options \in C!Options,
         C!HeaderDelete(name, options)
  PROVE  CookiesInv'
  <1> DEFINE how == IF options = "refused" THEN options ELSE "expired"
             set == C!SerializeCookie(Plain, how)
  <1>1. /\ phase = "handling" /\ phase' = "handling" /\ jar' = jar
        /\ cookies' = [n \in DOMAIN cookies \ {name} |-> cookies[n]]
        /\ pending' = IF set = None THEN pending ELSE C!With(pending, name, set)
        /\ told' = IF set = None THEN told \union {name} ELSE told \ {name}
    BY DEF C!HeaderDelete
  <1>2. CASE set = None
    BY <1>1, <1>2 DEF CookiesInv, Foretold, C!ReadsReflectWrites
  <1>3. CASE set # None
    <2>1. /\ DOMAIN pending' = DOMAIN pending \union {name} /\ pending'[name] = set
          /\ \A m \in DOMAIN pending : m # name => pending'[m] = pending[m]
      BY <1>1, <1>3 DEF C!With
    <2>2. set.expires /\ set.wire = <<"encoded", Plain>>
      <3>1. how = "expired"
        BY <1>3 DEF C!SerializeCookie
      <3> QED
        BY <1>3, <3>1 DEF C!SerializeCookie, C!Encoded
    <2>3. ~C!Oversized(set)
      BY <2>2, ServingAssumption DEF C!CookiesAssumption, C!Oversized
    <2> HIDE DEF set
    <2>4. ASSUME NEW n \in Cookie \ told' PROVE Foretold(n)'
      <3>1. CASE n = name
        BY <1>1, <2>1, <2>2, <2>3, <3>1 DEF Foretold, C!Oversized
      <3>2. CASE n # name
        <4>1. n \notin told
          BY <1>1, <1>3, <3>2, <2>4
        <4> QED
          BY <1>1, <2>1, <3>2, <4>1 DEF CookiesInv, Foretold, C!Oversized
      <3> QED
        BY <3>1, <3>2
    <2> QED
      BY <1>1, <2>4 DEF CookiesInv, C!ReadsReflectWrites
  <1> QED
    BY <1>2, <1>3

\* The browser applies what was foretold.
LEMMA RespondKeeps == CookiesInv /\ C!Respond => CookiesInv'
  <1> SUFFICES ASSUME CookiesInv, C!Respond PROVE CookiesInv'
    OBVIOUS
  <1>1. /\ phase = "handling" /\ phase' = "answered"
        /\ jar' = C!Kept(jar, pending) /\ cookies' = cookies /\ told' = told
    BY DEF C!Respond
  <1> DEFINE fits == {n \in DOMAIN pending : ~C!Oversized(pending[n])}
             gone == {n \in fits : pending[n].expires}
  <1>2. jar' = [n \in (DOMAIN jar \union fits) \ gone |->
                  IF n \in fits THEN pending[n].wire ELSE jar[n]]
    BY <1>1 DEF C!Kept
  <1>3. ASSUME NEW n \in Cookie \ told
        PROVE  /\ n \in DOMAIN jar' <=> n \in DOMAIN cookies
               /\ n \in DOMAIN jar' => C!Decoded(jar'[n]) = cookies[n]
    <2>1. Foretold(n)
      BY <1>1, <1>3 DEF CookiesInv
    <2> QED
      BY <1>2, <2>1 DEF Foretold
  <1> QED
    BY <1>1, <1>3 DEF CookiesInv, C!ReadsReflectWrites, C!ParseCookieHeader

LEMMA CookiesNext == CookiesInv /\ [C!Next]_cookieVars => CookiesInv'
  <1> SUFFICES ASSUME CookiesInv, [C!Next]_cookieVars PROVE CookiesInv'
    OBVIOUS
  <1>1. CASE UNCHANGED cookieVars
    BY <1>1 DEF cookieVars, CookiesInv, Foretold, C!ReadsReflectWrites, C!ParseCookieHeader,
                C!Oversized, C!Decoded
  <1>2. ASSUME NEW written, C!OnThePage(written) PROVE CookiesInv'
    BY <1>2 DEF C!OnThePage, CookiesInv, C!ReadsReflectWrites
  <1>3. ASSUME NEW n \in Cookie, NEW v \in C!Values, NEW o \in C!Options,
               C!HeaderSet(n, v, o) \/ C!DocumentSet(n, v, o)
        PROVE  CookiesInv'
    BY <1>2, <1>3, HeaderSetKeeps DEF C!DocumentSet
  <1>4. ASSUME NEW n \in Cookie, NEW o \in C!Options, C!HeaderDelete(n, o) PROVE CookiesInv'
    BY <1>4, HeaderDeleteKeeps
  <1>5. ASSUME NEW n \in Cookie, C!DocumentDelete(n) \/ C!ForeignWrite(n) PROVE CookiesInv'
    BY <1>2, <1>5 DEF C!DocumentDelete, C!ForeignWrite
  <1> QED
    BY <1>1, <1>3, <1>4, <1>5, ReceiveKeeps, RespondKeeps DEF C!Next

-----------------------------------------------------------------------------
(* Lists, for any rows and limits: what a filter says survives the URL,    *)
(* and a walk along the cursors misses no row.                             *)

\* Filtering's sizes and finite sets are those of FiniteSets.
LEMMA SameSizes ==
  \A R : L!Cardinality(R) = Cardinality(R) /\ (L!IsFiniteSet(R) <=> IsFiniteSet(R))
  BY Zenon DEF L!Cardinality, Cardinality, L!IsFiniteSet, IsFiniteSet

\* How many of R come up to r.
Rank(R, r) == Cardinality({x \in R : x <= r})

LEMMA RankIsTyped ==
  ASSUME NEW R \in SUBSET Nat, IsFiniteSet(R), NEW r
  PROVE  /\ IsFiniteSet({x \in R : x <= r}) /\ Rank(R, r) \in Nat
         /\ Rank(R, r) <= Cardinality(R)
  <1>1. {x \in R : x <= r} \in SUBSET R
    OBVIOUS
  <1> QED
    BY <1>1, FS_Subset, FS_CardinalityType DEF Rank

\* Of two rows the later one has the higher rank.
LEMMA RanksRise ==
  ASSUME NEW R \in SUBSET Nat, IsFiniteSet(R), NEW q \in R, NEW r \in R, q < r
  PROVE  Rank(R, q) < Rank(R, r)
  <1> DEFINE low == {x \in R : x <= q}
             high == {x \in R : x <= r}
  <1>1. IsFiniteSet(high) /\ Cardinality(low) \in Nat /\ Cardinality(high) \in Nat
    <2>1. IsFiniteSet(low) /\ Rank(R, q) \in Nat
      BY RankIsTyped
    <2>2. IsFiniteSet(high) /\ Rank(R, r) \in Nat
      BY RankIsTyped
    <2>3. Rank(R, q) = Cardinality(low) /\ Rank(R, r) = Cardinality(high)
      BY Zenon DEF Rank
    <2> HIDE DEF low, high
    <2> QED
      BY <2>1, <2>2, <2>3
  <1>2. low \in SUBSET high
    <2>1. q \in Nat /\ r \in Nat /\ \A x \in R : x \in Nat
      OBVIOUS
    <2>2. \A x \in R : x <= q => x <= r
      BY <2>1
    <2> QED
      BY <2>2
  <1>3. Cardinality(low) <= Cardinality(high) /\ (Cardinality(high) = Cardinality(low) => high = low)
    BY <1>1, <1>2, FS_Subset
  <1>4. high # low
    <2>1. r \in high /\ r \notin low
      OBVIOUS
    <2> QED
      BY <2>1
  <1> HIDE DEF low, high
  <1>5. Cardinality(low) < Cardinality(high)
    BY <1>1, <1>3, <1>4
  <1> QED
    BY <1>5 DEF low, high, Rank

\* An increasing sequence that goes through R has as many elements, and the one at
\* each place is the one whose rank that is.
LEMMA RankOfPlace ==
  ASSUME NEW R \in SUBSET Nat, NEW n \in Nat, NEW s \in [1..n -> R], L!Increasing(s),
         \A r \in R : \E i \in 1..n : s[i] = r
  PROVE  /\ IsFiniteSet(R) /\ Cardinality(R) = n
         /\ \A i \in 1..n : Rank(R, s[i]) = i
  <1>0. /\ \A i \in 1..n : s[i] \in Nat
        /\ \A i, j \in 1..n : i < j => s[i] < s[j]
    BY DEF L!Increasing
  <1>1. \A i, j \in 1..n : s[i] = s[j] => i = j
    <2> SUFFICES ASSUME NEW i \in 1..n, NEW j \in 1..n, i # j PROVE s[i] # s[j]
      OBVIOUS
    <2>1. i < j \/ j < i
      OBVIOUS
    <2> QED
      BY <1>0, <2>1
  <1>2. s \in Bijection(1..n, R)
    BY <1>1, Fun_IsBij
  <1>3. ExistsBijection(1..n, R)
    BY <1>2 DEF ExistsBijection
  <1>4. IsFiniteSet(R) /\ Cardinality(R) = n
    BY <1>3, FS_CountingElements, FS_NatBijection
  <1>5. ASSUME NEW i \in 1..n PROVE Rank(R, s[i]) = i
    <2> DEFINE low == {x \in R : x <= s[i]}
               f == [j \in 1..i |-> s[j]]
    <2>1. ASSUME NEW j \in 1..n PROVE s[j] <= s[i] <=> j <= i
      <3>1. j < i \/ j = i \/ i < j
        OBVIOUS
      <3> QED
        BY <1>0, <3>1
    <2>2. f \in [1..i -> low]
      BY <2>1
    <2>3. \A r \in low : \E j \in 1..i : f[j] = r
      BY <2>1
    <2>4. \A j, k \in 1..i : f[j] = f[k] => j = k
      BY <1>1
    <2> HIDE DEF f, low
    <2>5. f \in Bijection(1..i, low)
      BY <2>2, <2>3, <2>4, Fun_IsBij
    <2>6. ExistsBijection(1..i, low)
      BY <2>5 DEF ExistsBijection
    <2> QED
      BY <2>6, FS_CountingElements DEF Rank, low
  <1> QED
    BY <1>4, <1>5

\* There is just one such sequence, the one that lists R in its order.
LEMMA AscendingIs ==
  ASSUME NEW R \in SUBSET Nat, IsFiniteSet(R)
  PROVE  /\ Cardinality(R) \in Nat /\ L!Ascending(R) \in [1..Cardinality(R) -> R]
         /\ L!Increasing(L!Ascending(R))
         /\ \A r \in R : \E i \in 1..Cardinality(R) : L!Ascending(R)[i] = r
  <1> DEFINE n == Cardinality(R)
             rank == [r \in R |-> Rank(R, r)]
             inverse == [i \in 1..n |-> CHOOSE r \in R : Rank(R, r) = i]
  <1>1. n \in Nat /\ IsFiniteSet(1..n) /\ Cardinality(1..n) = n
    BY FS_CardinalityType, FS_Interval
  <1>2. \A q, r \in R : q < r => Rank(R, q) < Rank(R, r)
    BY RanksRise
  <1>3. \A r \in R : Rank(R, r) \in 1..n
    <2> SUFFICES ASSUME NEW r \in R PROVE Rank(R, r) \in 1..n
      OBVIOUS
    <2>1. r \in {x \in R : x <= r}
      OBVIOUS
    <2>2. /\ IsFiniteSet({x \in R : x <= r}) /\ Rank(R, r) \in Nat
          /\ Rank(R, r) <= n
      BY RankIsTyped
    <2>3. Rank(R, r) # 0
      BY <2>1, <2>2, FS_EmptySet, Zenon DEF Rank
    <2> HIDE DEF n
    <2> QED
      BY <1>1, <2>2, <2>3
  <1>4. \A q, r \in R : Rank(R, q) = Rank(R, r) => q = r
    <2> SUFFICES ASSUME NEW q \in R, NEW r \in R, Rank(R, q) = Rank(R, r) PROVE q = r
      OBVIOUS
    <2>1. ~(q < r) /\ ~(r < q) /\ q \in Nat /\ r \in Nat
      BY <1>2, <1>3
    <2> QED
      BY <2>1
  <1>5. rank \in Injection(R, 1..n)
    BY <1>3, <1>4, Fun_IsInj
  <1>6. rank \in Surjection(R, 1..n)
    BY <1>1, <1>5, FS_Injection
  <1>7. \A i \in 1..n : \E r \in R : Rank(R, r) = i
    BY <1>6 DEF Surjection
  <1>8. \A i \in 1..n : inverse[i] \in R /\ Rank(R, inverse[i]) = i
    BY <1>7
  <1>9. inverse \in [1..n -> R]
    BY <1>8
  <1> HIDE DEF n, rank, inverse
  <1>10. L!Increasing(inverse)
    <2> SUFFICES ASSUME NEW i \in 1..n, NEW j \in 1..n, i < j PROVE inverse[i] < inverse[j]
      BY <1>9 DEF L!Increasing
    <2>1. inverse[i] \in R /\ inverse[j] \in R /\ inverse[i] \in Nat /\ inverse[j] \in Nat
      BY <1>8
    <2>2. ~(inverse[j] < inverse[i]) /\ inverse[i] # inverse[j]
      BY <2>1, <1>1, <1>2, <1>8
    <2> QED
      BY <2>1, <2>2
  <1>11. L!Ascending(R) \in [1..n -> R] /\ L!Increasing(L!Ascending(R))
    <2>1. inverse \in [1..n -> R] /\ L!Increasing(inverse)
      BY <1>9, <1>10
    <2>2. \E s \in [1..n -> R] : L!Increasing(s)
      BY <2>1
    <2>3. L!Ascending(R) = CHOOSE s \in [1..n -> R] : L!Increasing(s)
      BY SameSizes, Zenon DEF L!Ascending, n
    <2> QED
      BY <2>2, <2>3, Zenon
  <1>12. ASSUME NEW i \in 1..n, NEW j \in 1..n, L!Ascending(R)[i] = L!Ascending(R)[j] PROVE i = j
    <2>1. \A k, l \in 1..n : k < l => L!Ascending(R)[k] < L!Ascending(R)[l]
      BY <1>11 DEF L!Increasing
    <2>2. L!Ascending(R)[i] \in Nat
      BY <1>11
    <2>3. ~(i < j) /\ ~(j < i)
      BY <1>12, <2>1, <2>2
    <2> QED
      BY <1>1, <2>3
  <1>13. L!Ascending(R) \in Injection(1..n, R)
    BY <1>11, <1>12, Fun_IsInj
  <1>14. L!Ascending(R) \in Surjection(1..n, R)
    BY <1>1, <1>13, FS_Injection DEF n
  <1> QED
    BY <1>1, <1>11, <1>14 DEF Surjection, n

LEMMA AscendingIsOnly ==
  ASSUME NEW R \in SUBSET Nat, NEW n \in Nat, NEW s \in [1..n -> R], L!Increasing(s),
         \A r \in R : \E i \in 1..n : s[i] = r
  PROVE  IsFiniteSet(R) /\ Cardinality(R) = n /\ L!Ascending(R) = s
  <1> DEFINE a == L!Ascending(R)
  <1>1. IsFiniteSet(R) /\ Cardinality(R) = n /\ \A i \in 1..n : Rank(R, s[i]) = i
    BY RankOfPlace
  <1>2. a \in [1..n -> R] /\ L!Increasing(a) /\ \A r \in R : \E i \in 1..n : a[i] = r
    BY <1>1, AscendingIs
  <1> HIDE DEF a
  <1>3. \A i \in 1..n : Rank(R, a[i]) = i
    BY <1>2, RankOfPlace
  <1>4. ASSUME NEW i \in 1..n PROVE a[i] = s[i]
    <2>1. a[i] \in R /\ s[i] \in R /\ a[i] \in Nat /\ s[i] \in Nat
      BY <1>2
    <2>2. Rank(R, a[i]) = i /\ Rank(R, s[i]) = i
      BY <1>1, <1>3
    <2>3. \A q, r \in R : q < r => Rank(R, q) < Rank(R, r)
      BY <1>1, RanksRise
    <2>4. ~(a[i] < s[i]) /\ ~(s[i] < a[i])
      BY <2>1, <2>2, <2>3
    <2> QED
      BY <2>1, <2>4
  <1>5. a = s
    BY <1>2, <1>4
  <1> QED
    BY <1>1, <1>5 DEF a

\* What a walk has been given so far; the filter asks for what comes after it.
FilterFits ==
  /\ filter = [x \in L!Fields |-> filter[x]]
  /\ filter["limit"] \in Limits \union {None}
  /\ filter["cursor"] \in Row \union {None}

WalkFits ==
  /\ rows \in SUBSET Row /\ seen \in Seq(Row) /\ walking \in BOOLEAN
  /\ Len(seen) <= Cardinality(rows)
  /\ \A i \in 1..Len(seen) : seen[i] = L!Ascending(rows)[i]
  /\ filter["cursor"] = IF seen = <<>> THEN None ELSE seen[Len(seen)]
  /\ ~walking => Len(seen) = Cardinality(rows)
  /\ walking /\ page # None =>
       /\ page.data # <<>> /\ Len(page.data) <= page.limit
       /\ page.previousCursor < Head(page.data)

ListInv == FilterFits /\ WalkFits

Read == L!ExtractQueryFilter(L!ToSearchParams(filter))

\* A filter is read as it was written, but for its limit.
LEMMA FilterIsRead ==
  ASSUME FilterFits
  PROVE  /\ Read["cursor"] = filter["cursor"] /\ Read["limit"] \in 1..MaxLimit
         /\ L!FiltersTravel
  <1>1. /\ Limits \subseteq Nat /\ MaxLimit \in Nat /\ DefaultLimit \in 1..MaxLimit
        /\ Row \subseteq Nat \ {0} /\ None \notin Row
    BY ServingAssumption DEF L!FilteringAssumption
  <1> DEFINE set == {x \in L!Fields : filter[x] # None}
             params == L!ToSearchParams(filter)
  <1>2. DOMAIN params = set /\ \A x \in set : params[x] = L!Written(x, filter[x])
    BY DEF L!ToSearchParams
  <1>3. \A x \in set \ {"limit"} : L!Parse(x, L!Written(x, filter[x])) = filter[x]
    BY <1>1 DEF L!Parse, L!Written, L!ParseDate, L!ParseBool, L!ParseSort, L!ParseCursor, FilterFits,
                L!Fields
  <1>4. filter["limit"] # None =>
          /\ "limit" \in set
          /\ L!Parse("limit", params["limit"])
               = IF filter["limit"] > MaxLimit THEN MaxLimit ELSE filter["limit"]
    <2> SUFFICES ASSUME filter["limit"] # None
                 PROVE  /\ "limit" \in set
                        /\ L!Parse("limit", params["limit"])
                             = IF filter["limit"] > MaxLimit THEN MaxLimit ELSE filter["limit"]
      OBVIOUS
    <2>1. "limit" \in set
      BY DEF L!Fields
    <2>2. params["limit"] = <<"number", filter["limit"]>>
      BY <1>2, <2>1 DEF L!Written
    <2>3. filter["limit"] \in Nat
      BY <1>1 DEF FilterFits
    <2> HIDE DEF params, set
    <2>4. L!Parse("limit", params["limit"]) = L!ParseLimit(params["limit"])
      BY DEF L!Parse
    <2> QED
      BY <2>1, <2>2, <2>3, <2>4 DEF L!ParseLimit
  <1> HIDE DEF params
  <1>5. ASSUME NEW base
        PROVE  LET f == L!QueryFilterFromSearchParams(params, base)
               IN  /\ f = [x \in L!Fields |-> f[x]]
                   /\ \A x \in L!Fields \ {"limit"} :
                        f[x] = IF filter[x] # None THEN filter[x] ELSE base[x]
                   /\ f["limit"] = IF filter["limit"] = None THEN base["limit"]
                                   ELSE IF L!Parse("limit", params["limit"]) = None THEN base["limit"]
                                   ELSE L!Parse("limit", params["limit"])
    <2>1. \A x \in L!Fields :
            L!QueryFilterFromSearchParams(params, base)[x] =
              IF x \in set THEN IF L!Parse(x, params[x]) # None THEN L!Parse(x, params[x]) ELSE base[x]
              ELSE base[x]
      BY <1>2 DEF L!QueryFilterFromSearchParams
    <2>2. "limit" \in L!Fields
      BY DEF L!Fields
    <2>3. L!QueryFilterFromSearchParams(params, base)
            = [x \in L!Fields |-> L!QueryFilterFromSearchParams(params, base)[x]]
      BY DEF L!QueryFilterFromSearchParams
    <2>4. \A x \in L!Fields \ {"limit"} :
            L!QueryFilterFromSearchParams(params, base)[x]
              = IF filter[x] # None THEN filter[x] ELSE base[x]
      BY <1>2, <1>3, <2>1
    <2>5. L!QueryFilterFromSearchParams(params, base)["limit"]
            = IF filter["limit"] = None THEN base["limit"]
              ELSE IF L!Parse("limit", params["limit"]) = None THEN base["limit"]
              ELSE L!Parse("limit", params["limit"])
      BY <2>1, <2>2
    <2> QED
      BY <2>3, <2>4, <2>5
  <1>6. /\ Read["cursor"] = filter["cursor"] /\ Read["limit"] \in 1..MaxLimit
    <2> DEFINE f == L!QueryFilterFromSearchParams(params, L!DefaultQueryFilter)
    <2>1. Read = IF f["limit"] = 0 THEN [f EXCEPT !["limit"] = DefaultLimit] ELSE f
      BY DEF Read, L!ExtractQueryFilter, params
    <2>2. L!DefaultQueryFilter["cursor"] = None /\ L!DefaultQueryFilter["limit"] = DefaultLimit
      BY DEF L!DefaultQueryFilter, L!EmptyFilter, L!Fields
    <2>3. f = [x \in L!Fields |-> f[x]] /\ f["cursor"] = filter["cursor"]
      BY <1>5, <2>2 DEF L!Fields
    <2>4. f["limit"] \in 0..MaxLimit
      <3>1. CASE filter["limit"] = None
        BY <1>1, <1>5, <2>2, <3>1
      <3>2. CASE filter["limit"] # None
        <4>1. filter["limit"] \in Nat
          BY <1>1, <3>2 DEF FilterFits
        <4> QED
          BY <1>1, <1>4, <1>5, <2>2, <3>2, <4>1
      <3> QED
        BY <3>1, <3>2
    <2> HIDE DEF f
    <2> QED
      BY <1>1, <2>1, <2>3, <2>4 DEF L!Fields
  <1>7. L!FiltersTravel
    <2> DEFINE f == L!QueryFilterFromSearchParams(params, L!EmptyFilter)
               junk == [x \in L!Fields \ {"cursor"} |-> <<"text", 0>>]
    <2>1. \A x \in L!Fields : L!EmptyFilter[x] = None
      BY DEF L!EmptyFilter
    <2>2. \A x \in L!Fields \ {"limit"} : f[x] = filter[x]
      BY <1>5, <2>1
    <2>3. filter["limit"] # None =>
            f["limit"] = IF filter["limit"] > MaxLimit THEN MaxLimit ELSE filter["limit"]
      BY <1>4, <1>5, <2>1 DEF L!Fields
    <2>4. L!QueryFilterFromSearchParams(junk, filter) = filter
      <3>1. \A x \in L!Fields \ {"cursor"} : L!Parse(x, junk[x]) = None
        BY DEF L!Parse, L!ParseLimit, L!ParseDate, L!ParseBool, L!ParseSort, L!Fields
      <3>2. L!QueryFilterFromSearchParams(junk, filter) = [x \in L!Fields |-> filter[x]]
        BY <3>1 DEF L!QueryFilterFromSearchParams
      <3> QED
        BY <3>2 DEF FilterFits
    <2> QED
      BY <1>6, <2>2, <2>3, <2>4 DEF L!FiltersTravel, Read, params
  <1> QED
    BY <1>6, <1>7

\* The rows after the k-th are the rest of the list.
LEMMA RestOfList ==
  ASSUME NEW R \in SUBSET Nat, IsFiniteSet(R), NEW k \in 0..Cardinality(R), NEW cursor,
         IF k = 0 THEN cursor = None
         ELSE cursor # None /\ cursor = L!Ascending(R)[k]
  PROVE  L!Ascending({r \in R : cursor = None \/ r > cursor})
           = [i \in 1..Cardinality(R) - k |-> L!Ascending(R)[k + i]]
  <1> DEFINE n == Cardinality(R)
             a == L!Ascending(R)
             rest == {r \in R : cursor = None \/ r > cursor}
             s == [i \in 1..n - k |-> a[k + i]]
  <1>1. n \in Nat /\ k \in 0..n /\ a \in [1..n -> R] /\ \A r \in R : \E i \in 1..n : a[i] = r
    BY AscendingIs
  <1>2. \A i, j \in 1..n : i < j => a[i] < a[j]
    BY <1>1, AscendingIs DEF L!Increasing
  <1> HIDE DEF n, a
  <1>3. \A i \in 1..n : a[i] \in rest <=> i > k
    <2> SUFFICES ASSUME NEW i \in 1..n PROVE a[i] \in rest <=> i > k
      OBVIOUS
    <2>1. a[i] \in R /\ a[i] \in Nat
      BY <1>1
    <2>2. CASE k = 0
      BY <1>1, <2>1, <2>2
    <2>3. CASE k # 0
      <3>1. k \in 1..n /\ cursor # None /\ cursor = a[k] /\ a[k] \in Nat
        <4>1. cursor # None /\ cursor = a[k]
          BY <2>3 DEF a
        <4>2. k \in 1..n
          BY <1>1, <2>3
        <4>3. a[k] \in R
          BY <1>1, <4>2
        <4> QED
          BY <4>1, <4>2, <4>3
      <3>2. i < k \/ i = k \/ k < i
        BY <1>1, <3>1
      <3> QED
        BY <1>2, <2>1, <3>1, <3>2
    <2> QED
      BY <2>2, <2>3
  <1>4. n - k \in Nat /\ \A i \in 1..n - k : k + i \in 1..n
    BY <1>1
  <1>5. s \in [1..n - k -> rest]
    BY <1>1, <1>3, <1>4
  <1>6. L!Increasing(s)
    BY <1>1, <1>2, <1>4 DEF L!Increasing
  <1>7. \A r \in rest : \E i \in 1..n - k : s[i] = r
    <2> SUFFICES ASSUME NEW r \in rest PROVE \E i \in 1..n - k : s[i] = r
      OBVIOUS
    <2>1. PICK j \in 1..n : a[j] = r
      BY <1>1
    <2>2. j > k
      BY <1>3, <2>1
    <2>3. j - k \in 1..n - k /\ k + (j - k) = j
      BY <1>1, <2>2
    <2> QED
      BY <2>1, <2>3
  <1>8. rest \in SUBSET Nat
    OBVIOUS
  <1> HIDE DEF rest, s
  <1>9. L!Ascending(rest) = s
    BY <1>4, <1>5, <1>6, <1>7, <1>8, AscendingIsOnly
  <1> QED
    BY <1>9 DEF rest, s, n, a

\* The page is the next part of the list.
LEMMA PageIsNext ==
  ASSUME ListInv
  PROVE  LET n == Cardinality(rows)
             k == Len(seen)
             data == L!Query(Read)
             m == IF n - k < Read["limit"] THEN n - k ELSE Read["limit"]
         IN  /\ n \in Nat /\ k \in 0..n /\ m \in 0..n - k /\ (m = 0 => k = n)
             /\ data \in Seq(Row) /\ Len(data) = m
             /\ \A i \in 1..m : data[i] = L!Ascending(rows)[k + i]
  <1> DEFINE n == Cardinality(rows)
             k == Len(seen)
             a == L!Ascending(rows)
             rest == [i \in 1..n - k |-> a[k + i]]
             m == IF n - k < Read["limit"] THEN n - k ELSE Read["limit"]
  <1>1. rows \in SUBSET Row /\ rows \in SUBSET Nat /\ Row \subseteq Nat /\ None \notin Row
    BY ServingAssumption DEF L!FilteringAssumption, ListInv, WalkFits
  <1>2. IsFiniteSet(rows)
    BY <1>1, SameSizes, ServingAssumption, FS_Subset DEF L!FilteringAssumption
  <1>3. /\ n \in Nat /\ k \in 0..n /\ a \in [1..n -> rows]
    <2>1. n \in Nat /\ a \in [1..n -> rows]
      BY <1>1, <1>2, AscendingIs
    <2> QED
      BY <2>1 DEF ListInv, WalkFits
  <1>4. Read["cursor"] = filter["cursor"] /\ Read["limit"] \in 1..MaxLimit /\ MaxLimit \in Nat
    BY FilterIsRead, ServingAssumption DEF ListInv, L!FilteringAssumption
  <1>5. IF k = 0 THEN Read["cursor"] = None ELSE Read["cursor"] # None /\ Read["cursor"] = a[k]
    <2>1. CASE seen = <<>>
      BY <1>4, <2>1 DEF ListInv, WalkFits
    <2>2. CASE seen # <<>>
      <3>1. k \in 1..n /\ seen[k] = a[k] /\ filter["cursor"] = seen[k]
        BY <1>3, <2>2 DEF ListInv, WalkFits
      <3>2. a[k] \in rows
        BY <1>3, <3>1
      <3> HIDE DEF k, a, n
      <3>3. k # 0
        BY <1>3, <3>1
      <3>4. a[k] # None
        BY <1>1, <3>2
      <3>5. Read["cursor"] = a[k]
        BY <1>4, <3>1
      <3> QED
        BY <3>3, <3>4, <3>5
    <2> QED
      BY <2>1, <2>2
  <1>6. L!Ascending({r \in rows : Read["cursor"] = None \/ r > Read["cursor"]}) = rest
    <2> HIDE DEF k
    <2>1. /\ k \in 0..Cardinality(rows)
          /\ IF k = 0 THEN Read["cursor"] = None
             ELSE Read["cursor"] # None /\ Read["cursor"] = L!Ascending(rows)[k]
      BY <1>3, <1>5
    <2>2. rows \in SUBSET Nat
      BY <1>1
    <2> HIDE DEF n, a, rest
    <2>3. ASSUME NEW cursor,
                 IF k = 0 THEN cursor = None
                 ELSE cursor # None /\ cursor = L!Ascending(rows)[k]
          PROVE  L!Ascending({r \in rows : cursor = None \/ r > cursor})
                   = [i \in 1..Cardinality(rows) - k |-> L!Ascending(rows)[k + i]]
      BY <1>2, <2>1, <2>2, <2>3, RestOfList, Zenon
    <2> QED
      BY <2>1, <2>3, Zenon DEF rest, n, a
  <1>7. rest \in Seq(Row) /\ Len(rest) = n - k /\ \A i \in 1..n - k : rest[i] = a[k + i]
    <2>1. n - k \in Nat /\ \A i \in 1..n - k : k + i \in 1..n
      BY <1>3
    <2>2. \A i \in 1..n - k : a[k + i] \in Row
      BY <1>1, <1>3, <2>1
    <2> HIDE DEF a, n, k
    <2> QED
      BY <2>1, <2>2
  <1>8. m \in 0..n - k /\ (m = 0 => k = n)
    BY <1>3, <1>4
  <1>9. L!Query(Read) = SubSeq(rest, 1, m)
    BY <1>6, <1>7 DEF L!Query
  <1> HIDE DEF rest, m, n, k, a
  <1>10. /\ SubSeq(rest, 1, m) \in Seq(Row) /\ Len(SubSeq(rest, 1, m)) = m
         /\ \A i \in 1..m : SubSeq(rest, 1, m)[i] = rest[i]
    <2>1. \A i \in 1..m : rest[i] \in Row
      BY <1>3, <1>7, <1>8
    <2> QED
      BY <1>3, <1>8, <2>1, SubSeqProperties
  <1> QED
    BY <1>3, <1>7, <1>8, <1>9, <1>10 DEF m, n, k, a

LEMMA ListInit == L!Init => ListInv
  <1> SUFFICES ASSUME L!Init PROVE ListInv
    OBVIOUS
  <1>1. /\ rows \in SUBSET Row /\ page = None /\ seen = <<>> /\ walking = TRUE
    BY DEF L!Init
  <1>2. FilterFits /\ filter["cursor"] = None
    <2>1. PICK l \in Limits \union {None} :
            /\ filter = [x \in L!Fields |-> filter[x]]
            /\ filter["limit"] = l /\ filter["cursor"] = None
      BY DEF L!Init, L!EmptyFilter, L!Fields
    <2> QED
      BY <2>1 DEF FilterFits
  <1>3. Cardinality(rows) \in Nat
    <2>1. IsFiniteSet(Row)
      BY SameSizes, ServingAssumption DEF L!FilteringAssumption
    <2> QED
      BY <1>1, <2>1, FS_Subset, FS_CardinalityType
  <1> QED
    BY <1>1, <1>2, <1>3 DEF ListInv, WalkFits

LEMMA FetchKeeps == ListInv /\ L!Fetch => ListInv'
  <1> SUFFICES ASSUME ListInv, L!Fetch PROVE ListInv'
    OBVIOUS
  <1> DEFINE n == Cardinality(rows)
             k == Len(seen)
             a == L!Ascending(rows)
             data == L!Query(Read)
             m == IF n - k < Read["limit"] THEN n - k ELSE Read["limit"]
             answer == L!NewQueryFilteredResult(data, Read)
  <1>1. /\ n \in Nat /\ k \in 0..n /\ m \in 0..n - k /\ (m = 0 => k = n)
        /\ data \in Seq(Row) /\ Len(data) = m /\ \A i \in 1..m : data[i] = a[k + i]
    BY PageIsNext
  <1>2. /\ walking /\ page' = answer /\ seen' = seen \o answer.data
        /\ walking' = (answer.cursor # 0) /\ rows' = rows
        /\ filter' = [filter EXCEPT !["cursor"] = IF answer.cursor = 0 THEN @ ELSE answer.cursor]
    BY DEF L!Fetch, Read
  <1>3. /\ answer.data = data /\ answer.limit = Read["limit"]
        /\ answer.cursor = IF data = <<>> THEN 0 ELSE data[Len(data)]
        /\ answer.previousCursor = IF Read["cursor"] = None THEN 0 ELSE Read["cursor"]
    BY DEF L!NewQueryFilteredResult
  <1>4. /\ Row \subseteq Nat \ {0} /\ None \notin Row /\ rows \in SUBSET Row
        /\ seen \in Seq(Row) /\ \A i \in 1..k : seen[i] = a[i]
        /\ filter["cursor"] = IF seen = <<>> THEN None ELSE seen[Len(seen)]
        /\ FilterFits
    BY ServingAssumption DEF L!FilteringAssumption, ListInv, WalkFits
  <1>5. Read["cursor"] = filter["cursor"] /\ Read["limit"] \in 1..MaxLimit /\ MaxLimit \in Nat
    BY FilterIsRead, ServingAssumption DEF ListInv, L!FilteringAssumption
  <1>6. /\ a \in [1..n -> rows] /\ \A i, j \in 1..n : i < j => a[i] < a[j]
    <2>1. IsFiniteSet(rows) /\ rows \in SUBSET Nat
      BY <1>4, SameSizes, ServingAssumption, FS_Subset DEF L!FilteringAssumption
    <2> QED
      BY <2>1, AscendingIs DEF L!Increasing
  <1> HIDE DEF n, k, a, data, m, answer
  <1>7. /\ seen' \in Seq(Row) /\ Len(seen') = k + m
        /\ \A i \in 1..k + m : seen'[i] = a[i]
    <2>1. /\ seen' \in Seq(Row) /\ Len(seen') = k + m
          /\ \A i \in 1..k + m : seen'[i] = IF i <= k THEN seen[i] ELSE data[i - k]
      <3>1. seen' = seen \o data /\ Len(seen) = k /\ Len(data) = m
        BY <1>1, <1>2, <1>3 DEF k
      <3>2. /\ seen \o data \in Seq(Row) /\ Len(seen \o data) = Len(seen) + Len(data)
            /\ \A i \in 1..Len(seen) + Len(data) :
                 (seen \o data)[i] = IF i <= Len(seen) THEN seen[i] ELSE data[i - Len(seen)]
        <4>1. seen \in Seq(Row) /\ data \in Seq(Row)
          BY <1>1, <1>4
        <4> QED
          BY <4>1, ConcatProperties
      <3>3. /\ seen \o data \in Seq(Row) /\ Len(seen \o data) = k + m
            /\ \A i \in 1..k + m :
                 (seen \o data)[i] = IF i <= k THEN seen[i] ELSE data[i - k]
        BY <3>1, <3>2, Zenon
      <3> QED
        BY <3>1, <3>3, Zenon
    <2> SUFFICES ASSUME NEW i \in 1..k + m PROVE seen'[i] = a[i]
      BY <2>1
    <2>2. CASE i <= k
      <3>1. i \in 1..k
        BY <1>1, <2>2
      <3> QED
        BY <1>4, <2>1, <2>2, <3>1
    <2>3. CASE i > k
      <3>1. i - k \in 1..m /\ k + (i - k) = i
        BY <1>1, <2>3
      <3> QED
        BY <1>1, <2>1, <2>3, <3>1
    <2> QED
      BY <1>1, <2>2, <2>3
  <1>8. CASE m = 0
    <2>1. data = <<>> /\ answer.cursor = 0 /\ k = n
      BY <1>1, <1>3, <1>8
    <2>2. seen' = seen
      BY <1>2, <1>3, <1>4, <2>1, ConcatEmptySeq
    <2>3. filter' = filter
      BY <1>2, <1>4, <2>1 DEF FilterFits
    <2> QED
      BY <1>1, <1>2, <1>4, <2>1, <2>2, <2>3 DEF ListInv, WalkFits, FilterFits, n, k, a
  <1>9. CASE m # 0
    <2>1. data # <<>> /\ k + 1 \in 1..n /\ k + m \in 1..n /\ m \in 1..m /\ 1 \in 1..m
      BY <1>1, <1>9
    <2>2. answer.cursor = a[k + m] /\ a[k + m] \in Row /\ Head(data) = a[k + 1]
      BY <1>1, <1>3, <1>4, <1>6, <2>1
    <2>3. answer.cursor # 0 /\ answer.cursor \in Row
      BY <1>4, <2>2
    <2>4. seen' # <<>> /\ seen'[Len(seen')] = answer.cursor
      BY <1>1, <1>7, <2>1, <2>2
    <2>5. /\ filter' = [x \in L!Fields |-> filter'[x]] /\ filter'["limit"] = filter["limit"]
          /\ filter'["cursor"] = answer.cursor
      BY <1>2, <1>4, <2>3 DEF FilterFits, L!Fields
    <2>6. FilterFits'
      BY <1>4, <2>3, <2>5 DEF FilterFits
    <2>7. answer.previousCursor < Head(data)
      <3>1. a[k + 1] \in Nat \ {0}
        BY <1>4, <1>6, <2>1
      <3>2. CASE seen = <<>>
        BY <1>3, <1>4, <1>5, <2>2, <3>1, <3>2
      <3>3. CASE seen # <<>>
        <4>1. k \in 1..n /\ k < k + 1 /\ seen[k] = a[k]
          BY <1>1, <1>4, <3>3 DEF k
        <4>2. a[k] < a[k + 1] /\ a[k] # None
          BY <1>4, <1>6, <2>1, <4>1
        <4>3. Read["cursor"] = a[k]
          BY <1>4, <1>5, <3>3, <4>1 DEF k
        <4> QED
          BY <1>3, <2>2, <4>2, <4>3
      <3> QED
        BY <3>2, <3>3
    <2>8. Len(data) <= answer.limit
      BY <1>1, <1>3, <1>5 DEF m
    <2>9. walking' = TRUE
      BY <1>2, <2>3
    <2>10. WalkFits'
      BY <1>1, <1>2, <1>3, <1>4, <1>7, <2>1, <2>4, <2>5, <2>7, <2>8, <2>9 DEF WalkFits, n, a
    <2> QED
      BY <2>6, <2>10 DEF ListInv
  <1> QED
    BY <1>8, <1>9

LEMMA ListNext == ListInv /\ [L!Next]_listVars => ListInv'
  <1>1. ListInv /\ UNCHANGED listVars => ListInv'
    BY DEF listVars, ListInv, FilterFits, WalkFits
  <1> QED
    BY <1>1, FetchKeeps DEF L!Next

LEMMA WalkCovers == ListInv => PagesCoverTheList /\ L!FiltersTravel
  <1> SUFFICES ASSUME ListInv PROVE PagesCoverTheList /\ L!FiltersTravel
    OBVIOUS
  <1> DEFINE n == Cardinality(rows)
             k == Len(seen)
             a == L!Ascending(rows)
  <1>1. /\ rows \in SUBSET Row /\ seen \in Seq(Row) /\ k \in Nat /\ k <= n
        /\ \A i \in 1..k : seen[i] = a[i]
    BY DEF ListInv, WalkFits
  <1>2. /\ n \in Nat /\ a \in [1..n -> rows] /\ L!Cardinality(rows) = n
    <2>1. IsFiniteSet(rows) /\ rows \in SUBSET Nat
      BY <1>1, SameSizes, ServingAssumption, FS_Subset DEF L!FilteringAssumption
    <2> QED
      BY <2>1, AscendingIs, SameSizes
  <1>3. ~walking => k = n
    BY DEF ListInv, WalkFits
  <1>4. walking /\ page # None =>
          /\ page.data # <<>> /\ Len(page.data) <= page.limit
          /\ page.previousCursor < Head(page.data)
    BY DEF ListInv, WalkFits
  <1> HIDE DEF n, k, a
  <1>5. a \in Seq(Row) /\ Len(a) = n
    BY <1>1, <1>2
  <1>6. seen = SubSeq(a, 1, k)
    <2>1. /\ SubSeq(a, 1, k) \in Seq(Row) /\ Len(SubSeq(a, 1, k)) = k
          /\ \A i \in 1..k : SubSeq(a, 1, k)[i] = a[i]
      <3>1. \A i \in 1..k : a[i] \in Row
        BY <1>1, <1>2
      <3> QED
        BY <1>1, <3>1, SubSeqProperties
    <2>2. Len(seen) = k
      BY DEF k
    <2> QED
      BY <1>1, <2>1, <2>2, SeqEqual
  <1>7. ~walking => seen = a
    BY <1>3, <1>5, <1>6, SubSeqFull
  <1> QED
    BY <1>1, <1>2, <1>4, <1>6, <1>7, FilterIsRead DEF PagesCoverTheList, L!PagesCoverTheList, n, k, a,
       ListInv

-----------------------------------------------------------------------------
(* A server's requests together: each step is of one part.                 *)

LEMMA ServingKeeps ==
  /\ ServingInit => CookiesInv /\ ListInv
  /\ CookiesInv /\ ListInv /\ [ServingNext]_servingVars => CookiesInv' /\ ListInv'
  <1>1. ServingInit => CookiesInv /\ ListInv
    BY CookiesInit, ListInit DEF ServingInit
  <1>2. [ServingNext]_servingVars => [C!Next]_cookieVars /\ [L!Next]_listVars
    BY DEF ServingNext, Admitting, Handling, Listing, servingVars
  <1> QED
    BY <1>1, <1>2, CookiesNext, ListNext

\* The next request reads of a name what the handler last read of it, set or deleted,
\* unless its store had warned it; and what a filter says is what the server reads
\* from its URL, for any names, values and filters.
THEOREM WritesReachTheReader == ServingSpec => []WritesAreReadBack
  <1>1. CookiesInv /\ ListInv => WritesAreReadBack
    BY WalkCovers DEF CookiesInv, WritesAreReadBack
  <1> QED
    BY <1>1, ServingKeeps, PTL DEF ServingSpec

\* A client that follows the cursors is given every row once, in order, and ends
\* with the last, for any rows and any limit it asks for.
THEOREM WalksCoverTheList == ServingSpec => []PagesCoverTheList
  <1>1. ListInv => PagesCoverTheList
    BY WalkCovers
  <1> QED
    BY <1>1, ServingKeeps, PTL DEF ServingSpec
=============================================================================
