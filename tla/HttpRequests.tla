----------------------------- MODULE HttpRequests -----------------------------
(***************************************************************************)
(* One call that goes out over fetch, from the call to its settlement: a   *)
(* request of the HTTP client, an email to a vendor, a completion of a     *)
(* language model, or a ping.  Each attempt has a signal of its own, made  *)
(* of a timeout and the caller's signal, and a retry policy may repeat it. *)
(* The server may run a request whose answer never arrives.                *)
(***************************************************************************)
EXTENDS Integers

CONSTANTS
  Requests,     \* the calls that are made
  MaxAttempts   \* maxAttempts of the retry policy

VARIABLES
  request,   \* the call
  at,        \* where its code is
  tries,     \* how many attempts have failed
  aborted,   \* the caller's signal
  wire,      \* the attempt under way, as the server has it
  status,    \* of the answer
  strays,    \* attempts given up on that the server may still run
  result,    \* how the call settled
  started,   \* history: how many requests were put on the wire
  effects,   \* history: how many of them the server ran
  tally      \* the counters of the call's instruments

requestVars == <<request, at, tries, aborted, wire, status, strays, result,
                 started, effects, tally>>

Senders == {"resend", "sendgrid", "mailgun", "mailjet"}

\* api is the operation and vendor who provides it.  A picky policy may give up
\* at any failure, by its elapsed budget or its predicate.  A sound call has a
\* URL that parses and, an email, a body.
Request ==
  [api : {"http", "send", "sdk", "complete", "stream", "ping"},
   vendor : Senders \union {"fetch", "postmark", "anthropic", "openai"},
   method : {"GET", "POST", "PUT", "PATCH", "DELETE"},
   idempotent : {"unset", "yes", "no"},
   policy : BOOLEAN, picky : BOOLEAN, timed : BOOLEAN, signalled : BOOLEAN,
   strict : BOOLEAN, sound : BOOLEAN]

\* No deadline is put on a stream, nor on an email vendor's ping, and neither is
\* retried; the Postmark SDK has a deadline that is its own affair.  The caller of
\* an email or a ping has no signal to give.
HttpRequestsAssumption ==
  /\ Requests \subseteq Request /\ MaxAttempts \in Nat \ {0}
  /\ \A r \in Requests :
       r.api \in {"stream", "sdk"} \/ (r.api = "ping" /\ r.vendor \in Senders)
         => ~r.timed /\ ~r.policy
  /\ \A r \in Requests : r.api \in {"send", "sdk", "ping"} => ~r.signalled

\* The counters of every component that makes calls.
Instruments == {"recorded", "sends", "errors", "tokens"}

Quiet == [i \in Instruments |-> 0]

RequestTypeOK ==
  /\ request \in Requests
  /\ at \in {"called", "head", "asking", "sleeping", "answered", "reading",
             "over"}
  /\ tries \in 0..MaxAttempts /\ started \in 0..MaxAttempts
  /\ strays \in 0..started /\ effects \in 0..started
  /\ aborted \in BOOLEAN
  /\ wire \in {"none", "sent", "done"}
  /\ status \in {"none", "ok", "busy", "refused"}
  /\ result \in {"none", "resolved", "rejected", "aborted", "stopped"}
  /\ tally \in [Instruments -> 0..1]
  /\ at = "over" <=> result # "none"

RequestInit ==
  /\ request \in Requests
  /\ at = "called" /\ tries = 0 /\ aborted = FALSE
  /\ wire = "none" /\ status = "none" /\ strays = 0 /\ result = "none"
  /\ started = 0 /\ effects = 0
  /\ tally = Quiet

-----------------------------------------------------------------------------
(* What a call may do.                                                     *)

IdempotentMethods == {"GET", "PUT", "DELETE"}

\* Mutant of Retryable: a policy retries whatever the method is.
AnyMethod(r) == r.policy

\* Whether the policy drives the call.
Retryable(r) ==
  /\ r.policy
  /\ r.api = "http" =>
       \/ r.idempotent = "yes"
       \/ r.idempotent = "unset" /\ r.method \in IdempotentMethods

\* Mutants of SignalOf: of two signals one is passed on.
CallerOnly(r) == IF r.signalled THEN {"caller"}
                 ELSE IF r.timed THEN {"timeout"} ELSE {}
TimeoutOnly(r) == IF r.timed THEN {"timeout"}
                  ELSE IF r.signalled THEN {"caller"} ELSE {}

\* The signals an attempt, and the body it answers, are ended by.
SignalOf(r) == {s \in {"timeout", "caller"} :
                  IF s = "timeout" THEN r.timed ELSE r.signalled}

\* A vendor's status that is worth another attempt is a failure to the policy;
\* the HTTP client's is an answer like any other.
FailsOnStatus == request.api # "http" /\ request.policy /\ status = "busy"

\* An instrument is told.
Tell(t) == [tally EXCEPT ![t] = @ + 1]

Settle(how) == at' = "over" /\ result' = how

\* Mutant of Recorded: a request that was never answered is not recorded.
Unrecorded == tally

\* The HTTP client records the outcome of its request, answered or not.
Recorded == IF request.api = "http" THEN Tell("recorded") ELSE tally

\* Nothing more is expected of the attempt under way.
GivenUp == strays' = IF wire = "sent" THEN strays + 1 ELSE strays

-----------------------------------------------------------------------------
(* The loop of the policy, or a single attempt.                            *)

\* A URL that does not parse, or an email with nothing in it, is refused.
Call ==
  /\ at = "called"
  /\ UNCHANGED <<request, tries, aborted, wire, status, strays, started, effects,
                 tally>>
  /\ IF request.sound THEN at' = "head" /\ UNCHANGED result ELSE Settle("rejected")

\* What becomes of an attempt that failed, with a status or an error: a status
\* that is not tried again is handed back.
AttemptFails(kind) ==
  /\ tries' = tries + 1
  /\ wire' = "none"
  /\ \/ /\ Retryable(request) /\ aborted
        /\ Settle("aborted") /\ tally' = Recorded
     \/ /\ ~(Retryable(request) /\ aborted)
        /\ ~Retryable(request) \/ tries + 1 >= MaxAttempts \/ request.picky
        /\ IF kind = "status" THEN at' = "answered" /\ UNCHANGED <<result, tally>>
           ELSE /\ Settle(IF aborted /\ "caller" \in SignalOf(request)
                          THEN "aborted" ELSE "rejected")
                /\ tally' = Recorded
     \/ /\ Retryable(request) /\ ~aborted /\ tries + 1 < MaxAttempts
        /\ at' = "sleeping" /\ UNCHANGED <<result, tally>>

\* The next attempt: not made once the caller has aborted, and refused by fetch
\* itself when its signal is aborted already.
Attempt ==
  /\ at = "head"
  /\ request.api # "sdk"
  /\ UNCHANGED <<request, aborted, effects>>
  /\ status' = "none"
  /\ IF Retryable(request) /\ aborted
     THEN /\ Settle("aborted") /\ tally' = Recorded
          /\ UNCHANGED <<tries, wire, strays, started>>
     ELSE IF aborted /\ "caller" \in SignalOf(request)
     THEN AttemptFails("error") /\ UNCHANGED <<strays, started>>
     ELSE /\ at' = "asking" /\ wire' = "sent" /\ started' = started + 1
          /\ UNCHANGED <<tries, strays, result, tally>>

\* The connection is lost, before the server has run the request or after.
Lost ==
  /\ at = "asking"
  /\ request.api # "sdk"
  /\ UNCHANGED <<request, aborted, status, started, effects>>
  /\ GivenUp /\ AttemptFails("error")

\* The attempt's timeout passes, or the caller aborts.
AttemptEnded ==
  /\ at = "asking"
  /\ \/ "timeout" \in SignalOf(request)
     \/ "caller" \in SignalOf(request) /\ aborted
  /\ UNCHANGED <<request, aborted, status, started, effects>>
  /\ GivenUp /\ AttemptFails("error")

\* The answer's status and headers are there.
Arrives ==
  /\ at = "asking" /\ wire = "done"
  /\ request.api # "sdk"
  /\ UNCHANGED <<request, aborted, status, strays, started, effects>>
  /\ IF FailsOnStatus THEN AttemptFails("status")
     ELSE /\ at' = "answered" /\ wire' = "none"
          /\ UNCHANGED <<tries, result, tally>>

\* The delay before the next attempt, which an abort cuts short.
Sleep ==
  /\ at = "sleeping"
  /\ UNCHANGED <<request, tries, aborted, wire, status, strays, started, effects>>
  /\ \/ at' = "head" /\ UNCHANGED <<result, tally>>
     \/ aborted /\ Settle("aborted") /\ tally' = Recorded

-----------------------------------------------------------------------------
(* What the components make of an answer.                                  *)

Untouched == UNCHANGED <<request, tries, aborted, wire, status, strays, started,
                         effects>>

\* The HTTP client records every status and reads the body whatever it is.
HttpAnswered ==
  /\ at = "answered" /\ request.api = "http"
  /\ Untouched
  /\ at' = "reading" /\ tally' = Tell("recorded") /\ UNCHANGED result

\* A body that claims to be JSON and is none rejects, and so does a status that
\* is not ok if the caller said so.
HttpRead ==
  /\ at = "reading" /\ request.api = "http"
  /\ Untouched
  /\ \/ Settle("rejected")
     \/ Settle(IF request.strict /\ status # "ok" THEN "rejected" ELSE "resolved")
  /\ UNCHANGED tally

\* An email vendor's answer: an id is looked for in the body of an ok one, and
\* it is no matter whether there is any; the body of another goes into the error.
Sends(id) ==
  /\ request.api = "send"
  /\ Untouched
  /\ \/ /\ at = "answered" /\ status = "ok" /\ id = "header"
        /\ Settle("resolved") /\ tally' = Tell("sends")
     \/ /\ at = "answered" /\ ~(status = "ok" /\ id = "header")
        /\ at' = "reading" /\ UNCHANGED <<result, tally>>
     \/ /\ at = "reading" /\ status = "ok"
        /\ Settle("resolved") /\ tally' = Tell("sends")
     \/ /\ at = "reading" /\ status # "ok"
        /\ Settle("rejected") /\ tally' = Tell("errors")

ResendSends   == request.vendor = "resend"   /\ Sends("body")
MailgunSends  == request.vendor = "mailgun"  /\ Sends("body")
MailjetSends  == request.vendor = "mailjet"  /\ Sends("body")
SendgridSends == request.vendor = "sendgrid" /\ Sends("header")

\* Postmark's SDK makes the call; an answer may carry an error code.
PostmarkAsks ==
  /\ at = "head" /\ request.api = "sdk"
  /\ UNCHANGED <<request, tries, aborted, status, strays, effects, result, tally>>
  /\ at' = "asking" /\ wire' = "sent" /\ started' = started + 1

PostmarkSends ==
  /\ at = "asking" /\ request.api = "sdk"
  /\ GivenUp
  /\ wire' = "none"
  /\ UNCHANGED <<request, tries, aborted, status, started, effects>>
  /\ \/ wire = "done" /\ status = "ok" /\ Settle("resolved") /\ tally' = Tell("sends")
     \/ Settle("rejected") /\ tally' = Tell("errors")

\* A completion's tokens are counted when its body has been parsed, if it tells
\* of any.
Completes ==
  /\ request.api = "complete"
  /\ Untouched
  /\ \/ at = "answered" /\ at' = "reading" /\ UNCHANGED <<result, tally>>
     \/ /\ at = "reading" /\ status = "ok"
        /\ Settle("resolved") /\ tally' \in {tally, Tell("tokens")}
     \/ /\ at = "reading"
        /\ Settle("rejected") /\ UNCHANGED tally

AnthropicCompletes == request.vendor = "anthropic" /\ Completes
OpenAICompletes    == request.vendor = "openai" /\ Completes

\* A stream's tokens are counted when its last event has been read; its reader
\* may stop before, and an event that is no JSON ends it.
Streams ==
  /\ request.api = "stream"
  /\ Untouched
  /\ \/ at = "answered" /\ at' = "reading" /\ UNCHANGED <<result, tally>>
     \/ /\ at = "reading" /\ status = "ok"
        /\ Settle("resolved") /\ tally' = Tell("tokens")
     \/ at = "reading" /\ status = "ok" /\ Settle("stopped") /\ UNCHANGED tally
     \/ at = "reading" /\ Settle("rejected") /\ UNCHANGED tally

AnthropicStreams == request.vendor = "anthropic" /\ Streams
OpenAIStreams    == request.vendor = "openai" /\ Streams

\* A ping's answer is its status; the body of one that is not ok is read.  Postmark's,
\* a call of its SDK that may throw, touches nothing of this and is left out.
Pings ==
  /\ request.api = "ping"
  /\ Untouched
  /\ UNCHANGED tally
  /\ \/ at = "answered" /\ status = "ok" /\ Settle("resolved")
     \/ at = "answered" /\ status # "ok" /\ at' = "reading" /\ UNCHANGED result
     \/ at = "reading" /\ Settle("rejected")

VendorPings    == request.vendor \in Senders /\ Pings
AnthropicPings == request.vendor = "anthropic" /\ Pings
OpenAIPings    == request.vendor = "openai" /\ Pings

\* The body breaks off.
Broken ==
  /\ at = "reading"
  /\ Untouched
  /\ UNCHANGED tally
  /\ Settle("rejected")

\* The attempt's signal holds for the body as well.
Cut ==
  /\ at = "reading"
  /\ Untouched
  /\ UNCHANGED tally
  /\ \/ "timeout" \in SignalOf(request) /\ Settle("rejected")
     \/ "caller" \in SignalOf(request) /\ aborted /\ Settle("aborted")

-----------------------------------------------------------------------------
(* The caller and the server.                                              *)

Abort ==
  /\ request.signalled /\ ~aborted /\ at # "over"
  /\ aborted' = TRUE
  /\ UNCHANGED <<request, at, tries, wire, status, strays, result, started,
                 effects, tally>>

\* The request is run, or turned away; one that was run may be answered by a 5xx.
Serves ==
  /\ wire = "sent"
  /\ wire' = "done"
  /\ \/ effects' = effects + 1 /\ status' \in {"ok", "busy"}
     \/ effects' = effects /\ status' \in {"busy", "refused"}
  /\ UNCHANGED <<request, at, tries, aborted, strays, result, started, tally>>

StrayRuns ==
  /\ strays > 0
  /\ strays' = strays - 1 /\ effects' = effects + 1
  /\ UNCHANGED <<request, at, tries, aborted, wire, status, result, started, tally>>

Reads ==
  \/ HttpRead \/ ResendSends \/ MailgunSends \/ MailjetSends \/ SendgridSends
  \/ AnthropicCompletes \/ OpenAICompletes \/ AnthropicStreams \/ OpenAIStreams
  \/ VendorPings \/ AnthropicPings \/ OpenAIPings

\* What the runtime gets done: the code, its timers and its signals.  A body that
\* stalls, and an answer that does not come, are nobody's to hurry.
Moves ==
  \/ Call \/ Attempt \/ AttemptEnded \/ Sleep \/ HttpAnswered \/ PostmarkAsks \/ Cut
  \/ at = "answered" /\ Reads

RequestNext ==
  \/ Moves \/ Reads \/ Lost \/ Arrives \/ PostmarkSends \/ Broken
  \/ Abort \/ Serves \/ StrayRuns

RequestSpec == RequestInit /\ [][RequestNext]_requestVars /\ WF_requestVars(Moves)

-----------------------------------------------------------------------------
(* Properties.                                                             *)

\* A server runs a call twice only if the caller's policy and method, or the
\* caller's word, allow it to be replayed, and never more often than the policy
\* has attempts: a request that timed out may have been run, and so may one that
\* was given up on.
ReplaysOnlyIdempotent ==
  /\ effects > 1 =>
       /\ request.policy
       /\ request.api = "http" =>
            \/ request.idempotent = "yes"
            \/ request.idempotent # "no" /\ request.method \notin {"POST", "PATCH"}
  /\ effects + strays <= IF request.policy THEN MaxAttempts ELSE 1

\* Nothing is put on the wire for a caller that has aborted, in whatever state of
\* its loop the abort finds the call, and the rejection of a call that was still
\* waiting then is the abort and not the failure it hid.
AbortIsFinal ==
  [][aborted /\ request.signalled =>
       /\ started' = started
       /\ at \in {"head", "asking", "sleeping"} /\ at' = "over"
            => result' = "aborted"]_requestVars

\* What a call tells is what happened: it resolves as a success only if the
\* server ran it; an email is counted as sent or as failed, never both, and as
\* sent exactly if its caller is told so; and the HTTP client records one outcome
\* of every call it got to make.  The variables keep their types.
AnswersAreEarned ==
  /\ RequestTypeOK
  /\ result = "resolved" =>
       IF status = "ok" THEN effects >= 1
       ELSE request.api = "http" /\ ~request.strict
  /\ at = "over" /\ request.api \in {"send", "sdk"} =>
       /\ tally["sends"] = 1 <=> result = "resolved"
       /\ tally["sends"] + tally["errors"] <= 1
  /\ at = "over" /\ request.api = "http" =>
       tally["recorded"] = IF request.sound THEN 1 ELSE 0

\* A call with a timeout, or whose caller aborts, settles, whatever the server
\* and the network do and however often it is retried.
EveryWaitEnds ==
  request.timed \/ (request.signalled /\ aborted) ~> at = "over"
=============================================================================
