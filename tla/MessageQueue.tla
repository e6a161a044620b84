---------------------------- MODULE MessageQueue ----------------------------
(***************************************************************************)
(* One topic of the message queue under each of its providers: the         *)
(* publishers, the broker, and one process' cached consumer, on which      *)
(* consume() may be called several times.  A crash restarts that process.  *)
(*                                                                         *)
(* Deliveries wait in lanes, and a lane runs one handler at a time: the    *)
(* promise chain of a redis consumer, the fetched message of a kafka       *)
(* reader, the batch of an sqs loop, the fan-out of a publish in memory.   *)
(* Pub/Sub runs every delivery on its own.                                 *)
(***************************************************************************)
EXTENDS Naturals, SequencesExt

CONSTANTS
  Message,    \* the messages published, each once
  Session,    \* the consume() calls, each with its AbortSignal
  Providers,  \* the providers in use
  FreshGroup, \* TRUE: the kafka group starts without a committed offset
  LateStart,  \* TRUE: kafkajs starts a reader disconnected during its setup
  MaxCrashes, \* bound: how often the process dies
  None        \* absent

VARIABLES
  provider, \* the provider that serves the topic
  outbox,   \* the publish() calls; over: resolved or rejected
  producer, \* the kafka producer's memoized connection
  log,      \* the messages the broker accepted and keeps, in order
  settled,  \* those it will not hand out again
  out,      \* those handed out and hidden from other receivers
  call,     \* each consume() call
  signal,   \* the calls whose signal is aborted
  link,     \* the connection or subscription each call opened
  consumer, \* the fields of the consumer
  closing,  \* how far the consumer provider's close() is
  lane,     \* deliveries under way
  crashes,
  handled,  \* history: messages some handler run has succeeded with
  owed,     \* history: messages whose last handler run failed
  sole      \* history: calls whose consumer has served no other

vars == <<provider, outbox, producer, log, settled, out, call, signal, link,
          consumer, closing, lane, crashes, handled, owed, sole>>

ASSUME MessageQueueAssumption ==
  /\ Providers \subseteq {"memory", "redis", "kafka", "sqs", "pubsub"}
  /\ FreshGroup \in BOOLEAN /\ LateStart \in BOOLEAN
  /\ MaxCrashes \in Nat
  /\ IsFiniteSet(Session)
  /\ None \notin Message /\ None \notin Session

Durable == provider \in {"kafka", "sqs", "pubsub"}

\* A lane is named by the message and the call it is kept for, if any: one of
\* the consumer for redis and kafka, of the call for sqs, of the publish in
\* memory, and of the single delivery for Pub/Sub.
Lane == (Message \union {None}) \X (Session \union {None})

Chain == <<None, None>>

\* stopped and latest are #stopped and the call whose resolver and socket are
\* in #resolveDone and #sub; next is the offset the kafka reader is to fetch.
Consumer == [stopped : BOOLEAN, latest : Session \union {None}, next : Nat]

NewConsumer == [stopped |-> FALSE, latest |-> None, next |-> 0]

\* left is what close() awaits of the promise chain, already whether the
\* consumer had been stopped before.
Closing == [at : {"no", "draining", "quitting", "done"}, left : Nat,
            already : BOOLEAN]

\* none: not opened; opening: subscribing; bare: connected, not subscribed.
LinkState == {"none", "opening", "open", "bare", "closing", "closed"}

Idle == [todo |-> <<>>, at |-> "idle"]

TypeOK ==
  /\ provider \in Providers
  /\ outbox \in [Message -> {"idle", "sending", "over"}]
  /\ producer \in {"unset", "up", "failed"}
  /\ log \in Seq(Message) /\ IsInjective(log)
  /\ settled \subseteq Range(log) /\ out \subseteq Range(log)
  /\ call \in [Session -> {"idle", "running", "ended"}]
  /\ signal \subseteq Session
  /\ link \in [Session -> LinkState]
  /\ consumer \in Consumer /\ consumer.next <= Len(log)
  /\ closing \in Closing
  /\ DOMAIN lane = Lane
  /\ \A l \in Lane : /\ lane[l].todo \in Seq(Message)
                     /\ lane[l].at \in {"idle", "handling", "settling"}
                     /\ lane[l].at = "idle" <=> lane[l].todo = <<>>
  /\ crashes \in 0..MaxCrashes
  /\ handled \subseteq Message /\ owed \subseteq Message
  /\ sole \subseteq Session

Init ==
  /\ provider \in Providers
  /\ outbox = [m \in Message |-> "idle"]
  /\ producer = "unset"
  /\ log = <<>>
  /\ settled = {} /\ out = {}
  /\ call = [s \in Session |-> "idle"]
  /\ signal = {}
  /\ link = [s \in Session |-> "none"]
  /\ consumer = NewConsumer
  /\ closing = [at |-> "no", left |-> 0, already |-> FALSE]
  /\ lane = [l \in Lane |-> Idle]
  /\ crashes = 0
  /\ handled = {} /\ owed = {} /\ sole = {}

-----------------------------------------------------------------------------
(* The lanes.                                                              *)

\* The lanes once deliveries q have joined lane l.
Joined(l, q) ==
  LET waiting == lane[l].todo \o q
  IN  [lane EXCEPT ![l] =
         [todo |-> waiting,
          at   |-> CASE lane[l].at # "idle" -> lane[l].at
                     [] waiting = <<>>      -> "idle"
                     [] OTHER               -> "handling"]]

\* The lanes once the delivery at the head of lane l is over.
Advanced(l) ==
  LET rest == Tail(lane[l].todo)
  IN  [lane EXCEPT ![l] =
         [todo |-> rest, at |-> IF rest = <<>> THEN "idle" ELSE "handling"]]

Current(l) == Head(lane[l].todo)

\* The delivery at the head of lane l ends.  close() may be waiting for it, and
\* a publish in memory resolves with the last of its own.
Advance(l) ==
  /\ lane' = Advanced(l)
  /\ closing' = [closing EXCEPT !.left = IF @ > 0 THEN @ - 1 ELSE 0]
  /\ outbox' = IF provider = "memory" /\ Len(lane[l].todo) = 1
                 THEN [outbox EXCEPT ![Current(l)] = "over"]
                 ELSE outbox

-----------------------------------------------------------------------------
(* The publishers.                                                         *)

Subscribers == {s \in Session : link[s] = "open"}

Copies(m, n) == [i \in 1..n |-> m]

\* In memory, publish() hands the message to the subscribers of the moment, one
\* after the other; elsewhere it is sent to the broker.
Publish(m) ==
  /\ outbox[m] = "idle"
  /\ IF provider = "memory"
       THEN /\ lane' = Joined(<<m, None>>, Copies(m, Cardinality(Subscribers)))
            /\ outbox' = [outbox EXCEPT ![m] =
                            IF Subscribers = {} THEN "over" ELSE "sending"]
       ELSE outbox' = [outbox EXCEPT ![m] = "sending"] /\ UNCHANGED lane
  /\ UNCHANGED <<provider, producer, log, settled, out, call, signal, link,
                 consumer, closing, crashes, handled, owed, sole>>

\* Redis passes a message to who is subscribed and keeps nothing; a connection
\* that is subscribing or leaving may or may not get it.
Reached == Cardinality(Subscribers)..
             Cardinality({s \in Session : link[s] \in {"opening", "open", "closing"}})

Accept(m) ==
  IF Durable
    THEN log' = Append(log, m) /\ UNCHANGED lane
    ELSE /\ UNCHANGED log
         /\ \E n \in Reached : lane' = Joined(Chain, Copies(m, n))

PublishLands(m) ==
  /\ provider # "memory" /\ outbox[m] = "sending"
  /\ producer # "failed"
  /\ producer' = IF provider = "kafka" THEN "up" ELSE producer
  /\ outbox' = [outbox EXCEPT ![m] = "over"]
  /\ Accept(m)
  /\ UNCHANGED <<provider, settled, out, call, signal, link, consumer, closing,
                 crashes, handled, owed, sole>>

\* The broker is not reached, or its answer is not.  A first connection that
\* fails stays memoized, and the publisher never connects again.
PublishFails(m) ==
  /\ provider # "memory" /\ outbox[m] = "sending"
  /\ outbox' = [outbox EXCEPT ![m] = "over"]
  /\ \/ UNCHANGED <<producer, log, lane>>
     \/ /\ provider = "kafka" /\ producer = "unset"
        /\ producer' = "failed"
        /\ UNCHANGED <<log, lane>>
     \/ /\ producer # "failed"
        /\ producer' = IF provider = "kafka" THEN "up" ELSE producer
        /\ Accept(m)
  /\ UNCHANGED <<provider, settled, out, call, signal, link, consumer, closing,
                 crashes, handled, owed, sole>>

-----------------------------------------------------------------------------
(* consume() and the ways it ends.                                         *)

\* A signal that is already aborted ends the call at once.
ConsumeAborted(s) ==
  /\ call[s] = "idle" /\ s \in signal
  /\ call' = [call EXCEPT ![s] = "ended"]
  /\ UNCHANGED <<provider, outbox, producer, log, settled, out, signal, link,
                 consumer, closing, lane, crashes, handled, owed, sole>>

\* redis and kafka keep one resolver and one connection, the latest call's.  A
\* closed Pub/Sub client opens nothing.
Consume(s) ==
  /\ call[s] = "idle" /\ s \notin signal
  /\ call' = [call EXCEPT ![s] = "running"]
  /\ link' = [link EXCEPT ![s] =
                CASE provider \in {"redis", "kafka"} -> "opening"
                  [] provider = "memory"             -> "open"
                  [] provider = "pubsub"             ->
                       IF closing.at = "no" THEN "open" ELSE "closed"
                  [] provider = "sqs"                -> "none"]
  /\ IF provider \in {"redis", "kafka"}
       THEN /\ consumer' = [consumer EXCEPT !.latest = s]
            /\ sole' = IF consumer = NewConsumer THEN {s} ELSE {}
       ELSE UNCHANGED consumer /\ sole' = sole \union {s}
  /\ UNCHANGED <<provider, outbox, producer, log, settled, out, signal, closing,
                 lane, crashes, handled, owed>>

\* #stop() of redis and kafka closes the connection and resolves the latest
\* call, the first time only; ln are the links as its caller leaves them.
Stop(ln) ==
  IF consumer.stopped
    THEN link' = ln /\ UNCHANGED <<consumer, call>>
    ELSE /\ consumer' = [consumer EXCEPT !.stopped = TRUE]
         /\ link' = [s \in Session |->
                       IF \/ provider = "kafka" /\ ln[s] = "open"
                          \/ /\ provider = "redis" /\ s = consumer.latest
                             /\ ln[s] \in {"opening", "open", "bare"}
                         THEN "closing" ELSE ln[s]]
         /\ call' = [s \in Session |->
                       IF s = consumer.latest THEN "ended" ELSE call[s]]

\* Mutant of Listening: it is registered once the subscription is confirmed.
ListeningLate(s) ==
  call[s] = "running" /\ provider # "sqs" /\ link[s] # "opening"

\* The listener is registered before anything is awaited.  sqs has none: its
\* loop looks at the signal.
Listening(s) == call[s] = "running" /\ provider # "sqs"

\* Nothing listens to the signal of a call that has ended.
Abort(s) ==
  /\ s \notin signal /\ call[s] # "ended"
  /\ signal' = signal \union {s}
  /\ IF ~Listening(s)
       THEN UNCHANGED <<call, link, consumer>>
       ELSE \/ provider \in {"redis", "kafka"} /\ Stop(link)
            \/ /\ provider \in {"memory", "pubsub"}
               /\ call' = [call EXCEPT ![s] = "ended"]
               /\ link' = [link EXCEPT ![s] =
                             IF provider = "memory" \/ @ = "closed"
                               THEN "closed" ELSE "closing"]
               /\ UNCHANGED consumer
  /\ UNCHANGED <<provider, outbox, producer, log, settled, out, closing, lane,
                 crashes, handled, owed, sole>>

\* Where a kafka reader that joins its group goes on: behind the last commit,
\* or, fromBeginning being off, at the end when there was none.
Resume == IF settled = {} THEN IF FreshGroup THEN Len(log) ELSE 0
          ELSE CHOOSE n \in DOMAIN log :
                 settled = {log[i] : i \in 1..n}

\* Whether kafkajs lets the setup of call s succeed: subscribing to a reader
\* that runs is refused.
MayStart(s) ==
  provider = "kafka" =>
    /\ \A t \in Session : link[t] \notin {"open", "closing"}
    /\ consumer.stopped => LateStart

SetupSucceeds(s) ==
  /\ link[s] = "opening" /\ MayStart(s)
  /\ link' = [link EXCEPT ![s] = "open"]
  /\ consumer' = IF provider = "kafka" THEN [consumer EXCEPT !.next = Resume]
                 ELSE consumer
  /\ UNCHANGED <<provider, outbox, producer, log, settled, out, call, signal,
                 closing, lane, crashes, handled, owed, sole>>

\* A subscription that fails stops the consumer, whoever else it serves.
SetupFails(s) ==
  /\ link[s] = "opening"
  /\ Stop([link EXCEPT ![s] = IF provider = "kafka" THEN "closed" ELSE "bare"])
  /\ UNCHANGED <<provider, outbox, producer, log, settled, out, signal, closing,
                 lane, crashes, handled, owed, sole>>

\* The connection is gone.  kafkajs lets a running handler finish first.
Disconnected(s) ==
  /\ link[s] = "closing"
  /\ provider = "kafka" => lane[Chain] = Idle
  /\ link' = [link EXCEPT ![s] = "closed"]
  /\ UNCHANGED <<provider, outbox, producer, log, settled, out, call, signal,
                 consumer, closing, lane, crashes, handled, owed, sole>>

\* kafkajs reports a reader that crashed; it restarts it, or gives up.
ReaderCrashes ==
  /\ provider = "kafka" /\ Subscribers # {} /\ lane[Chain] = Idle
  /\ \/ /\ consumer' = [consumer EXCEPT !.next = Resume]
        /\ UNCHANGED <<call, link>>
     \/ Stop(link)
  /\ UNCHANGED <<provider, outbox, producer, log, settled, out, signal, closing,
                 lane, crashes, handled, owed, sole>>

\* The sqs loop looks at its signal between two batches.
LoopEnds(s) ==
  /\ provider = "sqs" /\ call[s] = "running" /\ s \in signal
  /\ lane[<<None, s>>] = Idle
  /\ call' = [call EXCEPT ![s] = "ended"]
  /\ UNCHANGED <<provider, outbox, producer, log, settled, out, signal, link,
                 consumer, closing, lane, crashes, handled, owed, sole>>

-----------------------------------------------------------------------------
(* close() of the consumer provider.                                       *)

\* Redis stops the consumer and awaits the promise chain as it is now; kafka
\* stops it and disconnects the reader; Pub/Sub closes its client.  Close() of
\* the others ends no call and no delivery.
Close ==
  /\ provider \in {"redis", "kafka", "pubsub"} /\ closing.at = "no"
  /\ IF provider \in {"redis", "kafka"}
       THEN /\ consumer' = [consumer EXCEPT !.stopped = TRUE]
            /\ call' = [s \in Session |->
                          IF s = consumer.latest THEN "ended" ELSE call[s]]
       ELSE UNCHANGED <<consumer, call>>
  /\ closing' = [at |-> CASE provider = "redis" -> "draining"
                          [] provider = "kafka" -> "quitting"
                          [] OTHER -> "done",
                 left |-> IF provider = "redis"
                            THEN Len(lane[Chain].todo) ELSE 0,
                 already |-> provider = "redis" /\ consumer.stopped]
  /\ link' = [s \in Session |->
                CASE provider = "kafka" /\ link[s] = "open" -> "closing"
                  [] provider = "pubsub" /\ link[s] # "none" -> "closed"
                  [] OTHER -> link[s]]
  /\ UNCHANGED <<provider, outbox, producer, log, settled, out, signal, lane,
                 crashes, handled, owed, sole>>

Drained ==
  /\ closing.at = "draining" /\ closing.left = 0
  /\ closing' = [at |-> IF closing.already THEN "done" ELSE "quitting",
                 left |-> 0, already |-> FALSE]
  /\ link' = [s \in Session |->
                IF /\ ~closing.already /\ s = consumer.latest
                   /\ link[s] \in {"opening", "open", "bare"}
                  THEN "closing" ELSE link[s]]
  /\ UNCHANGED <<provider, outbox, producer, log, settled, out, call, signal,
                 consumer, lane, crashes, handled, owed, sole>>

Closed ==
  /\ closing.at = "quitting"
  /\ \A s \in Session : link[s] = "closing" =>
       provider = "redis" /\ s # consumer.latest
  /\ closing' = [closing EXCEPT !.at = "done"]
  /\ UNCHANGED <<provider, outbox, producer, log, settled, out, call, signal,
                 link, consumer, lane, crashes, handled, owed, sole>>

-----------------------------------------------------------------------------
(* Deliveries.                                                             *)

Visible == Range(log) \ (settled \union out)

\* kafkajs gives the reader's next message to eachMessage, one at a time.
Fetch(s) ==
  /\ provider = "kafka" /\ link[s] = "open" /\ consumer.next < Len(log)
  /\ lane[Chain] = Idle
  /\ lane' = Joined(Chain, <<log[consumer.next + 1]>>)
  /\ owed' = owed \ {log[consumer.next + 1]}
  /\ UNCHANGED <<provider, outbox, producer, log, settled, out, call, signal,
                 link, consumer, closing, crashes, handled, sole>>

\* A long poll of sqs returns some messages, message m among them, which it
\* hides; it is asked again when the batch is done and the signal not aborted.
Receive(m, s) ==
  /\ provider = "sqs" /\ call[s] = "running" /\ s \notin signal
  /\ lane[<<None, s>>] = Idle
  /\ \E got \in SUBSET Visible :
       /\ m \in got
       /\ out' = out \union got
       /\ owed' = owed \ got
       /\ \E order \in SetToSeqs(got) :
            lane' = Joined(<<None, s>>, order)
  /\ UNCHANGED <<provider, outbox, producer, log, settled, call, signal, link,
                 consumer, closing, crashes, handled, sole>>

\* The answer to the poll is lost, or the signal aborts it: what it hid stays
\* hidden for the visibility timeout.
ReceiveFails(s) ==
  /\ provider = "sqs" /\ call[s] = "running" /\ lane[<<None, s>>] = Idle
  /\ \E got \in SUBSET Visible \ {{}} : out' = out \union got
  /\ UNCHANGED <<provider, outbox, producer, log, settled, call, signal, link,
                 consumer, closing, lane, crashes, handled, owed, sole>>

\* Pub/Sub pushes a message to a subscriber, which handles it at once.
Push(m, s) ==
  /\ provider = "pubsub" /\ link[s] = "open" /\ m \in Visible
  /\ lane[<<m, s>>] = Idle
  /\ lane' = Joined(<<m, s>>, <<m>>)
  /\ out' = out \union {m}
  /\ owed' = owed \ {m}
  /\ UNCHANGED <<provider, outbox, producer, log, settled, call, signal, link,
                 consumer, closing, crashes, handled, sole>>

\* sqs' visibility timeout or Pub/Sub's lease of a message ends.
Lapse(m) ==
  /\ m \in out
  /\ out' = out \ {m}
  /\ UNCHANGED <<provider, outbox, producer, log, settled, call, signal, link,
                 consumer, closing, lane, crashes, handled, owed, sole>>

\* The handler succeeds.  kafka and sqs go on to tell the broker and await its
\* answer; an ack is sent off, and may not arrive.
HandlerReturns(l) ==
  /\ lane[l].at = "handling"
  /\ handled' = IF Durable THEN handled \union {Current(l)} ELSE handled
  /\ IF provider \in {"kafka", "sqs"}
       THEN /\ lane' = [lane EXCEPT ![l].at = "settling"]
            /\ UNCHANGED <<closing, outbox, settled>>
       ELSE /\ Advance(l)
            /\ \/ UNCHANGED settled
               \/ provider = "pubsub" /\ settled' = settled \union {Current(l)}
  /\ UNCHANGED <<provider, producer, log, out, call, signal, link, consumer,
                 crashes, owed, sole>>

\* Mutant of NextAfterFailure: the error is not rethrown.
NextAfterSwallowing ==
  IF provider = "kafka" THEN consumer.next + 1 ELSE consumer.next

\* The offset the reader goes on from when eachMessage throws: the same.
NextAfterFailure == consumer.next

\* The handler fails.  redis and memory drop the message, sqs leaves it hidden,
\* Pub/Sub is sent a nack, which may not arrive, and kafka fetches it again.
HandlerThrows(l) ==
  /\ lane[l].at = "handling"
  /\ owed' = IF Durable THEN owed \union {Current(l)} ELSE owed
  /\ Advance(l)
  /\ consumer' = [consumer EXCEPT !.next = NextAfterFailure]
  /\ \/ UNCHANGED out
     \/ provider = "pubsub" /\ out' = out \ {Current(l)}
  /\ UNCHANGED <<provider, producer, log, settled, call, signal, link, crashes,
                 handled, sole>>

\* What the broker settles on being told that the delivery in lane l is done: a
\* kafka commit passes every message up to that offset.
Settles(l) ==
  IF provider = "kafka"
    THEN {log[i] : i \in {j \in DOMAIN log :
                            \A k \in 1..(j - 1) : log[k] # Current(l)}}
    ELSE {Current(l)}

SettleSucceeds(l) ==
  /\ lane[l].at = "settling"
  /\ settled' = settled \union Settles(l)
  /\ consumer' = IF provider = "kafka"
                   THEN [consumer EXCEPT !.next = @ + 1] ELSE consumer
  /\ Advance(l)
  /\ UNCHANGED <<provider, producer, log, out, call, signal, link, crashes,
                 handled, owed, sole>>

\* The commit or the deletion fails, or its answer is lost.
SettleFails(l) ==
  /\ lane[l].at = "settling"
  /\ \/ UNCHANGED settled
     \/ settled' = settled \union Settles(l)
  /\ consumer' = [consumer EXCEPT !.next = NextAfterFailure]
  /\ Advance(l)
  /\ UNCHANGED <<provider, producer, log, out, call, signal, link, crashes,
                 handled, owed, sole>>

-----------------------------------------------------------------------------
\* The process dies in the middle of a delivery and is started again, with a new
\* consumer.  A publish that
\* was under way is not heard of again; it has landed by then or never does.
Crash ==
  /\ crashes < MaxCrashes
  /\ \E l \in Lane : lane[l].at # "idle"
  /\ crashes' = crashes + 1
  /\ outbox' = [m \in Message |->
                  IF outbox[m] = "sending" THEN "over" ELSE outbox[m]]
  /\ producer' = "unset"
  /\ call' = [s \in Session |-> IF call[s] = "running" THEN "ended" ELSE call[s]]
  /\ link' = [s \in Session |-> IF link[s] = "none" THEN "none" ELSE "closed"]
  /\ consumer' = NewConsumer
  /\ closing' = [at |-> "no", left |-> 0, already |-> FALSE]
  /\ lane' = [l \in Lane |-> Idle]
  /\ UNCHANGED <<provider, log, settled, out, signal, handled, owed, sole>>

DeliveryEnds(l) == \/ HandlerReturns(l) \/ HandlerThrows(l)
                   \/ SettleSucceeds(l) \/ SettleFails(l)

CallGoesOn(s) == \/ SetupSucceeds(s) \/ SetupFails(s) \/ Disconnected(s)
                 \/ LoopEnds(s) \/ Fetch(s)

Next ==
  \/ \E m \in Message : Publish(m) \/ PublishLands(m) \/ PublishFails(m) \/ Lapse(m)
  \/ \E s \in Session :
       ConsumeAborted(s) \/ Consume(s) \/ Abort(s) \/ CallGoesOn(s) \/ ReceiveFails(s)
  \/ \E m \in Message, s \in Session : Receive(m, s) \/ Push(m, s)
  \/ \E l \in Lane : DeliveryEnds(l)
  \/ ReaderCrashes \/ Close \/ Drained \/ Closed \/ Crash

Spec == Init /\ [][Next]_vars

\* Handlers, brokers and connections answer, one way or the other, and a broker
\* hands out in the end what it has.
Fairness ==
  /\ \A s \in Session : WF_vars(CallGoesOn(s))
  /\ \A l \in Lane : WF_vars(DeliveryEnds(l))
  /\ \A m \in Message :
       /\ WF_vars(Lapse(m))
       /\ SF_vars(\E s \in Session : Receive(m, s) \/ Push(m, s))
  /\ WF_vars(Drained)

FairSpec == Spec /\ Fairness

-----------------------------------------------------------------------------
(* Properties.                                                             *)

\* No message is lost: what a broker of the durable kind will not hand out any
\* more has been through a handler run that succeeded.  A commit passes every
\* earlier message, and deletions and acks may land unanswered.  The variables keep
\* their types.
HandledBeforeSettled == TypeOK /\ settled \subseteq handled

Consuming == \E s \in Session :
  IF provider = "sqs" THEN call[s] = "running" /\ s \notin signal
  ELSE link[s] = "open"

\* A message whose handler failed is handed to a handler again, as long as
\* somebody consumes.
FailedIsRedelivered ==
  \A m \in Message :
    m \in owed \ settled ~> (m \notin owed \ settled \/ ~Consuming)

\* A call that has the consumer to itself ends once its signal is aborted, at
\* whatever point of its setup or of a delivery that happens, and however it
\* ends, by its signal, a failure or close(), leaves no connection behind.
CallsEndClean ==
  \A s \in Session :
    s \in sole /\ (call[s] = "ended" \/ (call[s] = "running" /\ s \in signal))
      ~> \/ call[s] = "ended" /\ link[s] \in {"none", "closed"}
         \/ s \notin sole
=============================================================================
