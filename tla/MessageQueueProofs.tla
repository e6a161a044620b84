------------------------- MODULE MessageQueueProofs -------------------------
(***************************************************************************)
(* The message queue for any number of messages, consume() calls and       *)
(* crashes, over all five providers: what a broker will not hand out again *)
(* has been through a handler that succeeded.  A kafka group is taken to   *)
(* have a committed offset, for one that has none starts at the end.       *)
(***************************************************************************)
EXTENDS MessageQueue, FiniteSetTheorems, SequenceTheorems, TLAPS

-----------------------------------------------------------------------------
(* The inductive invariant.                                                *)

LaneState == [todo : Seq(Message), at : {"idle", "handling", "settling"}]

\* A lane is idle when nothing waits in it.
Lanes(f) ==
  /\ f \in [Lane -> LaneState]
  /\ \A l \in Lane : f[l].at = "idle" <=> f[l].todo = <<>>

\* The first n messages of the log.
UpTo(n) == {log[i] : i \in 1..n}

\* A message on the log was published, and publish() has resolved or rejected, so
\* it is not published again.
SentOnce == \A m \in Range(log) : outbox[m] = "over"

\* What a durable provider delivers is on the log.
LanesHoldLog == Durable => \A l \in Lane : Range(lane[l].todo) \subseteq Range(log)

\* The broker is told of what a handler has succeeded with.
SettlingIsHandled ==
  \A l \in Lane : lane[l].at = "settling" =>
    provider \in {"kafka", "sqs"} /\ Current(l) \in handled

\* A call that was not made has no connection.
IdleIsUnlinked == \A s \in Session : call[s] = "idle" => link[s] = "none"

\* kafkajs runs one handler at a time, for the message at the reader's offset, and
\* while it does the reader is there, so that no other sets the offset.
OneAtTheOffset ==
  provider = "kafka" =>
    /\ \A l \in Lane \ {Chain} : lane[l].at = "idle"
    /\ lane[Chain].at # "idle" =>
         /\ consumer.next < Len(log) /\ lane[Chain].todo = <<log[consumer.next + 1]>>
         /\ \E s \in Session : link[s] \in {"open", "closing"}

\* Offsets are passed in order: everything before the one the reader is at was
\* handled, and a committed offset stands for all before it.
OffsetsAreHandled ==
  provider = "kafka" =>
    /\ UpTo(consumer.next) \subseteq handled
    /\ \E n \in 0..Len(log) : settled = UpTo(n)

\* The types of all but the lanes.
Types ==
  /\ provider \in Providers
  /\ outbox \in [Message -> {"idle", "sending", "over"}]
  /\ producer \in {"unset", "up", "failed"}
  /\ log \in Seq(Message) /\ IsInjective(log)
  /\ settled \subseteq Range(log) /\ out \subseteq Range(log)
  /\ call \in [Session -> {"idle", "running", "ended"}]
  /\ signal \subseteq Session
  /\ link \in [Session -> LinkState]
  /\ consumer \in Consumer /\ consumer.next <= Len(log)
  /\ closing \in Closing
  /\ crashes \in 0..MaxCrashes
  /\ handled \subseteq Message /\ owed \subseteq Message
  /\ sole \subseteq Session

IInv ==
  /\ Types /\ Lanes(lane)
  /\ SentOnce /\ LanesHoldLog /\ SettlingIsHandled /\ IdleIsUnlinked
  /\ OneAtTheOffset /\ OffsetsAreHandled
  /\ settled \subseteq handled

LEMMA TypesHold == IInv => TypeOK
  BY DEF IInv, Types, TypeOK, Lanes, LaneState

-----------------------------------------------------------------------------
(* Logs and lanes.                                                         *)

\* The messages of a log are finitely many.
LEMMA LogIsFinite ==
  ASSUME NEW got \in SUBSET Range(log), log \in Seq(Message)
  PROVE  IsFiniteSet(got) /\ Cardinality(got) \in Nat
  <1>1. IsFiniteSet(1..Len(log)) /\ DOMAIN log = 1..Len(log)
    BY FS_Interval, LenProperties
  <1>2. log \in Surjection(1..Len(log), Range(log))
    BY <1>1, LenProperties DEF Range, Surjection
  <1>3. IsFiniteSet(Range(log))
    BY <1>1, <1>2, FS_Surjection
  <1> QED
    BY <1>3, FS_Subset, FS_CardinalityType

LEMMA LogGrows ==
  ASSUME Types, NEW m \in Message, m \notin Range(log)
  PROVE  /\ Append(log, m) \in Seq(Message) /\ IsInjective(Append(log, m))
         /\ Len(Append(log, m)) = Len(log) + 1 /\ Len(log) \in Nat
         /\ \A i \in 1..Len(log) : Append(log, m)[i] = log[i]
         /\ Range(Append(log, m)) = Range(log) \union {m}
  <1> DEFINE p == Append(log, m)
  <1>1. /\ p \in Seq(Message) /\ Len(p) = Len(log) + 1 /\ Len(log) \in Nat
        /\ DOMAIN log = 1..Len(log) /\ DOMAIN p = 1..Len(log) + 1
        /\ \A i \in 1..Len(log) : p[i] = log[i]
        /\ p[Len(log) + 1] = m
    BY LenProperties, AppendProperties DEF Types
  <1> HIDE DEF p
  <1>2. IsInjective(p)
    BY <1>1 DEF Types, IsInjective, Range
  <1>3. Range(p) = Range(log) \union {m}
    BY <1>1 DEF Range
  <1> QED
    BY <1>1, <1>2, <1>3 DEF p

LEMMA LogTypes ==
  ASSUME Types
  PROVE  /\ Len(log) \in Nat /\ DOMAIN log = 1..Len(log)
         /\ \A i \in 1..Len(log) : log[i] \in Message /\ log[i] \in Range(log)
         /\ Range(log) \subseteq Message
         /\ consumer.next \in Nat /\ consumer.next <= Len(log)
  BY LenProperties, ElementOfSeq DEF Types, Range, Consumer

\* Deliveries join a lane.
LEMMA JoinedIs ==
  ASSUME Lanes(lane), NEW l \in Lane, NEW q \in Seq(Message)
  PROVE  /\ Lanes(Joined(l, q))
         /\ \A k \in Lane \ {l} : Joined(l, q)[k] = lane[k]
         /\ Joined(l, q)[l].todo = lane[l].todo \o q
         /\ Joined(l, q)[l].at = "settling" => lane[l].at = "settling"
  <1> DEFINE waiting == lane[l].todo \o q
             at == CASE lane[l].at # "idle" -> lane[l].at
                     [] waiting = <<>>      -> "idle"
                     [] OTHER               -> "handling"
  <1>1. lane[l] \in LaneState /\ (lane[l].at = "idle" <=> lane[l].todo = <<>>)
    BY DEF Lanes
  <1>2. /\ waiting \in Seq(Message)
        /\ waiting = <<>> <=> lane[l].todo = <<>> /\ q = <<>>
    BY <1>1, ConcatProperties, ConcatEqualIffEmpty DEF LaneState
  <1>3. Joined(l, q) = [lane EXCEPT ![l] = [todo |-> waiting, at |-> at]]
    BY DEF Joined
  <1>4. at \in {"idle", "handling", "settling"} /\ (at = "idle" <=> waiting = <<>>)
          /\ (at = "settling" => lane[l].at = "settling")
    BY <1>1, <1>2 DEF LaneState
  <1> HIDE DEF waiting, at
  <1>5. /\ Joined(l, q)[l].todo = waiting /\ Joined(l, q)[l].at = at
        /\ \A k \in Lane \ {l} : Joined(l, q)[k] = lane[k]
        /\ Joined(l, q) \in [Lane -> LaneState]
    BY <1>2, <1>3, <1>4 DEF Lanes, LaneState
  <1>6. Lanes(Joined(l, q))
    BY <1>4, <1>5 DEF Lanes
  <1> QED
    BY <1>4, <1>5, <1>6 DEF waiting

LEMMA JoinedIdle ==
  ASSUME Lanes(lane), NEW l \in Lane, NEW q \in Seq(Message), lane[l] = Idle
  PROVE  /\ Lanes(Joined(l, q)) /\ Joined(l, q)[l].todo = q
         /\ \A k \in Lane \ {l} : Joined(l, q)[k] = lane[k]
         /\ Joined(l, q)[l].at # "settling"
  <1>1. lane[l].todo = <<>> /\ lane[l].at = "idle"
    BY DEF Idle
  <1>2. <<>> \o q = q
    BY ConcatEmptySeq
  <1> QED
    BY <1>1, <1>2, JoinedIs

\* A lane goes on to its next delivery.
LEMMA AdvancedIs ==
  ASSUME Lanes(lane), NEW l \in Lane, lane[l].at # "idle"
  PROVE  /\ Lanes(Advanced(l))
         /\ \A k \in Lane \ {l} : Advanced(l)[k] = lane[k]
         /\ Advanced(l)[l].todo = Tail(lane[l].todo)
         /\ Range(Advanced(l)[l].todo) \subseteq Range(lane[l].todo)
         /\ Advanced(l)[l].at # "settling"
         /\ Current(l) \in Message /\ Current(l) \in Range(lane[l].todo)
         /\ Len(lane[l].todo) \in Nat \ {0} /\ Current(l) = lane[l].todo[1]
         /\ Len(lane[l].todo) = 1 => Advanced(l)[l].at = "idle"
  <1> DEFINE todo == lane[l].todo
             rest == Tail(todo)
             at == IF rest = <<>> THEN "idle" ELSE "handling"
  <1>1. todo \in Seq(Message) /\ todo # <<>>
    BY DEF Lanes, LaneState
  <1>2. /\ rest \in Seq(Message) /\ Len(rest) = Len(todo) - 1 /\ Len(todo) \in Nat \ {0}
        /\ \A i \in 1..Len(rest) : rest[i] = todo[i + 1]
        /\ DOMAIN rest = 1..Len(rest) /\ DOMAIN todo = 1..Len(todo)
        /\ Head(todo) \in Message /\ Head(todo) = todo[1]
    BY <1>1, HeadTailProperties, LenProperties, EmptySeq
  <1>3. Advanced(l) = [lane EXCEPT ![l] = [todo |-> rest, at |-> at]]
    BY DEF Advanced
  <1>4. Range(rest) \subseteq Range(todo) /\ Head(todo) \in Range(todo)
    <2> HIDE DEF todo, rest
    <2>1. 1 \in DOMAIN todo /\ \A i \in DOMAIN rest : i + 1 \in DOMAIN todo
      BY <1>2
    <2>2. \A i \in DOMAIN rest : rest[i] = todo[i + 1]
      BY <1>2
    <2>3. \A i \in DOMAIN todo : todo[i] \in Range(todo)
      BY DEF Range
    <2>4. \A i \in DOMAIN rest : rest[i] \in Range(todo)
      BY <2>1, <2>2, <2>3
    <2> QED
      BY <1>2, <2>1, <2>3, <2>4 DEF Range
  <1>5. Len(todo) = 1 => rest = <<>>
    <2> HIDE DEF todo, rest
    <2>1. rest # <<>> => Len(rest) \in Nat \ {0}
      BY <1>2, EmptySeq
    <2> QED
      BY <1>2, <2>1
  <1>6. Current(l) = Head(todo)
    BY DEF Current
  <1>7. at \in {"idle", "handling"} /\ (at = "idle" <=> rest = <<>>)
    OBVIOUS
  <1> HIDE DEF todo, rest, at
  <1>8. /\ Advanced(l)[l].todo = rest /\ Advanced(l)[l].at = at
        /\ \A k \in Lane \ {l} : Advanced(l)[k] = lane[k]
        /\ Advanced(l) \in [Lane -> LaneState]
    BY <1>2, <1>3, <1>7 DEF Lanes, LaneState
  <1>9. Lanes(Advanced(l))
    BY <1>7, <1>8 DEF Lanes
  <1> QED
    BY <1>2, <1>4, <1>5, <1>6, <1>7, <1>8, <1>9 DEF todo, rest

LEMMA CopiesAre ==
  ASSUME NEW m \in Message, NEW n \in Nat
  PROVE  Copies(m, n) \in Seq(Message)
  BY IsASeq DEF Copies

LEMMA SubscribersAreFinite ==
  ASSUME MessageQueueAssumption
  PROVE  Cardinality(Subscribers) \in Nat /\ \A n \in Reached : n \in Nat
  <1>1. Cardinality(Subscribers) \in Nat
    BY FS_Subset, FS_CardinalityType DEF MessageQueueAssumption, Subscribers
  <1>2. Cardinality({s \in Session : link[s] \in {"opening", "open", "closing"}}) \in Nat
    BY FS_Subset, FS_CardinalityType DEF MessageQueueAssumption
  <1> QED
    BY <1>1, <1>2 DEF Reached

LEMMA InvInit ==
  ASSUME MessageQueueAssumption
  PROVE  Init => IInv
  <1> SUFFICES ASSUME Init PROVE IInv
    OBVIOUS
  <1>1. log = <<>> /\ Len(log) = 0 /\ DOMAIN log = {} /\ Range(log) = {}
    BY EmptySeq DEF Init, Range
  <1>2. Types
    BY <1>1, EmptySeq
       DEF Init, Types, IsInjective, Consumer, NewConsumer, Closing, LinkState,
           MessageQueueAssumption
  <1>3. Lanes(lane) /\ \A l \in Lane : lane[l].at = "idle" /\ lane[l].todo = <<>>
    BY EmptySeq DEF Init, Lanes, LaneState, Idle
  <1>4. SentOnce /\ SettlingIsHandled /\ IdleIsUnlinked
    BY <1>1, <1>3 DEF Init, SentOnce, SettlingIsHandled, IdleIsUnlinked
  <1>5. LanesHoldLog
    BY <1>3 DEF LanesHoldLog, Range
  <1>6. OneAtTheOffset
    BY <1>3 DEF OneAtTheOffset, Chain, Lane
  <1>7. OffsetsAreHandled
    <2>1. UpTo(0) = {}
      BY DEF UpTo
    <2> QED
      BY <1>1, <2>1 DEF OffsetsAreHandled, Init, NewConsumer
  <1> QED
    BY <1>2, <1>3, <1>4, <1>5, <1>6, <1>7 DEF IInv, Init

-----------------------------------------------------------------------------
(* Steps that leave the log, the lanes and what was handled alone.         *)

\* While a handler runs, no kafka reader leaves and none sets the offset.
ReaderStays ==
  provider = "kafka" /\ lane[Chain].at # "idle" =>
    /\ consumer'.next = consumer.next
    /\ \A s \in Session : link[s] \in {"open", "closing"} => link'[s] \in {"open", "closing"}

LEMMA QuietKeeps ==
  ASSUME IInv, UNCHANGED <<provider, producer, outbox, log, settled, lane, crashes, handled>>,
         out' \subseteq Range(log), owed' \subseteq Message, sole' \subseteq Session,
         call' \in [Session -> {"idle", "running", "ended"}], signal' \subseteq Session,
         link' \in [Session -> LinkState],
         consumer' \in Consumer, consumer'.next <= Len(log), closing' \in Closing,
         \A s \in Session : call'[s] = "idle" => link'[s] = "none",
         ReaderStays,
         provider = "kafka" => UpTo(consumer'.next) \subseteq handled
  PROVE  IInv'
  <1>1. Types'
    BY DEF IInv, Types
  <1>2. /\ Lanes(lane)' /\ SentOnce' /\ LanesHoldLog' /\ SettlingIsHandled'
        /\ IdleIsUnlinked' /\ (settled \subseteq handled)'
    BY DEF IInv, Lanes, SentOnce, LanesHoldLog, Durable, SettlingIsHandled, Current,
           IdleIsUnlinked
  <1>3. OneAtTheOffset'
    BY DEF IInv, OneAtTheOffset, ReaderStays
  <1>4. OffsetsAreHandled'
    BY DEF IInv, OffsetsAreHandled, UpTo
  <1> QED
    BY <1>1, <1>2, <1>3, <1>4 DEF IInv

LEMMA BrokerForgets ==
  ASSUME IInv, \/ \E m \in Message : Lapse(m)
               \/ \E s \in Session : ReceiveFails(s)
  PROVE  IInv'
  <1>1. /\ UNCHANGED <<provider, producer, outbox, log, settled, lane, crashes, handled, owed,
                       sole, call, signal, link, consumer, closing>>
        /\ out' \subseteq Range(log)
    BY DEF Lapse, ReceiveFails, Visible, IInv, Types
  <1>2. ReaderStays
    BY <1>1 DEF ReaderStays
  <1> QED
    BY <1>1, <1>2, QuietKeeps DEF IInv, Types, IdleIsUnlinked, OffsetsAreHandled

\* #stop(): it leaves the offset alone and disconnects, or lets be, what is open.
LEMMA StopIs ==
  ASSUME IInv, NEW ln \in [Session -> LinkState], Stop(ln)
  PROVE  /\ consumer' \in Consumer /\ consumer'.next = consumer.next
         /\ call' \in [Session -> {"idle", "running", "ended"}]
         /\ link' \in [Session -> LinkState]
         /\ \A s \in Session : call'[s] = "idle" => call[s] = "idle"
         /\ \A s \in Session : ln[s] = "none" => link'[s] = "none"
         /\ \A s \in Session : ln[s] \in {"open", "closing"} => link'[s] \in {"open", "closing"}
  <1>1. CASE consumer.stopped
    BY <1>1 DEF Stop, IInv, Types
  <1>2. CASE ~consumer.stopped
    <2>1. /\ consumer' = [consumer EXCEPT !.stopped = TRUE]
          /\ link' = [s \in Session |->
                       IF \/ provider = "kafka" /\ ln[s] = "open"
                          \/ /\ provider = "redis" /\ s = consumer.latest
                             /\ ln[s] \in {"opening", "open", "bare"}
                         THEN "closing" ELSE ln[s]]
          /\ call' = [s \in Session |->
                       IF s = consumer.latest THEN "ended" ELSE call[s]]
      BY <1>2 DEF Stop
    <2>2. consumer' \in Consumer /\ consumer'.next = consumer.next
      BY <2>1 DEF IInv, Types, Consumer
    <2>3. call' \in [Session -> {"idle", "running", "ended"}]
      BY <2>1 DEF IInv, Types
    <2>4. link' \in [Session -> LinkState]
      BY <2>1 DEF LinkState
    <2> QED
      BY <2>1, <2>2, <2>3, <2>4
  <1> QED
    BY <1>1, <1>2

LEMMA CallsKeep ==
  ASSUME MessageQueueAssumption, IInv, NEW s \in Session,
         ConsumeAborted(s) \/ Consume(s) \/ Abort(s)
  PROVE  IInv'
  <1>1. CASE ConsumeAborted(s)
    <2>1. UNCHANGED <<provider, producer, outbox, log, settled, lane, crashes, handled, owed,
                      sole, out, signal, link, consumer, closing>>
      BY <1>1 DEF ConsumeAborted
    <2>2. /\ call' \in [Session -> {"idle", "running", "ended"}]
          /\ \A t \in Session : call'[t] = "idle" => call[t] = "idle"
      BY <1>1 DEF ConsumeAborted, IInv, Types
    <2>3. ReaderStays
      BY <2>1 DEF ReaderStays
    <2> QED
      BY <2>1, <2>2, <2>3, QuietKeeps DEF IInv, Types, IdleIsUnlinked, OffsetsAreHandled
  <1>2. CASE Consume(s)
    <2> DEFINE to == CASE provider \in {"redis", "kafka"} -> "opening"
                       [] provider = "memory"             -> "open"
                       [] provider = "pubsub"             ->
                            IF closing.at = "no" THEN "open" ELSE "closed"
                       [] provider = "sqs"                -> "none"
    <2>1. UNCHANGED <<provider, producer, outbox, log, settled, lane, crashes, handled, owed,
                      out, signal, closing>>
      BY <1>2 DEF Consume
    <2>2. call[s] = "idle" /\ call' = [call EXCEPT ![s] = "running"]
            /\ link' = [link EXCEPT ![s] = to]
      BY <1>2 DEF Consume
    <2>3. to \in LinkState
      BY DEF IInv, Types, MessageQueueAssumption, LinkState
    <2> HIDE DEF to
    <2>4. /\ call' \in [Session -> {"idle", "running", "ended"}]
          /\ link' \in [Session -> LinkState] /\ call'[s] # "idle"
          /\ \A t \in Session \ {s} : call'[t] = call[t] /\ link'[t] = link[t]
      BY <2>2, <2>3 DEF IInv, Types
    <2>5. consumer' \in Consumer /\ consumer'.next = consumer.next /\ sole' \subseteq Session
      BY <1>2 DEF Consume, IInv, Types, Consumer
    <2>6. link[s] = "none"
      BY <2>2 DEF IInv, IdleIsUnlinked
    <2>7. ReaderStays
      BY <2>4, <2>5, <2>6 DEF ReaderStays
    <2> QED
      BY <2>1, <2>4, <2>5, <2>7, QuietKeeps DEF IInv, Types, IdleIsUnlinked, OffsetsAreHandled
  <1>3. CASE Abort(s)
    <2>1. UNCHANGED <<provider, producer, outbox, log, settled, lane, crashes, handled, owed,
                      sole, out, closing>> /\ signal' \subseteq Session
      BY <1>3 DEF Abort, IInv, Types
    <2>2. /\ consumer' \in Consumer /\ consumer'.next = consumer.next
          /\ call' \in [Session -> {"idle", "running", "ended"}]
          /\ link' \in [Session -> LinkState]
          /\ \A t \in Session : call'[t] = "idle" => link'[t] = "none"
          /\ provider = "kafka" =>
               \A t \in Session : link[t] \in {"open", "closing"} => link'[t] \in {"open", "closing"}
      <3>1. CASE UNCHANGED <<call, link, consumer>>
        BY <3>1 DEF IInv, Types, IdleIsUnlinked
      <3>2. CASE provider \in {"redis", "kafka"} /\ Stop(link)
        BY <3>2, StopIs DEF IInv, Types, IdleIsUnlinked
      <3>3. CASE /\ provider \in {"memory", "pubsub"}
                 /\ call' = [call EXCEPT ![s] = "ended"]
                 /\ link' = [link EXCEPT ![s] =
                               IF provider = "memory" \/ @ = "closed"
                                 THEN "closed" ELSE "closing"]
                 /\ UNCHANGED consumer
        BY <3>3 DEF IInv, Types, IdleIsUnlinked, LinkState
      <3> QED
        BY <1>3, <3>1, <3>2, <3>3 DEF Abort
    <2>3. ReaderStays
      BY <2>2 DEF ReaderStays
    <2> QED
      BY <2>1, <2>2, <2>3, QuietKeeps DEF IInv, Types, OffsetsAreHandled
  <1> QED
    BY <1>1, <1>2, <1>3

\* Where a reader goes on: everything before it was handled, its group having a
\* committed offset.
LEMMA ResumeIs ==
  ASSUME IInv, ~FreshGroup, provider = "kafka"
  PROVE  Resume \in Nat /\ Resume <= Len(log) /\ UpTo(Resume) \subseteq handled
  <1>1. Len(log) \in Nat /\ DOMAIN log = 1..Len(log)
    BY LogTypes DEF IInv
  <1>2. CASE settled = {}
    <2>1. Resume = 0
      BY <1>2 DEF Resume
    <2>2. UpTo(0) = {}
      BY DEF UpTo
    <2> QED
      BY <1>1, <2>1, <2>2
  <1>3. CASE settled # {}
    <2>1. PICK n \in 0..Len(log) : settled = UpTo(n)
      BY DEF IInv, OffsetsAreHandled
    <2>2. n # 0
      BY <1>3, <2>1 DEF UpTo
    <2>3. n \in DOMAIN log /\ settled = {log[i] : i \in 1..n}
      BY <1>1, <2>1, <2>2 DEF UpTo
    <2>4. Resume \in DOMAIN log /\ settled = {log[i] : i \in 1..Resume}
      BY <1>3, <2>3 DEF Resume
    <2> QED
      BY <1>1, <2>4 DEF UpTo, IInv
  <1> QED
    BY <1>2, <1>3

LEMMA SetupKeeps ==
  ASSUME MessageQueueAssumption, ~FreshGroup, IInv, NEW s \in Session,
         SetupSucceeds(s) \/ SetupFails(s) \/ Disconnected(s) \/ LoopEnds(s)
  PROVE  IInv'
  <1>1. CASE SetupSucceeds(s)
    <2>1. UNCHANGED <<provider, producer, outbox, log, settled, lane, crashes, handled, owed,
                      sole, out, call, signal, closing>>
            /\ link' = [link EXCEPT ![s] = "open"] /\ link[s] = "opening"
      BY <1>1 DEF SetupSucceeds
    <2>2. link' \in [Session -> LinkState] /\ \A t \in Session \ {s} : link'[t] = link[t]
      BY <2>1 DEF IInv, Types, LinkState
    <2>3. /\ consumer' \in Consumer /\ consumer'.next <= Len(log)
          /\ provider = "kafka" => UpTo(consumer'.next) \subseteq handled
      <3>1. CASE provider = "kafka"
        <4>1. consumer' = [consumer EXCEPT !.next = Resume]
          BY <1>1, <3>1 DEF SetupSucceeds
        <4> QED
          BY <3>1, <4>1, ResumeIs DEF IInv, Types, Consumer
      <3>2. CASE provider # "kafka"
        BY <1>1, <3>2 DEF SetupSucceeds, IInv, Types
      <3> QED
        BY <3>1, <3>2
    <2>4. provider = "kafka" => lane[Chain].at = "idle"
      BY <1>1 DEF SetupSucceeds, MayStart, IInv, OneAtTheOffset
    <2>5. ReaderStays
      BY <2>4 DEF ReaderStays
    <2> QED
      BY <2>1, <2>2, <2>3, <2>5, QuietKeeps DEF IInv, Types, IdleIsUnlinked
  <1>2. CASE SetupFails(s)
    <2> DEFINE ln == [link EXCEPT ![s] = IF provider = "kafka" THEN "closed" ELSE "bare"]
    <2>1. UNCHANGED <<provider, producer, outbox, log, settled, lane, crashes, handled, owed,
                      sole, out, signal, closing>> /\ Stop(ln) /\ link[s] = "opening"
      BY <1>2 DEF SetupFails
    <2>2. ln \in [Session -> LinkState] /\ \A t \in Session \ {s} : ln[t] = link[t]
      BY DEF IInv, Types, LinkState
    <2> HIDE DEF ln
    <2>3. ReaderStays
      BY <2>1, <2>2, StopIs DEF ReaderStays
    <2>4. \A t \in Session : call'[t] = "idle" => link'[t] = "none"
      BY <2>1, <2>2, StopIs DEF IInv, IdleIsUnlinked
    <2> QED
      BY <2>1, <2>2, <2>3, <2>4, StopIs, QuietKeeps DEF IInv, Types, OffsetsAreHandled
  <1>3. CASE Disconnected(s)
    <2>1. UNCHANGED <<provider, producer, outbox, log, settled, lane, crashes, handled, owed,
                      sole, out, call, signal, consumer, closing>>
            /\ link' = [link EXCEPT ![s] = "closed"] /\ link[s] = "closing"
            /\ (provider = "kafka" => lane[Chain] = Idle)
      BY <1>3 DEF Disconnected
    <2>2. link' \in [Session -> LinkState] /\ \A t \in Session \ {s} : link'[t] = link[t]
      BY <2>1 DEF IInv, Types, LinkState
    <2>3. ReaderStays
      BY <2>1 DEF ReaderStays, Idle
    <2> QED
      BY <2>1, <2>2, <2>3, QuietKeeps DEF IInv, Types, IdleIsUnlinked, OffsetsAreHandled
  <1>4. CASE LoopEnds(s)
    <2>1. UNCHANGED <<provider, producer, outbox, log, settled, lane, crashes, handled, owed,
                      sole, out, signal, link, consumer, closing>>
            /\ call' = [call EXCEPT ![s] = "ended"]
      BY <1>4 DEF LoopEnds
    <2>2. /\ call' \in [Session -> {"idle", "running", "ended"}]
          /\ \A t \in Session : call'[t] = "idle" => call[t] = "idle"
      BY <2>1 DEF IInv, Types
    <2>3. ReaderStays
      BY <2>1 DEF ReaderStays
    <2> QED
      BY <2>1, <2>2, <2>3, QuietKeeps DEF IInv, Types, IdleIsUnlinked, OffsetsAreHandled
  <1> QED
    BY <1>1, <1>2, <1>3, <1>4

LEMMA CloseKeeps ==
  ASSUME MessageQueueAssumption, ~FreshGroup, IInv, ReaderCrashes \/ Close \/ Drained \/ Closed
  PROVE  IInv'
  <1>1. CASE ReaderCrashes
    <2>1. UNCHANGED <<provider, producer, outbox, log, settled, lane, crashes, handled, owed,
                      sole, out, signal, closing>>
            /\ provider = "kafka" /\ lane[Chain] = Idle
      BY <1>1 DEF ReaderCrashes
    <2>2. ReaderStays
      BY <2>1 DEF ReaderStays, Idle
    <2>3. CASE consumer' = [consumer EXCEPT !.next = Resume] /\ UNCHANGED <<call, link>>
      <3>1. /\ consumer' \in Consumer /\ consumer'.next <= Len(log)
            /\ UpTo(consumer'.next) \subseteq handled
        BY <2>1, <2>3, ResumeIs DEF IInv, Types, Consumer
      <3> QED
        BY <2>1, <2>2, <2>3, <3>1, QuietKeeps DEF IInv, Types, IdleIsUnlinked
    <2>4. CASE Stop(link)
      <3>1. \A t \in Session : call'[t] = "idle" => link'[t] = "none"
        BY <2>4, StopIs DEF IInv, Types, IdleIsUnlinked
      <3> QED
        BY <2>1, <2>2, <2>4, <3>1, StopIs, QuietKeeps DEF IInv, Types, OffsetsAreHandled
    <2> QED
      BY <1>1, <2>3, <2>4 DEF ReaderCrashes
  <1>2. CASE Close
    <2>1. UNCHANGED <<provider, producer, outbox, log, settled, lane, crashes, handled, owed,
                      sole, out, signal>>
      BY <1>2 DEF Close
    <2>2. /\ consumer' \in Consumer /\ consumer'.next = consumer.next
          /\ call' \in [Session -> {"idle", "running", "ended"}]
          /\ \A t \in Session : call'[t] = "idle" => call[t] = "idle"
      <3>1. CASE UNCHANGED <<consumer, call>>
        BY <3>1 DEF IInv, Types
      <3>2. CASE /\ consumer' = [consumer EXCEPT !.stopped = TRUE]
                 /\ call' = [s \in Session |->
                               IF s = consumer.latest THEN "ended" ELSE call[s]]
        BY <3>2 DEF IInv, Types, Consumer
      <3> QED
        BY <1>2, <3>1, <3>2 DEF Close
    <2>3. link' = [s \in Session |->
                CASE provider = "kafka" /\ link[s] = "open" -> "closing"
                  [] provider = "pubsub" /\ link[s] # "none" -> "closed"
                  [] OTHER -> link[s]]
      BY <1>2 DEF Close
    <2>4. /\ link' \in [Session -> LinkState]
          /\ \A t \in Session : link[t] = "none" => link'[t] = "none"
          /\ provider = "kafka" =>
               \A t \in Session : link[t] \in {"open", "closing"} => link'[t] \in {"open", "closing"}
      BY <2>3 DEF IInv, Types, LinkState
    <2>5. closing' \in Closing
      <3>1. lane[Chain].todo \in Seq(Message)
        BY DEF IInv, Lanes, LaneState, Chain, Lane
      <3>2. Len(lane[Chain].todo) \in Nat
        BY <3>1, LenProperties
      <3>3. consumer.stopped \in BOOLEAN
        BY DEF IInv, Types, Consumer
      <3> QED
        BY <1>2, <3>2, <3>3 DEF Close, Closing
    <2>6. ReaderStays
      BY <2>2, <2>4 DEF ReaderStays
    <2> QED
      BY <2>1, <2>2, <2>4, <2>5, <2>6, QuietKeeps DEF IInv, Types, IdleIsUnlinked, OffsetsAreHandled
  <1>3. CASE Drained
    <2>1. UNCHANGED <<provider, producer, outbox, log, settled, lane, crashes, handled, owed,
                      sole, out, call, signal, consumer>>
            /\ closing' = [at |-> IF closing.already THEN "done" ELSE "quitting",
                           left |-> 0, already |-> FALSE]
            /\ link' = [s \in Session |->
                IF /\ ~closing.already /\ s = consumer.latest
                   /\ link[s] \in {"opening", "open", "bare"}
                  THEN "closing" ELSE link[s]]
      BY <1>3 DEF Drained
    <2>2. /\ link' \in [Session -> LinkState] /\ closing' \in Closing
          /\ \A t \in Session : link[t] = "none" => link'[t] = "none"
          /\ \A t \in Session : link[t] \in {"open", "closing"} => link'[t] \in {"open", "closing"}
      BY <2>1 DEF IInv, Types, LinkState, Closing
    <2>3. ReaderStays
      BY <2>1, <2>2 DEF ReaderStays
    <2> QED
      BY <2>1, <2>2, <2>3, QuietKeeps DEF IInv, Types, IdleIsUnlinked, OffsetsAreHandled
  <1>4. CASE Closed
    <2>1. UNCHANGED <<provider, producer, outbox, log, settled, lane, crashes, handled, owed,
                      sole, out, call, signal, link, consumer>>
            /\ closing' \in Closing
      BY <1>4 DEF Closed, IInv, Types, Closing
    <2>2. ReaderStays
      BY <2>1 DEF ReaderStays
    <2> QED
      BY <2>1, <2>2, QuietKeeps DEF IInv, Types, IdleIsUnlinked, OffsetsAreHandled
  <1> QED
    BY <1>1, <1>2, <1>3, <1>4

-----------------------------------------------------------------------------
(* Publishing.                                                             *)

\* The log is as it was, or has m at its end.
LEMMA AcceptKeeps ==
  ASSUME MessageQueueAssumption, IInv, NEW m \in Message,
         UNCHANGED <<provider, settled, out, call, signal, link, consumer, closing, crashes,
                     handled, owed, sole>>,
         producer' \in {"unset", "up", "failed"},
         outbox[m] = "sending", outbox' = [outbox EXCEPT ![m] = "over"], Accept(m)
  PROVE  IInv'
  <1>1. m \notin Range(log)
    BY DEF IInv, SentOnce
  <1>2. outbox' \in [Message -> {"idle", "sending", "over"}]
          /\ outbox'[m] = "over" /\ \A k \in Message \ {m} : outbox'[k] = outbox[k]
    BY DEF IInv, Types
  <1>3. /\ Len(log) \in Nat /\ DOMAIN log = 1..Len(log) /\ Range(log) \subseteq Message
        /\ consumer.next \in Nat /\ consumer.next <= Len(log)
    BY LogTypes DEF IInv
  <1>4. CASE Durable
    <2>1. log' = Append(log, m) /\ UNCHANGED lane
      BY <1>4 DEF Accept
    <2>2. /\ log' \in Seq(Message) /\ IsInjective(log') /\ Len(log') = Len(log) + 1
          /\ \A i \in 1..Len(log) : log'[i] = log[i]
          /\ Range(log') = Range(log) \union {m}
      BY <1>1, <2>1, LogGrows DEF IInv
    <2>3. \A n \in 0..Len(log) : UpTo(n)' = UpTo(n)
      BY <1>3, <2>2 DEF UpTo
    <2>4. Types'
      BY <1>2, <1>3, <2>2 DEF IInv, Types
    <2>5. Lanes(lane)' /\ SettlingIsHandled' /\ IdleIsUnlinked' /\ (settled \subseteq handled)'
      BY <2>1 DEF IInv, Lanes, SettlingIsHandled, Current, IdleIsUnlinked
    <2>6. SentOnce'
      BY <1>2, <1>3, <2>2 DEF IInv, SentOnce
    <2>7. LanesHoldLog'
      BY <1>4, <2>1, <2>2 DEF IInv, LanesHoldLog, Durable
    <2>8. OneAtTheOffset'
      <3>1. consumer.next < Len(log) => log'[consumer.next + 1] = log[consumer.next + 1]
        BY <1>3, <2>2
      <3> QED
        BY <1>3, <2>1, <2>2, <3>1 DEF IInv, OneAtTheOffset
    <2>9. OffsetsAreHandled'
      BY <1>3, <2>2, <2>3 DEF IInv, OffsetsAreHandled
    <2> QED
      BY <2>4, <2>5, <2>6, <2>7, <2>8, <2>9 DEF IInv
  <1>5. CASE ~Durable
    <2>1. PICK n \in Reached : lane' = Joined(Chain, Copies(m, n)) /\ UNCHANGED log
      BY <1>5 DEF Accept
    <2>2. Copies(m, n) \in Seq(Message) /\ Chain \in Lane
      BY CopiesAre, SubscribersAreFinite DEF Chain, Lane
    <2>3. provider \notin {"kafka", "sqs"}
      BY <1>5 DEF Durable
    <2>4. Lanes(lane') /\ \A l \in Lane : lane'[l].at = "settling" => lane[l].at = "settling"
      BY <2>1, <2>2, JoinedIs DEF IInv
    <2>5. Types'
      BY <1>2, <2>1 DEF IInv, Types
    <2>6. Lanes(lane)' /\ SettlingIsHandled' /\ IdleIsUnlinked' /\ (settled \subseteq handled)'
      BY <2>3, <2>4 DEF IInv, Lanes, SettlingIsHandled, IdleIsUnlinked
    <2>7. SentOnce'
      BY <1>2, <1>3, <2>1 DEF IInv, SentOnce
    <2>8. LanesHoldLog' /\ OneAtTheOffset' /\ OffsetsAreHandled'
      BY <1>5, <2>3 DEF LanesHoldLog, OneAtTheOffset, OffsetsAreHandled, Durable
    <2> QED
      BY <2>5, <2>6, <2>7, <2>8 DEF IInv
  <1> QED
    BY <1>4, <1>5

\* A step that moves one lane and keeps what has landed.
LEMMA DeliveryKeeps ==
  ASSUME IInv, NEW l \in Lane,
         UNCHANGED <<provider, log, call, signal, link, producer, crashes, sole>>,
         outbox' \in [Message -> {"idle", "sending", "over"}],
         \A m \in Message : outbox[m] = "over" => outbox'[m] = "over",
         out' \subseteq Range(log), settled' \subseteq Range(log),
         closing' \in Closing, consumer' \in Consumer, consumer'.next <= Len(log),
         handled \subseteq handled', handled' \subseteq Message, owed' \subseteq Message,
         settled' \subseteq handled',
         Lanes(lane'), \A k \in Lane \ {l} : lane'[k] = lane[k],
         Durable => Range(lane'[l].todo) \subseteq Range(log),
         lane'[l].at = "settling" =>
           provider \in {"kafka", "sqs"} /\ Head(lane'[l].todo) \in handled',
         OneAtTheOffset', OffsetsAreHandled'
  PROVE  IInv'
  <1>1. Range(log) \subseteq Message
    BY LogTypes DEF IInv
  <1>2. Types'
    BY DEF IInv, Types
  <1>3. Lanes(lane)' /\ IdleIsUnlinked'
    BY DEF IInv, Lanes, IdleIsUnlinked
  <1>4. SentOnce'
    BY <1>1 DEF IInv, SentOnce
  <1>5. LanesHoldLog'
    BY DEF IInv, LanesHoldLog, Durable
  <1>6. SettlingIsHandled'
    BY DEF IInv, SettlingIsHandled, Current
  <1> QED
    BY <1>2, <1>3, <1>4, <1>5, <1>6 DEF IInv

\* The lanes are as they were, and only publish() calls end.
LEMMA OutboxKeeps ==
  ASSUME IInv,
         UNCHANGED <<provider, log, settled, out, call, signal, link, consumer, closing, crashes,
                     handled, owed, sole, lane>>,
         producer' \in {"unset", "up", "failed"},
         outbox' \in [Message -> {"idle", "sending", "over"}],
         \A m \in Message : outbox[m] = "over" => outbox'[m] = "over"
  PROVE  IInv'
  <1>1. Range(log) \subseteq Message
    BY LogTypes DEF IInv
  <1>2. Types' /\ Lanes(lane)' /\ IdleIsUnlinked'
    BY DEF IInv, Types, Lanes, IdleIsUnlinked
  <1>3. SentOnce' /\ LanesHoldLog' /\ SettlingIsHandled'
    BY <1>1 DEF IInv, SentOnce, LanesHoldLog, Durable, SettlingIsHandled, Current
  <1>4. OneAtTheOffset' /\ OffsetsAreHandled'
    BY DEF IInv, OneAtTheOffset, OffsetsAreHandled, UpTo
  <1> QED
    BY <1>2, <1>3, <1>4 DEF IInv

LEMMA PublishKeeps ==
  ASSUME MessageQueueAssumption, IInv, NEW m \in Message,
         Publish(m) \/ PublishLands(m) \/ PublishFails(m)
  PROVE  IInv'
  <1>1. CASE Publish(m)
    <2>1. UNCHANGED <<provider, producer, log, settled, out, call, signal, link,
                      consumer, closing, crashes, handled, owed, sole>>
            /\ outbox[m] = "idle"
      BY <1>1 DEF Publish
    <2>2. /\ outbox' \in [Message -> {"idle", "sending", "over"}]
          /\ \A k \in Message : outbox[k] = "over" => outbox'[k] = "over"
      <3>1. PICK to \in {"sending", "over"} : outbox' = [outbox EXCEPT ![m] = to]
        BY <1>1 DEF Publish
      <3> QED
        BY <2>1, <3>1 DEF IInv, Types
    <2>3. CASE provider # "memory"
      <3>1. UNCHANGED lane
        BY <1>1, <2>3 DEF Publish
      <3> QED
        BY <2>1, <2>2, <3>1, OutboxKeeps DEF IInv, Types
    <2>4. CASE provider = "memory"
      <3> DEFINE l == <<m, None>>
                 q == Copies(m, Cardinality(Subscribers))
      <3>1. lane' = Joined(l, q)
        BY <1>1, <2>4 DEF Publish
      <3>2. l \in Lane /\ q \in Seq(Message)
        BY CopiesAre, SubscribersAreFinite DEF Lane
      <3> HIDE DEF l, q
      <3>3. /\ Lanes(lane') /\ \A k \in Lane \ {l} : lane'[k] = lane[k]
            /\ lane'[l].at = "settling" => lane[l].at = "settling"
        BY <3>1, <3>2, JoinedIs DEF IInv
      <3>4. lane'[l].at # "settling"
        BY <2>4, <3>2, <3>3 DEF IInv, SettlingIsHandled
      <3>5. ~Durable /\ OneAtTheOffset' /\ OffsetsAreHandled'
        BY <2>1, <2>4 DEF Durable, OneAtTheOffset, OffsetsAreHandled
      <3> QED
        BY <2>1, <2>2, <3>2, <3>3, <3>4, <3>5, DeliveryKeeps DEF IInv, Types
    <2> QED
      BY <2>3, <2>4
  <1>2. CASE PublishLands(m)
    <2>1. producer' \in {"unset", "up", "failed"}
      BY <1>2 DEF PublishLands, IInv, Types
    <2> QED
      BY <1>2, <2>1, AcceptKeeps DEF PublishLands
  <1>3. CASE PublishFails(m)
    <2>1. /\ UNCHANGED <<provider, settled, out, call, signal, link, consumer, closing, crashes,
                         handled, owed, sole>>
          /\ outbox[m] = "sending" /\ outbox' = [outbox EXCEPT ![m] = "over"]
          /\ producer' \in {"unset", "up", "failed"}
          /\ UNCHANGED <<log, lane>> \/ Accept(m)
      BY <1>3 DEF PublishFails, IInv, Types
    <2>2. /\ outbox' \in [Message -> {"idle", "sending", "over"}]
          /\ \A k \in Message : outbox[k] = "over" => outbox'[k] = "over"
      BY <2>1 DEF IInv, Types
    <2>3. CASE UNCHANGED <<log, lane>>
      BY <2>1, <2>2, <2>3, OutboxKeeps
    <2>4. CASE Accept(m)
      BY <2>1, <2>4, AcceptKeeps
    <2> QED
      BY <2>1, <2>3, <2>4
  <1> QED
    BY <1>1, <1>2, <1>3

-----------------------------------------------------------------------------
(* Deliveries.                                                             *)

LEMMA FetchKeeps ==
  ASSUME IInv, NEW s \in Session, Fetch(s)
  PROVE  IInv'
  <1> DEFINE m == log[consumer.next + 1]
  <1>1. /\ UNCHANGED <<provider, producer, outbox, log, settled, out, call, signal, link, consumer,
                       closing, crashes, handled, sole>>
        /\ provider = "kafka" /\ link[s] = "open" /\ consumer.next < Len(log)
        /\ lane[Chain] = Idle /\ lane' = Joined(Chain, <<m>>) /\ owed' = owed \ {m}
    BY DEF Fetch
  <1>2. /\ consumer.next \in Nat /\ Len(log) \in Nat /\ consumer.next + 1 \in 1..Len(log)
        /\ m \in Message /\ m \in Range(log) /\ Chain \in Lane
    BY <1>1, LogTypes DEF IInv, Chain, Lane
  <1> HIDE DEF m
  <1>3. <<m>> \in Seq(Message) /\ Range(<<m>>) = {m}
    BY <1>2 DEF Range
  <1>5. /\ Lanes(lane') /\ \A k \in Lane \ {Chain} : lane'[k] = lane[k]
        /\ lane'[Chain].at # "settling" /\ lane'[Chain].todo = <<m>>
    BY <1>1, <1>2, <1>3, JoinedIdle DEF IInv
  <1>7. OneAtTheOffset'
    BY <1>1, <1>5 DEF IInv, OneAtTheOffset, m
  <1>8. OffsetsAreHandled'
    BY <1>1 DEF IInv, OffsetsAreHandled, UpTo
  <1>9. owed' \subseteq Message
    BY <1>1 DEF IInv, Types
  <1> QED
    BY <1>1, <1>2, <1>3, <1>5, <1>7, <1>8, <1>9, DeliveryKeeps DEF IInv, Types

LEMMA ReceiveKeeps ==
  ASSUME IInv, NEW m \in Message, NEW s \in Session, Receive(m, s)
  PROVE  IInv'
  <1> DEFINE l == <<None, s>>
  <1>1. PICK got \in SUBSET Visible :
          /\ out' = out \union got /\ owed' = owed \ got
          /\ \E order \in SetToSeqs(got) : lane' = Joined(l, order)
    BY DEF Receive
  <1>2. PICK order \in SetToSeqs(got) : lane' = Joined(l, order)
    BY <1>1
  <1>3. /\ UNCHANGED <<provider, producer, outbox, log, settled, call, signal, link, consumer,
                       closing, crashes, handled, sole>>
        /\ provider = "sqs" /\ lane[l] = Idle
    BY DEF Receive
  <1>4. l \in Lane
    BY DEF Lane
  <1> HIDE DEF l
  <1>5. got \subseteq Range(log) /\ Range(log) \subseteq Message
    BY LogTypes DEF Visible, IInv
  <1>6. order \in [1..Cardinality(got) -> got] /\ Cardinality(got) \in Nat
    BY <1>5, LogIsFinite DEF SetToSeqs, IInv, Types
  <1>7. order \in Seq(Message) /\ Range(order) \subseteq got
    <2>1. order \in Seq(got)
      BY <1>6, SeqDef
    <2> QED
      BY <1>5, <1>6, <2>1, SeqMonotonic DEF Range
  <1>10. /\ Lanes(lane') /\ \A k \in Lane \ {l} : lane'[k] = lane[k]
         /\ lane'[l].at # "settling" /\ lane'[l].todo = order
    BY <1>2, <1>3, <1>4, <1>7, JoinedIdle DEF IInv
  <1>11. OneAtTheOffset' /\ OffsetsAreHandled'
    BY <1>3 DEF OneAtTheOffset, OffsetsAreHandled
  <1>12. owed' \subseteq Message /\ out' \subseteq Range(log)
    BY <1>1, <1>5 DEF IInv, Types
  <1> QED
    BY <1>3, <1>4, <1>5, <1>7, <1>10, <1>11, <1>12, DeliveryKeeps DEF IInv, Types

LEMMA PushKeeps ==
  ASSUME IInv, NEW m \in Message, NEW s \in Session, Push(m, s)
  PROVE  IInv'
  <1> DEFINE l == <<m, s>>
  <1>1. /\ UNCHANGED <<provider, producer, outbox, log, settled, call, signal, link, consumer,
                       closing, crashes, handled, sole>>
        /\ provider = "pubsub" /\ lane[l] = Idle /\ m \in Range(log)
        /\ lane' = Joined(l, <<m>>) /\ out' = out \union {m} /\ owed' = owed \ {m}
    BY DEF Push, Visible
  <1>2. l \in Lane
    BY DEF Lane
  <1> HIDE DEF l
  <1>3. <<m>> \in Seq(Message) /\ Range(<<m>>) = {m}
    BY DEF Range
  <1>5. /\ Lanes(lane') /\ \A k \in Lane \ {l} : lane'[k] = lane[k]
        /\ lane'[l].at # "settling" /\ lane'[l].todo = <<m>>
    BY <1>1, <1>2, <1>3, JoinedIdle DEF IInv
  <1>7. OneAtTheOffset' /\ OffsetsAreHandled'
    BY <1>1 DEF OneAtTheOffset, OffsetsAreHandled
  <1>8. owed' \subseteq Message /\ out' \subseteq Range(log)
    BY <1>1 DEF IInv, Types
  <1> QED
    BY <1>1, <1>2, <1>3, <1>5, <1>7, <1>8, DeliveryKeeps DEF IInv, Types

LEMMA AdvanceIs ==
  ASSUME IInv, NEW l \in Lane, lane[l].at # "idle", Advance(l)
  PROVE  /\ Lanes(lane') /\ \A k \in Lane \ {l} : lane'[k] = lane[k]
         /\ lane'[l].at # "settling"
         /\ Durable => Range(lane'[l].todo) \subseteq Range(log)
         /\ closing' \in Closing
         /\ outbox' \in [Message -> {"idle", "sending", "over"}]
         /\ \A m \in Message : outbox[m] = "over" => outbox'[m] = "over"
         /\ Current(l) \in Message
         /\ Durable => Current(l) \in Range(log)
         /\ provider = "kafka" =>
              /\ l = Chain /\ lane'[Chain].at = "idle"
              /\ consumer.next < Len(log) /\ Current(l) = log[consumer.next + 1]
  <1>1. /\ Lanes(lane') /\ \A k \in Lane \ {l} : lane'[k] = lane[k]
        /\ lane'[l].at # "settling"
        /\ Range(lane'[l].todo) \subseteq Range(lane[l].todo)
        /\ Current(l) \in Message /\ Current(l) \in Range(lane[l].todo)
        /\ Current(l) = lane[l].todo[1]
        /\ Len(lane[l].todo) = 1 => lane'[l].at = "idle"
    BY AdvancedIs DEF Advance, IInv
  <1>2. Durable => Range(lane[l].todo) \subseteq Range(log)
    BY DEF IInv, LanesHoldLog
  <1>3. closing' \in Closing
    BY DEF Advance, IInv, Types, Closing
  <1>4. /\ outbox' \in [Message -> {"idle", "sending", "over"}]
        /\ \A m \in Message : outbox[m] = "over" => outbox'[m] = "over"
    BY <1>1 DEF Advance, IInv, Types
  <1>5. ASSUME provider = "kafka"
        PROVE  /\ l = Chain /\ lane'[Chain].at = "idle"
               /\ consumer.next < Len(log) /\ Current(l) = log[consumer.next + 1]
    <2>1. l = Chain
      BY <1>5 DEF IInv, OneAtTheOffset
    <2>2. consumer.next < Len(log) /\ lane[l].todo = <<log[consumer.next + 1]>>
      BY <1>5, <2>1 DEF IInv, OneAtTheOffset
    <2>3. Len(lane[l].todo) = 1 /\ lane[l].todo[1] = log[consumer.next + 1]
      BY <2>2
    <2> QED
      BY <1>1, <2>1, <2>2, <2>3
  <1> QED
    BY <1>1, <1>2, <1>3, <1>4, <1>5

LEMMA HandlerKeeps ==
  ASSUME IInv, NEW l \in Lane, HandlerReturns(l) \/ HandlerThrows(l)
  PROVE  IInv'
  <1>1. /\ Len(log) \in Nat /\ Range(log) \subseteq Message /\ lane[l].at = "handling"
        /\ lane[l] \in LaneState
    BY LogTypes DEF IInv, HandlerReturns, HandlerThrows, Lanes
  <1>2. CASE HandlerReturns(l) /\ provider \in {"kafka", "sqs"}
    <2>1. /\ UNCHANGED <<provider, producer, outbox, log, settled, out, call, signal, link,
                         consumer, closing, crashes, owed, sole>>
          /\ handled' = handled \union {Current(l)}
          /\ lane' = [lane EXCEPT ![l].at = "settling"]
      BY <1>2 DEF HandlerReturns, Durable
    <2>2. /\ Current(l) \in Message /\ lane[l].todo # <<>>
      BY <1>1, AdvancedIs DEF IInv, Lanes
    <2>3. /\ lane'[l].at = "settling" /\ lane'[l].todo = lane[l].todo
          /\ lane'[l] \in LaneState
          /\ \A k \in Lane \ {l} : lane'[k] = lane[k]
          /\ lane' \in [Lane -> LaneState]
      BY <1>1, <2>1 DEF IInv, Lanes, LaneState
    <2>4. Lanes(lane')
      BY <2>2, <2>3 DEF IInv, Lanes
    <2>5. OneAtTheOffset'
      BY <1>1, <2>1, <2>3 DEF IInv, OneAtTheOffset
    <2>6. OffsetsAreHandled'
      BY <2>1 DEF IInv, OffsetsAreHandled, UpTo
    <2>7. handled' \subseteq Message /\ settled' \subseteq handled'
      BY <2>1, <2>2 DEF IInv, Types
    <2>8. Durable => Range(lane'[l].todo) \subseteq Range(log)
      BY <2>3 DEF IInv, LanesHoldLog
    <2>9. Head(lane'[l].todo) \in handled'
      BY <2>1, <2>3 DEF Current
    <2> QED
      BY <1>2, <2>1, <2>3, <2>4, <2>5, <2>6, <2>7, <2>8, <2>9, DeliveryKeeps DEF IInv, Types
  <1>3. CASE HandlerReturns(l) /\ provider \notin {"kafka", "sqs"}
    <2>1. /\ UNCHANGED <<provider, producer, log, out, call, signal, link, consumer, crashes,
                         owed, sole>>
          /\ Advance(l)
          /\ handled' = IF Durable THEN handled \union {Current(l)} ELSE handled
          /\ \/ UNCHANGED settled
             \/ provider = "pubsub" /\ settled' = settled \union {Current(l)}
      BY <1>3 DEF HandlerReturns
    <2>2. handled' \subseteq Message /\ handled \subseteq handled'
      BY <1>1, <2>1, AdvanceIs DEF IInv, Types
    <2>3. settled' \subseteq Range(log) /\ settled' \subseteq handled'
      BY <1>1, <2>1, AdvanceIs DEF IInv, Types, Durable
    <2>4. OneAtTheOffset' /\ OffsetsAreHandled'
      BY <1>3, <2>1 DEF OneAtTheOffset, OffsetsAreHandled
    <2> QED
      BY <1>1, <2>1, <2>2, <2>3, <2>4, AdvanceIs, DeliveryKeeps DEF IInv, Types
  <1>4. CASE HandlerThrows(l)
    <2>1. /\ UNCHANGED <<provider, producer, log, settled, call, signal, link, crashes, handled,
                         sole>>
          /\ Advance(l) /\ consumer' = [consumer EXCEPT !.next = consumer.next]
          /\ out' \subseteq out
          /\ owed' = IF Durable THEN owed \union {Current(l)} ELSE owed
      BY <1>4 DEF HandlerThrows, NextAfterFailure
    <2>2. consumer' = consumer
      BY <2>1 DEF IInv, Types, Consumer
    <2>3. owed' \subseteq Message /\ out' \subseteq Range(log)
      BY <1>1, <2>1, AdvanceIs DEF IInv, Types
    <2>4. OneAtTheOffset'
      BY <1>1, <2>1, AdvanceIs DEF OneAtTheOffset, IInv
    <2>5. OffsetsAreHandled'
      BY <2>1, <2>2 DEF IInv, OffsetsAreHandled, UpTo
    <2> QED
      BY <1>1, <2>1, <2>2, <2>3, <2>4, <2>5, AdvanceIs, DeliveryKeeps DEF IInv, Types
  <1> QED
    BY <1>2, <1>3, <1>4

\* What a kafka commit settles: the log up to the message.
LEMMA SettlesIs ==
  ASSUME IInv, NEW l \in Lane, provider = "kafka",
         consumer.next < Len(log), Current(l) = log[consumer.next + 1]
  PROVE  Settles(l) = UpTo(consumer.next + 1)
  <1> DEFINE n == consumer.next + 1
             upTo == {j \in DOMAIN log : \A k \in 1..(j - 1) : log[k] # Current(l)}
  <1>1. /\ DOMAIN log = 1..Len(log) /\ Len(log) \in Nat /\ n \in 1..Len(log)
        /\ \A i, j \in 1..Len(log) : log[i] = log[j] => i = j
    BY LogTypes DEF IInv, Types, IsInjective
  <1>2. Settles(l) = {log[i] : i \in upTo}
    BY DEF Settles
  <1> HIDE DEF n
  <1>3. upTo = 1..n
    <2>1. ASSUME NEW j \in 1..n PROVE j \in upTo
      <3>1. j \in 1..Len(log) /\ \A k \in 1..(j - 1) : k \in 1..Len(log) /\ k # n
        BY <1>1, <2>1
      <3> QED
        BY <1>1, <3>1 DEF n
    <2>2. ASSUME NEW j \in upTo PROVE j \in 1..n
      <3>1. j \in 1..Len(log) /\ n \notin 1..(j - 1)
        BY <1>1, <2>2 DEF n
      <3> QED
        BY <1>1, <3>1
    <2> QED
      BY <2>1, <2>2
  <1> QED
    BY <1>2, <1>3 DEF UpTo, n

\* Told that a delivery is done, the broker settles what was handled.
LEMMA SettledIs ==
  ASSUME IInv, NEW l \in Lane, lane[l].at = "settling", Advance(l),
         UNCHANGED <<log, provider, handled>>,
         settled' \in {settled, settled \union Settles(l)}
  PROVE  /\ settled' \subseteq Range(log) /\ settled' \subseteq handled
         /\ provider = "kafka" =>
              /\ \E n \in 0..Len(log) : settled' = UpTo(n)
              /\ UpTo(consumer.next + 1) \subseteq handled
  <1>1. Current(l) \in handled /\ provider \in {"kafka", "sqs"} /\ Durable
    BY DEF IInv, SettlingIsHandled, Durable
  <1>2. Current(l) \in Range(log)
    BY <1>1, AdvanceIs
  <1>3. CASE provider = "kafka"
    <2> DEFINE next == consumer.next + 1
    <2>1. /\ DOMAIN log = 1..Len(log) /\ Len(log) \in Nat /\ next \in 1..Len(log)
          /\ consumer.next \in Nat /\ Current(l) = log[next]
          /\ \A i \in 1..Len(log) : log[i] \in Range(log)
      BY <1>1, <1>3, AdvanceIs, LogTypes DEF IInv
    <2>2. Settles(l) = UpTo(next)
      BY <1>1, <1>3, AdvanceIs, SettlesIs
    <2>3. UpTo(next) = UpTo(consumer.next) \union {Current(l)}
      BY <2>1 DEF UpTo
    <2>4. UpTo(next) \subseteq handled
      BY <1>1, <1>3, <2>3 DEF IInv, OffsetsAreHandled
    <2>5. UpTo(next) \subseteq Range(log)
      BY <2>1 DEF UpTo
    <2>6. PICK n \in 0..Len(log) : settled = UpTo(n)
      BY <1>3 DEF IInv, OffsetsAreHandled
    <2> HIDE DEF next
    <2>7. settled \union UpTo(next) = UpTo(IF n < next THEN next ELSE n)
      BY <2>1, <2>6 DEF UpTo
    <2>8. \E i \in 0..Len(log) : settled' = UpTo(i)
      <3>1. ASSUME settled' = settled \union Settles(l)
            PROVE  \E i \in 0..Len(log) : settled' = UpTo(i)
        <4>1. (IF n < next THEN next ELSE n) \in 0..Len(log)
          BY <2>1, <2>6
        <4> QED
          BY <2>2, <2>7, <3>1, <4>1
      <3> QED
        BY <2>6, <3>1
    <2> QED
      BY <2>2, <2>4, <2>5, <2>8 DEF IInv, Types, next
  <1>4. CASE provider # "kafka"
    <2>1. Settles(l) = {Current(l)}
      BY <1>4 DEF Settles
    <2> QED
      BY <1>1, <1>2, <1>4, <2>1 DEF IInv, Types
  <1> QED
    BY <1>3, <1>4

LEMMA SettleKeeps ==
  ASSUME IInv, NEW l \in Lane, SettleSucceeds(l) \/ SettleFails(l)
  PROVE  IInv'
  <1>1. /\ UNCHANGED <<provider, producer, log, out, call, signal, link, crashes, handled, owed,
                       sole>>
        /\ lane[l].at = "settling" /\ Advance(l)
        /\ settled' \in {settled, settled \union Settles(l)}
    BY DEF SettleSucceeds, SettleFails
  <1>2. \/ consumer' = consumer
        \/ provider = "kafka" /\ consumer' = [consumer EXCEPT !.next = consumer.next + 1]
    <2>1. consumer = [consumer EXCEPT !.next = consumer.next]
      BY DEF IInv, Types, Consumer
    <2>2. CASE SettleSucceeds(l)
      <3>1. consumer' = IF provider = "kafka"
                          THEN [consumer EXCEPT !.next = consumer.next + 1] ELSE consumer
        BY <2>2 DEF SettleSucceeds
      <3> QED
        BY <3>1, Zenon
    <2>3. CASE SettleFails(l)
      <3>1. consumer' = [consumer EXCEPT !.next = consumer.next]
        BY <2>3 DEF SettleFails, NextAfterFailure
      <3> QED
        BY <2>1, <3>1
    <2> QED
      BY <2>2, <2>3
  <1>3. consumer.next \in Nat /\ Len(log) \in Nat /\ consumer.next <= Len(log)
    BY LogTypes DEF IInv
  <1>4. provider = "kafka" => consumer.next < Len(log)
    BY <1>1, AdvanceIs
  <1>5. /\ consumer' \in Consumer /\ consumer'.next <= Len(log)
        /\ consumer'.next \in {consumer.next, consumer.next + 1}
    BY <1>2, <1>3, <1>4 DEF IInv, Types, Consumer
  <1>6. OneAtTheOffset'
    BY <1>1, AdvanceIs DEF OneAtTheOffset, IInv
  <1>7. OffsetsAreHandled'
    <2>1. SUFFICES ASSUME provider = "kafka" PROVE OffsetsAreHandled'
      BY <1>1 DEF OffsetsAreHandled
    <2>2. UpTo(consumer.next) \subseteq handled
      BY <2>1 DEF IInv, OffsetsAreHandled
    <2>3. \A n \in Nat : UpTo(n)' = UpTo(n)
      BY <1>1 DEF UpTo
    <2>4. /\ \E n \in 0..Len(log) : settled' = UpTo(n)
          /\ UpTo(consumer.next + 1) \subseteq handled
      BY <1>1, <2>1, SettledIs
    <2>5. UpTo(consumer.next)' \subseteq handled
      BY <1>1, <1>5, <2>2, <2>4 DEF UpTo
    <2> QED
      BY <1>1, <1>3, <2>3, <2>4, <2>5 DEF OffsetsAreHandled
  <1>8. settled' \subseteq Range(log) /\ settled' \subseteq handled
    BY <1>1, SettledIs
  <1> QED
    BY <1>1, <1>5, <1>6, <1>7, <1>8, AdvanceIs, DeliveryKeeps DEF IInv, Types

LEMMA CrashKeeps ==
  ASSUME MessageQueueAssumption, IInv, Crash
  PROVE  IInv'
  <1>1. /\ UNCHANGED <<provider, log, settled, out, signal, handled, owed, sole>>
        /\ crashes' = crashes + 1 /\ crashes < MaxCrashes
        /\ outbox' = [m \in Message |-> IF outbox[m] = "sending" THEN "over" ELSE outbox[m]]
        /\ producer' = "unset"
        /\ call' = [s \in Session |-> IF call[s] = "running" THEN "ended" ELSE call[s]]
        /\ link' = [s \in Session |-> IF link[s] = "none" THEN "none" ELSE "closed"]
        /\ consumer' = NewConsumer
        /\ closing' = [at |-> "no", left |-> 0, already |-> FALSE]
        /\ lane' = [l \in Lane |-> Idle]
    BY DEF Crash
  <1>2. /\ Len(log) \in Nat /\ Range(log) \subseteq Message
    BY LogTypes DEF IInv
  <1>3. Types'
    <2>1. consumer' \in Consumer /\ consumer'.next = 0 /\ closing' \in Closing
      BY <1>1 DEF Consumer, NewConsumer, Closing
    <2>2. crashes' \in 0..MaxCrashes
      BY <1>1 DEF IInv, Types, MessageQueueAssumption
    <2>3. /\ outbox' \in [Message -> {"idle", "sending", "over"}]
          /\ call' \in [Session -> {"idle", "running", "ended"}]
          /\ link' \in [Session -> LinkState]
      BY <1>1 DEF IInv, Types, LinkState
    <2> QED
      BY <1>1, <1>2, <2>1, <2>2, <2>3 DEF IInv, Types
  <1>4. Lanes(lane)' /\ \A l \in Lane : lane'[l].at = "idle" /\ lane'[l].todo = <<>>
    BY <1>1, EmptySeq DEF Lanes, LaneState, Idle
  <1>5. SentOnce' /\ IdleIsUnlinked'
    BY <1>1, <1>2 DEF IInv, Types, SentOnce, IdleIsUnlinked
  <1>6. LanesHoldLog' /\ SettlingIsHandled' /\ OneAtTheOffset'
    BY <1>4 DEF LanesHoldLog, SettlingIsHandled, OneAtTheOffset, Chain, Lane, Range
  <1>7. OffsetsAreHandled'
    <2>1. UpTo(consumer.next)' = {}
      BY <1>1 DEF UpTo, NewConsumer
    <2>2. \A n \in Nat : UpTo(n)' = UpTo(n)
      BY <1>1 DEF UpTo
    <2>3. provider = "kafka" => \E n \in 0..Len(log) : settled' = UpTo(n)'
      BY <1>1, <1>2, <2>2 DEF IInv, OffsetsAreHandled
    <2> QED
      BY <1>1, <2>1, <2>3 DEF OffsetsAreHandled
  <1> QED
    BY <1>1, <1>3, <1>4, <1>5, <1>6, <1>7 DEF IInv

-----------------------------------------------------------------------------
LEMMA InvNext ==
  ASSUME MessageQueueAssumption, ~FreshGroup
  PROVE  IInv /\ [Next]_vars => IInv'
  <1> SUFFICES ASSUME IInv, [Next]_vars PROVE IInv'
    OBVIOUS
  <1>1. ASSUME NEW m \in Message, Publish(m) \/ PublishLands(m) \/ PublishFails(m) \/ Lapse(m)
        PROVE  IInv'
    BY <1>1, PublishKeeps, BrokerForgets
  <1>2. ASSUME NEW s \in Session,
               ConsumeAborted(s) \/ Consume(s) \/ Abort(s) \/ CallGoesOn(s) \/ ReceiveFails(s)
        PROVE  IInv'
    <2>1. CASE CallGoesOn(s)
      BY <2>1, SetupKeeps, FetchKeeps DEF CallGoesOn
    <2> QED
      BY <1>2, <2>1, CallsKeep, BrokerForgets
  <1>3. ASSUME NEW m \in Message, NEW s \in Session, Receive(m, s) \/ Push(m, s)
        PROVE  IInv'
    BY <1>3, ReceiveKeeps, PushKeeps
  <1>4. ASSUME NEW l \in Lane, DeliveryEnds(l) PROVE IInv'
    BY <1>4, HandlerKeeps, SettleKeeps DEF DeliveryEnds
  <1>5. CASE ReaderCrashes \/ Close \/ Drained \/ Closed
    BY <1>5, CloseKeeps
  <1>6. CASE Crash
    BY <1>6, CrashKeeps
  <1>7. CASE UNCHANGED vars
    <2>1. ReaderStays
      BY <1>7 DEF vars, ReaderStays
    <2> QED
      BY <1>7, <2>1, QuietKeeps
         DEF vars, IInv, Types, IdleIsUnlinked, OffsetsAreHandled
  <1> QED
    BY <1>1, <1>2, <1>3, <1>4, <1>5, <1>6, <1>7 DEF Next

\* Whatever the provider, however deliveries, commits and acks fail, calls share the
\* consumer and the process dies, what the broker will not hand out again was handled.
\* A kafka group that starts without a committed offset is left out: its reader goes to
\* the end of the log, past a first message that failed, when it joins again.
THEOREM NothingIsLost ==
  ASSUME ~FreshGroup
  PROVE  Spec => []HandledBeforeSettled
  <1>1. MessageQueueAssumption
    BY MessageQueueAssumption
  <1>2. Init => IInv
    BY <1>1, InvInit
  <1>3. IInv /\ [Next]_vars => IInv'
    BY <1>1, InvNext
  <1>4. IInv => HandledBeforeSettled
    BY TypesHold DEF HandledBeforeSettled, IInv
  <1> QED
    BY <1>2, <1>3, <1>4, PTL DEF Spec
=============================================================================
