--------------------------- MODULE EventRecorder ---------------------------
(***************************************************************************)
(* Event capture: a Recorder in front of a JsonlSink, with an Aggregator   *)
(* composed through the recorder's hooks as the package's README does.     *)
(*                                                                         *)
(* Callers hand events to a bounded buffer and never wait.  Everything     *)
(* else runs on one promise chain, which is kept here flat, as the         *)
(* sequence of steps still to run: a drain is <<"start", "drain">>, a      *)
(* flush <<"drain", "emit">>, a tick <<"emit">>, the close                 *)
(* <<"drain", "emitAll", "shut">>.  While a step awaits the sink, callers  *)
(* go on recording, flushing and closing, and the timer ticks.             *)
(*                                                                         *)
(* A crash loses the memory and keeps the files; the next process resumes  *)
(* in the same file.  Time is counted in windows of the aggregator.        *)
(***************************************************************************)
EXTENDS JsonlSink

CONSTANTS
  Key,         \* the aggregation keys
  KeyOf(_),    \* the key of an event
  BufferSize,  \* bufferSize
  MaxKeys,     \* maxKeys of the aggregator
  Skipped,     \* the events transform makes no record of, or throws on
  MaxEvents,   \* bound: how many events are recorded
  MaxNow,      \* bound: how many windows pass
  MaxChain     \* bound: how long the chain is when a flush or a tick joins it

VARIABLES
  next,        \* how many events were handed to record(), ever
  born,        \* history: next, when this process started
  buffer,      \* #buffer: the events waiting, by number
  dropped,     \* #dropped
  chain,       \* #chain
  scheduled,   \* #drainScheduled
  stopped,     \* #closed of the recorder
  writing,     \* the record whose write is awaited
  emissions,   \* the hook's records still to write
  now,         \* the window the clock is in
  cells,       \* #cells: the count of each live (key, window) cell
  overflow,    \* #overflow
  surfaced,    \* history: what takeOverflow has handed over
  rolled,      \* history: what was rolled up of each cell
  due,         \* history: the records handed to the sink
  fate         \* history: where this process has counted each event

intake == <<next, born, buffer, dropped, scheduled, stopped>>
aggregates == <<cells, overflow, surfaced, rolled>>
sink == <<pending, opened, sinkClosed, size, io, live, rotated, pruned, lost>>
vars == <<intake, chain, writing, emissions, now, aggregates, due, fate, sink>>

Cell == Key \X (0..MaxNow)
Event == {"event"} \X (1..MaxEvents)
Bucket == {"bucket"} \X Cell
Record == Event \union Bucket

Step == {"start", "drain", "emit", "emitAll", "emitting", "sync", "shut", "closing"}

ASSUME RecorderAssumption ==
  /\ Key # {} /\ \A n \in 1..MaxEvents : KeyOf(n) \in Key
  /\ BufferSize \in Nat /\ MaxKeys \in Nat
  /\ MaxEvents \in Nat /\ MaxNow \in Nat /\ MaxChain \in Nat
  /\ None \notin Record /\ None \notin FlushOf(Record)

NoCells == [cell \in Cell |-> 0]

\* An event is dropped, counted in a cell or over the aggregator's limit, or on its way.
Fate == {<<"open", None>>, <<"dropped", None>>, <<"overflow", None>>} \union ({"cell"} \X Cell)
AllOpen == [n \in 1..MaxEvents |-> <<"open", None>>]

Init ==
  /\ SinkInit
  /\ next = 0 /\ born = 0 /\ buffer = <<>> /\ dropped = 0
  /\ chain = <<>> /\ scheduled = FALSE /\ stopped = FALSE
  /\ writing = None /\ emissions = <<>> /\ now = 0
  /\ cells = NoCells /\ overflow = 0 /\ surfaced = 0 /\ rolled = NoCells
  /\ due = {} /\ fate = AllOpen

-----------------------------------------------------------------------------
(* The callers.                                                            *)

Enqueue(steps) == chain' = chain \o steps

Full == Len(buffer) >= BufferSize

\* record(): dropped when closed or full; else it waits for a drain, one of which
\* is scheduled at a time.
RecordEvent ==
  /\ next < MaxEvents
  /\ next' = next + 1
  /\ IF stopped \/ Full
     THEN /\ dropped' = dropped + 1
          /\ fate' = [fate EXCEPT ![next + 1] = <<"dropped", None>>]
          /\ UNCHANGED <<buffer, scheduled, chain>>
     ELSE /\ buffer' = Append(buffer, next + 1)
          /\ scheduled' = TRUE
          /\ IF scheduled THEN UNCHANGED chain ELSE Enqueue(<<"start", "drain">>)
          /\ UNCHANGED <<dropped, fate>>
  /\ UNCHANGED <<born, stopped, writing, emissions, now, aggregates, due, sink>>

Flush ==
  /\ Len(chain) < MaxChain
  /\ Enqueue(<<"drain", "emit">>)
  /\ UNCHANGED <<intake, writing, emissions, now, aggregates, due, fate, sink>>

TimerFires ==
  /\ ~stopped /\ Len(chain) < MaxChain
  /\ Enqueue(<<"emit">>)
  /\ UNCHANGED <<intake, writing, emissions, now, aggregates, due, fate, sink>>

\* Mutant of ClosingSteps: the last flush is like any other.
ClosingStepsPlain == <<"drain", "emit", "shut">>

ClosingSteps == <<"drain", "emitAll", "shut">>

\* close(): no more events and ticks; a second call joins the first.
Close ==
  /\ ~stopped
  /\ stopped' = TRUE
  /\ Enqueue(ClosingSteps)
  /\ UNCHANGED <<next, born, buffer, dropped, scheduled, writing, emissions, now, aggregates,
                 due, fate, sink>>

-----------------------------------------------------------------------------
(* The chain.                                                              *)

Running(step) == chain # <<>> /\ Head(chain) = step

Finish == chain' = Tail(chain)
Become(step) == chain' = <<step>> \o Tail(chain)

StartDrain ==
  /\ Running("start")
  /\ scheduled' = FALSE
  /\ Finish
  /\ UNCHANGED <<next, born, buffer, dropped, stopped, writing, emissions, now, aggregates, due,
                 fate, sink>>

DrainEnds ==
  /\ Running("drain") /\ buffer = <<>> /\ writing = None
  /\ Finish
  /\ UNCHANGED <<intake, writing, emissions, now, aggregates, due, fate, sink>>

LiveCells == {cell \in Cell : cells[cell] > 0}

\* observe(): into the cell of the window it is now, if there is one or room for one.
Observe(event) ==
  LET cell == <<KeyOf(event), now>>
  IN  IF cell \in LiveCells \/ MaxKeys = 0 \/ Cardinality(LiveCells) < MaxKeys
      THEN /\ cells' = [cells EXCEPT ![cell] = @ + 1]
           /\ fate' = [fate EXCEPT ![event] = <<"cell", cell>>]
           /\ UNCHANGED overflow
      ELSE /\ overflow' = overflow + 1
           /\ fate' = [fate EXCEPT ![event] = <<"overflow", None>>]
           /\ UNCHANGED cells

\* The next event is written, and the sink works on it, unless there is no record of it.
Consume ==
  /\ Running("drain") /\ buffer # <<>> /\ writing = None
  /\ buffer' = Tail(buffer)
  /\ IF Head(buffer) \in Skipped
     THEN Observe(Head(buffer)) /\ UNCHANGED <<writing, due, sink>>
     ELSE /\ writing' = <<"event", Head(buffer)>>
          /\ due' = due \union {writing'}
          /\ Put(writing')
          /\ UNCHANGED <<cells, overflow, fate>>
  /\ UNCHANGED <<next, born, dropped, scheduled, stopped, chain, emissions, now, surfaced, rolled>>

\* The sink has answered the write, either way; a drain's event is observed.
WriteSettled ==
  /\ writing # None /\ Settled
  /\ writing' = None /\ io' = None
  /\ IF Running("drain") THEN Observe(writing[2]) ELSE UNCHANGED <<cells, overflow, fate>>
  /\ UNCHANGED <<intake, chain, emissions, now, surfaced, rolled, due, pending, opened, sinkClosed,
                 size, files>>

\* Mutant of Complete: a window is rolled up while it is current.
CompleteSoon(cell) == cell[2] <= now

Complete(cell) == cell[2] < now

\* Cells of one window come in the order they were made in, or the caller's keyOrder.
OldestFirst(order) ==
  \A i, j \in DOMAIN order : i < j => order[i] # order[j] /\ order[i][2] <= order[j][2]

\* onFlush: the aggregator gives up its complete windows, or all, oldest first.
RunHook ==
  /\ Running("emit") \/ Running("emitAll")
  /\ LET leaving == {cell \in LiveCells : Running("emitAll") \/ Complete(cell)}
     IN  /\ \E order \in [1..Cardinality(leaving) -> leaving] :
              /\ OldestFirst(order)
              /\ emissions' = [i \in DOMAIN order |-> <<"bucket", order[i]>>]
         /\ rolled' = [cell \in Cell |-> rolled[cell] + IF cell \in leaving THEN cells[cell] ELSE 0]
         /\ cells' = [cell \in Cell |-> IF cell \in leaving THEN 0 ELSE cells[cell]]
  /\ Become("emitting")
  /\ UNCHANGED <<intake, writing, now, overflow, surfaced, due, fate, sink>>

EmitNext ==
  /\ Running("emitting") /\ emissions # <<>> /\ writing = None
  /\ emissions' = Tail(emissions)
  /\ writing' = Head(emissions)
  /\ due' = due \union {writing'}
  /\ Put(writing')
  /\ UNCHANGED <<intake, chain, now, aggregates, fate>>

\* The overflow is reported, and the sink flushed.
HookEnds ==
  /\ Running("emitting") /\ emissions = <<>> /\ writing = None
  /\ overflow' = 0 /\ surfaced' = surfaced + overflow
  /\ BeginFlush
  /\ Become("sync")
  /\ UNCHANGED <<intake, writing, emissions, now, cells, rolled, due, fate>>

\* Mutant of FlushAnswered: nothing catches the failure of the sink.
FlushSucceeded == Settled /\ io = Done

FlushAnswered == Settled

SyncSettled ==
  /\ Running("sync") /\ FlushAnswered
  /\ io' = None
  /\ Finish
  /\ UNCHANGED <<intake, writing, emissions, now, aggregates, due, fate, pending, opened,
                 sinkClosed, size, files>>

\* sink.close() flushes what is left, and is closed however that goes.
ShutBegins ==
  /\ Running("shut")
  /\ BeginFlush
  /\ Become("closing")
  /\ UNCHANGED <<intake, writing, emissions, now, aggregates, due, fate>>

ClosingSettled ==
  /\ Running("closing") /\ Settled
  /\ Shut /\ io' = None
  /\ Finish
  /\ UNCHANGED <<intake, writing, emissions, now, aggregates, due, fate>>

FileOperation ==
  /\ Flushing
  /\ UNCHANGED <<intake, chain, writing, emissions, now, aggregates, due, fate>>

-----------------------------------------------------------------------------
(* The world.                                                              *)

Tick ==
  /\ now < MaxNow
  /\ now' = now + 1
  /\ UNCHANGED <<intake, chain, writing, emissions, aggregates, due, fate, sink>>

Stored == Range(live) \union UNION {Range(rotated[i]) : i \in DOMAIN rotated}

\* The process dies and another starts on the same files; part of a write may have landed.
Crash ==
  /\ IF Doing("write") THEN \E n \in 0..Len(io.chunk) : live' = live \o SubSeq(io.chunk, 1, n)
                       ELSE UNCHANGED live
  /\ born' = next /\ buffer' = <<>> /\ dropped' = 0 /\ scheduled' = FALSE /\ stopped' = FALSE
  /\ chain' = <<>> /\ writing' = None /\ emissions' = <<>>
  /\ cells' = NoCells /\ overflow' = 0 /\ surfaced' = 0 /\ rolled' = NoCells
  /\ pending' = <<>> /\ opened' = FALSE /\ sinkClosed' = FALSE /\ size' = 0 /\ io' = None
  /\ UNCHANGED <<next, now, rotated, pruned, lost>>
  /\ due' = Stored' /\ fate' = AllOpen

OnChain == \/ StartDrain \/ DrainEnds \/ Consume \/ WriteSettled \/ RunHook \/ EmitNext
           \/ HookEnds \/ SyncSettled \/ ShutBegins \/ ClosingSettled \/ FileOperation

Next == OnChain \/ RecordEvent \/ Flush \/ TimerFires \/ Close \/ Tick \/ Crash

Spec == Init /\ [][Next]_vars

\* File operations answer and the event loop runs what is ready.
FairSpec == Spec /\ WF_vars(OnChain)

-----------------------------------------------------------------------------
RecorderTypeOK ==
  /\ next \in 0..MaxEvents /\ born \in 0..next /\ dropped \in 0..MaxEvents
  /\ buffer \in Seq(1..MaxEvents) /\ Len(buffer) <= BufferSize
  /\ chain \in Seq(Step)
  /\ scheduled \in BOOLEAN /\ stopped \in BOOLEAN
  /\ writing \in Record \union {None} /\ emissions \in Seq(Bucket)
  /\ now \in 0..MaxNow
  /\ cells \in [Cell -> Nat] /\ rolled \in [Cell -> Nat]
  /\ overflow \in Nat /\ surfaced \in Nat
  /\ MaxKeys > 0 => Cardinality(LiveCells) <= MaxKeys
  /\ due \subseteq Record /\ fate \in [1..MaxEvents -> Fate]

TypeOK == SinkTypeOK(Record) /\ RecorderTypeOK

InFlight == IF io = None THEN <<>> ELSE io.chunk

\* The events this process was handed and has counted at place.
CountedAt(place) == {n \in born + 1..next : fate[n] = place}

\* The events in the buffer, and the one the drain is writing.
Waiting ==
  Range(buffer) \union {n \in 1..MaxEvents : Running("drain") /\ writing = <<"event", n>>}

\* Every event a process was handed waits, or is in one count, of those dropped, of its
\* cell or of the aggregator's overflow, once; counts keep it through emission and report.
EventsAreCounted ==
  /\ CountedAt(<<"open", None>>) = Waiting
  /\ dropped = Cardinality(CountedAt(<<"dropped", None>>))
  /\ overflow + surfaced = Cardinality(CountedAt(<<"overflow", None>>))
  /\ \A cell \in Cell : cells[cell] + rolled[cell] = Cardinality(CountedAt(<<"cell", cell>>))

\* Every record the sink was handed is in memory, in a file, in a file retention removed,
\* or taken by an operation that failed.  Rotation, a crash in its middle and the restart
\* after it, which resumes in the same file, lose no line that had been written.
RecordsAreTraced ==
  due \subseteq Stored \union Range(pending) \union pruned \union lost \union Range(InFlight)

\* Nothing vanishes without a trace.
LossIsCounted == EventsAreCounted /\ RecordsAreTraced

\* The events of s, and those of s and then t, are in the order they were recorded.
Increasing(s) ==
  \A i, j \in DOMAIN s : i < j /\ s[i] \in Event /\ s[j] \in Event => s[i][2] < s[j][2]
Precedes(s, t) ==
  \A x \in Range(s) \intersect Event, y \in Range(t) \intersect Event : x[2] < y[2]

\* The lines there are, oldest files first.
Pieces == rotated \o <<live, InFlight, pending>>

\* The events are in the files once and in the order they were recorded, through rotation,
\* failures and restarts, and so are those on the way there.
EventsInOrder ==
  \A i \in DOMAIN Pieces :
    Increasing(Pieces[i]) /\ \A j \in DOMAIN Pieces : i < j => Precedes(Pieces[i], Pieces[j])

\* Every event is in one place, or counted as lost, and in its order.  The variables
\* keep their types, buffer and cells their limits.
EventsAreAccounted == TypeOK /\ LossIsCounted /\ EventsInOrder

\* A closed sink ends the story: no event waits, no cell is open, no line is buffered and no
\* task would find the sink closed.  This needs close() to come last on the chain, after
\* everything recorded before it, with no window held back.
CloseIsComplete ==
  sinkClosed =>
    /\ buffer = <<>> /\ LiveCells = {} /\ emissions = <<>>
    /\ pending = <<>> /\ ~opened
    /\ ~\E i \in DOMAIN chain : chain[i] \in {"shut", "closing"}

\* A window rolled up is over: no later event is counted in it, so a cell is reported once.
\* Events are observed when they are drained, which may be well after the window they were
\* recorded in.
WindowsStayClosed == \A cell \in Cell : rolled[cell] > 0 => cells[cell] = 0

\* A close ends, unless the process does: no failure of the sink wedges the chain.
CloseEnds == stopped ~> (sinkClosed \/ ~stopped)
=============================================================================
