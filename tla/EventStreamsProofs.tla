-------------------------- MODULE EventStreamsProofs --------------------------
(***************************************************************************)
(* The event stream over any sockets, with either transport and with       *)
(* subscribers to opens, messages and closes that call back however deep:  *)
(* one connection at most, nothing left of a closed stream, and a stream   *)
(* that is not closed has a connection, or a reconnect, ahead of it.       *)
(* Subscribers to errors are assumed not to call back: when they do, the   *)
(* code breaks all three, as GiveUpConnection goes on regardless.          *)
(***************************************************************************)
EXTENDS EventStreams, TLAPS

\* No subscriber to errors calls close() or connect().
ErrorsAreOnlyHeard == "error" \notin Reactive

-----------------------------------------------------------------------------
(* The inductive invariant.                                                *)

\* The steps that may be stacked up while subscribers call back.
Callback == {"notify"} \X (Notification \ {"error"})

Failed == Notify("error")
Timeout == <<"timeout", None>>
Consult(s) == <<"consult", s>>

Timing == todo \in {<<Failed, Timeout>>, <<Timeout>>}

Consulting(s) == todo \in {<<Failed, Consult(s)>>, <<Consult(s)>>}

\* What can be left to do: callbacks, or the rest of one handler of an error, in
\* which nobody calls back, so the connection it is about is still the current one.
Agenda ==
  \/ todo \in Seq(Callback)
  \/ todo = <<Failed>>
  \/ Timing /\ stream.state = "open"
  \/ \E s \in Socket : Consulting(s) /\ stream.current = s

\* The current socket is the one listened to, and any other is closed.
OneCurrent(st) ==
  /\ st.listening = {st.current} \ {None}
  /\ \A s \in Socket : st.sockets[s] = "closed" \/ s = st.current

\* At most one reconnect is pending, it is known, and it stands for a connection
\* that is missing.
OneReconnect(st) ==
  /\ st.timers = IF st.held THEN 1 ELSE 0
  /\ st.held => st.current = None /\ transport = "websocket"

\* What the state says of the rest, in the middle of a handler too.
StateTells(st) ==
  /\ st.heart => beating /\ st.state = "open"
  /\ st.state = "closed" => st.current = None /\ ~st.held
  /\ st.state = "connecting" => st.current # None \/ st.held
  /\ st.state = "open" => st.current # None
  /\ \A s \in Socket : st.sockets[s] = "open" => st.state = "open"

Consistent(st) == st \in Stream /\ OneCurrent(st) /\ OneReconnect(st) /\ StateTells(st)

\* An open stream is watched, until its silence is being handled.
Watched == stream.state = "open" => stream.heart = beating \/ Timing

Options == transport \in {"sse", "websocket"} /\ transport \in Transports
           /\ reconnect \in BOOLEAN /\ beating \in BOOLEAN

IInv ==
  /\ Options /\ Consistent(stream)
  /\ Agenda /\ Len(todo) <= MaxDepth + 2
  /\ Watched

-----------------------------------------------------------------------------
(* What the methods of the stream make of a consistent one.                *)

LEMMA DetachLeaves ==
  ASSUME NEW st \in Stream, OneCurrent(st), StreamAssumption
  PROVE  /\ Detach(st) \in Stream
         /\ Detach(st).current = None /\ Detach(st).listening = {}
         /\ \A s \in Socket : Detach(st).sockets[s] = "closed"
         /\ Detach(st).state = st.state /\ Detach(st).heart = st.heart
         /\ Detach(st).timers = st.timers /\ Detach(st).held = st.held
  BY DEF Detach, Stream, OneCurrent, StreamAssumption

LEMMA OpenTransportTakesOver ==
  ASSUME NEW st \in Stream, st.current = None, OneCurrent(st), StreamAssumption,
         Unused(st) # {}
  PROVE  /\ OpenTransport(st) \in Stream
         /\ OpenTransport(st).current \in Socket
         /\ OneCurrent(OpenTransport(st))
         /\ \A s \in Socket : OpenTransport(st).sockets[s] # "open"
         /\ OpenTransport(st).state = st.state /\ OpenTransport(st).heart = st.heart
         /\ OpenTransport(st).timers = st.timers /\ OpenTransport(st).held = st.held
  <1> DEFINE s == CHOOSE s \in Unused(st) : TRUE
  <1>1. s \in Unused(st)
    OBVIOUS
  <1>2. s \in Socket /\ s # None
    BY <1>1 DEF Unused, StreamAssumption
  <1>3. OpenTransport(st) = [st EXCEPT !.sockets[s] = "connecting",
                                       !.listening = st.listening \union {s},
                                       !.current = s]
    BY DEF OpenTransport
  <1> HIDE DEF s
  <1>4. /\ OpenTransport(st).current = s
        /\ OpenTransport(st).listening = st.listening \union {s}
        /\ OpenTransport(st).sockets = [st.sockets EXCEPT ![s] = "connecting"]
        /\ OpenTransport(st).state = st.state /\ OpenTransport(st).heart = st.heart
        /\ OpenTransport(st).timers = st.timers /\ OpenTransport(st).held = st.held
    BY <1>3 DEF Stream
  <1>5. st.sockets \in [Socket -> {"closed", "connecting", "open"}]
    BY DEF Stream
  <1>8. OpenTransport(st) \in Stream
    <2> DEFINE sockets == [st.sockets EXCEPT ![s] = "connecting"]
               listening == st.listening \union {s}
    <2>1. listening \in SUBSET Socket
      BY <1>2 DEF Stream
    <2>2. sockets \in [Socket -> {"closed", "connecting", "open"}]
      BY <1>5
    <2>3. OpenTransport(st) = [st EXCEPT !.sockets = sockets, !.listening = listening,
                                         !.current = s]
      BY <1>3 DEF Stream
    <2> HIDE DEF sockets, listening
    <2> QED
      BY <1>2, <2>1, <2>2, <2>3 DEF Stream
  <1>6. OneCurrent(OpenTransport(st))
    BY <1>2, <1>4, <1>5 DEF OneCurrent
  <1>7. \A t \in Socket : OpenTransport(st).sockets[t] # "open"
    BY <1>2, <1>4, <1>5, <1>6 DEF OneCurrent
  <1> QED
    BY <1>2, <1>4, <1>6, <1>7, <1>8

LEMMA ShutCloses ==
  ASSUME NEW st, Consistent(st), StreamAssumption
  PROVE  Consistent(Shut(st)) /\ Shut(st).state = "closed"
  <1> DEFINE quiet == [st EXCEPT !.state = "closed", !.heart = FALSE]
             clear == ClearReconnect(quiet)
  <1>1. /\ quiet \in Stream /\ quiet.state = "closed" /\ ~quiet.heart
        /\ quiet.current = st.current /\ quiet.listening = st.listening
        /\ quiet.sockets = st.sockets
        /\ quiet.timers = st.timers /\ quiet.held = st.held
    BY DEF Consistent, Stream
  <1>2. /\ clear \in Stream /\ OneCurrent(clear)
        /\ clear.state = "closed" /\ ~clear.heart /\ ~clear.held /\ clear.timers = 0
    <2> HIDE DEF quiet
    <2>1. quiet.held => quiet.timers = 1
      BY <1>1 DEF Consistent, OneReconnect
    <2>2. quiet.timers \in Nat /\ (~quiet.held => quiet.timers = 0)
      BY <1>1 DEF Consistent, OneReconnect, Stream
    <2>3. OneCurrent(quiet)
      BY <1>1 DEF Consistent, OneCurrent
    <2>4. CASE quiet.held
      <3>1. clear = [quiet EXCEPT !.timers = 0, !.held = FALSE]
        <4>1. quiet.timers - 1 = 0
          BY <2>1, <2>4
        <4>2. clear = [quiet EXCEPT !.timers = quiet.timers - 1, !.held = FALSE]
          BY <2>4, Zenon DEF ClearReconnect
        <4> QED
          BY <4>1, <4>2, Zenon
      <3> HIDE DEF clear
      <3>2. clear \in Stream /\ clear.timers = 0 /\ ~clear.held
        BY <1>1, <3>1 DEF Stream
      <3>3. /\ clear.state = quiet.state /\ clear.heart = quiet.heart
            /\ clear.current = quiet.current /\ clear.listening = quiet.listening
            /\ clear.sockets = quiet.sockets
        BY <1>1, <3>1 DEF Stream
      <3> QED
        BY <1>1, <2>3, <3>2, <3>3 DEF OneCurrent
    <2>5. CASE ~quiet.held
      BY <1>1, <2>2, <2>3, <2>5 DEF ClearReconnect
    <2> QED
      BY <2>4, <2>5
  <1> HIDE DEF clear
  <1>3. Shut(st) = Detach(clear)
    BY DEF Shut, clear
  <1> QED
    BY <1>2, <1>3, DetachLeaves
       DEF Consistent, OneCurrent, OneReconnect, StateTells

\* An open stream whose connection is lost is connecting from then on.
LEMMA DropSocketReconnects ==
  ASSUME NEW st, Consistent(st), st.current # None, StreamAssumption,
         transport = "websocket"
  PROVE  Consistent(DropSocket(st)) /\ DropSocket(st).state = "connecting"
  <1> DEFINE detached == Detach(st)
             told == DispatchReconnecting(detached)
  <1>1. /\ detached \in Stream
        /\ detached.current = None /\ detached.listening = {}
        /\ \A s \in Socket : detached.sockets[s] = "closed"
        /\ detached.state = st.state /\ detached.timers = st.timers
    BY DetachLeaves DEF Consistent
  <1>2. st.state \in {"connecting", "open"} /\ st.timers = 0
    BY DEF Consistent, Stream, StateTells, OneReconnect
  <1> HIDE DEF detached
  <1>3. /\ told \in Stream /\ told.current = None /\ told.listening = {}
        /\ told.sockets = detached.sockets
        /\ told.state = "connecting" /\ ~told.heart /\ told.timers = 0
    BY <1>1, <1>2 DEF DispatchReconnecting, Stream
  <1> HIDE DEF told
  <1>4. DropSocket(st) = [told EXCEPT !.timers = told.timers + 1, !.held = TRUE]
    BY Zenon DEF DropSocket, ScheduleReconnect, told, detached
  <1>5. told.timers + 1 = 1
    BY <1>3
  <1>6. DropSocket(st) = [told EXCEPT !.timers = 1, !.held = TRUE]
    BY <1>4, <1>5, Zenon
  <1>7. DropSocket(st) \in Stream /\ DropSocket(st).timers = 1 /\ DropSocket(st).held
    <2>1. told \in Stream /\ 1 \in Nat
      BY <1>3
    <2>2. DropSocket(st) \in Stream
      BY <1>6, <2>1 DEF Stream
    <2>3. DropSocket(st).timers = 1
      BY <1>6, <2>1 DEF Stream
    <2>4. DropSocket(st).held = TRUE
      BY <1>6, <2>1 DEF Stream
    <2> QED
      BY <2>2, <2>3, <2>4
  <1>8. /\ DropSocket(st).current = told.current
        /\ DropSocket(st).listening = told.listening
        /\ DropSocket(st).sockets = told.sockets
        /\ DropSocket(st).state = told.state /\ DropSocket(st).heart = told.heart
    BY <1>3, <1>6 DEF Stream
  <1> QED
    BY <1>1, <1>3, <1>7, <1>8 DEF Consistent, OneCurrent, OneReconnect, StateTells

\* Whatever is there is let go of before a transport is opened.
LEMMA OpeningConnects ==
  ASSUME NEW st \in Stream, OneCurrent(st), st.current = None,
         st.state = "connecting", ~st.heart, ~st.held, st.timers = 0,
         Unused(st) # {}, StreamAssumption
  PROVE  Consistent(OpenTransport(st)) /\ OpenTransport(st).state = "connecting"
  BY OpenTransportTakesOver
     DEF Consistent, OneReconnect, StateTells, StreamAssumption

LEMMA ConnectedConnects ==
  ASSUME NEW st, Consistent(st), st.state = "closed", Unused(st) # {}, StreamAssumption
  PROVE  Consistent(Connected(st)) /\ Connected(st).state = "connecting"
  <1> DEFINE began == [st EXCEPT !.state = "connecting"]
  <1>1. /\ began \in Stream /\ began.state = "connecting"
        /\ began.current = None /\ began.listening = st.listening
        /\ began.sockets = st.sockets /\ ~began.heart /\ ~began.held /\ began.timers = 0
    BY DEF Consistent, Stream, StateTells, OneReconnect
  <1>2. Connected(st) = OpenTransport(began)
    BY DEF Connected
  <1> HIDE DEF began
  <1>3. OneCurrent(began)
    BY <1>1 DEF Consistent, OneCurrent, StateTells
  <1>4. Unused(began) = Unused(st)
    BY <1>1 DEF Unused
  <1> QED
    BY <1>1, <1>2, <1>3, <1>4, OpeningConnects

\* The EventSource that fell silent makes room for the one that follows.
LEMMA ReplacedConnects ==
  ASSUME NEW st, Consistent(st), st.current # None, StreamAssumption
  PROVE  LET gone == DispatchReconnecting(Detach(st))
         IN  /\ Consistent(OpenTransport(gone))
             /\ OpenTransport(gone).state = "connecting"
  <1> DEFINE detached == Detach(st)
             gone == DispatchReconnecting(detached)
  <1>1. /\ detached \in Stream
        /\ detached.current = None /\ detached.listening = {}
        /\ \A s \in Socket : detached.sockets[s] = "closed"
        /\ detached.state = st.state /\ detached.timers = st.timers
        /\ detached.held = st.held
    BY DetachLeaves DEF Consistent
  <1>2. st.state \in {"connecting", "open"} /\ st.timers = 0 /\ ~st.held
    BY DEF Consistent, Stream, StateTells, OneReconnect
  <1> HIDE DEF detached
  <1>3. /\ gone \in Stream /\ gone.current = None /\ gone.listening = {}
        /\ gone.sockets = detached.sockets /\ ~gone.held
        /\ gone.state = "connecting" /\ ~gone.heart /\ gone.timers = 0
    BY <1>1, <1>2 DEF DispatchReconnecting, Stream
  <1>4. st.current \in Socket
    BY DEF Consistent, Stream
  <1> HIDE DEF gone
  <1>5. OneCurrent(gone) /\ st.current \in Unused(gone)
    BY <1>1, <1>3, <1>4 DEF OneCurrent, Unused
  <1>6. Consistent(OpenTransport(gone)) /\ OpenTransport(gone).state = "connecting"
    BY <1>3, <1>5, OpeningConnects
  <1> QED
    BY <1>6 DEF gone, detached

-----------------------------------------------------------------------------
(* What is left to do.                                                     *)

LEMMA CallbacksStack ==
  ASSUME NEW rest \in Seq(Callback)
  PROVE  /\ <<Notify("close")>> \o rest \in Seq(Callback)
         /\ Len(<<Notify("close")>> \o rest) = Len(rest) + 1
  BY DEF Callback, Notification, Notify

\* Callbacks are no part of the handling of an error.
LEMMA CallbacksAreNoErrors ==
  ASSUME todo \in Seq(Callback)
  PROVE  /\ ~Timing /\ \A s \in Socket : ~Consulting(s)
         /\ todo # <<Failed>>
         /\ todo # <<>> => todo[1][1] = "notify"
  <1>1. \A i \in 1..Len(todo) : todo[i] \in Callback
    OBVIOUS
  <1>2. /\ Failed \notin Callback /\ Timeout \notin Callback
        /\ \A s \in Socket : Consult(s) \notin Callback
    BY DEF Failed, Timeout, Consult, Notify, Callback, Notification
  <1>3. \A x, y : todo = <<x>> \/ todo = <<x, y>> => x \in Callback
    <2> TAKE x, y
    <2>1. CASE todo = <<x>>
      BY <1>1, <2>1
    <2>2. CASE todo = <<x, y>>
      BY <1>1, <2>2
    <2> QED
      BY <2>1, <2>2
  <1>4. todo # <<>> => todo[1][1] = "notify"
    BY <1>1 DEF Callback
  <1> QED
    BY <1>2, <1>3, <1>4 DEF Timing, Consulting

\* The next step tells what is left.
LEMMA HeadTells ==
  ASSUME Agenda, todo # <<>>
  PROVE  /\ todo[1][1] = "consult" =>
              \E s \in Socket : todo = <<Consult(s)>> /\ stream.current = s
         /\ todo[1][1] = "timeout" => todo = <<Timeout>> /\ stream.state = "open"
         /\ todo[1][1] = "notify" =>
              \/ todo \in Seq(Callback)
              \/ todo = <<Failed>>
              \/ todo = <<Failed, Timeout>> /\ stream.state = "open"
              \/ \E s \in Socket : todo = <<Failed, Consult(s)>> /\ stream.current = s
  <1>1. CASE todo \in Seq(Callback)
    BY <1>1, CallbacksAreNoErrors
  <1>2. CASE todo = <<Failed>>
    BY <1>2 DEF Failed, Notify
  <1>3. CASE Timing /\ stream.state = "open"
    <2>1. CASE todo = <<Failed, Timeout>>
      BY <1>3, <2>1 DEF Failed, Notify
    <2>2. CASE todo = <<Timeout>>
      BY <1>3, <2>2 DEF Timeout
    <2> QED
      BY <1>3, <2>1, <2>2 DEF Timing
  <1>4. CASE \E s \in Socket : Consulting(s) /\ stream.current = s
    <2> PICK s \in Socket : Consulting(s) /\ stream.current = s
      BY <1>4
    <2>1. CASE todo = <<Failed, Consult(s)>>
      BY <2>1 DEF Failed, Notify
    <2>2. CASE todo = <<Consult(s)>>
      BY <2>2 DEF Consult
    <2> QED
      BY <2>1, <2>2 DEF Consulting
  <1> QED
    BY <1>1, <1>2, <1>3, <1>4 DEF Agenda

\* Who is called back about an error does not call back.
LEMMA OnlyCallbacksAnswer ==
  ASSUME Agenda, ErrorsAreOnlyHeard, Notified
  PROVE  todo \in Seq(Callback)
  <1>1. todo # <<>> /\ todo[1][1] = "notify" /\ todo[1][2] # "error"
    BY DEF Notified, ErrorsAreOnlyHeard
  <1>2. ASSUME NEW x, todo = <<Failed>> \/ todo = <<Failed, x>>
        PROVE  FALSE
    <2>1. todo[1] = Failed
      BY <1>2
    <2> QED
      BY <1>1, <2>1 DEF Failed, Notify
  <1> QED
    BY <1>1, <1>2, HeadTells

\* Only the handling of a silence is left before it is given up.
LEMMA ErrorsEnd ==
  ASSUME NEW s
  PROVE  /\ Tail(<<Failed>>) = <<>> /\ Tail(<<Timeout>>) = <<>>
         /\ Tail(<<Consult(s)>>) = <<>>
         /\ Tail(<<Failed, Timeout>>) = <<Timeout>>
         /\ Tail(<<Failed, Consult(s)>>) = <<Consult(s)>>
         /\ Len(<<>>) = 0 /\ Len(<<Failed>>) = 1
         /\ Len(<<Timeout>>) = 1 /\ Len(<<Consult(s)>>) = 1
         /\ Len(<<Failed, Timeout>>) = 2 /\ Len(<<Failed, Consult(s)>>) = 2
         /\ <<>> \in Seq(Callback)
  OBVIOUS

-----------------------------------------------------------------------------
(* The invariant.                                                          *)

LEMMA InvInit == StreamAssumption /\ Init => IInv
  <1> SUFFICES ASSUME StreamAssumption, Init PROVE IInv
    OBVIOUS
  <1>1. Options
    BY DEF StreamAssumption, Init, Options
  <1>2. Consistent(stream)
    BY DEF StreamAssumption, Init, Consistent, Stream, OneCurrent, OneReconnect,
           StateTells
  <1>3. Agenda /\ Len(todo) <= MaxDepth + 2
    BY DEF StreamAssumption, Init, Agenda
  <1>4. Watched
    BY DEF Init, Watched
  <1> QED
    BY <1>1, <1>2, <1>3, <1>4 DEF IInv

\* The options of a stream are fixed, so what is left of the step is the stream.
LEMMA SameOptions ==
  ASSUME UNCHANGED options, Options, Consistent(stream')
  PROVE  Options' /\ Consistent(stream)'
  BY DEF options, Options, Consistent, Stream, OneCurrent, OneReconnect, StateTells

LEMMA CloseKeeps ==
  ASSUME StreamAssumption, IInv, NEW rest \in Seq(Callback), Len(rest) <= MaxDepth + 1,
         Close(rest), UNCHANGED options
  PROVE  IInv'
  <1>1. Consistent(stream') /\ stream'.state = "closed"
    BY ShutCloses DEF Close, IInv
  <1>2. todo' \in Seq(Callback) /\ Len(todo') <= MaxDepth + 2
    <2>1. MaxDepth \in Nat /\ Len(rest) \in Nat
      BY DEF StreamAssumption
    <2>2. CASE todo' = rest
      BY <2>1, <2>2
    <2>3. CASE todo' = <<Notify("close")>> \o rest
      <3>1. todo' \in Seq(Callback) /\ Len(todo') = Len(rest) + 1
        BY <2>3, CallbacksStack
      <3> QED
        BY <2>1, <3>1
    <2> QED
      BY <2>2, <2>3 DEF Close
  <1>3. Options' /\ Consistent(stream)'
    BY <1>1, SameOptions DEF IInv
  <1> QED
    BY <1>1, <1>2, <1>3 DEF IInv, Agenda, Watched, StreamAssumption

\* A step that leaves nothing to do, or the callbacks there were.
LEMMA CalmStepKeeps ==
  ASSUME StreamAssumption, IInv, UNCHANGED options, Consistent(stream'),
         todo' \in Seq(Callback), Len(todo') <= MaxDepth + 2,
         stream'.state = "open" => stream'.heart = beating
  PROVE  IInv'
  <1>1. Options' /\ Consistent(stream)'
    BY SameOptions DEF IInv
  <1> QED
    BY <1>1 DEF IInv, Agenda, Watched, options, StreamAssumption

\* A step that leaves the connection as it is keeps what an open stream is owed.
LEMMA UserKeeps ==
  ASSUME StreamAssumption, IInv, UserConnect \/ UserClose
  PROVE  IInv'
  <1>1. CASE UserConnect
    <2>1. Consistent(stream') /\ stream'.state = "connecting"
      BY <1>1, ConnectedConnects DEF UserConnect, IInv
    <2> QED
      BY <1>1, <2>1, CalmStepKeeps DEF UserConnect, options, StreamAssumption
  <1>2. CASE UserClose
    <2>1. <<>> \in Seq(Callback) /\ Len(<<>>) <= MaxDepth + 1
      BY DEF StreamAssumption
    <2> QED
      BY <1>2, <2>1, CloseKeeps DEF UserClose, options
  <1> QED
    BY <1>1, <1>2

LEMMA SubscriberKeeps ==
  ASSUME StreamAssumption, IInv, ErrorsAreOnlyHeard,
         SubscriberCloses \/ SubscriberConnects
  PROVE  IInv'
  <1>1. todo \in Seq(Callback)
    BY OnlyCallbacksAnswer DEF SubscriberCloses, SubscriberConnects, IInv
  <1>2. CASE SubscriberCloses
    BY <1>1, <1>2, CloseKeeps DEF SubscriberCloses, options, StreamAssumption
  <1>3. CASE SubscriberConnects
    <2>1. Consistent(stream') /\ stream'.state = "connecting"
      BY <1>3, ConnectedConnects DEF SubscriberConnects, IInv
    <2> QED
      BY <1>1, <1>3, <2>1, CalmStepKeeps
         DEF SubscriberConnects, options, IInv
  <1> QED
    BY <1>2, <1>3

LEMMA SubscribersReturnKeeps ==
  ASSUME StreamAssumption, IInv, SubscribersReturn
  PROVE  IInv'
  <1>1. /\ todo # <<>> /\ todo[1][1] = "notify" /\ todo' = Tail(todo)
        /\ UNCHANGED options /\ UNCHANGED stream
    BY DEF SubscribersReturn, options
  <1>2. CASE todo \in Seq(Callback)
    <2>1. todo' \in Seq(Callback) /\ Len(todo') = Len(todo) - 1
      BY <1>1, <1>2
    <2>2. ~Timing
      BY <1>2, CallbacksAreNoErrors
    <2> QED
      BY <1>1, <1>2, <2>1, <2>2, CalmStepKeeps DEF IInv, Watched, StreamAssumption
  <1>3. CASE todo = <<Failed>>
    <2>1. todo' \in Seq(Callback) /\ Len(todo') = 0
      BY <1>1, <1>3, ErrorsEnd
    <2>2. Failed # Timeout
      BY DEF Failed, Timeout, Notify
    <2>3. ~Timing
      BY <1>3, <2>2 DEF Timing
    <2> QED
      BY <1>1, <2>1, <2>3, CalmStepKeeps DEF IInv, Watched, StreamAssumption
  <1>4. CASE todo = <<Failed, Timeout>> /\ stream.state = "open"
    <2>1. todo' = <<Timeout>> /\ Len(todo') = 1
      BY <1>1, <1>4, ErrorsEnd
    <2>2. Timing'
      BY <2>1 DEF Timing, Timeout, Failed, Notify
    <2>3. Options' /\ Consistent(stream)'
      BY <1>1, SameOptions DEF IInv
    <2> QED
      BY <1>1, <1>4, <2>1, <2>2, <2>3 DEF IInv, Agenda, Watched, StreamAssumption
  <1>5. ASSUME NEW s \in Socket, todo = <<Failed, Consult(s)>>, stream.current = s
        PROVE  IInv'
    <2>1. todo' = <<Consult(s)>> /\ Len(todo') = 1
      BY <1>1, <1>5, ErrorsEnd
    <2>2. Consulting(s)'
      BY <2>1 DEF Consulting, Consult
    <2>3. ~Timing
      <3>1. Consult(s) # Timeout
        BY DEF Consult, Timeout
      <3>2. todo # <<Failed, Timeout>> /\ todo # <<Timeout>>
        BY <1>5, <3>1
      <3> QED
        BY <3>2 DEF Timing
    <2>4. Options' /\ Consistent(stream)'
      BY <1>1, SameOptions DEF IInv
    <2>5. Watched'
      BY <1>1, <2>3 DEF IInv, Watched, options
    <2> QED
      BY <1>1, <1>5, <2>1, <2>2, <2>4, <2>5 DEF IInv, Agenda, StreamAssumption
  <1> QED
    BY <1>1, <1>2, <1>3, <1>4, <1>5, HeadTells DEF IInv

\* Events of a socket are about the current one of a stream that is not closed.
LEMMA HeardIsCurrent ==
  ASSUME StreamAssumption, IInv, NEW s \in Socket, Hears(s)
  PROVE  /\ s = stream.current /\ s # None
         /\ stream.state \in {"connecting", "open"}
         /\ ~stream.held /\ stream.timers = 0 /\ ~Timing
         /\ todo = <<>> /\ todo \in Seq(Callback)
  <1>1. s = stream.current /\ s # None /\ todo = <<>>
    BY DEF IInv, Consistent, OneCurrent, Hears, StreamAssumption
  <1>2. stream.state \in {"connecting", "open"} /\ ~stream.held /\ stream.timers = 0
    BY <1>1 DEF IInv, Consistent, StateTells, OneReconnect, Stream
  <1>3. todo \in Seq(Callback)
    BY <1>1
  <1> QED
    BY <1>1, <1>2, <1>3, CallbacksAreNoErrors

LEMMA OpensKeeps ==
  ASSUME StreamAssumption, IInv, NEW s \in Socket, Opens(s)
  PROVE  IInv'
  <1>1. /\ s = stream.current /\ s # None
        /\ stream.state \in {"connecting", "open"}
        /\ ~stream.held /\ stream.timers = 0
    BY HeardIsCurrent DEF Opens
  <1> DEFINE opened == [stream EXCEPT !.sockets[s] = "open"]
             told == [opened EXCEPT !.state = "open"]
  <1>2. stream' = Arm(told) /\ todo' = <<Notify("open")>> /\ UNCHANGED options
    BY <1>1 DEF Opens, options
  <1>3. stream \in Stream /\ beating \in BOOLEAN
    BY DEF IInv, Options, Consistent
  <1>4. /\ opened \in Stream /\ opened.sockets = [stream.sockets EXCEPT ![s] = "open"]
        /\ opened.current = stream.current /\ opened.listening = stream.listening
        /\ opened.timers = stream.timers /\ opened.held = stream.held
    BY <1>3 DEF Stream
  <1> HIDE DEF opened
  <1>5. /\ told \in Stream /\ told.sockets = opened.sockets
        /\ told.current = opened.current /\ told.listening = opened.listening
        /\ told.timers = opened.timers /\ told.held = opened.held
        /\ told.state = "open"
    BY <1>4 DEF Stream
  <1> HIDE DEF told
  <1>6. /\ stream' \in Stream /\ stream'.sockets = told.sockets
        /\ stream'.current = told.current /\ stream'.listening = told.listening
        /\ stream'.timers = told.timers /\ stream'.held = told.held
        /\ stream'.state = told.state /\ stream'.heart = beating
    BY <1>2, <1>3, <1>5 DEF Stream, Arm
  <1>7. stream.sockets \in [Socket -> {"closed", "connecting", "open"}]
    BY <1>3 DEF Stream
  <1>8. OneCurrent(stream')
    BY <1>1, <1>4, <1>5, <1>6, <1>7 DEF IInv, Consistent, OneCurrent
  <1>9. Consistent(stream')
    BY <1>1, <1>4, <1>5, <1>6, <1>8 DEF Consistent, OneReconnect, StateTells
  <1>10. todo' \in Seq(Callback) /\ Len(todo') = 1
    BY <1>2 DEF Callback, Notify, Notification
  <1> QED
    BY <1>2, <1>6, <1>9, <1>10, CalmStepKeeps DEF StreamAssumption

LEMMA MessageKeeps ==
  ASSUME StreamAssumption, IInv, NEW s \in Socket, Message(s)
  PROVE  IInv'
  <1>1. /\ s = stream.current /\ stream.sockets[s] = "open"
        /\ stream' = Arm(stream) /\ todo' = <<Notify("message")>> /\ UNCHANGED options
    BY HeardIsCurrent DEF Message, options
  <1>2. stream \in Stream /\ beating \in BOOLEAN /\ stream.state = "open"
    BY <1>1 DEF IInv, Options, Consistent, StateTells
  <1>3. /\ stream' \in Stream /\ stream'.sockets = stream.sockets
        /\ stream'.current = stream.current /\ stream'.listening = stream.listening
        /\ stream'.timers = stream.timers /\ stream'.held = stream.held
        /\ stream'.state = stream.state /\ stream'.heart = beating
    BY <1>1, <1>2 DEF Stream, Arm
  <1>4. Consistent(stream')
    BY <1>2, <1>3 DEF IInv, Consistent, OneCurrent, OneReconnect, StateTells
  <1>5. todo' \in Seq(Callback) /\ Len(todo') = 1
    BY <1>1 DEF Callback, Notify, Notification
  <1> QED
    BY <1>1, <1>3, <1>4, <1>5, CalmStepKeeps DEF StreamAssumption

LEMMA SocketErrorKeeps ==
  ASSUME StreamAssumption, IInv, NEW s \in Socket, SocketError(s)
  PROVE  IInv'
  <1>1. todo' = <<Failed>> /\ ~Timing /\ UNCHANGED options /\ UNCHANGED stream
    BY HeardIsCurrent DEF SocketError, options, Failed
  <1>2. Options' /\ Consistent(stream)'
    BY <1>1, SameOptions DEF IInv
  <1>3. Len(todo') = 1
    BY <1>1
  <1>4. Watched'
    BY <1>1 DEF IInv, Watched, options
  <1>5. Agenda'
    BY <1>1 DEF Agenda, Failed, Notify
  <1> QED
    BY <1>2, <1>3, <1>4, <1>5 DEF IInv, StreamAssumption

LEMMA SocketClosesKeeps ==
  ASSUME StreamAssumption, IInv, NEW s \in Socket, SocketCloses(s)
  PROVE  IInv'
  <1>1. /\ stream.current # None /\ todo = <<>> /\ todo \in Seq(Callback)
        /\ transport = "websocket" /\ UNCHANGED options
    BY HeardIsCurrent DEF SocketCloses, options
  <1>2. CASE Close(<<>>)
    <2>1. <<>> \in Seq(Callback) /\ Len(<<>>) <= MaxDepth + 1
      BY DEF StreamAssumption
    <2> QED
      BY <1>1, <1>2, <2>1, CloseKeeps
  <1>3. CASE stream' = DropSocket(stream) /\ UNCHANGED todo
    <2>1. Consistent(stream') /\ stream'.state = "connecting"
      BY <1>1, <1>3, DropSocketReconnects DEF IInv
    <2> QED
      BY <1>1, <1>3, <2>1, CalmStepKeeps DEF IInv
  <1> QED
    BY <1>2, <1>3 DEF SocketCloses

LEMMA SourceErrorKeeps ==
  ASSUME StreamAssumption, IInv, NEW s \in Socket, SourceError(s)
  PROVE  IInv'
  <1>1. /\ s = stream.current /\ s # None /\ ~Timing
        /\ todo' = <<Failed, Consult(s)>> /\ UNCHANGED options
    BY HeardIsCurrent DEF SourceError, options, Failed, Consult
  <1>2. PICK now \in {"closed", "connecting"} :
          stream' = [stream EXCEPT !.sockets[s] = now]
    BY DEF SourceError
  <1>3. stream \in Stream
    BY DEF IInv, Consistent
  <1>4. /\ stream' \in Stream /\ stream'.sockets = [stream.sockets EXCEPT ![s] = now]
        /\ stream'.current = stream.current /\ stream'.listening = stream.listening
        /\ stream'.timers = stream.timers /\ stream'.held = stream.held
        /\ stream'.state = stream.state /\ stream'.heart = stream.heart
    BY <1>2, <1>3 DEF Stream
  <1>5. stream.sockets \in [Socket -> {"closed", "connecting", "open"}]
    BY <1>3 DEF Stream
  <1>6. Consistent(stream')
    BY <1>1, <1>4, <1>5 DEF IInv, Consistent, OneCurrent, OneReconnect, StateTells
  <1>7. Options' /\ Consistent(stream)'
    BY <1>1, <1>6, SameOptions DEF IInv
  <1>8. Consulting(s)' /\ stream'.current = s
    BY <1>1, <1>4 DEF Consulting, Failed, Consult, Notify
  <1>9. Watched'
    BY <1>1, <1>4 DEF IInv, Watched, options
  <1>10. Len(todo') = 2
    BY <1>1
  <1> QED
    BY <1>7, <1>8, <1>9, <1>10 DEF IInv, Agenda, StreamAssumption

LEMMA ConsultSourceKeeps ==
  ASSUME StreamAssumption, IInv, ConsultSource
  PROVE  IInv'
  <1>1. PICK s \in Socket : todo = <<Consult(s)>> /\ stream.current = s
    BY HeadTells DEF ConsultSource, IInv
  <1>2. /\ todo[1][2] = s /\ Tail(todo) = <<>> /\ <<>> \in Seq(Callback)
        /\ Len(<<>>) = 0 /\ UNCHANGED options
    BY <1>1, ErrorsEnd DEF ConsultSource, Consult, options
  <1>3. s # None /\ stream \in Stream /\ stream.state \in {"connecting", "open"}
    BY <1>1 DEF IInv, Consistent, Stream, StateTells, StreamAssumption
  <1>4. CASE stream.sockets[s] = "closed"
    <2>1. Close(Tail(todo))
      BY <1>2, <1>4 DEF ConsultSource
    <2>2. Close(<<>>)
      BY <1>2, <2>1, Zenon
    <2>3. Len(<<>>) <= MaxDepth + 1
      BY DEF StreamAssumption
    <2> QED
      BY <1>2, <2>2, <2>3, CloseKeeps
  <1>5. CASE stream.sockets[s] = "connecting"
    <2>1. stream' = DispatchReconnecting(stream) /\ todo' = <<>>
      BY <1>2, <1>5 DEF ConsultSource
    <2>2. /\ stream' \in Stream /\ stream'.sockets = stream.sockets
          /\ stream'.current = stream.current /\ stream'.listening = stream.listening
          /\ stream'.timers = stream.timers /\ stream'.held = stream.held
          /\ stream'.state = "connecting" /\ ~stream'.heart
      BY <1>3, <2>1 DEF Stream, DispatchReconnecting
    <2>3. Consistent(stream')
      <3>1. \A t \in Socket : stream.sockets[t] # "open"
        BY <1>1, <1>5 DEF IInv, Consistent, OneCurrent
      <3> QED
        BY <1>1, <1>3, <2>2, <3>1
           DEF IInv, Consistent, OneCurrent, OneReconnect, StateTells
    <2> QED
      BY <1>2, <2>1, <2>2, <2>3, CalmStepKeeps DEF StreamAssumption
  <1>6. CASE stream.sockets[s] = "open"
    <2>1. stream' = stream /\ todo' = <<>>
      BY <1>2, <1>6 DEF ConsultSource
    <2>2. ~Timing
      <3>1. Consult(s) # Timeout
        BY DEF Consult, Timeout
      <3>2. todo # <<Failed, Timeout>> /\ todo # <<Timeout>>
        BY <1>1, <3>1
      <3> QED
        BY <3>2 DEF Timing
    <2> QED
      BY <1>2, <2>1, <2>2, CalmStepKeeps DEF IInv, Watched, StreamAssumption
  <1>7. stream.sockets[s] \in {"closed", "connecting", "open"}
    BY <1>3 DEF Stream
  <1> QED
    BY <1>4, <1>5, <1>6, <1>7

LEMMA HeartbeatFiresKeeps ==
  ASSUME StreamAssumption, IInv, HeartbeatFires
  PROVE  IInv'
  <1>1. /\ stream \in Stream /\ stream.state = "open"
        /\ stream' = [stream EXCEPT !.heart = FALSE]
        /\ todo' = <<Failed, Timeout>> /\ UNCHANGED options
    BY DEF HeartbeatFires, IInv, Consistent, StateTells, options, Failed, Timeout
  <1>2. /\ stream' \in Stream /\ stream'.sockets = stream.sockets
        /\ stream'.current = stream.current /\ stream'.listening = stream.listening
        /\ stream'.timers = stream.timers /\ stream'.held = stream.held
        /\ stream'.state = stream.state /\ stream'.heart = FALSE
    BY <1>1 DEF Stream
  <1>3. Consistent(stream')
    BY <1>2 DEF IInv, Consistent, OneCurrent, OneReconnect, StateTells
  <1>4. Options' /\ Consistent(stream)'
    BY <1>1, <1>3, SameOptions DEF IInv
  <1>5. Timing'
    BY <1>1 DEF Timing, Failed, Timeout, Notify
  <1>6. Len(todo') = 2
    BY <1>1
  <1> QED
    BY <1>1, <1>2, <1>4, <1>5, <1>6 DEF IInv, Agenda, Watched, StreamAssumption

LEMMA GiveUpConnectionKeeps ==
  ASSUME StreamAssumption, IInv, GiveUpConnection
  PROVE  IInv'
  <1>1. todo = <<Timeout>> /\ stream.state = "open" /\ stream.current # None
    BY HeadTells DEF GiveUpConnection, IInv, Consistent, StateTells
  <1>2. /\ Tail(todo) = <<>> /\ <<>> \in Seq(Callback) /\ Len(<<>>) = 0
        /\ UNCHANGED options
    BY <1>1, ErrorsEnd DEF GiveUpConnection, options
  <1>3. CASE transport = "websocket" /\ ~reconnect
    <2>1. Close(Tail(todo))
      BY <1>2, <1>3 DEF GiveUpConnection
    <2>2. Close(<<>>)
      BY <1>2, <2>1, Zenon
    <2>3. Len(<<>>) <= MaxDepth + 1
      BY DEF StreamAssumption
    <2> QED
      BY <1>2, <2>2, <2>3, CloseKeeps
  <1>4. CASE ~(transport = "websocket" /\ ~reconnect)
    <2>1. todo' = <<>>
      BY <1>2, <1>4 DEF GiveUpConnection
    <2>2. Consistent(stream') /\ stream'.state = "connecting"
      <3>1. CASE transport = "sse"
        BY <1>1, <1>4, <3>1, ReplacedConnects DEF GiveUpConnection, IInv
      <3>2. CASE transport = "websocket"
        BY <1>1, <1>4, <3>2, DropSocketReconnects DEF GiveUpConnection, IInv
      <3> QED
        BY <3>1, <3>2 DEF IInv, Options
    <2> QED
      BY <1>2, <2>1, <2>2, CalmStepKeeps DEF StreamAssumption
  <1> QED
    BY <1>3, <1>4

LEMMA ReconnectFiresKeeps ==
  ASSUME StreamAssumption, IInv, ReconnectFires
  PROVE  IInv'
  <1> DEFINE fired == [stream EXCEPT !.timers = stream.timers - 1, !.held = FALSE]
  <1>1. /\ stream \in Stream /\ stream.held /\ stream.timers = 1
        /\ stream.current = None /\ stream.state = "connecting" /\ ~stream.heart
    BY DEF ReconnectFires, IInv, Consistent, Stream, OneReconnect, StateTells
  <1>2. stream' = OpenTransport(fired) /\ UNCHANGED <<options, todo>>
    BY <1>1, Zenon DEF ReconnectFires
  <1>3. fired = [stream EXCEPT !.timers = 0, !.held = FALSE]
    <2>1. stream.timers - 1 = 0
      BY <1>1
    <2> QED
      BY <2>1, Zenon
  <1> HIDE DEF fired
  <1>4. fired \in Stream /\ fired.timers = 0 /\ fired.held = FALSE
    BY <1>1, <1>3 DEF Stream
  <1>5. /\ fired.state = stream.state /\ fired.heart = stream.heart
        /\ fired.current = stream.current /\ fired.listening = stream.listening
        /\ fired.sockets = stream.sockets
    BY <1>1, <1>3 DEF Stream
  <1>6. OneCurrent(fired) /\ Unused(fired) = Unused(stream)
    BY <1>5 DEF IInv, Consistent, OneCurrent, Unused
  <1>7. Consistent(stream') /\ stream'.state = "connecting"
    BY <1>1, <1>2, <1>4, <1>5, <1>6, OpeningConnects DEF ReconnectFires
  <1>8. todo' \in Seq(Callback) /\ Len(todo') = 0
    BY <1>2 DEF ReconnectFires
  <1> QED
    BY <1>2, <1>7, <1>8, CalmStepKeeps DEF StreamAssumption

LEMMA InvNext == StreamAssumption /\ ErrorsAreOnlyHeard /\ IInv /\ [Next]_vars => IInv'
  <1> SUFFICES ASSUME StreamAssumption, ErrorsAreOnlyHeard, IInv, [Next]_vars
               PROVE  IInv'
    OBVIOUS
  <1>1. CASE UNCHANGED vars
    <2>1. UNCHANGED <<transport, reconnect, beating, stream, todo>>
      BY <1>1 DEF vars
    <2>2. Options' /\ Consistent(stream)'
      BY <2>1, SameOptions DEF IInv, options
    <2>3. Agenda' /\ Len(todo') <= MaxDepth + 2 /\ Watched'
      BY <2>1 DEF IInv, Agenda, Watched, Timing, Consulting
    <2> QED
      BY <2>1, <2>2, <2>3 DEF IInv
  <1>2. CASE UserConnect \/ UserClose
    BY <1>2, UserKeeps
  <1>3. CASE SubscriberCloses \/ SubscriberConnects
    BY <1>3, SubscriberKeeps
  <1>4. CASE Handle
    BY <1>4, SubscribersReturnKeeps, ConsultSourceKeeps, GiveUpConnectionKeeps DEF Handle
  <1>5. CASE HeartbeatFires \/ ReconnectFires
    BY <1>5, HeartbeatFiresKeeps, ReconnectFiresKeeps
  <1>6. ASSUME NEW s \in Socket,
               Opens(s) \/ Message(s) \/ SocketError(s) \/ SocketCloses(s) \/ SourceError(s)
        PROVE  IInv'
    BY <1>6, OpensKeeps, MessageKeeps, SocketErrorKeeps, SocketClosesKeeps,
       SourceErrorKeeps
  <1> QED
    BY <1>1, <1>2, <1>3, <1>4, <1>5, <1>6 DEF Next

-----------------------------------------------------------------------------
(* What it shows.                                                          *)

\* The steps left are steps of a handler.
LEMMA AgendaIsTyped == Agenda => todo \in Seq(Step)
  <1> SUFFICES ASSUME Agenda PROVE todo \in Seq(Step)
    OBVIOUS
  <1>1. /\ Callback \subseteq Step /\ Failed \in Step /\ Timeout \in Step
        /\ \A s \in Socket : Consult(s) \in Step
    BY DEF Callback, Failed, Timeout, Consult, Step, Notify, Notification
  <1>2. \A x, y \in Step : <<x>> \in Seq(Step) /\ <<x, y>> \in Seq(Step)
    OBVIOUS
  <1>3. CASE todo \in Seq(Callback)
    BY <1>1, <1>3
  <1> QED
    BY <1>1, <1>2, <1>3 DEF Agenda, Timing, Consulting

LEMMA InvTells ==
  StreamAssumption /\ IInv => OneConnection /\ ClosedIsQuiet /\ NeverStranded
  <1> SUFFICES ASSUME StreamAssumption, IInv
               PROVE  OneConnection /\ ClosedIsQuiet /\ NeverStranded
    OBVIOUS
  <1>1. TypeOK
    <2>1. /\ stream.heart => beating
          /\ stream.held => stream.timers > 0
          /\ transport = "sse" => stream.timers = 0
      BY DEF IInv, Consistent, StateTells, OneReconnect
    <2> QED
      BY <2>1, AgendaIsTyped DEF IInv, Options, Consistent, TypeOK
  <1>2. stream.listening \subseteq {stream.current}
    BY DEF IInv, Consistent, OneCurrent
  <1>3. ClosedIsQuiet
    BY DEF IInv, Consistent, OneCurrent, OneReconnect, StateTells, ClosedIsQuiet,
           StreamAssumption
  <1>4. NeverStranded
    <2>1. todo = <<>> => ~Timing
      BY DEF Timing
    <2> QED
      BY <2>1 DEF IInv, Consistent, Stream, StateTells, Watched, NeverStranded, Idle
  <1> QED
    BY <1>1, <1>2, <1>3, <1>4 DEF OneConnection

LEMMA InvAlways == ErrorsAreOnlyHeard /\ Spec => []IInv
  <1> SUFFICES ASSUME ErrorsAreOnlyHeard PROVE Spec => []IInv
    OBVIOUS
  <1>1. Init => IInv
    BY InvInit, StreamAssumption
  <1>2. IInv /\ [Next]_vars => IInv'
    BY InvNext, StreamAssumption
  <1> QED
    BY <1>1, <1>2, PTL DEF Spec

\* A stream whose subscribers to errors do not call back listens to one connection at
\* most, its current one, whichever transport it has and however deep the subscribers
\* to opens, messages and closes call close() and connect().
THEOREM ConnectionsAreSingle == ErrorsAreOnlyHeard /\ Spec => []OneConnection
  <1> SUFFICES ASSUME ErrorsAreOnlyHeard PROVE Spec => []OneConnection
    OBVIOUS
  <1>1. IInv => OneConnection
    BY InvTells, StreamAssumption
  <1> QED
    BY <1>1, InvAlways, PTL

\* Once close() is through with its subscribers, no socket is open or listened to, and
\* neither a heartbeat nor a reconnect is left to fire.
THEOREM CloseIsFinal == ErrorsAreOnlyHeard /\ Spec => []ClosedIsQuiet
  <1> SUFFICES ASSUME ErrorsAreOnlyHeard PROVE Spec => []ClosedIsQuiet
    OBVIOUS
  <1>1. IInv => ClosedIsQuiet
    BY InvTells, StreamAssumption
  <1> QED
    BY <1>1, InvAlways, PTL

\* A stream that is not closed has a connection or a pending reconnect, and an open one
\* is watched by its heartbeat.
THEOREM StreamsGoOn == ErrorsAreOnlyHeard /\ Spec => []NeverStranded
  <1> SUFFICES ASSUME ErrorsAreOnlyHeard PROVE Spec => []NeverStranded
    OBVIOUS
  <1>1. IInv => NeverStranded
    BY InvTells, StreamAssumption
  <1> QED
    BY <1>1, InvAlways, PTL
=============================================================================
