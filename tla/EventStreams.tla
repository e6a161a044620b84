---------------------------- MODULE EventStreams ----------------------------
(***************************************************************************)
(* EventStreamEmitter with its two transports, SseEventStream and          *)
(* WebSocketEventStream.  Everything runs on one thread, but subscribers   *)
(* are called in the middle of a handler and may call close() and          *)
(* connect() from there; the handler then goes on with what it had left to *)
(* do.  todo is what is left: its head is the step to take next, and a new *)
(* event is handled only when it is empty.                                 *)
(*                                                                         *)
(* Sockets stand for EventSources and WebSockets; what they do is external *)
(* except for the listeners the code attaches.  Delays are not modelled: a *)
(* pending timer may fire at any time.                                     *)
(***************************************************************************)
EXTENDS Integers, Sequences, FiniteSets

CONSTANTS
  Socket,      \* identities for sockets, used again once closed
  Transports,  \* the transports in use, among "sse" and "websocket"
  Reactive,    \* the notifications whose subscribers call back into the stream
  MaxDepth,    \* bound: how deep such calls nest
  None         \* no socket

VARIABLES
  transport,  \* the transport of this stream
  reconnect,  \* WebSocket: reconnect is not disabled
  beating,    \* heartbeatTimeoutMs > 0
  stream,     \* the fields of the emitter and its transport, and the sockets
  todo        \* the rest of the handler that is running

vars == <<transport, reconnect, beating, stream, todo>>
options == <<transport, reconnect, beating>>

Notification == {"open", "message", "error", "close"}

ASSUME StreamAssumption ==
  /\ Transports \subseteq {"sse", "websocket"}
  /\ Reactive \subseteq Notification
  /\ MaxDepth \in Nat \ {0}
  /\ None \notin Socket

\* After a notification: consult the EventSource about its error, or give up on
\* a connection whose heartbeat has stopped.
Step == ({"notify"} \X Notification) \union ({"consult"} \X Socket) \union {<<"timeout", None>>}

\* state: #state; current: #source or #socket; sockets: the readyState of each;
\* listening: those with listeners attached; heart: #heartbeatTimer is armed;
\* timers: reconnect timers pending; held: #reconnectTimer is one of them.
Stream ==
  [state     : {"closed", "connecting", "open"},
   current   : Socket \union {None},
   sockets   : [Socket -> {"closed", "connecting", "open"}],
   listening : SUBSET Socket,
   heart     : BOOLEAN,
   timers    : Nat,
   held      : BOOLEAN]

TypeOK ==
  /\ transport \in Transports /\ reconnect \in BOOLEAN /\ beating \in BOOLEAN
  /\ stream \in Stream
  /\ todo \in Seq(Step) /\ Len(todo) <= MaxDepth + 2
  /\ stream.heart => beating
  /\ stream.held => stream.timers > 0
  /\ transport = "sse" => stream.timers = 0

Init ==
  /\ transport \in Transports /\ reconnect \in BOOLEAN /\ beating \in BOOLEAN
  /\ stream = [state |-> "closed", current |-> None, sockets |-> [s \in Socket |-> "closed"],
               listening |-> {}, heart |-> FALSE, timers |-> 0, held |-> FALSE]
  /\ todo = <<>>

-----------------------------------------------------------------------------
(* The methods that call no subscriber, from stream to stream.             *)

Arm(st) == [st EXCEPT !.heart = beating]

\* #detachSource and #detachSocket.
Detach(st) ==
  IF st.current = None THEN st
  ELSE [st EXCEPT !.sockets[st.current] = "closed",
                  !.listening = st.listening \ {st.current},
                  !.current = None]

Unused(st) == {s \in Socket \ st.listening : st.sockets[s] = "closed"}

\* The new socket takes the place of the current one, whatever becomes of that.
OpenTransport(st) ==
  LET s == CHOOSE s \in Unused(st) : TRUE
  IN  [st EXCEPT !.sockets[s] = "connecting",
                 !.listening = st.listening \union {s},
                 !.current = s]

DispatchReconnecting(st) ==
  [st EXCEPT !.state = IF st.state = "open" THEN "connecting" ELSE st.state,
             !.heart = FALSE]

ScheduleReconnect(st) == [st EXCEPT !.timers = st.timers + 1, !.held = TRUE]

\* Mutant of ClearReconnect: the pending reconnect is left to fire.
KeepReconnect(st) == st

ClearReconnect(st) ==
  IF st.held THEN [st EXCEPT !.timers = st.timers - 1, !.held = FALSE] ELSE st

\* Mutant of DropSocket: nobody schedules the reconnect.
DropForGood(st) == DispatchReconnecting(Detach(st))

\* A WebSocket is given up and another one is to follow.
DropSocket(st) == ScheduleReconnect(DispatchReconnecting(Detach(st)))

\* close(), up to its subscribers.
Shut(st) == Detach(ClearReconnect([st EXCEPT !.state = "closed", !.heart = FALSE]))

\* connect().
Connected(st) == OpenTransport([st EXCEPT !.state = "connecting"])

Notify(n) == <<"notify", n>>

\* close() with its subscribers still to be told; rest is what its caller does next.
Close(rest) ==
  IF stream.state = "closed" THEN todo' = rest /\ UNCHANGED stream
  ELSE stream' = Shut(stream) /\ todo' = <<Notify("close")>> \o rest

-----------------------------------------------------------------------------
(* The user, between events.                                               *)

UserConnect ==
  /\ todo = <<>> /\ stream.state = "closed"
  /\ Unused(stream) # {}
  /\ stream' = Connected(stream)
  /\ UNCHANGED <<options, todo>>

UserClose ==
  /\ todo = <<>> /\ stream.state # "closed"
  /\ Close(<<>>)
  /\ UNCHANGED options

(* Subscribers, in the middle of a handler.                                *)

Notified == todo # <<>> /\ todo[1][1] = "notify" /\ todo[1][2] \in Reactive

SubscriberCloses ==
  /\ Notified /\ stream.state # "closed"
  /\ Len(todo) <= MaxDepth
  /\ Close(todo)
  /\ UNCHANGED options

SubscriberConnects ==
  /\ Notified /\ stream.state = "closed"
  /\ Unused(stream) # {}
  /\ stream' = Connected(stream)
  /\ UNCHANGED <<options, todo>>

SubscribersReturn ==
  /\ todo # <<>> /\ todo[1][1] = "notify"
  /\ todo' = Tail(todo)
  /\ UNCHANGED <<options, stream>>

-----------------------------------------------------------------------------
(* Events of a socket that has listeners attached.                         *)

Hears(s) == todo = <<>> /\ s \in stream.listening

\* onopen: dispatchOpen, unless the stream is closed.
Opens(s) ==
  /\ Hears(s) /\ stream.sockets[s] = "connecting"
  /\ LET opened == [stream EXCEPT !.sockets[s] = "open"]
     IN  IF stream.state = "closed" THEN stream' = opened /\ UNCHANGED todo
         ELSE /\ stream' = Arm([opened EXCEPT !.state = "open"])
              /\ todo' = <<Notify("open")>>
  /\ UNCHANGED options

\* onmessage and the named listeners: dispatchMessage.
Message(s) ==
  /\ Hears(s) /\ stream.sockets[s] = "open"
  /\ stream' = Arm(stream)
  /\ todo' = <<Notify("message")>>
  /\ UNCHANGED options

\* onerror of a WebSocket, or a frame that is not text.
SocketError(s) ==
  /\ transport = "websocket" /\ Hears(s) /\ stream.sockets[s] # "closed"
  /\ todo' = <<Notify("error")>>
  /\ UNCHANGED <<options, stream>>

\* onclose of a WebSocket, cleanly or not.
SocketCloses(s) ==
  /\ transport = "websocket" /\ Hears(s) /\ stream.sockets[s] # "closed"
  /\ \E clean \in BOOLEAN :
       IF clean \/ ~reconnect THEN Close(<<>>)
       ELSE stream' = DropSocket(stream) /\ UNCHANGED todo
  /\ UNCHANGED options

\* onerror of an EventSource, which has given up or is connecting again.
SourceError(s) ==
  /\ transport = "sse" /\ Hears(s) /\ stream.sockets[s] # "closed"
  /\ \E now \in {"closed", "connecting"} : stream' = [stream EXCEPT !.sockets[s] = now]
  /\ todo' = <<Notify("error"), <<"consult", s>>>>
  /\ UNCHANGED options

\* Then onerror looks at the readyState of the source that reported it.
ConsultSource ==
  /\ todo # <<>> /\ todo[1][1] = "consult"
  /\ IF stream.sockets[todo[1][2]] = "closed" THEN Close(Tail(todo))
     ELSE /\ stream' = IF stream.sockets[todo[1][2]] = "connecting"
                         THEN DispatchReconnecting(stream) ELSE stream
          /\ todo' = Tail(todo)
  /\ UNCHANGED options

-----------------------------------------------------------------------------
(* Timers.                                                                 *)

HeartbeatFires ==
  /\ todo = <<>> /\ stream.heart
  /\ stream' = [stream EXCEPT !.heart = FALSE]
  /\ todo' = <<Notify("error"), <<"timeout", None>>>>
  /\ UNCHANGED options

\* Mutant of GiveUpConnection: the silent EventSource stays beside the new one.
GiveUpLoosely ==
  /\ todo # <<>> /\ todo[1][1] = "timeout"
  /\ Unused(stream) # {}
  /\ IF transport = "websocket" /\ ~reconnect THEN Close(Tail(todo))
     ELSE /\ stream' = IF transport = "sse"
                         THEN OpenTransport(DispatchReconnecting(stream))
                         ELSE DropSocket(stream)
          /\ todo' = Tail(todo)
  /\ UNCHANGED options

\* onHeartbeatTimeout, once subscribers know.
GiveUpConnection ==
  /\ todo # <<>> /\ todo[1][1] = "timeout"
  /\ IF transport = "websocket" /\ ~reconnect THEN Close(Tail(todo))
     ELSE /\ stream' = IF transport = "sse"
                         THEN OpenTransport(DispatchReconnecting(Detach(stream)))
                         ELSE DropSocket(stream)
          /\ todo' = Tail(todo)
  /\ UNCHANGED options

\* Whichever timer fires, #reconnectTimer is forgotten.
ReconnectFires ==
  /\ todo = <<>> /\ stream.timers > 0
  /\ Unused(stream) # {}
  /\ LET fired == [stream EXCEPT !.timers = @ - 1, !.held = FALSE]
     IN  stream' = IF stream.state = "closed" THEN fired ELSE OpenTransport(fired)
  /\ UNCHANGED <<options, todo>>

Handle == SubscribersReturn \/ ConsultSource \/ GiveUpConnection

Next ==
  \/ UserConnect \/ UserClose
  \/ SubscriberCloses \/ SubscriberConnects
  \/ Handle \/ HeartbeatFires \/ ReconnectFires
  \/ \E s \in Socket :
       Opens(s) \/ Message(s) \/ SocketError(s) \/ SocketCloses(s) \/ SourceError(s)

Spec == Init /\ [][Next]_vars

\* Handlers return, timers fire, and the server takes a connection now and then.
FairSpec ==
  /\ Spec
  /\ WF_vars(Handle) /\ WF_vars(ReconnectFires)
  /\ SF_vars(\E s \in Socket : Opens(s))

-----------------------------------------------------------------------------
Idle == todo = <<>>

\* A stream listens to one connection at most, its current one: no message is
\* delivered twice, and close() can reach every connection it has opened.  The
\* stream's fields keep their types.
OneConnection == TypeOK /\ stream.listening \subseteq {stream.current}

\* "Tears down the connection, detaches transport listeners, and sets state to
\* closed" (eventstream.ts:60): once a transport has run to the end of what it was
\* doing, nothing of a closed stream is left to speak up or to time out.
ClosedIsQuiet ==
  Idle /\ stream.state = "closed" =>
    /\ stream.listening = {} /\ \A s \in Socket : stream.sockets[s] = "closed"
    /\ ~stream.heart /\ stream.timers = 0

\* A stream that is not closed has a connection or a reconnect to look forward to,
\* and an open one is watched by its heartbeat, so a silent server is noticed.
NeverStranded ==
  Idle /\ stream.state # "closed" =>
    /\ stream.current # None \/ stream.held
    /\ stream.state = "open" => stream.current # None /\ stream.heart = beating

\* A dropped connection comes back, or the stream says that it is closed.
DropsHeal == stream.state = "connecting" ~> stream.state \in {"open", "closed"}
=============================================================================
