------------------------ MODULE LockProvidersProofs ------------------------
(***************************************************************************)
(* Mutual exclusion between the callers of DistributedLock, for any number *)
(* of callers and any lifetimes, over all three providers at once.         *)
(***************************************************************************)
EXTENDS LockProviders, TLAPS

\* The store backs n more ticks of t's lease.
Backed(t, n) == n > 0 => row # None /\ row.token = t /\ row.life >= n

\* What a caller relies on, and what an answer on its way will let it rely on,
\* is in the store.
LeasesBacked ==
  \A t \in Token :
    /\ caller[t] = "held" => Backed(t, sure[t])
    /\ call["acquire"][t] # None /\ call["acquire"][t].ok =>
         Backed(t, call["acquire"][t].left)
    /\ caller[t] = "held" /\ call["refresh"][t] # None /\ call["refresh"][t].ok =>
         Backed(t, call["refresh"][t].left)

\* A lock is refreshed and released only once acquire() has returned it, and a
\* caller that has asked for the release relies on it no more.
CallsInOrder ==
  \A t \in Token :
    /\ caller[t] \in {"new", "acquiring"} \/ call["acquire"][t] # None =>
         call["refresh"][t] = None /\ call["release"][t] = None
    /\ call["acquire"][t] # None => caller[t] \in {"acquiring", "gone"}
    /\ caller[t] = "held" => call["release"][t] = None

\* A refresh under way leaves at least what its caller relies on, and no answer
\* is worth more than was asked for.
AnswersBounded ==
  \A t \in Token :
    /\ caller[t] = "held" /\ call["refresh"][t] # None =>
         sure[t] <= call["refresh"][t].ttl
    /\ \A o \in Op : call[o][t] # None => call[o][t].left <= call[o][t].ttl

IInv == TypeOK /\ LeasesBacked /\ CallsInOrder /\ AnswersBounded

-----------------------------------------------------------------------------
(* What becomes of a call.                                                 *)

LEMMA AskedCall ==
  ASSUME NEW ttl \in Ttls \union {0}
  PROVE  Asked(ttl) \in Call /\ Asked(ttl).ttl = ttl /\ Asked(ttl).left = ttl /\ ~Asked(ttl).ok
  BY LockAssumption DEF Asked, Call

LEMMA ServedCall ==
  ASSUME NEW c \in Call, NEW ok \in BOOLEAN
  PROVE  /\ Served(c, ok) \in Call \union {None}
         /\ Served(c, ok) # None => /\ Served(c, ok).ttl = c.ttl
                                   /\ Served(c, ok).left = c.left
                                   /\ Served(c, ok).ok = ok
  BY LockAssumption DEF Served, Call

LEMMA UnawaitedCall ==
  ASSUME NEW c \in Call \union {None}
  PROVE  /\ Unawaited(c) \in Call \union {None}
         /\ Unawaited(c) # None =>
              /\ c # None /\ ~c.served
              /\ Unawaited(c).ttl = c.ttl /\ Unawaited(c).left = c.left /\ Unawaited(c).ok = c.ok
  BY LockAssumption DEF Unawaited, Call

LEMMA SentAgainCall ==
  ASSUME NEW c \in Call, c.resends < Resends
  PROVE  /\ SentAgain(c) \in Call
         /\ SentAgain(c).ttl = c.ttl /\ SentAgain(c).left = c.left /\ ~SentAgain(c).ok
  <1> DEFINE n == c.resends + 1
  <1>1. n \in 0..Resends
    BY LockAssumption DEF Call
  <1>2. /\ [c EXCEPT !.served = FALSE, !.ok = FALSE, !.resends = n] \in Call
        /\ [c EXCEPT !.served = FALSE, !.ok = FALSE, !.resends = n].ttl = c.ttl
        /\ [c EXCEPT !.served = FALSE, !.ok = FALSE, !.resends = n].left = c.left
        /\ ~[c EXCEPT !.served = FALSE, !.ok = FALSE, !.resends = n].ok
    <2> HIDE DEF n
    <2> QED
      BY <1>1 DEF Call
  <1> QED
    BY <1>2 DEF SentAgain

LEMMA WaitedCall ==
  ASSUME NEW c \in Call \union {None}
  PROVE  /\ Waited(c) \in Call \union {None}
         /\ c = None <=> Waited(c) = None
         /\ c # None => /\ Waited(c).ttl = c.ttl /\ Waited(c).ok = c.ok
                        /\ Waited(c).left = Down(c.left)
  BY LockAssumption DEF Waited, Call, Down

LEMMA AgedRow ==
  ASSUME NEW r \in Row \union {None}
  PROVE  /\ Aged(r) \in Row \union {None}
         /\ r # None /\ r.life > 1 => /\ Aged(r) # None /\ Aged(r).token = r.token
                                      /\ Aged(r).life = r.life - 1
  <1>1. CASE r = None
    BY <1>1 DEF Aged
  <1>2. CASE r # None
    <2> DEFINE life == IF r.life > -1 THEN r.life - 1 ELSE -1
    <2>1. r \in [token : Token, life : Nat \union {-1}]
      BY <1>2 DEF Row
    <2>2. r.token \in Token /\ r.life \in Nat \union {-1}
      BY <2>1
    <2>3. life \in Nat \union {-1}
      BY <2>2
    <2>4. [r EXCEPT !.life = life] \in Row /\ [r EXCEPT !.life = life].token = r.token
          /\ [r EXCEPT !.life = life].life = life
      <3> HIDE DEF life
      <3> QED
        BY <2>1, <2>2, <2>3 DEF Row
    <2>5. [r EXCEPT !.life = life] # None
      BY <2>4, LockAssumption
    <2> QED
      BY <1>2, <2>2, <2>4, <2>5 DEF Aged
  <1> QED
    BY <1>1, <1>2

\* One call is replaced by c, the others stay.
Replaced(o, t, c) ==
  /\ call' \in [Op -> [Token -> Call \union {None}]]
  /\ \A p \in Op, u \in Token :
       /\ call'[p][u] = IF p = o /\ u = t THEN c ELSE call[p][u]
       /\ call'[p][u] # None => (call'[p][u].ttl = 0 <=> p = "release")

LEMMA CallSet ==
  ASSUME TypeOK, NEW o \in Op, NEW t \in Token, NEW c \in Call \union {None},
         c # None => (c.ttl = 0 <=> o = "release"),
         call' = [call EXCEPT ![o][t] = c]
  PROVE  Replaced(o, t, c)
  <1> USE DEF TypeOK
  <1>1. call' \in [Op -> [Token -> Call \union {None}]]
    OBVIOUS
  <1>2. \A p \in Op, u \in Token : call'[p][u] = IF p = o /\ u = t THEN c ELSE call[p][u]
    OBVIOUS
  <1> QED
    BY <1>1, <1>2 DEF Replaced

LEMMA AskSets ==
  ASSUME TypeOK, NEW o \in Op, NEW t \in Token, NEW ttl \in Ttls \union {0},
         ttl = 0 <=> o = "release", Ask(o, t, ttl)
  PROVE  Replaced(o, t, Asked(ttl))
  BY AskedCall, CallSet DEF Ask

LEMMA ServeSets ==
  ASSUME TypeOK, NEW o \in Op, NEW t \in Token, NEW ok \in BOOLEAN, call[o][t] # None,
         Serve(o, t, ok)
  PROVE  Replaced(o, t, Served(call[o][t], ok))
  <1>1. call[o][t] \in Call /\ (call[o][t].ttl = 0 <=> o = "release")
    BY DEF TypeOK
  <1>2. Served(call[o][t], ok) \in Call \union {None}
    BY <1>1, ServedCall
  <1>3. Served(call[o][t], ok) # None => Served(call[o][t], ok).ttl = call[o][t].ttl
    BY <1>1, ServedCall
  <1> QED
    BY <1>1, <1>2, <1>3, CallSet DEF Serve

LEMMA FailSets ==
  ASSUME TypeOK, NEW o \in Op, NEW t \in Token, Fail(o, t)
  PROVE  Replaced(o, t, Unawaited(call[o][t]))
  <1>1. call[o][t] \in Call /\ (call[o][t].ttl = 0 <=> o = "release")
    BY DEF TypeOK, Fail
  <1>2. Unawaited(call[o][t]) \in Call \union {None}
    BY <1>1, UnawaitedCall
  <1>3. Unawaited(call[o][t]) # None => Unawaited(call[o][t]).ttl = call[o][t].ttl
    BY <1>1, UnawaitedCall
  <1> QED
    BY <1>1, <1>2, <1>3, CallSet DEF Fail

LEMMA ResendSets ==
  ASSUME TypeOK, NEW o \in Op, NEW t \in Token, Resend(o, t)
  PROVE  Replaced(o, t, SentAgain(call[o][t]))
  <1>1. call[o][t] \in Call /\ (call[o][t].ttl = 0 <=> o = "release")
    BY DEF TypeOK, Resend, Answered
  <1>2. SentAgain(call[o][t]) \in Call /\ SentAgain(call[o][t]).ttl = call[o][t].ttl
    BY <1>1, SentAgainCall DEF Resend
  <1> QED
    BY <1>1, <1>2, CallSet DEF Resend

LEMMA AnswerSets ==
  ASSUME TypeOK, NEW t \in Token
  PROVE  /\ AnswerAcquire(t) => Replaced("acquire", t, None)
         /\ AnswerRefresh(t) => Replaced("refresh", t, None)
         /\ AnswerRelease(t) => Replaced("release", t, None)
  BY CallSet DEF AnswerAcquire, AnswerRefresh, AnswerRelease, Op

LEMMA CrashSets ==
  ASSUME TypeOK, NEW t \in Token, Crash(t)
  PROVE  /\ call' \in [Op -> [Token -> Call \union {None}]]
         /\ \A o \in Op, u \in Token :
              /\ call'[o][u] = IF u = t THEN Unawaited(call[o][u]) ELSE call[o][u]
              /\ call'[o][u] # None => (call'[o][u].ttl = 0 <=> o = "release")
  <1>1. \A o \in Op, u \in Token :
          call'[o][u] = IF u = t THEN Unawaited(call[o][u]) ELSE call[o][u]
    BY DEF TypeOK, Crash
  <1>2. \A o \in Op : Unawaited(call[o][t]) \in Call \union {None}
    BY UnawaitedCall DEF TypeOK
  <1>3. call' \in [Op -> [Token -> Call \union {None}]]
    BY <1>2 DEF TypeOK, Crash
  <1>4. \A o \in Op : Unawaited(call[o][t]) # None =>
          call[o][t] # None /\ Unawaited(call[o][t]).ttl = call[o][t].ttl
    BY UnawaitedCall DEF TypeOK
  <1> QED
    BY <1>1, <1>3, <1>4 DEF TypeOK

-----------------------------------------------------------------------------
LEMMA TypeInit == Init => TypeOK
  BY LockAssumption DEF Init, TypeOK, Standing

LEMMA TypeTick == TypeOK /\ Tick => TypeOK'
  BY LockAssumption, WaitedCall, AgedRow DEF TypeOK, Tick, Down

\* The type of row, caller and sure, after a step of one caller.
LEMMA StateType ==
  ASSUME TypeOK, NEW t \in Token, Step(t)
  PROVE  /\ row' \in Row \union {None}
         /\ caller' \in [Token -> Standing]
         /\ sure' \in [Token -> Nat]
  <1> USE DEF TypeOK, Op
  <1>1. CASE AskAcquire(t)
    BY <1>1 DEF AskAcquire, Standing
  <1>2. CASE AskRefresh(t)
    BY <1>2, LockAssumption DEF AskRefresh, Least
  <1>3. CASE AskRelease(t)
    BY <1>3 DEF AskRelease, Standing
  <1>4. CASE ServeAcquire(t)
    <2>1. call["acquire"][t] \in Call /\ call["acquire"][t].ttl \in Ttls \union {0}
      BY <1>4 DEF ServeAcquire, Pending, Call
    <2> QED
      <3> DEFINE ttl == call["acquire"][t].ttl
      <3>1. ttl \in Nat
        BY <2>1, LockAssumption
      <3>2. [token |-> t, life |-> ttl] \in Row
        <4> HIDE DEF ttl
        <4> QED
          BY <3>1 DEF Row
      <3> QED
        BY <1>4, <3>2 DEF ServeAcquire
  <1>5. CASE ServeRefresh(t)
    <2>1. call["refresh"][t] \in Call /\ call["refresh"][t].ttl \in Ttls \union {0}
      BY <1>5 DEF ServeRefresh, Pending, Call
    <2> QED
      <3> DEFINE ttl == call["refresh"][t].ttl
      <3>1. ttl \in Nat
        BY <2>1, LockAssumption
      <3>2. row # None => [row EXCEPT !.life = ttl] \in Row
        <4> HIDE DEF ttl
        <4> QED
          BY <3>1 DEF Row
      <3> QED
        BY <1>5, <3>2 DEF ServeRefresh, Extendable, Owns
  <1>6. CASE ServeRelease(t)
    BY <1>6 DEF ServeRelease
  <1>7. CASE AnswerAcquire(t)
    BY <1>7 DEF AnswerAcquire, Answered, Call, Standing
  <1>8. CASE AnswerRefresh(t)
    BY <1>8 DEF AnswerRefresh, Answered, Call, Standing
  <1>9. CASE AnswerRelease(t)
    BY <1>9 DEF AnswerRelease
  <1>10. CASE Crash(t)
    BY <1>10 DEF Crash, Standing
  <1>11. ASSUME NEW o \in Op, Fail(o, t) \/ Resend(o, t)
         PROVE  row' = row /\ caller' \in [Token -> Standing] /\ sure' = sure
    BY <1>11 DEF Fail, Resend, Standing
  <1> QED
    BY <1>1, <1>2, <1>3, <1>4, <1>5, <1>6, <1>7, <1>8, <1>9, <1>10, <1>11 DEF Step

\* Every call keeps its type, after a step of one caller.
LEMMA CallsType ==
  ASSUME TypeOK, NEW t \in Token, Step(t)
  PROVE  /\ call' \in [Op -> [Token -> Call \union {None}]]
         /\ \A o \in Op, u \in Token :
              call'[o][u] # None => (call'[o][u].ttl = 0 <=> o = "release")
  <1>1. CASE AskAcquire(t) \/ AskRefresh(t) \/ AskRelease(t)
    <2>1. PICK o \in Op, ttl \in Ttls \union {0} : (ttl = 0 <=> o = "release") /\ Ask(o, t, ttl)
      <3>1. CASE AskAcquire(t)
        <4>1. PICK ttl \in Ttls : Ask("acquire", t, ttl)
          BY <3>1 DEF AskAcquire
        <4>2. ttl # 0 /\ "acquire" \in Op /\ "acquire" # "release"
          BY LockAssumption DEF Op
        <4> QED
          BY <4>1, <4>2
      <3>2. CASE AskRefresh(t)
        <4>1. PICK ttl \in Ttls : Ask("refresh", t, ttl)
          BY <3>2 DEF AskRefresh
        <4>2. ttl # 0 /\ "refresh" \in Op /\ "refresh" # "release"
          BY LockAssumption DEF Op
        <4> QED
          BY <4>1, <4>2
      <3>3. CASE AskRelease(t)
        <4>1. Ask("release", t, 0) /\ "release" \in Op
          BY <3>3 DEF AskRelease, Op
        <4> QED
          BY <4>1
      <3> QED
        BY <1>1, <3>1, <3>2, <3>3
    <2>2. Replaced(o, t, Asked(ttl))
      BY <2>1, AskSets
    <2> QED
      BY <2>2 DEF Replaced
  <1>2. CASE ServeAcquire(t) \/ ServeRefresh(t) \/ ServeRelease(t)
    <2>1. PICK o \in Op, ok \in BOOLEAN : call[o][t] # None /\ Serve(o, t, ok)
      BY <1>2 DEF ServeAcquire, ServeRefresh, ServeRelease, Pending, Op
    <2> QED
      BY <2>1, ServeSets DEF Replaced
  <1>3. CASE AnswerAcquire(t) \/ AnswerRefresh(t) \/ AnswerRelease(t)
    BY <1>3, AnswerSets DEF Replaced
  <1>4. CASE Crash(t)
    BY <1>4, CrashSets
  <1>5. CASE \E o \in Op : Fail(o, t)
    BY <1>5, FailSets DEF Replaced
  <1>6. CASE \E o \in Op : Resend(o, t)
    BY <1>6, ResendSets DEF Replaced
  <1> QED
    BY <1>1, <1>2, <1>3, <1>4, <1>5, <1>6 DEF Step

LEMMA TypeStep ==
  ASSUME TypeOK, NEW t \in Token, Step(t)
  PROVE  TypeOK'
  <1>1. UNCHANGED provider
    BY DEF Step, AskAcquire, AskRefresh, AskRelease, ServeAcquire, ServeRefresh, ServeRelease,
         AnswerAcquire, AnswerRefresh, AnswerRelease, Crash, Fail, Resend
  <1> QED
    BY <1>1, StateType, CallsType DEF TypeOK

\* Every variable keeps its type, whatever fails, crashes or is sent again, and
\* no lease is asked for with an empty lifetime.
THEOREM TypeCorrect == Spec => []TypeOK
  <1>1. TypeOK /\ [Next]_vars => TypeOK'
    BY TypeTick, TypeStep DEF Next, CleanupExpired, TypeOK, vars
  <1> QED
    BY <1>1, TypeInit, PTL DEF Spec

-----------------------------------------------------------------------------
LEMMA InvInit == Init => IInv
  BY TypeInit DEF Init, IInv, LeasesBacked, CallsInOrder, AnswersBounded, Backed, Op

\* What backs a longer reliance backs a shorter one.
LEMMA BackedLess ==
  ASSUME TypeOK, NEW t \in Token, NEW n \in Nat, NEW m \in Nat, m <= n, Backed(t, n)
  PROVE  Backed(t, m)
  <1>1. row # None => row.life \in Nat \union {-1}
    BY DEF TypeOK, Row
  <1> QED
    BY <1>1 DEF Backed

LEMMA CallFields ==
  ASSUME TypeOK, NEW o \in Op, NEW t \in Token, call[o][t] # None
  PROVE  /\ call[o][t] \in Call
         /\ call[o][t].ttl \in Nat /\ call[o][t].left \in Nat /\ call[o][t].ok \in BOOLEAN
  <1>1. call[o][t] \in Call
    BY DEF TypeOK
  <1>2. /\ call[o][t].ttl \in Ttls \union {0} /\ call[o][t].left \in Nat
        /\ call[o][t].ok \in BOOLEAN
    BY <1>1 DEF Call
  <1>3. \A n \in Ttls \union {0} : n \in Nat
    BY LockAssumption
  <1> QED
    BY <1>1, <1>2, <1>3

LEMMA InvAskAcquire ==
  ASSUME IInv, NEW t \in Token, AskAcquire(t)
  PROVE  LeasesBacked' /\ CallsInOrder' /\ AnswersBounded'
  <1> USE DEF IInv, TypeOK, Op
  <1>1. PICK ttl \in Ttls : Replaced("acquire", t, Asked(ttl))
    BY LockAssumption, AskSets DEF AskAcquire
  <1>2. /\ Asked(ttl) \in Call /\ Asked(ttl).left <= Asked(ttl).ttl /\ ~Asked(ttl).ok
    BY AskedCall, LockAssumption DEF Call
  <1>3. LeasesBacked'
    BY <1>1, <1>2 DEF AskAcquire, Replaced, LeasesBacked, CallsInOrder, AnswersBounded, Backed
  <1>4. CallsInOrder'
    BY <1>1, <1>2 DEF AskAcquire, Replaced, CallsInOrder
  <1>5. AnswersBounded'
    BY <1>1, <1>2 DEF AskAcquire, Replaced, AnswersBounded, CallsInOrder
  <1> QED
    BY <1>3, <1>4, <1>5

LEMMA InvAskRefresh ==
  ASSUME IInv, NEW t \in Token, AskRefresh(t)
  PROVE  LeasesBacked' /\ CallsInOrder' /\ AnswersBounded'
  <1> USE DEF IInv, TypeOK, Op
  <1>1. PICK ttl \in Ttls :
          /\ Replaced("refresh", t, Asked(ttl))
          /\ sure' = [sure EXCEPT ![t] = Least(sure[t], ttl)]
          /\ UNCHANGED <<row, caller>>
    BY LockAssumption, AskSets DEF AskRefresh
  <1>2. /\ ttl \in Nat /\ Asked(ttl).ttl = ttl
        /\ Asked(ttl) \in Call /\ Asked(ttl).left <= Asked(ttl).ttl /\ ~Asked(ttl).ok
    BY AskedCall, LockAssumption DEF Call
  <1>6. /\ \A u \in Token : sure'[u] \in Nat /\ sure'[u] <= sure[u]
        /\ sure'[t] <= ttl
    BY <1>1, <1>2 DEF Least
  <1>3. LeasesBacked'
    <2>1. \A u \in Token : caller[u] = "held" => Backed(u, sure'[u])
      BY <1>6, BackedLess DEF LeasesBacked
    <2>2. \A u \in Token, o \in Op :
            call'[o][u] # None /\ call'[o][u].ok => call[o][u] = call'[o][u]
      BY <1>1, <1>2 DEF Replaced
    <2> QED
      BY <1>1, <2>1, <2>2 DEF LeasesBacked, Backed
  <1>4. CallsInOrder'
    BY <1>1, <1>2 DEF AskRefresh, Replaced, Least, CallsInOrder
  <1>5. AnswersBounded'
    BY <1>1, <1>2 DEF AskRefresh, Replaced, Least, AnswersBounded, CallsInOrder
  <1> QED
    BY <1>3, <1>4, <1>5

LEMMA InvAskRelease ==
  ASSUME IInv, NEW t \in Token, AskRelease(t)
  PROVE  LeasesBacked' /\ CallsInOrder' /\ AnswersBounded'
  <1> USE DEF IInv, TypeOK, Op
  <1>1. Replaced("release", t, Asked(0))
    BY AskSets DEF AskRelease
  <1>2. /\ Asked(0) \in Call /\ Asked(0).left <= Asked(0).ttl /\ ~Asked(0).ok
    BY AskedCall DEF Call
  <1>3. LeasesBacked'
    BY <1>1, <1>2 DEF AskRelease, Replaced, LeasesBacked, CallsInOrder, AnswersBounded, Backed
  <1>4. CallsInOrder'
    BY <1>1, <1>2 DEF AskRelease, Replaced, CallsInOrder
  <1>5. AnswersBounded'
    BY <1>1, <1>2 DEF AskRelease, Replaced, AnswersBounded, CallsInOrder
  <1> QED
    BY <1>3, <1>4, <1>5
\* A call that is replaced by one no better leaves the calls in order.
LEMMA CallWorsens ==
  ASSUME IInv, NEW o \in Op, NEW t \in Token, NEW c, Replaced(o, t, c),
         c # None => call[o][t] # None /\ c.ttl = call[o][t].ttl /\ c.left = call[o][t].left,
         UNCHANGED <<caller, sure>>
  PROVE  CallsInOrder' /\ AnswersBounded'
  <1>1. CallsInOrder'
    BY DEF IInv, Op, Replaced, CallsInOrder
  <1>2. AnswersBounded'
    BY DEF IInv, Op, Replaced, AnswersBounded
  <1> QED
    BY <1>1, <1>2

LEMMA InvServeAcquire ==
  ASSUME IInv, NEW t \in Token, ServeAcquire(t)
  PROVE  LeasesBacked' /\ CallsInOrder' /\ AnswersBounded'
  <1> USE DEF IInv, TypeOK, Op
  <1>1. PICK ok \in BOOLEAN :
          /\ Replaced("acquire", t, Served(call["acquire"][t], ok))
          /\ IF ok THEN Grantable /\ row' = [token |-> t, life |-> call["acquire"][t].ttl]
                   ELSE UNCHANGED row
          /\ UNCHANGED <<caller, sure>>
    BY ServeSets DEF ServeAcquire, Pending
  <1>2. /\ call["acquire"][t] \in Call /\ call["acquire"][t] # None
        /\ Served(call["acquire"][t], ok) # None =>
             /\ Served(call["acquire"][t], ok).ttl = call["acquire"][t].ttl
             /\ Served(call["acquire"][t], ok).left = call["acquire"][t].left
             /\ Served(call["acquire"][t], ok).ok = ok
    BY ServedCall DEF ServeAcquire, Pending
  <1>3. LeasesBacked'
    <2>1. CASE ok
      <3>1. row # None => row.life \in Nat \union {-1} /\ row.life <= 0
        BY <1>1, <2>1 DEF Grantable, Row
      <3>2. \A u \in Token, n \in Nat : Backed(u, n) => n = 0
        BY <3>1 DEF Backed
      <3>3. \A u \in Token : (caller[u] = "held" => Backed(u, sure[u]))'
        BY <1>1, <3>2 DEF LeasesBacked, Backed
      <3>4. \A u \in Token : u # t =>
              (call["acquire"][u] # None /\ call["acquire"][u].ok =>
                 Backed(u, call["acquire"][u].left))'
        BY <1>1, <3>2, CallFields DEF Replaced, LeasesBacked, Backed
      <3>5. (call["acquire"][t] # None => Backed(t, call["acquire"][t].left))'
        <4>1. call["acquire"][t].left <= call["acquire"][t].ttl
          BY <1>2 DEF AnswersBounded
        <4>2. [token |-> t, life |-> call["acquire"][t].ttl] \in Row
          BY <1>2, CallFields DEF Row
        <4>3. row' # None /\ row'.token = t /\ row'.life = call["acquire"][t].ttl
          BY <1>1, <2>1, <4>2, LockAssumption
        <4>4. call'["acquire"][t] # None =>
                call'["acquire"][t].left = call["acquire"][t].left
          BY <1>1, <1>2 DEF Replaced
        <4> QED
          BY <4>1, <4>3, <4>4 DEF Backed
      <3>6. \A u \in Token :
              (caller[u] = "held" /\ call["refresh"][u] # None /\ call["refresh"][u].ok =>
                 Backed(u, call["refresh"][u].left))'
        BY <1>1, <3>2, CallFields DEF Replaced, LeasesBacked, Backed
      <3> QED
        BY <3>3, <3>4, <3>5, <3>6 DEF LeasesBacked
    <2>2. CASE ~ok
      BY <1>1, <1>2, <2>2 DEF LeasesBacked, Replaced, Backed
    <2> QED
      BY <2>1, <2>2
  <1>4. CallsInOrder'
    BY <1>1, <1>2, CallWorsens
  <1>5. AnswersBounded'
    BY <1>1, <1>2, CallWorsens
  <1> QED
    BY <1>3, <1>4, <1>5

LEMMA InvServeRefresh ==
  ASSUME IInv, NEW t \in Token, ServeRefresh(t)
  PROVE  LeasesBacked' /\ CallsInOrder' /\ AnswersBounded'
  <1> USE DEF IInv, TypeOK, Op
  <1> DEFINE c == call["refresh"][t]
  <1>1. PICK ok \in BOOLEAN :
          /\ Replaced("refresh", t, Served(c, ok))
          /\ IF ok THEN Extendable(t) /\ row' = [row EXCEPT !.life = c.ttl] ELSE UNCHANGED row
          /\ UNCHANGED <<caller, sure>>
    BY ServeSets DEF ServeRefresh, Pending
  <1>2. /\ c \in Call /\ c # None /\ c.ttl \in Nat /\ c.left \in Nat
        /\ Served(c, ok) # None =>
             Served(c, ok).ttl = c.ttl /\ Served(c, ok).left = c.left /\ Served(c, ok).ok = ok
    BY ServedCall, CallFields DEF ServeRefresh, Pending
  <1>3. CallsInOrder' /\ AnswersBounded'
    BY <1>1, <1>2, CallWorsens
  <1>4. LeasesBacked'
    <2>1. CASE ok
      <3>1. row # None /\ row.token = t /\ row \in Row
        BY <1>1, <2>1 DEF Extendable, Owns
      <3>2. [row EXCEPT !.life = c.ttl] \in Row /\ [row EXCEPT !.life = c.ttl].token = t
            /\ [row EXCEPT !.life = c.ttl].life = c.ttl
        <4> HIDE DEF c
        <4> QED
          BY <1>2, <3>1 DEF Row
      <3>3. row' # None /\ row'.token = t /\ row'.life = c.ttl
        BY <1>1, <2>1, <3>2, LockAssumption
      <3>4. \A u \in Token, n \in Nat : u # t /\ Backed(u, n) => n = 0
        BY <3>1 DEF Backed
      <3>5. \A u \in Token : (caller[u] = "held" => Backed(u, sure[u]))'
        BY <1>1, <1>2, <3>3, <3>4 DEF LeasesBacked, AnswersBounded, Backed
      <3>6. \A u \in Token :
              (call["acquire"][u] # None /\ call["acquire"][u].ok =>
                 Backed(u, call["acquire"][u].left))'
        BY <1>1, <1>2, <3>4, CallFields DEF Replaced, LeasesBacked, CallsInOrder, Backed
      <3>7. \A u \in Token : u # t =>
              (caller[u] = "held" /\ call["refresh"][u] # None /\ call["refresh"][u].ok =>
                 Backed(u, call["refresh"][u].left))'
        BY <1>1, <3>4, CallFields DEF Replaced, LeasesBacked, Backed
      <3>8. (call["refresh"][t] # None => Backed(t, call["refresh"][t].left))'
        <4>1. c.left <= c.ttl
          BY <1>2 DEF AnswersBounded
        <4>2. call'["refresh"][t] # None => call'["refresh"][t].left = c.left
          BY <1>1, <1>2 DEF Replaced
        <4> QED
          BY <3>3, <4>1, <4>2 DEF Backed
      <3> QED
        BY <3>5, <3>6, <3>7, <3>8 DEF LeasesBacked
    <2>2. CASE ~ok
      BY <1>1, <1>2, <2>2 DEF LeasesBacked, Replaced, Backed
    <2> QED
      BY <2>1, <2>2
  <1> QED
    BY <1>3, <1>4

LEMMA InvServeRelease ==
  ASSUME IInv, NEW t \in Token, ServeRelease(t)
  PROVE  LeasesBacked' /\ CallsInOrder' /\ AnswersBounded'
  <1> USE DEF IInv, TypeOK, Op
  <1> DEFINE c == call["release"][t]
  <1>1. PICK ok \in BOOLEAN :
          /\ Replaced("release", t, Served(c, ok))
          /\ IF ok THEN Releasable(t) ELSE UNCHANGED row
          /\ UNCHANGED <<caller, sure>>
    BY ServeSets DEF ServeRelease, Pending
  <1>2. /\ c # None
        /\ Served(c, ok) # None => Served(c, ok).ttl = c.ttl /\ Served(c, ok).left = c.left
    BY ServedCall, CallFields DEF ServeRelease, Pending
  <1>3. CallsInOrder' /\ AnswersBounded'
    BY <1>1, <1>2, CallWorsens
  <1>4. LeasesBacked'
    <2>1. CASE ok
      <3>1. row # None /\ row.token = t
        BY <1>1, <2>1 DEF Releasable, Owns
      <3>2. caller[t] # "held" /\ call["acquire"][t] = None
        BY <1>2 DEF CallsInOrder
      <3>3. \A u \in Token, n \in Nat : u # t /\ Backed(u, n) => n = 0
        BY <3>1 DEF Backed
      <3>4. \A u \in Token : (caller[u] = "held" => Backed(u, sure[u]))'
        BY <1>1, <3>2, <3>3 DEF LeasesBacked, Backed
      <3>5. \A u \in Token :
              (call["acquire"][u] # None /\ call["acquire"][u].ok =>
                 Backed(u, call["acquire"][u].left))'
        BY <1>1, <3>2, <3>3, CallFields DEF Replaced, LeasesBacked, Backed
      <3>6. \A u \in Token :
              (caller[u] = "held" /\ call["refresh"][u] # None /\ call["refresh"][u].ok =>
                 Backed(u, call["refresh"][u].left))'
        BY <1>1, <3>2, <3>3, CallFields DEF Replaced, LeasesBacked, Backed
      <3> QED
        BY <3>4, <3>5, <3>6 DEF LeasesBacked
    <2>2. CASE ~ok
      BY <1>1, <1>2, <2>2 DEF LeasesBacked, Replaced, Backed
    <2> QED
      BY <2>1, <2>2
  <1> QED
    BY <1>3, <1>4

LEMMA InvAnswer ==
  ASSUME IInv, NEW t \in Token, AnswerAcquire(t) \/ AnswerRefresh(t) \/ AnswerRelease(t)
  PROVE  LeasesBacked' /\ CallsInOrder' /\ AnswersBounded'
  <1> USE DEF IInv, TypeOK, Op
  <1>1. CASE AnswerAcquire(t)
    <2>1. Replaced("acquire", t, None)
      BY <1>1, AnswerSets
    <2>2. call["acquire"][t] # None /\ call["acquire"][t].left \in Nat
      BY <1>1, CallFields DEF AnswerAcquire, Answered
    <2>3. call["refresh"][t] = None /\ call["release"][t] = None
      BY <2>2 DEF CallsInOrder
    <2>4. LeasesBacked'
      BY <1>1, <2>1, <2>2, <2>3 DEF AnswerAcquire, Replaced, LeasesBacked, Backed
    <2>5. CallsInOrder'
      BY <1>1, <2>1, <2>2, <2>3 DEF AnswerAcquire, Replaced, CallsInOrder
    <2>6. AnswersBounded'
      BY <1>1, <2>1, <2>3 DEF AnswerAcquire, Replaced, AnswersBounded
    <2> QED
      BY <2>4, <2>5, <2>6
  <1>2. CASE AnswerRefresh(t)
    <2>1. Replaced("refresh", t, None)
      BY <1>2, AnswerSets
    <2>2. call["refresh"][t] # None /\ call["acquire"][t] = None
      BY <1>2 DEF AnswerRefresh, Answered, CallsInOrder
    <2>3. LeasesBacked'
      BY <1>2, <2>1, <2>2 DEF AnswerRefresh, Replaced, LeasesBacked, Backed
    <2>4. CallsInOrder'
      BY <1>2, <2>1, <2>2 DEF AnswerRefresh, Replaced, CallsInOrder
    <2>5. AnswersBounded'
      BY <1>2, <2>1 DEF AnswerRefresh, Replaced, AnswersBounded
    <2> QED
      BY <2>3, <2>4, <2>5
  <1>3. CASE AnswerRelease(t)
    <2>1. Replaced("release", t, None) /\ UNCHANGED <<row, caller, sure>>
      BY <1>3, AnswerSets DEF AnswerRelease
    <2>2. CallsInOrder' /\ AnswersBounded'
      BY <2>1, CallWorsens
    <2>3. LeasesBacked'
      BY <2>1 DEF LeasesBacked, Replaced, Backed
    <2> QED
      BY <2>2, <2>3
  <1> QED
    BY <1>1, <1>2, <1>3

LEMMA InvFail ==
  ASSUME IInv, NEW t \in Token, NEW o \in Op, Fail(o, t)
  PROVE  LeasesBacked' /\ CallsInOrder' /\ AnswersBounded'
  <1> USE DEF IInv, TypeOK, Op
  <1> DEFINE c == call[o][t]
  <1>1. Replaced(o, t, Unawaited(c)) /\ UNCHANGED <<row, sure>> /\ c # None
    BY FailSets DEF Fail
  <1>2. Unawaited(c) # None =>
          /\ c # None /\ Unawaited(c).ttl = c.ttl
          /\ Unawaited(c).left = c.left /\ Unawaited(c).ok = c.ok
    BY UnawaitedCall
  <1>3. \A u \in Token : caller'[u] = "held" => caller[u] = "held"
    BY DEF Fail
  <1>4. \A u \in Token : caller'[u] # caller[u] => u = t /\ o = "acquire" /\ caller'[t] = "gone"
    BY DEF Fail
  <1> HIDE DEF c
  <1>5. LeasesBacked'
    BY <1>1, <1>2, <1>3 DEF LeasesBacked, Replaced, Backed, c
  <1>6. CallsInOrder'
    BY <1>1, <1>2, <1>3, <1>4 DEF CallsInOrder, Replaced, c
  <1>7. AnswersBounded'
    BY <1>1, <1>2, <1>3 DEF AnswersBounded, Replaced, c
  <1> QED
    BY <1>5, <1>6, <1>7

LEMMA InvResend ==
  ASSUME IInv, NEW t \in Token, NEW o \in Op, Resend(o, t)
  PROVE  LeasesBacked' /\ CallsInOrder' /\ AnswersBounded'
  <1> USE DEF IInv, TypeOK, Op
  <1> DEFINE c == call[o][t]
  <1>1. Replaced(o, t, SentAgain(c)) /\ UNCHANGED <<row, caller, sure>>
    BY ResendSets DEF Resend
  <1>2. /\ c # None /\ ~SentAgain(c).ok
        /\ SentAgain(c).ttl = c.ttl /\ SentAgain(c).left = c.left
    BY SentAgainCall, CallFields DEF Resend, Answered
  <1>3. CallsInOrder' /\ AnswersBounded'
    BY <1>1, <1>2, CallWorsens
  <1>4. LeasesBacked'
    BY <1>1, <1>2 DEF LeasesBacked, Replaced, Backed
  <1> QED
    BY <1>3, <1>4

LEMMA InvCrash ==
  ASSUME IInv, NEW t \in Token, Crash(t)
  PROVE  LeasesBacked' /\ CallsInOrder' /\ AnswersBounded'
  <1> USE DEF IInv, TypeOK, Op
  <1>1. \A o \in Op, u \in Token : call'[o][u] # None =>
          /\ call[o][u] # None /\ call'[o][u].ttl = call[o][u].ttl
          /\ call'[o][u].left = call[o][u].left /\ call'[o][u].ok = call[o][u].ok
    BY CrashSets, UnawaitedCall
  <1>2. /\ UNCHANGED <<row, sure>>
        /\ \A u \in Token : IF u = t THEN caller'[u] \in {"gone", "over"}
                                        /\ (caller[u] = "acquiring" => caller'[u] = "gone")
                                        /\ caller[u] \in {"acquiring", "held"}
                             ELSE caller'[u] = caller[u]
    BY DEF Crash
  <1>3. LeasesBacked'
    BY <1>1, <1>2 DEF LeasesBacked, Backed
  <1>4. CallsInOrder'
    BY <1>1, <1>2 DEF CallsInOrder
  <1>5. AnswersBounded'
    BY <1>1, <1>2 DEF AnswersBounded
  <1> QED
    BY <1>3, <1>4, <1>5

LEMMA InvTick == IInv /\ Tick => LeasesBacked' /\ CallsInOrder' /\ AnswersBounded'
  <1> SUFFICES ASSUME IInv, Tick PROVE LeasesBacked' /\ CallsInOrder' /\ AnswersBounded'
    OBVIOUS
  <1> USE DEF IInv, TypeOK, Op
  <1>1. \A o \in Op, u \in Token :
          /\ call[o][u] = None <=> call'[o][u] = None
          /\ call[o][u] # None => /\ call'[o][u].ttl = call[o][u].ttl
                                  /\ call'[o][u].ok = call[o][u].ok
                                  /\ call'[o][u].left = Down(call[o][u].left)
                                  /\ call[o][u].ttl \in Nat /\ call[o][u].left \in Nat
    BY WaitedCall, CallFields DEF Tick
  <1>2. UNCHANGED caller /\ \A u \in Token : sure'[u] = Down(sure[u])
    BY DEF Tick
  <1>3. ASSUME NEW u \in Token, NEW n \in Nat, Backed(u, n) PROVE Backed(u, Down(n))'
    <2>1. CASE n <= 1
      BY <2>1 DEF Down, Backed
    <2>2. CASE n > 1
      <3>1. row # None /\ row.token = u /\ row.life \in Nat \union {-1} /\ row.life >= n
        BY <1>3, <2>2 DEF Backed, Row
      <3>2. row' # None /\ row'.token = u /\ row'.life = row.life - 1
        BY <2>2, <3>1, AgedRow DEF Tick
      <3> QED
        BY <2>2, <3>1, <3>2 DEF Down, Backed
    <2> QED
      BY <2>1, <2>2
  <1>4. LeasesBacked'
    <2>1. \A u \in Token : (caller[u] = "held" => Backed(u, sure[u]))'
      BY <1>2, <1>3 DEF LeasesBacked, Backed
    <2>2. \A u \in Token :
            (call["acquire"][u] # None /\ call["acquire"][u].ok =>
               Backed(u, call["acquire"][u].left))'
      BY <1>1, <1>3 DEF LeasesBacked, Backed
    <2>3. \A u \in Token :
            (caller[u] = "held" /\ call["refresh"][u] # None /\ call["refresh"][u].ok =>
               Backed(u, call["refresh"][u].left))'
      BY <1>1, <1>2, <1>3 DEF LeasesBacked, Backed
    <2> QED
      BY <2>1, <2>2, <2>3 DEF LeasesBacked
  <1>5. CallsInOrder'
    BY <1>1, <1>2 DEF CallsInOrder
  <1>6. AnswersBounded'
    BY <1>1, <1>2 DEF AnswersBounded, Down
  <1> QED
    BY <1>4, <1>5, <1>6

LEMMA InvCleanup == IInv /\ CleanupExpired => LeasesBacked' /\ CallsInOrder' /\ AnswersBounded'
  <1> SUFFICES ASSUME IInv, CleanupExpired
               PROVE  LeasesBacked' /\ CallsInOrder' /\ AnswersBounded'
    OBVIOUS
  <1>1. \A u \in Token, n \in Nat : Backed(u, n) => n = 0
    BY DEF IInv, TypeOK, Row, CleanupExpired, Backed
  <1>2. \A u \in Token : /\ sure[u] \in Nat
                         /\ \A o \in Op : call[o][u] # None => call[o][u].left \in Nat
    BY CallFields DEF IInv, TypeOK
  <1>3. LeasesBacked'
    BY <1>1, <1>2 DEF IInv, LeasesBacked, CleanupExpired, Backed, Op
  <1> QED
    BY <1>3 DEF IInv, CallsInOrder, AnswersBounded, CleanupExpired

LEMMA InvNext == IInv /\ [Next]_vars => IInv'
  <1> SUFFICES ASSUME IInv, [Next]_vars PROVE IInv'
    OBVIOUS
  <1>1. TypeOK'
    BY TypeTick, TypeStep DEF IInv, Next, CleanupExpired, TypeOK, vars
  <1>2. ASSUME NEW t \in Token, Step(t) PROVE LeasesBacked' /\ CallsInOrder' /\ AnswersBounded'
    BY <1>2, InvAskAcquire, InvAskRefresh, InvAskRelease, InvServeAcquire, InvServeRefresh,
       InvServeRelease, InvAnswer, InvCrash, InvFail, InvResend DEF Step
  <1>3. CASE UNCHANGED vars
    <2>1. UNCHANGED <<row, caller, sure, call>>
      BY <1>3 DEF vars
    <2>2. LeasesBacked <=> LeasesBacked'
      BY <2>1 DEF LeasesBacked, Backed
    <2>3. CallsInOrder <=> CallsInOrder'
      BY <2>1 DEF CallsInOrder
    <2>4. AnswersBounded <=> AnswersBounded'
      BY <2>1 DEF AnswersBounded
    <2> QED
      BY <1>1, <2>2, <2>3, <2>4 DEF IInv
  <1> QED
    BY <1>1, <1>2, <1>3, InvTick, InvCleanup DEF Next, IInv

\* Two callers never rely on the key at once, for any number of callers, any
\* lifetimes and any of the three stores.
THEOREM HoldersAreExclusive == Spec => []HoldersExclude
  <1>1. IInv => HoldersExclude
    <2> SUFFICES ASSUME IInv, NEW t \in Token, NEW u \in Token, Relies(t), Relies(u)
                 PROVE  t = u
      BY DEF HoldersExclude
    <2> QED
      BY DEF IInv, LeasesBacked, Backed, Relies
  <1>2. IInv /\ [Next]_vars => IInv'
    BY InvNext
  <1> QED
    BY <1>1, <1>2, InvInit, PTL DEF Spec

-----------------------------------------------------------------------------
(* The providers keep the promise of LeaseLock.                            *)

\* Only a command the store has served has an answer.
OkIsServed ==
  \A o \in Op, t \in Token : call[o][t] # None /\ ~call[o][t].served => ~call[o][t].ok

\* redis keeps no row that is dead.
RedisDrops == provider = "redis" /\ row # None => row.life > 0

\* A caller that never learned it holds the key has nothing to refresh.
GoneIsQuiet == \A t \in Token : caller[t] = "gone" => call["refresh"][t] = None

PInv == IInv /\ OkIsServed /\ RedisDrops /\ GoneIsQuiet

LEMMA ServedFlags ==
  /\ \A ttl \in Ttls \union {0} : ~Asked(ttl).ok
  /\ \A c \in Call, ok \in BOOLEAN : Served(c, ok) # None => Served(c, ok).served
  /\ \A c \in Call : ~SentAgain(c).ok
  /\ \A c \in Call \union {None} :
       /\ Unawaited(c) # None => Unawaited(c).served = c.served
       /\ c # None => Waited(c).served = c.served
  BY LockAssumption DEF Asked, Served, SentAgain, Unawaited, Waited, Call

LEMMA OkIsServedNext ==
  ASSUME TypeOK, OkIsServed, [Next]_vars
  PROVE  OkIsServed'
  <1> USE DEF OkIsServed, TypeOK
  <1>1. CASE Tick
    BY <1>1, WaitedCall, ServedFlags DEF Tick
  <1>2. ASSUME NEW t \in Token, Step(t) PROVE OkIsServed'
    <2> DEFINE Honest(c) == c # None /\ ~c.served => ~c.ok
    <2>1. ASSUME NEW o \in Op, NEW c, Replaced(o, t, c), Honest(c) PROVE OkIsServed'
      BY <2>1 DEF Replaced
    <2>2. CASE AskAcquire(t) \/ AskRefresh(t) \/ AskRelease(t)
      <3>1. PICK o \in Op, ttl \in Ttls \union {0} :
              (ttl = 0 <=> o = "release") /\ Ask(o, t, ttl)
        BY <2>2, LockAssumption DEF AskAcquire, AskRefresh, AskRelease, Op
      <3> QED
        BY <2>1, <3>1, AskSets, ServedFlags
    <2>3. CASE ServeAcquire(t) \/ ServeRefresh(t) \/ ServeRelease(t)
      <3>1. PICK o \in Op, ok \in BOOLEAN : call[o][t] # None /\ Serve(o, t, ok)
        BY <2>3 DEF ServeAcquire, ServeRefresh, ServeRelease, Pending, Op
      <3>2. Honest(Served(call[o][t], ok))
        BY <3>1, ServedFlags
      <3> QED
        BY <2>1, <3>1, <3>2, ServeSets
    <2>4. CASE AnswerAcquire(t) \/ AnswerRefresh(t) \/ AnswerRelease(t)
      BY <2>1, <2>4, AnswerSets DEF Op
    <2>5. CASE Crash(t)
      BY <2>5, CrashSets, UnawaitedCall, ServedFlags
    <2>6. ASSUME NEW o \in Op, Fail(o, t) PROVE OkIsServed'
      <3>1. Honest(Unawaited(call[o][t]))
        BY UnawaitedCall, ServedFlags
      <3> QED
        BY <2>1, <2>6, <3>1, FailSets
    <2>7. ASSUME NEW o \in Op, Resend(o, t) PROVE OkIsServed'
      <3>1. Honest(SentAgain(call[o][t]))
        BY <2>7, ServedFlags DEF Resend, Answered
      <3> QED
        BY <2>1, <2>7, <3>1, ResendSets
    <2> QED
      BY <1>2, <2>2, <2>3, <2>4, <2>5, <2>6, <2>7 DEF Step
  <1> QED
    BY <1>1, <1>2 DEF Next, CleanupExpired, vars

LEMMA RedisDropsNext ==
  ASSUME TypeOK, RedisDrops, [Next]_vars
  PROVE  RedisDrops'
  <1> USE DEF RedisDrops, TypeOK
  <1>1. CASE Tick
    <2>1. CASE provider = "redis" /\ row # None /\ row.life > 1
      <3>1. row.life \in Nat \union {-1} /\ Aged(row).life = row.life - 1
        BY <2>1, AgedRow DEF Row
      <3> QED
        BY <1>1, <2>1, <3>1 DEF Tick
    <2>2. CASE provider = "redis" /\ (row = None \/ row.life <= 1)
      BY <1>1, <2>2 DEF Tick, Aged
    <2>3. CASE provider = "redis" /\ row # None /\ ~(row.life > 1) /\ ~(row.life <= 1)
      BY <2>3 DEF Row
    <2> QED
      BY <1>1, <2>1, <2>2, <2>3 DEF Tick
  <1>2. ASSUME NEW t \in Token, Step(t) PROVE RedisDrops'
    <2>1. CASE ServeAcquire(t) /\ row' # row
      <3> DEFINE ttl == call["acquire"][t].ttl
      <3>1. ttl \in Nat /\ ttl # 0 /\ row' = [token |-> t, life |-> ttl]
        BY <2>1, CallFields DEF ServeAcquire, Pending, Op
      <3> HIDE DEF ttl
      <3>2. row'.life > 0
        BY <3>1
      <3> QED
        BY <3>2
    <2>2. CASE ServeRefresh(t) /\ row' # row
      <3> DEFINE ttl == call["refresh"][t].ttl
      <3>1. /\ ttl \in Nat /\ ttl # 0 /\ row' = [row EXCEPT !.life = ttl]
            /\ row \in Row
        BY <2>2, CallFields DEF ServeRefresh, Pending, Op, Extendable, Owns
      <3> HIDE DEF ttl
      <3>2. row'.life > 0
        BY <3>1 DEF Row
      <3> QED
        BY <3>2
    <2>3. CASE row' \in {row, None}
      <3>1. UNCHANGED provider
        BY <1>2 DEF Step, AskAcquire, AskRefresh, AskRelease, ServeAcquire, ServeRefresh,
             ServeRelease, AnswerAcquire, AnswerRefresh, AnswerRelease, Crash, Fail, Resend
      <3> QED
        BY <2>3, <3>1
    <2> QED
      BY <1>2, <2>1, <2>2, <2>3 DEF Step, AskAcquire, AskRefresh, AskRelease, ServeAcquire,
           ServeRefresh, ServeRelease, AnswerAcquire, AnswerRefresh, AnswerRelease, Crash, Fail,
           Resend
  <1> QED
    BY <1>1, <1>2 DEF Next, CleanupExpired, vars

LEMMA GoneIsQuietNext ==
  ASSUME IInv, GoneIsQuiet, [Next]_vars
  PROVE  GoneIsQuiet'
  <1> USE DEF IInv, TypeOK, GoneIsQuiet, Op
  <1>1. CASE Tick
    BY <1>1, WaitedCall DEF Tick
  <1>2. ASSUME NEW t \in Token, Step(t) PROVE GoneIsQuiet'
    <2>1. ASSUME NEW o \in Op, NEW c, Replaced(o, t, c),
                 o = "refresh" /\ c # None => call["refresh"][t] # None \/ caller[t] = "held",
                 \A u \in Token : caller'[u] = "gone" =>
                   caller[u] = "gone" \/ (u = t /\ call["acquire"][t] # None),
                 caller[t] = "held" => caller'[t] # "gone"
          PROVE  GoneIsQuiet'
      BY <2>1 DEF Replaced, CallsInOrder
    <2>2. CASE AskAcquire(t)
      <3>1. PICK ttl \in Ttls : Ask("acquire", t, ttl)
        BY <2>2 DEF AskAcquire
      <3>2. Replaced("acquire", t, Asked(ttl))
        BY <3>1, AskSets, LockAssumption
      <3> QED
        BY <2>1, <2>2, <3>2 DEF AskAcquire
    <2>3. CASE AskRefresh(t)
      <3>1. PICK ttl \in Ttls : Ask("refresh", t, ttl)
        BY <2>3 DEF AskRefresh
      <3>2. Replaced("refresh", t, Asked(ttl))
        BY <3>1, AskSets, LockAssumption
      <3> QED
        BY <2>1, <2>3, <3>2 DEF AskRefresh
    <2>4. CASE AskRelease(t)
      <3>1. Replaced("release", t, Asked(0))
        BY <2>4, AskSets DEF AskRelease
      <3> QED
        BY <2>1, <2>4, <3>1 DEF AskRelease
    <2>5. CASE ServeAcquire(t) \/ ServeRefresh(t) \/ ServeRelease(t)
      <3>1. PICK o \in Op, ok \in BOOLEAN : call[o][t] # None /\ Serve(o, t, ok)
        BY <2>5 DEF ServeAcquire, ServeRefresh, ServeRelease, Pending
      <3>2. Replaced(o, t, Served(call[o][t], ok)) /\ UNCHANGED caller
        BY <2>5, <3>1, ServeSets DEF ServeAcquire, ServeRefresh, ServeRelease
      <3> QED
        BY <2>1, <3>1, <3>2
    <2>6. CASE AnswerAcquire(t)
      BY <2>1, <2>6, AnswerSets DEF AnswerAcquire
    <2>7. CASE AnswerRefresh(t)
      BY <2>1, <2>7, AnswerSets DEF AnswerRefresh
    <2>8. CASE AnswerRelease(t)
      BY <2>1, <2>8, AnswerSets DEF AnswerRelease
    <2>9. CASE Crash(t)
      <3>1. \A u \in Token : caller'[u] = "gone" =>
              caller[u] = "gone" \/ (u = t /\ caller[u] = "acquiring")
        BY <2>9 DEF Crash
      <3>2. \A u \in Token : call'["refresh"][u] # None => call["refresh"][u] # None
        BY <2>9, CrashSets, UnawaitedCall
      <3> QED
        BY <3>1, <3>2 DEF CallsInOrder
    <2>10. ASSUME NEW o \in Op, Fail(o, t) PROVE GoneIsQuiet'
      <3>1. call[o][t] # None /\ caller' = IF o = "acquire" THEN [caller EXCEPT ![t] = "gone"]
                                                            ELSE caller
        BY <2>10 DEF Fail
      <3>2. \A u \in Token : caller'[u] = "gone" =>
              caller[u] = "gone" \/ (u = t /\ call["acquire"][t] # None)
        BY <3>1
      <3>3. caller[t] = "held" => caller'[t] # "gone"
        BY <3>1 DEF CallsInOrder
      <3> QED
        BY <2>1, <2>10, <3>1, <3>2, <3>3, FailSets
    <2>11. ASSUME NEW o \in Op, Resend(o, t) PROVE GoneIsQuiet'
      BY <2>1, <2>11, ResendSets DEF Resend, Answered
    <2> QED
      BY <1>2, <2>2, <2>3, <2>4, <2>5, <2>6, <2>7, <2>8, <2>9, <2>10, <2>11 DEF Step
  <1> QED
    BY <1>1, <1>2 DEF Next, CleanupExpired, vars

LEMMA PromiseInvariant == Spec => []PInv
  <1>1. Init => PInv
    BY InvInit, LockAssumption DEF Init, PInv, OkIsServed, RedisDrops, GoneIsQuiet, Op
  <1>2. PInv /\ [Next]_vars => PInv'
    BY InvNext, OkIsServedNext, RedisDropsNext, GoneIsQuietNext DEF PInv, IInv
  <1> QED
    BY <1>1, <1>2, PTL DEF Spec

-----------------------------------------------------------------------------
\* The abstract state, by the names of LeaseLock.
Owner == IF Live THEN row.token ELSE None
Entitled == {t \in Token : call["acquire"][t] # None /\ call["acquire"][t].ok}
Resolved == {t \in Token : caller[t] \in {"held", "over"}}

LEMMA PromiseInit == Init => Promise!Init
  BY DEF Init, Promise!Init, Live, Op

\* What replacing a call does to who may still be answered with a lock.
LEMMA EntitledAfter ==
  ASSUME NEW o \in Op, NEW t \in Token, NEW c, Replaced(o, t, c)
  PROVE  Entitled' = IF o # "acquire" THEN Entitled
                     ELSE IF c # None /\ c.ok THEN Entitled \union {t} ELSE Entitled \ {t}
  BY DEF Replaced, Entitled, Op

\* A step that leaves the lease and who was answered alone takes an entitlement away
\* from one caller at most.
LEMMA PromiseForfeit ==
  ASSUME NEW t \in Token, Owner' = Owner, Resolved' = Resolved, Entitled' \in {Entitled, Entitled \ {t}}
  PROVE  [Promise!Next]_(Promise!vars)
  <1>1. CASE t \in Entitled /\ Entitled' # Entitled
    <2>1. Promise!Forfeit(t)
      BY <1>1 DEF Promise!Forfeit, Owner, Entitled, Resolved
    <2> QED
      BY <2>1 DEF Promise!Next
  <1>2. CASE Entitled' = Entitled
    BY <1>2 DEF Promise!vars, Owner, Entitled, Resolved
  <1> QED
    BY <1>1, <1>2

\* A lease ends, or nothing happens.
LEMMA PromiseEnd ==
  ASSUME Entitled' = Entitled, Resolved' = Resolved, Owner' \in {Owner, None}
  PROVE  [Promise!Next]_(Promise!vars)
  <1>1. CASE Owner # None /\ Owner' = None
    <2>1. Promise!End
      BY <1>1 DEF Promise!End, Owner, Entitled, Resolved
    <2> QED
      BY <2>1 DEF Promise!Next
  <1>2. CASE Owner' = Owner
    BY <1>2 DEF Promise!vars, Owner, Entitled, Resolved
  <1> QED
    BY <1>1, <1>2

LEMMA PromiseTick == PInv /\ Tick => [Promise!Next]_(Promise!vars)
  <1> SUFFICES ASSUME PInv, Tick PROVE [Promise!Next]_(Promise!vars)
    OBVIOUS
  <1> USE DEF PInv, IInv, TypeOK, Op
  <1>1. Entitled' = Entitled
    BY WaitedCall DEF Tick, Entitled
  <1>2. Resolved' = Resolved
    BY DEF Tick, Resolved
  <1>3. Owner' \in {Owner, None}
    <2>1. CASE row # None /\ row.life > 1
      <3>1. row.life \in Nat \union {-1}
        BY <2>1 DEF Row
      <3>2. row' # None /\ row'.token = row.token /\ row'.life = row.life - 1
        BY <2>1, AgedRow DEF Tick
      <3>3. row.life > 0 /\ row'.life > 0
        BY <2>1, <3>1, <3>2
      <3> QED
        BY <2>1, <3>2, <3>3 DEF Owner, Live
    <2>2. CASE row = None
      BY <2>2 DEF Tick, Aged, Owner, Live
    <2>3. CASE row # None /\ ~(row.life > 1)
      <3>1. row \in Row /\ row.life \in Nat \union {-1} /\ row.life <= 1
        BY <2>3 DEF Row
      <3> DEFINE life == IF row.life > -1 THEN row.life - 1 ELSE -1
      <3>2. row' = None \/ row' = [row EXCEPT !.life = life]
        BY <2>3 DEF Tick, Aged
      <3>3. ~(life > 0)
        BY <3>1
      <3> HIDE DEF life
      <3>4. row' # None => ~(row'.life > 0)
        BY <3>1, <3>2, <3>3 DEF Row
      <3> QED
        BY <3>4 DEF Owner, Live
    <2> QED
      BY <2>1, <2>2, <2>3
  <1> QED
    BY <1>1, <1>2, <1>3, PromiseEnd

\* The three commands, as the store executes them.
LEMMA PromiseServeAcquire ==
  ASSUME PInv, NEW t \in Token, ServeAcquire(t)
  PROVE  [Promise!Next]_(Promise!vars)
  <1> USE DEF PInv, IInv, TypeOK, Op
  <1> DEFINE c == call["acquire"][t]
  <1>1. PICK ok \in BOOLEAN :
          /\ Replaced("acquire", t, Served(c, ok))
          /\ IF ok THEN Grantable /\ row' = [token |-> t, life |-> c.ttl] ELSE UNCHANGED row
    BY ServeSets DEF ServeAcquire, Pending
  <1>2. c \in Call /\ c # None /\ ~c.ok /\ c.ttl \in Nat \ {0}
    BY CallFields DEF ServeAcquire, Pending, OkIsServed
  <1>3. Resolved' = Resolved /\ t \notin Resolved /\ t \notin Entitled
    BY <1>2 DEF ServeAcquire, Resolved, Entitled, CallsInOrder
  <1>4. Served(c, ok) # None => Served(c, ok).ok = ok
    BY <1>2, ServedCall
  <1> HIDE DEF c
  <1>5. CASE ok
    <2>1. Owner = None
      BY <1>1, <1>5, LockAssumption DEF Grantable, RedisDrops, Owner, Live, Row
    <2>2. Owner' = t
      <3>1. [token |-> t, life |-> c.ttl] \in Row
        BY <1>2 DEF Row
      <3>2. row' # None /\ row'.token = t /\ row'.life = c.ttl
        BY <1>1, <1>5, <3>1, LockAssumption
      <3> QED
        BY <1>2, <3>2 DEF Owner, Live
    <2>3. Entitled' \in {Entitled, Entitled \union {t}}
      BY <1>1, <1>3, EntitledAfter
    <2>4. Promise!Grant(t)
      BY <1>3, <2>1, <2>2, <2>3 DEF Promise!Grant, Owner, Entitled, Resolved
    <2> QED
      BY <2>4 DEF Promise!Next
  <1>6. CASE ~ok
    <2>1. Entitled' \in {Entitled, Entitled \ {t}}
      BY <1>1, <1>4, <1>6, EntitledAfter
    <2>2. Owner' = Owner
      BY <1>1, <1>6 DEF Owner, Live
    <2> QED
      BY <1>3, <2>1, <2>2, PromiseForfeit
  <1> QED
    BY <1>5, <1>6

LEMMA PromiseServeRefresh ==
  ASSUME PInv, NEW t \in Token, ServeRefresh(t)
  PROVE  [Promise!Next]_(Promise!vars)
  <1> USE DEF PInv, IInv, TypeOK, Op
  <1> DEFINE c == call["refresh"][t]
  <1>1. PICK ok \in BOOLEAN :
          /\ Replaced("refresh", t, Served(c, ok))
          /\ IF ok THEN Extendable(t) /\ row' = [row EXCEPT !.life = c.ttl] ELSE UNCHANGED row
    BY ServeSets DEF ServeRefresh, Pending
  <1>2. Entitled' = Entitled /\ Resolved' = Resolved
    BY <1>1, EntitledAfter DEF ServeRefresh, Resolved
  <1>3. c.ttl \in Nat \ {0}
    BY CallFields DEF ServeRefresh, Pending
  <1> HIDE DEF c
  <1>4. Owner' = Owner
    <2>1. CASE ok
      <3>1. row \in Row /\ row # None /\ row.token = t /\ row.life > 0
        BY <1>1, <2>1, LockAssumption DEF Extendable, Owns, RedisDrops
      <3>2. [row EXCEPT !.life = c.ttl] \in Row /\ [row EXCEPT !.life = c.ttl].token = t
            /\ [row EXCEPT !.life = c.ttl].life = c.ttl
        BY <1>3, <3>1 DEF Row
      <3>3. row' # None /\ row'.token = t /\ row'.life = c.ttl
        BY <1>1, <2>1, <3>2, LockAssumption
      <3>4. Owner = t
        BY <3>1 DEF Owner, Live
      <3>5. Owner' = t
        BY <1>3, <3>3 DEF Owner, Live
      <3> QED
        BY <3>4, <3>5
    <2>2. CASE ~ok
      BY <1>1, <2>2 DEF Owner, Live
    <2> QED
      BY <2>1, <2>2
  <1> QED
    BY <1>2, <1>4, PromiseEnd

LEMMA PromiseServeRelease ==
  ASSUME PInv, NEW t \in Token, ServeRelease(t)
  PROVE  [Promise!Next]_(Promise!vars)
  <1> USE DEF PInv, IInv, TypeOK, Op
  <1>1. PICK ok \in BOOLEAN : Replaced("release", t, Served(call["release"][t], ok))
    BY ServeSets DEF ServeRelease, Pending
  <1>2. Entitled' = Entitled /\ Resolved' = Resolved
    BY <1>1, EntitledAfter DEF ServeRelease, Resolved
  <1>3. Owner' \in {Owner, None}
    BY DEF ServeRelease, Owner, Live
  <1> QED
    BY <1>2, <1>3, PromiseEnd

\* The answers to acquire() are what the promise speaks of; the others change nothing
\* it says.
LEMMA PromiseAnswer ==
  ASSUME PInv, NEW t \in Token, AnswerAcquire(t) \/ AnswerRefresh(t) \/ AnswerRelease(t)
  PROVE  [Promise!Next]_(Promise!vars)
  <1> USE DEF PInv, IInv, TypeOK, Op
  <1>1. Owner' = Owner
    BY DEF AnswerAcquire, AnswerRefresh, AnswerRelease, Owner, Live
  <1>2. CASE AnswerAcquire(t)
    <2>1. Entitled' = Entitled \ {t} /\ t \notin Resolved
      BY <1>2, AnswerSets, EntitledAfter DEF AnswerAcquire, Answered, CallsInOrder, Resolved
    <2>2. Resolved' = Resolved \union {t}
      BY <1>2 DEF AnswerAcquire, Resolved
    <2>3. CASE call["acquire"][t].ok
      <3>1. t \in Entitled
        BY <1>2, <2>3 DEF AnswerAcquire, Answered, Entitled
      <3>2. Promise!AnswerHeld(t)
        BY <1>1, <2>1, <2>2, <3>1 DEF Promise!AnswerHeld, Owner, Entitled, Resolved
      <3> QED
        BY <3>2 DEF Promise!Next
    <2>4. CASE ~call["acquire"][t].ok
      <3>1. t \notin Entitled /\ Entitled' = Entitled
        BY <2>1, <2>4 DEF Entitled
      <3>2. Promise!AnswerRefused(t)
        BY <1>1, <2>1, <2>2, <3>1 DEF Promise!AnswerRefused, Owner, Entitled, Resolved
      <3> QED
        BY <3>2 DEF Promise!Next
    <2> QED
      BY <2>3, <2>4
  <1>3. CASE AnswerRefresh(t)
    <2>1. Entitled' = Entitled
      BY <1>3, AnswerSets, EntitledAfter
    <2>2. caller[t] \in {"held", "over"}
      BY <1>3 DEF AnswerRefresh, Answered, CallsInOrder, GoneIsQuiet, Standing
    <2>3. Resolved' = Resolved
      BY <1>3, <2>2 DEF AnswerRefresh, Resolved
    <2> QED
      BY <1>1, <2>1, <2>3, PromiseEnd
  <1>4. CASE AnswerRelease(t)
    <2>1. Entitled' = Entitled /\ Resolved' = Resolved
      BY <1>4, AnswerSets, EntitledAfter DEF AnswerRelease, Resolved
    <2> QED
      BY <1>1, <2>1, PromiseEnd
  <1> QED
    BY <1>2, <1>3, <1>4

\* Asking changes nothing the promise speaks of.
LEMMA PromiseAsk ==
  ASSUME PInv, NEW t \in Token, AskAcquire(t) \/ AskRefresh(t) \/ AskRelease(t)
  PROVE  [Promise!Next]_(Promise!vars)
  <1> USE DEF PInv, IInv, TypeOK, Op
  <1>1. Owner' = Owner /\ Resolved' = Resolved
    BY DEF AskAcquire, AskRefresh, AskRelease, Owner, Live, Resolved
  <1>2. PICK o \in Op, ttl \in Ttls \union {0} : (ttl = 0 <=> o = "release") /\ Ask(o, t, ttl)
    BY LockAssumption DEF AskAcquire, AskRefresh, AskRelease
  <1>3. Entitled' \in {Entitled, Entitled \ {t}}
    BY <1>2, AskSets, EntitledAfter, ServedFlags
  <1> QED
    BY <1>1, <1>3, PromiseForfeit

\* A failure, a lost reply or a crash can only cost a caller its answer.
LEMMA PromiseFault ==
  ASSUME PInv, NEW t \in Token, Crash(t) \/ \E o \in Op : Fail(o, t) \/ Resend(o, t)
  PROVE  [Promise!Next]_(Promise!vars)
  <1> USE DEF PInv, IInv, TypeOK
  <1>1. Owner' = Owner
    BY DEF Crash, Fail, Resend, Owner, Live
  <1>2. CASE Crash(t)
    <2>1. Resolved' = Resolved
      BY <1>2 DEF Crash, Resolved
    <2>2. "acquire" \in Op
      BY DEF Op
    <2>3. Unawaited(call["acquire"][t]) # None => ~Unawaited(call["acquire"][t]).ok
      BY <2>2, UnawaitedCall DEF OkIsServed
    <2>4. \A u \in Token : u \in Entitled' <=> u \in Entitled /\ u # t
      BY <1>2, <2>2, <2>3, CrashSets DEF Entitled
    <2>5. Entitled' = Entitled \ {t}
      BY <2>4 DEF Entitled
    <2> QED
      BY <1>1, <2>1, <2>5, PromiseForfeit
  <1>3. ASSUME NEW o \in Op, Fail(o, t) PROVE [Promise!Next]_(Promise!vars)
    <2>1. Resolved' = Resolved
      BY <1>3 DEF Fail, Resolved, CallsInOrder
    <2>2. Unawaited(call[o][t]) # None => ~Unawaited(call[o][t]).ok
      BY UnawaitedCall DEF OkIsServed
    <2>3. Entitled' \in {Entitled, Entitled \ {t}}
      BY <1>3, <2>2, FailSets, EntitledAfter
    <2> QED
      BY <1>1, <2>1, <2>3, PromiseForfeit
  <1>4. ASSUME NEW o \in Op, Resend(o, t) PROVE [Promise!Next]_(Promise!vars)
    <2>1. Resolved' = Resolved
      BY <1>4 DEF Resend, Resolved
    <2>2. ~SentAgain(call[o][t]).ok
      BY <1>4, ServedFlags DEF Resend, Answered
    <2>3. Entitled' \in {Entitled, Entitled \ {t}}
      BY <1>4, <2>2, ResendSets, EntitledAfter
    <2> QED
      BY <1>1, <2>1, <2>3, PromiseForfeit
  <1> QED
    BY <1>2, <1>3, <1>4

LEMMA PromiseNext == PInv /\ [Next]_vars => [Promise!Next]_(Promise!vars)
  <1> SUFFICES ASSUME PInv, [Next]_vars PROVE [Promise!Next]_(Promise!vars)
    OBVIOUS
  <1>1. CASE CleanupExpired
    <2>1. Owner' = Owner /\ Entitled' = Entitled /\ Resolved' = Resolved
      BY <1>1 DEF CleanupExpired, Owner, Live, Entitled, Resolved, PInv, IInv, TypeOK, Row
    <2> QED
      BY <2>1, PromiseEnd
  <1>2. ASSUME NEW t \in Token, Step(t) PROVE [Promise!Next]_(Promise!vars)
    BY <1>2, PromiseAsk, PromiseServeAcquire, PromiseServeRefresh, PromiseServeRelease,
       PromiseAnswer, PromiseFault DEF Step
  <1>3. CASE UNCHANGED vars
    BY <1>3 DEF vars, Promise!vars, Live
  <1> QED
    BY <1>1, <1>2, <1>3, PromiseTick DEF Next

\* The memory, redis and postgres providers implement LeaseLock, whatever is delayed,
\* lost or sent again and whoever crashes: at most one acquire() call owns the key, nobody
\* is told it holds a key it was not granted, and an ended lease never comes back.
THEOREM LeasePromiseKept == Spec => KeepsLeasePromise
  BY PromiseInit, PromiseNext, PromiseInvariant, PTL DEF Spec, KeepsLeasePromise, Promise!Spec
=============================================================================
