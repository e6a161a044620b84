------------------------- MODULE TransactionsProofs -------------------------
(***************************************************************************)
(* withTransaction for any number of calls, nested calls, pool queries and *)
(* connections, over all three drivers and whatever statement fails: what  *)
(* a caller is told of its work is true, connections come back clean       *)
(* unless a failed statement is to blame, and a COMMIT lands its own work. *)
(***************************************************************************)
EXTENDS Transactions, SequenceTheorems, TLAPS

-----------------------------------------------------------------------------
(* The queue.                                                              *)

\* A queue of calls, each in it once.
Queue == {q \in Seq(Tx) : IsInjective(q)}

LEMMA AppendToQueue ==
  ASSUME NEW q \in Queue, NEW t \in Tx, t \notin ToSet(q)
  PROVE  Append(q, t) \in Queue /\ ToSet(Append(q, t)) = ToSet(q) \union {t}
  <1>1. /\ Append(q, t) \in Seq(Tx) /\ Len(Append(q, t)) = Len(q) + 1
        /\ DOMAIN q = 1..Len(q) /\ DOMAIN Append(q, t) = 1..Len(q) + 1 /\ Len(q) \in Nat
        /\ \A i \in 1..Len(q) : Append(q, t)[i] = q[i]
        /\ Append(q, t)[Len(q) + 1] = t
    BY LenProperties, AppendProperties DEF Queue
  <1> DEFINE p == Append(q, t)
  <1> HIDE DEF p
  <1>2. IsInjective(p)
    BY <1>1 DEF p, Queue, IsInjective, ToSet
  <1>3. ToSet(p) = ToSet(q) \union {t}
    BY <1>1 DEF p, ToSet
  <1> QED
    BY <1>1, <1>2, <1>3 DEF p, Queue

LEMMA TailOfQueue ==
  ASSUME NEW q \in Queue, q # <<>>
  PROVE  Tail(q) \in Queue /\ ToSet(Tail(q)) = ToSet(q) \ {Head(q)} /\ Head(q) \in ToSet(q)
  <1>1. /\ Tail(q) \in Seq(Tx) /\ Len(Tail(q)) = Len(q) - 1
        /\ DOMAIN q = 1..Len(q) /\ DOMAIN Tail(q) = 1..Len(q) - 1 /\ Len(q) \in Nat \ {0}
        /\ \A i \in 1..Len(q) - 1 : Tail(q)[i] = q[i + 1]
        /\ Head(q) = q[1]
    BY LenProperties, HeadTailProperties, EmptySeq DEF Queue
  <1> DEFINE p == Tail(q)
  <1> HIDE DEF p
  <1>2. IsInjective(p)
    BY <1>1 DEF p, Queue, IsInjective
  <1>3. ToSet(p) \subseteq ToSet(q) \ {q[1]}
    BY <1>1 DEF p, Queue, IsInjective, ToSet
  <1>4. ASSUME NEW i \in 2..Len(q) PROVE q[i] \in ToSet(p)
    <2>1. i - 1 \in 1..Len(q) - 1 /\ p[i - 1] = q[i]
      BY <1>1 DEF p
    <2> QED
      BY <1>1, <2>1 DEF p, ToSet
  <1>5. ToSet(q) \ {q[1]} \subseteq ToSet(p)
    BY <1>1, <1>4 DEF ToSet
  <1> QED
    BY <1>1, <1>2, <1>3, <1>5 DEF p, Queue, ToSet

LEMMA RemoveFromQueue ==
  ASSUME NEW q \in Queue, NEW n \in DOMAIN q
  PROVE  RemoveAt(q, n) \in Queue /\ ToSet(RemoveAt(q, n)) = ToSet(q) \ {q[n]}
  <1> DEFINE p == RemoveAt(q, n)
             front == SubSeq(q, 1, n - 1)
             back == SubSeq(q, n + 1, Len(q))
  <1>1. DOMAIN q = 1..Len(q) /\ Len(q) \in Nat /\ q \in Seq(Tx)
        /\ \A i \in 1..Len(q) : q[i] \in Tx
    BY LenProperties, ElementOfSeq DEF Queue
  <1>2. /\ front \in Seq(Tx) /\ Len(front) = n - 1
        /\ \A i \in 1..n - 1 : front[i] = q[i]
    BY <1>1, SubSeqProperties
  <1>3. /\ back \in Seq(Tx) /\ Len(back) = Len(q) - n
        /\ \A i \in 1..Len(q) - n : back[i] = q[n + i]
    BY <1>1, SubSeqProperties
  <1> HIDE DEF front, back
  <1>4. /\ p \in Seq(Tx) /\ Len(p) = Len(q) - 1
        /\ \A i \in 1..Len(q) - 1 : p[i] = IF i < n THEN q[i] ELSE q[i + 1]
    <2>1. p = front \o back
      BY DEF RemoveAt, front, back
    <2> HIDE DEF p
    <2>2. /\ p \in Seq(Tx) /\ Len(p) = Len(front) + Len(back)
          /\ \A i \in 1..Len(front) + Len(back) :
               p[i] = IF i <= Len(front) THEN front[i] ELSE back[i - Len(front)]
      BY <1>2, <1>3, <2>1, ConcatProperties
    <2>3. Len(front) + Len(back) = Len(q) - 1
      BY <1>1, <1>2, <1>3
    <2>4. ASSUME NEW i \in 1..Len(q) - 1 PROVE p[i] = IF i < n THEN q[i] ELSE q[i + 1]
      <3>1. CASE i < n
        <4>1. i \in 1..n - 1 /\ i <= Len(front) /\ i \in 1..Len(front) + Len(back)
          BY <1>1, <1>2, <2>3, <3>1
        <4> QED
          BY <1>2, <2>2, <3>1, <4>1
      <3>2. CASE ~(i < n)
        <4>1. i - (n - 1) \in 1..Len(q) - n /\ n + (i - (n - 1)) = i + 1
          BY <1>1, <3>2
        <4>2. ~(i <= Len(front)) /\ i \in 1..Len(front) + Len(back) /\ i - Len(front) = i - (n - 1)
          BY <1>1, <1>2, <2>3, <3>2
        <4>3. p[i] = back[i - (n - 1)]
          BY <2>2, <4>2
        <4> QED
          BY <1>3, <3>2, <4>1, <4>3
      <3> QED
        BY <3>1, <3>2
    <2> QED
      BY <2>2, <2>3, <2>4
  <1> HIDE DEF p
  <1>5. DOMAIN p = 1..Len(q) - 1
    BY <1>1, <1>4, LenProperties
  <1>6. IsInjective(p)
    <2> DEFINE from(i) == IF i < n THEN i ELSE i + 1
    <2>1. \A i \in 1..Len(q) - 1 : from(i) \in 1..Len(q) /\ p[i] = q[from(i)]
      BY <1>1, <1>4
    <2>2. \A i, j \in 1..Len(q) - 1 : from(i) = from(j) => i = j
      BY <1>1
    <2> HIDE DEF from
    <2>3. \A i, j \in 1..Len(q) : q[i] = q[j] => i = j
      BY <1>1 DEF Queue, IsInjective
    <2>4. \A i, j \in 1..Len(q) - 1 : p[i] = p[j] => i = j
      BY <2>1, <2>2, <2>3
    <2> QED
      BY <1>5, <2>4 DEF IsInjective
  <1>7. ToSet(p) \subseteq ToSet(q) \ {q[n]}
    BY <1>1, <1>4, <1>5 DEF Queue, IsInjective, ToSet
  <1>8. ASSUME NEW i \in 1..Len(q), i # n PROVE q[i] \in ToSet(p)
    <2>1. CASE i < n
      BY <1>1, <1>4, <1>5, <2>1 DEF ToSet
    <2>2. CASE i > n
      <3>1. i - 1 \in 1..Len(q) - 1 /\ ~(i - 1 < n) /\ (i - 1) + 1 = i
        BY <1>1, <2>2
      <3>2. p[i - 1] = q[i]
        BY <1>4, <3>1
      <3> QED
        BY <1>5, <3>1, <3>2 DEF ToSet
    <2> QED
      BY <1>1, <1>8, <2>1, <2>2
  <1>9. ToSet(q) \ {q[n]} \subseteq ToSet(p)
    BY <1>1, <1>8 DEF ToSet
  <1> QED
    BY <1>4, <1>6, <1>7, <1>9 DEF p, Queue

-----------------------------------------------------------------------------
(* The inductive invariant.                                                *)

\* The stages of a call before its BEGIN is answered, and those in which it relies
\* on its transaction.
Before == {"new", "waiting", "begin"}
Inside == {"work", "rollback", "commit"}

\* No two calls have the same connection, and no connection is one the pool has not.
PinnedAlone ==
  /\ \A t \in Tx : pinned[t] # None => pinned[t] \in Conns
  /\ \A t, u \in Tx : pinned[t] = pinned[u] /\ pinned[t] # None => t = u

Nowhere(t) ==
  /\ Of(t) \intersect landed = {}
  /\ \A c \in Conn : Of(t) \intersect open[c].work = {}

\* Of a call's writes a set has all that were made, or none.
Whole(t, S) == Made(t) \subseteq S \/ Of(t) \intersect S = {}

Own(t) == Of(t) \union (IF driver = "sqlite" THEN Plain ELSE {})

\* Inside its transaction, a call that is not loose has its writes on its own connection
\* alone, and all of them as long as the transaction is open; that it is open no more
\* is the doing of a statement that failed; and on a connection nobody left open
\* there is nothing but its own.
Held(t) ==
  /\ t \notin loose => /\ Of(t) \intersect landed = {}
                       /\ \A c \in Conn \ {pinned[t]} : Of(t) \intersect open[c].work = {}
  /\ open[pinned[t]].status = "open" => t \notin loose /\ Made(t) \subseteq open[pinned[t]].work
  /\ driver = "postgres" => t \notin loose /\ InTransaction(pinned[t])
  /\ open[pinned[t]].status # "open" => driver = "sqlite" \/ failed[t] # {}
  /\ pinned[t] \notin tainted => open[pinned[t]].work \subseteq Own(t)

\* What is true of a call in its stage, and of its writes at all times.
StageFits(t) ==
  /\ pc[t] \in Before => Nowhere(t) /\ t \notin loose /\ made[t] = {}
  /\ pc[t] \in Inside => Held(t)
  /\ pc[t] \in {"begin", "release"} /\ InTransaction(pinned[t]) => pinned[t] \in tainted
  /\ outcome[t] # "none" \/ t \in undone => pc[t] \in {"release", "done"}

WritesFit(t) ==
  /\ t \notin loose \/ driver = "postgres" =>
       Whole(t, landed) /\ \A c \in Conn : Whole(t, open[c].work)
  /\ t \in undone \ loose => Nowhere(t)
  /\ t \notin loose /\ outcome[t] = "resolved" => Made(t) \subseteq landed
  /\ t \in loose => driver = "sqlite" \/ failed[t] # {}

CallFits(t) == StageFits(t) /\ WritesFit(t)

Promises == PinnedAlone /\ ReturnsClean /\ \A t \in Tx : CallFits(t)

IInv == TypeOK /\ Promises

LEMMA ConnsExist == Conns \subseteq Conn
  BY TransactionsAssumption DEF Conns

LEMMA InvInit == Init => IInv
  <1> SUFFICES ASSUME Init PROVE IInv
    OBVIOUS
  <1>1. ToSet(<<>>) = {} /\ IsInjective(<<>>) /\ <<>> \in Seq(Tx)
    BY EmptySeq DEF ToSet, IsInjective
  <1>2. TypeOK
    BY <1>1, ConnsExist, TransactionsAssumption DEF Init, TypeOK, Stage, Outcome, Status, Idle
  <1>3. PinnedAlone
    BY DEF Init, PinnedAlone
  <1>4. ReturnsClean
    BY ConnsExist DEF Init, ReturnsClean, InTransaction, Idle
  <1>5. ASSUME NEW t \in Tx PROVE CallFits(t)
    <2>1. pc[t] = "new" /\ made[t] = {} /\ t \notin loose /\ t \notin undone /\ outcome[t] = "none"
      BY DEF Init
    <2>2. Nowhere(t)
      BY DEF Init, Nowhere, Idle
    <2>3. Whole(t, landed) /\ \A c \in Conn : Whole(t, open[c].work)
      BY <2>2 DEF Nowhere, Whole
    <2> QED
      BY <2>1, <2>2, <2>3 DEF CallFits, StageFits, WritesFit, Before, Inside
  <1> QED
    BY <1>2, <1>3, <1>4, <1>5 DEF IInv, Promises

-----------------------------------------------------------------------------
(* What statements do to a connection.                                     *)

\* The connections and what has landed, as TypeOK has them.
OpenType ==
  /\ open \in [Conn -> [status : Status, work : SUBSET Work]]
  /\ \A c \in Conn : open[c].work # {} => open[c].status = "open"
  /\ landed \subseteq Work

\* Only connection c is touched.
Others(c) == \A d \in Conn \ {c} : open'[d] = open[d]

Joins(c, w) ==
  /\ open[c].status = "open" /\ open'[c].status = "open"
  /\ open'[c].work = open[c].work \union {w} /\ landed' = landed

CommitsItself(c, w) ==
  open[c].status = "idle" /\ open'[c] = open[c] /\ landed' = landed \union {w}

EndsIt(c) ==
  /\ open[c].status = "open" /\ open'[c].status # "open" /\ open'[c].work = {} /\ landed' = landed
  /\ (driver = "postgres") <=> (open'[c].status # "idle")

LEMMA Executed ==
  ASSUME OpenType, NEW c \in Conn, NEW w \in Work, Execute(c, w)
  PROVE  OpenType' /\ Others(c) /\ (Joins(c, w) \/ CommitsItself(c, w))
  <1>1. CASE open[c].status = "open"
    <2>1. /\ open' = [open EXCEPT ![c] = [@ EXCEPT !.work = open[c].work \union {w}]]
          /\ landed' = landed
      BY <1>1 DEF Execute, OpenType
    <2>2. open'[c] = [open[c] EXCEPT !.work = open[c].work \union {w}] /\ Others(c)
      BY <2>1 DEF OpenType, Others
    <2> QED
      BY <1>1, <2>1, <2>2 DEF OpenType, Others, Joins
  <1>2. CASE open[c].status # "open"
    BY <1>2 DEF Execute, OpenType, Others, CommitsItself
  <1> QED
    BY <1>1, <1>2

LEMMA ExecutionFailed ==
  ASSUME OpenType, NEW c \in Conn, NEW w \in Work, ExecuteFails(c, w)
  PROVE  /\ OpenType' /\ Others(c)
         /\ \/ Joins(c, w) \/ CommitsItself(c, w) \/ EndsIt(c)
            \/ open' = open /\ landed' = landed
  <1>1. CASE StaysOpen(c)
    BY <1>1 DEF StaysOpen, OpenType, Others
  <1>2. CASE Execute(c, w)
    BY <1>2, Executed
  <1>3. CASE /\ open[c].status = "open"
             /\ IF driver = "postgres" THEN Aborts(c) ELSE Discards(c)
    BY <1>3 DEF Aborts, Discards, Ended, Idle, OpenType, Others, EndsIt, Status
  <1> QED
    BY <1>1, <1>2, <1>3 DEF ExecuteFails

LEMMA Opened ==
  ASSUME OpenType, NEW c \in Conn, Opens(c)
  PROVE  /\ OpenType' /\ Others(c)
         /\ open'[c].status = "open"
         /\ \/ open'[c].work = open[c].work /\ landed' = landed
            \/ open'[c].work = {} /\ landed' = landed \union open[c].work
  <1>1. ASSUME open' = [open EXCEPT ![c].status = "open"], landed' = landed
        PROVE  OpenType' /\ Others(c) /\ open'[c].status = "open" /\ open'[c].work = open[c].work
    <2>1. open'[c] = [open[c] EXCEPT !.status = "open"] /\ Others(c)
      BY <1>1 DEF OpenType, Others
    <2> QED
      BY <1>1, <2>1 DEF OpenType, Others, Status
  <1>2. ASSUME open' = [open EXCEPT ![c] = [status |-> "open", work |-> {}]],
               landed' = landed \union open[c].work
        PROVE  OpenType' /\ Others(c) /\ open'[c].status = "open" /\ open'[c].work = {}
    BY <1>2 DEF OpenType, Others, Status
  <1> QED
    BY <1>1, <1>2 DEF Opens

LEMMA EndedOpen ==
  ASSUME OpenType, NEW c \in Conn, Ended(c), landed' \subseteq landed \union open[c].work
  PROVE  /\ OpenType' /\ Others(c)
         /\ open'[c].status = "idle" /\ open'[c].work = {}
  BY DEF OpenType, Others, Ended, Idle, Status

-----------------------------------------------------------------------------
(* The variables keep their types.                                         *)

\* The stages in which a call has a connection.
Attached == {"begin", "work", "rollback", "commit", "release"}

\* A call that moves from one such stage to another leaves queue and pool alone.
LEMMA TypeAttached ==
  ASSUME TypeOK, NEW t \in Tx, pc[t] \in Attached,
         NEW stage \in Attached, pc' = [pc EXCEPT ![t] = stage],
         UNCHANGED <<driver, pinned, queue, free, done>>, OpenType',
         made' \in [Tx -> SUBSET Nat] /\ failed' \in [Tx -> SUBSET Nat],
         \A u \in Tx : made'[u] \union failed'[u] \subseteq 1..Writes[u],
         outcome' \in [Tx -> Outcome], undone' \subseteq Tx, loose' \subseteq Tx,
         tainted' \subseteq Conn
  PROVE  TypeOK'
  <1> USE DEF TypeOK
  <1>1. pc' \in [Tx -> Stage] /\ \A u \in Tx : pc'[u] = IF u = t THEN stage ELSE pc[u]
    BY DEF Attached, Stage
  <1>2. (\A u \in Tx : pc[u] = "waiting" <=> u \in ToSet(queue))'
    BY <1>1 DEF Attached
  <1>3. (\A u \in Tx : pinned[u] # None <=> pc[u] \notin {"new", "waiting", "done"})'
    BY <1>1 DEF Attached
  <1>4. Conns' = Conns
    BY DEF Conns
  <1> QED
    BY <1>1, <1>2, <1>3, <1>4 DEF OpenType

LEMMA PinnedIsConn ==
  ASSUME TypeOK, NEW t \in Tx, pc[t] \in Attached
  PROVE  pinned[t] \in Conn /\ pinned[t] # None
  BY DEF TypeOK, Attached

\* The statements of withTransaction itself.
Statement(t) == Begin(t) \/ BeginFails(t) \/ Rollback(t) \/ RollbackFails(t)
                  \/ Commit(t) \/ CommitFails(t) \/ Resolves(t) \/ Throws(t)

LEMMA TypeStatement ==
  ASSUME TypeOK, NEW t \in Tx, Statement(t)
  PROVE  TypeOK'
  <1> USE DEF Statement
  <1>1. OpenType
    BY DEF TypeOK, OpenType
  <1>2. pc[t] \in Attached /\ pinned[t] \in Conn
    BY PinnedIsConn DEF Begin, BeginFails, Rollback, RollbackFails, Commit, CommitFails,
                        Resolves, Throws, Attached
  <1>3. OpenType'
    <2>1. CASE Begin(t) \/ BeginFails(t)
      BY <1>1, <1>2, <2>1, Opened DEF Begin, BeginFails, StaysOpen, OpenType
    <2>2. CASE Rollback(t) \/ RollbackFails(t) \/ Commit(t) \/ CommitFails(t)
      BY <1>1, <1>2, <2>2, EndedOpen
         DEF Rollback, RollbackFails, Commit, CommitFails, Discards, Lands, StaysOpen, OpenType
    <2>3. CASE Resolves(t) \/ Throws(t)
      BY <1>1, <2>3 DEF Resolves, Throws, OpenType
    <2> QED
      BY <2>1, <2>2, <2>3
  <1>4. UNCHANGED <<driver, pinned, queue, free, made, failed, done>>
    BY DEF Begin, BeginFails, Rollback, RollbackFails, Commit, CommitFails, Resolves, Throws
  <1>5. \E stage \in Attached : pc' = [pc EXCEPT ![t] = stage]
    BY DEF Begin, BeginFails, Rollback, RollbackFails, Commit, CommitFails, Resolves, Throws,
           Attached, Goto
  <1>6. outcome' \in [Tx -> Outcome]
    BY DEF Begin, BeginFails, Rollback, RollbackFails, Commit, CommitFails, Resolves, Throws,
           TypeOK, Settle, Outcome
  <1>7. undone' \subseteq Tx /\ loose' \subseteq Tx /\ tainted' \subseteq Conn
    BY <1>2 DEF Begin, BeginFails, Rollback, RollbackFails, Commit, CommitFails, Resolves,
           Throws, TypeOK, Taint, MarkLoose
  <1>8. /\ made' \in [Tx -> SUBSET Nat] /\ failed' \in [Tx -> SUBSET Nat]
        /\ \A u \in Tx : made'[u] \union failed'[u] \subseteq 1..Writes[u]
    BY <1>4 DEF TypeOK
  <1> QED
    BY <1>2, <1>3, <1>4, <1>5, <1>6, <1>7, <1>8, TypeAttached

LEMMA TypeWrite ==
  ASSUME TypeOK, NEW t \in Tx, NEW n \in 1..Writes[t], Write(t, n) \/ WriteFails(t, n)
  PROVE  TypeOK'
  <1>1. OpenType /\ pc[t] = "work" /\ pc[t] \in Attached /\ pinned[t] \in Conn
    BY PinnedIsConn DEF TypeOK, OpenType, Write, WriteFails, MayWrite, Attached
  <1>2. <<t, n>> \in Work
    BY DEF Work, Of
  <1>3. OpenType'
    BY <1>1, <1>2, Executed, ExecutionFailed DEF Write, WriteFails
  <1>4. UNCHANGED <<driver, pc, pinned, queue, free, outcome, done, undone, tainted>>
    BY DEF Write, WriteFails
  <1>5. pc' = [pc EXCEPT ![t] = "work"]
    BY <1>1, <1>4 DEF TypeOK
  <1>6. n \in Nat /\ loose' \subseteq Tx
    BY TransactionsAssumption DEF Write, WriteFails, MarkLoose, TypeOK
  <1>7. /\ made' \in [Tx -> SUBSET Nat] /\ failed' \in [Tx -> SUBSET Nat]
        /\ \A u \in Tx : made'[u] \union failed'[u] \subseteq 1..Writes[u]
    <2>1. CASE Write(t, n)
      <3>1. made' = [made EXCEPT ![t] = made[t] \union {n}] /\ failed' = failed
        BY <2>1 DEF Write, TypeOK
      <3> QED
        BY <1>6, <3>1 DEF TypeOK
    <2>2. CASE WriteFails(t, n)
      <3>1. failed' = [failed EXCEPT ![t] = failed[t] \union {n}] /\ made' = made
        BY <2>2 DEF WriteFails, TypeOK
      <3> QED
        BY <1>6, <3>1 DEF TypeOK
    <2> QED
      BY <2>1, <2>2
  <1>8. "work" \in Attached
    BY DEF Attached
  <1>9. outcome' \in [Tx -> Outcome] /\ undone' \subseteq Tx /\ tainted' \subseteq Conn
    BY <1>4 DEF TypeOK
  <1> QED
    BY <1>1, <1>3, <1>4, <1>5, <1>6, <1>7, <1>8, <1>9, TypeAttached

LEMMA TypePool ==
  ASSUME TypeOK, PinnedAlone, NEW t \in Tx,
         Call(t) \/ CallNested(t) \/ Checkout(t) \/ ConnectFails(t) \/ Release(t)
  PROVE  TypeOK'
  <1> USE DEF TypeOK, Goto, Settle
  <1>1. queue \in Queue
    BY DEF Queue
  <1>2. Conns' = Conns
    BY DEF Call, CallNested, Checkout, ConnectFails, Release, Conns
  <1>3. CASE Call(t)
    <2>1. queue' \in Queue /\ ToSet(queue') = ToSet(queue) \union {t}
      BY <1>1, <1>3, AppendToQueue DEF Call
    <2> QED
      BY <1>2, <1>3, <2>1 DEF Call, Stage, Queue
  <1>4. CASE CallNested(t)
    BY <1>2, <1>4 DEF CallNested, Stage, Outcome
  <1>5. CASE Checkout(t)
    <2>1. queue' \in Queue /\ ToSet(queue') = ToSet(queue) \ {t} /\ pc[t] = "waiting"
      BY <1>1, <1>5, TailOfQueue DEF Checkout
    <2>2. PICK c \in free : free' = free \ {c} /\ pinned' = [pinned EXCEPT ![t] = c]
      BY <1>5 DEF Checkout
    <2>3. c \in Conn /\ c # None
      BY <2>2, ConnsExist, TransactionsAssumption
    <2> QED
      BY <1>2, <1>5, <2>1, <2>2, <2>3 DEF Checkout, Stage, Queue
  <1>6. CASE ConnectFails(t)
    <2>1. queue' \in Queue /\ ToSet(queue') = ToSet(queue) \ {t}
      BY <1>1, <1>6, RemoveFromQueue DEF ConnectFails
    <2> QED
      BY <1>2, <1>6, <2>1 DEF ConnectFails, Stage, Outcome, Queue
  <1>7. CASE Release(t)
    <2>1. pinned[t] \in Conns /\ pinned[t] # None /\ \A u \in Tx \ {t} : pinned[u] # pinned[t]
      BY <1>7, PinnedIsConn DEF PinnedAlone, Release, Attached
    <2>2. free' = free \union {pinned[t]} /\ pinned' = [pinned EXCEPT ![t] = None]
            /\ pc' = [pc EXCEPT ![t] = "done"] /\ pc[t] = "release"
      BY <1>7 DEF Release
    <2>3. None \notin free /\ None # pinned[t]
      BY ConnsExist, TransactionsAssumption, <2>1
    <2>4. (\A u \in Tx : pinned[u] \notin free)' /\ free' \subseteq Conns
      BY <2>1, <2>2, <2>3
    <2> QED
      BY <1>2, <1>7, <2>2, <2>4 DEF Release, Stage
  <1> QED
    BY <1>3, <1>4, <1>5, <1>6, <1>7

LEMMA TypePoolQuery ==
  ASSUME TypeOK, NEW p \in Plain, PoolQuery(p)
  PROVE  TypeOK'
  <1>1. OpenType
    BY DEF TypeOK, OpenType
  <1>2. PICK c \in Conn : Execute(c, p) \/ ExecuteFails(c, p)
    BY ConnsExist DEF PoolQuery, TypeOK
  <1>3. OpenType'
    BY <1>1, <1>2, Executed, ExecutionFailed DEF Work
  <1>4. Conns' = Conns
    BY DEF Conns, PoolQuery
  <1> QED
    BY <1>3, <1>4 DEF OpenType, TypeOK, PoolQuery

-----------------------------------------------------------------------------
(* The promises, action by action.                                         *)

\* What a statement on connection c with writes X of its own does to those of others:
\* they stay, or leave the connection together, for good or into what has landed.
Moves(c, X) ==
  /\ open'[c].work \ X \in {open[c].work \ X, {}}
  /\ landed' \ X \in {landed \ X, (landed \union open[c].work) \ X}

LEMMA MovesKeep ==
  ASSUME OpenType, NEW t \in Tx, NEW c \in Conn, NEW X, X \intersect Of(t) = {},
         Moves(c, X), Others(c), Made(t) \subseteq Of(t), Made(t)' = Made(t), Of(t)' = Of(t)
  PROVE  /\ Nowhere(t) => Nowhere(t)'
         /\ Of(t) \intersect landed = {} /\ Of(t) \intersect open[c].work = {}
              => Of(t) \intersect landed' = {} /\ Of(t) \intersect open'[c].work = {}
         /\ Made(t) \subseteq landed => Made(t) \subseteq landed'
         /\ Whole(t, landed) /\ (\A d \in Conn : Whole(t, open[d].work))
              => Whole(t, landed)' /\ \A d \in Conn : Whole(t, open[d].work)'
  <1>1. /\ Of(t) \intersect landed' \in {Of(t) \intersect landed,
             (Of(t) \intersect landed) \union (Of(t) \intersect open[c].work)}
        /\ Of(t) \intersect open'[c].work \in {Of(t) \intersect open[c].work, {}}
    BY DEF Moves
  <1>2. Of(t) \intersect landed \subseteq landed'
    BY <1>1
  <1>3. \A d \in Conn \ {c} : open'[d].work = open[d].work
    BY DEF Others
  <1>4. Nowhere(t) => Nowhere(t)'
    BY <1>1, <1>3 DEF Nowhere
  <1>5. ASSUME Whole(t, landed), Whole(t, open[c].work)
        PROVE  Whole(t, landed)' /\ Whole(t, open[c].work)'
    BY <1>1, <1>2, <1>5 DEF Whole
  <1>6. ASSUME NEW d \in Conn \ {c}, Whole(t, open[d].work)
        PROVE  Whole(t, open[d].work)'
    BY <1>3, <1>6 DEF Whole
  <1>7. Made(t) \subseteq landed => Made(t) \subseteq landed'
    BY <1>2
  <1> QED
    BY <1>1, <1>4, <1>5, <1>6, <1>7

LEMMA MadeIsOf == TypeOK => \A t \in Tx : Made(t) \subseteq Of(t)
  BY DEF TypeOK, Made, Of

\* What happens on a connection that is not its own leaves a call as it is.
LEMMA ElsewhereKeeps ==
  ASSUME IInv, NEW t \in Tx, NEW c \in Conn, pinned[t] # c, NEW X, X \intersect Of(t) = {},
         Moves(c, X), Others(c), tainted \subseteq tainted', driver' = driver,
         pc'[t] = pc[t], pinned'[t] = pinned[t], made'[t] = made[t], failed'[t] = failed[t],
         outcome'[t] = outcome[t], t \in loose' <=> t \in loose, t \in undone' <=> t \in undone
  PROVE  CallFits(t)'
  <1>1. OpenType /\ CallFits(t) /\ Made(t) \subseteq Of(t) /\ Made(t)' = Made(t) /\ Of(t)' = Of(t)
    BY MadeIsOf DEF IInv, TypeOK, OpenType, Promises, Made, Of
  <1>2. /\ Nowhere(t) => Nowhere(t)'
        /\ Of(t) \intersect landed = {} /\ Of(t) \intersect open[c].work = {}
             => Of(t) \intersect landed' = {} /\ Of(t) \intersect open'[c].work = {}
        /\ Made(t) \subseteq landed => Made(t) \subseteq landed'
        /\ Whole(t, landed) /\ (\A d \in Conn : Whole(t, open[d].work))
             => Whole(t, landed)' /\ \A d \in Conn : Whole(t, open[d].work)'
    BY <1>1, MovesKeep
  <1>3. pc[t] \in Attached => pinned[t] \in Conn /\ open'[pinned[t]] = open[pinned[t]]
    BY PinnedIsConn DEF IInv, Others
  <1>4. Own(t)' = Own(t)
    BY <1>1 DEF Own
  <1>5. Held(t) /\ pc[t] \in Attached => Held(t)'
    <2> SUFFICES ASSUME Held(t), pc[t] \in Attached PROVE Held(t)'
      OBVIOUS
    <2>1. t \notin loose =>
            /\ Of(t) \intersect landed' = {}
            /\ \A d \in Conn \ {pinned[t]} : Of(t) \intersect open'[d].work = {}
      BY <1>2 DEF Held, Others
    <2> QED
      BY <1>1, <1>3, <1>4, <2>1 DEF Held, InTransaction
  <1>6. StageFits(t)'
    BY <1>1, <1>2, <1>3, <1>5 DEF CallFits, StageFits, InTransaction, Inside, Attached
  <1>7. WritesFit(t)'
    BY <1>1, <1>2 DEF CallFits, WritesFit
  <1> QED
    BY <1>6, <1>7 DEF CallFits

\* A call's statement touches its own connection only, so what it breaks it can
\* only break for the call itself.
LEMMA StatementKeeps ==
  ASSUME IInv, NEW t \in Tx, pc[t] \in Attached, UNCHANGED <<driver, pinned, free>>,
         \A u \in Tx \ {t} : /\ pc'[u] = pc[u] /\ made'[u] = made[u] /\ failed'[u] = failed[u]
                             /\ outcome'[u] = outcome[u] /\ (u \in loose' <=> u \in loose)
                             /\ (u \in undone' <=> u \in undone),
         Others(pinned[t]), Moves(pinned[t], Of(t)), tainted \subseteq tainted', CallFits(t)'
  PROVE  Promises'
  <1>1. pinned[t] \in Conn /\ pinned[t] # None /\ \A u \in Tx \ {t} : pinned[u] # pinned[t]
    BY PinnedIsConn DEF IInv, Promises, PinnedAlone
  <1>2. PinnedAlone'
    BY DEF IInv, Promises, PinnedAlone, Conns
  <1>3. ReturnsClean'
    <2>1. \A d \in free : d \in Conn /\ d # pinned[t]
      BY ConnsExist DEF IInv, TypeOK
    <2> QED
      BY <2>1 DEF IInv, Promises, ReturnsClean, Others, InTransaction
  <1>4. ASSUME NEW u \in Tx \ {t} PROVE CallFits(u)'
    <2>1. Of(t) \intersect Of(u) = {}
      BY DEF Of
    <2>2. pinned'[u] = pinned[u] /\ pinned[u] # pinned[t]
      BY <1>1
    <2> QED
      BY <1>1, <2>1, <2>2, ElsewhereKeeps
  <1> QED
    BY <1>2, <1>3, <1>4 DEF Promises

\* The queue and the pool: what is open and what has landed stays as it is.
LEMMA PoolKeeps ==
  ASSUME IInv, NEW t \in Tx,
         Call(t) \/ CallNested(t) \/ Checkout(t) \/ ConnectFails(t) \/ Release(t)
  PROVE  Promises'
  <1>1. UNCHANGED <<driver, made, failed, open, landed, undone, loose, tainted>>
    BY DEF Call, CallNested, Checkout, ConnectFails, Release
  <1>2. \A u \in Tx \ {t} : pc'[u] = pc[u] /\ pinned'[u] = pinned[u] /\ outcome'[u] = outcome[u]
    BY DEF Call, CallNested, Checkout, ConnectFails, Release, IInv, TypeOK, Goto, Settle
  <1>3. \A u \in Tx : /\ Nowhere(u)' <=> Nowhere(u)
                      /\ Whole(u, landed)' <=> Whole(u, landed)
                      /\ \A d \in Conn : Whole(u, open[d].work)' <=> Whole(u, open[d].work)
                      /\ Made(u)' = Made(u)
    BY <1>1 DEF Nowhere, Whole, Made, Of
  <1>4. ASSUME NEW u \in Tx \ {t} PROVE CallFits(u)'
    <2>1. Held(u) => Held(u)'
      BY <1>1, <1>2, <1>3 DEF Held, Own, Of, InTransaction
    <2> QED
      BY <1>1, <1>2, <1>3, <2>1 DEF IInv, Promises, CallFits, StageFits, WritesFit, InTransaction
  <1>5. /\ pc'[t] \in Before => pc[t] \in Before
        /\ pc'[t] \in {"waiting", "begin", "done"}
        /\ pc'[t] = "begin" => pc[t] = "waiting"
        /\ pc'[t] = "done" => pc[t] \in {"new", "waiting", "release"}
        /\ outcome'[t] # outcome[t] => pc'[t] = "done" /\ outcome'[t] # "resolved"
    <2>1. CASE Checkout(t)
      <3>1. pc[t] = "waiting"
        BY <2>1, TailOfQueue DEF Checkout, IInv, TypeOK, Queue
      <3> QED
        BY <2>1, <3>1 DEF Checkout, IInv, TypeOK, Goto, Before
    <2> QED
      BY <2>1 DEF Call, CallNested, ConnectFails, Release, IInv, TypeOK, Goto, Settle, Before
  <1>6. ASSUME pc'[t] = "begin" /\ InTransaction(pinned'[t]) => pinned'[t] \in tainted
        PROVE  CallFits(t)'
    <2>1. CallFits(t)
      BY DEF IInv, Promises
    <2>2. StageFits(t)'
      BY <1>1, <1>3, <1>5, <1>6, <2>1 DEF CallFits, StageFits, Inside, Before, InTransaction
    <2>3. WritesFit(t)'
      BY <1>1, <1>3, <1>5, <2>1 DEF CallFits, WritesFit
    <2> QED
      BY <2>2, <2>3 DEF CallFits
  <1>7. CASE Checkout(t)
    <2>1. PICK c \in free : free' = free \ {c} /\ pinned' = [pinned EXCEPT ![t] = c]
      BY <1>7 DEF Checkout
    <2>2. c \in Conns /\ c \in Conn /\ c # None /\ pinned'[t] = c /\ \A u \in Tx \ {t} : pinned'[u] # c
      BY <2>1, ConnsExist, TransactionsAssumption DEF IInv, TypeOK
    <2>3. PinnedAlone'
      BY <1>1, <1>2, <2>2 DEF IInv, Promises, PinnedAlone, Conns
    <2>4. ReturnsClean' /\ (InTransaction(c) => c \in tainted)
      BY <1>1, <2>1 DEF IInv, Promises, ReturnsClean, InTransaction
    <2> QED
      BY <1>4, <1>6, <2>2, <2>3, <2>4 DEF Promises
  <1>8. CASE Release(t)
    <2>1. pinned'[t] = None /\ free' = free \union {pinned[t]} /\ pc'[t] = "done" /\ pc[t] = "release"
      BY <1>8 DEF Release, IInv, TypeOK, Goto
    <2>2. PinnedAlone'
      BY <1>1, <1>2, <2>1 DEF IInv, Promises, PinnedAlone, Conns
    <2>3. ReturnsClean'
      BY <1>1, <2>1 DEF IInv, Promises, ReturnsClean, CallFits, StageFits, InTransaction
    <2> QED
      BY <1>4, <1>6, <2>1, <2>2, <2>3 DEF Promises
  <1>9. CASE Call(t) \/ CallNested(t) \/ ConnectFails(t)
    <2>1. UNCHANGED <<pinned, free>> /\ pc'[t] \in {"waiting", "done"}
      BY <1>9 DEF Call, CallNested, ConnectFails, IInv, TypeOK, Goto
    <2>2. PinnedAlone' /\ ReturnsClean'
      BY <1>1, <2>1 DEF IInv, Promises, PinnedAlone, ReturnsClean, Conns, InTransaction
    <2> QED
      BY <1>4, <1>6, <2>1, <2>2 DEF Promises
  <1> QED
    BY <1>7, <1>8, <1>9

\* A query through the pool touches a connection that no call has; in sqlite it may
\* add its own write to the work of the call that does, or end its transaction.
LEMMA PoolQueryKeeps ==
  ASSUME IInv, NEW p \in Plain, PoolQuery(p)
  PROVE  Promises'
  <1>1. PICK c \in Conn : /\ Execute(c, p) \/ ExecuteFails(c, p)
                          /\ driver = "sqlite" \/ c \in free
    BY ConnsExist DEF PoolQuery, IInv, TypeOK
  <1>2. /\ OpenType /\ Others(c)
        /\ \/ Joins(c, p) \/ CommitsItself(c, p) \/ EndsIt(c)
           \/ open' = open /\ landed' = landed
    BY <1>1, Executed, ExecutionFailed DEF IInv, TypeOK, OpenType, Work
  <1>3. UNCHANGED <<driver, pc, pinned, free, made, failed, outcome, undone, loose, tainted>>
    BY DEF PoolQuery
  <1>4. \A t \in Tx : {p} \intersect Of(t) = {}
    BY TransactionsAssumption DEF Of
  <1>5. Moves(c, {p})
    BY <1>2 DEF Joins, CommitsItself, EndsIt, Moves
  <1>6. InTransaction(c)' => InTransaction(c)
    BY <1>2 DEF Joins, CommitsItself, EndsIt, InTransaction
  <1>7. PinnedAlone'
    BY <1>3 DEF IInv, Promises, PinnedAlone, Conns
  <1>8. ReturnsClean'
    <2>1. free \subseteq Conn
      BY ConnsExist DEF IInv, TypeOK
    <2> QED
      BY <1>2, <1>3, <1>6, <2>1 DEF IInv, Promises, ReturnsClean, Others, InTransaction
  <1>9. ASSUME NEW t \in Tx PROVE CallFits(t)'
    <2>1. CASE pinned[t] # c
      BY <1>2, <1>3, <1>4, <1>5, <2>1, ElsewhereKeeps
    <2>2. CASE pinned[t] = c
      <3>1. driver = "sqlite"
        BY <1>1, <2>2 DEF IInv, TypeOK
      <3>2. CallFits(t) /\ Made(t) \subseteq Of(t) /\ Made(t)' = Made(t) /\ Of(t)' = Of(t)
        BY <1>3, MadeIsOf DEF IInv, Promises, Made, Of
      <3>3. /\ Nowhere(t) => Nowhere(t)'
            /\ Made(t) \subseteq landed => Made(t) \subseteq landed'
            /\ Whole(t, landed) /\ (\A d \in Conn : Whole(t, open[d].work))
                 => Whole(t, landed)' /\ \A d \in Conn : Whole(t, open[d].work)'
        BY <1>2, <1>4, <1>5, <3>2, MovesKeep
      <3>4. Held(t) => Held(t)'
        <4> SUFFICES ASSUME Held(t) PROVE Held(t)'
          OBVIOUS
        <4>1. Of(t) \intersect landed' = Of(t) \intersect landed
          BY <1>2, <1>4 DEF Joins, CommitsItself, EndsIt
        <4>2. \A d \in Conn \ {c} : open'[d].work = open[d].work
          BY <1>2 DEF Others
        <4>3. open'[c].status = "open" => open[c].status = "open" /\ open[c].work \subseteq open'[c].work
          BY <1>2 DEF Joins, CommitsItself, EndsIt
        <4>4. open'[c].work \subseteq open[c].work \union {p} /\ p \in Own(t) /\ Own(t)' = Own(t)
          BY <1>2, <1>3, <3>1, <3>2 DEF Joins, CommitsItself, EndsIt, Own
        <4> QED
          BY <1>3, <2>2, <3>1, <3>2, <4>1, <4>2, <4>3, <4>4 DEF Held
      <3>5. StageFits(t)'
        BY <1>3, <1>6, <2>2, <3>2, <3>3, <3>4 DEF CallFits, StageFits, InTransaction
      <3>6. WritesFit(t)'
        BY <1>3, <3>2, <3>3 DEF CallFits, WritesFit
      <3> QED
        BY <3>5, <3>6 DEF CallFits
    <2> QED
      BY <2>1, <2>2
  <1> QED
    BY <1>7, <1>8, <1>9 DEF Promises

LEMMA BeginKeeps ==
  ASSUME IInv, NEW t \in Tx, Begin(t) \/ BeginFails(t)
  PROVE  Promises'
  <1> DEFINE c == pinned[t]
  <1>1. OpenType /\ pc[t] = "begin" /\ pc[t] \in Attached /\ c \in Conn /\ CallFits(t)
    BY PinnedIsConn DEF IInv, TypeOK, OpenType, Begin, BeginFails, Attached, Promises
  <1>2. /\ Nowhere(t) /\ t \notin loose /\ t \notin undone /\ made[t] = {} /\ outcome[t] = "none"
        /\ InTransaction(c) => c \in tainted
    BY <1>1 DEF CallFits, StageFits, Before
  <1>3. /\ UNCHANGED <<driver, pinned, free, made, failed, undone, loose>>
        /\ tainted \subseteq tainted'
    BY DEF Begin, BeginFails, Taint
  <1>4. Others(c) /\ \/ open'[c].work = open[c].work /\ landed' = landed
                     \/ open'[c].work = {} /\ landed' = landed \union open[c].work
    BY <1>1, Opened DEF Begin, BeginFails, StaysOpen, Others
  <1>5. Moves(c, Of(t)) /\ Nowhere(t)'
    <2>1. Moves(c, {})
      BY <1>4 DEF Moves
    <2>2. Made(t) \subseteq Of(t) /\ Made(t)' = Made(t) /\ Of(t)' = Of(t)
      BY <1>3, MadeIsOf DEF Made, Of, IInv
    <2>3. Nowhere(t)'
      BY <1>1, <1>2, <1>4, <2>1, <2>2, MovesKeep
    <2> QED
      BY <1>4, <2>3 DEF Moves
  <1>6. Made(t)' = {} /\ Made(t) = {}
    BY <1>2, <1>3 DEF Made
  <1>7. WritesFit(t)' /\ (pc'[t] = "work" \/ pc'[t] = "release") 
        /\ \A u \in Tx \ {t} : pc'[u] = pc[u] /\ outcome'[u] = outcome[u]
    <2>1. /\ outcome'[t] # "resolved" /\ (pc'[t] = "work" \/ pc'[t] = "release")
          /\ \A u \in Tx \ {t} : pc'[u] = pc[u] /\ outcome'[u] = outcome[u]
      BY <1>2 DEF Begin, BeginFails, IInv, TypeOK, Goto, Settle
    <2> QED
      BY <1>2, <1>3, <1>6, <2>1 DEF WritesFit, Whole
  <1>8. CASE Begin(t)
    <2>1. open'[c].status = "open" /\ pc'[t] = "work" /\ UNCHANGED <<outcome, tainted>>
      BY <1>1, <1>8, Opened DEF Begin, IInv, TypeOK, Goto
    <2>2. c \notin tainted => open'[c].work = {}
      BY <1>1, <1>2, <1>4 DEF InTransaction, OpenType
    <2>3. Held(t)'
      BY <1>2, <1>3, <1>5, <1>6, <2>1, <2>2 DEF Held, Nowhere, InTransaction, Of
    <2>4. StageFits(t)'
      BY <1>2, <1>3, <2>1, <2>3 DEF StageFits, Inside, Before
    <2> HIDE DEF c
    <2> QED
      BY <1>1, <1>3, <1>4, <1>5, <1>7, <2>4, StatementKeeps DEF c, CallFits
  <1>9. CASE BeginFails(t)
    <2>1. pc'[t] = "release" /\ (InTransaction(c)' => c \in tainted')
      BY <1>9 DEF BeginFails, IInv, TypeOK, Goto, Taint, InTransaction
    <2>2. StageFits(t)'
      BY <1>2, <1>3, <2>1 DEF StageFits, Inside, Before, InTransaction
    <2> HIDE DEF c
    <2> QED
      BY <1>1, <1>3, <1>4, <1>5, <1>7, <2>2, StatementKeeps DEF c, CallFits
  <1> QED
    BY <1>8, <1>9

\* A write, answered or failed.
LEMMA WriteKeeps ==
  ASSUME IInv, NEW t \in Tx, NEW n \in 1..Writes[t], Write(t, n) \/ WriteFails(t, n)
  PROVE  Promises'
  <1> DEFINE c == pinned[t]
             w == <<t, n>>
  <1>1. OpenType /\ pc[t] = "work" /\ pc[t] \in Attached /\ c \in Conn /\ CallFits(t)
    BY PinnedIsConn DEF IInv, TypeOK, OpenType, Write, WriteFails, MayWrite, Attached, Promises
  <1>2. Held(t) /\ WritesFit(t) /\ outcome[t] = "none" /\ t \notin undone
    BY <1>1 DEF CallFits, StageFits, Inside
  <1>3. w \in Of(t) /\ w \in Work /\ Of(t)' = Of(t)
    BY DEF Of, Work
  <1>4. UNCHANGED <<driver, pc, pinned, free, outcome, undone, tainted>> /\ c' = c
    BY DEF Write, WriteFails
  <1>5. /\ Others(c)
        /\ \/ Joins(c, w) \/ CommitsItself(c, w)
           \/ WriteFails(t, n) /\ (EndsIt(c) \/ (open' = open /\ landed' = landed))
    <2>1. CASE Write(t, n)
      <3>1. Execute(c, w)
        BY <2>1 DEF Write
      <3> QED
        BY <1>1, <1>3, <3>1, Executed
    <2>2. CASE WriteFails(t, n)
      <3>1. ExecuteFails(c, w)
        BY <2>2 DEF WriteFails
      <3> QED
        BY <1>1, <1>3, <2>2, <3>1, ExecutionFailed
    <2> QED
      BY <2>1, <2>2
  <1>6. Moves(c, Of(t))
    BY <1>3, <1>5 DEF Moves, Joins, CommitsItself, EndsIt
  <1>7. /\ made'[t] = made[t] \/ (Write(t, n) /\ made'[t] = made[t] \union {n})
        /\ failed[t] \subseteq failed'[t] /\ (WriteFails(t, n) => failed'[t] # {})
        /\ \A u \in Tx \ {t} : made'[u] = made[u] /\ failed'[u] = failed[u]
        /\ loose' \in {loose, loose \union {t}}
    <2>1. CASE Write(t, n)
      <3>1. made' = [made EXCEPT ![t] = made[t] \union {n}] /\ failed' = failed
        BY <2>1 DEF Write, IInv, TypeOK
      <3>2. WriteFails(t, n) => failed'[t] # {}
        BY DEF WriteFails, IInv, TypeOK
      <3>3. /\ made'[t] = made[t] \union {n}
            /\ \A u \in Tx \ {t} : made'[u] = made[u]
        BY <3>1 DEF IInv, TypeOK
      <3> QED
        BY <2>1, <3>1, <3>2, <3>3 DEF Write, MarkLoose
    <2>2. CASE WriteFails(t, n)
      <3>1. failed' = [failed EXCEPT ![t] = failed[t] \union {n}] /\ made' = made
        BY <2>2 DEF WriteFails, IInv, TypeOK
      <3> QED
        BY <2>2, <3>1 DEF WriteFails, IInv, TypeOK
    <2> QED
      BY <2>1, <2>2
  <1>8. Made(t)' \subseteq Made(t) \union {w} /\ Made(t) \subseteq Made(t)'
    BY <1>7 DEF Made
  <1>9. t \in loose' => driver = "sqlite" \/ failed'[t] # {}
    <2>1. CASE Write(t, n)
      BY <1>2, <1>7, <2>1 DEF Write, MarkLoose, Held, WritesFit
    <2>2. CASE WriteFails(t, n)
      BY <1>7, <2>2
    <2> QED
      BY <2>1, <2>2
  <1> HIDE DEF c, w
  <1>10. Held(t)' /\ WritesFit(t)'
    <2>1. CASE Joins(c, w)
      <3>1. t \notin loose /\ Made(t) \subseteq open[c].work
        BY <1>2, <2>1 DEF Held, Joins, c
      <3>2. loose' = loose
        BY <2>1 DEF Write, WriteFails, MarkLoose, Joins, c
      <3>3. /\ Of(t) \intersect landed' = {} /\ Made(t)' \subseteq open'[c].work
            /\ \A d \in Conn \ {c} : Of(t) \intersect open'[d].work = {}
        BY <1>2, <1>5, <1>8, <2>1, <3>1 DEF Held, Joins, Others, c
      <3>4. c \notin tainted => open'[c].work \subseteq Own(t) /\ Own(t)' = Own(t)
        BY <1>2, <1>3, <1>4, <2>1 DEF Held, Joins, Own, c
      <3>5. Held(t)'
        BY <1>3, <1>4, <2>1, <3>1, <3>2, <3>3, <3>4 DEF Held, Joins, InTransaction, c
      <3>6. WritesFit(t)'
        BY <1>2, <1>3, <1>4, <1>9, <3>2, <3>3 DEF WritesFit, Whole
      <3> QED
        BY <3>5, <3>6
    <2>2. CASE CommitsItself(c, w)
      <3>1. driver # "postgres" /\ open' = open
        BY <1>1, <1>2, <1>5, <2>2 DEF Held, CommitsItself, InTransaction, c, Write, WriteFails,
               Execute, ExecuteFails, StaysOpen
      <3>2. t \in loose'
        <4>1. CASE Write(t, n)
          BY <2>2, <4>1 DEF Write, MarkLoose, CommitsItself, c
        <4>2. CASE WriteFails(t, n)
          BY <1>2, <1>3, <2>2, <4>2 DEF WriteFails, CommitsItself, Held
        <4> QED
          BY <4>1, <4>2
      <3>3. open[c].status # "open" /\ open'[c] = open[c]
        BY <2>2, <3>1 DEF CommitsItself
      <3>4. Held(t)'
        BY <1>2, <1>3, <1>4, <1>9, <3>1, <3>2, <3>3 DEF Held, Own, c
      <3>5. WritesFit(t)'
        BY <1>2, <1>4, <1>9, <3>1, <3>2 DEF WritesFit
      <3> QED
        BY <3>4, <3>5
    <2>3. CASE WriteFails(t, n) /\ (EndsIt(c) \/ (open' = open /\ landed' = landed))
      <3>1. landed' = landed /\ loose' = loose /\ Made(t)' = Made(t) /\ failed'[t] # {}
        BY <1>7, <2>3 DEF EndsIt, WriteFails, Made
      <3>2. \A d \in Conn : open'[d].work \in {open[d].work, {}}
        BY <1>5, <2>3 DEF EndsIt, Others
      <3>3. /\ open'[c].status = "open" => open[c].status = "open" /\ open'[c].work = open[c].work
            /\ driver = "postgres" /\ InTransaction(c) => InTransaction(c)'
        BY <1>4, <2>3 DEF EndsIt, InTransaction
      <3>4. Held(t)'
        BY <1>1, <1>2, <1>3, <1>4, <3>1, <3>2, <3>3 DEF Held, Own, InTransaction, c
      <3>5. WritesFit(t)'
        BY <1>2, <1>3, <1>4, <1>9, <3>1, <3>2 DEF WritesFit, Whole, Nowhere
      <3> QED
        BY <3>4, <3>5
    <2> QED
      BY <1>5, <2>1, <2>2, <2>3
  <1>11. CallFits(t)'
    BY <1>1, <1>2, <1>4, <1>10 DEF CallFits, StageFits, Inside, Before
  <1> QED
    BY <1>1, <1>4, <1>5, <1>6, <1>7, <1>11, StatementKeeps DEF c

\* The callback has settled; no statement runs.
LEMMA CallbackKeeps ==
  ASSUME IInv, NEW t \in Tx, Resolves(t) \/ Throws(t)
  PROVE  Promises'
  <1>1. /\ UNCHANGED <<driver, pinned, free, made, failed, open, landed, outcome, undone, loose,
                       tainted>>
        /\ pc[t] = "work" /\ pc'[t] \in {"commit", "rollback"}
        /\ \A u \in Tx \ {t} : pc'[u] = pc[u]
    BY DEF Resolves, Throws, IInv, TypeOK, Goto
  <1>2. Others(pinned[t]) /\ Moves(pinned[t], Of(t))
    BY <1>1 DEF Others, Moves
  <1>3. StageFits(t) /\ WritesFit(t)
    BY DEF IInv, Promises, CallFits
  <1>4. Held(t)'
    BY <1>1, <1>3 DEF StageFits, Held, Inside, Own, Of, Made, InTransaction
  <1>5. StageFits(t)'
    BY <1>1, <1>3, <1>4 DEF StageFits, Inside, Before
  <1>6. WritesFit(t)'
    BY <1>1, <1>3 DEF WritesFit, Whole, Nowhere, Of, Made
  <1> QED
    BY <1>1, <1>2, <1>5, <1>6, StatementKeeps DEF CallFits, Attached

\* COMMIT and ROLLBACK, answered or failed.
LEMMA EndKeeps ==
  ASSUME IInv, NEW t \in Tx, Rollback(t) \/ RollbackFails(t) \/ Commit(t) \/ CommitFails(t)
  PROVE  Promises'
  <1> DEFINE c == pinned[t]
  <1>1. /\ OpenType /\ pc[t] \in {"rollback", "commit"} /\ pc[t] \in Attached /\ c \in Conn
        /\ CallFits(t)
    BY PinnedIsConn
       DEF IInv, TypeOK, OpenType, Rollback, RollbackFails, Commit, CommitFails, Attached, Promises
  <1>2. Held(t) /\ WritesFit(t) /\ outcome[t] = "none" /\ t \notin undone
    BY <1>1 DEF CallFits, StageFits, Inside
  <1>3. /\ UNCHANGED <<driver, pinned, free, made, failed>> /\ c' = c
        /\ Of(t)' = Of(t) /\ Made(t)' = Made(t)
    BY DEF Rollback, RollbackFails, Commit, CommitFails, Of, Made
  <1>4. /\ pc'[t] = "release" /\ undone' \in {undone, undone \union {t}}
        /\ \A u \in Tx \ {t} : pc'[u] = pc[u] /\ outcome'[u] = outcome[u]
        /\ loose' \in {loose, loose \union {t}}
    BY DEF Rollback, RollbackFails, Commit, CommitFails, IInv, TypeOK, Goto, Settle, MarkLoose
  <1>5. /\ Others(c)
        /\ \/ /\ open'[c].status = "idle" /\ open'[c].work = {}
              /\ landed' = landed \/ (~Rollback(t) /\ landed' = landed \union open[c].work)
           \/ ~Rollback(t) /\ ~Commit(t) /\ open' = open /\ landed' = landed
    <2>1. CASE Ended(c) /\ (landed' = landed \/ (~Rollback(t) /\ landed' = landed \union open[c].work))
      BY <1>1, <2>1, EndedOpen
    <2>2. CASE StaysOpen(c) /\ ~Rollback(t) /\ ~Commit(t)
      BY <2>2 DEF StaysOpen, Others
    <2>3. CASE Rollback(t)
      BY <2>1, <2>3 DEF Rollback, Discards
    <2>4. CASE Commit(t)
      <3>1. ~Rollback(t)
        BY <2>4 DEF Rollback, Commit
      <3> QED
        BY <2>1, <2>4, <3>1 DEF Commit, Lands
    <2>5. CASE (RollbackFails(t) \/ CommitFails(t)) /\ ~Rollback(t) /\ ~Commit(t)
      BY <2>1, <2>2, <2>5 DEF RollbackFails, CommitFails, Discards, Lands
    <2> QED
      BY <2>3, <2>4, <2>5
  <1>6. Moves(c, Of(t))
    BY <1>5 DEF Moves
  <1>7. tainted \subseteq tainted' /\ (InTransaction(c)' => c \in tainted')
    <2>1. CASE Rollback(t) \/ Commit(t)
      BY <1>5, <2>1 DEF Rollback, Commit, InTransaction
    <2>2. CASE RollbackFails(t) \/ CommitFails(t)
      BY <2>2 DEF RollbackFails, CommitFails, Taint, InTransaction
    <2> QED
      BY <2>1, <2>2
  <1>8. StageFits(t)'
    BY <1>3, <1>4, <1>7 DEF StageFits, Inside, Before, InTransaction
  <1>9. /\ t \notin loose => /\ Of(t) \intersect landed = {}
                             /\ \A d \in Conn \ {c} : Of(t) \intersect open'[d].work = {}
                             /\ Whole(t, open[c].work)
        /\ driver = "postgres" => t \notin loose
        /\ open[c].status # "open" => open[c].work = {}
    BY <1>1, <1>2, <1>5 DEF Held, WritesFit, Others, OpenType
  <1> HIDE DEF c
  <1>10. t \notin loose => Whole(t, landed)' /\ \A d \in Conn : Whole(t, open[d].work)'
    <2> SUFFICES ASSUME t \notin loose
                 PROVE  Whole(t, landed)' /\ \A d \in Conn : Whole(t, open[d].work)'
      OBVIOUS
    <2>1. Whole(t, landed)'
      BY <1>3, <1>5, <1>9 DEF Whole
    <2>2. Whole(t, open[c].work)'
      BY <1>3, <1>5, <1>9 DEF Whole
    <2>3. ASSUME NEW d \in Conn PROVE Whole(t, open[d].work)'
      BY <1>3, <1>9, <2>2 DEF Whole
    <2> QED
      BY <2>1, <2>3
  <1>11. t \in undone' \ loose' => Nowhere(t)'
    <2>1. CASE Rollback(t)
      <3>1. loose' = loose
        BY <2>1 DEF Rollback
      <3>2. landed' = landed /\ open'[c].work = {}
        BY <1>5, <2>1
      <3> QED
        BY <1>3, <1>9, <3>1, <3>2 DEF Nowhere
    <2>2. CASE ~Rollback(t)
      BY <1>2, <2>2 DEF RollbackFails, Commit, CommitFails
    <2> QED
      BY <2>1, <2>2
  <1>12. t \notin loose' /\ outcome'[t] = "resolved" => Made(t) \subseteq landed'
    <2>1. CASE Commit(t)
      <3>1. t \notin loose' => open[c].status = "open"
        BY <2>1 DEF Commit, MarkLoose, c
      <3>2. landed' = landed \union open[c].work
        BY <2>1 DEF Commit, Lands, c
      <3> QED
        BY <1>2, <3>1, <3>2 DEF Held, c
    <2>2. CASE ~Commit(t)
      BY <2>2 DEF Rollback, RollbackFails, CommitFails, IInv, TypeOK, Settle
    <2> QED
      BY <2>1, <2>2
  <1>13. t \in loose' => driver = "sqlite" \/ failed[t] # {}
    <2>1. CASE Commit(t)
      BY <1>2, <2>1 DEF Commit, MarkLoose, Held, WritesFit
    <2>2. CASE ~Commit(t)
      BY <1>2, <2>2 DEF Rollback, RollbackFails, CommitFails, WritesFit
    <2> QED
      BY <2>1, <2>2
  <1>14. WritesFit(t)'
    BY <1>3, <1>4, <1>9, <1>10, <1>11, <1>12, <1>13 DEF WritesFit
  <1> QED
    BY <1>1, <1>3, <1>4, <1>5, <1>6, <1>7, <1>8, <1>14, StatementKeeps DEF c, CallFits

LEMMA InvNext == IInv /\ [Next]_vars => IInv'
  <1> SUFFICES ASSUME IInv, [Next]_vars PROVE IInv'
    OBVIOUS
  <1>1. ASSUME NEW t \in Tx, Call(t) \/ CallNested(t) \/ Advance(t) PROVE IInv'
    <2>1. CASE Call(t) \/ CallNested(t) \/ Checkout(t) \/ ConnectFails(t) \/ Release(t)
      BY <2>1, TypePool, PoolKeeps DEF IInv, Promises
    <2>2. CASE Begin(t) \/ BeginFails(t)
      BY <2>2, TypeStatement, BeginKeeps DEF IInv, Statement
    <2>3. ASSUME NEW n \in 1..Writes[t], Write(t, n) \/ WriteFails(t, n) PROVE IInv'
      BY <2>3, TypeWrite, WriteKeeps DEF IInv
    <2>4. CASE Resolves(t) \/ Throws(t)
      BY <2>4, TypeStatement, CallbackKeeps DEF IInv, Statement
    <2>5. CASE Rollback(t) \/ RollbackFails(t) \/ Commit(t) \/ CommitFails(t)
      BY <2>5, TypeStatement, EndKeeps DEF IInv, Statement
    <2> QED
      BY <1>1, <2>1, <2>2, <2>3, <2>4, <2>5 DEF Advance
  <1>2. ASSUME NEW p \in Plain, PoolQuery(p) PROVE IInv'
    BY <1>2, TypePoolQuery, PoolQueryKeeps DEF IInv
  <1>3. CASE UNCHANGED vars
    <2>1. TypeOK'
      BY <1>3 DEF vars, IInv, TypeOK, Conns
    <2>2. PinnedAlone' /\ ReturnsClean'
      BY <1>3 DEF vars, IInv, Promises, PinnedAlone, ReturnsClean, Conns, InTransaction
    <2>3. ASSUME NEW t \in Tx PROVE CallFits(t)'
      <3>1. CallFits(t)
        BY DEF IInv, Promises
      <3> QED
        BY <1>3, <3>1
           DEF vars, CallFits, StageFits, WritesFit, Held, Nowhere, Whole, Own, Of, Made, InTransaction
    <2> QED
      BY <2>1, <2>2, <2>3 DEF IInv, Promises
  <1> QED
    BY <1>1, <1>2, <1>3 DEF Next

LEMMA Invariance == Spec => []IInv
  <1> QED
    BY InvInit, InvNext, PTL DEF Spec

-----------------------------------------------------------------------------
\* "Resolving commits", "rejecting rolls back": whatever fails and whoever shares the
\* connection, resolved work is durable, confirmed-undone work never becomes so, and
\* no call's work lands by half, unless its callback went on after a failure by which
\* the database ended its transaction.
THEOREM ToldAsItIs == Spec => []WorkLandsAsTold
  <1>1. IInv => WorkLandsAsTold
    <2> SUFFICES ASSUME IInv PROVE WorkLandsAsTold
      OBVIOUS
    <2>1. TypeOK /\ \A t \in Tx : WritesFit(t)
      BY DEF IInv, Promises, CallFits
    <2>2. ResolvedLands
      BY <2>1 DEF WritesFit, ResolvedLands
    <2>5. LooseIsTold
      BY <2>1 DEF TypeOK, WritesFit, LooseIsTold
    <2>3. UndoneNeverLands
      BY <2>1 DEF TypeOK, WritesFit, UndoneNeverLands, Nowhere
    <2>4. LandsWhole
      BY <2>1 DEF WritesFit, LandsWhole, Whole
    <2> QED
      BY <2>1, <2>2, <2>3, <2>4, <2>5 DEF WorkLandsAsTold
  <1> QED
    BY <1>1, Invariance, PTL

\* The finally block hands back a connection inside a transaction only after a
\* statement failed on it.
THEOREM ConnectionsComeBackClean == Spec => []ReturnsClean
  <1>1. IInv => ReturnsClean
    BY DEF IInv, Promises
  <1> QED
    BY <1>1, Invariance, PTL

\* A COMMIT on a connection no failed BEGIN, COMMIT or ROLLBACK has left open lands its
\* own call's work, and in sqlite whatever went through the pool meanwhile, and nothing
\* else.
THEOREM CommitsAreOwn == Spec => CommitsOnlyOwn
  <1>1. ASSUME IInv, NEW t \in Tx, Commit(t) /\ pinned[t] \notin tainted
        PROVE  landed' \ landed \subseteq Of(t) \union (IF driver = "sqlite" THEN Plain ELSE {})
    <2>1. Held(t)
      BY <1>1 DEF IInv, Promises, CallFits, StageFits, Inside, Commit
    <2>2. open[pinned[t]].work \subseteq Own(t)
      BY <1>1, <2>1 DEF Held
    <2> QED
      BY <1>1, <2>2 DEF Commit, Lands, Own
  <1>2. IInv /\ [Next]_vars =>
          [\A t \in Tx :
             Commit(t) /\ pinned[t] \notin tainted =>
               landed' \ landed \subseteq Of(t) \union (IF driver = "sqlite" THEN Plain ELSE {})]_vars
    BY <1>1
  <1> QED
    BY <1>2, Invariance, PTL DEF Spec, CommitsOnlyOwn
=============================================================================
