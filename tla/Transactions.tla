---------------------------- MODULE Transactions ----------------------------
(***************************************************************************)
(* DatabaseClient.withTransaction over the pools of adapters.ts: calls     *)
(* queue for a connection of the write pool, pin it, and run BEGIN, the    *)
(* callback and COMMIT or ROLLBACK on it, while pool-level queries run      *)
(* beside them.  Any of these statements may fail, those of the callback   *)
(* included, which may catch the failure and go on; and a statement that   *)
(* failed may have taken effect all the same.                              *)
(*                                                                         *)
(* What the databases make of the statements is external.  The writes in   *)
(* an open transaction land together at its COMMIT.  A BEGIN inside one is *)
(* ignored by postgres, commits what is open in mysql, and fails in        *)
(* sqlite.  A failed statement may end the transaction: postgres aborts    *)
(* it, refuses what follows and answers the COMMIT with a rollback; mysql  *)
(* (a deadlock) and sqlite (a full disk) roll it back at once, so that     *)
(* what follows commits by itself, and a COMMIT finds nothing to commit,   *)
(* which mysql takes and sqlite refuses.                                   *)
(***************************************************************************)
EXTENDS Integers, Sequences, SequencesExt

CONSTANTS
  Tx,       \* the withTransaction calls
  Writes,   \* how many writes the callback of each call makes at most
  Parent,   \* the call whose callback makes a nested call, or None
  Plain,    \* the writes made through the pool itself
  Conn,     \* the connections of a postgres or mysql pool
  Drivers,  \* the drivers in use, among "postgres", "mysql" and "sqlite"
  None

ASSUME TransactionsAssumption ==
  /\ Drivers \subseteq {"postgres", "mysql", "sqlite"}
  /\ None \notin Tx \union Conn
  /\ Writes \in [Tx -> Nat]
  /\ (Tx \X Nat) \intersect Plain = {}
  /\ Parent \in [Tx -> Tx \union {None}]
  /\ Conn # {}

VARIABLES
  driver,   \* the driver of the write pool
  pc,       \* the stage each call is in
  pinned,   \* the connection each call has checked out
  queue,    \* the calls waiting for a connection, in arrival order
  free,     \* the connections in the pool
  made,     \* the writes of each callback that were answered
  failed,   \* the writes of each callback that failed
  open,     \* per connection: the status of its transaction, and the writes in it
  landed,   \* the writes that are durable
  outcome,  \* how each call has settled
  done,     \* the pool-level writes that have been made
  undone,   \* history: the calls whose ROLLBACK was confirmed
  loose,    \* history: the calls one of whose statements the database took when it
            \* had ended their transaction
  tainted   \* history: the connections that a failed BEGIN, COMMIT or ROLLBACK left open

vars == <<driver, pc, pinned, queue, free, made, failed, open, landed, outcome, done, undone,
          loose, tainted>>

Stage == {"new", "waiting", "begin", "work", "rollback", "commit", "release", "done"}

Outcome == {"none", "nested", "unconnected", "unbegun", "resolved", "rejected", "commit-failed"}

Status == {"idle", "open", "aborted"}

Idle == [status |-> "idle", work |-> {}]

\* The writes of a callback; those it was told have been made; all there are.
Of(t) == {t} \X (1..Writes[t])
Made(t) == {t} \X made[t]
Work == (UNION {Of(t) : t \in Tx}) \union Plain

\* better-sqlite3 is one connection.
Conns == IF driver = "sqlite" THEN {CHOOSE c \in Conn : TRUE} ELSE Conn

TypeOK ==
  /\ driver \in Drivers
  /\ pc \in [Tx -> Stage]
  /\ pinned \in [Tx -> Conn \union {None}]
  /\ queue \in Seq(Tx) /\ IsInjective(queue)
  /\ \A t \in Tx : pc[t] = "waiting" <=> t \in ToSet(queue)
  /\ \A t \in Tx : pinned[t] # None <=> pc[t] \notin {"new", "waiting", "done"}
  /\ free \subseteq Conns /\ \A t \in Tx : pinned[t] \notin free
  /\ made \in [Tx -> SUBSET Nat] /\ failed \in [Tx -> SUBSET Nat]
  /\ \A t \in Tx : made[t] \union failed[t] \subseteq 1..Writes[t]
  /\ open \in [Conn -> [status : Status, work : SUBSET Work]]
  /\ \A c \in Conn : open[c].work # {} => open[c].status = "open"
  /\ landed \subseteq Work /\ done \subseteq Plain
  /\ undone \subseteq Tx /\ loose \subseteq Tx
  /\ outcome \in [Tx -> Outcome]
  /\ tainted \subseteq Conn

Init ==
  /\ driver \in Drivers
  /\ pc = [t \in Tx |-> "new"]
  /\ pinned = [t \in Tx |-> None]
  /\ queue = <<>>
  /\ free = Conns
  /\ made = [t \in Tx |-> {}] /\ failed = [t \in Tx |-> {}]
  /\ open = [c \in Conn |-> Idle]
  /\ landed = {} /\ done = {} /\ undone = {} /\ loose = {} /\ tainted = {}
  /\ outcome = [t \in Tx |-> "none"]

-----------------------------------------------------------------------------
(* What a statement does on a connection (external).                       *)

InTransaction(c) == open[c].status # "idle"

\* A write joins the open transaction, or commits by itself; an aborted one takes none.
Execute(c, w) ==
  \/ /\ open[c].status = "open"
     /\ open' = [open EXCEPT ![c].work = @ \union {w}] /\ UNCHANGED landed
  \/ /\ open[c].status = "idle"
     /\ landed' = landed \union {w} /\ UNCHANGED open

Opens(c) ==
  \/ /\ driver = "postgres" /\ open[c].status # "aborted"
     /\ open' = [open EXCEPT ![c].status = "open"] /\ UNCHANGED landed
  \/ /\ driver = "mysql"
     /\ open' = [open EXCEPT ![c] = [status |-> "open", work |-> {}]]
     /\ landed' = landed \union open[c].work
  \/ /\ driver = "sqlite" /\ ~InTransaction(c)
     /\ open' = [open EXCEPT ![c].status = "open"] /\ UNCHANGED landed

\* Only sqlite refuses to end a transaction there is not.
MayEnd(c) == driver = "sqlite" => InTransaction(c)

Ended(c) == open' = [open EXCEPT ![c] = Idle]

Discards(c) == Ended(c) /\ UNCHANGED landed

\* An aborted transaction has no work to land.
Lands(c) == Ended(c) /\ landed' = landed \union open[c].work

Aborts(c) ==
  open' = [open EXCEPT ![c] = [status |-> "aborted", work |-> {}]] /\ UNCHANGED landed

\* The statement never got to the database, or the database kept the transaction
\* open: sqlite does when a COMMIT meets a violated deferred foreign key.
StaysOpen(c) == UNCHANGED <<open, landed>>

\* A write that fails: nothing has changed, or only its answer is lost, or the
\* database has ended the transaction it was in.
ExecuteFails(c, w) ==
  \/ StaysOpen(c)
  \/ driver # "sqlite" /\ Execute(c, w)
  \/ /\ open[c].status = "open"
     /\ IF driver = "postgres" THEN Aborts(c) ELSE Discards(c)

Taint(c) == tainted' = IF open'[c].status # "idle" THEN tainted \union {c} ELSE tainted

\* A call whose statement found its transaction no longer open.
MarkLoose(t) == loose' = IF open[pinned[t]].status = "open" THEN loose ELSE loose \union {t}

Goto(t, stage) == pc' = [pc EXCEPT ![t] = stage]

Settle(t, how) == outcome' = [outcome EXCEPT ![t] = how]

-----------------------------------------------------------------------------
\* withTransaction is called outside any transaction of this client; connect()
\* claims its place in the queue at once.
Call(t) ==
  /\ pc[t] = "new" /\ Parent[t] = None
  /\ Goto(t, "waiting")
  /\ queue' = Append(queue, t)
  /\ UNCHANGED <<driver, pinned, free, made, failed, open, landed, outcome, done, undone, loose,
                  tainted>>

\* Mutant of CallNested: nobody looks for an enclosing transaction.
CallWaits(t) ==
  /\ pc[t] = "new" /\ Parent[t] # None
  /\ pc[Parent[t]] = "work"
  /\ Goto(t, "waiting")
  /\ queue' = Append(queue, t)
  /\ UNCHANGED <<driver, pinned, free, made, failed, open, landed, outcome, done, undone, loose,
                  tainted>>

\* withTransaction is called from the async context of a callback, which still
\* carries the client when that callback's transaction has long ended.
CallNested(t) ==
  /\ pc[t] = "new" /\ Parent[t] # None
  /\ pc[Parent[t]] \notin {"new", "waiting", "begin"}
  /\ Goto(t, "done")
  /\ Settle(t, "nested")
  /\ UNCHANGED <<driver, pinned, queue, free, made, failed, open, landed, done, undone, loose,
                  tainted>>

\* Mutant of Checkout: the connection stays in the pool.
CheckoutShared(t) ==
  /\ queue # <<>> /\ Head(queue) = t
  /\ \E c \in free : pinned' = [pinned EXCEPT ![t] = c]
  /\ queue' = Tail(queue)
  /\ Goto(t, "begin")
  /\ UNCHANGED <<driver, free, made, failed, open, landed, outcome, done, undone, loose, tainted>>

Checkout(t) ==
  /\ queue # <<>> /\ Head(queue) = t
  /\ \E c \in free : free' = free \ {c} /\ pinned' = [pinned EXCEPT ![t] = c]
  /\ queue' = Tail(queue)
  /\ Goto(t, "begin")
  /\ UNCHANGED <<driver, made, failed, open, landed, outcome, done, undone, loose, tainted>>

\* The pool gives up on a call; the sqlite queue never does.
ConnectFails(t) ==
  /\ pc[t] = "waiting" /\ driver # "sqlite"
  /\ \E i \in DOMAIN queue : queue[i] = t /\ queue' = RemoveAt(queue, i)
  /\ Goto(t, "done") /\ Settle(t, "unconnected")
  /\ UNCHANGED <<driver, pinned, free, made, failed, open, landed, done, undone, loose, tainted>>

Begin(t) ==
  /\ pc[t] = "begin"
  /\ Opens(pinned[t])
  /\ Goto(t, "work")
  /\ UNCHANGED <<driver, pinned, queue, free, made, failed, outcome, done, undone, loose,
                  tainted>>

\* No ROLLBACK follows a failed BEGIN.
BeginFails(t) ==
  /\ pc[t] = "begin"
  /\ Opens(pinned[t]) \/ StaysOpen(pinned[t])
  /\ Taint(pinned[t])
  /\ Goto(t, "release") /\ Settle(t, "unbegun")
  /\ UNCHANGED <<driver, pinned, queue, free, made, failed, done, undone, loose>>

\* A callback makes its writes one after the other.
MayWrite(t, n) == pc[t] = "work" /\ made[t] \union failed[t] = 1..(n - 1)

\* Mutant of Write: through the pool instead of the pinned connection.
WriteThroughPool(t, n) ==
  /\ MayWrite(t, n)
  /\ \E c \in free \union {pinned[t]} : Execute(c, <<t, n>>)
  /\ made' = [made EXCEPT ![t] = @ \union {n}]
  /\ UNCHANGED <<driver, pc, pinned, queue, free, failed, outcome, done, undone, loose, tainted>>

Write(t, n) ==
  /\ MayWrite(t, n)
  /\ Execute(pinned[t], <<t, n>>)
  /\ made' = [made EXCEPT ![t] = @ \union {n}]
  /\ MarkLoose(t)
  /\ UNCHANGED <<driver, pc, pinned, queue, free, failed, outcome, done, undone, tainted>>

\* The callback is told, and rethrows (Throws) or goes on.
WriteFails(t, n) ==
  /\ MayWrite(t, n)
  /\ ExecuteFails(pinned[t], <<t, n>>)
  /\ loose' = IF landed' = landed THEN loose ELSE loose \union {t}
  /\ failed' = [failed EXCEPT ![t] = @ \union {n}]
  /\ UNCHANGED <<driver, pc, pinned, queue, free, made, outcome, done, undone, tainted>>

\* A callback settles after the nested calls it awaits.
Awaits(t) == \E u \in Tx : Parent[u] = t /\ pc[u] \notin {"new", "done"}

Resolves(t) ==
  /\ pc[t] = "work" /\ ~Awaits(t)
  /\ Goto(t, "commit")
  /\ UNCHANGED <<driver, pinned, queue, free, made, failed, open, landed, outcome, done, undone,
                  loose, tainted>>

\* Mutant of Throws: no ROLLBACK.
ThrowsOnly(t) ==
  /\ pc[t] = "work" /\ ~Awaits(t)
  /\ Goto(t, "release") /\ Settle(t, "rejected")
  /\ UNCHANGED <<driver, pinned, queue, free, made, failed, open, landed, done, undone, loose,
                  tainted>>

Throws(t) ==
  /\ pc[t] = "work" /\ ~Awaits(t)
  /\ Goto(t, "rollback")
  /\ UNCHANGED <<driver, pinned, queue, free, made, failed, open, landed, outcome, done, undone,
                  loose, tainted>>

Rollback(t) ==
  /\ pc[t] = "rollback" /\ MayEnd(pinned[t])
  /\ Discards(pinned[t])
  /\ undone' = undone \union {t}
  /\ Goto(t, "release") /\ Settle(t, "rejected")
  /\ UNCHANGED <<driver, pinned, queue, free, made, failed, done, loose, tainted>>

\* The failure is logged and swallowed.
RollbackFails(t) ==
  /\ pc[t] = "rollback"
  /\ Discards(pinned[t]) \/ StaysOpen(pinned[t])
  /\ Taint(pinned[t])
  /\ Goto(t, "release") /\ Settle(t, "rejected")
  /\ UNCHANGED <<driver, pinned, queue, free, made, failed, done, undone, loose>>

\* A COMMIT that is answered resolves the call, whatever it has found to commit.
Commit(t) ==
  /\ pc[t] = "commit" /\ MayEnd(pinned[t])
  /\ Lands(pinned[t])
  /\ MarkLoose(t)
  /\ Goto(t, "release") /\ Settle(t, "resolved")
  /\ UNCHANGED <<driver, pinned, queue, free, made, failed, done, undone, tainted>>

\* Mutant of CommitFails: swallowed, like a failed ROLLBACK.
CommitFailsQuietly(t) ==
  /\ pc[t] = "commit"
  /\ Lands(pinned[t]) \/ Discards(pinned[t]) \/ StaysOpen(pinned[t])
  /\ Taint(pinned[t])
  /\ Goto(t, "release") /\ Settle(t, "resolved")
  /\ UNCHANGED <<driver, pinned, queue, free, made, failed, done, undone, loose>>

\* TransactionCommitError; no ROLLBACK follows.
CommitFails(t) ==
  /\ pc[t] = "commit"
  /\ Lands(pinned[t]) \/ Discards(pinned[t]) \/ StaysOpen(pinned[t])
  /\ Taint(pinned[t])
  /\ Goto(t, "release") /\ Settle(t, "commit-failed")
  /\ UNCHANGED <<driver, pinned, queue, free, made, failed, done, undone, loose>>

\* The finally block hands the connection back, whatever state it is in.
Release(t) ==
  /\ pc[t] = "release"
  /\ free' = free \union {pinned[t]}
  /\ pinned' = [pinned EXCEPT ![t] = None]
  /\ Goto(t, "done")
  /\ UNCHANGED <<driver, queue, made, failed, open, landed, outcome, done, undone, loose,
                  tainted>>

\* A write through the pool takes a free connection, but sqlite has only the one
\* and runs it there, in the middle of whatever transaction holds it.
PoolQuery(p) ==
  /\ p \notin done
  /\ \E c \in IF driver = "sqlite" THEN Conns ELSE free : Execute(c, p) \/ ExecuteFails(c, p)
  /\ driver # "sqlite" => queue = <<>>
  /\ done' = done \union {p}
  /\ UNCHANGED <<driver, pc, pinned, queue, free, made, failed, outcome, undone, loose, tainted>>

\* The callback settles and the driver answers.
Advance(t) ==
  \/ Checkout(t) \/ ConnectFails(t) \/ Begin(t) \/ BeginFails(t)
  \/ \E n \in 1..Writes[t] : Write(t, n) \/ WriteFails(t, n)
  \/ Resolves(t) \/ Throws(t)
  \/ Rollback(t) \/ RollbackFails(t) \/ Commit(t) \/ CommitFails(t) \/ Release(t)

Next ==
  \/ \E t \in Tx : Call(t) \/ CallNested(t) \/ Advance(t)
  \/ \E p \in Plain : PoolQuery(p)

Spec == Init /\ [][Next]_vars

FairSpec == Spec /\ \A t \in Tx : WF_vars(Advance(t))

-----------------------------------------------------------------------------
\* "Resolving commits" (database.ts:104): a call resolves only with all its work
\* durable, unless it went on after the database had ended its transaction.
ResolvedLands == \A t \in Tx \ loose : outcome[t] = "resolved" => Made(t) \subseteq landed

\* Once the ROLLBACK of a call is confirmed, nothing of its work ever lands, by
\* whoever's COMMIT and through whichever connection, with the same exception.
UndoneNeverLands == \A t \in undone \ loose : Of(t) \intersect landed = {}

\* The work of a call lands whole or not at all, however the call ends and whoever
\* ends its transaction; in postgres also when the callback went on.
LandsWhole ==
  \A t \in Tx :
    t \notin loose \/ driver = "postgres" =>
      Made(t) \subseteq landed \/ Of(t) \intersect landed = {}

\* A call's transaction ends under it only by a failure its callback was told of;
\* in sqlite a query through the pool may do it too.
LooseIsTold == \A t \in loose : driver = "sqlite" \/ failed[t] # {}

\* What a caller is told of its work is true, and its work lands whole or not at all,
\* whatever it shared its connection with and whatever statements failed, as long as
\* its callback does not go on behind a failure by which the database ended the
\* transaction.  The variables keep their types.
WorkLandsAsTold == TypeOK /\ ResolvedLands /\ UndoneNeverLands /\ LandsWhole /\ LooseIsTold

\* A connection goes back to the pool inside a transaction only if a statement
\* that was to open or end that transaction has failed.
ReturnsClean == \A c \in free : InTransaction(c) => c \in tainted

\* A COMMIT lands the work of its own call and of no other, on connections that
\* no failed BEGIN, COMMIT or ROLLBACK has left open; in sqlite also pool-level
\* writes made meanwhile.
CommitsOnlyOwn ==
  [][\A t \in Tx :
       Commit(t) /\ pinned[t] \notin tainted =>
         landed' \ landed \subseteq Of(t) \union (IF driver = "sqlite" THEN Plain ELSE {})]_vars

\* No call waits for ever, for a connection or for itself: nested calls are
\* refused before they queue, and every connection comes back.
EveryCallEnds == \A t \in Tx : pc[t] # "new" ~> pc[t] = "done"

\* "the callback's work provably did not land" (database.ts:155): the work of a
\* call whose callback threw never lands.
RejectedNeverLands == \A t \in Tx : outcome[t] = "rejected" => Of(t) \intersect landed = {}
=============================================================================
