----------------------------- MODULE JsonlSink -----------------------------
(***************************************************************************)
(* JsonlSink: lines are gathered in memory, and a flush writes them to the *)
(* live file, which is rotated aside when it is full.  A flush makes up to *)
(* six file operations, each awaited, each of which may fail; the lines it *)
(* has taken are lost with it.  The recorder calls the sink from one chain *)
(* only, so there is one flush at a time.                                  *)
(*                                                                         *)
(* Sizes are counted in lines.  The rotated files are kept in the order of *)
(* their names' timestamps, which is taken to be the order of rotation; a  *)
(* file that was removed leaves its place empty.                           *)
(***************************************************************************)
EXTENDS Integers, Sequences, FiniteSets, Functions

CONSTANTS
  MaxBytes,     \* maxBytes: when the live file is rotated
  BufferBytes,  \* BUFFER_BYTES: how much write() gathers before it flushes
  MaxFiles,     \* maxFiles: how many rotated files are kept
  Faulty,       \* the file operations that may fail
  None          \* absent: flush, record

VARIABLES
  pending,     \* #pending
  opened,      \* #handle is set
  sinkClosed,  \* #closed
  size,        \* #writtenBytes
  io,          \* the flush under way, or how it ended
  live,        \* the lines of the live file
  rotated,     \* the rotated files, oldest first
  pruned,      \* history: the lines of the files that were pruned
  lost         \* history: the lines a failed flush took with it

memory == <<pending, opened, sinkClosed, size>>
files == <<live, rotated, pruned, lost>>

Operation == {"open", "close", "rename", "reopen", "prune", "write"}

ASSUME SinkAssumption ==
  /\ MaxBytes \in Nat \ {0} /\ BufferBytes \in Nat \ {0} /\ MaxFiles \in Nat
  /\ Faulty \subseteq Operation

\* A flush, at its next operation or over, and the lines it has taken.
FlushOf(Record) == [at : Operation \union {"done", "failed"}, chunk : Seq(Record)]

SinkTypeOK(Record) ==
  /\ pending \in Seq(Record) /\ live \in Seq(Record) /\ rotated \in Seq(Seq(Record))
  /\ pruned \subseteq Record /\ lost \subseteq Record
  /\ opened \in BOOLEAN /\ sinkClosed \in BOOLEAN /\ size \in Nat
  /\ io \in {None} \union FlushOf(Record)
  /\ io # None => (io.at \in {"done", "failed"} <=> io.chunk = <<>>)
  /\ Len(pending) <= BufferBytes
  /\ sinkClosed => ~opened /\ pending = <<>>

SinkInit ==
  /\ pending = <<>> /\ opened = FALSE /\ sinkClosed = FALSE /\ size = 0
  /\ io = None
  /\ live = <<>> /\ rotated = <<>> /\ pruned = {} /\ lost = {}

-----------------------------------------------------------------------------
Done == [at |-> "done", chunk |-> <<>>]
Failed == [at |-> "failed", chunk |-> <<>>]

Settled == io # None /\ io.at \in {"done", "failed"}

Doing(operation) == io # None /\ io.at = operation

Goto(operation) == io' = [io EXCEPT !.at = operation]

CanFail(operation) == operation \in Faulty

\* With the live file open: rotate it first, unless the chunk fits or has the file
\* to itself.
Ready(written, chunk) ==
  IF written > 0 /\ written + Len(chunk) > MaxBytes THEN "close" ELSE "write"

\* Mutant of Begin: the pending lines are kept until the flush has succeeded.
BeginKeeping(lines) ==
  /\ pending' = lines
  /\ io' = IF lines = <<>> THEN Done
           ELSE [at |-> IF opened THEN Ready(size, lines) ELSE "open", chunk |-> lines]

\* flush() takes the pending lines before its first await.
Begin(lines) ==
  /\ pending' = <<>>
  /\ io' = IF lines = <<>> THEN Done
           ELSE [at |-> IF opened THEN Ready(size, lines) ELSE "open", chunk |-> lines]

BeginFlush == Begin(pending) /\ UNCHANGED <<opened, sinkClosed, size, files>>

\* write(): a closed sink refuses the record, a full buffer is flushed.
Put(record) ==
  /\ IF sinkClosed THEN io' = Failed /\ UNCHANGED pending
     ELSE IF Len(pending) + 1 >= BufferBytes THEN Begin(Append(pending, record))
     ELSE io' = Done /\ pending' = Append(pending, record)
  /\ lost' = IF sinkClosed THEN lost \union {record} ELSE lost
  /\ UNCHANGED <<opened, sinkClosed, size, live, rotated, pruned>>

\* close(), once its flush has settled, whichever way.
Shut == sinkClosed' = TRUE /\ opened' = FALSE /\ UNCHANGED <<pending, size, files>>

-----------------------------------------------------------------------------
(* The file operations of a flush.                                         *)

\* #ensureOpen resumes the byte count from the file.
Open ==
  /\ Doing("open") \/ Doing("reopen")
  /\ opened' = TRUE /\ size' = Len(live)
  /\ Goto(IF Doing("open") THEN Ready(Len(live), io.chunk) ELSE "prune")
  /\ UNCHANGED <<pending, sinkClosed, files>>

\* #rotate forgets the handle, then closes the file.
CloseLive ==
  /\ Doing("close")
  /\ opened' = FALSE
  /\ Goto("rename")
  /\ UNCHANGED <<pending, sinkClosed, size, files>>

\* Mutant of Rename: the name is not checked, and the last rotated file is replaced.
RenameOver ==
  /\ Doing("rename")
  /\ rotated' = <<live>> /\ live' = <<>>
  /\ Goto("reopen")
  /\ UNCHANGED <<memory, pruned, lost>>

Rename ==
  /\ Doing("rename")
  /\ rotated' = Append(rotated, live) /\ live' = <<>>
  /\ Goto("reopen")
  /\ UNCHANGED <<memory, pruned, lost>>

\* The rotated files from the i-th on.
FilesFrom(i) == {j \in DOMAIN rotated : j >= i /\ rotated[j] # <<>>}

\* The oldest files beyond maxFiles are removed, as far as that succeeds.
Prune ==
  /\ Doing("prune")
  /\ LET excess == {i \in FilesFrom(1) : Cardinality(FilesFrom(i)) > MaxFiles}
     IN  \E gone \in SUBSET excess :
           /\ gone = excess \/ CanFail("prune")
           /\ rotated' = [i \in DOMAIN rotated |-> IF i \in gone THEN <<>> ELSE rotated[i]]
           /\ pruned' = pruned \union UNION {Range(rotated[i]) : i \in gone}
  /\ Goto("write")
  /\ UNCHANGED <<memory, live, lost>>

Write ==
  /\ Doing("write")
  /\ live' = live \o io.chunk /\ size' = size + Len(io.chunk)
  /\ io' = Done
  /\ UNCHANGED <<pending, opened, sinkClosed, rotated, pruned, lost>>

\* A write that fails may have written part of the chunk, and the count does not
\* know it.  What had not landed is gone: the chunk is held by nobody else.
OperationFails ==
  /\ \E operation \in Faulty \ {"prune"} : Doing(operation)
  /\ \E n \in 0..(IF Doing("write") THEN Len(io.chunk) - 1 ELSE 0) :
       /\ live' = live \o SubSeq(io.chunk, 1, n)
       /\ lost' = lost \union Range(SubSeq(io.chunk, n + 1, Len(io.chunk)))
  /\ opened' = (opened /\ ~Doing("close"))
  /\ io' = Failed
  /\ UNCHANGED <<pending, sinkClosed, size, rotated, pruned>>

Flushing == Open \/ CloseLive \/ Rename \/ Prune \/ Write \/ OperationFails
=============================================================================
