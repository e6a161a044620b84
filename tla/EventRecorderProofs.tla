------------------------ MODULE EventRecorderProofs ------------------------
(***************************************************************************)
(* The recorder, its aggregator and its sink for any events, keys, sizes   *)
(* and windows: a closed sink has everything, a window that was rolled up  *)
(* stays so, and every event and every record is accounted for, whatever   *)
(* is flushed, recorded, fails or crashes meanwhile.                       *)
(***************************************************************************)
EXTENDS EventRecorder, FiniteSetTheorems, SequenceTheorems, TLAPS

-----------------------------------------------------------------------------
(* The inductive invariant.                                                *)

Types ==
  /\ chain \in Seq(Step)
  /\ cells \in [Cell -> Nat] /\ rolled \in [Cell -> Nat]
  /\ now \in Nat
  /\ stopped \in BOOLEAN /\ sinkClosed \in BOOLEAN

\* A step is under way at the head of the chain only.
HeadRuns == \A i \in 2..Len(chain) : chain[i] \notin {"emitting", "sync", "closing"}

\* No step of a close is on the chain.
NotClosing == \A i \in 1..Len(chain) : chain[i] \notin {"emitAll", "shut", "closing"}

\* The one close on the chain shuts the sink at place n, right after the one
\* emission of all windows, and that right after a drain.
ClosesAt(n) ==
  /\ chain[n] \in {"shut", "closing"}
  /\ \A i \in 1..Len(chain) : chain[i] \in {"shut", "closing"} => i = n
  /\ \A i \in 1..Len(chain) : chain[i] = "emitAll" => i = n - 1
  /\ n > 1 => chain[n - 1] \in {"emitAll", "emitting", "sync"}
  /\ n > 2 => chain[n - 2] = "drain"

ClosesOnce ==
  /\ ~stopped => ~sinkClosed /\ NotClosing
  /\ sinkClosed => NotClosing
  /\ stopped /\ ~sinkClosed => \E n \in 1..Len(chain) : ClosesAt(n)

\* The drain of the close is over, and the emission of all windows has begun.
Drained == stopped /\ \A n \in 3..Len(chain) : chain[n] # "shut"
AllGiven == Drained /\ ~Running("emitAll")

\* What is in hand belongs to the step at the head.
InHand ==
  /\ writing # None => Running("drain") \/ Running("emitting")
  /\ emissions # <<>> => Running("emitting")

\* After the last drain no event waits and none is observed any more.
NothingWaits == Drained => buffer = <<>> /\ (Running("drain") => writing = None)

\* Until then a window is rolled up once it is over, and at last all are.
RolledUpIsOver ==
  /\ ~AllGiven => \A cell \in Cell : rolled[cell] > 0 => cell[2] < now
  /\ AllGiven => \A cell \in Cell : cells[cell] = 0

SinkRests ==
  /\ Running("closing") \/ sinkClosed => pending = <<>>
  /\ sinkClosed => ~opened /\ emissions = <<>> /\ (io = None \/ io.at \in {"done", "failed"})

IInv ==
  /\ Types /\ HeadRuns /\ ClosesOnce /\ InHand /\ NothingWaits /\ RolledUpIsOver /\ SinkRests
  /\ WindowsStayClosed

-----------------------------------------------------------------------------
(* The chain.                                                              *)

LEMMA ChainTypes ==
  ASSUME Types
  PROVE  /\ Len(chain) \in Nat /\ DOMAIN chain = 1..Len(chain)
         /\ chain = <<>> <=> Len(chain) = 0
         /\ \A i \in 1..Len(chain) : chain[i] \in Step
         /\ \A step : Running(step) <=> Len(chain) > 0 /\ chain[1] = step
  <1>1. chain \in Seq(Step)
    BY DEF Types
  <1>2. /\ Len(chain) \in Nat /\ DOMAIN chain = 1..Len(chain)
        /\ chain = <<>> <=> Len(chain) = 0
        /\ \A i \in 1..Len(chain) : chain[i] \in Step
    BY <1>1, EmptySeq
  <1> QED
    BY <1>1, <1>2 DEF Running

\* The step at the head is over.
LEMMA FinishIs ==
  ASSUME Types, chain # <<>>, Finish
  PROVE  /\ chain' \in Seq(Step) /\ Len(chain') = Len(chain) - 1
         /\ \A i \in 1..Len(chain') : chain'[i] = chain[i + 1]
         /\ \A step : Running(step)' <=> Len(chain) > 1 /\ chain[2] = step
  <1>1. chain \in Seq(Step) /\ chain' = Tail(chain) /\ Len(chain) \in Nat \ {0}
    BY ChainTypes DEF Types, Finish
  <1>2. /\ chain' \in Seq(Step) /\ Len(chain') = Len(chain) - 1
        /\ \A i \in 1..Len(chain') : chain'[i] = chain[i + 1]
    BY <1>1
  <1>3. chain' # <<>> <=> Len(chain) > 1
    BY <1>1, <1>2, EmptySeq
  <1>4. Len(chain) > 1 => Head(chain') = chain[2]
    BY <1>1, <1>2
  <1> QED
    BY <1>1, <1>2, <1>3, <1>4 DEF Running

\* The step at the head becomes another.
LEMMA BecomeIs ==
  ASSUME Types, chain # <<>>, NEW step \in Step, Become(step)
  PROVE  /\ chain' \in Seq(Step) /\ Len(chain') = Len(chain)
         /\ chain'[1] = step /\ \A i \in 2..Len(chain) : chain'[i] = chain[i]
         /\ \A s : Running(s)' <=> s = step
  <1>1. /\ chain \in Seq(Step) /\ chain' = <<step>> \o Tail(chain) /\ Len(chain) \in Nat \ {0}
    BY ChainTypes DEF Types, Become
  <1> DEFINE rest == Tail(chain)
  <1>2. /\ rest \in Seq(Step) /\ Len(rest) = Len(chain) - 1
        /\ \A i \in 1..Len(rest) : rest[i] = chain[i + 1]
    BY <1>1
  <1>3. chain' = <<step>> \o rest
    BY <1>1
  <1> HIDE DEF rest
  <1>4. /\ chain' \in Seq(Step) /\ Len(chain') = Len(chain)
        /\ chain'[1] = step
        /\ \A i \in 2..Len(chain) : chain'[i] = rest[i - 1]
    BY <1>1, <1>2, <1>3
  <1>5. \A i \in 2..Len(chain) : rest[i - 1] = chain[i]
    BY <1>1, <1>2
  <1>6. chain' # <<>> /\ Head(chain') = step
    BY <1>1, <1>4, EmptySeq
  <1> QED
    BY <1>4, <1>5, <1>6 DEF Running

\* Steps join the chain at its end.
LEMMA EnqueueIs ==
  ASSUME Types, NEW steps \in Seq(Step), steps # <<>>, Enqueue(steps)
  PROVE  /\ chain' \in Seq(Step) /\ Len(chain') = Len(chain) + Len(steps)
         /\ \A i \in 1..Len(chain) : chain'[i] = chain[i]
         /\ \A i \in 1..Len(steps) : chain'[Len(chain) + i] = steps[i]
         /\ \A s : Running(s)' <=> IF chain = <<>> THEN s = steps[1] ELSE Running(s)
  <1>1. /\ chain \in Seq(Step) /\ chain' = chain \o steps /\ Len(chain) \in Nat
        /\ Len(steps) \in Nat \ {0}
    BY ChainTypes, EmptySeq DEF Types, Enqueue
  <1>2. /\ chain' \in Seq(Step) /\ Len(chain') = Len(chain) + Len(steps)
        /\ \A i \in 1..Len(chain) : chain'[i] = chain[i]
    BY <1>1
  <1>3. \A i \in 1..Len(steps) : chain'[Len(chain) + i] = steps[i]
    BY <1>1
  <1>4. chain' # <<>> /\ Head(chain') = chain'[1]
    BY <1>1, <1>2, EmptySeq
  <1>5. chain = <<>> => chain'[1] = steps[1]
    BY <1>1, <1>3, ChainTypes
  <1>6. chain # <<>> => chain'[1] = chain[1] /\ Head(chain) = chain[1]
    BY <1>1, <1>2, ChainTypes
  <1> QED
    BY <1>2, <1>3, <1>4, <1>5, <1>6 DEF Running

-----------------------------------------------------------------------------
(* Where the close is.                                                     *)

\* What the chain is about: no more is said of it.
Course == HeadRuns /\ ClosesOnce

\* Steps of no close join.
LEMMA CourseJoined ==
  ASSUME Types, Course, UNCHANGED <<stopped, sinkClosed>>,
         NEW steps \in Seq({"start", "drain", "emit"}), steps # <<>>, Enqueue(steps)
  PROVE  /\ chain' \in Seq(Step) /\ Course'
         /\ Drained' <=> Drained
         /\ \A s \in {"emitAll", "emitting", "closing"} : Running(s)' <=> Running(s)
         /\ Running("drain") => Running("drain")'
         /\ Running("drain")' => Running("drain") \/ chain = <<>>
  <1>1. steps \in Seq(Step) /\ \A i \in 1..Len(steps) : steps[i] \in {"start", "drain", "emit"}
    BY DEF Step
  <1>2. /\ Len(steps) \in Nat \ {0} /\ Len(chain) \in Nat
    BY ChainTypes, EmptySeq
  <1>3. /\ chain' \in Seq(Step) /\ Len(chain') = Len(chain) + Len(steps)
        /\ \A i \in 1..Len(chain) : chain'[i] = chain[i]
        /\ \A i \in 1..Len(steps) : chain'[Len(chain) + i] = steps[i]
        /\ \A s : Running(s)' <=> IF chain = <<>> THEN s = steps[1] ELSE Running(s)
    BY <1>1, EnqueueIs
  <1>4. \A i \in 1..Len(chain') : \/ i \in 1..Len(chain) /\ chain'[i] = chain[i]
                                  \/ i \notin 1..Len(chain) /\ chain'[i] \in {"start", "drain", "emit"}
    <2> SUFFICES ASSUME NEW i \in 1..Len(chain'), i \notin 1..Len(chain)
                 PROVE  chain'[i] \in {"start", "drain", "emit"}
      BY <1>3
    <2>1. i - Len(chain) \in 1..Len(steps) /\ i = Len(chain) + (i - Len(chain))
      BY <1>2, <1>3
    <2> QED
      BY <1>1, <1>3, <2>1
  <1>5. HeadRuns'
    BY <1>2, <1>4 DEF Course, HeadRuns
  <1>6. NotClosing => NotClosing'
    BY <1>4 DEF NotClosing
  <1>7. ASSUME NEW n \in 1..Len(chain), ClosesAt(n) PROVE n \in 1..Len(chain') /\ ClosesAt(n)'
    <2>1. /\ n \in 1..Len(chain')
          /\ n > 1 => n - 1 \in 1..Len(chain)
          /\ n > 2 => n - 2 \in 1..Len(chain)
      BY <1>2, <1>3
    <2> QED
      BY <1>3, <1>4, <1>7, <2>1 DEF ClosesAt
  <1>8. ClosesOnce'
    BY <1>6, <1>7 DEF Course, ClosesOnce
  <1>9. Drained' <=> Drained
    BY <1>2, <1>3, <1>4 DEF Drained
  <1>10. chain = <<>> => \A s : ~Running(s)
    BY DEF Running
  <1>11. steps[1] \in {"start", "drain", "emit"}
    BY <1>1, <1>2
  <1> QED
    BY <1>3, <1>5, <1>8, <1>9, <1>10, <1>11 DEF Course

\* Close() puts its own steps at the end.
LEMMA CourseCloses ==
  ASSUME Types, Course, InHand, Close
  PROVE  /\ chain' \in Seq(Step) /\ Course'
         /\ ~Drained /\ ~Drained'
         /\ Running("emitting")' <=> Running("emitting")
         /\ ~Running("closing")'
         /\ Running("drain") => Running("drain")'
  <1>1. /\ ~stopped /\ stopped' = TRUE /\ sinkClosed' = sinkClosed /\ ~sinkClosed /\ NotClosing
        /\ Enqueue(ClosingSteps)
    BY DEF Close, Course, ClosesOnce, sink
  <1>2. /\ ClosingSteps \in Seq(Step) /\ Len(ClosingSteps) = 3 /\ ClosingSteps # <<>>
        /\ ClosingSteps[1] = "drain" /\ ClosingSteps[2] = "emitAll" /\ ClosingSteps[3] = "shut"
    BY DEF ClosingSteps, Step
  <1>0. Len(chain) \in Nat
    BY ChainTypes
  <1>3. PICK n \in Nat : n = Len(chain) + 3
    BY <1>0
  <1>4. /\ chain' \in Seq(Step) /\ Len(chain') = n
        /\ \A i \in 1..Len(chain) : chain'[i] = chain[i]
        /\ \A i \in 1..3 : chain'[Len(chain) + i] = ClosingSteps[i]
        /\ \A s : Running(s)' <=> IF chain = <<>> THEN s = "drain" ELSE Running(s)
    BY <1>1, <1>2, <1>3, EnqueueIs
  <1>5. chain'[n] = "shut" /\ chain'[n - 1] = "emitAll" /\ chain'[n - 2] = "drain"
    <2>1. 1 \in 1..3 /\ 2 \in 1..3 /\ 3 \in 1..3
      OBVIOUS
    <2>2. /\ chain'[Len(chain) + 1] = "drain" /\ chain'[Len(chain) + 2] = "emitAll"
          /\ chain'[Len(chain) + 3] = "shut"
      BY <1>2, <1>4, <2>1
    <2>3. n - 1 = Len(chain) + 2 /\ n - 2 = Len(chain) + 1
      BY <1>0, <1>3
    <2> QED
      BY <1>3, <2>2, <2>3
  <1>6. \A i \in 1..n : \/ i \in {n, n - 1, n - 2}
                        \/ i \in 1..Len(chain) /\ chain'[i] = chain[i]
    BY <1>0, <1>3, <1>4
  <1>7. \A i \in 1..Len(chain) : chain'[i] \notin {"emitAll", "shut", "closing"}
    BY <1>1, <1>4 DEF NotClosing
  <1>8. n \in Nat /\ n >= 3 /\ n # n - 1 /\ n # n - 2 /\ n - 1 # n - 2
    BY <1>0, <1>3
  <1>9. ClosesAt(n)'
    <2>1. \A i \in 1..n : chain'[i] \in {"shut", "closing"} => i = n
      BY <1>5, <1>6, <1>7
    <2>2. \A i \in 1..n : chain'[i] = "emitAll" => i = n - 1
      BY <1>5, <1>6, <1>7
    <2> QED
      BY <1>4, <1>5, <2>1, <2>2 DEF ClosesAt
  <1>10. HeadRuns'
    <2> SUFFICES ASSUME NEW i \in 2..n PROVE chain'[i] \notin {"emitting", "sync", "closing"}
      BY <1>4 DEF HeadRuns
    <2>1. CASE i \in {n, n - 1, n - 2}
      BY <1>5, <2>1
    <2>2. CASE i \in 1..Len(chain) /\ chain'[i] = chain[i]
      BY <2>2 DEF Course, HeadRuns
    <2>3. i \in 1..n
      BY <1>8
    <2> QED
      BY <1>6, <2>1, <2>2, <2>3
  <1>11. ClosesOnce'
    BY <1>1, <1>4, <1>8, <1>9 DEF ClosesOnce
  <1>12. ~Drained /\ ~Drained'
    BY <1>1, <1>4, <1>5, <1>8 DEF Drained
  <1>13. ~Running("closing")'
    <2>1. ~Running("closing")
      BY <1>1, ChainTypes DEF NotClosing
    <2> QED
      BY <1>4, <2>1
  <1>14. chain = <<>> => \A s : ~Running(s)
    BY DEF Running
  <1> QED
    BY <1>4, <1>10, <1>11, <1>12, <1>13, <1>14 DEF Course

\* A step at the head ends: the last drain with it, if the shut is now third.
LEMMA CourseFinishes ==
  ASSUME Types, Course, stopped' = stopped, chain # <<>>, Finish,
         ~Running("emitAll"), ~Running("emitting"), ~Running("shut"),
         sinkClosed' = (sinkClosed \/ Running("closing"))
  PROVE  /\ chain' \in Seq(Step) /\ Course'
         /\ Drained => Drained' /\ ~Running("emitAll")'
         /\ ~Drained /\ Drained' => Running("drain") /\ Running("emitAll")'
         /\ ~Running("emitting")' /\ ~Running("closing")'
  <1>1. /\ chain' \in Seq(Step) /\ Len(chain') = Len(chain) - 1
        /\ \A i \in 1..Len(chain') : chain'[i] = chain[i + 1]
        /\ \A step : Running(step)' <=> Len(chain) > 1 /\ chain[2] = step
    BY FinishIs
  <1>2. /\ Len(chain) \in Nat \ {0}
        /\ \A step : Running(step) <=> chain[1] = step
    BY ChainTypes
  <1>3. \A i \in 1..Len(chain') : i + 1 \in 2..Len(chain)
    BY <1>1, <1>2
  <1>4. HeadRuns'
    BY <1>1, <1>2 DEF Course, HeadRuns
  <1>5. ~Running("emitting")' /\ ~Running("closing")'
    BY <1>1, <1>2 DEF Course, HeadRuns
  <1>6. NotClosing => NotClosing'
    BY <1>1, <1>3 DEF NotClosing
  <1>7. CASE ~stopped \/ sinkClosed
    <2>1. NotClosing /\ ~Running("closing")
      BY <1>2, <1>7 DEF Course, ClosesOnce, NotClosing
    <2>2. ClosesOnce'
      BY <1>6, <1>7, <2>1 DEF Course, ClosesOnce
    <2>3. ~Running("emitAll")'
      BY <1>1, <2>1 DEF NotClosing
    <2>4. Drained => Drained'
      BY <1>1, <1>2 DEF Drained
    <2>5. ~Drained => ~Drained'
      BY <1>2, <1>7, <2>1 DEF Drained, NotClosing
    <2> QED
      BY <1>1, <1>4, <1>5, <2>2, <2>3, <2>4, <2>5 DEF Course
  <1>8. CASE stopped /\ ~sinkClosed
    <2>1. PICK n \in 1..Len(chain) : ClosesAt(n)
      BY <1>8 DEF Course, ClosesOnce
    <2>2. CASE n = 1
      <3>1. Running("closing") /\ sinkClosed'
        BY <1>2, <2>1, <2>2 DEF ClosesAt
      <3>2. \A i \in 2..Len(chain) : chain[i] \notin {"emitAll", "shut", "closing"}
        BY <2>1, <2>2 DEF ClosesAt
      <3>3. NotClosing'
        BY <1>1, <1>3, <3>2 DEF NotClosing
      <3>4. Drained /\ Drained' /\ ~Running("emitAll")'
        BY <1>1, <1>2, <1>8, <3>2 DEF Drained
      <3> QED
        BY <1>1, <1>4, <1>5, <1>8, <3>1, <3>3, <3>4 DEF Course, ClosesOnce
    <2>3. CASE n > 1
      <3>1. ~Running("closing")
        BY <1>2, <2>1, <2>3 DEF ClosesAt
      <3>2. n - 1 \in 1..Len(chain')
        BY <1>1, <1>2, <2>3
      <3>3. /\ chain'[n - 1] = chain[n]
            /\ n > 2 => n - 2 \in 1..Len(chain') /\ chain'[n - 2] = chain[n - 1]
            /\ n > 3 => n - 3 \in 1..Len(chain') /\ chain'[n - 3] = chain[n - 2]
        <4>1. n - 1 + 1 = n /\ n - 2 + 1 = n - 1 /\ n - 3 + 1 = n - 2
          BY <2>3
        <4>2. chain'[n - 1] = chain[n]
          BY <1>1, <3>2, <4>1
        <4>3. n > 2 => n - 2 \in 1..Len(chain') /\ chain'[n - 2] = chain[n - 1]
          <5>1. n > 2 => n - 2 \in 1..Len(chain')
            BY <1>1, <1>2, <2>3
          <5> QED
            BY <1>1, <4>1, <5>1
        <4>4. n > 3 => n - 3 \in 1..Len(chain') /\ chain'[n - 3] = chain[n - 2]
          <5>1. n > 3 => n - 3 \in 1..Len(chain') /\ n - 3 + 1 = n - 2
            BY <1>1, <1>2, <2>3
          <5> QED
            BY <1>1, <5>1
        <4> QED
          BY <4>2, <4>3, <4>4
      <3>4. /\ \A i \in 1..Len(chain') : chain'[i] \in {"shut", "closing"} => i = n - 1
            /\ \A i \in 1..Len(chain') : chain'[i] = "emitAll" => i = n - 2
        BY <1>1, <1>3, <2>1 DEF ClosesAt
      <3>5. /\ chain[n] \in {"shut", "closing"}
            /\ chain[n - 1] \in {"emitAll", "emitting", "sync"}
            /\ n > 2 => chain[n - 2] = "drain"
        BY <2>1, <2>3 DEF ClosesAt
      <3>6. /\ n - 1 > 1 <=> n > 2
            /\ n - 1 > 2 <=> n > 3
            /\ n - 1 - 1 = n - 2 /\ n - 1 - 2 = n - 3
        BY <2>3
      <3>7. ClosesAt(n - 1)'
        BY <3>3, <3>4, <3>5, <3>6 DEF ClosesAt
      <3>8. ClosesOnce'
        BY <1>8, <3>1, <3>2, <3>7 DEF ClosesOnce
      <3>9. chain[n] = "shut"
        BY <2>1, <2>3 DEF ClosesAt, Course, HeadRuns
      <3>10. Drained <=> n = 2
        BY <1>2, <1>8, <2>1, <2>3, <3>9 DEF Drained, ClosesAt
      <3>11. Drained' <=> n \in {2, 3}
        <4>1. \A i \in 3..Len(chain') : chain'[i] = "shut" <=> i = n - 1
          BY <3>3, <3>4, <3>9
        <4>2. (n - 1 \in 3..Len(chain')) <=> n \notin {2, 3}
          BY <2>3, <3>2
        <4> QED
          BY <1>8, <4>1, <4>2 DEF Drained
      <3>12. ASSUME n = 2 PROVE ~Running("emitAll")'
        <4>1. chain[2] = "shut"
          BY <3>9, <3>12
        <4> QED
          BY <1>1, <4>1
      <3>13. n = 3 => Running("drain") /\ Running("emitAll")'
        <4>1. ASSUME n = 3 PROVE chain[1] = "drain" /\ chain[2] \in {"emitAll", "emitting", "sync"}
          BY <3>5, <4>1
        <4>2. ASSUME n = 3 PROVE chain[2] \notin {"emitting", "sync"} /\ Len(chain) > 1
          BY <1>2, <4>2 DEF Course, HeadRuns
        <4> QED
          BY <1>1, <1>2, <4>1, <4>2
      <3> QED
        BY <1>1, <1>4, <1>5, <3>8, <3>10, <3>11, <3>12, <3>13 DEF Course
    <2> QED
      BY <2>2, <2>3
  <1> QED
    BY <1>7, <1>8

\* A step at the head goes on to its next part.
LEMMA CourseBecomes ==
  ASSUME Types, Course, UNCHANGED <<stopped, sinkClosed>>, chain # <<>>, NEW step, Become(step),
         \/ step = "emitting" /\ (Running("emit") \/ Running("emitAll"))
         \/ step = "sync" /\ Running("emitting")
         \/ step = "closing" /\ Running("shut")
  PROVE  /\ chain' \in Seq(Step) /\ Course'
         /\ Drained' <=> Drained
         /\ Running("emitAll") => Drained
         /\ \A s : Running(s)' <=> s = step
  <1>1. step \in Step /\ step \in {"emitting", "sync", "closing"}
    BY DEF Step
  <1>2. /\ chain' \in Seq(Step) /\ Len(chain') = Len(chain)
        /\ chain'[1] = step /\ \A i \in 2..Len(chain) : chain'[i] = chain[i]
        /\ \A s : Running(s)' <=> s = step
    BY <1>1, BecomeIs
  <1>3. /\ Len(chain) \in Nat \ {0}
        /\ \A s : Running(s) <=> chain[1] = s
    BY ChainTypes
  <1>4. HeadRuns'
    BY <1>2 DEF Course, HeadRuns
  <1>5. Drained' <=> Drained
    BY <1>2, <1>3 DEF Drained
  <1>6. CASE NotClosing
    <2>1. step # "closing" /\ ~Running("emitAll")
      BY <1>3, <1>6 DEF NotClosing
    <2>2. NotClosing'
      BY <1>2, <1>3, <1>6, <1>1, <2>1 DEF NotClosing
    <2>3. ~stopped \/ sinkClosed
      BY <1>6 DEF Course, ClosesOnce, NotClosing, ClosesAt
    <2> QED
      BY <1>2, <1>4, <1>5, <2>1, <2>2, <2>3 DEF Course, ClosesOnce
  <1>7. CASE ~NotClosing
    <2>1. stopped /\ ~sinkClosed
      BY <1>7 DEF Course, ClosesOnce
    <2>2. PICK n \in 1..Len(chain) : ClosesAt(n)
      BY <2>1 DEF Course, ClosesOnce
    <2>3. CASE n = 1
      <3>1. Running("shut") /\ step = "closing"
        BY <1>3, <2>2, <2>3 DEF ClosesAt
      <3>2. ClosesAt(1)'
        BY <1>2, <1>3, <2>2, <2>3, <3>1 DEF ClosesAt
      <3>3. ~Running("emitAll")
        BY <3>1, <1>3
      <3> QED
        BY <1>2, <1>3, <1>4, <1>5, <2>1, <3>2, <3>3 DEF Course, ClosesOnce
    <2>4. CASE n > 1
      <3>1. step \in {"emitting", "sync"}
        BY <1>3, <2>2, <2>4 DEF ClosesAt
      <3>2. chain'[n] = chain[n] /\ n \in 1..Len(chain')
        BY <1>2, <1>3, <2>4
      <3>3. /\ \A i \in 1..Len(chain') : chain'[i] \in {"shut", "closing"} => i = n
            /\ \A i \in 1..Len(chain') : chain'[i] = "emitAll" => i = n - 1
        BY <1>2, <1>3, <2>2, <3>1 DEF ClosesAt
      <3>4. chain'[n - 1] \in {"emitAll", "emitting", "sync"}
        <4>1. CASE n = 2
          BY <1>2, <3>1, <4>1
        <4>2. CASE n > 2
          <5>1. n - 1 \in 2..Len(chain)
            BY <1>3, <4>2
          <5> QED
            BY <1>2, <2>2, <2>4, <5>1 DEF ClosesAt
        <4> QED
          BY <2>4, <4>1, <4>2
      <3>5. n > 2 => chain'[n - 2] = "drain"
        <4> SUFFICES ASSUME n > 2 PROVE chain'[n - 2] = "drain"
          OBVIOUS
        <4>1. chain[n - 2] = "drain" /\ n - 2 \in 1..Len(chain)
          BY <1>3, <2>2 DEF ClosesAt
        <4>2. n - 2 # 1
          BY <1>3, <4>1
        <4> QED
          BY <1>2, <1>3, <4>1, <4>2
      <3>6. ClosesAt(n)'
        BY <2>2, <3>2, <3>3, <3>4, <3>5 DEF ClosesAt
      <3>7. Running("emitAll") => Drained
        <4> SUFFICES ASSUME chain[1] = "emitAll" PROVE Drained
          BY <1>3
        <4>1. n = 2
          BY <1>3, <2>2, <2>4 DEF ClosesAt
        <4> QED
          BY <1>3, <2>1, <2>2, <4>1 DEF Drained, ClosesAt
      <3> QED
        BY <1>2, <1>4, <1>5, <2>1, <3>2, <3>6, <3>7 DEF Course, ClosesOnce
    <2> QED
      BY <2>3, <2>4
  <1> QED
    BY <1>6, <1>7

LEMMA CourseStays ==
  ASSUME UNCHANGED <<chain, stopped, sinkClosed>>
  PROVE  /\ HeadRuns' <=> HeadRuns
         /\ ClosesOnce' <=> ClosesOnce
         /\ Drained' <=> Drained
         /\ \A s : Running(s)' <=> Running(s)
  BY DEF HeadRuns, ClosesOnce, NotClosing, ClosesAt, Drained, Running

-----------------------------------------------------------------------------
(* Each action keeps the invariant.                                        *)

\* A closed sink has no close ahead of it, so all was given.
LEMMA ClosedIsGiven ==
  ASSUME IInv, sinkClosed
  PROVE  stopped /\ AllGiven /\ ~Running("shut") /\ ~Running("closing") /\ buffer = <<>>
  <1>1. stopped /\ NotClosing
    BY DEF IInv, ClosesOnce, Types
  <1>2. /\ Len(chain) \in Nat
        /\ \A s : Running(s) <=> Len(chain) > 0 /\ chain[1] = s
    BY ChainTypes DEF IInv
  <1>3. ~Running("shut") /\ ~Running("closing") /\ ~Running("emitAll")
    BY <1>1, <1>2 DEF NotClosing
  <1>4. Drained
    BY <1>1, <1>2 DEF Drained, NotClosing
  <1> QED
    BY <1>1, <1>3, <1>4 DEF AllGiven, IInv, NothingWaits

LEMMA NoneCounted == NoCells \in [Cell -> Nat] /\ \A cell \in Cell : NoCells[cell] = 0
  BY DEF NoCells

LEMMA InvInit == Init => IInv
  <1> SUFFICES ASSUME Init PROVE IInv
    OBVIOUS
  <1>1. /\ chain = <<>> /\ stopped = FALSE /\ writing = None /\ emissions = <<>> /\ now = 0
        /\ cells = NoCells /\ rolled = NoCells /\ sinkClosed = FALSE
    BY DEF Init, SinkInit
  <1>2. Types
    <2>1. <<>> \in Seq(Step)
      OBVIOUS
    <2> QED
      BY <1>1, <2>1, NoneCounted DEF Types
  <1>3. Len(chain) = 0 /\ \A s : ~Running(s)
    BY <1>1 DEF Running
  <1> QED
    BY <1>1, <1>2, <1>3, NoneCounted
       DEF IInv, HeadRuns, ClosesOnce, NotClosing, Drained, AllGiven, InHand, NothingWaits,
           RolledUpIsOver, SinkRests, WindowsStayClosed

LEMMA CallersKeep ==
  ASSUME IInv, RecordEvent \/ Flush \/ TimerFires
  PROVE  IInv'
  <1>1. /\ UNCHANGED <<stopped, writing, emissions, now, cells, rolled, sink>>
        /\ buffer' = buffer \/ ~stopped
    BY DEF RecordEvent, Flush, TimerFires, intake, aggregates
  <1>2. UNCHANGED <<pending, opened, sinkClosed, io>>
    BY <1>1 DEF sink
  <1>3. \/ UNCHANGED chain
        \/ \E steps \in Seq({"start", "drain", "emit"}) : steps # <<>> /\ Enqueue(steps)
    <2>1. /\ <<"start", "drain">> \in Seq({"start", "drain", "emit"}) /\ <<"start", "drain">> # <<>>
          /\ <<"drain", "emit">> \in Seq({"start", "drain", "emit"}) /\ <<"drain", "emit">> # <<>>
          /\ <<"emit">> \in Seq({"start", "drain", "emit"}) /\ <<"emit">> # <<>>
      OBVIOUS
    <2> QED
      BY <2>1 DEF RecordEvent, Flush, TimerFires
  <1>4. /\ chain' \in Seq(Step) /\ Course'
        /\ Drained' <=> Drained
        /\ \A s \in {"emitAll", "emitting", "closing"} : Running(s)' <=> Running(s)
        /\ Running("drain") => Running("drain")'
        /\ Running("drain")' => Running("drain") \/ chain = <<>>
    <2>1. CASE UNCHANGED chain
      BY <1>1, <1>2, <2>1, CourseStays DEF IInv, Course, Types
    <2>2. CASE \E steps \in Seq({"start", "drain", "emit"}) : steps # <<>> /\ Enqueue(steps)
      BY <1>1, <1>2, <2>2, CourseJoined DEF IInv, Course
    <2> QED
      BY <1>3, <2>1, <2>2
  <1>5. chain = <<>> => writing = None
    BY DEF IInv, InHand, Running
  <1>6. AllGiven' <=> AllGiven
    BY <1>4 DEF AllGiven
  <1>7. NothingWaits'
    BY <1>1, <1>4, <1>5 DEF IInv, NothingWaits, Drained
  <1>8. RolledUpIsOver'
    BY <1>1, <1>6 DEF IInv, RolledUpIsOver
  <1>9. SinkRests' /\ InHand'
    BY <1>1, <1>2, <1>4 DEF IInv, SinkRests, InHand
  <1> QED
    BY <1>1, <1>2, <1>4, <1>7, <1>8, <1>9 DEF IInv, Course, Types, WindowsStayClosed

LEMMA CloseKeeps ==
  ASSUME IInv, Close
  PROVE  IInv'
  <1>1. /\ UNCHANGED <<writing, emissions, now, cells, rolled, pending, opened, sinkClosed, io>>
        /\ stopped' = TRUE /\ ~stopped
    BY DEF Close, aggregates, sink
  <1>2. /\ chain' \in Seq(Step) /\ Course'
        /\ ~Drained /\ ~Drained'
        /\ Running("emitting")' <=> Running("emitting")
        /\ ~Running("closing")'
        /\ Running("drain") => Running("drain")'
    BY CourseCloses DEF IInv, Course
  <1>3. ~AllGiven /\ ~AllGiven'
    BY <1>2 DEF AllGiven
  <1>4. ~sinkClosed
    BY <1>1 DEF IInv, ClosesOnce
  <1>5. RolledUpIsOver' /\ NothingWaits'
    BY <1>1, <1>2, <1>3 DEF IInv, RolledUpIsOver, NothingWaits
  <1>6. SinkRests' /\ InHand'
    BY <1>1, <1>2, <1>4 DEF IInv, SinkRests, InHand
  <1> QED
    BY <1>1, <1>2, <1>5, <1>6 DEF IInv, Course, Types, WindowsStayClosed

\* The steps that end: a scheduled drain's start, a drain, a flush and the close.
LEMMA FinishKeeps ==
  ASSUME IInv, StartDrain \/ DrainEnds \/ SyncSettled \/ ClosingSettled
  PROVE  IInv'
  <1>1. /\ UNCHANGED <<stopped, buffer, writing, emissions, now, cells, rolled, pending>>
        /\ chain # <<>> /\ Finish
        /\ \/ Running("start") \/ Running("sync") \/ Running("closing")
           \/ Running("drain") /\ buffer = <<>> /\ writing = None
        /\ sinkClosed' = (sinkClosed \/ Running("closing"))
        /\ Running("closing") => opened' = FALSE /\ io' = None
        /\ ~Running("closing") => opened' = opened /\ io' \in {io, None}
    <2>1. /\ Len(chain) \in Nat
          /\ \A s : Running(s) <=> Len(chain) > 0 /\ chain[1] = s
      BY ChainTypes DEF IInv
    <2>2. CASE StartDrain \/ DrainEnds
      BY <2>1, <2>2 DEF StartDrain, DrainEnds, intake, aggregates, sink, Running, IInv, Types
    <2>3. CASE SyncSettled
      BY <2>1, <2>3 DEF SyncSettled, intake, aggregates, Running, IInv, Types
    <2>4. CASE ClosingSettled
      BY <2>1, <2>4 DEF ClosingSettled, Shut, intake, aggregates, Running, IInv, Types
    <2> QED
      BY <2>2, <2>3, <2>4
  <1>2. ~Running("emitAll") /\ ~Running("emitting") /\ ~Running("shut")
    BY <1>1 DEF Running
  <1>3. /\ chain' \in Seq(Step) /\ Course'
        /\ Drained => Drained' /\ ~Running("emitAll")'
        /\ ~Drained /\ Drained' => Running("drain") /\ Running("emitAll")'
        /\ ~Running("emitting")' /\ ~Running("closing")'
    BY <1>1, <1>2, CourseFinishes DEF IInv, Course
  <1>4. AllGiven' <=> AllGiven
    BY <1>2, <1>3 DEF AllGiven
  <1>5. writing = None /\ emissions = <<>>
    BY <1>1, <1>2 DEF IInv, InHand, Running
  <1>6. NothingWaits'
    BY <1>1, <1>3, <1>5 DEF IInv, NothingWaits, Running
  <1>7. RolledUpIsOver'
    BY <1>1, <1>4 DEF IInv, RolledUpIsOver
  <1>8. SinkRests'
    <2>1. CASE Running("closing")
      BY <1>1, <1>3, <1>5, <2>1 DEF IInv, SinkRests
    <2>2. CASE ~Running("closing")
      <3>1. sinkClosed' => sinkClosed
        BY <1>1, <2>2
      <3>2. ASSUME sinkClosed PROVE /\ pending = <<>> /\ ~opened' /\ emissions = <<>>
                                    /\ io' = None \/ io'.at \in {"done", "failed"}
        BY <1>1, <2>2, <3>2 DEF IInv, SinkRests
      <3> QED
        BY <1>1, <1>3, <3>1, <3>2 DEF SinkRests
    <2> QED
      BY <2>1, <2>2
  <1>9. InHand'
    BY <1>1, <1>5 DEF InHand
  <1> QED
    BY <1>1, <1>3, <1>6, <1>7, <1>8, <1>9 DEF IInv, Course, Types, WindowsStayClosed

\* An event is counted in the window it is now.
LEMMA ObserveIs ==
  ASSUME Types, NEW event, Observe(event)
  PROVE  /\ cells' \in [Cell -> Nat]
         /\ \A cell \in Cell : cell[2] # now => cells'[cell] = cells[cell]
  <1> DEFINE here == <<KeyOf(event), now>>
  <1>1. cells' = cells \/ cells' = [cells EXCEPT ![here] = cells[here] + 1]
    BY DEF Observe
  <1>2. here[2] = now
    OBVIOUS
  <1> HIDE DEF here
  <1>3. \A cell \in Cell : cell = here => cell[2] = now
    BY <1>2
  <1> QED
    BY <1>1, <1>3 DEF Types

\* A window that counts an event now has not been rolled up.
LEMMA CountedKeeps ==
  ASSUME IInv, ~Drained, UNCHANGED <<chain, stopped, sinkClosed, now, rolled>>,
         cells' \in [Cell -> Nat],
         \A cell \in Cell : cell[2] # now => cells'[cell] = cells[cell]
  PROVE  RolledUpIsOver' /\ WindowsStayClosed'
  <1>1. ~AllGiven /\ ~AllGiven'
    BY CourseStays DEF AllGiven
  <1>2. \A cell \in Cell : rolled[cell] > 0 => cell[2] < now
    BY <1>1 DEF IInv, RolledUpIsOver
  <1>3. \A cell \in Cell : cell[2] < now => cell[2] # now
    BY DEF IInv, Types
  <1> QED
    BY <1>1, <1>2, <1>3 DEF RolledUpIsOver, IInv, WindowsStayClosed

LEMMA ConsumeKeeps ==
  ASSUME IInv, Consume
  PROVE  IInv'
  <1>1. /\ Running("drain") /\ buffer # <<>> /\ writing = None
        /\ UNCHANGED <<chain, stopped, emissions, now, rolled>>
    BY DEF Consume
  <1>2. ~Drained /\ ~sinkClosed
    BY <1>1, ClosedIsGiven DEF IInv, NothingWaits
  <1>3. UNCHANGED sinkClosed
    BY DEF Consume, Put, sink
  <1>4. /\ cells' \in [Cell -> Nat]
        /\ \A cell \in Cell : cell[2] # now => cells'[cell] = cells[cell]
    <2>1. UNCHANGED cells \/ Observe(Head(buffer))
      BY DEF Consume
    <2> QED
      BY <2>1, ObserveIs DEF IInv, Types
  <1>5. RolledUpIsOver' /\ WindowsStayClosed'
    BY <1>1, <1>2, <1>3, <1>4, CountedKeeps
  <1>6. /\ HeadRuns' /\ ClosesOnce' /\ ~Drained'
        /\ \A s : Running(s)' <=> Running(s)
    BY <1>1, <1>2, <1>3, CourseStays DEF IInv
  <1>7. ~Running("closing")
    BY <1>1 DEF Running
  <1>8. InHand' /\ SinkRests' /\ NothingWaits'
    BY <1>1, <1>2, <1>3, <1>6, <1>7 DEF IInv, InHand, SinkRests, NothingWaits
  <1> QED
    BY <1>1, <1>3, <1>4, <1>5, <1>6, <1>8 DEF IInv, Types

LEMMA WriteKeeps ==
  ASSUME IInv, WriteSettled
  PROVE  IInv'
  <1>1. /\ writing # None /\ writing' = None /\ io' = None
        /\ UNCHANGED <<chain, stopped, buffer, emissions, now, rolled, pending, opened, sinkClosed>>
        /\ IF Running("drain") THEN Observe(writing[2]) ELSE UNCHANGED cells
    BY DEF WriteSettled, intake
  <1>2. /\ HeadRuns' /\ ClosesOnce'
        /\ Drained' <=> Drained
    BY <1>1, CourseStays DEF IInv
  <1>3. \A s : Running(s)' <=> Running(s)
    BY <1>1, CourseStays
  <1>4. InHand' /\ SinkRests' /\ NothingWaits'
    BY <1>1, <1>2, <1>3 DEF IInv, InHand, SinkRests, NothingWaits
  <1>5. cells' \in [Cell -> Nat] /\ RolledUpIsOver' /\ WindowsStayClosed'
    <2>1. CASE Running("drain")
      <3>1. ~Drained
        BY <1>1, <2>1 DEF IInv, NothingWaits
      <3>2. /\ cells' \in [Cell -> Nat]
            /\ \A cell \in Cell : cell[2] # now => cells'[cell] = cells[cell]
        BY <1>1, <2>1, ObserveIs DEF IInv
      <3> QED
        BY <1>1, <3>1, <3>2, CountedKeeps
    <2>2. CASE ~Running("drain")
      <3>1. AllGiven' <=> AllGiven
        BY <1>2, <1>3 DEF AllGiven
      <3> QED
        BY <1>1, <2>2, <3>1 DEF IInv, Types, RolledUpIsOver, WindowsStayClosed
    <2> QED
      BY <2>1, <2>2
  <1> QED
    BY <1>1, <1>2, <1>4, <1>5 DEF IInv, Types

\* The hook takes whole cells: all of them, or those of windows that are over.
LEMMA HookIs ==
  ASSUME Types, RunHook
  PROVE  /\ cells' \in [Cell -> Nat] /\ rolled' \in [Cell -> Nat]
         /\ \A cell \in Cell :
              IF cells[cell] > 0 /\ (Running("emitAll") \/ cell[2] < now)
              THEN cells'[cell] = 0
              ELSE cells'[cell] = cells[cell] /\ rolled'[cell] = rolled[cell]
         /\ (\A cell \in Cell : cells[cell] = 0) => emissions' = <<>>
  <1> DEFINE leaving == {cell \in LiveCells : Running("emitAll") \/ Complete(cell)}
  <1>1. /\ \E order \in [1..Cardinality(leaving) -> leaving] :
             emissions' = [i \in DOMAIN order |-> <<"bucket", order[i]>>]
        /\ rolled' = [cell \in Cell |->
                        rolled[cell] + IF cell \in leaving THEN cells[cell] ELSE 0]
        /\ cells' = [cell \in Cell |-> IF cell \in leaving THEN 0 ELSE cells[cell]]
    BY DEF RunHook
  <1>2. \A cell \in Cell : cell \in leaving <=>
          cells[cell] > 0 /\ (Running("emitAll") \/ cell[2] < now)
    BY DEF LiveCells, Complete
  <1>3. (\A cell \in Cell : cells[cell] = 0) => leaving = {}
    BY <1>2 DEF LiveCells
  <1> HIDE DEF leaving
  <1>4. ASSUME leaving = {} PROVE emissions' = <<>>
    <2>1. Cardinality(leaving) = 0
      BY <1>4, FS_EmptySet
    <2>2. 1..Cardinality(leaving) = {}
      BY <2>1
    <2>3. PICK order \in [{} -> leaving] : emissions' = [i \in {} |-> <<"bucket", order[i]>>]
      BY <1>1, <2>2
    <2> QED
      BY <2>3
  <1>5. cells' \in [Cell -> Nat] /\ rolled' \in [Cell -> Nat]
    BY <1>1 DEF Types
  <1>6. \A cell \in Cell :
          IF cell \in leaving THEN cells'[cell] = 0
          ELSE cells'[cell] = cells[cell] /\ rolled'[cell] = rolled[cell]
    BY <1>1 DEF Types
  <1> QED
    BY <1>2, <1>3, <1>4, <1>5, <1>6

LEMMA HookKeeps ==
  ASSUME IInv, RunHook
  PROVE  IInv'
  <1>1. /\ UNCHANGED <<stopped, buffer, writing, now, pending, opened, sinkClosed, io>>
        /\ Running("emit") \/ Running("emitAll")
        /\ chain # <<>> /\ Become("emitting")
    BY DEF RunHook, intake, sink, Running
  <1>2. /\ chain' \in Seq(Step) /\ Course'
        /\ Drained' <=> Drained
        /\ Running("emitAll") => Drained
        /\ \A s : Running(s)' <=> s = "emitting"
    BY <1>1, CourseBecomes DEF IInv, Course
  <1>3. /\ cells' \in [Cell -> Nat] /\ rolled' \in [Cell -> Nat]
        /\ \A cell \in Cell :
             IF cells[cell] > 0 /\ (Running("emitAll") \/ cell[2] < now)
             THEN cells'[cell] = 0
             ELSE cells'[cell] = cells[cell] /\ rolled'[cell] = rolled[cell]
        /\ (\A cell \in Cell : cells[cell] = 0) => emissions' = <<>>
    BY HookIs DEF IInv
  <1>4. AllGiven' <=> Drained
    BY <1>2 DEF AllGiven
  <1>5. Types'
    BY <1>1, <1>2, <1>3 DEF IInv, Types
  <1>6. \A cell \in Cell : cells[cell] \in Nat
    BY DEF IInv, Types
  <1>7. RolledUpIsOver'
    <2>1. CASE Running("emitAll")
      <3>1. \A cell \in Cell : cells'[cell] = 0
        BY <1>3, <1>6, <2>1
      <3> QED
        BY <1>2, <1>4, <2>1, <3>1 DEF RolledUpIsOver
    <2>2. CASE ~Running("emitAll")
      <3>1. AllGiven <=> Drained
        BY <2>2 DEF AllGiven
      <3>2. Drained => \A cell \in Cell : cells[cell] = 0
        BY <3>1 DEF IInv, RolledUpIsOver
      <3>3. Drained => \A cell \in Cell : cells'[cell] = 0
        BY <1>3, <3>2
      <3>4. ~Drained => \A cell \in Cell : rolled[cell] > 0 => cell[2] < now
        BY <3>1 DEF IInv, RolledUpIsOver
      <3>5. ~Drained => \A cell \in Cell : rolled'[cell] > 0 => cell[2] < now
        BY <1>3, <2>2, <3>4
      <3> QED
        BY <1>1, <1>4, <3>3, <3>5 DEF RolledUpIsOver
    <2> QED
      BY <2>1, <2>2
  <1>8. WindowsStayClosed'
    BY <1>3 DEF IInv, WindowsStayClosed
  <1>9. SinkRests'
    <2>1. sinkClosed => \A cell \in Cell : cells[cell] = 0
      BY ClosedIsGiven DEF IInv, RolledUpIsOver
    <2> QED
      BY <1>1, <1>2, <1>3, <2>1 DEF IInv, SinkRests
  <1>10. InHand' /\ NothingWaits'
    <2>1. ~Running("drain") /\ ~Running("emitting")
      BY <1>1 DEF Running
    <2> QED
      BY <1>1, <1>2, <2>1 DEF IInv, InHand, NothingWaits
  <1> QED
    BY <1>2, <1>5, <1>7, <1>8, <1>9, <1>10 DEF IInv, Course

LEMMA EmitKeeps ==
  ASSUME IInv, EmitNext
  PROVE  IInv'
  <1>1. /\ Running("emitting") /\ emissions # <<>>
        /\ UNCHANGED <<chain, stopped, buffer, now, cells, rolled, sinkClosed>>
    BY DEF EmitNext, Put, intake, aggregates
  <1>2. ~sinkClosed /\ ~Running("drain") /\ ~Running("closing")
    BY <1>1 DEF IInv, SinkRests, Running
  <1>3. /\ HeadRuns' /\ ClosesOnce'
        /\ Drained' <=> Drained
        /\ \A s : Running(s)' <=> Running(s)
    BY <1>1, CourseStays DEF IInv
  <1>4. AllGiven' <=> AllGiven
    BY <1>3 DEF AllGiven
  <1>5. RolledUpIsOver' /\ WindowsStayClosed'
    BY <1>1, <1>4 DEF IInv, RolledUpIsOver, WindowsStayClosed
  <1>6. InHand' /\ NothingWaits' /\ SinkRests'
    BY <1>1, <1>2, <1>3 DEF IInv, InHand, NothingWaits, SinkRests
  <1> QED
    BY <1>1, <1>3, <1>5, <1>6 DEF IInv, Types

\* The sink is flushed, by the hook or by the close.
LEMMA FlushKeeps ==
  ASSUME IInv, HookEnds \/ ShutBegins
  PROVE  IInv'
  <1>1. /\ UNCHANGED <<stopped, buffer, writing, emissions, now, cells, rolled, opened, sinkClosed>>
        /\ chain # <<>> /\ pending' = <<>>
        /\ io' = IF pending = <<>> THEN Done
                 ELSE [at |-> IF opened THEN Ready(size, pending) ELSE "open", chunk |-> pending]
        /\ \/ Running("emitting") /\ Become("sync") /\ emissions = <<>> /\ writing = None
           \/ Running("shut") /\ Become("closing")
    BY DEF HookEnds, ShutBegins, BeginFlush, Begin, intake, aggregates, Running
  <1>2. PICK step : /\ chain' \in Seq(Step) /\ Course'
                    /\ Drained' <=> Drained
                    /\ \A s : Running(s)' <=> s = step
                    /\ step \in {"sync", "closing"}
    BY <1>1, CourseBecomes DEF IInv, Course
  <1>3. ~Running("emitAll") /\ ~Running("drain")
    BY <1>1 DEF Running
  <1>4. AllGiven' <=> AllGiven
    BY <1>2, <1>3 DEF AllGiven
  <1>5. writing = None /\ emissions = <<>>
    BY <1>1 DEF IInv, InHand, Running
  <1>6. RolledUpIsOver' /\ WindowsStayClosed'
    BY <1>1, <1>4 DEF IInv, RolledUpIsOver, WindowsStayClosed
  <1>7. InHand' /\ NothingWaits'
    BY <1>1, <1>2, <1>5 DEF IInv, InHand, NothingWaits
  <1>8. SinkRests'
    <2>1. sinkClosed => io' = Done
      BY <1>1 DEF IInv, SinkRests
    <2> QED
      BY <1>1, <2>1 DEF IInv, SinkRests, Done
  <1> QED
    BY <1>1, <1>2, <1>6, <1>7, <1>8 DEF IInv, Course, Types

\* A closed sink has no file operation under way; time passes.
LEMMA WorldKeeps ==
  ASSUME IInv, FileOperation \/ Tick
  PROVE  IInv'
  <1>1. /\ UNCHANGED <<chain, stopped, buffer, writing, emissions, cells, rolled, pending, sinkClosed>>
        /\ now' \in Nat /\ now' >= now
    <2>1. CASE FileOperation
      <3>1. UNCHANGED <<chain, stopped, buffer, writing, emissions, now, cells, rolled>>
        BY <2>1 DEF FileOperation, intake, aggregates
      <3>2. UNCHANGED <<pending, sinkClosed>>
        <4>1. CASE Open \/ CloseLive \/ Write \/ OperationFails
          BY <4>1 DEF Open, CloseLive, Write, OperationFails
        <4>2. CASE Rename \/ Prune
          BY <4>2 DEF Rename, Prune, memory
        <4> QED
          BY <2>1, <4>1, <4>2 DEF FileOperation, Flushing
      <3> QED
        BY <3>1, <3>2 DEF IInv, Types
    <2>2. CASE Tick
      BY <2>2 DEF Tick, intake, aggregates, sink, IInv, Types
    <2> QED
      BY <2>1, <2>2
  <1>2. sinkClosed => UNCHANGED <<opened, io>>
    <2>1. CASE FileOperation
      <3>1. \E operation \in Operation : Doing(operation)
        BY <2>1, SinkAssumption
           DEF FileOperation, Flushing, Open, CloseLive, Rename, Prune, Write, OperationFails,
               Operation
      <3>2. ~sinkClosed
        BY <3>1 DEF IInv, SinkRests, Doing, Operation
      <3> QED
        BY <3>2
    <2>2. CASE Tick
      BY <2>2 DEF Tick, sink
    <2> QED
      BY <2>1, <2>2
  <1>3. /\ HeadRuns' /\ ClosesOnce'
        /\ Drained' <=> Drained
        /\ \A s : Running(s)' <=> Running(s)
    BY <1>1, CourseStays DEF IInv
  <1>4. AllGiven' <=> AllGiven
    BY <1>3 DEF AllGiven
  <1>5. RolledUpIsOver' /\ WindowsStayClosed'
    <2>1. \A cell \in Cell : cell[2] \in Int
      BY DEF Cell
    <2>2. \A cell \in Cell : cell[2] < now => cell[2] < now'
      BY <1>1, <2>1 DEF IInv, Types
    <2> QED
      BY <1>1, <1>4, <2>2 DEF IInv, RolledUpIsOver, WindowsStayClosed
  <1>6. InHand' /\ NothingWaits' /\ SinkRests'
    BY <1>1, <1>2, <1>3 DEF IInv, InHand, NothingWaits, SinkRests
  <1> QED
    BY <1>1, <1>3, <1>5, <1>6 DEF IInv, Types

LEMMA CrashKeeps ==
  ASSUME IInv, Crash
  PROVE  IInv'
  <1>1. /\ chain' = <<>> /\ stopped' = FALSE /\ writing' = None /\ emissions' = <<>>
        /\ cells' = NoCells /\ rolled' = NoCells /\ sinkClosed' = FALSE /\ now' = now
    BY DEF Crash
  <1>2. Types'
    <2>1. <<>> \in Seq(Step)
      OBVIOUS
    <2> QED
      BY <1>1, <2>1, NoneCounted DEF IInv, Types
  <1>3. Len(chain)' = 0 /\ \A s : ~Running(s)'
    BY <1>1 DEF Running
  <1> QED
    BY <1>1, <1>2, <1>3, NoneCounted
       DEF IInv, HeadRuns, ClosesOnce, NotClosing, Drained, AllGiven, InHand, NothingWaits,
           RolledUpIsOver, SinkRests, WindowsStayClosed

LEMMA InvNext == IInv /\ [Next]_vars => IInv'
  <1> SUFFICES ASSUME IInv, [Next]_vars PROVE IInv'
    OBVIOUS
  <1>1. CASE OnChain
    BY <1>1, FinishKeeps, ConsumeKeeps, WriteKeeps, HookKeeps, EmitKeeps, FlushKeeps, WorldKeeps
       DEF OnChain
  <1>2. CASE RecordEvent \/ Flush \/ TimerFires \/ Close \/ Tick \/ Crash
    BY <1>2, CallersKeep, CloseKeeps, WorldKeeps, CrashKeeps
  <1>3. CASE UNCHANGED vars
    <2>1. UNCHANGED <<chain, stopped, buffer, writing, emissions, now, cells, rolled, pending,
                      opened, sinkClosed, io>>
      BY <1>3 DEF vars, intake, aggregates, sink
    <2>2. /\ HeadRuns' /\ ClosesOnce'
          /\ Drained' <=> Drained
          /\ \A s : Running(s)' <=> Running(s)
      BY <2>1, CourseStays DEF IInv
    <2> QED
      BY <2>1, <2>2 DEF IInv, Types, AllGiven, RolledUpIsOver, WindowsStayClosed, InHand,
                        NothingWaits, SinkRests
  <1> QED
    BY <1>1, <1>2, <1>3 DEF Next

LEMMA Invariant == Spec => []IInv
  BY InvInit, InvNext, PTL DEF Spec

-----------------------------------------------------------------------------
\* Whatever was recorded, flushed or failed before, close() leaves nothing behind: its
\* drain, its emission of every window and its flush are all over when the sink closes.
THEOREM ClosedIsComplete == Spec => []CloseIsComplete
  <1>1. ASSUME IInv PROVE CloseIsComplete
    <2> SUFFICES ASSUME sinkClosed
                 PROVE  /\ buffer = <<>> /\ LiveCells = {} /\ emissions = <<>>
                        /\ pending = <<>> /\ ~opened
                        /\ ~\E i \in DOMAIN chain : chain[i] \in {"shut", "closing"}
      BY DEF CloseIsComplete
    <2>1. buffer = <<>> /\ NotClosing /\ AllGiven
      BY <1>1, ClosedIsGiven DEF IInv, ClosesOnce
    <2>2. LiveCells = {}
      BY <1>1, <2>1 DEF IInv, RolledUpIsOver, LiveCells
    <2>3. ~\E i \in DOMAIN chain : chain[i] \in {"shut", "closing"}
      BY <1>1, <2>1, ChainTypes DEF IInv, NotClosing
    <2> QED
      BY <1>1, <2>1, <2>2, <2>3 DEF IInv, SinkRests
  <1> QED
    BY <1>1, Invariant, PTL

\* No event is counted in a window that has been rolled up: a window is rolled up once it
\* is over, or by close(), when no event is left to count.
THEOREM WindowsAreReportedOnce == Spec => []WindowsStayClosed
  <1>1. IInv => WindowsStayClosed
    BY DEF IInv
  <1> QED
    BY <1>1, Invariant, PTL

-----------------------------------------------------------------------------
(* Lines and their order.                                                  *)

LEMMA LinesAre ==
  ASSUME NEW s \in Seq(Record)
  PROVE  /\ Len(s) \in Nat /\ DOMAIN s = 1..Len(s)
         /\ Range(s) = {s[i] : i \in 1..Len(s)} /\ Range(s) \subseteq Record
  BY LenProperties, RangeEquality, RangeOfSeq

LEMMA EventIs == \A x \in Event : x[2] \in 1..MaxEvents /\ x = <<"event", x[2]>>
  BY DEF Event

LEMMA NoLines == /\ <<>> \in Seq(Record) /\ Range(<<>>) = {} /\ Increasing(<<>>)
                 /\ \A s : Precedes(<<>>, s) /\ Precedes(s, <<>>)
  <1>1. <<>> \in Seq(Record) /\ Len(<<>>) = 0 /\ DOMAIN <<>> = {}
    BY EmptySeq
  <1>2. Range(<<>>) = {}
    BY <1>1 DEF Range
  <1> QED
    BY <1>1, <1>2 DEF Increasing, Precedes

LEMMA OneLine ==
  ASSUME NEW x \in Record
  PROVE  <<x>> \in Seq(Record) /\ Range(<<x>>) = {x} /\ Increasing(<<x>>)
  <1>1. <<x>> \in Seq(Record) /\ Len(<<x>>) = 1 /\ DOMAIN <<x>> = {1} /\ <<x>>[1] = x
    OBVIOUS
  <1>2. Range(<<x>>) = {x}
    BY <1>1 DEF Range
  <1> QED
    BY <1>1, <1>2 DEF Increasing

\* Joined lines precede others, or follow them, if both parts do.
LEMMA JoinedPrecede ==
  ASSUME NEW s \in Seq(Record), NEW t \in Seq(Record)
  PROVE  /\ s \o t \in Seq(Record) /\ Range(s \o t) = Range(s) \union Range(t)
         /\ \A u : /\ Precedes(u, s \o t) <=> Precedes(u, s) /\ Precedes(u, t)
                   /\ Precedes(s \o t, u) <=> Precedes(s, u) /\ Precedes(t, u)
  <1>1. s \o t \in Seq(Record) /\ Range(s \o t) = Range(s) \union Range(t)
    BY ConcatProperties, RangeConcatenation
  <1> QED
    BY <1>1 DEF Precedes

LEMMA JoinedIncrease ==
  ASSUME NEW s \in Seq(Record), NEW t \in Seq(Record)
  PROVE  Increasing(s \o t) <=> Increasing(s) /\ Increasing(t) /\ Precedes(s, t)
  <1> DEFINE m == Len(s)
             n == Len(t)
             st == s \o t
  <1>1. m \in Nat /\ n \in Nat /\ DOMAIN s = 1..m /\ DOMAIN t = 1..n
    BY LinesAre
  <1>2. /\ DOMAIN st = 1..m + n
        /\ \A i \in 1..m : i \in DOMAIN st /\ st[i] = s[i]
        /\ \A i \in 1..n : i + m \in DOMAIN st /\ st[i + m] = t[i]
        /\ \A i \in DOMAIN st : i \in 1..m \/ (i - m \in 1..n /\ i = i - m + m)
    BY <1>1
  <1>3. Range(s) = {s[i] : i \in 1..m} /\ Range(t) = {t[i] : i \in 1..n}
    BY LinesAre
  <1> HIDE DEF m, n, st
  <1>4. ASSUME Increasing(st) PROVE Increasing(s) /\ Increasing(t) /\ Precedes(s, t)
    <2>1. Increasing(s)
      <3> SUFFICES ASSUME NEW i \in 1..m, NEW j \in 1..m, i < j, s[i] \in Event, s[j] \in Event
                   PROVE  s[i][2] < s[j][2]
        BY <1>1 DEF Increasing
      <3> QED
        BY <1>2, <1>4 DEF Increasing
    <2>2. Increasing(t)
      <3> SUFFICES ASSUME NEW i \in 1..n, NEW j \in 1..n, i < j, t[i] \in Event, t[j] \in Event
                   PROVE  t[i][2] < t[j][2]
        BY <1>1 DEF Increasing
      <3>1. i + m < j + m
        BY <1>1
      <3> QED
        BY <1>2, <1>4, <3>1 DEF Increasing
    <2>3. Precedes(s, t)
      <3> SUFFICES ASSUME NEW i \in 1..m, NEW j \in 1..n, s[i] \in Event, t[j] \in Event
                   PROVE  s[i][2] < t[j][2]
        BY <1>3 DEF Precedes
      <3>1. i < j + m
        BY <1>1
      <3> QED
        BY <1>2, <1>4, <3>1 DEF Increasing
    <2> QED
      BY <2>1, <2>2, <2>3
  <1>5. ASSUME Increasing(s), Increasing(t), Precedes(s, t) PROVE Increasing(st)
    <2> SUFFICES ASSUME NEW i \in DOMAIN st, NEW j \in DOMAIN st, i < j,
                        st[i] \in Event, st[j] \in Event
                 PROVE  st[i][2] < st[j][2]
      BY DEF Increasing
    <2>0. i \in Nat /\ j \in Nat
      BY <1>1, <1>2
    <2>1. CASE i \in 1..m /\ j \in 1..m
      BY <1>1, <1>2, <1>5, <2>1 DEF Increasing
    <2>2. CASE i \in 1..m /\ j - m \in 1..n
      <3>1. st[i] = s[i] /\ st[j] = t[j - m]
        <4>1. PICK k \in 1..n : k = j - m /\ j = k + m
          BY <1>1, <2>0, <2>2
        <4> QED
          BY <1>2, <2>2, <4>1
      <3>2. st[i] \in Range(s) /\ st[j] \in Range(t)
        BY <1>3, <2>2, <3>1
      <3> QED
        BY <1>5, <3>2 DEF Precedes
    <2>3. CASE i - m \in 1..n /\ j - m \in 1..n
      <3>1. st[i] = t[i - m] /\ st[j] = t[j - m] /\ i - m < j - m
        BY <1>1, <1>2, <2>0, <2>3
      <3> QED
        BY <1>1, <1>5, <2>3, <3>1 DEF Increasing
    <2>4. CASE i - m \in 1..n /\ j \in 1..m
      BY <1>1, <2>0, <2>4
    <2> QED
      BY <1>2, <2>1, <2>2, <2>3, <2>4
  <1> QED
    BY <1>4, <1>5 DEF st

\* The first lines of a file, and the rest.
LEMMA PartIs ==
  ASSUME NEW s \in Seq(Record), NEW n \in 0..Len(s)
  PROVE  /\ SubSeq(s, 1, n) \in Seq(Record) /\ SubSeq(s, n + 1, Len(s)) \in Seq(Record)
         /\ s = SubSeq(s, 1, n) \o SubSeq(s, n + 1, Len(s))
         /\ Range(s) = Range(SubSeq(s, 1, n)) \union Range(SubSeq(s, n + 1, Len(s)))
  <1>1. Len(s) \in Nat /\ \A i \in 1..Len(s) : s[i] \in Record
    OBVIOUS
  <1>2. SubSeq(s, 1, n) \in Seq(Record)
    BY <1>1, SubSeqProperties
  <1>3. SubSeq(s, n + 1, Len(s)) \in Seq(Record)
    <2>1. \A i \in n + 1..Len(s) : s[i] \in Record
      BY <1>1
    <2> QED
      BY <1>1, <2>1, SubSeqProperties
  <1>4. SubSeq(s, 1, n) \o SubSeq(s, n + 1, Len(s)) = SubSeq(s, 1, Len(s))
    <2>1. 1 \in 1..Len(s) + 1 /\ n \in 1 - 1..Len(s) /\ Len(s) \in n..Len(s)
      BY <1>1
    <2>2. \A k \in 1 - 1..Len(s) : \A l \in k..Len(s) :
             SubSeq(s, 1, k) \o SubSeq(s, k + 1, l) = SubSeq(s, 1, l)
      BY <2>1, ConcatAdjacentSubSeq, Zenon
    <2>3. \A l \in n..Len(s) : SubSeq(s, 1, n) \o SubSeq(s, n + 1, l) = SubSeq(s, 1, l)
      BY <2>1, <2>2, Zenon
    <2> QED
      BY <2>1, <2>3, Zenon
  <1>5. s = SubSeq(s, 1, n) \o SubSeq(s, n + 1, Len(s))
    BY <1>4, SubSeqFull
  <1>6. Range(SubSeq(s, 1, n) \o SubSeq(s, n + 1, Len(s)))
          = Range(SubSeq(s, 1, n)) \union Range(SubSeq(s, n + 1, Len(s)))
    BY <1>2, <1>3, RangeConcatenation
  <1> DEFINE head == SubSeq(s, 1, n)
             tail == SubSeq(s, n + 1, Len(s))
  <1>7. /\ head \in Seq(Record) /\ tail \in Seq(Record) /\ s = head \o tail
        /\ Range(head \o tail) = Range(head) \union Range(tail)
    BY ONLY <1>2, <1>3, <1>5, <1>6
  <1> HIDE DEF head, tail
  <1>8. Range(s) = Range(head) \union Range(tail)
    BY <1>7
  <1> QED
    BY <1>7, <1>8 DEF head, tail

\* The rotated files, and after them the lines of tape, are in order.
InOrder(gone, tape) ==
  /\ Increasing(tape)
  /\ \A i \in DOMAIN gone :
       /\ Increasing(gone[i]) /\ Precedes(gone[i], tape)
       /\ \A j \in DOMAIN gone : i < j => Precedes(gone[i], gone[j])

Ordered(pieces) ==
  \A i \in DOMAIN pieces :
    Increasing(pieces[i]) /\ \A j \in DOMAIN pieces : i < j => Precedes(pieces[i], pieces[j])

\* The pieces are in order if they are joined.
LEMMA OrderIs ==
  ASSUME NEW gone \in Seq(Seq(Record)),
         NEW a \in Seq(Record), NEW b \in Seq(Record), NEW c \in Seq(Record)
  PROVE  Ordered(gone \o <<a, b, c>>) <=> InOrder(gone, a \o (b \o c))
  <1> DEFINE pieces == gone \o <<a, b, c>>
             tape == a \o (b \o c)
             m == Len(gone)
  <1>0. m \in Nat /\ DOMAIN gone = 1..m /\ \A i \in 1..m : gone[i] \in Seq(Record)
    OBVIOUS
  <1>1. /\ DOMAIN pieces = 1..m + 3
        /\ \A i \in 1..m : pieces[i] = gone[i]
        /\ pieces[m + 1] = a /\ pieces[m + 2] = b /\ pieces[m + 3] = c
    <2>1. <<a, b, c>> \in Seq(Seq(Record)) /\ Len(<<a, b, c>>) = 3
      OBVIOUS
    <2>2. /\ pieces \in Seq(Seq(Record)) /\ Len(pieces) = m + 3
          /\ \A i \in 1..m + 3 : pieces[i] = IF i <= m THEN gone[i] ELSE <<a, b, c>>[i - m]
      BY <2>1, ConcatProperties
    <2>3. m + 1 - m = 1 /\ m + 2 - m = 2 /\ m + 3 - m = 3
      BY <1>0
    <2>4. m + 1 \in 1..m + 3 /\ m + 2 \in 1..m + 3 /\ m + 3 \in 1..m + 3
      BY <1>0
    <2>5. \A i \in 1..m : i \in 1..m + 3 /\ i <= m
      BY <1>0
    <2>6. ~(m + 1 <= m) /\ ~(m + 2 <= m) /\ ~(m + 3 <= m)
      BY <1>0
    <2> QED
      BY <2>2, <2>3, <2>4, <2>5, <2>6
  <1>2. /\ b \o c \in Seq(Record)
        /\ Increasing(tape) <=> /\ Increasing(a) /\ Increasing(b) /\ Increasing(c)
                                /\ Precedes(a, b) /\ Precedes(a, c) /\ Precedes(b, c)
        /\ \A u : Precedes(u, tape) <=> Precedes(u, a) /\ Precedes(u, b) /\ Precedes(u, c)
    <2>1. b \o c \in Seq(Record)
      BY JoinedPrecede
    <2>2. /\ Increasing(b \o c) <=> Increasing(b) /\ Increasing(c) /\ Precedes(b, c)
          /\ Increasing(tape) <=> Increasing(a) /\ Increasing(b \o c) /\ Precedes(a, b \o c)
      BY <2>1, JoinedIncrease
    <2>3. /\ \A u : Precedes(u, b \o c) <=> Precedes(u, b) /\ Precedes(u, c)
          /\ \A u : Precedes(u, tape) <=> Precedes(u, a) /\ Precedes(u, b \o c)
      BY <2>1, JoinedPrecede
    <2> QED
      BY <2>1, <2>2, <2>3
  <1> HIDE DEF m, pieces, tape
  <1>3. \A i \in 1..m + 3 : i \in 1..m \/ i \in {m + 1, m + 2, m + 3}
    BY <1>0
  <1>4. ASSUME Ordered(pieces) PROVE InOrder(gone, tape)
    <2>1. m + 1 \in DOMAIN pieces /\ m + 2 \in DOMAIN pieces /\ m + 3 \in DOMAIN pieces
      BY <1>0, <1>1
    <2>2. m + 1 < m + 2 /\ m + 1 < m + 3 /\ m + 2 < m + 3
      BY <1>0
    <2>3. Increasing(tape)
      BY <1>1, <1>2, <1>4, <2>1, <2>2 DEF Ordered
    <2>4. \A i \in 1..m : i \in DOMAIN pieces /\ i < m + 1 /\ i < m + 2 /\ i < m + 3
      BY <1>0, <1>1
    <2>5. \A i \in 1..m : Precedes(gone[i], tape)
      BY <1>1, <1>2, <1>4, <2>1, <2>4 DEF Ordered
    <2>6. \A i \in 1..m : Increasing(gone[i])
      BY <1>1, <1>4, <2>4 DEF Ordered
    <2>7. \A i, j \in 1..m : i < j => Precedes(gone[i], gone[j])
      BY <1>1, <1>4, <2>4 DEF Ordered
    <2> QED
      BY <1>0, <2>3, <2>5, <2>6, <2>7 DEF InOrder
  <1>5. ASSUME InOrder(gone, tape) PROVE Ordered(pieces)
    <2> SUFFICES ASSUME NEW i \in 1..m + 3
                 PROVE  /\ Increasing(pieces[i])
                        /\ \A j \in 1..m + 3 : i < j => Precedes(pieces[i], pieces[j])
      BY <1>1 DEF Ordered
    <2>1. Increasing(pieces[i])
      BY <1>0, <1>1, <1>2, <1>3, <1>5 DEF InOrder
    <2>2. ASSUME NEW j \in 1..m + 3, i < j PROVE Precedes(pieces[i], pieces[j])
      <3>1. CASE i \in 1..m
        BY <1>0, <1>1, <1>2, <1>3, <1>5, <2>2, <3>1 DEF InOrder
      <3>2. CASE i = m + 1
        <4>1. j = m + 2 \/ j = m + 3
          BY <1>0, <2>2, <3>2
        <4> QED
          BY <1>1, <1>2, <1>5, <3>2, <4>1 DEF InOrder
      <3>3. CASE i = m + 2
        <4>1. j = m + 3
          BY <1>0, <2>2, <3>3
        <4> QED
          BY <1>1, <1>2, <1>5, <3>3, <4>1 DEF InOrder
      <3>4. CASE i = m + 3
        BY <1>0, <2>2, <3>4
      <3> QED
        BY <1>3, <3>1, <3>2, <3>3, <3>4
    <2> QED
      BY <2>1, <2>2
  <1> QED
    BY <1>4, <1>5 DEF pieces, tape

\* The lines of the rotated files.
FileLines(gone) == UNION {Range(gone[i]) : i \in DOMAIN gone}

\* Lines that are cut off at the end leave the rest in order.
LEMMA FewerInOrder ==
  ASSUME NEW gone, NEW s \in Seq(Record), NEW t \in Seq(Record), InOrder(gone, s \o t)
  PROVE  InOrder(gone, s)
  <1>1. Increasing(s)
    BY JoinedIncrease DEF InOrder
  <1>2. \A i \in DOMAIN gone : Precedes(gone[i], s)
    BY JoinedPrecede DEF InOrder
  <1> QED
    BY <1>1, <1>2 DEF InOrder

\* A line that comes after all there are joins at the end.
LEMMA NextInOrder ==
  ASSUME NEW gone, NEW s \in Seq(Record), NEW x \in Record, InOrder(gone, s),
         \A y \in (FileLines(gone) \union Range(s)) \intersect Event : x \in Event => y[2] < x[2]
  PROVE  InOrder(gone, s \o <<x>>)
  <1>1. <<x>> \in Seq(Record) /\ Range(<<x>>) = {x} /\ Increasing(<<x>>)
    BY OneLine
  <1>2. Precedes(s, <<x>>)
    BY <1>1 DEF Precedes
  <1>3. \A i \in DOMAIN gone : Precedes(gone[i], <<x>>)
    BY <1>1 DEF Precedes, FileLines
  <1>4. Increasing(s \o <<x>>)
    BY <1>1, <1>2, JoinedIncrease DEF InOrder
  <1>5. \A i \in DOMAIN gone : Precedes(gone[i], s \o <<x>>)
    BY <1>1, <1>3, JoinedPrecede DEF InOrder
  <1> QED
    BY <1>4, <1>5 DEF InOrder

\* The live file becomes the last of the rotated ones.
LEMMA RotatedInOrder ==
  ASSUME NEW gone \in Seq(Seq(Record)), NEW s \in Seq(Record), NEW t \in Seq(Record),
         InOrder(gone, s \o t)
  PROVE  /\ Append(gone, s) \in Seq(Seq(Record))
         /\ InOrder(Append(gone, s), t)
         /\ FileLines(Append(gone, s)) = FileLines(gone) \union Range(s)
  <1> DEFINE m == Len(gone)
             new == Append(gone, s)
  <1>1. /\ m \in Nat /\ DOMAIN gone = 1..m
        /\ new \in Seq(Seq(Record)) /\ DOMAIN new = 1..m + 1
        /\ new[m + 1] = s /\ \A i \in 1..m : new[i] = gone[i]
    OBVIOUS
  <1>2. /\ Increasing(s) /\ Increasing(t) /\ Precedes(s, t)
        /\ \A i \in 1..m : /\ Increasing(gone[i]) /\ Precedes(gone[i], s) /\ Precedes(gone[i], t)
                           /\ \A j \in 1..m : i < j => Precedes(gone[i], gone[j])
    BY <1>1, JoinedIncrease, JoinedPrecede DEF InOrder
  <1> HIDE DEF m, new
  <1>3. \A i \in 1..m + 1 : i \in 1..m \/ i = m + 1
    BY <1>1
  <1>4. InOrder(new, t)
    <2> SUFFICES ASSUME NEW i \in 1..m + 1
                 PROVE  /\ Increasing(new[i]) /\ Precedes(new[i], t)
                        /\ \A j \in 1..m + 1 : i < j => Precedes(new[i], new[j])
      BY <1>1, <1>2 DEF InOrder
    <2>1. CASE i \in 1..m
      BY <1>1, <1>2, <1>3, <2>1
    <2>2. CASE i = m + 1
      <3>1. \A j \in 1..m + 1 : ~(i < j)
        BY <1>1, <2>2
      <3> QED
        BY <1>1, <1>2, <2>2, <3>1
    <2> QED
      BY <1>3, <2>1, <2>2
  <1>5. FileLines(new) = FileLines(gone) \union Range(s)
    <2>1. 1..m + 1 = 1..m \union {m + 1}
      BY <1>1
    <2> QED
      BY <1>1, <2>1 DEF FileLines
  <1> QED
    BY <1>1, <1>4, <1>5 DEF new

\* Files that are removed leave the others in order, and their own lines are known.
LEMMA RemovedInOrder ==
  ASSUME NEW gone \in Seq(Seq(Record)), NEW s \in Seq(Record), InOrder(gone, s),
         NEW R \in SUBSET DOMAIN gone, NEW left,
         left = [i \in DOMAIN gone |-> IF i \in R THEN <<>> ELSE gone[i]]
  PROVE  /\ left \in Seq(Seq(Record)) /\ InOrder(left, s)
         /\ FileLines(left) \subseteq FileLines(gone)
         /\ FileLines(gone) \subseteq FileLines(left) \union UNION {Range(gone[i]) : i \in R}
         /\ UNION {Range(gone[i]) : i \in R} \subseteq Record
  <1>1. /\ DOMAIN gone = 1..Len(gone) /\ Len(gone) \in Nat
        /\ \A i \in DOMAIN gone : gone[i] \in Seq(Record)
    OBVIOUS
  <1>2. DOMAIN left = DOMAIN gone /\ \A i \in DOMAIN gone : left[i] = IF i \in R THEN <<>> ELSE gone[i]
    OBVIOUS
  <1>3. /\ <<>> \in Seq(Record) /\ Range(<<>>) = {} /\ Increasing(<<>>)
        /\ \A t : Precedes(<<>>, t) /\ Precedes(t, <<>>)
    BY NoLines
  <1>4. left \in Seq(Seq(Record))
    <2>1. left \in [1..Len(gone) -> Seq(Record)]
      BY <1>1, <1>3
    <2> QED
      BY <1>1, <2>1
  <1>5. InOrder(left, s)
    BY <1>2, <1>3 DEF InOrder
  <1>6. FileLines(left) \subseteq FileLines(gone)
    BY <1>2, <1>3 DEF FileLines
  <1>7. FileLines(gone) \subseteq FileLines(left) \union UNION {Range(gone[i]) : i \in R}
    BY <1>2 DEF FileLines
  <1>8. UNION {Range(gone[i]) : i \in R} \subseteq Record
    BY <1>1, LinesAre
  <1> QED
    BY <1>4, <1>5, <1>6, <1>7, <1>8

-----------------------------------------------------------------------------
(* The sink.                                                               *)

Tape == live \o (InFlight \o pending)
Held == Stored \union Range(pending) \union Range(InFlight)
OneChunk == InFlight = <<>> \/ pending = <<>>

SinkInv == SinkTypeOK(Record) /\ EventsInOrder /\ OneChunk

\* No line is forgotten, and none appears but the added ones.
Kept(added) ==
  /\ Held' \subseteq Held \union added
  /\ Held \union pruned \union lost \union added \subseteq Held' \union pruned' \union lost'

\* A flush at an operation has lines, one that is over has none.
LEMMA FlushIs ==
  ASSUME SinkTypeOK(Record)
  PROVE  /\ io # None => io \in FlushOf(Record) /\ InFlight = io.chunk
         /\ io = None => InFlight = <<>>
         /\ InFlight \in Seq(Record) /\ Len(InFlight) \in Nat
         /\ Settled => InFlight = <<>>
         /\ \A operation \in Operation : Doing(operation) => InFlight # <<>>
  <1>1. io # None => io \in FlushOf(Record) /\ InFlight = io.chunk /\ io.chunk \in Seq(Record)
    BY DEF SinkTypeOK, InFlight, FlushOf
  <1>2. io = None => InFlight = <<>>
    BY DEF InFlight
  <1>3. InFlight \in Seq(Record)
    BY <1>1, <1>2, NoLines
  <1> QED
    BY <1>1, <1>2, <1>3 DEF SinkTypeOK, Settled, Doing, Operation

\* What the sink has is on the tape or in the rotated files, and in order if those are.
LEMMA HeldIs ==
  ASSUME SinkTypeOK(Record)
  PROVE  /\ Tape \in Seq(Record)
         /\ Held = FileLines(rotated) \union Range(Tape)
         /\ EventsInOrder <=> InOrder(rotated, Tape)
  <1>1. /\ live \in Seq(Record) /\ pending \in Seq(Record) /\ rotated \in Seq(Seq(Record))
        /\ InFlight \in Seq(Record)
    BY FlushIs DEF SinkTypeOK
  <1>2. InFlight \o pending \in Seq(Record)
    BY <1>1, JoinedPrecede
  <1>3. Tape \in Seq(Record)
    BY <1>1, <1>2, JoinedPrecede DEF Tape
  <1>4. Range(Tape) = Range(live) \union Range(InFlight) \union Range(pending)
    <2>1. Range(InFlight \o pending) = Range(InFlight) \union Range(pending)
      BY <1>1, JoinedPrecede
    <2>2. Range(live \o (InFlight \o pending)) = Range(live) \union Range(InFlight \o pending)
      BY <1>1, <1>2, JoinedPrecede
    <2> QED
      BY <2>1, <2>2 DEF Tape
  <1>5. EventsInOrder <=> InOrder(rotated, Tape)
    BY <1>1, OrderIs DEF EventsInOrder, Pieces, Ordered, Tape
  <1> QED
    BY <1>3, <1>4, <1>5 DEF Held, Stored, FileLines

\* The same after a step.
LEMMA HeldThen ==
  ASSUME SinkTypeOK(Record)'
  PROVE  /\ Held' = FileLines(rotated') \union Range(Tape')
         /\ EventsInOrder' <=> InOrder(rotated', Tape')
  <1>1. /\ live' \in Seq(Record) /\ pending' \in Seq(Record) /\ rotated' \in Seq(Seq(Record))
        /\ InFlight' \in Seq(Record)
    <2>1. io' # None => InFlight' = io'.chunk /\ io'.chunk \in Seq(Record)
      BY DEF SinkTypeOK, InFlight, FlushOf
    <2>2. io' = None => InFlight' = <<>>
      BY DEF InFlight
    <2> QED
      BY <2>1, <2>2, NoLines DEF SinkTypeOK
  <1>2. InFlight' \o pending' \in Seq(Record)
    BY <1>1, JoinedPrecede
  <1>4. Range(Tape') = Range(live') \union Range(InFlight') \union Range(pending')
    <2>1. Range(InFlight' \o pending') = Range(InFlight') \union Range(pending')
      BY <1>1, JoinedPrecede
    <2>2. Range(live' \o (InFlight' \o pending')) = Range(live') \union Range(InFlight' \o pending')
      BY <1>1, <1>2, JoinedPrecede
    <2> QED
      BY <2>1, <2>2 DEF Tape
  <1>5. EventsInOrder' <=> InOrder(rotated', Tape')
    BY <1>1, OrderIs DEF EventsInOrder, Pieces, Ordered, Tape
  <1> QED
    BY <1>4, <1>5 DEF Held, Stored, FileLines

LEMMA FlushEnds ==
  /\ Done \in FlushOf(Record) /\ Failed \in FlushOf(Record) /\ Done # None /\ Failed # None
  /\ Done.chunk = <<>> /\ Failed.chunk = <<>> /\ Done.at = "done" /\ Failed.at = "failed"
  <1>1. Done \in FlushOf(Record) /\ Failed \in FlushOf(Record)
    BY NoLines DEF Done, Failed, FlushOf
  <1> QED
    BY <1>1, RecorderAssumption DEF Done, Failed

\* The lines a flush takes are all of it.
LEMMA BeginIs ==
  ASSUME NEW lines \in Seq(Record), Begin(lines)
  PROVE  /\ pending' = <<>> /\ io' # None /\ InFlight' = lines
         /\ io' \in FlushOf(Record) /\ (io'.at \in {"done", "failed"} <=> io'.chunk = <<>>)
  <1>1. CASE lines = <<>>
    BY <1>1, FlushEnds DEF Begin, InFlight
  <1>2. CASE lines # <<>>
    <2> DEFINE at == IF opened THEN Ready(size, lines) ELSE "open"
    <2>1. at \in {"open", "close", "write"}
      BY DEF Ready
    <2>2. io' = [at |-> at, chunk |-> lines] /\ pending' = <<>>
      BY <1>2 DEF Begin
    <2> HIDE DEF at
    <2>3. io' \in FlushOf(Record) /\ io'.at = at /\ io'.chunk = lines
      BY <2>1, <2>2 DEF FlushOf, Operation
    <2>4. io' # None
      BY <2>3, RecorderAssumption
    <2> QED
      BY <1>2, <2>1, <2>2, <2>3, <2>4 DEF InFlight
  <1> QED
    BY <1>1, <1>2

\* A record put to the sink is the last of its lines, or lost to a closed sink.
LEMMA PutKeeps ==
  ASSUME SinkInv, io = None, NEW x \in Record, Put(x),
         \A y \in Held \intersect Event : x \in Event => y[2] < x[2]
  PROVE  SinkInv' /\ Kept({x}) /\ io' # None
  <1>1. /\ live \in Seq(Record) /\ pending \in Seq(Record) /\ rotated \in Seq(Seq(Record))
        /\ Len(pending) \in Nat /\ InFlight = <<>>
    BY FlushIs DEF SinkInv, SinkTypeOK
  <1>2. UNCHANGED <<opened, sinkClosed, size, live, rotated, pruned>>
    BY DEF Put
  <1>3. Append(pending, x) \in Seq(Record) /\ Append(pending, x) = pending \o <<x>>
    BY <1>1, AppendProperties, AppendIsConcat
  <1>4. Tape = live \o pending /\ <<>> \o pending = pending
    BY <1>1, ConcatEmptySeq DEF Tape
  <1>5. CASE sinkClosed
    <2>1. io' = Failed /\ pending' = pending /\ lost' = lost \union {x} /\ InFlight' = <<>>
      BY <1>5, FlushEnds DEF Put, InFlight
    <2>2. SinkTypeOK(Record)'
      BY <1>2, <2>1, FlushEnds DEF SinkInv, SinkTypeOK
    <2>3. Tape' = Tape /\ Held' = Held /\ OneChunk'
      BY <1>1, <1>2, <2>1 DEF Tape, Held, Stored, OneChunk
    <2>4. EventsInOrder'
      BY <1>2, <2>2, <2>3, HeldIs, HeldThen DEF SinkInv
    <2> QED
      BY <1>2, <2>1, <2>2, <2>3, <2>4, FlushEnds DEF SinkInv, Kept
  <1>6. CASE ~sinkClosed
    <2>1. /\ lost' = lost /\ io' # None /\ OneChunk'
          /\ Tape' = live \o (pending \o <<x>>)
          /\ SinkTypeOK(Record)'
      <3>1. CASE Len(pending) + 1 >= BufferBytes
        <4>1. Begin(Append(pending, x)) /\ lost' = lost
          BY <1>6, <3>1 DEF Put
        <4>2. /\ pending' = <<>> /\ io' # None /\ InFlight' = Append(pending, x)
              /\ io' \in FlushOf(Record) /\ (io'.at \in {"done", "failed"} <=> io'.chunk = <<>>)
          BY <1>3, <4>1, BeginIs
        <4>3. SinkTypeOK(Record)'
          <5>1. <<>> \in Seq(Record) /\ Len(<<>>) = 0
            BY EmptySeq
          <5>2. 0 <= BufferBytes
            BY SinkAssumption
          <5> QED
            BY <1>2, <1>6, <4>1, <4>2, <5>1, <5>2 DEF SinkInv, SinkTypeOK
        <4>4. Tape' = live \o (Append(pending, x) \o <<>>)
          BY <1>2, <4>2 DEF Tape
        <4>5. Append(pending, x) \o <<>> = Append(pending, x)
          BY <1>3, ConcatEmptySeq
        <4> QED
          BY <1>3, <4>1, <4>2, <4>3, <4>4, <4>5 DEF OneChunk
      <3>2. CASE ~(Len(pending) + 1 >= BufferBytes)
        <4>1. io' = Done /\ pending' = Append(pending, x) /\ lost' = lost /\ InFlight' = <<>>
          BY <1>6, <3>2, FlushEnds DEF Put, InFlight
        <4>2. Len(Append(pending, x)) <= BufferBytes
          BY <1>1, <3>2, SinkAssumption
        <4>3. SinkTypeOK(Record)'
          BY <1>2, <1>3, <1>6, <4>1, <4>2, FlushEnds DEF SinkInv, SinkTypeOK
        <4>4. Tape' = live \o (<<>> \o Append(pending, x))
          BY <1>2, <4>1 DEF Tape
        <4>5. <<>> \o Append(pending, x) = Append(pending, x)
          BY <1>3, ConcatEmptySeq
        <4> QED
          BY <1>3, <4>1, <4>3, <4>4, <4>5, FlushEnds DEF OneChunk
      <3> QED
        BY <3>1, <3>2
    <2>2. <<x>> \in Seq(Record) /\ Range(<<x>>) = {x}
      BY OneLine
    <2>3. Tape' = Tape \o <<x>>
      BY <1>1, <1>4, <2>1, <2>2, ConcatAssociative
    <2>4. Tape \in Seq(Record) /\ Held = FileLines(rotated) \union Range(Tape) /\ InOrder(rotated, Tape)
      BY HeldIs DEF SinkInv
    <2>5. InOrder(rotated, Tape \o <<x>>)
      BY <2>4, NextInOrder
    <2>6. Range(Tape \o <<x>>) = Range(Tape) \union {x}
      BY <2>2, <2>4, JoinedPrecede
    <2>7. EventsInOrder' /\ Held' = Held \union {x}
      BY <1>2, <2>1, <2>3, <2>4, <2>5, <2>6, HeldThen
    <2> QED
      BY <1>2, <2>1, <2>7 DEF SinkInv, Kept
  <1> QED
    BY <1>5, <1>6

\* A flush takes the pending lines as they are.
LEMMA FlushBegins ==
  ASSUME SinkInv, io = None, BeginFlush
  PROVE  SinkInv' /\ Kept({}) /\ io' # None
  <1>1. /\ live \in Seq(Record) /\ pending \in Seq(Record) /\ InFlight = <<>>
    BY FlushIs DEF SinkInv, SinkTypeOK
  <1>2. UNCHANGED <<opened, sinkClosed, size, live, rotated, pruned, lost>> /\ Begin(pending)
    BY DEF BeginFlush, files
  <1>3. /\ pending' = <<>> /\ io' # None /\ InFlight' = pending
        /\ io' \in FlushOf(Record) /\ (io'.at \in {"done", "failed"} <=> io'.chunk = <<>>)
    BY <1>1, <1>2, BeginIs
  <1>4. SinkTypeOK(Record)'
    <2>1. <<>> \in Seq(Record) /\ Len(<<>>) = 0
      BY EmptySeq
    <2>2. 0 <= BufferBytes
      BY SinkAssumption
    <2> QED
      BY <1>2, <1>3, <2>1, <2>2 DEF SinkInv, SinkTypeOK
  <1>5. Tape' = Tape /\ Held' = Held /\ OneChunk'
    <2>1. pending \o <<>> = pending /\ <<>> \o pending = pending
      BY <1>1, ConcatEmptySeq
    <2>2. Range(<<>>) = {}
      BY NoLines
    <2> QED
      BY <1>1, <1>2, <1>3, <2>1, <2>2 DEF Tape, Held, Stored, OneChunk
  <1>6. EventsInOrder'
    BY <1>2, <1>4, <1>5, HeldIs, HeldThen DEF SinkInv
  <1> QED
    BY <1>2, <1>3, <1>4, <1>5, <1>6 DEF SinkInv, Kept

\* A flush that is over holds nothing.
LEMMA FlushOver ==
  ASSUME SinkInv, Settled, io' = None, UNCHANGED <<size, live, rotated, pruned, lost>>,
         \/ UNCHANGED <<pending, opened, sinkClosed>>
         \/ pending = <<>> /\ pending' = <<>> /\ opened' = FALSE /\ sinkClosed' = TRUE
  PROVE  SinkInv' /\ Kept({})
  <1>1. InFlight = <<>> /\ InFlight' = <<>> /\ pending' = pending
    BY FlushIs DEF SinkInv, InFlight
  <1>2. SinkTypeOK(Record)'
    <2>1. SinkTypeOK(Record) /\ UNCHANGED <<pending, size, live, rotated, pruned, lost>> /\ io' = None
      BY <1>1 DEF SinkInv
    <2>2. /\ opened' \in BOOLEAN /\ sinkClosed' \in BOOLEAN
          /\ sinkClosed' => ~opened' /\ pending' = <<>>
      <3>1. CASE UNCHANGED <<pending, opened, sinkClosed>>
        BY <2>1, <3>1 DEF SinkTypeOK
      <3>2. CASE pending' = <<>> /\ opened' = FALSE /\ sinkClosed' = TRUE
        BY <3>2
      <3> QED
        BY <3>1, <3>2
    <2> QED
      BY <2>1, <2>2 DEF SinkTypeOK
  <1>3. Tape' = Tape /\ Held' = Held /\ OneChunk'
    BY <1>1 DEF Tape, Held, Stored, OneChunk
  <1>4. EventsInOrder'
    BY <1>2, <1>3, HeldIs, HeldThen DEF SinkInv
  <1> QED
    BY <1>2, <1>3, <1>4 DEF SinkInv, Kept

\* An operation goes on to another: the flush keeps its lines.
LEMMA GotoIs ==
  ASSUME SinkInv, NEW operation \in Operation, \E o \in Operation : Doing(o), Goto(operation)
  PROVE  /\ io # None /\ io' # None /\ InFlight' = InFlight
         /\ io' \in FlushOf(Record) /\ (io'.at \in {"done", "failed"} <=> io'.chunk = <<>>)
         /\ pending = <<>>
  <1>1. io # None /\ io \in FlushOf(Record) /\ InFlight = io.chunk /\ InFlight # <<>>
    BY FlushIs DEF SinkInv, Doing
  <1>2. io' = [io EXCEPT !.at = operation]
    BY DEF Goto
  <1>3. io' \in FlushOf(Record) /\ io'.at = operation /\ io'.chunk = io.chunk
    BY <1>1, <1>2 DEF FlushOf
  <1>4. io' # None
    BY <1>3, RecorderAssumption
  <1> QED
    BY <1>1, <1>3, <1>4 DEF InFlight, Operation, SinkInv, OneChunk

\* Opening and closing the file move no line.
LEMMA OpenKeeps ==
  ASSUME SinkInv, ~sinkClosed, Open \/ CloseLive
  PROVE  SinkInv' /\ Kept({}) /\ io # None /\ io' # None
  <1>1. /\ UNCHANGED <<pending, sinkClosed, live, rotated, pruned, lost>>
        /\ opened' \in BOOLEAN /\ size' \in Nat
    <2>1. CASE Open
      BY <2>1, LinesAre DEF Open, files, SinkInv, SinkTypeOK
    <2>2. CASE CloseLive
      BY <2>2 DEF CloseLive, files, SinkInv, SinkTypeOK
    <2> QED
      BY <2>1, <2>2
  <1>2. PICK operation \in Operation : Goto(operation) /\ \E o \in Operation : Doing(o)
    BY DEF Open, CloseLive, Ready, Operation
  <1>3. /\ io # None /\ io' # None /\ InFlight' = InFlight
        /\ io' \in FlushOf(Record) /\ (io'.at \in {"done", "failed"} <=> io'.chunk = <<>>)
    BY <1>2, GotoIs
  <1>4. SinkTypeOK(Record)'
    BY <1>1, <1>3 DEF SinkInv, SinkTypeOK
  <1>5. Tape' = Tape /\ Held' = Held /\ OneChunk'
    BY <1>1, <1>3 DEF Tape, Held, Stored, OneChunk, SinkInv
  <1>6. EventsInOrder'
    BY <1>1, <1>4, <1>5, HeldIs, HeldThen DEF SinkInv
  <1> QED
    BY <1>1, <1>3, <1>4, <1>5, <1>6 DEF SinkInv, Kept

\* A rotated file keeps its lines and their place.
LEMMA RenameKeeps ==
  ASSUME SinkInv, ~sinkClosed, Rename
  PROVE  SinkInv' /\ Kept({}) /\ io # None /\ io' # None
  <1>1. /\ UNCHANGED <<pending, opened, sinkClosed, size, pruned, lost>>
        /\ rotated' = Append(rotated, live) /\ live' = <<>>
        /\ Goto("reopen") /\ Doing("rename") /\ "reopen" \in Operation /\ "rename" \in Operation
    BY DEF Rename, memory, Operation
  <1>2. /\ io # None /\ io' # None /\ InFlight' = InFlight
        /\ io' \in FlushOf(Record) /\ (io'.at \in {"done", "failed"} <=> io'.chunk = <<>>)
    BY <1>1, GotoIs
  <1> DEFINE rest == InFlight \o pending
  <1>3. /\ live \in Seq(Record) /\ pending \in Seq(Record) /\ rotated \in Seq(Seq(Record))
        /\ InFlight \in Seq(Record) /\ <<>> \in Seq(Record)
    BY FlushIs, NoLines DEF SinkInv, SinkTypeOK
  <1>4. rest \in Seq(Record)
    BY <1>3, JoinedPrecede
  <1>5. Tape = live \o rest /\ Tape' = rest
    <2>1. Tape' = <<>> \o rest
      BY <1>1, <1>2 DEF Tape
    <2>2. <<>> \o rest = rest
      BY <1>4, ConcatEmptySeq
    <2> QED
      BY <2>1, <2>2 DEF Tape
  <1>6. Held = FileLines(rotated) \union Range(Tape) /\ InOrder(rotated, Tape)
    BY HeldIs DEF SinkInv
  <1> HIDE DEF rest
  <1>7. /\ rotated' \in Seq(Seq(Record)) /\ InOrder(rotated', rest)
        /\ FileLines(rotated') = FileLines(rotated) \union Range(live)
    BY <1>1, <1>3, <1>4, <1>5, <1>6, RotatedInOrder
  <1>8. SinkTypeOK(Record)'
    BY <1>1, <1>2, <1>3, <1>7 DEF SinkInv, SinkTypeOK
  <1>9. EventsInOrder' /\ Held' = Held
    <2>1. Range(Tape) = Range(live) \union Range(rest)
      BY <1>3, <1>4, <1>5, JoinedPrecede
    <2>2. Held' = FileLines(rotated') \union Range(Tape') /\ (EventsInOrder' <=> InOrder(rotated', Tape'))
      BY <1>8, HeldThen
    <2> QED
      BY <1>5, <1>6, <1>7, <2>1, <2>2
  <1>10. OneChunk'
    BY <1>1, <1>2 DEF OneChunk, SinkInv
  <1> QED
    BY <1>1, <1>2, <1>8, <1>9, <1>10 DEF SinkInv, Kept

\* The lines of a pruned file are in pruned.
LEMMA PruneKeeps ==
  ASSUME SinkInv, ~sinkClosed, Prune
  PROVE  SinkInv' /\ Kept({}) /\ io # None /\ io' # None
  <1>1. /\ UNCHANGED <<pending, opened, sinkClosed, size, live, lost>>
        /\ Goto("write") /\ Doing("prune") /\ "write" \in Operation /\ "prune" \in Operation
    BY DEF Prune, memory, Operation
  <1>2. PICK gone \in SUBSET DOMAIN rotated :
          /\ rotated' = [i \in DOMAIN rotated |-> IF i \in gone THEN <<>> ELSE rotated[i]]
          /\ pruned' = pruned \union UNION {Range(rotated[i]) : i \in gone}
    <2> DEFINE excess == {i \in FilesFrom(1) : Cardinality(FilesFrom(i)) > MaxFiles}
    <2>1. excess \subseteq DOMAIN rotated
      BY DEF FilesFrom
    <2>2. \E gone \in SUBSET excess :
            /\ rotated' = [i \in DOMAIN rotated |-> IF i \in gone THEN <<>> ELSE rotated[i]]
            /\ pruned' = pruned \union UNION {Range(rotated[i]) : i \in gone}
      BY DEF Prune
    <2> HIDE DEF excess
    <2> QED
      BY <2>1, <2>2
  <1>3. /\ io # None /\ io' # None /\ InFlight' = InFlight
        /\ io' \in FlushOf(Record) /\ (io'.at \in {"done", "failed"} <=> io'.chunk = <<>>)
    BY <1>1, GotoIs
  <1>4. /\ rotated \in Seq(Seq(Record)) /\ Tape \in Seq(Record)
        /\ Held = FileLines(rotated) \union Range(Tape) /\ InOrder(rotated, Tape)
    BY HeldIs DEF SinkInv, SinkTypeOK
  <1>5. /\ rotated' \in Seq(Seq(Record)) /\ InOrder(rotated', Tape)
        /\ FileLines(rotated') \subseteq FileLines(rotated)
        /\ FileLines(rotated) \subseteq FileLines(rotated') \union UNION {Range(rotated[i]) : i \in gone}
        /\ UNION {Range(rotated[i]) : i \in gone} \subseteq Record
    BY <1>2, <1>4, RemovedInOrder
  <1>6. SinkTypeOK(Record)'
    BY <1>1, <1>2, <1>3, <1>5 DEF SinkInv, SinkTypeOK
  <1>7. Tape' = Tape /\ OneChunk'
    BY <1>1, <1>3 DEF Tape, OneChunk, SinkInv
  <1>8. EventsInOrder' /\ Held' = FileLines(rotated') \union Range(Tape)
    BY <1>5, <1>6, <1>7, HeldThen
  <1>9. Kept({})
    BY <1>1, <1>2, <1>4, <1>5, <1>8 DEF Kept
  <1> QED
    BY <1>3, <1>6, <1>7, <1>8, <1>9 DEF SinkInv

\* What the live file gets is a first part of the chunk, and the flush is over.
LEMMA LandsInOrder ==
  ASSUME SinkInv, NEW n \in 0..Len(InFlight), pending = <<>>,
         live' = live \o SubSeq(InFlight, 1, n), rotated' = rotated, pending' = <<>>,
         InFlight' = <<>>, SinkTypeOK(Record)'
  PROVE  /\ EventsInOrder' /\ OneChunk'
         /\ Held' = Stored \union Range(SubSeq(InFlight, 1, n))
         /\ Held' \subseteq Held
         /\ Held \subseteq Held' \union Range(SubSeq(InFlight, n + 1, Len(InFlight)))
  <1> DEFINE head == SubSeq(InFlight, 1, n)
             tail == SubSeq(InFlight, n + 1, Len(InFlight))
  <1>1. /\ live \in Seq(Record) /\ InFlight \in Seq(Record)
    BY FlushIs DEF SinkInv, SinkTypeOK
  <1>2. /\ head \in Seq(Record) /\ tail \in Seq(Record)
        /\ InFlight = head \o tail /\ Range(InFlight) = Range(head) \union Range(tail)
    BY <1>1, PartIs
  <1> HIDE DEF head, tail
  <1>3. live \o head \in Seq(Record) /\ Range(live \o head) = Range(live) \union Range(head)
    BY <1>1, <1>2, JoinedPrecede
  <1>4. Tape' = live \o head
    <2>1. Tape' = (live \o head) \o (<<>> \o <<>>)
      BY DEF Tape, head
    <2>2. <<>> \o <<>> = <<>>
      BY NoLines, ConcatEmptySeq
    <2>3. (live \o head) \o <<>> = live \o head
      BY <1>3, ConcatEmptySeq
    <2> QED
      BY <2>1, <2>2, <2>3
  <1>5. Tape = (live \o head) \o tail
    <2>1. Tape = live \o (InFlight \o <<>>)
      BY DEF Tape
    <2>2. InFlight \o <<>> = InFlight
      BY <1>1, ConcatEmptySeq
    <2>3. (live \o head) \o tail = live \o (head \o tail)
      BY <1>1, <1>2, ConcatAssociative
    <2> QED
      BY <1>2, <2>1, <2>2, <2>3
  <1>6. InOrder(rotated, live \o head)
    <2>1. InOrder(rotated, (live \o head) \o tail)
      BY <1>5, HeldIs DEF SinkInv
    <2> QED
      BY <1>2, <1>3, <2>1, FewerInOrder
  <1>7. EventsInOrder' /\ Held' = FileLines(rotated) \union Range(live \o head)
    BY <1>4, <1>6, HeldThen
  <1>8. Stored = FileLines(rotated) \union Range(live) /\ Held = Stored \union Range(InFlight)
    BY NoLines DEF Stored, FileLines, Held
  <1> QED
    BY <1>2, <1>3, <1>7, <1>8 DEF OneChunk, head, tail

\* A chunk that is written is the end of the live file.
LEMMA WriteLands ==
  ASSUME SinkInv, ~sinkClosed, Write
  PROVE  SinkInv' /\ Kept({}) /\ io # None /\ io' # None
  <1>1. /\ UNCHANGED <<pending, opened, sinkClosed, rotated, pruned, lost>>
        /\ live' = live \o io.chunk /\ size' = size + Len(io.chunk) /\ io' = Done
        /\ Doing("write") /\ io # None /\ "write" \in Operation
    BY DEF Write, Doing, Operation
  <1>2. /\ InFlight = io.chunk /\ InFlight \in Seq(Record) /\ Len(InFlight) \in Nat
        /\ InFlight # <<>> /\ pending = <<>>
    BY <1>1, FlushIs DEF SinkInv, OneChunk
  <1>3. InFlight' = <<>> /\ io' # None
    BY <1>1, FlushEnds DEF InFlight
  <1>4. SinkTypeOK(Record)'
    <2>1. live' \in Seq(Record) /\ size' \in Nat
      BY <1>1, <1>2, JoinedPrecede DEF SinkInv, SinkTypeOK
    <2> QED
      BY <1>1, <2>1, FlushEnds DEF SinkInv, SinkTypeOK
  <1>5. SubSeq(InFlight, 1, Len(InFlight)) = InFlight
    BY <1>2, SubSeqFull
  <1>6. Len(InFlight) \in 0..Len(InFlight) /\ pending' = <<>>
        /\ live' = live \o SubSeq(InFlight, 1, Len(InFlight))
    BY <1>1, <1>2, <1>5
  <1>7. /\ EventsInOrder' /\ OneChunk' /\ Held' = Stored \union Range(InFlight)
        /\ Held' \subseteq Held
    BY <1>1, <1>2, <1>3, <1>4, <1>5, <1>6, LandsInOrder
  <1>8. Held = Stored \union Range(InFlight)
    BY <1>2, NoLines DEF Held
  <1> QED
    BY <1>1, <1>3, <1>4, <1>7, <1>8 DEF SinkInv, Kept

\* What a failed operation did not write is in lost.
LEMMA FailureKeeps ==
  ASSUME SinkInv, ~sinkClosed, OperationFails
  PROVE  SinkInv' /\ Kept({}) /\ io # None /\ io' # None
  <1>1. /\ UNCHANGED <<pending, sinkClosed, size, rotated, pruned>>
        /\ opened' = (opened /\ ~Doing("close")) /\ io' = Failed
        /\ \E operation \in Operation : Doing(operation)
    BY SinkAssumption DEF OperationFails
  <1>2. io # None /\ InFlight = io.chunk /\ InFlight \in Seq(Record) /\ Len(InFlight) \in Nat \ {0}
        /\ InFlight # <<>> /\ pending = <<>>
    <2>1. io # None /\ InFlight # <<>> /\ pending = <<>>
      BY <1>1, FlushIs DEF SinkInv, OneChunk, Doing
    <2> QED
      BY <2>1, FlushIs, EmptySeq DEF SinkInv
  <1>3. PICK n \in 0..Len(InFlight) :
          /\ live' = live \o SubSeq(InFlight, 1, n)
          /\ lost' = lost \union Range(SubSeq(InFlight, n + 1, Len(InFlight)))
    <2>1. PICK n \in 0..(IF Doing("write") THEN Len(io.chunk) - 1 ELSE 0) :
            /\ live' = live \o SubSeq(io.chunk, 1, n)
            /\ lost' = lost \union Range(SubSeq(io.chunk, n + 1, Len(io.chunk)))
      BY DEF OperationFails
    <2>2. n \in 0..Len(InFlight)
      BY <1>2, <2>1
    <2> QED
      BY <1>2, <2>1, <2>2
  <1>4. InFlight' = <<>> /\ io' # None
    BY <1>1, FlushEnds DEF InFlight
  <1>5. /\ SubSeq(InFlight, 1, n) \in Seq(Record) /\ SubSeq(InFlight, n + 1, Len(InFlight)) \in Seq(Record)
    BY <1>2, PartIs
  <1>6. SinkTypeOK(Record)'
    <2>1. live' \in Seq(Record)
      BY <1>3, <1>5, JoinedPrecede DEF SinkInv, SinkTypeOK
    <2>2. lost' \subseteq Record
      BY <1>3, <1>5, LinesAre DEF SinkInv, SinkTypeOK
    <2> QED
      BY <1>1, <2>1, <2>2, FlushEnds DEF SinkInv, SinkTypeOK
  <1>7. /\ EventsInOrder' /\ OneChunk'
        /\ Held' \subseteq Held
        /\ Held \subseteq Held' \union Range(SubSeq(InFlight, n + 1, Len(InFlight)))
    BY <1>1, <1>2, <1>3, <1>4, <1>6, LandsInOrder
  <1> QED
    BY <1>1, <1>2, <1>3, <1>4, <1>6, <1>7 DEF SinkInv, Kept

\* No file operation is under way once the sink is closed.
LEMMA FlushingKeeps ==
  ASSUME SinkInv, Flushing, SinkRests
  PROVE  SinkInv' /\ Kept({}) /\ io # None /\ io' # None
  <1>1. ~sinkClosed
    <2>1. \E operation \in Operation : Doing(operation)
      BY SinkAssumption DEF Flushing, Open, CloseLive, Rename, Prune, Write, OperationFails, Operation
    <2> QED
      BY <2>1 DEF SinkRests, Doing, Operation
  <1> QED
    BY <1>1, OpenKeeps, RenameKeeps, PruneKeeps, WriteLands, FailureKeeps DEF Flushing

\* The files survive a crash, with what had landed in them.
LEMMA FilesSurvive ==
  ASSUME SinkInv, Crash
  PROVE  SinkInv' /\ Held' = Stored' /\ Held' \subseteq Held /\ io' = None
  <1>1. /\ UNCHANGED <<rotated, pruned, lost>>
        /\ pending' = <<>> /\ opened' = FALSE /\ sinkClosed' = FALSE /\ size' = 0 /\ io' = None
        /\ InFlight' = <<>>
    BY DEF Crash, InFlight
  <1>2. Held' = Stored'
    BY <1>1, NoLines DEF Held
  <1>3. SinkTypeOK(Record)' <=> live' \in Seq(Record)
    <2>1. <<>> \in Seq(Record) /\ Len(<<>>) = 0
      BY EmptySeq
    <2>2. 0 <= BufferBytes /\ 0 \in Nat
      BY SinkAssumption
    <2> QED
      BY <1>1, <2>1, <2>2 DEF SinkInv, SinkTypeOK
  <1>4. CASE Doing("write")
    <2>1. io # None /\ InFlight = io.chunk /\ InFlight \in Seq(Record) /\ pending = <<>>
      BY <1>4, FlushIs DEF SinkInv, OneChunk, Doing, Operation
    <2>2. PICK n \in 0..Len(InFlight) : live' = live \o SubSeq(InFlight, 1, n)
      BY <1>4, <2>1 DEF Crash
    <2>3. SinkTypeOK(Record)'
      BY <1>3, <2>1, <2>2, PartIs, JoinedPrecede DEF SinkInv, SinkTypeOK
    <2>4. EventsInOrder' /\ OneChunk' /\ Held' \subseteq Held
      BY <1>1, <2>1, <2>2, <2>3, LandsInOrder
    <2> QED
      BY <1>1, <1>2, <2>3, <2>4 DEF SinkInv
  <1>5. CASE ~Doing("write")
    <2>1. live' = live /\ live \in Seq(Record)
      BY <1>5 DEF Crash, SinkInv, SinkTypeOK
    <2>2. SinkTypeOK(Record)'
      BY <1>3, <2>1
    <2>3. Held' \subseteq Held
      BY <1>1, <1>2, <2>1 DEF Held, Stored
    <2>4. Tape' = live
      <3>1. Tape' = live \o (<<>> \o <<>>)
        BY <1>1, <2>1 DEF Tape
      <3>2. <<>> \o <<>> = <<>> /\ live \o <<>> = live
        BY <2>1, NoLines, ConcatEmptySeq
      <3> QED
        BY <3>1, <3>2
    <2>5. InOrder(rotated, live)
      <3>1. InFlight \o pending \in Seq(Record)
        BY FlushIs, JoinedPrecede DEF SinkInv, SinkTypeOK
      <3>2. InOrder(rotated, live \o (InFlight \o pending))
        BY HeldIs DEF SinkInv, Tape
      <3> QED
        BY <2>1, <3>1, <3>2, FewerInOrder
    <2>6. EventsInOrder'
      BY <1>1, <2>2, <2>4, <2>5, HeldThen
    <2> QED
      BY <1>1, <1>2, <2>2, <2>3, <2>6 DEF SinkInv, OneChunk
  <1> QED
    BY <1>4, <1>5

-----------------------------------------------------------------------------
(* The recorder's counts.                                                  *)

\* The sink is at work for a write, for the hook or for the close.
Paced == io # None <=> writing # None \/ Running("sync") \/ Running("closing")

\* The buffer holds events of this process, in their order.
Queued ==
  /\ \A i \in DOMAIN buffer : buffer[i] \in born + 1..next
  /\ \A i, j \in DOMAIN buffer : i < j => buffer[i] < buffer[j]

\* A drain writes the event that was next.
DrainWrites ==
  Running("drain") /\ writing # None =>
    /\ writing \in Event /\ writing[2] \in born + 1..next
    /\ \A i \in DOMAIN buffer : writing[2] < buffer[i]

\* The events the sink has come before those that wait.
Behind ==
  \A x \in Held \intersect Event : x[2] <= next /\ \A i \in DOMAIN buffer : x[2] < buffer[i]

\* Events to come are counted nowhere.
Unborn == \A n \in 1..MaxEvents : n > next => fate[n] = <<"open", None>>

AInv ==
  /\ SinkInv /\ RecorderTypeOK /\ EventsAreCounted /\ RecordsAreTraced
  /\ Paced /\ Queued /\ DrainWrites /\ Behind /\ Unborn /\ IsFiniteSet(LiveCells)

\* The events from b + 1 to t that f places at place.
Placed(f, b, t, place) == {n \in b + 1..t : f[n] = place}

Nowhere == <<"open", None>>

\* There are no more events at a place than there may be.
LEMMA PlacedIs ==
  ASSUME NEW f, NEW b \in Nat, NEW t \in 0..MaxEvents, NEW place
  PROVE  /\ Placed(f, b, t, place) \subseteq 1..MaxEvents
         /\ IsFiniteSet(Placed(f, b, t, place)) /\ Cardinality(Placed(f, b, t, place)) \in 0..MaxEvents
  <1>1. MaxEvents \in Nat
    BY RecorderAssumption
  <1>2. Placed(f, b, t, place) \subseteq 1..MaxEvents
    BY <1>1 DEF Placed
  <1>3. IsFiniteSet(1..MaxEvents) /\ Cardinality(1..MaxEvents) = MaxEvents
    BY <1>1, FS_Interval
  <1>4. IsFiniteSet(Placed(f, b, t, place)) /\ Cardinality(Placed(f, b, t, place)) <= MaxEvents
    BY <1>2, <1>3, FS_Subset
  <1>5. Cardinality(Placed(f, b, t, place)) \in Nat
    BY <1>4, FS_CardinalityType
  <1> QED
    BY <1>1, <1>2, <1>4, <1>5

\* One event more has a place: one that had none, or a new one.
Moves(n, place, f, g, b, t, u) ==
  /\ b \in Nat /\ t \in Nat /\ u \in Nat /\ n \in Nat /\ b <= t /\ place # Nowhere
  /\ g[n] = place /\ \A m \in b + 1..u : m # n => g[m] = f[m]
  /\ \/ u = t /\ n \in Placed(f, b, t, Nowhere)
     \/ u = t + 1 /\ n = u

\* The count at the new place grows by one, and no other does.
LEMMA PlacedAnother ==
  ASSUME NEW n, NEW place, NEW f, NEW g, NEW b, NEW t, NEW u, Moves(n, place, f, g, b, t, u)
  PROVE  /\ Cardinality(Placed(g, b, u, place)) = Cardinality(Placed(f, b, t, place)) + 1
         /\ Placed(g, b, u, Nowhere) = Placed(f, b, t, Nowhere) \ {n}
         /\ \A p : p # place /\ p # Nowhere => Placed(g, b, u, p) = Placed(f, b, t, p)
  <1>1. /\ b + 1..u = (b + 1..t) \union {n}
        /\ n \in b + 1..t => f[n] = Nowhere
    BY DEF Placed, Moves
  <1>2. Placed(g, b, u, place) = Placed(f, b, t, place) \union {n} /\ n \notin Placed(f, b, t, place)
    BY <1>1 DEF Placed, Moves
  <1>3. Placed(g, b, u, Nowhere) = Placed(f, b, t, Nowhere) \ {n}
    BY <1>1 DEF Placed, Moves
  <1>4. \A p : p # place /\ p # Nowhere => Placed(g, b, u, p) = Placed(f, b, t, p)
    BY <1>1 DEF Placed, Moves
  <1>5. IsFiniteSet(Placed(f, b, t, place))
    <2>1. Placed(f, b, t, place) \subseteq b + 1..t
      BY DEF Placed
    <2> QED
      BY <2>1, FS_Interval, FS_Subset DEF Moves
  <1>6. Cardinality(Placed(f, b, t, place) \union {n}) = Cardinality(Placed(f, b, t, place)) + 1
    BY <1>2, <1>5, FS_AddElement
  <1> QED
    BY <1>2, <1>3, <1>4, <1>6

\* What EventsAreCounted says, of the counts after a step.
LEMMA CountedThen ==
  ASSUME Placed(fate', born', next', Nowhere) = Waiting',
         dropped' = Cardinality(Placed(fate', born', next', <<"dropped", None>>)),
         overflow' + surfaced' = Cardinality(Placed(fate', born', next', <<"overflow", None>>)),
         \A cell \in Cell :
           cells'[cell] + rolled'[cell] = Cardinality(Placed(fate', born', next', <<"cell", cell>>))
  PROVE  EventsAreCounted'
  BY DEF EventsAreCounted, CountedAt, Placed, Nowhere

LEMMA CountedNow ==
  ASSUME EventsAreCounted
  PROVE  /\ Placed(fate, born, next, Nowhere) = Waiting
         /\ dropped = Cardinality(Placed(fate, born, next, <<"dropped", None>>))
         /\ overflow + surfaced = Cardinality(Placed(fate, born, next, <<"overflow", None>>))
         /\ \A cell \in Cell :
              cells[cell] + rolled[cell] = Cardinality(Placed(fate, born, next, <<"cell", cell>>))
  BY DEF EventsAreCounted, CountedAt, Placed, Nowhere

\* An event is observed once, in a cell or beyond the limit.
LEMMA ObserveCounts ==
  ASSUME RecorderTypeOK, EventsAreCounted, Unborn, IsFiniteSet(LiveCells),
         NEW n \in Waiting, Waiting' = Waiting \ {n}, Observe(n),
         UNCHANGED <<next, born, dropped, surfaced, rolled>>
  PROVE  /\ EventsAreCounted'
         /\ cells' \in [Cell -> Nat] /\ overflow' \in Nat /\ fate' \in [1..MaxEvents -> Fate]
         /\ MaxKeys > 0 => Cardinality(LiveCells') <= MaxKeys
         /\ IsFiniteSet(LiveCells') /\ Unborn'
  <1>0. PICK cell : cell = <<KeyOf(n), now>>
    OBVIOUS
  <1>1. n \in 1..MaxEvents /\ n \in Placed(fate, born, next, Nowhere) /\ n \in born + 1..next
    <2>1. n \in Placed(fate, born, next, Nowhere)
      BY CountedNow
    <2>2. n \in born + 1..next
      BY <2>1 DEF Placed
    <2>3. born \in Nat /\ next \in Nat /\ next <= MaxEvents /\ MaxEvents \in Nat
      BY RecorderAssumption DEF RecorderTypeOK
    <2> QED
      BY <2>1, <2>2, <2>3
  <1>2. /\ cells \in [Cell -> Nat] /\ overflow \in Nat /\ fate \in [1..MaxEvents -> Fate]
        /\ MaxKeys \in Nat
        /\ MaxKeys > 0 => Cardinality(LiveCells) <= MaxKeys
        /\ rolled \in [Cell -> Nat] /\ surfaced \in Nat /\ now \in 0..MaxNow
        /\ next \in Nat /\ born \in Nat /\ born <= next /\ next <= MaxEvents
    BY RecorderAssumption DEF RecorderTypeOK
  <1>3. cell \in Cell
    BY <1>0, <1>1, <1>2, RecorderAssumption DEF Cell
  <1>4. UNCHANGED <<next, born, dropped, surfaced, rolled>>
    OBVIOUS
  <1>5. ASSUME NEW place \in Fate, place # Nowhere, fate' = [fate EXCEPT ![n] = place]
        PROVE  /\ Cardinality(Placed(fate', born', next', place))
                    = Cardinality(Placed(fate, born, next, place)) + 1
               /\ Placed(fate', born', next', Nowhere) = Waiting'
               /\ \A p : p # place /\ p # Nowhere =>
                    Placed(fate', born', next', p) = Placed(fate, born, next, p)
               /\ fate' \in [1..MaxEvents -> Fate] /\ Unborn'
    <2>1. fate'[n] = place /\ \A m \in 1..MaxEvents : m # n => fate'[m] = fate[m]
      BY <1>1, <1>2, <1>5
    <2>2. \A m \in born + 1..next : m # n => fate'[m] = fate[m]
      <3>1. \A m \in born + 1..next : m \in 1..MaxEvents
        BY <1>2, RecorderAssumption
      <3> QED
        BY <2>1, <3>1
    <2>6. n \in Nat
      BY <1>1
    <2>3. /\ Cardinality(Placed(fate', born, next, place))
               = Cardinality(Placed(fate, born, next, place)) + 1
          /\ Placed(fate', born, next, Nowhere) = Placed(fate, born, next, Nowhere) \ {n}
          /\ \A p : p # place /\ p # Nowhere =>
               Placed(fate', born, next, p) = Placed(fate, born, next, p)
      <3>1. Moves(n, place, fate, fate', born, next, next)
        BY <1>1, <1>2, <1>5, <2>1, <2>2, <2>6 DEF Moves
      <3> QED
        BY <3>1, PlacedAnother
    <2>4. Unborn'
      BY <1>1, <1>2, <1>4, <2>1 DEF Unborn
    <2>5. fate' \in [1..MaxEvents -> Fate]
      BY <1>2, <1>5
    <2> QED
      BY <1>4, <2>3, <2>4, <2>5, CountedNow
  <1>6. CASE cell \in LiveCells \/ MaxKeys = 0 \/ Cardinality(LiveCells) < MaxKeys
    <2> DEFINE place == <<"cell", cell>>
    <2>1. /\ cells' = [cells EXCEPT ![cell] = cells[cell] + 1] /\ overflow' = overflow
          /\ fate' = [fate EXCEPT ![n] = place]
      BY <1>0, <1>6 DEF Observe
    <2>2. place \in Fate /\ place # Nowhere
      BY <1>3 DEF Fate, Nowhere
    <2>3. /\ cells' \in [Cell -> Nat] /\ cells'[cell] = cells[cell] + 1
          /\ \A c \in Cell : c # cell => cells'[c] = cells[c]
      BY <1>2, <1>3, <2>1
    <2>4. \A c \in Cell : cells'[c] + rolled'[c] = Cardinality(Placed(fate', born', next', <<"cell", c>>))
      <3> SUFFICES ASSUME NEW c \in Cell
                   PROVE  cells'[c] + rolled'[c] = Cardinality(Placed(fate', born', next', <<"cell", c>>))
        OBVIOUS
      <3>1. cells[c] + rolled[c] = Cardinality(Placed(fate, born, next, <<"cell", c>>))
        BY CountedNow
      <3>2. CASE c = cell
        <4>1. cells[c] \in Nat /\ rolled[c] \in Nat
          BY <1>2
        <4>2. cells'[c] = cells[c] + 1 /\ rolled'[c] = rolled[c]
          BY <1>4, <2>3, <3>2
        <4>3. Cardinality(Placed(fate', born', next', <<"cell", c>>))
                = Cardinality(Placed(fate, born, next, <<"cell", c>>)) + 1
          BY <1>5, <2>1, <2>2, <3>2
        <4> QED
          BY <3>1, <4>1, <4>2, <4>3
      <3>3. CASE c # cell
        <4>1. <<"cell", c>> # place /\ <<"cell", c>> # Nowhere
          BY <3>3 DEF Nowhere
        <4> QED
          BY <1>4, <1>5, <2>1, <2>2, <2>3, <3>1, <3>3, <4>1
      <3> QED
        BY <3>2, <3>3
    <2>5. EventsAreCounted'
      <3>1. /\ <<"dropped", None>> # place /\ <<"dropped", None>> # Nowhere
            /\ <<"overflow", None>> # place /\ <<"overflow", None>> # Nowhere
        BY DEF Nowhere
      <3> QED
        BY <1>4, <1>5, <2>1, <2>2, <2>4, <3>1, CountedNow, CountedThen
    <2>6. LiveCells' = LiveCells \union {cell}
      BY <1>2, <1>3, <2>3 DEF LiveCells
    <2>7. /\ IsFiniteSet(LiveCells \union {cell})
          /\ cell \notin LiveCells => Cardinality(LiveCells \union {cell}) = Cardinality(LiveCells) + 1
          /\ cell \in LiveCells => LiveCells \union {cell} = LiveCells
          /\ Cardinality(LiveCells) \in Nat
      BY FS_AddElement, FS_CardinalityType
    <2>8. MaxKeys > 0 => Cardinality(LiveCells') <= MaxKeys
      <3>1. CASE cell \in LiveCells
        BY <1>2, <2>6, <2>7, <3>1
      <3>2. CASE cell \notin LiveCells
        <4>1. MaxKeys > 0 => Cardinality(LiveCells) < MaxKeys
          BY <1>2, <1>6, <3>2
        <4> QED
          BY <1>2, <2>6, <2>7, <3>2, <4>1
      <3> QED
        BY <3>1, <3>2
    <2>9. IsFiniteSet(LiveCells') /\ overflow' \in Nat
      BY <1>2, <2>1, <2>6, <2>7
    <2> QED
      BY <1>5, <2>1, <2>2, <2>3, <2>5, <2>8, <2>9
  <1>7. CASE ~(cell \in LiveCells \/ MaxKeys = 0 \/ Cardinality(LiveCells) < MaxKeys)
    <2> DEFINE place == <<"overflow", None>>
    <2>1. /\ cells' = cells /\ overflow' = overflow + 1
          /\ fate' = [fate EXCEPT ![n] = place]
      BY <1>0, <1>7 DEF Observe
    <2>2. place \in Fate /\ place # Nowhere
      BY DEF Fate, Nowhere
    <2>3. EventsAreCounted'
      <3>1. /\ <<"dropped", None>> # place /\ <<"dropped", None>> # Nowhere
            /\ \A c \in Cell : <<"cell", c>> # place /\ <<"cell", c>> # Nowhere
        BY DEF Nowhere
      <3>2. overflow' + surfaced' = overflow + surfaced + 1
        BY <1>2, <1>4, <2>1
      <3> QED
        BY <1>4, <1>5, <2>1, <2>2, <3>1, <3>2, CountedNow, CountedThen
    <2>4. LiveCells' = LiveCells
      BY <2>1 DEF LiveCells
    <2>5. /\ IsFiniteSet(LiveCells')
          /\ MaxKeys > 0 => Cardinality(LiveCells') <= MaxKeys
      BY <1>2, <2>4
    <2>6. overflow' \in Nat /\ cells' \in [Cell -> Nat]
      BY <1>2, <2>1
    <2> QED
      BY <1>5, <2>1, <2>2, <2>3, <2>5, <2>6
  <1> QED
    BY <1>6, <1>7

-----------------------------------------------------------------------------
(* The second invariant, step by step.                                     *)

\* As long as nothing is placed, sums are the counts.
LEMMA CountsStay ==
  ASSUME EventsAreCounted, UNCHANGED <<next, born, dropped, fate>>, Waiting' = Waiting,
         overflow' + surfaced' = overflow + surfaced,
         \A cell \in Cell : cells'[cell] + rolled'[cell] = cells[cell] + rolled[cell]
  PROVE  EventsAreCounted'
  <1>1. next' = next /\ born' = born /\ dropped' = dropped /\ fate' = fate
    OBVIOUS
  <1> QED
    BY <1>1, CountedNow, CountedThen

\* The drain's event waits until it is observed.
LEMMA WaitingIs ==
  ASSUME AInv
  PROVE  /\ Running("drain") /\ writing # None =>
              Waiting = Range(buffer) \union {writing[2]} /\ writing[2] \notin Range(buffer)
         /\ ~(Running("drain") /\ writing # None) => Waiting = Range(buffer)
         /\ Len(buffer) \in Nat /\ DOMAIN buffer = 1..Len(buffer)
         /\ Range(buffer) = {buffer[i] : i \in 1..Len(buffer)} /\ Range(buffer) \subseteq 1..MaxEvents
  <1>1. buffer \in Seq(1..MaxEvents)
    BY DEF AInv, RecorderTypeOK
  <1>2. /\ Len(buffer) \in Nat /\ DOMAIN buffer = 1..Len(buffer)
        /\ Range(buffer) = {buffer[i] : i \in 1..Len(buffer)} /\ Range(buffer) \subseteq 1..MaxEvents
    BY <1>1, LenProperties, RangeEquality, RangeOfSeq
  <1>3. ASSUME Running("drain"), writing # None
        PROVE  Waiting = Range(buffer) \union {writing[2]} /\ writing[2] \notin Range(buffer)
    <2>1. /\ writing \in Event /\ \A i \in DOMAIN buffer : writing[2] < buffer[i]
      BY <1>3 DEF AInv, DrainWrites
    <2>2. writing[2] \in 1..MaxEvents /\ writing = <<"event", writing[2]>>
      BY <2>1, EventIs
    <2>3. {n \in 1..MaxEvents : Running("drain") /\ writing = <<"event", n>>} = {writing[2]}
      BY <1>3, <2>2
    <2>4. writing[2] \notin Range(buffer)
      BY <1>2, <2>1, <2>2
    <2> QED
      BY <2>3, <2>4 DEF Waiting
  <1>4. ASSUME ~(Running("drain") /\ writing # None) PROVE Waiting = Range(buffer)
    <2>1. \A n \in 1..MaxEvents : <<"event", n>> \in Record
      BY DEF Record, Event
    <2>2. {n \in 1..MaxEvents : Running("drain") /\ writing = <<"event", n>>} = {}
      BY <1>4, <2>1, RecorderAssumption
    <2> QED
      BY <2>2 DEF Waiting
  <1> QED
    BY <1>2, <1>3, <1>4

\* No line is forgotten, and events come in turn.
LEMMA TraceKept ==
  ASSUME AInv, NEW added, Kept(added), due' \subseteq due \union added,
         \A x \in (Held \union added) \intersect Event :
           x[2] <= next' /\ \A i \in DOMAIN buffer' : x[2] < buffer'[i]
  PROVE  RecordsAreTraced' /\ Behind'
  <1>1. due \subseteq Held \union pruned \union lost
    BY DEF AInv, RecordsAreTraced, Held
  <1>2. due' \subseteq Held' \union pruned' \union lost'
    BY <1>1 DEF Kept
  <1>3. RecordsAreTraced'
    BY <1>2 DEF RecordsAreTraced, Held
  <1>4. Behind'
    BY DEF Behind, Kept
  <1> QED
    BY <1>3, <1>4

\* Where the sink does nothing, all it holds stays.
LEMMA SinkStays ==
  ASSUME AInv, UNCHANGED sink
  PROVE  SinkInv' /\ Kept({}) /\ Held' = Held /\ io' = io
  <1>1. UNCHANGED <<pending, opened, sinkClosed, size, io, live, rotated, pruned, lost>>
    BY DEF sink
  <1>2. InFlight' = InFlight /\ Stored' = Stored
    BY <1>1 DEF InFlight, Stored
  <1>3. Held' = Held /\ OneChunk' = OneChunk /\ Pieces' = Pieces
    BY <1>1, <1>2 DEF Held, OneChunk, Pieces
  <1>4. EventsInOrder' = EventsInOrder
    BY <1>3 DEF EventsInOrder
  <1>5. SinkTypeOK(Record)'
    BY <1>1 DEF AInv, SinkInv, SinkTypeOK
  <1> QED
    BY <1>1, <1>3, <1>4, <1>5 DEF AInv, SinkInv, Kept

\* What becomes of the recorder when only its chain and what is in hand changes.
LEMMA IntakeStays ==
  ASSUME AInv, UNCHANGED <<next, born, buffer, dropped, cells, overflow, surfaced, rolled, fate>>,
         Waiting' = Waiting
  PROVE  /\ EventsAreCounted' /\ Queued' /\ Unborn' /\ IsFiniteSet(LiveCells')
         /\ LiveCells' = LiveCells
  <1>1. /\ next' = next /\ born' = born /\ dropped' = dropped /\ fate' = fate /\ buffer' = buffer
        /\ cells' = cells /\ overflow' = overflow /\ surfaced' = surfaced /\ rolled' = rolled
    OBVIOUS
  <1>2. EventsAreCounted'
    BY <1>1, CountsStay DEF AInv
  <1>3. LiveCells' = LiveCells
    BY <1>1 DEF LiveCells
  <1> QED
    BY <1>1, <1>2, <1>3 DEF AInv, Queued, Unborn

\* Steps that join the chain change nothing for the one at its head.
LEMMA HeadStays ==
  ASSUME IInv, AInv, NEW steps \in Seq(Step), steps # <<>>, steps[1] \notin {"sync", "closing"},
         Enqueue(steps), writing' = writing, io' = io
  PROVE  /\ chain' \in Seq(Step) /\ Paced'
         /\ (Running("drain") /\ writing # None)' <=> Running("drain") /\ writing # None
  <1>1. /\ chain' \in Seq(Step)
        /\ \A s : Running(s)' <=> IF chain = <<>> THEN s = steps[1] ELSE Running(s)
    BY EnqueueIs DEF IInv
  <1>2. chain = <<>> => \A s : ~Running(s)
    BY DEF Running
  <1>3. writing # None => chain # <<>>
    BY <1>2 DEF IInv, InHand
  <1>4. (Running("drain") /\ writing # None)' <=> Running("drain") /\ writing # None
    BY <1>1, <1>2, <1>3
  <1>5. Paced'
    BY <1>1, <1>2 DEF AInv, Paced
  <1> QED
    BY <1>1, <1>4, <1>5

\* An event that is recorded is dropped and counted, or waits behind all others.
LEMMA RecordAccounts ==
  ASSUME IInv, AInv, RecordEvent
  PROVE  AInv'
  <1>1. /\ next < MaxEvents /\ next' = next + 1
        /\ UNCHANGED <<born, stopped, writing, emissions, now, due>> /\ UNCHANGED sink
        /\ cells' = cells /\ overflow' = overflow /\ surfaced' = surfaced /\ rolled' = rolled
    BY DEF RecordEvent, aggregates
  <1>0. PICK n : n = next + 1
    OBVIOUS
  <1>2. /\ next \in Nat /\ born \in Nat /\ born <= next /\ MaxEvents \in Nat /\ n \in 1..MaxEvents
        /\ next' = n /\ n \in Nat /\ n > next /\ born' = born
        /\ dropped \in Nat /\ fate \in [1..MaxEvents -> Fate]
    BY <1>0, <1>1, RecorderAssumption DEF AInv, RecorderTypeOK
  <1>3. /\ SinkInv' /\ Kept({}) /\ Held' = Held /\ io' = io
    BY <1>1, SinkStays
  <1>4. LiveCells' = LiveCells
    BY <1>1 DEF LiveCells
  <1>5. \A x \in Held \intersect Event : x[2] <= next /\ \A i \in DOMAIN buffer : x[2] < buffer[i]
    BY DEF AInv, Behind
  <1>6. \A x \in Event : x[2] \in Nat
    BY EventIs
  <1>7. CASE stopped \/ Full
    <2> DEFINE place == <<"dropped", None>>
    <2>1. /\ dropped' = dropped + 1 /\ fate' = [fate EXCEPT ![n] = place]
          /\ UNCHANGED <<buffer, scheduled, chain>>
      BY <1>0, <1>7 DEF RecordEvent
    <2>2. place \in Fate /\ place # Nowhere
      BY DEF Fate, Nowhere
    <2>3. /\ fate'[n] = place /\ \A m \in 1..MaxEvents : m # n => fate'[m] = fate[m]
          /\ fate' \in [1..MaxEvents -> Fate]
      BY <1>2, <2>1, <2>2
    <2>4. Moves(n, place, fate, fate', born, next, n)
      <3>1. \A m \in born + 1..n : m \in 1..MaxEvents
        BY <1>2
      <3> QED
        BY <1>0, <1>2, <2>2, <2>3, <3>1 DEF Moves
    <2>5. /\ Cardinality(Placed(fate', born, n, place))
               = Cardinality(Placed(fate, born, next, place)) + 1
          /\ Placed(fate', born, n, Nowhere) = Placed(fate, born, next, Nowhere) \ {n}
          /\ \A p : p # place /\ p # Nowhere => Placed(fate', born, n, p) = Placed(fate, born, next, p)
      BY <2>4, PlacedAnother
    <2>6. n \notin Placed(fate, born, next, Nowhere)
      BY <1>2 DEF Placed
    <2>7. \A s : Running(s)' <=> Running(s)
      BY <2>1 DEF Running
    <2>8. Waiting' = Waiting
      BY <1>1, <2>1, <2>7 DEF Waiting
    <2>9. EventsAreCounted'
      <3>1. /\ <<"overflow", None>> # place /\ <<"overflow", None>> # Nowhere
            /\ \A c \in Cell : <<"cell", c>> # place /\ <<"cell", c>> # Nowhere
        BY DEF Nowhere
      <3>2. Placed(fate', born', next', Nowhere) = Waiting'
        BY <1>2, <2>5, <2>6, <2>8, CountedNow DEF AInv
      <3>3. dropped' = Cardinality(Placed(fate', born', next', <<"dropped", None>>))
        BY <1>2, <2>1, <2>5, CountedNow DEF AInv
      <3>4. overflow' + surfaced' = Cardinality(Placed(fate', born', next', <<"overflow", None>>))
        BY <1>1, <1>2, <2>5, <3>1, CountedNow DEF AInv
      <3>5. \A cell \in Cell :
              cells'[cell] + rolled'[cell] = Cardinality(Placed(fate', born', next', <<"cell", cell>>))
        BY <1>1, <1>2, <2>5, <3>1, CountedNow DEF AInv
      <3> QED
        BY <3>2, <3>3, <3>4, <3>5, CountedThen
    <2>10. dropped' \in 0..MaxEvents
      <3>1. Cardinality(Placed(fate', born, n, place)) \in 0..MaxEvents
        <4>1. n \in 0..MaxEvents
          BY <1>2
        <4> QED
          BY <1>2, <4>1, PlacedIs
      <3>2. dropped = Cardinality(Placed(fate, born, next, place))
        BY CountedNow DEF AInv
      <3> QED
        BY <2>1, <2>5, <3>1, <3>2
    <2>11. RecorderTypeOK'
      BY <1>1, <1>2, <1>4, <2>1, <2>3, <2>10 DEF AInv, RecorderTypeOK
    <2>12. Queued' /\ DrainWrites' /\ Unborn' /\ Paced'
      <3>1. Queued'
        BY <1>2, <2>1 DEF AInv, Queued
      <3>2. DrainWrites'
        BY <1>1, <1>2, <2>1, <2>7 DEF AInv, DrainWrites
      <3>3. Unborn'
        BY <1>2, <2>3 DEF AInv, Unborn
      <3>4. Paced'
        BY <1>1, <1>3, <2>7 DEF AInv, Paced
      <3> QED
        BY <3>1, <3>2, <3>3, <3>4
    <2>13. RecordsAreTraced' /\ Behind'
      <3>1. \A x \in (Held \union {}) \intersect Event :
              x[2] <= next' /\ \A i \in DOMAIN buffer' : x[2] < buffer'[i]
        BY <1>2, <1>5, <1>6, <2>1
      <3> QED
        BY <1>1, <1>3, <3>1, TraceKept
    <2> QED
      BY <1>3, <1>4, <2>9, <2>11, <2>12, <2>13 DEF AInv
  <1>8. CASE ~(stopped \/ Full)
    <2>1. /\ buffer' = Append(buffer, n) /\ scheduled' = TRUE
          /\ IF scheduled THEN chain' = chain ELSE Enqueue(<<"start", "drain">>)
          /\ dropped' = dropped /\ fate' = fate
      BY <1>0, <1>8 DEF RecordEvent
    <2>2. /\ chain' \in Seq(Step) /\ Paced'
          /\ (Running("drain") /\ writing # None)' <=> Running("drain") /\ writing # None
      <3>1. CASE scheduled
        <4>1. \A s : Running(s)' <=> Running(s)
          BY <2>1, <3>1 DEF Running
        <4> QED
          BY <1>1, <1>3, <2>1, <3>1, <4>1 DEF AInv, Paced, RecorderTypeOK
      <3>2. CASE ~scheduled
        <4>1. /\ <<"start", "drain">> \in Seq(Step) /\ <<"start", "drain">> # <<>>
              /\ <<"start", "drain">>[1] \notin {"sync", "closing"}
          BY DEF Step
        <4>2. Enqueue(<<"start", "drain">>) /\ writing' = writing /\ io' = io
          BY <1>1, <1>3, <2>1, <3>2
        <4> QED
          BY <4>1, <4>2, HeadStays
      <3> QED
        BY <3>1, <3>2
    <2>3. /\ buffer \in Seq(1..MaxEvents) /\ Len(buffer) \in Nat /\ DOMAIN buffer = 1..Len(buffer)
          /\ buffer' \in Seq(1..MaxEvents) /\ Len(buffer') = Len(buffer) + 1
          /\ DOMAIN buffer' = 1..Len(buffer) + 1
          /\ \A i \in 1..Len(buffer) : buffer'[i] = buffer[i]
          /\ buffer'[Len(buffer) + 1] = n
      <3>1. buffer \in Seq(1..MaxEvents)
        BY DEF AInv, RecorderTypeOK
      <3> QED
        BY <1>2, <2>1, <3>1
    <2>4. \A i \in 1..Len(buffer) + 1 : i \in 1..Len(buffer) \/ i = Len(buffer) + 1
      BY <2>3
    <2>5. \A i \in 1..Len(buffer) : buffer[i] \in born + 1..next
      BY <2>3 DEF AInv, Queued
    <2>6. Queued'
      <3>1. \A i \in 1..Len(buffer) + 1 : buffer'[i] \in born' + 1..next'
        <4>1. \A i \in 1..Len(buffer) : buffer[i] \in born + 1..n
          BY <1>2, <2>5
        <4>2. n \in born + 1..n
          BY <1>2
        <4> QED
          BY <1>2, <2>3, <2>4, <4>1, <4>2
      <3>2. ASSUME NEW i \in 1..Len(buffer) + 1, NEW j \in 1..Len(buffer) + 1, i < j
            PROVE  buffer'[i] < buffer'[j]
        <4>1. i \in 1..Len(buffer)
          BY <2>3, <3>2
        <4>2. CASE j \in 1..Len(buffer)
          BY <2>3, <3>2, <4>1, <4>2 DEF AInv, Queued
        <4>3. CASE j = Len(buffer) + 1
          <5>1. buffer[i] \in born + 1..next
            BY <2>5, <4>1
          <5> QED
            BY <1>2, <2>3, <4>1, <4>3, <5>1
        <4> QED
          BY <2>4, <4>2, <4>3
      <3> QED
        BY <2>3, <3>1, <3>2 DEF Queued
    <2>7. Waiting' = Waiting \union {n}
      <3>1. Range(buffer') = Range(buffer) \union {n}
        <4>1. Range(buffer') = {buffer'[i] : i \in 1..Len(buffer) + 1}
          BY <2>3 DEF Range
        <4>2. Range(buffer) = {buffer[i] : i \in 1..Len(buffer)}
          BY <2>3 DEF Range
        <4>3. 1..Len(buffer) + 1 = (1..Len(buffer)) \union {Len(buffer) + 1}
          BY <2>3
        <4> QED
          BY <2>3, <4>1, <4>2, <4>3
      <3>2. \A m \in 1..MaxEvents : <<"event", m>> # None
        BY RecorderAssumption DEF Record, Event
      <3>3. {m \in 1..MaxEvents : Running("drain")' /\ writing' = <<"event", m>>}
              = {m \in 1..MaxEvents : Running("drain") /\ writing = <<"event", m>>}
        BY <1>1, <2>2, <3>2
      <3> QED
        BY <3>1, <3>3 DEF Waiting
    <2>8. \A p : Placed(fate, born, n, p) = Placed(fate, born, next, p) \union IF p = Nowhere THEN {n} ELSE {}
      <3>1. fate[n] = Nowhere
        BY <1>2 DEF AInv, Unborn, Nowhere
      <3>2. born + 1..n = (born + 1..next) \union {n}
        BY <1>0, <1>2
      <3> QED
        BY <3>1, <3>2 DEF Placed
    <2>9. EventsAreCounted'
      <3>1. /\ <<"overflow", None>> # Nowhere /\ <<"dropped", None>> # Nowhere
            /\ \A c \in Cell : <<"cell", c>> # Nowhere
        BY DEF Nowhere
      <3>2. Placed(fate', born', next', Nowhere) = Waiting'
        BY <1>2, <2>1, <2>7, <2>8, CountedNow DEF AInv
      <3>3. dropped' = Cardinality(Placed(fate', born', next', <<"dropped", None>>))
        BY <1>2, <2>1, <2>8, <3>1, CountedNow DEF AInv
      <3>4. overflow' + surfaced' = Cardinality(Placed(fate', born', next', <<"overflow", None>>))
        BY <1>1, <1>2, <2>1, <2>8, <3>1, CountedNow DEF AInv
      <3>5. \A cell \in Cell :
              cells'[cell] + rolled'[cell] = Cardinality(Placed(fate', born', next', <<"cell", cell>>))
        BY <1>1, <1>2, <2>1, <2>8, <3>1, CountedNow DEF AInv
      <3> QED
        BY <3>2, <3>3, <3>4, <3>5, CountedThen
    <2>10. RecorderTypeOK'
      <3>1. Len(buffer') <= BufferSize
        BY <1>8, <2>3, RecorderAssumption DEF Full
      <3> QED
        BY <1>1, <1>2, <1>4, <2>1, <2>2, <2>3, <3>1 DEF AInv, RecorderTypeOK
    <2>11. DrainWrites'
      <3> SUFFICES ASSUME Running("drain")', writing' # None
                   PROVE  /\ writing \in Event /\ writing[2] \in born + 1..n
                          /\ \A i \in 1..Len(buffer) + 1 : writing[2] < buffer'[i]
        BY <1>1, <1>2, <2>3 DEF DrainWrites
      <3>1. /\ writing \in Event /\ writing[2] \in born + 1..next
            /\ \A i \in 1..Len(buffer) : writing[2] < buffer[i]
        BY <2>2, <2>3 DEF AInv, DrainWrites
      <3>2. writing[2] \in born + 1..n /\ writing[2] < n
        BY <1>2, <3>1
      <3> QED
        BY <2>3, <2>4, <3>1, <3>2
    <2>12. Unborn'
      BY <1>2, <2>1 DEF AInv, Unborn
    <2>13. RecordsAreTraced' /\ Behind'
      <3>1. ASSUME NEW x \in Held \intersect Event
            PROVE  x[2] <= next' /\ \A i \in DOMAIN buffer' : x[2] < buffer'[i]
        <4>1. x[2] <= next /\ x[2] \in Nat /\ \A i \in 1..Len(buffer) : x[2] < buffer[i]
          BY <1>5, <1>6, <2>3
        <4>2. x[2] <= n /\ x[2] < n
          BY <1>2, <4>1
        <4> QED
          BY <1>2, <2>3, <2>4, <4>1, <4>2
      <3>2. \A x \in (Held \union {}) \intersect Event :
              x[2] <= next' /\ \A i \in DOMAIN buffer' : x[2] < buffer'[i]
        BY <3>1
      <3> QED
        BY <1>1, <1>3, <3>2, TraceKept
    <2> QED
      BY <1>3, <1>4, <2>2, <2>6, <2>9, <2>10, <2>11, <2>12, <2>13 DEF AInv
  <1> QED
    BY <1>7, <1>8

\* Events that are drained or waited for may come to the sink no more, or stay behind.
LEMMA BehindStays ==
  ASSUME AInv, UNCHANGED <<next, buffer>>, NEW added, added \intersect Event = {}
  PROVE  \A x \in (Held \union added) \intersect Event :
           x[2] <= next' /\ \A i \in DOMAIN buffer' : x[2] < buffer'[i]
  <1>1. next' = next /\ buffer' = buffer
    OBVIOUS
  <1> QED
    BY <1>1 DEF AInv, Behind

\* Steps of the chain that concern neither the counts nor the lines.
LEMMA ChainAccounts ==
  ASSUME AInv, UNCHANGED <<next, born, buffer, dropped, cells, overflow, surfaced, rolled, fate>>,
         due' = due, SinkInv', Kept({}), Paced',
         (Running("drain") /\ writing # None)' <=> Running("drain") /\ writing # None,
         (Running("drain") /\ writing # None)' => writing' = writing,
         RecorderTypeOK'
  PROVE  AInv'
  <1>1. next' = next /\ born' = born /\ buffer' = buffer
    OBVIOUS
  <1>2. Waiting' = Waiting
    <2>1. \A n \in 1..MaxEvents : <<"event", n>> # None
      BY RecorderAssumption DEF Record, Event
    <2>2. {n \in 1..MaxEvents : Running("drain")' /\ writing' = <<"event", n>>}
            = {n \in 1..MaxEvents : Running("drain") /\ writing = <<"event", n>>}
      BY <2>1
    <2> QED
      BY <1>1, <2>2 DEF Waiting
  <1>3. EventsAreCounted' /\ Queued' /\ Unborn' /\ IsFiniteSet(LiveCells')
    BY <1>2, IntakeStays
  <1>4. DrainWrites'
    BY <1>1 DEF AInv, DrainWrites
  <1>5. RecordsAreTraced' /\ Behind'
    <2>1. \A x \in (Held \union {}) \intersect Event :
            x[2] <= next' /\ \A i \in DOMAIN buffer' : x[2] < buffer'[i]
      BY <1>1, BehindStays
    <2> QED
      BY <2>1, TraceKept
  <1> QED
    BY <1>3, <1>4, <1>5 DEF AInv

\* Flush, tick and close only put steps on the chain.
LEMMA JoinAccounts ==
  ASSUME IInv, AInv, Flush \/ TimerFires \/ Close
  PROVE  AInv'
  <1>1. /\ UNCHANGED <<next, born, buffer, dropped, scheduled, cells, overflow, surfaced, rolled, fate>>
        /\ UNCHANGED <<writing, emissions, now, due>> /\ UNCHANGED sink /\ stopped' \in BOOLEAN
    <2>1. CASE Flush \/ TimerFires
      BY <2>1 DEF Flush, TimerFires, intake, aggregates, AInv, RecorderTypeOK
    <2>2. CASE Close
      BY <2>2 DEF Close, aggregates
    <2> QED
      BY <2>1, <2>2
  <1>2. PICK steps \in Seq(Step) :
          steps # <<>> /\ steps[1] \notin {"sync", "closing"} /\ Enqueue(steps)
    <2>1. /\ <<"drain", "emit">> \in Seq(Step) /\ <<"drain", "emit">> # <<>>
          /\ <<"drain", "emit">>[1] = "drain"
      BY DEF Step
    <2>2. <<"emit">> \in Seq(Step) /\ <<"emit">> # <<>> /\ <<"emit">>[1] = "emit"
      BY DEF Step
    <2>3. ClosingSteps \in Seq(Step) /\ ClosingSteps # <<>> /\ ClosingSteps[1] = "drain"
      BY DEF ClosingSteps, Step
    <2>4. CASE Flush
      BY <2>1, <2>4 DEF Flush
    <2>5. CASE TimerFires
      BY <2>2, <2>5 DEF TimerFires
    <2>6. CASE Close
      BY <2>3, <2>6 DEF Close
    <2> QED
      BY <2>4, <2>5, <2>6
  <1>3. SinkInv' /\ Kept({}) /\ io' = io
    BY <1>1, SinkStays
  <1>4. /\ chain' \in Seq(Step) /\ Paced'
        /\ (Running("drain") /\ writing # None)' <=> Running("drain") /\ writing # None
    BY <1>1, <1>2, <1>3, HeadStays
  <1>5. LiveCells' = LiveCells
    BY <1>1 DEF LiveCells
  <1>6. RecorderTypeOK'
    BY <1>1, <1>4, <1>5 DEF AInv, RecorderTypeOK
  <1> QED
    BY <1>1, <1>3, <1>4, <1>6, ChainAccounts

\* A step of the chain is over: the drain's events are written, the sink is at rest.
LEMMA FinishAccounts ==
  ASSUME IInv, AInv, StartDrain \/ DrainEnds \/ SyncSettled \/ ClosingSettled
  PROVE  AInv'
  <1>1. /\ UNCHANGED <<next, born, buffer, dropped, cells, overflow, surfaced, rolled, fate>>
        /\ UNCHANGED <<writing, emissions, now, due, stopped>>
        /\ Finish /\ chain # <<>> /\ scheduled' \in BOOLEAN
    <2>1. CASE StartDrain
      BY <2>1 DEF StartDrain, aggregates, Running
    <2>2. CASE DrainEnds \/ SyncSettled \/ ClosingSettled
      BY <2>2 DEF DrainEnds, SyncSettled, ClosingSettled, intake, aggregates, Running, AInv,
                  RecorderTypeOK
    <2> QED
      BY <2>1, <2>2
  <1>2. writing = None
    BY DEF IInv, InHand, StartDrain, DrainEnds, SyncSettled, ClosingSettled, Running
  <1>3. /\ chain' \in Seq(Step)
        /\ \A step : Running(step)' <=> Len(chain) > 1 /\ chain[2] = step
    BY <1>1, FinishIs DEF IInv
  <1>4. ~Running("sync")' /\ ~Running("closing")'
    BY <1>3, ChainTypes DEF IInv, HeadRuns
  <1>5. SinkInv' /\ Kept({}) /\ io' = None
    <2>1. CASE StartDrain \/ DrainEnds
      <3>1. UNCHANGED sink /\ ~Running("sync") /\ ~Running("closing")
        BY <2>1 DEF StartDrain, DrainEnds, Running
      <3>2. io = None
        BY <1>2, <3>1 DEF AInv, Paced
      <3> QED
        BY <3>1, <3>2, SinkStays
    <2>2. CASE SyncSettled
      <3>1. Settled /\ io' = None /\ UNCHANGED <<size, live, rotated, pruned, lost>>
            /\ UNCHANGED <<pending, opened, sinkClosed>>
        BY <2>2 DEF SyncSettled, FlushAnswered, files
      <3> QED
        BY <3>1, FlushOver DEF AInv
    <2>3. CASE ClosingSettled
      <3>1. Settled /\ io' = None /\ UNCHANGED <<size, live, rotated, pruned, lost>>
            /\ pending' = pending /\ opened' = FALSE /\ sinkClosed' = TRUE
        BY <2>3 DEF ClosingSettled, Shut, files
      <3>2. pending = <<>>
        BY <2>3 DEF ClosingSettled, IInv, SinkRests
      <3> QED
        BY <3>1, <3>2, FlushOver DEF AInv
    <2> QED
      BY <2>1, <2>2, <2>3
  <1>6. LiveCells' = LiveCells
    BY <1>1 DEF LiveCells
  <1>7. RecorderTypeOK'
    BY <1>1, <1>3, <1>6 DEF AInv, RecorderTypeOK
  <1>8. Paced'
    BY <1>1, <1>2, <1>4, <1>5 DEF Paced
  <1>9. ~(Running("drain") /\ writing # None)' /\ ~(Running("drain") /\ writing # None)
    BY <1>1, <1>2
  <1> QED
    BY <1>1, <1>5, <1>7, <1>8, <1>9, ChainAccounts

\* The sink is flushed, by the hook, which reports the overflow, or by the close.
LEMMA FlushAccounts ==
  ASSUME IInv, AInv, HookEnds \/ ShutBegins
  PROVE  AInv'
  <1>1. /\ UNCHANGED <<next, born, buffer, dropped, scheduled, stopped, cells, rolled, fate>>
        /\ UNCHANGED <<writing, emissions, now, due>>
        /\ chain # <<>> /\ BeginFlush
        /\ writing = None /\ ~Running("drain") /\ ~Running("sync") /\ ~Running("closing")
    <2>1. CASE HookEnds
      BY <2>1 DEF HookEnds, intake, Running
    <2>2. CASE ShutBegins
      BY <2>2 DEF ShutBegins, intake, aggregates, Running, IInv, InHand
    <2> QED
      BY <2>1, <2>2
  <1>2. PICK step \in {"sync", "closing"} : Become(step)
    BY DEF HookEnds, ShutBegins
  <1>3. chain' \in Seq(Step) /\ \A s : Running(s)' <=> s = step
    <2>1. step \in Step
      BY DEF Step
    <2> QED
      BY <1>1, <1>2, <2>1, BecomeIs DEF IInv
  <1>4. io = None
    BY <1>1 DEF AInv, Paced
  <1>5. SinkInv' /\ Kept({}) /\ io' # None
    BY <1>1, <1>4, FlushBegins DEF AInv
  <1>6. /\ overflow' \in Nat /\ surfaced' \in Nat /\ overflow' + surfaced' = overflow + surfaced
    <2>1. overflow \in Nat /\ surfaced \in Nat
      BY DEF AInv, RecorderTypeOK
    <2>2. CASE HookEnds
      BY <2>1, <2>2 DEF HookEnds
    <2>3. CASE ShutBegins
      BY <2>1, <2>3 DEF ShutBegins, aggregates
    <2> QED
      BY <2>2, <2>3
  <1>7. Waiting' = Waiting
    <2>1. ~Running("drain")'
      BY <1>3
    <2> QED
      BY <1>1, <2>1 DEF Waiting
  <1>8. EventsAreCounted'
    BY <1>1, <1>6, <1>7, CountsStay DEF AInv
  <1>9. LiveCells' = LiveCells
    BY <1>1 DEF LiveCells
  <1>10. RecorderTypeOK'
    BY <1>1, <1>3, <1>6, <1>9 DEF AInv, RecorderTypeOK
  <1>11. Queued' /\ Unborn' /\ DrainWrites' /\ Paced'
    <2>1. Queued' /\ Unborn'
      BY <1>1 DEF AInv, Queued, Unborn
    <2>2. DrainWrites' /\ Paced'
      BY <1>1, <1>2, <1>3, <1>5 DEF DrainWrites, Paced
    <2> QED
      BY <2>1, <2>2
  <1>12. RecordsAreTraced' /\ Behind'
    <2>1. \A x \in (Held \union {}) \intersect Event :
            x[2] <= next' /\ \A i \in DOMAIN buffer' : x[2] < buffer'[i]
      <3>1. UNCHANGED <<next, buffer>> /\ {} \intersect Event = {}
        BY <1>1
      <3> QED
        BY <3>1, BehindStays
    <2> QED
      BY <1>1, <1>5, <2>1, TraceKept
  <1> QED
    BY <1>5, <1>8, <1>9, <1>10, <1>11, <1>12 DEF AInv

\* A file operation is the sink's own.
LEMMA FileAccounts ==
  ASSUME IInv, AInv, FileOperation
  PROVE  AInv'
  <1>1. /\ UNCHANGED <<next, born, buffer, dropped, cells, overflow, surfaced, rolled, fate>>
        /\ UNCHANGED <<writing, emissions, now, due, stopped, scheduled, chain>>
        /\ Flushing
    BY DEF FileOperation, intake, aggregates
  <1>2. SinkInv' /\ Kept({}) /\ io # None /\ io' # None
    BY <1>1, FlushingKeeps DEF AInv, IInv
  <1>3. \A s : Running(s)' <=> Running(s)
    BY <1>1 DEF Running
  <1>4. Paced' /\ ((Running("drain") /\ writing # None)' <=> Running("drain") /\ writing # None)
    BY <1>1, <1>2, <1>3 DEF AInv, Paced
  <1>5. LiveCells' = LiveCells
    BY <1>1 DEF LiveCells
  <1>6. RecorderTypeOK'
    BY <1>1, <1>5 DEF AInv, RecorderTypeOK
  <1> QED
    BY <1>1, <1>2, <1>4, <1>6, ChainAccounts

\* Time passes, or nothing happens.
LEMMA TimeAccounts ==
  ASSUME IInv, AInv, Tick \/ UNCHANGED vars
  PROVE  AInv'
  <1>1. /\ UNCHANGED <<next, born, buffer, dropped, cells, overflow, surfaced, rolled, fate>>
        /\ UNCHANGED <<writing, emissions, due, stopped, scheduled, chain>> /\ UNCHANGED sink
        /\ now' \in 0..MaxNow
    <2>1. now \in 0..MaxNow /\ MaxNow \in Nat
      BY RecorderAssumption DEF AInv, RecorderTypeOK
    <2>2. CASE Tick
      BY <2>1, <2>2 DEF Tick, intake, aggregates
    <2>3. CASE UNCHANGED vars
      BY <2>1, <2>3 DEF vars, intake, aggregates
    <2> QED
      BY <2>2, <2>3
  <1>2. SinkInv' /\ Kept({}) /\ io' = io
    BY <1>1, SinkStays
  <1>3. \A s : Running(s)' <=> Running(s)
    BY <1>1 DEF Running
  <1>4. Paced' /\ ((Running("drain") /\ writing # None)' <=> Running("drain") /\ writing # None)
    BY <1>1, <1>2, <1>3 DEF AInv, Paced
  <1>5. LiveCells' = LiveCells
    BY <1>1 DEF LiveCells
  <1>6. RecorderTypeOK'
    BY <1>1, <1>5 DEF AInv, RecorderTypeOK
  <1> QED
    BY <1>1, <1>2, <1>4, <1>6, ChainAccounts

\* A new process has counted nothing.
LEMMA NothingLive ==
  /\ NoCells \in [Cell -> Nat] /\ \A cell \in Cell : NoCells[cell] = 0
  /\ (cells' = NoCells) => LiveCells' = {}
  /\ (cells = NoCells) => LiveCells = {}
  /\ IsFiniteSet({}) /\ Cardinality({}) = 0
  /\ AllOpen \in [1..MaxEvents -> Fate] /\ \A n \in 1..MaxEvents : AllOpen[n] = Nowhere
  <1>1. NoCells \in [Cell -> Nat] /\ \A cell \in Cell : NoCells[cell] = 0
    BY DEF NoCells
  <1>2. /\ (cells' = NoCells) => LiveCells' = {}
        /\ (cells = NoCells) => LiveCells = {}
    BY <1>1 DEF LiveCells
  <1>3. AllOpen \in [1..MaxEvents -> Fate] /\ \A n \in 1..MaxEvents : AllOpen[n] = Nowhere
    BY DEF AllOpen, Fate, Nowhere
  <1> QED
    BY <1>1, <1>2, <1>3, FS_EmptySet

\* A crash starts the counts anew and leaves what is in the files.
LEMMA CrashAccounts ==
  ASSUME IInv, AInv, Crash
  PROVE  AInv'
  <1>1. /\ born' = next /\ buffer' = <<>> /\ dropped' = 0 /\ scheduled' = FALSE /\ stopped' = FALSE
        /\ chain' = <<>> /\ writing' = None /\ emissions' = <<>>
        /\ cells' = NoCells /\ overflow' = 0 /\ surfaced' = 0 /\ rolled' = NoCells
        /\ next' = next /\ now' = now /\ due' = Stored' /\ fate' = AllOpen
    BY DEF Crash
  <1>2. SinkInv' /\ Held' = Stored' /\ Held' \subseteq Held /\ io' = None
    BY FilesSurvive DEF AInv
  <1>3. next \in 0..MaxEvents /\ MaxEvents \in Nat /\ now \in 0..MaxNow
    BY RecorderAssumption DEF AInv, RecorderTypeOK
  <1>4. \A s : ~Running(s)'
    BY <1>1 DEF Running
  <1>5. /\ <<>> \in Seq(1..MaxEvents) /\ Len(<<>>) = 0 /\ <<>> \in Seq(Step) /\ <<>> \in Seq(Bucket)
        /\ DOMAIN <<>> = {}
    BY EmptySeq
  <1>6. LiveCells' = {} /\ IsFiniteSet(LiveCells') /\ Cardinality(LiveCells') = 0
    BY <1>1, NothingLive
  <1>7. RecorderTypeOK'
    <2>1. due' \subseteq Record
      <3>1. live' \in Seq(Record) /\ rotated' \in Seq(Seq(Record))
        BY <1>2 DEF SinkInv, SinkTypeOK
      <3>2. Range(live') \subseteq Record /\ \A i \in DOMAIN rotated' : rotated'[i] \in Seq(Record)
        BY <3>1, LinesAre
      <3>3. \A i \in DOMAIN rotated' : Range(rotated'[i]) \subseteq Record
        BY <3>2, LinesAre
      <3> QED
        BY <1>1, <3>2, <3>3 DEF Stored
    <2>2. Len(buffer') <= BufferSize
      BY <1>1, <1>5, RecorderAssumption
    <2>3. MaxKeys > 0 => Cardinality(LiveCells') <= MaxKeys
      BY <1>6, RecorderAssumption
    <2>4. next' \in 0..MaxEvents /\ born' \in 0..next' /\ dropped' \in 0..MaxEvents /\ now' \in 0..MaxNow
      BY <1>1, <1>3
    <2>5. buffer' \in Seq(1..MaxEvents) /\ chain' \in Seq(Step) /\ emissions' \in Seq(Bucket)
      BY <1>1, <1>5
    <2>6. /\ cells' \in [Cell -> Nat] /\ rolled' \in [Cell -> Nat] /\ overflow' \in Nat /\ surfaced' \in Nat
          /\ fate' \in [1..MaxEvents -> Fate]
      BY <1>1, NothingLive
    <2> QED
      BY <1>1, <2>1, <2>2, <2>3, <2>4, <2>5, <2>6 DEF RecorderTypeOK
  <1>8. EventsAreCounted'
    <2>1. \A p : Placed(fate', born', next', p) = {}
      BY <1>1, <1>3 DEF Placed
    <2>2. Waiting' = {}
      <3>1. ~Running("drain")' /\ Range(<<>>) = {}
        BY <1>4, NoLines
      <3> QED
        BY <1>1, <3>1 DEF Waiting
    <2>3. \A p : Cardinality(Placed(fate', born', next', p)) = 0
      BY <2>1, NothingLive
    <2>4. overflow' + surfaced' = 0 /\ dropped' = 0
      BY <1>1
    <2>5. \A cell \in Cell : cells'[cell] + rolled'[cell] = 0
      BY <1>1, NothingLive
    <2> QED
      BY <2>1, <2>2, <2>3, <2>4, <2>5, CountedThen
  <1>9. Queued' /\ DrainWrites' /\ Unborn' /\ Paced'
    BY <1>1, <1>2, <1>4, <1>5, NothingLive DEF Queued, DrainWrites, Unborn, Paced, Nowhere
  <1>10. RecordsAreTraced' /\ Behind'
    <2>1. RecordsAreTraced'
      BY <1>1 DEF RecordsAreTraced
    <2>2. Behind'
      BY <1>1, <1>2, <1>5 DEF AInv, Behind
    <2> QED
      BY <2>1, <2>2
  <1> QED
    BY <1>2, <1>6, <1>7, <1>8, <1>9, <1>10 DEF AInv

\* The oldest of the buffer, and the rest behind it.
LEMMA BufferIs ==
  ASSUME AInv, buffer # <<>>
  PROVE  /\ buffer \in Seq(1..MaxEvents) /\ Len(buffer) \in Nat \ {0} /\ DOMAIN buffer = 1..Len(buffer)
         /\ Head(buffer) = buffer[1] /\ Head(buffer) \in 1..MaxEvents
         /\ Head(buffer) \in born + 1..next
         /\ Tail(buffer) \in Seq(1..MaxEvents) /\ DOMAIN Tail(buffer) = 1..Len(buffer) - 1
         /\ Len(Tail(buffer)) <= BufferSize
         /\ \A i \in 1..Len(buffer) - 1 :
              i + 1 \in 1..Len(buffer) /\ Tail(buffer)[i] = buffer[i + 1] /\ Head(buffer) < Tail(buffer)[i]
         /\ Range(Tail(buffer)) = Range(buffer) \ {Head(buffer)}
         /\ \A i \in DOMAIN Tail(buffer) : Tail(buffer)[i] \in born + 1..next
         /\ \A i, j \in DOMAIN Tail(buffer) : i < j => Tail(buffer)[i] < Tail(buffer)[j]
  <1> DEFINE rest == Tail(buffer)
             m == Len(buffer)
  <1>1. /\ buffer \in Seq(1..MaxEvents) /\ m <= BufferSize /\ BufferSize \in Nat
        /\ m \in Nat \ {0} /\ DOMAIN buffer = 1..m
        /\ \A i \in 1..m : buffer[i] \in 1..MaxEvents
    BY EmptySeq, RecorderAssumption DEF AInv, RecorderTypeOK
  <1>2. /\ Head(buffer) = buffer[1] /\ 1 \in 1..m
        /\ rest \in Seq(1..MaxEvents) /\ Len(rest) = m - 1 /\ DOMAIN rest = 1..m - 1
        /\ \A i \in 1..m - 1 : i + 1 \in 1..m /\ rest[i] = buffer[i + 1]
    BY <1>1
  <1>3. Range(buffer) = {buffer[i] : i \in 1..m} /\ Range(rest) = {rest[i] : i \in 1..m - 1}
    BY <1>1, <1>2 DEF Range
  <1> HIDE DEF rest, m
  <1>4. /\ \A i \in 1..m : buffer[i] \in born + 1..next /\ buffer[i] \in 1..MaxEvents
        /\ \A i, j \in 1..m : i < j => buffer[i] < buffer[j]
    BY <1>1 DEF AInv, Queued
  <1>5. \A i \in 1..m - 1 : buffer[1] < rest[i]
    BY <1>1, <1>2, <1>4
  <1>6. \A i, j \in 1..m - 1 : i < j => rest[i] < rest[j]
    BY <1>1, <1>2, <1>4
  <1>7. Range(rest) = Range(buffer) \ {buffer[1]}
    <2>1. \A i \in 1..m : i # 1 => i - 1 \in 1..m - 1 /\ buffer[i] = rest[i - 1]
      <3> SUFFICES ASSUME NEW i \in 1..m, i # 1
                   PROVE  i - 1 \in 1..m - 1 /\ buffer[i] = rest[i - 1]
        OBVIOUS
      <3>1. i - 1 \in 1..m - 1 /\ i - 1 + 1 = i
        BY <1>1
      <3> QED
        BY <1>2, <3>1
    <2>2. \A i \in 1..m - 1 : rest[i] # buffer[1]
      BY <1>2, <1>4, <1>5
    <2> QED
      BY <1>2, <1>3, <2>1, <2>2
  <1>8. \A i \in 1..m - 1 : rest[i] \in born + 1..next
    BY <1>2, <1>4
  <1>9. Len(rest) <= BufferSize
    BY <1>1, <1>2
  <1> QED
    BY <1>1, <1>2, <1>4, <1>5, <1>6, <1>7, <1>8, <1>9 DEF rest, m

\* What is left of the buffer is in order and comes after what was taken.
LEMMA TakenInTurn ==
  ASSUME AInv, buffer # <<>>, buffer' = Tail(buffer), born' = born, next' = next
  PROVE  /\ Queued'
         /\ \A x \in Held \intersect Event :
              x[2] <= next' /\ \A i \in DOMAIN buffer' : x[2] < buffer'[i]
         /\ \A x \in Held \intersect Event : x[2] < Head(buffer)
  <1>1. Queued'
    BY BufferIs DEF Queued
  <1>2. \A x \in Held \intersect Event : x[2] <= next /\ \A i \in 1..Len(buffer) : x[2] < buffer[i]
    BY BufferIs DEF AInv, Behind
  <1> QED
    BY <1>1, <1>2, BufferIs

\* The event that is next is observed at once, or goes to the sink.
LEMMA ConsumeAccounts ==
  ASSUME IInv, AInv, Consume
  PROVE  AInv'
  <1>1. /\ Running("drain") /\ buffer # <<>> /\ writing = None
        /\ buffer' = Tail(buffer) /\ born' = born /\ next' = next /\ dropped' = dropped
        /\ surfaced' = surfaced /\ rolled' = rolled
        /\ UNCHANGED <<scheduled, stopped, chain, emissions, now>>
    BY DEF Consume
  <1>2. PICK n : n = Head(buffer)
    OBVIOUS
  <1>3. /\ n \in 1..MaxEvents /\ n \in born + 1..next /\ next \in Nat /\ born \in Nat
        /\ Tail(buffer) \in Seq(1..MaxEvents) /\ Len(Tail(buffer)) <= BufferSize
        /\ Range(Tail(buffer)) = Range(buffer) \ {n} /\ n \in Range(buffer)
        /\ \A i \in DOMAIN Tail(buffer) : n < Tail(buffer)[i]
    <2>1. n \in Range(buffer)
      BY <1>1, <1>2, BufferIs DEF Range
    <2> QED
      BY <1>1, <1>2, <2>1, BufferIs DEF AInv, RecorderTypeOK
  <1>4. /\ Queued'
        /\ \A x \in Held \intersect Event :
             x[2] <= next' /\ \A i \in DOMAIN buffer' : x[2] < buffer'[i]
        /\ \A x \in Held \intersect Event : x[2] < n
    BY <1>1, <1>2, TakenInTurn
  <1>5. \A s : Running(s)' <=> Running(s)
    BY <1>1 DEF Running
  <1>6. Waiting = Range(buffer)
    BY <1>1, WaitingIs
  <1>7. ~Running("sync") /\ ~Running("closing") /\ io = None
    <2>1. ~Running("sync") /\ ~Running("closing")
      BY <1>1 DEF Running
    <2> QED
      BY <1>1, <2>1 DEF AInv, Paced
  <1>8. CASE n \in Skipped
    <2>1. Observe(n) /\ writing' = writing /\ due' = due /\ UNCHANGED sink
      BY <1>1, <1>2, <1>8 DEF Consume
    <2>2. SinkInv' /\ Kept({}) /\ Held' = Held /\ io' = io
      BY <2>1, SinkStays
    <2>3. Waiting' = Waiting \ {n}
      <3>1. {m \in 1..MaxEvents : Running("drain")' /\ writing' = <<"event", m>>} = {}
        BY <1>1, <2>1, RecorderAssumption DEF Record, Event
      <3> QED
        BY <1>1, <1>3, <1>6, <3>1 DEF Waiting
    <2>4. /\ EventsAreCounted'
          /\ cells' \in [Cell -> Nat] /\ overflow' \in Nat /\ fate' \in [1..MaxEvents -> Fate]
          /\ MaxKeys > 0 => Cardinality(LiveCells') <= MaxKeys
          /\ IsFiniteSet(LiveCells') /\ Unborn'
      <3>1. n \in Waiting /\ UNCHANGED <<next, born, dropped, surfaced, rolled>>
        BY <1>1, <1>3, <1>6
      <3> QED
        BY <2>1, <2>3, <3>1, ObserveCounts DEF AInv
    <2>5. RecorderTypeOK'
      BY <1>1, <1>3, <2>1, <2>4 DEF AInv, RecorderTypeOK
    <2>6. DrainWrites' /\ Paced'
      BY <1>1, <1>5, <1>7, <2>1, <2>2 DEF DrainWrites, Paced
    <2>7. RecordsAreTraced' /\ Behind'
      <3>1. due' \subseteq due \union {} /\ Held \union {} = Held
        BY <2>1
      <3> QED
        BY <1>4, <2>2, <3>1, TraceKept
    <2> QED
      BY <1>4, <2>2, <2>4, <2>5, <2>6, <2>7 DEF AInv
  <1>9. CASE n \notin Skipped
    <2>1. PICK x : x = <<"event", n>>
      OBVIOUS
    <2>2. /\ writing' = x /\ due' = due \union {x} /\ Put(x)
          /\ cells' = cells /\ overflow' = overflow /\ fate' = fate
      BY <1>1, <1>2, <1>9, <2>1 DEF Consume
    <2>3. x \in Event /\ x \in Record /\ x[2] = n /\ x # None
      <3>1. x \in Event /\ x[2] = n
        BY <1>3, <2>1 DEF Event
      <3> QED
        BY <3>1, RecorderAssumption DEF Record
    <2>4. SinkInv' /\ Kept({x}) /\ io' # None
      <3>1. \A y \in Held \intersect Event : x \in Event => y[2] < x[2]
        BY <1>4, <2>3
      <3> QED
        BY <1>7, <2>2, <2>3, <3>1, PutKeeps DEF AInv
    <2>5. Waiting' = Waiting
      <3>1. {m \in 1..MaxEvents : Running("drain")' /\ writing' = <<"event", m>>} = {n}
        BY <1>1, <1>3, <1>5, <2>1, <2>2
      <3> QED
        BY <1>1, <1>3, <1>6, <3>1 DEF Waiting
    <2>6. EventsAreCounted'
      BY <1>1, <2>2, <2>5, CountsStay DEF AInv
    <2>7. LiveCells' = LiveCells
      BY <2>2 DEF LiveCells
    <2>8. RecorderTypeOK'
      BY <1>1, <1>3, <2>2, <2>3, <2>7 DEF AInv, RecorderTypeOK
    <2>9. DrainWrites'
      BY <1>1, <1>3, <2>2, <2>3 DEF DrainWrites
    <2>10. Paced' /\ Unborn'
      BY <1>1, <2>2, <2>3, <2>4 DEF AInv, Paced, Unborn
    <2>11. RecordsAreTraced' /\ Behind'
      <3>1. ASSUME NEW y \in (Held \union {x}) \intersect Event
            PROVE  y[2] <= next' /\ \A i \in DOMAIN buffer' : y[2] < buffer'[i]
        <4>1. CASE y \in Held
          BY <1>4, <4>1
        <4>2. CASE y = x
          BY <1>1, <1>3, <2>3, <4>2
        <4> QED
          BY <4>1, <4>2
      <3> QED
        BY <2>2, <2>4, <3>1, TraceKept
    <2> QED
      BY <1>4, <2>4, <2>6, <2>7, <2>8, <2>9, <2>10, <2>11 DEF AInv
  <1> QED
    BY <1>8, <1>9

\* A drain's event is observed when the sink has answered, and waits no more.
LEMMA WriteAccounts ==
  ASSUME IInv, AInv, WriteSettled
  PROVE  AInv'
  <1>1. /\ writing # None /\ Settled /\ writing' = None /\ io' = None
        /\ born' = born /\ next' = next /\ dropped' = dropped /\ buffer' = buffer
        /\ surfaced' = surfaced /\ rolled' = rolled /\ due' = due
        /\ UNCHANGED <<scheduled, stopped, chain, emissions, now>>
        /\ UNCHANGED <<pending, opened, sinkClosed>>
        /\ UNCHANGED <<size, live, rotated, pruned, lost>>
    BY DEF WriteSettled, intake, files
  <1>2. SinkInv' /\ Kept({})
    BY <1>1, FlushOver DEF AInv
  <1>3. \A s : Running(s)' <=> Running(s)
    BY <1>1 DEF Running
  <1>4. ~Running("sync") /\ ~Running("closing")
    BY <1>1 DEF IInv, InHand, Running
  <1>5. Queued' /\ DrainWrites' /\ Paced'
    <2>1. Queued'
      BY <1>1 DEF AInv, Queued
    <2>2. DrainWrites' /\ Paced'
      BY <1>1, <1>3, <1>4 DEF DrainWrites, Paced
    <2> QED
      BY <2>1, <2>2
  <1>6. RecordsAreTraced' /\ Behind'
    <2>1. UNCHANGED <<next, buffer>> /\ {} \intersect Event = {}
      BY <1>1
    <2>2. \A x \in (Held \union {}) \intersect Event :
            x[2] <= next' /\ \A i \in DOMAIN buffer' : x[2] < buffer'[i]
      BY <2>1, BehindStays
    <2> QED
      BY <1>1, <1>2, <2>2, TraceKept
  <1>7. Waiting' = Range(buffer)
    <2>1. {m \in 1..MaxEvents : Running("drain")' /\ writing' = <<"event", m>>} = {}
      BY <1>1, RecorderAssumption DEF Record, Event
    <2> QED
      BY <1>1, <2>1 DEF Waiting
  <1>8. /\ EventsAreCounted'
        /\ cells' \in [Cell -> Nat] /\ overflow' \in Nat /\ fate' \in [1..MaxEvents -> Fate]
        /\ MaxKeys > 0 => Cardinality(LiveCells') <= MaxKeys
        /\ IsFiniteSet(LiveCells') /\ Unborn'
    <2>1. CASE Running("drain")
      <3>1. PICK n : n = writing[2]
        OBVIOUS
      <3>2. Observe(n) /\ UNCHANGED <<next, born, dropped, surfaced, rolled>>
        BY <1>1, <2>1, <3>1 DEF WriteSettled
      <3>3. n \in Waiting /\ Waiting' = Waiting \ {n}
        BY <1>1, <1>7, <2>1, <3>1, WaitingIs
      <3> QED
        BY <3>2, <3>3, ObserveCounts DEF AInv
    <2>2. CASE ~Running("drain")
      <3>1. cells' = cells /\ overflow' = overflow /\ fate' = fate
        BY <2>2 DEF WriteSettled
      <3>2. Waiting' = Waiting
        BY <1>7, <2>2, WaitingIs
      <3>3. EventsAreCounted'
        BY <1>1, <3>1, <3>2, CountsStay DEF AInv
      <3>4. LiveCells' = LiveCells
        BY <3>1 DEF LiveCells
      <3> QED
        BY <1>1, <3>1, <3>3, <3>4 DEF AInv, RecorderTypeOK, Unborn
    <2> QED
      BY <2>1, <2>2
  <1>9. RecorderTypeOK'
    BY <1>1, <1>8 DEF AInv, RecorderTypeOK
  <1> QED
    BY <1>2, <1>5, <1>6, <1>8, <1>9 DEF AInv

\* The hook's records are of the buckets it took, and each is in the sum of its cell.
LEMMA HookGives ==
  ASSUME AInv, RunHook
  PROVE  /\ emissions' \in Seq(Bucket)
         /\ cells' \in [Cell -> Nat] /\ rolled' \in [Cell -> Nat]
         /\ \A cell \in Cell : cells'[cell] + rolled'[cell] = cells[cell] + rolled[cell]
         /\ IsFiniteSet(LiveCells')
         /\ MaxKeys > 0 => Cardinality(LiveCells') <= MaxKeys
  <1> DEFINE leaving == {cell \in LiveCells : Running("emitAll") \/ Complete(cell)}
  <1>1. /\ \E order \in [1..Cardinality(leaving) -> leaving] :
             emissions' = [i \in DOMAIN order |-> <<"bucket", order[i]>>]
        /\ rolled' = [cell \in Cell |->
                        rolled[cell] + IF cell \in leaving THEN cells[cell] ELSE 0]
        /\ cells' = [cell \in Cell |-> IF cell \in leaving THEN 0 ELSE cells[cell]]
    BY DEF RunHook
  <1>2. leaving \subseteq LiveCells /\ LiveCells \subseteq Cell
    BY DEF LiveCells
  <1>3. /\ cells \in [Cell -> Nat] /\ rolled \in [Cell -> Nat] /\ IsFiniteSet(LiveCells)
        /\ MaxKeys > 0 => Cardinality(LiveCells) <= MaxKeys
    BY DEF AInv, RecorderTypeOK
  <1> HIDE DEF leaving
  <1>4. IsFiniteSet(leaving) /\ Cardinality(leaving) \in Nat
    BY <1>2, <1>3, FS_Subset, FS_CardinalityType
  <1>5. emissions' \in Seq(Bucket)
    <2>1. PICK k \in Nat : k = Cardinality(leaving)
      BY <1>4
    <2>2. PICK order \in [1..k -> leaving] : emissions' = [i \in 1..k |-> <<"bucket", order[i]>>]
      BY <1>1, <2>1
    <2>3. \A i \in 1..k : <<"bucket", order[i]>> \in Bucket
      BY <1>2, <2>2 DEF Bucket
    <2>4. emissions' \in [1..k -> Bucket]
      BY <2>2, <2>3
    <2> QED
      BY <2>4
  <1>6. /\ cells' \in [Cell -> Nat] /\ rolled' \in [Cell -> Nat]
        /\ \A cell \in Cell : cells'[cell] + rolled'[cell] = cells[cell] + rolled[cell]
    BY <1>1, <1>3
  <1>7. LiveCells' \subseteq LiveCells
    BY <1>1, <1>3 DEF LiveCells
  <1>8. IsFiniteSet(LiveCells') /\ Cardinality(LiveCells') <= Cardinality(LiveCells)
    BY <1>3, <1>7, FS_Subset
  <1>9. Cardinality(LiveCells') \in Nat /\ Cardinality(LiveCells) \in Nat /\ MaxKeys \in Nat
    BY <1>3, <1>8, FS_CardinalityType, RecorderAssumption
  <1> QED
    BY <1>3, <1>5, <1>6, <1>8, <1>9

\* The hook moves whole cells to its records.
LEMMA HookAccounts ==
  ASSUME IInv, AInv, RunHook
  PROVE  AInv'
  <1>1. /\ UNCHANGED <<next, born, buffer, dropped, overflow, surfaced, fate>>
        /\ UNCHANGED <<writing, now, due, stopped, scheduled>> /\ UNCHANGED sink
        /\ chain # <<>> /\ Become("emitting")
        /\ ~Running("drain") /\ ~Running("sync") /\ ~Running("closing")
    BY DEF RunHook, intake, Running
  <1>2. chain' \in Seq(Step) /\ \A s : Running(s)' <=> s = "emitting"
    <2>1. "emitting" \in Step
      BY DEF Step
    <2> QED
      BY <1>1, <2>1, BecomeIs DEF IInv
  <1>3. writing = None
    BY <1>1 DEF IInv, InHand, RunHook, Running
  <1>4. SinkInv' /\ Kept({}) /\ io' = io
    BY <1>1, SinkStays
  <1>5. Waiting' = Waiting
    <2>1. ~Running("drain")'
      BY <1>2
    <2> QED
      BY <1>1, <2>1 DEF Waiting
  <1>6. EventsAreCounted'
    <2>1. \A cell \in Cell : cells'[cell] + rolled'[cell] = cells[cell] + rolled[cell]
      BY HookGives
    <2> QED
      BY <1>1, <1>5, <2>1, CountsStay DEF AInv
  <1>7. RecorderTypeOK'
    BY <1>1, <1>2, HookGives DEF AInv, RecorderTypeOK
  <1>8. Queued' /\ Unborn' /\ DrainWrites' /\ Paced'
    <2>1. Queued' /\ Unborn'
      BY <1>1 DEF AInv, Queued, Unborn
    <2>2. DrainWrites'
      BY <1>2 DEF DrainWrites
    <2>3. Paced'
      BY <1>1, <1>2, <1>4 DEF AInv, Paced
    <2> QED
      BY <2>1, <2>2, <2>3
  <1>9. RecordsAreTraced' /\ Behind'
    <2>1. UNCHANGED <<next, buffer>> /\ {} \intersect Event = {}
      BY <1>1
    <2>2. \A x \in (Held \union {}) \intersect Event :
            x[2] <= next' /\ \A i \in DOMAIN buffer' : x[2] < buffer'[i]
      BY <2>1, BehindStays
    <2> QED
      BY <1>1, <1>4, <2>2, TraceKept
  <1> QED
    BY <1>4, <1>6, <1>7, <1>8, <1>9, HookGives DEF AInv

\* A bucket's record goes to the sink; it is no event.
LEMMA EmitAccounts ==
  ASSUME IInv, AInv, EmitNext
  PROVE  AInv'
  <1>1. /\ Running("emitting") /\ emissions # <<>> /\ writing = None
        /\ UNCHANGED <<next, born, buffer, dropped, cells, overflow, surfaced, rolled, fate>>
        /\ UNCHANGED <<now, stopped, scheduled, chain>>
        /\ emissions' = Tail(emissions)
    BY DEF EmitNext, intake, aggregates
  <1>2. PICK x : x = Head(emissions)
    OBVIOUS
  <1>3. writing' = x /\ due' = due \union {x} /\ Put(x)
    BY <1>2 DEF EmitNext
  <1>4. x \in Bucket /\ x \in Record /\ x \notin Event /\ x # None /\ Tail(emissions) \in Seq(Bucket)
    <2>1. x \in Bucket /\ Tail(emissions) \in Seq(Bucket)
      BY <1>1, <1>2, HeadTailProperties DEF AInv, RecorderTypeOK
    <2> QED
      BY <2>1, RecorderAssumption DEF Record, Bucket, Event
  <1>5. ~Running("drain") /\ ~Running("sync") /\ ~Running("closing")
    BY <1>1 DEF Running
  <1>6. \A s : Running(s)' <=> Running(s)
    BY <1>1 DEF Running
  <1>7. SinkInv' /\ Kept({x}) /\ io' # None
    <2>1. io = None
      BY <1>1, <1>5 DEF AInv, Paced
    <2> QED
      BY <1>3, <1>4, <2>1, PutKeeps DEF AInv
  <1>8. Waiting' = Waiting
    <2>1. ~Running("drain")'
      BY <1>5, <1>6
    <2> QED
      BY <1>1, <1>5, <2>1 DEF Waiting
  <1>9. /\ EventsAreCounted' /\ Queued' /\ Unborn' /\ IsFiniteSet(LiveCells')
        /\ LiveCells' = LiveCells
    BY <1>1, <1>8, IntakeStays
  <1>10. RecorderTypeOK'
    BY <1>1, <1>3, <1>4, <1>9 DEF AInv, RecorderTypeOK
  <1>11. DrainWrites' /\ Paced'
    BY <1>3, <1>4, <1>5, <1>6, <1>7 DEF DrainWrites, Paced
  <1>12. RecordsAreTraced' /\ Behind'
    <2>1. UNCHANGED <<next, buffer>> /\ {x} \intersect Event = {}
      BY <1>1, <1>4
    <2>2. \A y \in (Held \union {x}) \intersect Event :
            y[2] <= next' /\ \A i \in DOMAIN buffer' : y[2] < buffer'[i]
      BY <2>1, BehindStays
    <2> QED
      BY <1>3, <1>7, <2>2, TraceKept
  <1> QED
    BY <1>7, <1>9, <1>10, <1>11, <1>12 DEF AInv

LEMMA AccountsInit == Init => AInv
  <1> SUFFICES ASSUME Init PROVE AInv
    OBVIOUS
  <1>1. /\ next = 0 /\ born = 0 /\ buffer = <<>> /\ dropped = 0
        /\ chain = <<>> /\ scheduled = FALSE /\ stopped = FALSE
        /\ writing = None /\ emissions = <<>> /\ now = 0
        /\ cells = NoCells /\ overflow = 0 /\ surfaced = 0 /\ rolled = NoCells
        /\ due = {} /\ fate = AllOpen
        /\ pending = <<>> /\ opened = FALSE /\ sinkClosed = FALSE /\ size = 0
        /\ io = None
        /\ live = <<>> /\ rotated = <<>> /\ pruned = {} /\ lost = {}
    BY DEF Init, SinkInit
  <1>2. /\ <<>> \in Seq(1..MaxEvents) /\ Len(<<>>) = 0 /\ <<>> \in Seq(Step) /\ <<>> \in Seq(Bucket)
        /\ <<>> \in Seq(Record) /\ <<>> \in Seq(Seq(Record)) /\ DOMAIN <<>> = {} /\ Range(<<>>) = {}
    BY EmptySeq, NoLines
  <1>3. \A s : ~Running(s)
    BY <1>1 DEF Running
  <1>4. InFlight = <<>> /\ Stored = {} /\ Held = {}
    BY <1>1, <1>2 DEF InFlight, Stored, Held
  <1>5. SinkInv
    <2>1. SinkTypeOK(Record)
      <3>1. Len(pending) <= BufferBytes /\ size \in Nat
        BY <1>1, <1>2, SinkAssumption
      <3>2. io \in {None} \union FlushOf(Record)
        BY <1>1
      <3> QED
        BY <1>1, <1>2, <3>1, <3>2 DEF SinkTypeOK
    <2>2. Tape = <<>>
      <3>1. Tape = <<>> \o (<<>> \o <<>>)
        BY <1>1, <1>4 DEF Tape
      <3> QED
        BY <1>2, <3>1, ConcatEmptySeq
    <2>3. InOrder(rotated, Tape)
      BY <1>1, <1>2, <2>2, NoLines DEF InOrder
    <2> QED
      BY <1>1, <2>1, <2>3, HeldIs DEF SinkInv, OneChunk
  <1>6. LiveCells = {} /\ IsFiniteSet(LiveCells) /\ Cardinality(LiveCells) = 0
    BY <1>1, NothingLive
  <1>7. MaxEvents \in Nat /\ MaxNow \in Nat /\ BufferSize \in Nat /\ MaxKeys \in Nat
    BY RecorderAssumption
  <1>8. RecorderTypeOK
    <2>1. next \in 0..MaxEvents /\ born \in 0..next /\ dropped \in 0..MaxEvents /\ now \in 0..MaxNow
      BY <1>1, <1>7
    <2>2. cells \in [Cell -> Nat] /\ rolled \in [Cell -> Nat] /\ fate \in [1..MaxEvents -> Fate]
      BY <1>1, NothingLive
    <2>3. Len(buffer) <= BufferSize /\ (MaxKeys > 0 => Cardinality(LiveCells) <= MaxKeys)
      BY <1>1, <1>2, <1>6, <1>7
    <2>4. buffer \in Seq(1..MaxEvents) /\ chain \in Seq(Step) /\ emissions \in Seq(Bucket)
      BY <1>1, <1>2
    <2> QED
      BY <1>1, <2>1, <2>2, <2>3, <2>4 DEF RecorderTypeOK
  <1>9. EventsAreCounted
    <2>1. \A p : CountedAt(p) = {}
      BY <1>1 DEF CountedAt
    <2>2. Waiting = {}
      <3>1. ~Running("drain")
        BY <1>3
      <3> QED
        BY <1>1, <1>2, <3>1 DEF Waiting
    <2>3. \A p : Cardinality(CountedAt(p)) = 0
      BY <2>1, NothingLive
    <2>4. overflow + surfaced = 0 /\ \A cell \in Cell : cells[cell] + rolled[cell] = 0
      BY <1>1, NothingLive
    <2> QED
      BY <1>1, <2>1, <2>2, <2>3, <2>4 DEF EventsAreCounted
  <1>10. RecordsAreTraced /\ Behind
    BY <1>1, <1>4 DEF RecordsAreTraced, Behind
  <1>11. Queued /\ DrainWrites /\ Unborn /\ Paced
    BY <1>1, <1>2, <1>3, NothingLive DEF Queued, DrainWrites, Unborn, Paced, Nowhere
  <1> QED
    BY <1>5, <1>6, <1>8, <1>9, <1>10, <1>11 DEF AInv

LEMMA AccountsNext == IInv /\ AInv /\ [Next]_vars => AInv'
  <1> SUFFICES ASSUME IInv, AInv, [Next]_vars PROVE AInv'
    OBVIOUS
  <1>1. CASE OnChain
    BY <1>1, FinishAccounts, ConsumeAccounts, WriteAccounts, HookAccounts, EmitAccounts,
       FlushAccounts, FileAccounts DEF OnChain
  <1>2. CASE RecordEvent \/ Flush \/ TimerFires \/ Close \/ Tick \/ Crash
    BY <1>2, RecordAccounts, JoinAccounts, TimeAccounts, CrashAccounts
  <1>3. CASE UNCHANGED vars
    BY <1>3, TimeAccounts
  <1> QED
    BY <1>1, <1>2, <1>3 DEF Next

-----------------------------------------------------------------------------
\* Every event has one count or waits, and every record a place, in order, from record() to
\* the files and through rotation, failing operations and crashes.
THEOREM EventsStayAccounted == Spec => []EventsAreAccounted
  <1>1. AInv => EventsAreAccounted
    BY DEF AInv, SinkInv, EventsAreAccounted, TypeOK, LossIsCounted
  <1> QED
    BY <1>1, Invariant, AccountsInit, AccountsNext, PTL DEF Spec
=============================================================================
