----------------------------- MODULE StoresProofs -----------------------------
(***************************************************************************)
(* The stores of a process, for any keys, values, clients and calls.       *)
(*                                                                         *)
(* The cache, with or without a cap and an expiry, under each provider:    *)
(* whatever a call answers was live while the call ran, also when writes,  *)
(* deletions and healing deletions of other clients pass it, and when a    *)
(* command that was given up is served after all; the Map keeps its order  *)
(* and its cap; and an entry that has not expired leaves a store only for  *)
(* a reason.                                                               *)
(*                                                                         *)
(* The secret source, cached or not: what it answers was the secret no     *)
(* longer ago than the cache keeps one and a remote call takes, and the    *)
(* readers of a key share one call.                                        *)
(*                                                                         *)
(* The bucket, of each kind: its objects are whole versions the size limit *)
(* admits, whichever file operation fails or crashes, and its answers are  *)
(* true of a moment of the call.                                           *)
(***************************************************************************)
EXTENDS Stores, SequenceTheorems, FiniteSetTheorems, WellFoundedInduction, TLAPS

-----------------------------------------------------------------------------
(* The cache: the inductive invariant.                                     *)

\* The types of TypeOK that reads depend on.
ReadTypes ==
  /\ entries \in [Key -> Entry \union {None}]
  /\ written \in [Key -> Entry \union {None}]
  /\ calls \in [Client -> Call]
  /\ seen \in [Client -> SUBSET (Key \X Value)]
  /\ clock \in Nat

\* A call that still has to reach the store has a key to reach it with.
HasKey == \A c \in Client : calls[c].at \in {"queued", "stray"} => calls[c].todo # <<>>

\* What the store holds is what the last write left; what a write left may be gone.
HoldsTheLast == \A k \in Key : entries[k] # None => written[k] = entries[k]

\* Only other programs leave texts that are not JSON, and only where they get to.
MapIsClean ==
  cache = "memory" => \A k \in Key : entries[k] # None => entries[k].value \in Value

IInv == ReadTypes /\ HasKey /\ HoldsTheLast /\ MapIsClean /\ AnswersAreLive

LEMMA OverIsCall ==
  ASSUME CachesAssumption, NEW got \in SUBSET (Key \X Value)
  PROVE  Over(got) \in Call /\ Over(got).at = "over" /\ Over(got).got = got
  BY DEF CachesAssumption, Over, Call

LEMMA InvInit == CachesAssumption /\ Init => IInv
  <1> SUFFICES ASSUME CachesAssumption, Init PROVE IInv
    OBVIOUS
  <1>1. Over({}) \in Call /\ Over({}).at = "over" /\ Over({}).got = {}
    BY OverIsCall
  <1> QED
    BY <1>1 DEF Init, IInv, ReadTypes, HasKey, HoldsTheLast, MapIsClean, AnswersAreLive

-----------------------------------------------------------------------------
(* The witness and the calls.                                              *)

\* What a running call has seen grows, and with what is live now.
LEMMA Witnessed ==
  ASSUME ReadTypes, Witness, clock' \in Nat, written' \in [Key -> Entry \union {None}]
  PROVE  /\ seen' \in [Client -> SUBSET (Key \X Value)]
         /\ \A c \in Client : seen[c] \subseteq seen'[c]
         /\ \A c \in Client : calls[c].at \notin {"over", "stray"} =>
              LivePairs(written', clock') \subseteq seen'[c]
  <1>1. LivePairs(written', clock') \subseteq Key \X Value
    BY DEF LivePairs
  <1> QED
    BY <1>1 DEF ReadTypes, Witness

\* A live entry is among the live pairs.
LEMMA LivePair ==
  ASSUME ReadTypes, HoldsTheLast, NEW k \in Key,
         entries[k] # None, entries[k].value \in Value, ~Expired(entries[k])
  PROVE  <<k, entries[k].value>> \in LivePairs(written, clock)
  <1>1. written[k] = entries[k] /\ entries[k].until \in Nat
    BY DEF HoldsTheLast, ReadTypes, Entry
  <1>2. entries[k].until = 0 \/ entries[k].until > clock
    BY <1>1 DEF Expired, ReadTypes
  <1> QED
    BY <1>1, <1>2 DEF LivePairs

LEMMA TodoFacts ==
  ASSUME NEW todo \in Seq(Key), todo # <<>>
  PROVE  /\ Head(todo) \in Key /\ Tail(todo) \in Seq(Key)
         /\ Len(todo) # 1 => Tail(todo) # <<>>
         /\ Range(todo) \subseteq Key
  <1>1. Head(todo) \in Key /\ Tail(todo) \in Seq(Key) /\ Len(Tail(todo)) = Len(todo) - 1
    BY HeadTailProperties
  <1>2. Len(todo) # 1 => Tail(todo) # <<>>
    BY <1>1, EmptySeq, LenProperties
  <1>3. Range(todo) \subseteq Key
    BY ElementOfSeq, LenProperties DEF Range
  <1> QED
    BY <1>1, <1>2, <1>3

LEMMA FreshIsEntry ==
  ASSUME CachesAssumption, ReadTypes, NEW c \in Client
  PROVE  Fresh(c) \in Entry /\ Fresh(c).value \in Value
  BY DEF CachesAssumption, ReadTypes, Fresh, ResolveTtl, Entry, Call

\* One client's call moves to d, which has got nothing but what it had got before
\* and what is live; everyone witnesses.
LEMMA CallMoves ==
  ASSUME IInv, NEW c \in Client, NEW d \in Call,
         calls' = [calls EXCEPT ![c] = d],
         d.at \in {"queued", "stray"} => d.todo # <<>>,
         d.got \subseteq calls[c].got
           \union IF calls[c].at \in {"over", "stray"} THEN {} ELSE LivePairs(written', clock'),
         Witness, clock' \in Nat,
         entries' \in [Key -> Entry \union {None}], written' \in [Key -> Entry \union {None}],
         HoldsTheLast', MapIsClean'
  PROVE  IInv'
  <1>1. /\ seen' \in [Client -> SUBSET (Key \X Value)]
        /\ \A b \in Client : seen[b] \subseteq seen'[b]
        /\ \A b \in Client : calls[b].at \notin {"over", "stray"} =>
             LivePairs(written', clock') \subseteq seen'[b]
    BY Witnessed DEF IInv
  <1>2. calls' \in [Client -> Call] /\ \A b \in Client : calls'[b] = IF b = c THEN d ELSE calls[b]
    BY DEF IInv, ReadTypes
  <1>3. ReadTypes' /\ HasKey'
    BY <1>1, <1>2 DEF IInv, ReadTypes, HasKey
  <1>4. d.got \subseteq seen'[c]
    BY <1>1 DEF IInv, AnswersAreLive
  <1>5. AnswersAreLive'
    BY <1>1, <1>2, <1>4 DEF IInv, AnswersAreLive
  <1> QED
    BY <1>3, <1>5 DEF IInv

LEMMA Progressed ==
  ASSUME CachesAssumption, IInv, NEW c \in Client, calls[c].at = "queued",
         NEW pairs \in SUBSET (Key \X Value), Progress(c, pairs)
  PROVE  \E d \in Call : /\ calls' = [calls EXCEPT ![c] = d]
                         /\ d.at \in {"queued", "stray"} => d.todo # <<>>
                         /\ d.got = calls[c].got \union pairs
  <1> DEFINE got == calls[c].got \union pairs
  <1>1. calls[c] \in Call /\ got \in SUBSET (Key \X Value)
    BY DEF IInv, ReadTypes, Call
  <1>2. /\ calls[c].todo # <<>> /\ calls[c].todo \in Seq(Key)
        /\ Tail(calls[c].todo) \in Seq(Key)
        /\ Len(calls[c].todo) # 1 => Tail(calls[c].todo) # <<>>
    BY <1>1, TodoFacts DEF IInv, HasKey, Call
  <1>3. CASE Len(calls[c].todo) = 1
    <2>1. calls' = [calls EXCEPT ![c] = Over(got)]
      BY <1>3 DEF Progress, IInv, ReadTypes
    <2> HIDE DEF got
    <2> QED
      BY <1>1, <2>1, OverIsCall DEF got
  <1>4. CASE Len(calls[c].todo) # 1
    <2> DEFINE d == [calls[c] EXCEPT !.todo = Tail(calls[c].todo), !.got = got]
    <2>1. calls' = [calls EXCEPT ![c] = d]
      BY <1>4 DEF Progress, IInv, ReadTypes
    <2>2. d \in Call /\ d.at = "queued" /\ d.todo = Tail(calls[c].todo) /\ d.got = got
      BY <1>1, <1>2 DEF Call
    <2> HIDE DEF d
    <2> QED
      BY <1>2, <1>4, <2>1, <2>2
  <1> QED
    BY <1>3, <1>4

-----------------------------------------------------------------------------
(* The store.                                                              *)

LEMMA Forgotten ==
  ASSUME IInv, NEW ks, Forget(ks), UNCHANGED <<cache, written>>
  PROVE  /\ entries' \in [Key -> Entry \union {None}] /\ written' \in [Key -> Entry \union {None}]
         /\ HoldsTheLast' /\ MapIsClean'
  BY DEF IInv, ReadTypes, Forget, HoldsTheLast, MapIsClean

\* A key has been written or deleted, and perhaps others are gone.
LEMMA Stored ==
  ASSUME IInv, NEW k \in Key, NEW e \in Entry \union {None}, Landed(k, e),
         entries' \in [Key -> Entry \union {None}], entries'[k] = e,
         \A j \in Key \ {k} : entries'[j] \in {entries[j], None},
         UNCHANGED cache, cache = "memory" /\ e # None => e.value \in Value
  PROVE  written' \in [Key -> Entry \union {None}] /\ HoldsTheLast' /\ MapIsClean'
  BY DEF IInv, ReadTypes, Landed, HoldsTheLast, MapIsClean

LEMMA Kept ==
  ASSUME IInv, UNCHANGED <<cache, entries, written>>
  PROVE  /\ entries' \in [Key -> Entry \union {None}] /\ written' \in [Key -> Entry \union {None}]
         /\ HoldsTheLast' /\ MapIsClean'
  BY DEF IInv, ReadTypes, HoldsTheLast, MapIsClean

-----------------------------------------------------------------------------
(* The local stores.                                                       *)

\* A call whose turn it is has a key.
LEMMA TurnHasKey ==
  ASSUME IInv, NEW c \in Client, calls[c].at \in {"queued", "stray"}
  PROVE  Current(c) \in Key /\ calls[c] \in Call
  BY TodoFacts DEF IInv, HasKey, ReadTypes, Call, Current

\* Both local stores answer what they have, or forget it and miss.
LEMMA LocalGet ==
  ASSUME CachesAssumption, IInv, NEW c \in Client, MemoryGet(c) \/ WebGet(c)
  PROVE  IInv'
  <1> DEFINE k == Current(c)  e == entries[Current(c)]
  <1>1. k \in Key /\ calls[c] \in Call /\ calls[c].at = "queued"
    BY TurnHasKey DEF MemoryGet, WebGet, Turn
  <1>2. UNCHANGED <<cache, clock, written>> /\ Witness /\ clock' \in Nat
    BY DEF MemoryGet, WebGet, IInv, ReadTypes
  <1>3. \/ Forget({k}) /\ Progress(c, {})
        \/ e = None /\ Progress(c, {}) /\ UNCHANGED entries
        \/ /\ e # None /\ ~Expired(e) /\ (e.value # Corrupt \/ cache = "memory")
           /\ Progress(c, {<<k, e.value>>}) /\ UNCHANGED entries
    BY DEF MemoryGet, WebGet
  <1> HIDE DEF k, e
  <1>4. CASE \/ Forget({k}) /\ Progress(c, {})
             \/ e = None /\ Progress(c, {}) /\ UNCHANGED entries
    <2>1. /\ entries' \in [Key -> Entry \union {None}] /\ written' \in [Key -> Entry \union {None}]
          /\ HoldsTheLast' /\ MapIsClean'
      BY <1>2, <1>4, Forgotten, Kept
    <2>2. PICK d \in Call : /\ calls' = [calls EXCEPT ![c] = d]
                            /\ d.at \in {"queued", "stray"} => d.todo # <<>>
                            /\ d.got = calls[c].got \union {}
      BY <1>1, <1>4, Progressed
    <2> QED
      BY <1>2, <2>1, <2>2, CallMoves
  <1>5. CASE /\ e # None /\ ~Expired(e) /\ (e.value # Corrupt \/ cache = "memory")
             /\ Progress(c, {<<k, e.value>>}) /\ UNCHANGED entries
    <2>1. /\ entries' \in [Key -> Entry \union {None}] /\ written' \in [Key -> Entry \union {None}]
          /\ HoldsTheLast' /\ MapIsClean'
      BY <1>2, <1>5, Kept
    <2>2. e = entries[k] /\ e.value \in Value
      BY <1>1, <1>5 DEF k, e, IInv, ReadTypes, MapIsClean, Entry
    <2>3. <<k, e.value>> \in LivePairs(written', clock')
      BY <1>1, <1>2, <1>5, <2>2, LivePair DEF IInv
    <2>4. {<<k, e.value>>} \in SUBSET (Key \X Value)
      BY <1>1, <2>2
    <2>5. PICK d \in Call : /\ calls' = [calls EXCEPT ![c] = d]
                            /\ d.at \in {"queued", "stray"} => d.todo # <<>>
                            /\ d.got = calls[c].got \union {<<k, e.value>>}
      BY <1>1, <1>5, <2>4, Progressed
    <2> QED
      BY <1>1, <1>2, <2>1, <2>3, <2>5, CallMoves
  <1> QED
    BY <1>3, <1>4, <1>5

\* A write or a deletion in a local store, and the noop cache, answer nothing.
LEMMA LocalWrite ==
  ASSUME CachesAssumption, IInv, NEW c \in Client,
         MemorySet(c) \/ LocalDelete(c) \/ WebSet(c) \/ NoopCall(c)
  PROVE  IInv'
  <1> DEFINE k == Current(c)  e == Fresh(c)
  <1>1. k \in Key /\ calls[c] \in Call /\ calls[c].at = "queued"
    BY TurnHasKey DEF MemorySet, LocalDelete, WebSet, NoopCall, Turn
  <1>2. UNCHANGED <<cache, clock>> /\ Witness /\ clock' \in Nat /\ Progress(c, {})
    BY DEF MemorySet, LocalDelete, WebSet, NoopCall, IInv, ReadTypes
  <1>3. e \in Entry /\ e.value \in Value
    BY FreshIsEntry DEF IInv
  <1>4. /\ entries' \in [Key -> Entry \union {None}] /\ written' \in [Key -> Entry \union {None}]
        /\ HoldsTheLast' /\ MapIsClean'
    <2>1. CASE MemorySet(c)
      <3>1. PICK room : /\ entries' = [j \in Key |-> CASE j = k -> e
                                               [] j # k /\ j \in room -> entries[j]
                                               [] OTHER -> None]
                        /\ Landed(k, e)
        BY <2>1 DEF MemorySet
      <3> HIDE DEF k, e
      <3>2. entries'[k] = e /\ \A j \in Key \ {k} : entries'[j] \in {entries[j], None}
        BY <1>1, <3>1
      <3>3. entries' \in [Key -> Entry \union {None}]
        BY <1>3, <3>1 DEF IInv, ReadTypes
      <3> QED
        BY <1>1, <1>2, <1>3, <3>1, <3>2, <3>3, Stored
    <2>2. CASE LocalDelete(c)
      <3>1. Forget({k}) /\ Landed(k, None)
        BY <2>2 DEF LocalDelete
      <3> HIDE DEF k
      <3>2. /\ entries' \in [Key -> Entry \union {None}] /\ entries'[k] = None
            /\ \A j \in Key \ {k} : entries'[j] \in {entries[j], None}
        BY <1>1, <3>1 DEF Forget, IInv, ReadTypes
      <3> QED
        BY <1>1, <1>2, <3>1, <3>2, Stored
    <2>3. CASE WebSet(c)
      <3>1. \/ entries' = [entries EXCEPT ![k] = e] /\ Landed(k, e)
            \/ UNCHANGED <<entries, written>>
        BY <2>3 DEF WebSet
      <3> HIDE DEF k, e
      <3>2. CASE entries' = [entries EXCEPT ![k] = e] /\ Landed(k, e)
        <4>1. /\ entries' \in [Key -> Entry \union {None}] /\ entries'[k] = e
              /\ \A j \in Key \ {k} : entries'[j] \in {entries[j], None}
          BY <1>1, <1>3, <3>2 DEF IInv, ReadTypes
        <4> QED
          BY <1>1, <1>2, <1>3, <3>2, <4>1, Stored
      <3> QED
        BY <1>2, <3>1, <3>2, Kept
    <2>4. CASE NoopCall(c)
      BY <1>2, <2>4, Kept DEF NoopCall
    <2> QED
      BY <2>1, <2>2, <2>3, <2>4 DEF MemorySet, LocalDelete, WebSet, NoopCall
  <1>5. PICK d \in Call : /\ calls' = [calls EXCEPT ![c] = d]
                          /\ d.at \in {"queued", "stray"} => d.todo # <<>>
                          /\ d.got = calls[c].got \union {}
    BY <1>1, <1>2, Progressed
  <1> QED
    BY <1>2, <1>4, <1>5, CallMoves

-----------------------------------------------------------------------------
(* Redis.                                                                  *)

\* The server reads at one instant.
LEMMA ServerReads ==
  ASSUME CachesAssumption, IInv, NEW c \in Client, RedisServes(c), Reads(c)
  PROVE  IInv'
  <1> DEFINE there == {k \in Range(calls[c].todo) : entries[k] # None /\ ~Expired(entries[k])}
             bad   == {k \in there : entries[k].value = Corrupt}
             found == {<<k, entries[k].value>> : k \in there \ bad}
             d     == [calls[c] EXCEPT !.got = found, !.bad = bad, !.at = "served"]
  <1>1. calls[c] \in Call /\ calls[c].at = "queued"
    BY TurnHasKey DEF RedisServes
  <1>2. UNCHANGED <<cache, clock, entries, written>> /\ Witness /\ clock' \in Nat
    BY DEF RedisServes, Reads, IInv, ReadTypes
  <1>3. Range(calls[c].todo) \subseteq Key
    BY <1>1, TodoFacts DEF IInv, HasKey, Call
  <1>4. /\ found \subseteq LivePairs(written', clock')
        /\ found \subseteq Key \X Value /\ bad \subseteq Key
    <2>1. ASSUME NEW k \in there \ bad
          PROVE  /\ <<k, entries[k].value>> \in LivePairs(written', clock')
                 /\ <<k, entries[k].value>> \in Key \X Value
      <3>1. k \in Key /\ entries[k] # None /\ ~Expired(entries[k]) /\ entries[k].value # Corrupt
        BY <1>3
      <3>2. entries[k].value \in Value
        BY <3>1 DEF IInv, ReadTypes, Entry
      <3>3. <<k, entries[k].value>> \in LivePairs(written, clock)
        BY <3>1, <3>2, LivePair DEF IInv
      <3> QED
        BY <1>2, <3>1, <3>2, <3>3
    <2> QED
      BY <1>3, <2>1
  <1>5. calls' = [calls EXCEPT ![c] = d]
    BY DEF Reads, IInv, ReadTypes
  <1> HIDE DEF found, bad
  <1>6. d \in Call /\ d.got = found /\ d.at = "served"
    BY <1>1, <1>4 DEF Call
  <1>7. /\ entries' \in [Key -> Entry \union {None}] /\ written' \in [Key -> Entry \union {None}]
        /\ HoldsTheLast' /\ MapIsClean'
    BY <1>2, Kept
  <1> HIDE DEF d
  <1> QED
    BY <1>1, <1>2, <1>4, <1>5, <1>6, <1>7, CallMoves

\* What a command leaves at the server: a new entry, or none.
LEMMA ServerStores ==
  ASSUME CachesAssumption, IInv, NEW c \in Client, NEW k \in Key, UNCHANGED cache,
         LET e == IF calls[c].op = "set" THEN Fresh(c) ELSE None
         IN  \/ entries' = [entries EXCEPT ![k] = e] /\ Landed(k, e)
             \/ UNCHANGED <<entries, written>>
  PROVE  /\ entries' \in [Key -> Entry \union {None}] /\ written' \in [Key -> Entry \union {None}]
         /\ HoldsTheLast' /\ MapIsClean'
  <1> DEFINE e == IF calls[c].op = "set" THEN Fresh(c) ELSE None
  <1>1. /\ e \in Entry \union {None}
        /\ cache = "memory" /\ e # None => e.value \in Value
    BY FreshIsEntry DEF IInv
  <1>2. \/ entries' = [entries EXCEPT ![k] = e] /\ Landed(k, e)
        \/ UNCHANGED <<entries, written>>
    OBVIOUS
  <1> HIDE DEF e
  <1>3. CASE entries' = [entries EXCEPT ![k] = e] /\ Landed(k, e)
    <2>1. /\ entries' \in [Key -> Entry \union {None}] /\ entries'[k] = e
          /\ \A j \in Key \ {k} : entries'[j] \in {entries[j], None}
      BY <1>1, <1>3 DEF IInv, ReadTypes
    <2> QED
      BY <1>1, <1>3, <2>1, Stored
  <1> QED
    BY <1>2, <1>3, Kept

\* A command of a pipeline is served.
LEMMA ServerWrites ==
  ASSUME CachesAssumption, IInv, NEW c \in Client, RedisServes(c), Writes(c)
  PROVE  IInv'
  <1> DEFINE k == Current(c)
             d == [calls[c] EXCEPT !.todo = Tail(calls[c].todo),
                                   !.at = IF Len(calls[c].todo) = 1 THEN "served" ELSE calls[c].at]
  <1>1. k \in Key /\ calls[c] \in Call /\ calls[c].at = "queued"
    BY TurnHasKey DEF RedisServes
  <1>2. UNCHANGED <<cache, clock>> /\ Witness /\ clock' \in Nat
    BY DEF RedisServes, IInv, ReadTypes
  <1>3. /\ entries' \in [Key -> Entry \union {None}] /\ written' \in [Key -> Entry \union {None}]
        /\ HoldsTheLast' /\ MapIsClean'
    BY <1>1, <1>2, ServerStores DEF Writes
  <1>4. /\ Tail(calls[c].todo) \in Seq(Key)
        /\ Len(calls[c].todo) # 1 => Tail(calls[c].todo) # <<>>
    BY <1>1, TodoFacts DEF IInv, HasKey, Call
  <1>5. calls' = [calls EXCEPT ![c] = d]
    BY <1>1 DEF Writes, IInv, ReadTypes
  <1>6. /\ d \in Call /\ d.got = calls[c].got
        /\ d.at \in {"queued", "stray"} => d.todo # <<>>
    BY <1>1, <1>4 DEF Call
  <1> HIDE DEF d
  <1> QED
    BY <1>2, <1>3, <1>5, <1>6, CallMoves

\* Answers, rejections and healing deletions tell what has been read, or nothing.
LEMMA ServerEnds ==
  ASSUME CachesAssumption, IInv, NEW c \in Client,
         RedisAnswers(c) \/ RedisFails(c) \/ Heal(c) \/ StrayMoves(c)
  PROVE  IInv'
  <1>1. calls[c] \in Call /\ calls[c].got \in SUBSET (Key \X Value)
    BY DEF IInv, ReadTypes, Call
  <1>2. UNCHANGED <<cache, clock>> /\ Witness /\ clock' \in Nat
    BY DEF RedisAnswers, RedisFails, Heal, StrayMoves, IInv, ReadTypes
  <1>3. /\ entries' \in [Key -> Entry \union {None}] /\ written' \in [Key -> Entry \union {None}]
        /\ HoldsTheLast' /\ MapIsClean'
    <2>1. CASE RedisAnswers(c) \/ RedisFails(c)
      BY <1>2, <2>1, Kept DEF RedisAnswers, RedisFails
    <2>2. CASE Heal(c)
      BY <1>2, <2>2, Kept, Forgotten DEF Heal
    <2>3. CASE StrayMoves(c)
      <3>1. Current(c) \in Key
        BY <2>3, TurnHasKey DEF StrayMoves
      <3>2. LET e == IF calls[c].op = "set" THEN Fresh(c) ELSE None
            IN  \/ entries' = [entries EXCEPT ![Current(c)] = e] /\ Landed(Current(c), e)
                \/ UNCHANGED <<entries, written>>
        BY <2>3 DEF StrayMoves
      <3> QED
        BY <1>2, <3>1, <3>2, ServerStores
    <2> QED
      BY <2>1, <2>2, <2>3
  <1>4. /\ Over(calls[c].got) \in Call /\ Over(calls[c].got).at = "over"
        /\ Over(calls[c].got).got = calls[c].got
        /\ Over({}) \in Call /\ Over({}).at = "over" /\ Over({}).got = {}
    BY <1>1, OverIsCall
  <1>5. \E d \in Call : /\ calls' = [calls EXCEPT ![c] = d]
                        /\ d.at \in {"queued", "stray"} => d.todo # <<>>
                        /\ d.got \subseteq calls[c].got
    <2>1. CASE \E over \in {Over(calls[c].got), Over({})} : calls' = [calls EXCEPT ![c] = over]
      BY <1>4, <2>1
    <2>2. CASE RedisAnswers(c) /\ calls' = [calls EXCEPT ![c] = [calls[c] EXCEPT !.at = "healing"]]
      <3> DEFINE d == [calls[c] EXCEPT !.at = "healing"]
      <3>1. d \in Call /\ d.at = "healing" /\ d.got = calls[c].got
        BY <1>1 DEF Call
      <3> HIDE DEF d
      <3> QED
        BY <2>2, <3>1 DEF d
    <2>3. CASE /\ RedisFails(c) /\ calls[c].at = "queued"
               /\ calls' = [calls EXCEPT ![c] = [calls[c] EXCEPT !.at = "stray"]]
      <3> DEFINE d == [calls[c] EXCEPT !.at = "stray"]
      <3>1. d \in Call /\ d.at = "stray" /\ d.got = calls[c].got /\ d.todo = calls[c].todo
        BY <1>1 DEF Call
      <3>2. d.todo # <<>>
        BY <2>3, <3>1 DEF IInv, HasKey
      <3> HIDE DEF d
      <3> QED
        BY <2>3, <3>1, <3>2 DEF d
    <2>4. CASE RedisAnswers(c)
      BY <2>1, <2>2, <2>4 DEF RedisAnswers
    <2>5. CASE RedisFails(c)
      BY <2>1, <2>3, <2>5 DEF RedisFails
    <2>6. CASE Heal(c)
      BY <2>1, <2>6 DEF Heal
    <2>7. CASE /\ StrayMoves(c) /\ Len(calls[c].todo) > 1
               /\ calls' = [calls EXCEPT ![c].todo = Tail(calls[c].todo)]
      <3> DEFINE d == [calls[c] EXCEPT !.todo = Tail(calls[c].todo)]
      <3>1. calls' = [calls EXCEPT ![c] = d]
        BY <2>7 DEF IInv, ReadTypes
      <3>2. Tail(calls[c].todo) \in Seq(Key) /\ Tail(calls[c].todo) # <<>>
        <4>1. calls[c].at = "stray" /\ calls[c].todo \in Seq(Key)
          BY <1>1, <2>7 DEF StrayMoves, Call
        <4>2. Len(calls[c].todo) # 1
          <5> DEFINE n == Len(calls[c].todo)
          <5>1. n \in Nat
            BY <4>1, LenProperties
          <5>2. n > 1
            BY <2>7, Zenon
          <5> HIDE DEF n
          <5>3. n # 1
            BY <5>1, <5>2
          <5> QED
            BY <5>3 DEF n
        <4>3. calls[c].todo # <<>>
          BY <4>1 DEF IInv, HasKey
        <4> QED
          BY <4>1, <4>2, <4>3, TodoFacts
      <3>3. d \in Call /\ d.got = calls[c].got /\ d.todo = Tail(calls[c].todo)
        BY <1>1, <3>2 DEF Call
      <3> HIDE DEF d
      <3> QED
        BY <3>1, <3>2, <3>3
    <2>8. CASE StrayMoves(c)
      BY <2>1, <2>7, <2>8 DEF StrayMoves
    <2> QED
      BY <2>4, <2>5, <2>6, <2>8
  <1>6. PICK d \in Call : /\ calls' = [calls EXCEPT ![c] = d]
                          /\ d.at \in {"queued", "stray"} => d.todo # <<>>
                          /\ d.got \subseteq calls[c].got
    BY <1>5
  <1> QED
    BY <1>2, <1>3, <1>6, CallMoves

-----------------------------------------------------------------------------
(* A call begins; other programs write; time passes.                       *)

LEMMA CallBegins ==
  ASSUME CachesAssumption, IInv, NEW c \in Client, NEW r \in Requests, Invoke(c, r)
  PROVE  IInv'
  <1> DEFINE d == [op |-> r.op, todo |-> r.keys, value |-> r.value, ttl |-> r.ttl,
                   got |-> {}, bad |-> {}, at |-> "queued"]
  <1>1. /\ r \in [op : {"get", "set", "delete"}, keys : Seq(Key), value : Value, ttl : Nat]
        /\ Len(r.keys) > 0
    BY DEF CachesAssumption
  <1>2. r.keys # <<>>
    BY <1>1, EmptySeq
  <1>3. d \in Call /\ d.todo # <<>> /\ d.got = {}
    BY <1>1, <1>2 DEF Call
  <1>4. calls' = [calls EXCEPT ![c] = d]
    BY DEF Invoke
  <1>5. UNCHANGED <<cache, entries, clock, written>>
          /\ seen' = [seen EXCEPT ![c] = LivePairs(written, clock)]
    BY DEF Invoke
  <1>6. LivePairs(written, clock) \subseteq Key \X Value
    BY DEF LivePairs
  <1> HIDE DEF d
  <1>7. calls' \in [Client -> Call] /\ \A b \in Client : calls'[b] = IF b = c THEN d ELSE calls[b]
    BY <1>3, <1>4 DEF IInv, ReadTypes
  <1>8. ReadTypes' /\ HasKey'
    BY <1>3, <1>5, <1>6, <1>7 DEF IInv, ReadTypes, HasKey
  <1>9. AnswersAreLive'
    BY <1>3, <1>5, <1>7 DEF IInv, ReadTypes, AnswersAreLive
  <1> QED
    BY <1>5, <1>8, <1>9, Kept DEF IInv

\* No call moves, and every running call witnesses.
LEMMA OthersMove ==
  ASSUME CachesAssumption, IInv, Tick \/ \E k \in Key : Scribble(k)
  PROVE  IInv'
  <1>1. UNCHANGED <<cache, calls>> /\ Witness /\ clock' \in Nat
    BY DEF Tick, Scribble, IInv, ReadTypes
  <1>2. /\ entries' \in [Key -> Entry \union {None}] /\ written' \in [Key -> Entry \union {None}]
        /\ HoldsTheLast' /\ MapIsClean'
    <2>1. CASE Tick
      BY <2>1, Kept DEF Tick
    <2>2. CASE \E k \in Key : Scribble(k)
      <3> DEFINE e == [value |-> Corrupt, until |-> 0]
      <3>1. PICK k \in Key : Scribble(k)
        BY <2>2
      <3>2. e \in Entry
        BY DEF Entry
      <3>3. cache # "memory" /\ entries' = [entries EXCEPT ![k] = e] /\ Landed(k, e)
        BY <3>1 DEF Scribble
      <3> HIDE DEF e
      <3>4. /\ entries' \in [Key -> Entry \union {None}] /\ entries'[k] = e
            /\ \A j \in Key \ {k} : entries'[j] \in {entries[j], None}
        BY <3>2, <3>3 DEF IInv, ReadTypes
      <3> QED
        BY <1>1, <3>2, <3>3, <3>4, Stored
    <2> QED
      BY <2>1, <2>2 DEF Tick
  <1>3. /\ seen' \in [Client -> SUBSET (Key \X Value)]
        /\ \A b \in Client : seen[b] \subseteq seen'[b]
    BY <1>1, <1>2, Witnessed DEF IInv
  <1> QED
    BY <1>1, <1>2, <1>3 DEF IInv, ReadTypes, HasKey, AnswersAreLive

LEMMA InvNext == CachesAssumption /\ IInv /\ [Next]_cacheVars => IInv'
  <1> SUFFICES ASSUME CachesAssumption, IInv, [Next]_cacheVars PROVE IInv'
    OBVIOUS
  <1>1. ASSUME NEW c \in Client, NEW r \in Requests, Invoke(c, r) PROVE IInv'
    BY <1>1, CallBegins
  <1>2. ASSUME NEW c \in Client,
               \/ MemoryGet(c) \/ MemorySet(c) \/ LocalDelete(c) \/ WebGet(c) \/ WebSet(c)
               \/ NoopCall(c)
        PROVE  IInv'
    BY <1>2, LocalGet, LocalWrite
  <1>3. ASSUME NEW c \in Client,
               RedisServes(c) \/ RedisAnswers(c) \/ Heal(c) \/ RedisFails(c) \/ StrayMoves(c)
        PROVE  IInv'
    <2>1. CASE RedisServes(c)
      BY <2>1, ServerReads, ServerWrites DEF RedisServes
    <2> QED
      BY <1>3, <2>1, ServerEnds
  <1>4. CASE Tick \/ \E k \in Key : Scribble(k)
    BY <1>4, OthersMove
  <1>5. CASE UNCHANGED cacheVars
    BY <1>5, Kept DEF cacheVars, IInv, ReadTypes, HasKey, AnswersAreLive
  <1> QED
    BY <1>1, <1>2, <1>3, <1>4, <1>5 DEF Next

-----------------------------------------------------------------------------
(* The Map: its order and its cap.                                         *)

\* What TypeOK says besides ReadTypes; and the keys of the Map can be counted.
MapInv ==
  /\ cache \in CacheProviders /\ clock \in 0..CacheHorizon /\ made \in 0..MaxCalls
  /\ cache = "memory" => IsFiniteSet(Held)
  /\ IF cache = "memory" THEN MapIsSound ELSE order = {}

\* Only a write to redis that was given up may still be served.
StraysWrite ==
  \A c \in Client : calls[c].at = "stray" => cache = "redis" /\ calls[c].op # "get"

LEMMA MapInit == CachesAssumption /\ Init => MapInv /\ StraysWrite
  <1> SUFFICES ASSUME CachesAssumption, Init PROVE MapInv /\ StraysWrite
    OBVIOUS
  <1>1. Held = {} /\ IsFiniteSet({}) /\ Cardinality({}) = 0
    BY FS_EmptySet DEF Held, Init
  <1>2. MapIsSound
    BY <1>1 DEF MapIsSound, Init, CachesAssumption
  <1>3. Over({}).at = "over"
    BY DEF Over
  <1> QED
    BY <1>1, <1>2, <1>3 DEF MapInv, StraysWrite, Init, CachesAssumption

\* Of the keys of a set there is an oldest: the one with the fewest before it.
LEMMA OldestOf ==
  ASSUME MapIsSound, NEW ks \in SUBSET Held, IsFiniteSet(ks), ks # {}
  PROVE  \E k \in ks : \A j \in ks \ {k} : Before(k, j)
  <1> DEFINE Older(k) == {j \in ks : Before(j, k)}
             ranks    == {Cardinality(Older(k)) : k \in ks}
  <1>1. \A k \in ks : IsFiniteSet(Older(k)) /\ Cardinality(Older(k)) \in Nat
    BY FS_Subset, FS_CardinalityType
  <1>2. ranks \subseteq Nat /\ ranks # {}
    BY <1>1
  <1>3. PICK r \in ranks : \A q \in ranks : ~ (<<q, r>> \in OpToRel(<, Nat))
    <2> HIDE DEF ranks
    <2> QED
      BY <1>2, NatLessThanWellFounded, WFMin
  <1>4. PICK k \in ks : r = Cardinality(Older(k))
    OBVIOUS
  <1>5. ASSUME NEW j \in ks, j # k, ~Before(k, j) PROVE FALSE
    <2>1. Before(j, k) /\ ~Before(j, j)
      BY <1>5 DEF MapIsSound
    <2>2. Older(j) \subseteq Older(k) /\ j \in Older(k) /\ j \notin Older(j)
      BY <2>1 DEF MapIsSound
    <2>3. Cardinality(Older(j)) < Cardinality(Older(k))
      <3> HIDE DEF Older
      <3> QED
        BY <1>1, <2>2, FS_Subset
    <2>4. <<Cardinality(Older(j)), r>> \in OpToRel(<, Nat)
      <3> HIDE DEF Older
      <3> QED
        BY <1>1, <1>4, <2>3 DEF OpToRel
    <2>5. Cardinality(Older(j)) \in ranks
      OBVIOUS
    <2> QED
      BY <1>3, <2>4, <2>5
  <1> QED
    BY <1>5

\* Keys leave the Map, and the others keep their order.
LEMMA KeysGo ==
  ASSUME CachesAssumption, MapInv, NEW ks \in SUBSET Held, Held' = ks, order' = Among(ks),
         UNCHANGED <<cache, clock, made>>
  PROVE  MapInv'
  <1>1. CASE cache = "memory"
    <2>1. IsFiniteSet(ks) /\ Cardinality(ks) <= Cardinality(Held) /\ Cardinality(ks) \in Nat
            /\ Cardinality(Held) \in Nat
      BY <1>1, FS_Subset, FS_CardinalityType DEF MapInv
    <2>2. order' \subseteq Held' \X Held'
      BY <1>1 DEF Among, MapInv, MapIsSound
    <2>3. \A i, j \in ks : Before(i, j)' <=> Before(i, j)
      BY DEF Before, Among
    <2>4. /\ \A j, k \in Held' : Before(j, k)' <=> j # k /\ ~Before(k, j)'
          /\ \A i, j, k \in Held' : Before(i, j)' /\ Before(j, k)' => Before(i, k)'
      BY <1>1, <2>3 DEF MapInv, MapIsSound
    <2>5. MaxEntries # 0 => Cardinality(Held') <= MaxEntries
      BY <1>1, <2>1 DEF MapInv, MapIsSound, CachesAssumption
    <2> QED
      BY <1>1, <2>1, <2>2, <2>4, <2>5 DEF MapInv, MapIsSound
  <1>2. CASE cache # "memory"
    BY <1>2 DEF MapInv, Among
  <1> QED
    BY <1>1, <1>2

\* A key comes into a Map that has room for it.
LEMMA KeyComes ==
  ASSUME CachesAssumption, MapInv, cache = "memory", NEW ks \in SUBSET Held, NEW k \in Key \ Held,
         Held' = ks \union {k}, order' = Among(ks) \union (ks \X {k}),
         MaxEntries # 0 => Cardinality(ks) < MaxEntries, UNCHANGED <<cache, clock, made>>
  PROVE  MapInv'
  <1>1. /\ IsFiniteSet(ks) /\ k \notin ks /\ Cardinality(ks) \in Nat
        /\ IsFiniteSet(ks \union {k}) /\ Cardinality(ks \union {k}) = Cardinality(ks) + 1
    <2>1. IsFiniteSet(ks) /\ k \notin ks /\ Cardinality(ks) \in Nat
      BY FS_Subset, FS_CardinalityType DEF MapInv
    <2> QED
      BY <2>1, FS_AddElement
  <1>2. order' \subseteq Held' \X Held'
    BY DEF Among, MapInv, MapIsSound
  <1>3. /\ \A i, j \in ks : Before(i, j)' <=> Before(i, j)
        /\ \A i \in ks : Before(i, k)' /\ ~Before(k, i)'
        /\ ~Before(k, k)'
    BY <1>1 DEF Before, Among
  <1>4. /\ \A j, l \in Held' : Before(j, l)' <=> j # l /\ ~Before(l, j)'
        /\ \A h, j, l \in Held' : Before(h, j)' /\ Before(j, l)' => Before(h, l)'
    BY <1>1, <1>3 DEF MapInv, MapIsSound
  <1>5. MaxEntries # 0 => Cardinality(Held') <= MaxEntries
    BY <1>1 DEF CachesAssumption
  <1> QED
    BY <1>1, <1>2, <1>4, <1>5 DEF MapInv, MapIsSound

\* Making room: what has not expired stays, but for the oldest of a full Map.
LEMMA RoomIsMade ==
  ASSUME CachesAssumption, MapInv, cache = "memory"
  PROVE  /\ Room \subseteq Held
         /\ MaxEntries # 0 => Cardinality(Room) < MaxEntries
         /\ \A k \in LiveKeys \ Room :
              /\ MaxEntries # 0 /\ Cardinality(LiveKeys) = MaxEntries
              /\ \A j \in LiveKeys \ {k} : Before(k, j)
  <1> DEFINE n == Cardinality(LiveKeys)
             excess == n - MaxEntries + 1
             Older(k) == {j \in LiveKeys : Before(j, k)}
  <1>1. /\ LiveKeys \subseteq Held /\ IsFiniteSet(LiveKeys) /\ n \in Nat
        /\ Cardinality(Held) \in Nat /\ n <= Cardinality(Held)
        /\ MaxEntries \in Nat /\ MapIsSound
        /\ MaxEntries # 0 => Cardinality(Held) <= MaxEntries
    <2>1. LiveKeys \subseteq Held /\ IsFiniteSet(Held) /\ MapIsSound
      BY DEF LiveKeys, MapInv
    <2>2. MaxEntries \in Nat /\ (MaxEntries # 0 => Cardinality(Held) <= MaxEntries)
      BY <2>1 DEF MapIsSound, CachesAssumption
    <2> QED
      BY <2>1, <2>2, FS_Subset, FS_CardinalityType
  <1>2. CASE ~Full
    <2>1. Room = Held
      BY <1>2 DEF Room
    <2> QED
      BY <1>1, <1>2, <2>1 DEF Full
  <1>3. CASE Full
    <2>1. Room = {k \in LiveKeys : Cardinality(Older(k)) >= excess}
      BY <1>3 DEF Room, LiveKeys
    <2>2. \A k \in LiveKeys : IsFiniteSet(Older(k)) /\ Cardinality(Older(k)) \in Nat
      BY <1>1, FS_Subset, FS_CardinalityType
    <2>3. MaxEntries # 0 /\ n <= MaxEntries
      BY <1>1, <1>3 DEF Full
    <2>4. CASE n < MaxEntries
      <3>1. Room = LiveKeys
        <4> HIDE DEF Older
        <4> QED
          BY <1>1, <2>1, <2>2, <2>4
      <3> QED
        BY <1>1, <2>4, <3>1
    <2>5. CASE n = MaxEntries
      <3>1. excess = 1
        BY <1>1, <2>5
      <3>2. \A k \in LiveKeys : k \in Room <=> Older(k) # {}
        <4> HIDE DEF Older
        <4> QED
          BY <2>1, <2>2, <3>1, FS_EmptySet
      <3>3. PICK m \in LiveKeys : \A j \in LiveKeys \ {m} : Before(m, j)
        <4>1. LiveKeys # {}
          BY <1>1, <2>3, <2>5, FS_EmptySet
        <4> QED
          BY <1>1, <4>1, OldestOf
      <3>4. m \notin Room
        BY <1>1, <3>2, <3>3 DEF MapIsSound
      <3>5. Cardinality(Room) < MaxEntries
        <4>1. Room \subseteq LiveKeys /\ Room # LiveKeys
          BY <2>1, <3>3, <3>4
        <4>2. Cardinality(Room) \in Nat /\ Cardinality(Room) <= n /\ Cardinality(Room) # n
          BY <1>1, <4>1, FS_Subset, FS_CardinalityType
        <4> QED
          BY <1>1, <2>5, <4>2
      <3>6. \A k \in LiveKeys \ Room : \A j \in LiveKeys \ {k} : Before(k, j)
        BY <1>1, <3>2 DEF MapIsSound
      <3> QED
        BY <1>1, <2>1, <2>3, <2>5, <3>5, <3>6
    <2> QED
      BY <1>1, <2>3, <2>4, <2>5
  <1> QED
    BY <1>2, <1>3

\* A key that is written keeps its place, or comes in when there is room.
LEMMA SetKeeps ==
  ASSUME CachesAssumption, IInv, MapInv, NEW c \in Client, MemorySet(c)
  PROVE  MapInv'
  <1> DEFINE k == Current(c)
  <1>1. k \in Key /\ cache = "memory" /\ UNCHANGED <<cache, clock, made>>
    BY TurnHasKey DEF MemorySet, Turn
  <1>2. Fresh(c) # None
    BY FreshIsEntry DEF IInv, CachesAssumption
  <1>3. CASE k \in Held
    <2>1. order' = Among(Held) /\ \A j \in Key : entries'[j] = None <=> entries[j] = None
      BY <1>1, <1>2, <1>3 DEF MemorySet, Held
    <2>2. Held' = Held
      BY <2>1 DEF Held
    <2> QED
      BY <1>1, <2>1, <2>2, KeysGo
  <1>4. CASE k \notin Held
    <2>1. Room \subseteq Held /\ (MaxEntries # 0 => Cardinality(Room) < MaxEntries)
      BY <1>1, RoomIsMade
    <2>2. order' = Among(Room) \union (Room \X {k})
      BY <1>4 DEF MemorySet
    <2>3. \A j \in Key : entries'[j] # None <=> j \in Room \union {k}
      BY <1>1, <1>2, <1>4, <2>1 DEF MemorySet, Held
    <2>4. Held' = Room \union {k}
      BY <1>1, <2>1, <2>3 DEF Held
    <2> HIDE DEF k
    <2> QED
      BY <1>1, <1>4, <2>1, <2>2, <2>4, KeyComes
  <1> QED
    BY <1>3, <1>4

\* Forgetting keys, and leaving the store alone.
LEMMA ForgetKeeps ==
  ASSUME CachesAssumption, MapInv, UNCHANGED <<cache, clock, made>>,
         \/ \E ks : Forget(ks)
         \/ UNCHANGED <<entries, order>>
  PROVE  MapInv'
  <1>1. CASE \E ks : Forget(ks)
    <2>1. PICK ks : Forget(ks)
      BY <1>1
    <2>2. Held' = Held \ ks /\ order' = Among(Held \ ks)
      BY <2>1 DEF Forget, Held
    <2>3. Held \ ks \in SUBSET Held
      OBVIOUS
    <2> QED
      BY <2>2, <2>3, KeysGo
  <1>2. CASE UNCHANGED <<entries, order>>
    <2>1. Held' = Held
      BY <1>2 DEF Held
    <2> QED
      BY <1>2, <2>1 DEF MapInv, MapIsSound, Before
  <1> QED
    BY <1>1, <1>2

\* The other stores keep no order.
LEMMA NoOrder ==
  ASSUME MapInv, cache # "memory", UNCHANGED <<cache, order>>,
         clock' \in 0..CacheHorizon, made' \in 0..MaxCalls
  PROVE  MapInv'
  BY DEF MapInv

LEMMA MapNext == CachesAssumption /\ IInv /\ MapInv /\ StraysWrite /\ [Next]_cacheVars => MapInv'
  <1> SUFFICES ASSUME CachesAssumption, IInv, MapInv, StraysWrite, [Next]_cacheVars PROVE MapInv'
    OBVIOUS
  <1>1. ASSUME NEW c \in Client, NEW r \in Requests, Invoke(c, r) PROVE MapInv'
    <2>1. UNCHANGED <<cache, entries, order, clock>> /\ made' \in 0..MaxCalls
      BY <1>1 DEF Invoke, MapInv, CachesAssumption
    <2>2. Held' = Held
      BY <2>1 DEF Held
    <2> QED
      BY <2>1, <2>2 DEF MapInv, MapIsSound, Before
  <1>2. ASSUME NEW c \in Client, MemoryGet(c) \/ LocalDelete(c) \/ WebGet(c) \/ NoopCall(c)
        PROVE  MapInv'
    BY <1>2, ForgetKeeps DEF MemoryGet, LocalDelete, WebGet, NoopCall
  <1>3. ASSUME NEW c \in Client, MemorySet(c) PROVE MapInv'
    BY <1>3, SetKeeps
  <1>4. ASSUME NEW c \in Client, WebSet(c) \/ RedisServes(c) PROVE MapInv'
    BY <1>4, NoOrder DEF WebSet, RedisServes, MapInv
  <1>5. ASSUME NEW c \in Client, RedisAnswers(c) \/ RedisFails(c) \/ Heal(c) PROVE MapInv'
    BY <1>5, ForgetKeeps DEF RedisAnswers, RedisFails, Heal
  <1>6. ASSUME NEW c \in Client, StrayMoves(c) PROVE MapInv'
    <2>1. cache = "redis" /\ UNCHANGED <<cache, order, clock, made>>
      BY <1>6 DEF StrayMoves, StraysWrite
    <2> QED
      BY <2>1, NoOrder DEF MapInv
  <1>7. CASE \E k \in Key : Scribble(k)
    BY <1>7, NoOrder DEF Scribble, MapInv
  <1>8. CASE Tick
    <2>1. UNCHANGED <<cache, entries, order, made>> /\ clock' \in 0..CacheHorizon
      BY <1>8 DEF Tick, MapInv, CachesAssumption
    <2>2. Held' = Held
      BY <2>1 DEF Held
    <2> QED
      BY <2>1, <2>2 DEF MapInv, MapIsSound, Before
  <1>9. CASE UNCHANGED cacheVars
    BY <1>9, ForgetKeeps DEF cacheVars
  <1> QED
    BY <1>1, <1>2, <1>3, <1>4, <1>5, <1>6, <1>7, <1>8, <1>9 DEF Next

\* One client's call moves, and is a stray write only if it was one or redis failed it.
LEMMA StraysNext == CachesAssumption /\ IInv /\ StraysWrite /\ [Next]_cacheVars => StraysWrite'
  <1> SUFFICES ASSUME CachesAssumption, IInv, StraysWrite, [Next]_cacheVars PROVE StraysWrite'
    OBVIOUS
  <1>1. ASSUME NEW c \in Client, NEW d,
               calls' = [calls EXCEPT ![c] = d], UNCHANGED cache,
               d.at = "stray" => cache = "redis" /\ d.op # "get"
        PROVE  StraysWrite'
    BY <1>1 DEF IInv, ReadTypes, StraysWrite
  <1>2. ASSUME NEW c \in Client, NEW pairs, Progress(c, pairs), calls[c].at = "queued",
               UNCHANGED cache
        PROVE  StraysWrite'
    <2> DEFINE got == calls[c].got \union pairs
               d == IF Len(calls[c].todo) = 1 THEN Over(got)
                    ELSE [calls[c] EXCEPT !.todo = Tail(calls[c].todo), !.got = got]
    <2>1. calls' = [calls EXCEPT ![c] = d]
      BY <1>2 DEF Progress, IInv, ReadTypes
    <2>2. d.at # "stray"
      BY <1>2 DEF Over, IInv, ReadTypes, Call
    <2> HIDE DEF d
    <2> QED
      BY <1>1, <1>2, <2>1, <2>2
  <1>3. ASSUME NEW c \in Client, NEW r \in Requests, Invoke(c, r) PROVE StraysWrite'
    <2> DEFINE d == [op |-> r.op, todo |-> r.keys, value |-> r.value, ttl |-> r.ttl,
                     got |-> {}, bad |-> {}, at |-> "queued"]
    <2>1. calls' = [calls EXCEPT ![c] = d] /\ d.at # "stray" /\ UNCHANGED cache
      BY <1>3 DEF Invoke
    <2> HIDE DEF d
    <2> QED
      BY <1>1, <2>1
  <1>4. ASSUME NEW c \in Client,
               \/ MemoryGet(c) \/ MemorySet(c) \/ LocalDelete(c) \/ WebGet(c) \/ WebSet(c)
               \/ NoopCall(c)
        PROVE  StraysWrite'
    <2>1. calls[c].at = "queued" /\ UNCHANGED cache /\ \E pairs : Progress(c, pairs)
      BY <1>4 DEF MemoryGet, MemorySet, LocalDelete, WebGet, WebSet, NoopCall, Turn
    <2> QED
      BY <1>2, <2>1
  <1>5. ASSUME NEW c \in Client, RedisServes(c) PROVE StraysWrite'
    <2>1. calls[c] \in Call /\ calls[c].at = "queued" /\ UNCHANGED cache
      BY <1>5 DEF RedisServes, IInv, ReadTypes
    <2>2. CASE Reads(c)
      <3> DEFINE there == {k \in Range(calls[c].todo) : entries[k] # None /\ ~Expired(entries[k])}
                 bad   == {k \in there : entries[k].value = Corrupt}
                 found == {<<k, entries[k].value>> : k \in there \ bad}
                 d     == [calls[c] EXCEPT !.got = found, !.bad = bad, !.at = "served"]
      <3>1. calls' = [calls EXCEPT ![c] = d]
        BY <2>2 DEF Reads, IInv, ReadTypes
      <3> HIDE DEF found, bad
      <3>2. d.at = "served"
        BY <2>1 DEF Call
      <3> HIDE DEF d
      <3> QED
        BY <1>1, <2>1, <3>1, <3>2
    <2>3. CASE Writes(c)
      <3> DEFINE d == [calls[c] EXCEPT !.todo = Tail(calls[c].todo),
                         !.at = IF Len(calls[c].todo) = 1 THEN "served" ELSE calls[c].at]
      <3>1. calls' = [calls EXCEPT ![c] = d]
        BY <2>1, <2>3 DEF Writes, IInv, ReadTypes
      <3>2. d.at # "stray"
        BY <2>1 DEF Call
      <3> HIDE DEF d
      <3> QED
        BY <1>1, <2>1, <3>1, <3>2
    <2> QED
      BY <1>5, <2>2, <2>3 DEF RedisServes
  <1>6. ASSUME NEW c \in Client, RedisAnswers(c) \/ Heal(c) \/ StrayMoves(c) PROVE StraysWrite'
    <2>1. calls[c] \in Call /\ UNCHANGED cache
      BY <1>6 DEF RedisAnswers, Heal, StrayMoves, IInv, ReadTypes
    <2>2. \A b \in Client \ {c} : calls'[b] = calls[b]
      BY <1>6 DEF RedisAnswers, Heal, StrayMoves, IInv, ReadTypes
    <2>3. \/ calls'[c].at \in {"over", "healing"}
          \/ calls[c].at = "stray" /\ calls'[c].at = calls[c].at /\ calls'[c].op = calls[c].op
      <3>1. CASE RedisAnswers(c) \/ Heal(c)
        BY <2>1, <3>1 DEF RedisAnswers, Heal, Over, IInv, ReadTypes, Call
      <3>2. CASE StrayMoves(c)
        BY <2>1, <3>2 DEF StrayMoves, Over, IInv, ReadTypes, Call
      <3> QED
        BY <1>6, <3>1, <3>2
    <2> QED
      BY <2>1, <2>2, <2>3 DEF StraysWrite
  <1>7. ASSUME NEW c \in Client, RedisFails(c) PROVE StraysWrite'
    <2>1. calls[c] \in Call /\ cache = "redis" /\ UNCHANGED cache
      BY <1>7 DEF RedisFails, IInv, ReadTypes
    <2>2. \A b \in Client \ {c} : calls'[b] = calls[b]
      BY <1>7 DEF RedisFails, IInv, ReadTypes
    <2>3. calls'[c].at = "stray" => calls'[c].op # "get"
      BY <1>7, <2>1 DEF RedisFails, Over, IInv, ReadTypes, Call
    <2> QED
      BY <2>1, <2>2, <2>3 DEF StraysWrite
  <1>8. CASE UNCHANGED <<cache, calls>>
    BY <1>8 DEF StraysWrite
  <1> QED
    BY <1>3, <1>4, <1>5, <1>6, <1>7, <1>8 DEF Next, Tick, Scribble, cacheVars

\* A value that get or getMany answers was what the last write had left under its
\* key, unexpired, at a moment of that call, for any number of clients, keys, calls
\* and entries, and under every provider; and the Map keeps its order and its cap.
THEOREM AnswersWereLive == CachesAssumption /\ Spec => []ReadsAreLive
  <1> SUFFICES ASSUME CachesAssumption PROVE Spec => []ReadsAreLive
    OBVIOUS
  <1>1. Init => IInv /\ MapInv /\ StraysWrite
    BY InvInit, MapInit
  <1>2. IInv /\ MapInv /\ StraysWrite /\ [Next]_cacheVars => IInv' /\ MapInv' /\ StraysWrite'
    BY InvNext, MapNext, StraysNext
  <1>3. IInv /\ MapInv => ReadsAreLive
    BY DEF IInv, MapInv, ReadTypes, TypeOK, ReadsAreLive
  <1> QED
    BY <1>1, <1>2, <1>3, PTL DEF Spec

-----------------------------------------------------------------------------
(* Losses.                                                                 *)

\* A key that is looked up is one of those the call has still to do.
LEMMA CurrentIsTodo ==
  ASSUME IInv, NEW c \in Client, calls[c].at \in {"queued", "stray"}
  PROVE  Current(c) \in Range(calls[c].todo)
  <1>1. calls[c].todo \in Seq(Key) /\ calls[c].todo # <<>>
    BY DEF IInv, ReadTypes, Call, HasKey
  <1>2. 1 \in DOMAIN calls[c].todo /\ Head(calls[c].todo) = calls[c].todo[1]
    BY <1>1, EmptySeq, LenProperties
  <1> QED
    BY <1>2 DEF Current, Range

\* A write that takes the place of a key displaces the oldest.
LEMMA SetLoses ==
  ASSUME CachesAssumption, IInv, MapInv, NEW c \in Client, MemorySet(c),
         NEW k \in Key, Lost(k)
  PROVE  Displaced(k)
  <1> DEFINE l == Current(c)
             stays == IF l \in Held THEN Held ELSE Room
  <1>1. l \in Key /\ cache = "memory" /\ Fresh(c) # None
    BY TurnHasKey, FreshIsEntry DEF MemorySet, Turn, IInv, CachesAssumption
  <1>2. k \in LiveKeys /\ entries'[k] = None
    BY DEF Lost, LiveKeys, Held
  <1>3. entries' = [j \in Key |-> CASE j = l -> Fresh(c)
                                    [] j # l /\ j \in stays -> entries[j]
                                    [] OTHER -> None]
    BY DEF MemorySet
  <1> HIDE DEF stays, l
  <1>4. k # l /\ k \notin stays /\ entries'[l] = Fresh(c)
    BY <1>1, <1>2, <1>3 DEF LiveKeys, Held
  <1>5. l \notin Held /\ k \in LiveKeys \ Room
    BY <1>2, <1>4 DEF stays, LiveKeys
  <1>6. entries[l] = None /\ entries'[l] # None
    BY <1>1, <1>4, <1>5 DEF Held
  <1> QED
    BY <1>1, <1>5, <1>6, RoomIsMade DEF Displaced

\* A deletion in a local store; a text that is expired or corrupt; a healing deletion.
LEMMA ForgetLoses ==
  ASSUME CachesAssumption, IInv, NEW c \in Client,
         MemoryGet(c) \/ LocalDelete(c) \/ WebGet(c) \/ Heal(c),
         NEW k \in Key, Lost(k)
  PROVE  Justified(k)
  <1>1. CASE MemoryGet(c) \/ WebGet(c)
    BY <1>1 DEF MemoryGet, WebGet, Forget, Lost, Justified
  <1>2. CASE LocalDelete(c)
    <2>1. k = Current(c) /\ calls[c].op = "delete" /\ calls[c].at = "queued"
      BY <1>2 DEF LocalDelete, Turn, Forget, Lost
    <2> QED
      BY <2>1, CurrentIsTodo DEF Justified, Deleted
  <1>3. CASE Heal(c)
    BY <1>3 DEF Heal, Forget, Lost, Justified, Healed
  <1> QED
    BY <1>1, <1>2, <1>3

\* A command that is served: a set leaves an entry, and a deletion is one.
LEMMA ServerLoses ==
  ASSUME CachesAssumption, IInv, StraysWrite, NEW c \in Client,
         WebSet(c) \/ RedisServes(c) \/ StrayMoves(c), NEW k \in Key, Lost(k)
  PROVE  Justified(k)
  <1>1. calls[c] \in Call /\ calls[c].at \in {"queued", "stray"} /\ Current(c) \in Range(calls[c].todo)
    BY CurrentIsTodo DEF WebSet, RedisServes, StrayMoves, Turn, IInv, ReadTypes
  <1>2. Fresh(c) # None
    BY FreshIsEntry DEF IInv, CachesAssumption
  <1>3. /\ calls[c].op \notin {"get", "set"}
        /\ k = Current(c)
    BY <1>2 DEF WebSet, RedisServes, StrayMoves, Reads, Writes, Turn, StraysWrite, Lost, IInv, ReadTypes
  <1> QED
    BY <1>1, <1>3 DEF Call, Justified, Deleted

LEMMA LossStep ==
  ASSUME CachesAssumption, IInv, MapInv, StraysWrite, [Next]_cacheVars, NEW k \in Key, Lost(k)
  PROVE  Justified(k)
  <1>1. \A c \in Client : MemorySet(c) => Justified(k)
    BY SetLoses DEF Justified
  <1>2. \A c \in Client : MemoryGet(c) \/ LocalDelete(c) \/ WebGet(c) \/ Heal(c) => Justified(k)
    BY ForgetLoses
  <1>3. \A c \in Client : WebSet(c) \/ RedisServes(c) \/ StrayMoves(c) => Justified(k)
    BY ServerLoses
  <1>4. ~UNCHANGED entries
    BY DEF Lost
  <1>5. \A j \in Key : ~Scribble(j)
    <2> DEFINE e == [value |-> Corrupt, until |-> 0]
    <2>1. e # None
      BY DEF CachesAssumption, Entry
    <2> QED
      BY <2>1 DEF Scribble, Lost, IInv, ReadTypes
  <1> QED
    BY <1>1, <1>2, <1>3, <1>4, <1>5
       DEF Next, Tick, Invoke, NoopCall, RedisAnswers, RedisFails, cacheVars

\* An entry that has not expired leaves a cache only because it is deleted, is the
\* oldest of a full Map that a new key enters, is corrupt, or is healed away by a
\* reader that met a corrupt text, for any keys, clients, calls and cap.
THEOREM LossesAreJustified == CachesAssumption /\ Spec => LossIsJustified
  <1> SUFFICES ASSUME CachesAssumption PROVE Spec => LossIsJustified
    OBVIOUS
  <1>1. Init => IInv /\ MapInv /\ StraysWrite
    BY InvInit, MapInit
  <1>2. IInv /\ MapInv /\ StraysWrite /\ [Next]_cacheVars => IInv' /\ MapInv' /\ StraysWrite'
    BY InvNext, MapNext, StraysNext
  <1>3. IInv /\ MapInv /\ StraysWrite /\ [Next]_cacheVars =>
          [\A k \in Key : Lost(k) => Justified(k)]_cacheVars
    <2> SUFFICES ASSUME IInv, MapInv, StraysWrite, [Next]_cacheVars, NEW k \in Key, Lost(k)
                 PROVE  Justified(k)
      OBVIOUS
    <2> QED
      BY LossStep
  <1> QED
    BY <1>1, <1>2, <1>3, PTL DEF Spec, LossIsJustified

-----------------------------------------------------------------------------
(* Secrets, for any names, keys, readers, lifetime and latency.            *)

\* What a call under way has, depending on where it is.
ReadFits(d) ==
  /\ d.since <= d.asked /\ d.asked <= instant
  /\ d.op = "ping" => d.at = "asking"
  /\ d.at \in {"asking", "storing"} => instant <= d.asked + Latency
  /\ ~source.cached => d.at = "asking"
  /\ d.at = "storing" =>
       /\ S!NameOf(d.key) # None /\ d.found \in Secret
       /\ d.found \in S!Since(S!NameOf(d.key), d.asked)

ReadsFit == \A r \in Reader : reads[r] # None => ReadFits(reads[r])

\* What is kept was the secret when the call that found it was under way.
KeptFits ==
  \A k \in S!SecretKey : kept[k] # None =>
    LET stored == kept[k].until - TtlMs
    IN  /\ source.cached /\ kept[k].until >= TtlMs /\ stored <= instant
        /\ S!NameOf(k) # None
        /\ kept[k].value \in S!Since(S!NameOf(k), S!Before(stored, Latency))

\* The call of a key that others wait for is the only one that is no waiter.
OwnsKey ==
  /\ ~source.cached => \A k \in S!SecretKey : inflight[k] = None
  /\ \A k \in S!SecretKey : inflight[k] # None =>
       LET d == reads[inflight[k]]
       IN  d # None /\ d.key = k /\ d.op # "ping" /\ d.at # "waiting"
  /\ \A r \in Reader : source.cached /\ reads[r] # None /\ reads[r].op # "ping" =>
       /\ inflight[reads[r].key] # None
       /\ reads[r].at # "waiting" => inflight[reads[r].key] = r

HistoryFits ==
  /\ \A n \in SecretName : upstream[n] \in was[n][instant]
  /\ source.cached => TtlMs > 0

\* What the answers of the last step say.
ToldFits ==
  /\ \A x \in told : x.answer \in Secret =>
       /\ S!NameOf(x.key) # None
       /\ x.answer \in S!Since(S!NameOf(x.key), S!Before(x.since, TtlMs + Latency))
  /\ \A x \in told : x.answer \in {None, "missing"} =>
       \/ source.name = "noop" \/ S!NameOf(x.key) = None
       \/ None \in S!Since(S!NameOf(x.key), S!Before(x.since, Latency))

SecretsInv == S!TypeOK /\ ReadsFit /\ KeptFits /\ OwnsKey /\ HistoryFits /\ ToldFits

\* What a name stood for since some time is what it stood for since an earlier one,
\* and no step forgets it.
LEMMA SinceBack ==
  ASSUME NEW n, NEW t \in Nat, NEW v \in Nat, t <= v, instant \in Nat
  PROVE  S!Since(n, v) \subseteq S!Since(n, t)
  BY DEF S!Since

LEMMA SinceNow ==
  ASSUME HistoryFits, NEW n \in SecretName, instant \in Nat, NEW t \in Nat, t <= instant
  PROVE  upstream[n] \in S!Since(n, t)
  BY DEF S!Since, HistoryFits

LEMMA SinceGrows ==
  ASSUME NEW n, NEW t \in Nat, instant \in Nat, instant' \in Nat, instant <= instant',
         \A u \in 0..instant : was[n][u] \subseteq was'[n][u]
  PROVE  S!Since(n, t) \subseteq S!Since(n, t)'
  BY DEF S!Since

LEMMA BeforeIs ==
  ASSUME NEW t \in Nat, NEW v \in Nat, NEW d \in Nat, NEW e \in Nat, v <= t, d <= e
  PROVE  /\ S!Before(t, d) \in Nat /\ S!Before(t, d) <= t
         /\ S!Before(v, e) <= S!Before(t, d)
         /\ t - d <= S!Before(t, d)
  BY DEF S!Before

LEMMA NamesOf ==
  ASSUME S!SecretsAssumption, NEW k \in S!SecretKey
  PROVE  S!NameOf(k) \in SecretName \union {None}
  BY DEF S!SecretsAssumption, S!SecretKey, S!NameOf

LEMMA SecretsInit == S!SecretsAssumption /\ S!Init => SecretsInv
  <1> SUFFICES ASSUME S!SecretsAssumption, S!Init PROVE SecretsInv
    OBVIOUS
  <1>1. /\ source.name \in Sources /\ source.cached \in BOOLEAN
        /\ source.cached => TtlMs > 0
    BY DEF S!Init
  <1>2. was \in [SecretName -> [0..SecretHorizon -> SUBSET (Secret \union {None})]]
    BY DEF S!Init
  <1>3. S!TypeOK
    BY <1>1, <1>2 DEF S!TypeOK, S!Init, S!SecretsAssumption
  <1>4. HistoryFits
    BY <1>1 DEF HistoryFits, S!Init, S!SecretsAssumption
  <1>5. ReadsFit /\ KeptFits /\ OwnsKey /\ ToldFits
    BY DEF S!Init, ReadsFit, KeptFits, OwnsKey, ToldFits
  <1> QED
    BY <1>3, <1>4, <1>5 DEF SecretsInv

-----------------------------------------------------------------------------
(* The calls.  None of them changes a secret.                              *)

Still == UNCHANGED <<source, upstream, was, instant>>

LEMMA StillIs ==
  ASSUME Still
  PROVE  /\ \A k : S!NameOf(k)' = S!NameOf(k)
         /\ \A n, t : S!Since(n, t)' = S!Since(n, t)
         /\ HistoryFits => HistoryFits'
         /\ KeptFits /\ UNCHANGED kept => KeptFits'
         /\ \A d : ReadFits(d) => ReadFits(d)'
  BY DEF Still, S!NameOf, S!Since, HistoryFits, KeptFits, ReadFits

LEMMA ReadIs ==
  ASSUME SecretsInv, NEW r \in Reader, reads[r] # None
  PROVE  reads[r] \in S!Read /\ ReadFits(reads[r]) /\ S!At(r) = reads[r].at
  BY DEF SecretsInv, S!TypeOK, ReadsFit, S!At

\* A call of one reader that goes on, or begins, tells nobody anything.
LEMMA GoesOn ==
  ASSUME S!SecretsAssumption, SecretsInv, Still, NEW r \in Reader, NEW d \in S!Read,
         reads' = [reads EXCEPT ![r] = d], S!Silent, UNCHANGED kept, ReadFits(d),
         turns' \in [reads : 0..MaxReads, rotations : 0..MaxRotations],
         inflight' \in [S!SecretKey -> Reader \union {None}], OwnsKey'
  PROVE  SecretsInv'
  <1>1. S!TypeOK'
    BY DEF SecretsInv, S!TypeOK, S!Silent, Still
  <1>2. reads'[r] = d /\ \A q \in Reader \ {r} : reads'[q] = reads[q]
    BY DEF SecretsInv, S!TypeOK
  <1>3. ReadsFit'
    BY <1>2, StillIs DEF ReadsFit, SecretsInv
  <1>4. ToldFits'
    BY DEF ToldFits, S!Silent
  <1> QED
    BY <1>1, <1>3, <1>4, StillIs DEF SecretsInv

LEMMA CachedGetKeeps ==
  ASSUME S!SecretsAssumption, SecretsInv, NEW r \in Reader, NEW op \in {"get", "required"},
         NEW k \in S!SecretKey, S!CachedGet(r, op, k)
  PROVE  SecretsInv'
  <1> DEFINE at == IF inflight[k] # None THEN "waiting" ELSE "looking"
             d  == S!NewRead(op, k, at)
  <1>1. /\ Still /\ S!Silent /\ UNCHANGED kept /\ reads[r] = None /\ source.cached
        /\ turns' \in [reads : 0..MaxReads, rotations : 0..MaxRotations]
    <2>1. turns' \in [reads : 0..MaxReads, rotations : 0..MaxRotations]
      BY DEF S!CachedGet, S!Counted, SecretsInv, S!TypeOK, S!SecretsAssumption
    <2> QED
      BY <2>1 DEF S!CachedGet, Still, S!Idle
  <1>2. /\ reads' = [reads EXCEPT ![r] = d]
        /\ inflight' = IF inflight[k] # None THEN inflight ELSE [inflight EXCEPT ![k] = r]
    BY DEF S!CachedGet
  <1>3. instant \in Nat
    BY DEF SecretsInv, S!TypeOK, S!SecretsAssumption
  <1>4. /\ d \in S!Read /\ d.op = op /\ d.key = k /\ d.at = at
        /\ d.since = instant /\ d.asked = instant
    BY <1>3 DEF S!NewRead, S!Read
  <1>5. ReadFits(d)
    BY <1>1, <1>3, <1>4 DEF ReadFits
  <1>6. inflight' \in [S!SecretKey -> Reader \union {None}]
    BY <1>2 DEF SecretsInv, S!TypeOK
  <1>7. OwnsKey'
    <2> HIDE DEF d
    <2>1. reads'[r] = d /\ \A q \in Reader \ {r} : reads'[q] = reads[q]
      BY <1>2 DEF SecretsInv, S!TypeOK
    <2>2. d # None /\ source' = source
      BY <1>1, <1>4 DEF S!SecretsAssumption, Still
    <2>3. CASE inflight[k] # None
      BY <1>1, <1>2, <1>4, <2>1, <2>2, <2>3 DEF SecretsInv, OwnsKey, S!TypeOK
    <2>4. CASE inflight[k] = None
      <3>1. inflight'[k] = r /\ \A j \in S!SecretKey \ {k} : inflight'[j] = inflight[j]
        BY <1>2, <2>4 DEF SecretsInv, S!TypeOK
      <3>2. r # None
        BY DEF S!SecretsAssumption
      <3>3. \A j \in S!SecretKey \ {k} : inflight[j] # r
        BY <1>1 DEF SecretsInv, OwnsKey, S!SecretsAssumption
      <3>4. \A q \in Reader \ {r} : reads[q] # None /\ reads[q].op # "ping" => reads[q].key # k
        BY <1>1, <2>4 DEF SecretsInv, OwnsKey
      <3>5. \A q \in Reader : reads'[q] # None => reads'[q].key \in S!SecretKey
        BY <1>4, <2>1 DEF SecretsInv, S!TypeOK, S!Read
      <3>6. ASSUME NEW j \in S!SecretKey, inflight'[j] # None
            PROVE  LET e == reads'[inflight'[j]]
                   IN  e # None /\ e.key = j /\ e.op # "ping" /\ e.at # "waiting"
        BY <1>4, <2>1, <2>2, <2>4, <3>1, <3>3, <3>6 DEF SecretsInv, OwnsKey, S!TypeOK
      <3>7. ASSUME NEW q \in Reader, reads'[q] # None, reads'[q].op # "ping"
            PROVE  /\ inflight'[reads'[q].key] # None
                   /\ reads'[q].at # "waiting" => inflight'[reads'[q].key] = q
        BY <1>1, <1>4, <2>1, <3>1, <3>2, <3>4, <3>5, <3>7 DEF SecretsInv, OwnsKey
      <3> QED
        BY <1>1, <2>2, <3>6, <3>7 DEF OwnsKey
    <2> QED
      BY <2>3, <2>4
  <1> HIDE DEF d
  <1> QED
    BY <1>1, <1>2, <1>4, <1>5, <1>6, <1>7, GoesOn

\* A call that is nobody's own: of a source without a cache, or a ping.
LEMMA AsksKeeps ==
  ASSUME S!SecretsAssumption, SecretsInv, NEW r \in Reader, NEW k \in S!SecretKey,
         NEW op \in {"get", "required", "ping"}, reads[r] = None, Still, S!Silent, S!Counted,
         reads' = [reads EXCEPT ![r] = S!NewRead(op, k, "asking")],
         UNCHANGED <<kept, inflight>>, op = "ping" \/ ~source.cached
  PROVE  SecretsInv'
  <1> DEFINE d == S!NewRead(op, k, "asking")
  <1>1. turns' \in [reads : 0..MaxReads, rotations : 0..MaxRotations] /\ instant \in Nat
          /\ Latency \in Nat
    BY DEF S!Counted, SecretsInv, S!TypeOK, S!SecretsAssumption
  <1>2. /\ d \in S!Read /\ d.op = op /\ d.key = k /\ d.at = "asking"
        /\ d.since = instant /\ d.asked = instant
    BY <1>1 DEF S!NewRead, S!Read
  <1> HIDE DEF d
  <1>3. ReadFits(d)
    BY <1>1, <1>2 DEF ReadFits
  <1>4. reads' = [reads EXCEPT ![r] = d] /\ inflight' \in [S!SecretKey -> Reader \union {None}]
    BY DEF d, SecretsInv, S!TypeOK
  <1>5. reads'[r] = d /\ \A q \in Reader \ {r} : reads'[q] = reads[q]
    BY <1>4 DEF SecretsInv, S!TypeOK
  <1>6. \A j \in S!SecretKey : inflight[j] # r
    BY DEF SecretsInv, OwnsKey, S!SecretsAssumption
  <1>7. OwnsKey'
    BY <1>2, <1>5, <1>6 DEF SecretsInv, OwnsKey, Still, S!TypeOK
  <1> QED
    BY <1>1, <1>2, <1>3, <1>4, <1>7, GoesOn

\* A call that ends, for itself and those that share it, with what may be told.
LEMMA EndsKeep ==
  ASSUME S!SecretsAssumption, SecretsInv, Still, NEW r \in Reader, reads[r] # None,
         NEW rs \in SUBSET Reader, r \in rs, NEW answer \in Secret \union {None, "failed", "ok"},
         \A q \in rs : reads[q] # None /\ reads[q].key = reads[r].key, S!EndAll(rs, answer),
         answer \in Secret =>
           /\ S!NameOf(reads[r].key) # None
           /\ answer \in S!Since(S!NameOf(reads[r].key), S!Before(instant, TtlMs + Latency)),
         answer = None =>
           \/ source.name = "noop" \/ S!NameOf(reads[r].key) = None
           \/ None \in S!Since(S!NameOf(reads[r].key), S!Before(instant, Latency)),
         kept' \in [S!SecretKey -> S!Kept \union {None}], KeptFits', UNCHANGED turns,
         inflight' \in [S!SecretKey -> Reader \union {None}], OwnsKey'
  PROVE  SecretsInv'
  <1> DEFINE k == reads[r].key
             x(q) == [op |-> reads[q].op, key |-> reads[q].key, since |-> reads[q].since,
                      answer |-> S!Told(q, answer)]
  <1>1. /\ reads' = [q \in Reader |-> IF q \in rs THEN None ELSE reads[q]]
        /\ told' = {x(q) : q \in rs}
    BY DEF S!EndAll
  <1>2. ASSUME NEW q \in rs
        PROVE  /\ reads[q] \in S!Read /\ reads[q].key = k /\ reads[q].since \in Nat
               /\ reads[q].since <= instant
    <2>1. reads[q] \in S!Read /\ ReadFits(reads[q])
      BY ReadIs
    <2>2. instant \in Nat
      BY DEF SecretsInv, S!TypeOK, S!SecretsAssumption
    <2> QED
      BY <2>1, <2>2 DEF ReadFits, S!Read
  <1>3. ASSUME NEW q \in rs
        PROVE  /\ x(q).key = k /\ x(q).since = reads[q].since /\ x(q).op = reads[q].op
               /\ x(q).answer \in {answer, "missing"}
               /\ x(q).answer = "missing" => answer = None
    BY <1>2 DEF S!Told, S!SecretsAssumption
  <1>4. told' \subseteq [op : {"get", "required", "ping"}, key : S!SecretKey, since : Nat,
                         answer : Secret \union {None, "missing", "failed", "ok"}]
    <2> SUFFICES ASSUME NEW q \in rs
                 PROVE  x(q) \in [op : {"get", "required", "ping"}, key : S!SecretKey,
                                  since : Nat,
                                  answer : Secret \union {None, "missing", "failed", "ok"}]
      BY <1>1
    <2>1. S!Told(q, answer) \in Secret \union {None, "missing", "failed", "ok"}
      BY DEF S!Told
    <2>2. /\ reads[q].op \in {"get", "required", "ping"} /\ reads[q].key \in S!SecretKey
          /\ reads[q].since \in Nat
      BY <1>2 DEF S!Read
    <2> QED
      BY <2>1, <2>2
  <1>5. S!TypeOK'
    BY <1>1, <1>4 DEF SecretsInv, S!TypeOK, Still
  <1>6. ReadsFit'
    BY <1>1, StillIs DEF SecretsInv, ReadsFit
  <1>7. instant \in Nat /\ TtlMs \in Nat /\ Latency \in Nat /\ k \in S!SecretKey
          /\ S!NameOf(k) \in SecretName \union {None}
    BY ReadIs, NamesOf DEF SecretsInv, S!TypeOK, S!SecretsAssumption, S!Read
  <1>8. ASSUME NEW q \in rs, NEW d \in Nat
        PROVE  S!Since(S!NameOf(k), S!Before(instant, d))
                 \subseteq S!Since(S!NameOf(k), S!Before(reads[q].since, d))
    <2>1. /\ S!Before(instant, d) \in Nat /\ S!Before(reads[q].since, d) \in Nat
          /\ S!Before(reads[q].since, d) <= S!Before(instant, d)
      BY <1>2, <1>7 DEF S!Before
    <2> QED
      BY <1>7, <2>1, SinceBack
  <1> HIDE DEF k, x
  <1>9. \A q \in rs : x(q).answer \in Secret =>
          /\ S!NameOf(x(q).key) # None
          /\ x(q).answer \in S!Since(S!NameOf(x(q).key), S!Before(x(q).since, TtlMs + Latency))
    <2> SUFFICES ASSUME NEW q \in rs, x(q).answer \in Secret
                 PROVE  /\ S!NameOf(k) # None
                        /\ x(q).answer \in S!Since(S!NameOf(k), S!Before(reads[q].since, TtlMs + Latency))
      BY <1>3
    <2>1. x(q).answer = answer /\ answer \in Secret
      BY <1>3 DEF S!SecretsAssumption
    <2>2. TtlMs + Latency \in Nat
      BY <1>7
    <2> QED
      BY <1>8, <2>1, <2>2 DEF k
  <1>10. \A q \in rs : x(q).answer \in {None, "missing"} =>
           \/ source.name = "noop" \/ S!NameOf(x(q).key) = None
           \/ None \in S!Since(S!NameOf(x(q).key), S!Before(x(q).since, Latency))
    <2> SUFFICES ASSUME NEW q \in rs, x(q).answer \in {None, "missing"}
                 PROVE  \/ source.name = "noop" \/ S!NameOf(k) = None
                        \/ None \in S!Since(S!NameOf(k), S!Before(reads[q].since, Latency))
      BY <1>3
    <2>1. answer = None
      BY <1>3 DEF S!SecretsAssumption
    <2> QED
      BY <1>7, <1>8, <2>1 DEF k
  <1>11. ToldFits'
    <2>1. \A q \in rs : x(q) \in told'
      BY <1>1
    <2>2. \A y \in told' : \E q \in rs : y = x(q)
      BY <1>1
    <2>3. source' = source
      BY DEF Still
    <2> QED
      BY <1>9, <1>10, <2>2, <2>3, StillIs DEF ToldFits
  <1> QED
    BY <1>5, <1>6, <1>11, StillIs DEF SecretsInv

\* What may be told at once: what the name stands for now.
LEMMA HeldIs ==
  ASSUME S!SecretsAssumption, SecretsInv, NEW k \in S!SecretKey, NEW d \in Nat
  PROVE  LET v == S!Held(k)
         IN  /\ v \in Secret \union {None}
             /\ v \in Secret =>
                  S!NameOf(k) # None /\ v \in S!Since(S!NameOf(k), S!Before(instant, d))
             /\ v = None =>
                  \/ S!NameOf(k) = None \/ None \in S!Since(S!NameOf(k), S!Before(instant, d))
             /\ v \in Secret => v \in S!Since(S!NameOf(k), instant)
  <1>1. S!NameOf(k) \in SecretName \union {None} /\ instant \in Nat /\ HistoryFits
    BY NamesOf DEF SecretsInv, S!TypeOK, S!SecretsAssumption
  <1>2. S!Before(instant, d) \in Nat /\ S!Before(instant, d) <= instant
    BY <1>1 DEF S!Before
  <1>3. CASE S!NameOf(k) = None
    BY <1>3 DEF S!Held, S!SecretsAssumption
  <1>4. CASE S!NameOf(k) # None
    <2>1. S!NameOf(k) \in SecretName /\ S!Held(k) = upstream[S!NameOf(k)]
      BY <1>1, <1>4 DEF S!Held
    <2>2. /\ upstream[S!NameOf(k)] \in S!Since(S!NameOf(k), S!Before(instant, d))
          /\ upstream[S!NameOf(k)] \in S!Since(S!NameOf(k), instant)
      BY <1>1, <1>2, <2>1, SinceNow
    <2>3. upstream[S!NameOf(k)] \in Secret \union {None}
      BY <2>1 DEF SecretsInv, S!TypeOK
    <2> QED
      BY <1>4, <2>1, <2>2, <2>3
  <1> QED
    BY <1>3, <1>4

LEMMA SettleKeeps ==
  ASSUME S!SecretsAssumption, SecretsInv, Still, NEW r \in Reader, reads[r] # None,
         NEW answer \in Secret \union {None, "failed"}, S!Settle(r, answer),
         reads[r].at # "waiting",
         answer \in Secret =>
           /\ S!NameOf(reads[r].key) # None
           /\ answer \in S!Since(S!NameOf(reads[r].key), S!Before(instant, TtlMs + Latency)),
         answer = None =>
           \/ source.name = "noop" \/ S!NameOf(reads[r].key) = None
           \/ None \in S!Since(S!NameOf(reads[r].key), S!Before(instant, Latency)),
         kept' \in [S!SecretKey -> S!Kept \union {None}], KeptFits', UNCHANGED turns
  PROVE  SecretsInv'
  <1> DEFINE k      == reads[r].key
             shared == source.cached /\ reads[r].op # "ping"
             rs     == IF shared THEN S!Sharers(r) ELSE {r}
  <1>1. /\ reads[r] \in S!Read /\ k \in S!SecretKey
        /\ source.cached \in BOOLEAN
    BY ReadIs DEF S!Read, SecretsInv, S!TypeOK
  <1>2. /\ rs \in SUBSET Reader /\ r \in rs /\ S!EndAll(rs, answer)
        /\ \A q \in rs : reads[q] # None /\ reads[q].key = reads[r].key
        /\ inflight' = IF shared THEN [inflight EXCEPT ![k] = None] ELSE inflight
    BY DEF S!Settle, S!Sharers, S!At
  <1>3. inflight' \in [S!SecretKey -> Reader \union {None}]
    BY <1>2 DEF SecretsInv, S!TypeOK
  <1>4. \A q \in Reader : reads'[q] = IF q \in rs THEN None ELSE reads[q]
    BY <1>2 DEF S!EndAll
  <1>5. OwnsKey'
    <2>1. CASE shared
      <3>1. inflight[k] = r
        BY <1>1, <2>1 DEF SecretsInv, OwnsKey
      <3>2. \A j \in S!SecretKey : inflight'[j] = IF j = k THEN None ELSE inflight[j]
        BY <1>1, <1>2, <2>1 DEF SecretsInv, S!TypeOK
      <3>3. ASSUME NEW j \in S!SecretKey, inflight'[j] # None
            PROVE  LET e == reads'[inflight'[j]]
                   IN  e # None /\ e.key = j /\ e.op # "ping" /\ e.at # "waiting"
        <4>1. j # k /\ inflight'[j] = inflight[j] /\ inflight[j] \in Reader
          BY <3>2, <3>3 DEF SecretsInv, S!TypeOK
        <4>2. LET e == reads[inflight[j]]
              IN  e # None /\ e.key = j /\ e.op # "ping" /\ e.at # "waiting"
          BY <3>3, <4>1 DEF SecretsInv, OwnsKey
        <4>3. inflight[j] \notin rs
          BY <1>2, <4>1, <4>2
        <4> QED
          BY <1>4, <4>1, <4>2, <4>3
      <3>4. ASSUME NEW q \in Reader, reads'[q] # None, reads'[q].op # "ping"
            PROVE  /\ inflight'[reads'[q].key] # None
                   /\ reads'[q].at # "waiting" => inflight'[reads'[q].key] = q
        <4>1. q \notin rs /\ reads'[q] = reads[q] /\ reads[q].key \in S!SecretKey
          BY <1>4, <3>4 DEF SecretsInv, S!TypeOK, S!Read
        <4>2. /\ inflight[reads[q].key] # None
              /\ reads[q].at # "waiting" => inflight[reads[q].key] = q
          BY <2>1, <3>4, <4>1 DEF SecretsInv, OwnsKey
        <4>3. reads[q].key # k
          BY <1>2, <2>1, <3>1, <3>4, <4>1, <4>2 DEF S!Sharers, S!At
        <4> QED
          BY <3>2, <4>1, <4>2, <4>3
      <3> QED
        BY <2>1, <3>3, <3>4 DEF OwnsKey, Still
    <2>2. CASE ~shared
      <3>1. \A j \in S!SecretKey : inflight[j] # r
        BY <1>1, <2>2 DEF SecretsInv, OwnsKey, S!SecretsAssumption
      <3>2. rs = {r} /\ inflight' = inflight
        BY <1>2, <2>2
      <3> HIDE DEF shared, rs, k
      <3> QED
        BY <1>4, <3>1, <3>2 DEF SecretsInv, OwnsKey, Still, S!TypeOK
    <2> QED
      BY <2>1, <2>2
  <1> HIDE DEF rs
  <1> QED
    BY <1>2, <1>3, <1>5, EndsKeep

-----------------------------------------------------------------------------

LEMMA LookUpKeeps ==
  ASSUME S!SecretsAssumption, SecretsInv, NEW r \in Reader, S!LookUp(r)
  PROVE  SecretsInv'
  <1> DEFINE k == reads[r].key
             d == [reads[r] EXCEPT !.at = "asking", !.asked = instant]
  <1>1. /\ reads[r] # None /\ reads[r].at = "looking" /\ Still
        /\ UNCHANGED <<kept, turns>>
    BY DEF S!LookUp, S!At, Still
  <1>2. /\ reads[r] \in S!Read /\ ReadFits(reads[r]) /\ k \in S!SecretKey
        /\ instant \in Nat /\ TtlMs \in Nat /\ Latency \in Nat
        /\ S!NameOf(k) \in SecretName \union {None}
    BY <1>1, ReadIs, NamesOf DEF S!Read, SecretsInv, S!TypeOK, S!SecretsAssumption
  <1>3. source.cached /\ TtlMs > 0
    BY <1>1, <1>2 DEF ReadFits, SecretsInv, HistoryFits
  <1>4. kept' \in [S!SecretKey -> S!Kept \union {None}] /\ KeptFits'
    BY <1>1, StillIs DEF SecretsInv, S!TypeOK
  <1>5. CASE S!Hit(k)
    <2> DEFINE until == kept[k].until
               v     == kept[k].value
    <2>1. /\ kept[k] # None /\ until \in Nat /\ v \in Secret
          /\ until >= TtlMs /\ until - TtlMs <= instant /\ S!NameOf(k) # None
          /\ v \in S!Since(S!NameOf(k), S!Before(until - TtlMs, Latency))
      BY <1>2, <1>5 DEF S!Hit, SecretsInv, KeptFits, S!TypeOK, S!Kept
    <2>2. until > instant
      BY <1>2, <1>3, <1>5, <2>1 DEF S!Hit
    <2> HIDE DEF until, v
    <2>3. /\ S!Before(until - TtlMs, Latency) \in Nat
          /\ S!Before(instant, TtlMs + Latency) \in Nat
          /\ S!Before(instant, TtlMs + Latency) <= S!Before(until - TtlMs, Latency)
      BY <1>2, <2>1, <2>2 DEF S!Before
    <2>4. v \in S!Since(S!NameOf(k), S!Before(instant, TtlMs + Latency))
      BY <1>2, <2>1, <2>3, SinceBack
    <2>5. S!Settle(r, v) /\ v # None
      BY <1>5, <2>1 DEF S!LookUp, v, S!SecretsAssumption
    <2> QED
      BY <1>1, <1>4, <2>1, <2>4, <2>5, SettleKeeps
  <1>6. CASE ~S!Hit(k)
    <2>1. reads' = [reads EXCEPT ![r] = d] /\ S!Silent /\ UNCHANGED inflight
      BY <1>6 DEF S!LookUp, SecretsInv, S!TypeOK
    <2>2. /\ d \in S!Read /\ d.op = reads[r].op /\ d.key = k /\ d.at = "asking"
          /\ d.since = reads[r].since /\ d.asked = instant
      BY <1>2 DEF S!Read
    <2> HIDE DEF d
    <2>3. ReadFits(d)
      BY <1>1, <1>2, <1>3, <2>2 DEF ReadFits, S!Read
    <2>4. reads'[r] = d /\ \A q \in Reader \ {r} : reads'[q] = reads[q]
      BY <2>1 DEF SecretsInv, S!TypeOK
    <2>5. d # None
      BY <2>2 DEF S!SecretsAssumption
    <2>6. OwnsKey'
      BY <1>1, <2>1, <2>2, <2>4, <2>5 DEF SecretsInv, OwnsKey, S!TypeOK, Still
    <2>7. /\ turns' \in [reads : 0..MaxReads, rotations : 0..MaxRotations]
          /\ inflight' \in [S!SecretKey -> Reader \union {None}]
      BY <1>1, <2>1 DEF SecretsInv, S!TypeOK
    <2> QED
      BY <1>1, <2>1, <2>2, <2>3, <2>6, <2>7, GoesOn
  <1> QED
    BY <1>5, <1>6

\* An answer is what the name stands for now, or a failure; a cached source
\* stores it before it is told.
LEMMA ReplyKeeps ==
  ASSUME S!SecretsAssumption, SecretsInv, NEW r \in Reader, S!At(r) = "asking",
         Still, UNCHANGED <<kept, turns>>,
         \/ S!Getting(r) /\ S!Reply(r, S!Held(reads[r].key))
         \/ S!Settle(r, S!Held(reads[r].key))
  PROVE  SecretsInv'
  <1> DEFINE k == reads[r].key
             v == S!Held(k)
             d == [reads[r] EXCEPT !.at = "storing", !.found = v]
  <1>1. reads[r] # None /\ reads[r].at = "asking"
    BY DEF S!At
  <1>2. /\ reads[r] \in S!Read /\ ReadFits(reads[r]) /\ k \in S!SecretKey
        /\ instant \in Nat /\ TtlMs \in Nat /\ Latency \in Nat
    BY <1>1, ReadIs DEF S!Read, SecretsInv, S!TypeOK, S!SecretsAssumption
  <1>3. kept' \in [S!SecretKey -> S!Kept \union {None}] /\ KeptFits'
    BY StillIs DEF SecretsInv, S!TypeOK
  <1>4. /\ v \in Secret \union {None}
        /\ v \in Secret =>
             /\ S!NameOf(k) # None
             /\ v \in S!Since(S!NameOf(k), S!Before(instant, TtlMs + Latency))
             /\ v \in S!Since(S!NameOf(k), instant)
        /\ v = None => \/ S!NameOf(k) = None
                       \/ None \in S!Since(S!NameOf(k), S!Before(instant, Latency))
    <2>1. TtlMs + Latency \in Nat
      BY <1>2
    <2> QED
      BY <1>2, <2>1, HeldIs
  <1> HIDE DEF v
  <1>5. CASE S!Settle(r, v)
    BY <1>1, <1>3, <1>4, <1>5, SettleKeeps
  <1>6. CASE source.cached /\ v # None /\ S!Reply(r, v) /\ S!Getting(r)
    <2>1. reads' = [reads EXCEPT ![r] = d] /\ S!Silent /\ UNCHANGED inflight
      BY <1>6 DEF S!Reply, SecretsInv, S!TypeOK
    <2>2. /\ d \in S!Read /\ d.op = reads[r].op /\ d.key = k /\ d.at = "storing"
          /\ d.since = reads[r].since /\ d.asked = reads[r].asked /\ d.found = v
      BY <1>2, <1>4 DEF S!Read
    <2> HIDE DEF d
    <2>3. S!Since(S!NameOf(k), instant) \subseteq S!Since(S!NameOf(k), d.asked)
      BY <1>2, <2>2, SinceBack DEF ReadFits, S!Read
    <2>4. ReadFits(d)
      BY <1>1, <1>2, <1>4, <1>6, <2>2, <2>3 DEF ReadFits, S!Getting
    <2>5. reads'[r] = d /\ d # None /\ \A q \in Reader \ {r} : reads'[q] = reads[q]
      BY <2>1, <2>2 DEF SecretsInv, S!TypeOK, S!SecretsAssumption
    <2>6. OwnsKey'
      BY <1>1, <2>1, <2>2, <2>5 DEF SecretsInv, OwnsKey, S!TypeOK, Still
    <2>7. /\ turns' \in [reads : 0..MaxReads, rotations : 0..MaxRotations]
          /\ inflight' \in [S!SecretKey -> Reader \union {None}]
      BY <2>1 DEF SecretsInv, S!TypeOK
    <2> QED
      BY <2>1, <2>2, <2>4, <2>6, <2>7, GoesOn
  <1> QED
    BY <1>5, <1>6 DEF S!Reply, v

\* A failure tells nothing of the secret.
LEMMA FailureKeeps ==
  ASSUME S!SecretsAssumption, SecretsInv, NEW r \in Reader,
         S!At(r) \notin {"idle", "waiting"}, Still, UNCHANGED <<kept, turns>>,
         S!Settle(r, "failed")
  PROVE  SecretsInv'
  <1>1. reads[r] # None /\ reads[r].at # "waiting"
    BY DEF S!At
  <1>2. "failed" \notin Secret /\ "failed" # None
    BY DEF S!SecretsAssumption
  <1>3. kept' \in [S!SecretKey -> S!Kept \union {None}] /\ KeptFits'
    BY StillIs DEF SecretsInv, S!TypeOK
  <1> QED
    BY <1>1, <1>2, <1>3, SettleKeeps

LEMMA StoreKeeps ==
  ASSUME S!SecretsAssumption, SecretsInv, NEW r \in Reader, S!Store(r)
  PROVE  SecretsInv'
  <1> DEFINE k     == reads[r].key
             v     == reads[r].found
             until == IF TtlMs = 0 THEN 0 ELSE instant + TtlMs
             e     == [value |-> v, until |-> until]
  <1>1. /\ reads[r] # None /\ reads[r].at = "storing" /\ Still /\ UNCHANGED turns
        /\ kept' = [kept EXCEPT ![k] = e] /\ S!Settle(r, v)
    BY DEF S!Store, S!At, Still
  <1>2. /\ reads[r] \in S!Read /\ ReadFits(reads[r]) /\ k \in S!SecretKey
        /\ instant \in Nat /\ TtlMs \in Nat /\ Latency \in Nat
        /\ S!NameOf(k) \in SecretName \union {None} /\ reads[r].asked \in Nat
    <2>1. reads[r] \in S!Read /\ ReadFits(reads[r])
      BY <1>1, ReadIs
    <2>2. k \in S!SecretKey /\ reads[r].asked \in Nat
      BY <2>1 DEF S!Read
    <2>3. instant \in Nat /\ TtlMs \in Nat /\ Latency \in Nat
      BY DEF SecretsInv, S!TypeOK, S!SecretsAssumption
    <2> QED
      BY <2>1, <2>2, <2>3, NamesOf
  <1>3. /\ source.cached /\ TtlMs > 0 /\ v \in Secret /\ S!NameOf(k) # None
        /\ v \in S!Since(S!NameOf(k), reads[r].asked)
        /\ reads[r].asked <= instant /\ instant <= reads[r].asked + Latency
    BY <1>1, <1>2 DEF ReadFits, SecretsInv, HistoryFits
  <1>4. until = instant + TtlMs /\ until \in Nat /\ until - TtlMs = instant
    BY <1>2, <1>3
  <1>5. e \in S!Kept /\ e.value = v /\ e.until = until
    BY <1>3, <1>4 DEF S!Kept
  <1> HIDE DEF until, e
  <1>6. /\ S!Before(instant, Latency) \in Nat /\ S!Before(instant, TtlMs + Latency) \in Nat
        /\ S!Before(instant, Latency) <= reads[r].asked
        /\ S!Before(instant, TtlMs + Latency) <= reads[r].asked
    BY <1>2, <1>3 DEF S!Before
  <1>7. /\ v \in S!Since(S!NameOf(k), S!Before(instant, Latency))
        /\ v \in S!Since(S!NameOf(k), S!Before(instant, TtlMs + Latency))
    BY <1>2, <1>3, <1>6, SinceBack
  <1>8. kept' \in [S!SecretKey -> S!Kept \union {None}]
    BY <1>1, <1>5 DEF SecretsInv, S!TypeOK
  <1>9. \A j \in S!SecretKey : kept'[j] = IF j = k THEN e ELSE kept[j]
    BY <1>1, <1>2 DEF SecretsInv, S!TypeOK
  <1>10. KeptFits'
    <2> SUFFICES ASSUME NEW j \in S!SecretKey, kept'[j] # None
                 PROVE  LET stored == kept'[j].until - TtlMs
                        IN  /\ source.cached /\ kept'[j].until >= TtlMs /\ stored <= instant
                            /\ S!NameOf(j) # None
                            /\ kept'[j].value \in S!Since(S!NameOf(j), S!Before(stored, Latency))
      BY <1>1, StillIs DEF KeptFits, Still
    <2>1. CASE j = k
      BY <1>2, <1>3, <1>4, <1>5, <1>7, <1>9, <2>1
    <2>2. CASE j # k
      BY <1>9, <2>2 DEF SecretsInv, KeptFits
    <2> QED
      BY <2>1, <2>2
  <1>11. v # None
    BY <1>3 DEF S!SecretsAssumption
  <1> HIDE DEF v
  <1> QED
    BY <1>1, <1>3, <1>7, <1>8, <1>10, <1>11, SettleKeeps

LEMMA PingKeeps ==
  ASSUME S!SecretsAssumption, SecretsInv, NEW r \in Reader, S!Ping(r)
  PROVE  SecretsInv'
  <1> DEFINE k == CHOOSE j \in S!SecretKey : TRUE
             x == [op |-> "ping", key |-> k, since |-> instant, answer |-> "ok"]
  <1>1. Still /\ reads[r] = None /\ S!Counted /\ UNCHANGED <<kept, inflight>>
    BY DEF S!Ping, Still
  <1>2. k \in S!SecretKey
    BY DEF S!SecretKey, S!SecretsAssumption
  <1>3. CASE source.name \in S!Remote
    <2>1. S!Silent /\ reads' = [reads EXCEPT ![r] = S!NewRead("ping", k, "asking")]
      BY <1>3 DEF S!Ping
    <2> HIDE DEF k
    <2> QED
      BY <1>1, <1>2, <2>1, AsksKeeps
  <1>4. CASE source.name \notin S!Remote
    <2>1. told' = {x} /\ UNCHANGED reads
      BY <1>4 DEF S!Ping
    <2> HIDE DEF k
    <2>2. turns' \in [reads : 0..MaxReads, rotations : 0..MaxRotations] /\ instant \in Nat
      BY <1>1 DEF S!Counted, SecretsInv, S!TypeOK, S!SecretsAssumption
    <2>3. S!TypeOK'
      BY <1>1, <1>2, <2>1, <2>2 DEF SecretsInv, S!TypeOK, Still
    <2>4. ToldFits'
      BY <2>1 DEF ToldFits, S!SecretsAssumption
    <2>5. ReadsFit' /\ OwnsKey'
      BY <1>1, <2>1, StillIs DEF SecretsInv, ReadsFit, OwnsKey, Still
    <2> QED
      BY <1>1, <2>3, <2>4, <2>5, StillIs DEF SecretsInv
  <1> QED
    BY <1>3, <1>4

LEMMA PingAnsweredKeeps ==
  ASSUME S!SecretsAssumption, SecretsInv, NEW r \in Reader, S!PingAnswered(r)
  PROVE  SecretsInv'
  <1>1. /\ Still /\ UNCHANGED <<kept, turns, inflight>> /\ reads[r] # None
        /\ reads[r].op = "ping"
    BY DEF S!PingAnswered, Still, S!At
  <1>2. PICK answer \in {"ok", "failed"} : S!EndAll({r}, answer)
    BY DEF S!PingAnswered
  <1>3. answer \notin Secret /\ answer # None
    BY DEF S!SecretsAssumption
  <1>4. /\ kept' \in [S!SecretKey -> S!Kept \union {None}] /\ KeptFits'
        /\ inflight' \in [S!SecretKey -> Reader \union {None}]
    BY <1>1, StillIs DEF SecretsInv, S!TypeOK
  <1>5. \A q \in Reader : reads'[q] = IF q = r THEN None ELSE reads[q]
    BY <1>2 DEF S!EndAll
  <1>6. \A j \in S!SecretKey : inflight[j] # r
    BY <1>1 DEF SecretsInv, OwnsKey, S!SecretsAssumption
  <1>7. OwnsKey'
    BY <1>1, <1>5, <1>6 DEF SecretsInv, OwnsKey, Still, S!TypeOK
  <1>8. {r} \in SUBSET Reader /\ r \in {r} /\ \A q \in {r} : reads[q] # None /\ reads[q].key = reads[r].key
    BY <1>1
  <1> QED
    BY <1>1, <1>2, <1>3, <1>4, <1>7, <1>8, EndsKeep

\* The noop source knows no secret.
LEMMA NoopKeeps ==
  ASSUME S!SecretsAssumption, SecretsInv, NEW r \in Reader, S!NoopAnswers(r)
  PROVE  SecretsInv'
  <1>1. /\ source.name = "noop" /\ reads[r] # None /\ reads[r].at = "asking" /\ Still
        /\ UNCHANGED <<kept, turns>> /\ S!Settle(r, None)
    BY DEF S!NoopAnswers, S!Asking, S!At, Still
  <1>2. kept' \in [S!SecretKey -> S!Kept \union {None}] /\ KeptFits'
    BY <1>1, StillIs DEF SecretsInv, S!TypeOK
  <1>3. None \notin Secret
    BY DEF S!SecretsAssumption
  <1> QED
    BY <1>1, <1>2, <1>3, SettleKeeps

LEMMA RemoteKeeps ==
  ASSUME S!SecretsAssumption, SecretsInv, NEW r \in Reader,
         \/ S!SsmAnswers(r) \/ S!GcpAnswers(r) \/ S!KubectlAnswers(r) \/ S!RemoteFails(r)
         \/ S!EnvAnswers(r) \/ S!StaticAnswers(r) \/ S!CacheFails(r)
  PROVE  SecretsInv'
  <1>1. /\ Still /\ UNCHANGED <<kept, turns>> /\ S!At(r) \notin {"idle", "waiting"}
        /\ \/ S!Settle(r, "failed")
           \/ /\ S!At(r) = "asking"
              /\ \/ S!Getting(r) /\ S!Reply(r, S!Held(reads[r].key))
                 \/ S!Settle(r, S!Held(reads[r].key))
    BY DEF S!SsmAnswers, S!GcpAnswers, S!KubectlAnswers, S!RemoteFails, S!EnvAnswers,
           S!StaticAnswers, S!CacheFails, S!Asking, Still
  <1>2. CASE S!Settle(r, "failed")
    BY <1>1, <1>2, FailureKeeps
  <1>3. CASE /\ S!At(r) = "asking"
             /\ \/ S!Getting(r) /\ S!Reply(r, S!Held(reads[r].key))
                \/ S!Settle(r, S!Held(reads[r].key))
    BY <1>1, <1>3, ReplyKeeps
  <1> QED
    BY <1>1, <1>2, <1>3

-----------------------------------------------------------------------------

\* The secrets change, or time passes, while calls are under way.
LEMMA WorldKeeps ==
  ASSUME S!SecretsAssumption, SecretsInv, S!TypeOK', HistoryFits',
         UNCHANGED <<source, kept, inflight, reads>>, told' = {},
         instant' \in {instant, instant + 1},
         \A m \in SecretName, u \in 0..instant : was[m][u] \subseteq was'[m][u],
         \A r \in Reader : reads[r] # None /\ reads[r].at \in {"asking", "storing"} =>
                             instant' <= reads[r].asked + Latency
  PROVE  SecretsInv'
  <1>1. instant \in Nat /\ instant' \in Nat /\ instant <= instant'
          /\ TtlMs \in Nat /\ Latency \in Nat
    BY DEF SecretsInv, S!TypeOK, S!SecretsAssumption
  <1>2. \A k : S!NameOf(k)' = S!NameOf(k)
    BY DEF S!NameOf
  <1>3. ASSUME NEW n \in SecretName, NEW t \in Nat PROVE S!Since(n, t) \subseteq S!Since(n, t)'
    BY <1>1, SinceGrows
  <1>4. ASSUME NEW r \in Reader, reads[r] # None PROVE ReadFits(reads[r])'
    <2>1. /\ reads[r] \in S!Read /\ ReadFits(reads[r]) /\ reads[r].asked \in Nat
          /\ S!NameOf(reads[r].key) \in SecretName \union {None}
      BY <1>4, ReadIs, NamesOf DEF S!Read
    <2>2. ASSUME reads[r].at = "storing"
          PROVE  /\ S!NameOf(reads[r].key) # None /\ reads[r].found \in Secret
                 /\ reads[r].found \in S!Since(S!NameOf(reads[r].key), reads[r].asked)'
      <3> DEFINE n == S!NameOf(reads[r].key)
                 t == reads[r].asked
      <3>1. n # None /\ reads[r].found \in Secret /\ reads[r].found \in S!Since(n, t)
        BY <2>1, <2>2 DEF ReadFits
      <3>2. n \in SecretName /\ t \in Nat
        BY <2>1, <3>1
      <3>3. n' = n /\ t' = t
        BY <1>2
      <3> HIDE DEF n, t
      <3>4. S!Since(n, t) \subseteq S!Since(n, t)'
        BY <1>3, <3>2, <3>3
      <3> QED
        BY <3>1, <3>3, <3>4 DEF n, t
    <2>3. reads[r].asked <= instant'
      BY <1>1, <2>1 DEF ReadFits
    <2> QED
      BY <1>2, <1>4, <2>1, <2>2, <2>3 DEF ReadFits
  <1>5. KeptFits'
    <2> SUFFICES ASSUME NEW k \in S!SecretKey, kept[k] # None
                 PROVE  LET stored == kept[k].until - TtlMs
                        IN  /\ source.cached /\ kept[k].until >= TtlMs /\ stored <= instant'
                            /\ S!NameOf(k) # None
                            /\ kept[k].value
                                 \in S!Since(S!NameOf(k), S!Before(stored, Latency))'
      BY <1>2 DEF KeptFits
    <2> DEFINE stored == kept[k].until - TtlMs
               t      == S!Before(stored, Latency)
    <2>1. /\ source.cached /\ kept[k].until >= TtlMs /\ stored <= instant
          /\ S!NameOf(k) # None /\ kept[k].value \in S!Since(S!NameOf(k), t)
      BY DEF SecretsInv, KeptFits
    <2>2. kept[k].until \in Nat /\ stored \in Nat
      BY <1>1, <2>1 DEF SecretsInv, S!TypeOK, S!Kept
    <2>3. t \in Nat /\ stored <= instant'
      BY <1>1, <2>1, <2>2 DEF S!Before
    <2>4. t' = t
      BY DEF S!Before
    <2> HIDE DEF stored, t
    <2>5. kept[k].value \in S!Since(S!NameOf(k), t)'
      <3>1. S!NameOf(k) \in SecretName
        BY <2>1, NamesOf
      <3>2. S!NameOf(k)' = S!NameOf(k)
        BY <1>2
      <3>3. S!Since(S!NameOf(k), t) \subseteq S!Since(S!NameOf(k), t)'
        BY <1>3, <2>3, <2>4, <3>1, <3>2
      <3> QED
        BY <2>1, <2>4, <3>3
    <2> QED
      BY <2>1, <2>3, <2>5 DEF stored, t
  <1>6. OwnsKey' /\ ReadsFit' /\ ToldFits'
    BY <1>4 DEF SecretsInv, OwnsKey, ReadsFit, ToldFits
  <1> QED
    BY <1>5, <1>6 DEF SecretsInv

LEMMA ExceptAt ==
  ASSUME NEW D, NEW R, NEW f \in [D -> R], NEW a, NEW b, NEW x \in D
  PROVE  [f EXCEPT ![a] = b][x] = IF x = a THEN b ELSE f[x]
  OBVIOUS

LEMMA RotateKeeps ==
  ASSUME S!SecretsAssumption, SecretsInv, NEW n \in SecretName,
         NEW s \in Secret \union {None}, S!Rotate(n, s)
  PROVE  SecretsInv'
  <1>1. /\ UNCHANGED <<source, kept, inflight, reads, instant>> /\ told' = {}
        /\ upstream' = [upstream EXCEPT ![n] = s]
        /\ was' = [was EXCEPT ![n][instant] = @ \union {s}]
        /\ turns' \in [reads : 0..MaxReads, rotations : 0..MaxRotations]
        /\ instant \in 0..SecretHorizon /\ instant \in Nat /\ SecretHorizon \in Nat
    BY DEF S!Rotate, S!Silent, SecretsInv, S!TypeOK, S!SecretsAssumption
  <1>2. was' \in [SecretName -> [0..SecretHorizon -> SUBSET (Secret \union {None})]]
    BY <1>1 DEF SecretsInv, S!TypeOK
  <1>3. /\ upstream' \in [SecretName -> Secret \union {None}]
        /\ \A m \in SecretName : upstream'[m] = IF m = n THEN s ELSE upstream[m]
    BY <1>1 DEF SecretsInv, S!TypeOK
  <1> DEFINE grown == [was[n] EXCEPT ![instant] = was[n][instant] \union {s}]
  <1>8. /\ was \in [SecretName -> [0..SecretHorizon -> SUBSET (Secret \union {None})]]
        /\ was' = [was EXCEPT ![n] = grown]
    BY <1>1 DEF SecretsInv, S!TypeOK
  <1>9. /\ was[n] \in [0..SecretHorizon -> SUBSET (Secret \union {None})]
        /\ was'[n] = grown /\ \A m \in SecretName \ {n} : was'[m] = was[m]
    <2> HIDE DEF grown
    <2> QED
      BY <1>8
  <1>10. \A u \in 0..instant :
           grown[u] = IF u = instant THEN was[n][u] \union {s} ELSE was[n][u]
    <2>1. \A u \in 0..instant : u \in 0..SecretHorizon
      BY <1>1
    <2> QED
      BY <1>9, <2>1, ExceptAt
  <1> HIDE DEF grown
  <1>4. \A m \in SecretName, u \in 0..instant :
          was'[m][u] = IF m = n /\ u = instant THEN was[m][u] \union {s} ELSE was[m][u]
    BY <1>9, <1>10
  <1>5. S!TypeOK'
    BY <1>1, <1>2, <1>3 DEF SecretsInv, S!TypeOK
  <1>6. HistoryFits'
    BY <1>1, <1>3, <1>4 DEF SecretsInv, HistoryFits
  <1>7. \A m \in SecretName, u \in 0..instant : was[m][u] \subseteq was'[m][u]
    BY <1>4
  <1>11. ASSUME NEW r \in Reader, reads[r] # None, reads[r].at \in {"asking", "storing"}
         PROVE  instant' <= reads[r].asked + Latency
    BY <1>1, <1>11, ReadIs DEF ReadFits
  <1> QED
    BY <1>1, <1>5, <1>6, <1>7, <1>11, WorldKeeps

LEMMA ElapseKeeps ==
  ASSUME S!SecretsAssumption, SecretsInv, S!Elapse
  PROVE  SecretsInv'
  <1>1. /\ UNCHANGED <<source, upstream, kept, inflight, reads, turns>> /\ told' = {}
        /\ instant' = instant + 1 /\ instant < SecretHorizon
        /\ was' = [n \in SecretName |-> [was[n] EXCEPT ![instant + 1] = {upstream[n]}]]
        /\ instant \in 0..SecretHorizon /\ instant \in Nat /\ SecretHorizon \in Nat
        /\ \A r \in Reader :
             S!At(r) \in {"asking", "storing"} => instant < reads[r].asked + Latency
    BY DEF S!Elapse, S!Silent, SecretsInv, S!TypeOK, S!SecretsAssumption
  <1>2. was' \in [SecretName -> [0..SecretHorizon -> SUBSET (Secret \union {None})]]
    BY <1>1 DEF SecretsInv, S!TypeOK
  <1>3. instant' \in 0..SecretHorizon /\ instant' \in Nat
    BY <1>1
  <1>4. S!TypeOK'
    BY <1>1, <1>2, <1>3 DEF SecretsInv, S!TypeOK
  <1>5. ASSUME NEW m \in SecretName, NEW u \in 0..instant'
        PROVE  was'[m][u] = IF u = instant + 1 THEN {upstream[m]} ELSE was[m][u]
    <2>1. was[m] \in [0..SecretHorizon -> SUBSET (Secret \union {None})]
      BY DEF SecretsInv, S!TypeOK
    <2>2. was'[m] = [was[m] EXCEPT ![instant + 1] = {upstream[m]}]
      BY <1>1
    <2>3. u \in 0..SecretHorizon
      BY <1>1, <1>3
    <2> QED
      BY <2>1, <2>2, <2>3, ExceptAt
  <1>6. HistoryFits'
    <2>1. instant' \in 0..instant' /\ upstream' = upstream /\ source' = source
      BY <1>1, <1>3
    <2>2. \A m \in SecretName : was'[m][instant'] = {upstream[m]}
      BY <1>1, <1>5, <2>1
    <2> QED
      BY <2>1, <2>2 DEF SecretsInv, HistoryFits
  <1>7. \A m \in SecretName, u \in 0..instant : was[m][u] \subseteq was'[m][u]
    BY <1>1, <1>3, <1>5
  <1>8. ASSUME NEW r \in Reader, reads[r] # None, reads[r].at \in {"asking", "storing"}
        PROVE  instant' <= reads[r].asked + Latency
    <2>1. reads[r].asked \in Nat /\ Latency \in Nat
      BY <1>8, ReadIs DEF S!Read, S!SecretsAssumption
    <2> QED
      BY <1>1, <1>8, <2>1 DEF S!At
  <1> QED
    BY <1>1, <1>3, <1>4, <1>6, <1>7, <1>8, WorldKeeps

LEMMA SecretsNext ==
  S!SecretsAssumption /\ SecretsInv /\ [S!Next]_secretVars => SecretsInv'
  <1> SUFFICES ASSUME S!SecretsAssumption, SecretsInv, [S!Next]_secretVars
               PROVE  SecretsInv'
    OBVIOUS
  <1>1. CASE UNCHANGED secretVars
    BY <1>1, StillIs DEF secretVars, Still, SecretsInv, S!TypeOK, ReadsFit, OwnsKey, ToldFits
  <1>2. ASSUME NEW r \in Reader, NEW q \in Gets, S!CachedGet(r, q.op, q.key) PROVE SecretsInv'
    BY <1>2, CachedGetKeeps DEF S!SecretsAssumption
  <1>3. ASSUME NEW r \in Reader, NEW q \in Gets, S!DirectGet(r, q.op, q.key) PROVE SecretsInv'
    <2>1. q.op \in {"get", "required"} /\ q.key \in S!SecretKey
      BY DEF S!SecretsAssumption
    <2>2. /\ reads[r] = None /\ Still /\ S!Silent /\ S!Counted /\ ~source.cached
          /\ reads' = [reads EXCEPT ![r] = S!NewRead(q.op, q.key, "asking")]
          /\ UNCHANGED <<kept, inflight>>
      BY <1>3 DEF S!DirectGet, S!Idle, Still
    <2> QED
      BY <2>1, <2>2, AsksKeeps
  <1> QED
    BY <1>1, <1>2, <1>3, PingKeeps, LookUpKeeps, RemoteKeeps, NoopKeeps, PingAnsweredKeeps,
       StoreKeeps, RotateKeeps, ElapseKeeps
    DEF S!Next

LEMMA SecretsAreFresh == S!SecretsAssumption /\ SecretsInv => S!FreshAndShared
  <1> SUFFICES ASSUME S!SecretsAssumption, SecretsInv PROVE S!FreshAndShared
    OBVIOUS
  <1>1. ASSUME source.cached, NEW k \in S!SecretKey
        PROVE  LET mine   == {r \in Reader : S!At(r) # "idle" /\ reads[r].key = k
                                              /\ reads[r].op # "ping"}
                   owners == {r \in mine : S!At(r) # "waiting"}
               IN  (\A r, q \in owners : r = q) /\ (mine # {} => owners # {})
    <2> DEFINE mine   == {r \in Reader : S!At(r) # "idle" /\ reads[r].key = k
                                          /\ reads[r].op # "ping"}
               owners == {r \in mine : S!At(r) # "waiting"}
    <2>1. owners \subseteq {inflight[k]}
      BY <1>1 DEF SecretsInv, OwnsKey, S!At
    <2>2. \A r, q \in owners : r = q
      BY <2>1
    <2>3. ASSUME NEW r \in mine PROVE inflight[k] \in owners
      <3>1. inflight[k] # None /\ inflight[k] \in Reader
        BY <1>1 DEF SecretsInv, OwnsKey, S!At, S!TypeOK
      <3> QED
        BY <3>1 DEF SecretsInv, OwnsKey, S!At, S!TypeOK, S!Read
    <2> QED
      BY <2>2, <2>3
  <1>2. S!TypeOK /\ ToldFits
    BY DEF SecretsInv
  <1> HIDE DEF SecretsInv
  <1> USE DEF S!FreshAndShared
  <1>3. \A x \in told : x.answer \in Secret =>
          /\ S!NameOf(x.key) # None
          /\ x.answer \in S!Since(S!NameOf(x.key), S!Before(x.since, TtlMs + Latency))
    BY <1>2 DEF ToldFits
  <1>4. \A x \in told : x.answer \in {None, "missing"} =>
          \/ source.name = "noop" \/ S!NameOf(x.key) = None
          \/ None \in S!Since(S!NameOf(x.key), S!Before(x.since, Latency))
    BY <1>2 DEF ToldFits
  <1> SUFFICES ASSUME source.cached, NEW k \in S!SecretKey
               PROVE  LET mine   == {r \in Reader : S!At(r) # "idle" /\ reads[r].key = k
                                                     /\ reads[r].op # "ping"}
                          owners == {r \in mine : S!At(r) # "waiting"}
                      IN  (\A r, q \in owners : r = q) /\ (mine # {} => owners # {})
    BY <1>2, <1>3, <1>4, Zenon
  <1> QED
    BY <1>1, Zenon

-----------------------------------------------------------------------------
(* Buckets, for any keys, versions and size limit.                         *)

\* What a call under way has, when the objects are o.
JobFits(j, o) ==
  /\ o[j.key] \in j.seen /\ j.stayed \subseteq B!Existing(o)
  /\ j.at \in {"rename", "land", "stray", "attrs", "fill"} /\ j.op = "save" => j.version \notin TooLarge
  /\ j.at \in {"attrs", "fill"} => j.op = "save" /\ j.version \in j.seen
  /\ j.at = "answer" => \/ j.op = "save" /\ j.version \in j.seen
                        \/ j.op = "delete" /\ None \in j.seen
  /\ j.at = "unlink" => j.op = "delete" /\ None \in j.seen
  /\ j.at = "open" => j.op \in {"read", "attributes"} /\ j.got \in j.seen

\* What a listing has yielded, and what it has before it.
ListFits(j) ==
  /\ backend \in B!Services /\ j.op = "list" =>
       \A k \in j.stayed : k <= j.cursor => k \in j.listed
  /\ backend = "filesystem" /\ j.op = "list" /\ j.at = "walk" =>
       \A k \in j.stayed : k \in j.listed \/ <<"key", k>> \in j.names

JobsFit == \A u \in User : jobs[u] # None => JobFits(jobs[u], objects) /\ ListFits(jobs[u])

\* What an answer to the call w says.
Truthful(outcome, w) ==
  /\ outcome = "done" =>
       CASE w.op = "save"   -> w.version \in w.seen
         [] w.op = "delete" -> None \in w.seen
         [] w.op = "list"   -> w.stayed \subseteq w.listed
         [] OTHER           -> w.got \in w.seen
  /\ outcome = "half" => w.version \in w.seen
  /\ outcome = "missing" => None \in w.seen

ReplyFits ==
  reply # None /\ backend # "noop" =>
    /\ reply.outcome = "done" =>
         CASE reply.op = "save"   -> reply.version \in reply.seen
           [] reply.op = "delete" -> None \in reply.seen
           [] reply.op = "list"   -> reply.missed = {}
           [] OTHER               -> reply.got \in reply.seen
    /\ reply.outcome = "half" => reply.version \in reply.seen
    /\ reply.outcome = "missing" => None \in reply.seen

WorldFits ==
  /\ objects \in [B!BlobKey -> Version \union {None}]
  /\ side \in [B!BlobKey -> Version \union {None, "torn"}]
  /\ litter \subseteq User
  /\ spent \in [jobs : 0..MaxJobs, breakdowns : 0..MaxBreakdowns]
  /\ \A k \in B!BlobKey : objects[k] \notin TooLarge

BucketsInv == B!TypeOK /\ WorldFits /\ JobsFit /\ ReplyFits

LEMMA BucketsInit == B!BucketsAssumption /\ B!Init => BucketsInv
  <1> SUFFICES ASSUME B!BucketsAssumption, B!Init PROVE BucketsInv
    OBVIOUS
  <1>1. B!TypeOK
    BY DEF B!TypeOK, B!Init, B!BucketsAssumption
  <1>2. WorldFits
    BY <1>1 DEF WorldFits, B!TypeOK, B!Init, B!BucketsAssumption
  <1>3. JobsFit /\ ReplyFits
    BY DEF JobsFit, ReplyFits, B!Init
  <1> QED
    BY <1>1, <1>2, <1>3 DEF BucketsInv

-----------------------------------------------------------------------------

\* A call that has seen one moment more.
LEMMA WatchIs ==
  ASSUME B!BucketsAssumption, NEW j \in B!Job, WorldFits'
  PROVE  LET w == B!Watch(j)
         IN  /\ w \in B!Job /\ w # None
             /\ w.op = j.op /\ w.key = j.key /\ w.version = j.version /\ w.at = j.at
             /\ w.got = j.got /\ w.names = j.names /\ w.cursor = j.cursor
             /\ w.listed = j.listed /\ w.seen = j.seen \union {objects'[j.key]}
             /\ w.stayed = j.stayed \intersect B!Existing(objects')
  <1> DEFINE a == j.seen \union {objects'[j.key]}
             b == j.stayed \intersect B!Existing(objects')
             e == [j EXCEPT !.seen = a]
             w == [e EXCEPT !.stayed = b]
  <1>1. j.key \in B!BlobKey /\ j.seen \subseteq Version \union {None} /\ j.stayed \subseteq B!BlobKey
    BY DEF B!Job
  <1>2. a \in SUBSET (Version \union {None}) /\ b \in SUBSET B!BlobKey
    BY <1>1 DEF WorldFits
  <1>3. j # None
    BY DEF B!BucketsAssumption
  <1>4. B!Watch(j) = w
    BY <1>3 DEF B!Watch, B!Job
  <1> HIDE DEF a, b
  <1>5. /\ e \in B!Job
        /\ e.op = j.op /\ e.key = j.key /\ e.version = j.version /\ e.at = j.at
        /\ e.got = j.got /\ e.names = j.names /\ e.cursor = j.cursor
        /\ e.listed = j.listed /\ e.seen = a /\ e.stayed = j.stayed
    BY <1>2 DEF B!Job
  <1> HIDE DEF e
  <1>6. /\ w \in B!Job
        /\ w.op = e.op /\ w.key = e.key /\ w.version = e.version /\ w.at = e.at
        /\ w.got = e.got /\ w.names = e.names /\ w.cursor = e.cursor
        /\ w.listed = e.listed /\ w.seen = e.seen /\ w.stayed = b
    BY <1>2, <1>5 DEF B!Job
  <1>7. w # None
    BY <1>6 DEF B!BucketsAssumption
  <1> HIDE DEF w
  <1> QED
    BY <1>4, <1>5, <1>6, <1>7 DEF a, b

LEMMA WatchFits ==
  ASSUME B!BucketsAssumption, NEW j \in B!Job, WorldFits', ListFits(j), JobFits(j, objects)
  PROVE  JobFits(B!Watch(j), objects') /\ ListFits(B!Watch(j))
  <1> DEFINE w == B!Watch(j)
  <1>1. /\ w.op = j.op /\ w.key = j.key /\ w.version = j.version /\ w.at = j.at
        /\ w.got = j.got /\ w.names = j.names /\ w.cursor = j.cursor
        /\ w.listed = j.listed /\ w.seen = j.seen \union {objects'[j.key]}
        /\ w.stayed = j.stayed \intersect B!Existing(objects')
    BY WatchIs
  <1> HIDE DEF w
  <1>2. JobFits(w, objects')
    BY <1>1 DEF JobFits
  <1>3. ListFits(w)
    BY <1>1 DEF ListFits
  <1> QED
    BY <1>2, <1>3 DEF w

LEMMA GoKeeps ==
  ASSUME B!BucketsAssumption, BucketsInv, NEW u \in User, NEW j \in B!Job \union {None},
         B!Go(u, j), j # None => JobFits(B!Watch(j), objects') /\ ListFits(B!Watch(j)),
         UNCHANGED backend, WorldFits'
  PROVE  B!TypeOK' /\ JobsFit'
  <1>1. ASSUME NEW v \in User
        PROVE  /\ jobs'[v] \in B!Job \union {None}
               /\ jobs'[v] # None => JobFits(jobs'[v], objects') /\ ListFits(jobs'[v])
    <2> DEFINE d == IF v = u THEN j ELSE jobs[v]
    <2>1. jobs'[v] = B!Watch(d)
      BY DEF B!Go
    <2>2. d \in B!Job \union {None}
      BY DEF BucketsInv, B!TypeOK
    <2>3. CASE d = None
      BY <2>1, <2>3 DEF B!Watch
    <2>4. CASE d # None
      <3>1. B!Watch(d) \in B!Job
        BY <2>2, <2>4, WatchIs
      <3>2. v # u => JobFits(d, objects) /\ ListFits(d)
        BY <2>4 DEF BucketsInv, JobsFit
      <3>3. v # u => JobFits(B!Watch(d), objects') /\ ListFits(B!Watch(d))
        BY <2>2, <2>4, <3>2, WatchFits
      <3>4. v = u => JobFits(B!Watch(d), objects') /\ ListFits(B!Watch(d))
        BY <2>4
      <3> HIDE DEF d
      <3> QED
        BY <2>1, <3>1, <3>3, <3>4
    <2> QED
      BY <2>3, <2>4
  <1>2. jobs' \in [User -> B!Job \union {None}]
    BY <1>1 DEF B!Go
  <1>3. B!TypeOK'
    BY <1>2 DEF BucketsInv, B!TypeOK, WorldFits
  <1>4. JobsFit'
    BY <1>1 DEF JobsFit, ListFits
  <1> QED
    BY <1>3, <1>4

LEMMA StepKeeps ==
  ASSUME B!BucketsAssumption, BucketsInv, NEW u \in User, NEW j \in B!Job,
         B!Step(u, j), JobFits(B!Watch(j), objects'), ListFits(B!Watch(j)),
         UNCHANGED backend, WorldFits'
  PROVE  BucketsInv'
  <1>1. B!Go(u, j) /\ reply' = None
    BY DEF B!Step
  <1>2. B!TypeOK' /\ JobsFit'
    BY <1>1, GoKeeps
  <1> QED
    BY <1>1, <1>2 DEF BucketsInv, ReplyFits

LEMMA EndKeeps ==
  ASSUME B!BucketsAssumption, BucketsInv, NEW u \in User, NEW j \in B!Job, NEW outcome,
         B!End(u, outcome, j), backend # "noop" => Truthful(outcome, B!Watch(j)),
         UNCHANGED backend, WorldFits'
  PROVE  BucketsInv'
  <1> DEFINE w == B!Watch(j)
             r == [outcome |-> outcome, op |-> w.op, version |-> w.version,
                   got |-> w.got, seen |-> w.seen, missed |-> w.stayed \ w.listed]
  <1>1. B!Go(u, None) /\ reply' \in {None, r}
    BY DEF B!End
  <1>2. B!TypeOK' /\ JobsFit'
    BY <1>1, GoKeeps
  <1>3. /\ r.outcome = outcome /\ r.op = w.op /\ r.version = w.version /\ r.got = w.got
        /\ r.seen = w.seen /\ r.missed = w.stayed \ w.listed
    OBVIOUS
  <1> HIDE DEF w, r
  <1>4. ReplyFits'
    <2> SUFFICES ASSUME reply' = r, backend # "noop" PROVE ReplyFits'
      BY <1>1 DEF ReplyFits
    <2>1. Truthful(outcome, w)
      BY DEF w
    <2> QED
      BY <1>3, <2>1 DEF ReplyFits, Truthful
  <1> QED
    BY <1>2, <1>4 DEF BucketsInv

LEMMA StillFits ==
  ASSUME BucketsInv, B!Quiet, B!Fixed
  PROVE  WorldFits' /\ UNCHANGED <<backend, objects>>
  BY DEF BucketsInv, WorldFits, B!Quiet, B!Fixed

LEMMA JobIs ==
  ASSUME BucketsInv, NEW u \in User, jobs[u] # None
  PROVE  jobs[u] \in B!Job /\ JobFits(jobs[u], objects) /\ ListFits(jobs[u])
  BY DEF BucketsInv, B!TypeOK, JobsFit

\* Where a call goes on.
Place == {"begin", "stream", "rename", "cleanup", "attrs", "fill", "open",
          "unlink", "land", "stray", "answer", "walk"}

LEMMA MovedIs ==
  ASSUME NEW j \in B!Job, NEW at \in Place
  PROVE  LET e == [j EXCEPT !.at = at]
         IN  /\ e \in B!Job
             /\ e.op = j.op /\ e.key = j.key /\ e.version = j.version /\ e.at = at
             /\ e.got = j.got /\ e.names = j.names /\ e.cursor = j.cursor
             /\ e.listed = j.listed /\ e.seen = j.seen /\ e.stayed = j.stayed
  BY DEF B!Job, Place

\* An answer that holds goes on to hold.
LEMMA TruthfulStays ==
  ASSUME B!BucketsAssumption, NEW j \in B!Job, WorldFits', NEW outcome, Truthful(outcome, j)
  PROVE  Truthful(outcome, B!Watch(j))
  <1> DEFINE w == B!Watch(j)
  <1>1. /\ w.op = j.op /\ w.version = j.version /\ w.got = j.got /\ w.listed = j.listed
        /\ j.seen \subseteq w.seen /\ w.stayed \subseteq j.stayed
    BY WatchIs
  <1> HIDE DEF w
  <1>2. Truthful(outcome, w)
    BY <1>1 DEF Truthful
  <1> QED
    BY <1>2 DEF w

\* Steps that leave the objects as they are.
LEMMA QuietStep ==
  ASSUME B!BucketsAssumption, BucketsInv, NEW u \in User, NEW j \in B!Job, B!Step(u, j),
         JobFits(j, objects), ListFits(j), UNCHANGED <<backend, objects>>, WorldFits'
  PROVE  BucketsInv'
  BY WatchFits, StepKeeps

LEMMA QuietEnd ==
  ASSUME B!BucketsAssumption, BucketsInv, NEW u \in User, NEW j \in B!Job, NEW outcome,
         B!End(u, outcome, j), backend # "noop" => Truthful(outcome, j),
         UNCHANGED <<backend, objects>>, WorldFits'
  PROVE  BucketsInv'
  BY TruthfulStays, EndKeeps

\* A call that goes on elsewhere.
LEMMA QuietMove ==
  ASSUME B!BucketsAssumption, BucketsInv, NEW u \in User, jobs[u] # None,
         NEW at \in {"stream", "rename", "land", "stray", "cleanup", "fill"},
         B!Step(u, [jobs[u] EXCEPT !.at = at]), UNCHANGED <<backend, objects>>, WorldFits',
         at \in {"rename", "land", "stray", "fill"} /\ jobs[u].op = "save" =>
           jobs[u].version \notin TooLarge,
         at = "fill" => jobs[u].op = "save" /\ jobs[u].version \in jobs[u].seen
  PROVE  BucketsInv'
  <1> DEFINE j == jobs[u]
             e == [j EXCEPT !.at = at]
  <1>1. j \in B!Job /\ JobFits(j, objects) /\ ListFits(j) /\ B!Step(u, e)
    BY JobIs
  <1>2. at \in Place
    BY DEF Place
  <1>3. /\ e \in B!Job
        /\ e.op = j.op /\ e.key = j.key /\ e.version = j.version /\ e.at = at
        /\ e.got = j.got /\ e.names = j.names /\ e.cursor = j.cursor
        /\ e.listed = j.listed /\ e.seen = j.seen /\ e.stayed = j.stayed
    <2> HIDE DEF j
    <2> QED
      BY <1>1, <1>2, MovedIs
  <1> HIDE DEF e
  <1>4. JobFits(e, objects) /\ ListFits(e)
    BY <1>1, <1>3 DEF JobFits, ListFits
  <1> QED
    BY <1>1, <1>3, <1>4, QuietStep

\* Most failures tell nothing.
LEMMA Untold ==
  ASSUME NEW outcome \in {"broken", "rejected", "failed", "noop"}, NEW j
  PROVE  Truthful(outcome, j)
  BY DEF Truthful

LEMMA CallKeeps ==
  ASSUME B!BucketsAssumption, BucketsInv, NEW u \in User,
         NEW op \in {"save", "read", "delete", "exists", "attributes", "list"},
         NEW k \in B!BlobKey, NEW v \in Version, NEW stream \in BOOLEAN,
         B!Call(u, op, k, v, stream)
  PROVE  BucketsInv'
  <1> DEFINE j == [op |-> op, key |-> k, version |-> v, stream |-> stream,
                   at |-> "begin", got |-> None, names |-> {}, cursor |-> 0,
                   listed |-> {}, seen |-> {objects[k]}, stayed |-> B!Existing(objects)]
  <1>1. B!Step(u, j) /\ UNCHANGED <<backend, objects, side, litter>>
          /\ spent' = [spent EXCEPT !.jobs = @ + 1] /\ spent.jobs < MaxJobs
    BY DEF B!Call, B!Quiet
  <1>2. spent' \in [jobs : 0..MaxJobs, breakdowns : 0..MaxBreakdowns]
    BY <1>1 DEF BucketsInv, WorldFits, B!BucketsAssumption
  <1>3. WorldFits'
    BY <1>1, <1>2 DEF BucketsInv, WorldFits
  <1>4. objects[k] \in Version \union {None} /\ B!Existing(objects) \in SUBSET B!BlobKey
          /\ 0 \in 0..NumKeys
    BY DEF BucketsInv, WorldFits, B!Existing, B!BucketsAssumption
  <1>5. /\ j \in B!Job /\ j.op = op /\ j.key = k /\ j.at = "begin" /\ j.cursor = 0
        /\ j.seen = {objects[k]} /\ j.stayed = B!Existing(objects)
    BY <1>4 DEF B!Job
  <1> HIDE DEF j
  <1>6. JobFits(j, objects)
    BY <1>5 DEF JobFits
  <1>7. ListFits(j)
    BY <1>5 DEF ListFits, B!Existing, B!BlobKey, B!BucketsAssumption
  <1> QED
    BY <1>1, <1>3, <1>5, <1>6, <1>7, QuietStep

-----------------------------------------------------------------------------
(* Saves.                                                                  *)

LEMMA SaveBeginsKeeps ==
  ASSUME B!BucketsAssumption, BucketsInv, NEW u \in User, B!SaveBegins(u) PROVE BucketsInv'
  <1> DEFINE j == jobs[u]
             e == [j EXCEPT !.at = "stream"]
  <1>1. /\ j # None /\ B!Quiet /\ B!Fixed
        /\ \/ B!End(u, "rejected", j)
           \/ backend = "noop" /\ B!End(u, "done", j)
           \/ B!Step(u, e)
    BY DEF B!SaveBegins, B!At
  <1>2. j \in B!Job /\ JobFits(j, objects) /\ ListFits(j) /\ WorldFits'
          /\ UNCHANGED <<backend, objects>>
    BY <1>1, JobIs, StillFits
  <1> HIDE DEF j
  <1>3. CASE B!End(u, "rejected", j)
    BY <1>2, <1>3, QuietEnd, Untold
  <1>4. CASE backend = "noop" /\ B!End(u, "done", j)
    BY <1>2, <1>4, QuietEnd
  <1>5. CASE B!Step(u, e)
    BY <1>1, <1>2, <1>5, QuietMove DEF j
  <1> QED
    BY <1>1, <1>3, <1>4, <1>5

\* A version of the right length replaces what the key held.
LEMMA WritesFit ==
  ASSUME BucketsInv, NEW k \in B!BlobKey, NEW v \in Version \union {None},
         v \notin TooLarge, objects' = [objects EXCEPT ![k] = v],
         UNCHANGED <<side, litter, spent>>
  PROVE  WorldFits' /\ objects'[k] = v
  BY DEF BucketsInv, WorldFits

LEMMA BodyEndsKeeps ==
  ASSUME B!BucketsAssumption, BucketsInv, NEW u \in User, B!BodyEnds(u) PROVE BucketsInv'
  <1> DEFINE j == jobs[u]
             to == IF backend = "filesystem" THEN "rename" ELSE "land"
             e == [j EXCEPT !.at = to]
  <1>1. /\ j # None /\ UNCHANGED <<backend, side, litter, spent>> /\ j.op = "save"
        /\ j.at = "stream" /\ j.version \notin TooLarge
        /\ \/ objects' = [objects EXCEPT ![j.key] = j.version] /\ B!End(u, "done", j)
           \/ UNCHANGED objects /\ B!Step(u, e)
    BY DEF B!BodyEnds, B!At, B!Admitted, B!Fixed
  <1>2. j \in B!Job /\ JobFits(j, objects) /\ ListFits(j) /\ j.key \in B!BlobKey
          /\ j.version \in Version
    BY <1>1, JobIs DEF B!Job
  <1> HIDE DEF j
  <1>3. CASE objects' = [objects EXCEPT ![j.key] = j.version] /\ B!End(u, "done", j)
    <2>1. WorldFits' /\ objects'[j.key] = j.version
      BY <1>1, <1>2, <1>3, WritesFit
    <2>2. LET w == B!Watch(j) IN w.op = j.op /\ w.version = j.version /\ j.version \in w.seen
      BY <1>2, <2>1, WatchIs
    <2>3. Truthful("done", B!Watch(j))
      BY <1>1, <2>2 DEF Truthful
    <2> QED
      BY <1>1, <1>2, <1>3, <2>1, <2>3, EndKeeps
  <1>4. CASE UNCHANGED objects /\ B!Step(u, e)
    <2>1. WorldFits'
      BY <1>1, <1>4 DEF BucketsInv, WorldFits
    <2> QED
      BY <1>1, <1>4, <2>1, QuietMove DEF j
  <1> QED
    BY <1>1, <1>3, <1>4

LEMMA BodyFailsKeeps ==
  ASSUME B!BucketsAssumption, BucketsInv, NEW u \in User, B!BodyFails(u) PROVE BucketsInv'
  <1> DEFINE j == jobs[u]
             e == [j EXCEPT !.at = "cleanup"]
  <1>1. /\ j # None /\ B!Quiet /\ B!Fixed /\ j.at = "stream"
        /\ B!Step(u, e) \/ B!End(u, "rejected", j)
    BY DEF B!BodyFails, B!At
  <1>2. j \in B!Job /\ JobFits(j, objects) /\ ListFits(j) /\ WorldFits'
          /\ UNCHANGED <<backend, objects>>
    BY <1>1, JobIs, StillFits
  <1> HIDE DEF j
  <1>3. CASE B!End(u, "rejected", j)
    BY <1>2, <1>3, QuietEnd, Untold
  <1>4. CASE B!Step(u, e)
    BY <1>1, <1>2, <1>4, QuietMove DEF j
  <1> QED
    BY <1>1, <1>3, <1>4

\* A call that has written v to its key, and goes on to at.
LEMMA WrittenFits ==
  ASSUME B!BucketsAssumption, BucketsInv, NEW u \in User, jobs[u] # None,
         NEW v \in Version \union {None}, v \notin TooLarge,
         objects' = [objects EXCEPT ![jobs[u].key] = v], UNCHANGED <<backend, side, litter, spent>>,
         NEW at \in {"attrs", "answer", "unlink"},
         at = "attrs" => jobs[u].op = "save" /\ v = jobs[u].version,
         at = "answer" => \/ jobs[u].op = "save" /\ v = jobs[u].version
                          \/ jobs[u].op = "delete" /\ v = None,
         at = "unlink" => jobs[u].op = "delete" /\ v = None,
         B!Step(u, [jobs[u] EXCEPT !.at = at])
  PROVE  BucketsInv'
  <1> DEFINE j == jobs[u]
             e == [j EXCEPT !.at = at]
             w == B!Watch(e)
  <1>1. j \in B!Job /\ JobFits(j, objects) /\ ListFits(j) /\ j.key \in B!BlobKey
    BY JobIs DEF B!Job
  <1> HIDE DEF j
  <1>2. /\ e \in B!Job
        /\ e.op = j.op /\ e.key = j.key /\ e.version = j.version /\ e.at = at
        /\ e.got = j.got /\ e.names = j.names /\ e.cursor = j.cursor
        /\ e.listed = j.listed /\ e.seen = j.seen /\ e.stayed = j.stayed
    <2>1. at \in Place
      BY DEF Place
    <2> QED
      BY <1>1, <2>1, MovedIs
  <1>3. B!Step(u, e)
    BY DEF j
  <1> HIDE DEF e
  <1>4. WorldFits' /\ objects'[j.key] = v
    BY <1>1, WritesFit DEF j
  <1>5. /\ w \in B!Job /\ w # None
        /\ w.op = e.op /\ w.key = e.key /\ w.version = e.version /\ w.at = e.at
        /\ w.got = e.got /\ w.names = e.names /\ w.cursor = e.cursor
        /\ w.listed = e.listed /\ w.seen = e.seen \union {objects'[e.key]}
        /\ w.stayed = e.stayed \intersect B!Existing(objects')
    BY <1>2, <1>4, WatchIs
  <1> HIDE DEF w
  <1>6. JobFits(w, objects')
    BY <1>2, <1>4, <1>5 DEF JobFits, j
  <1>7. ListFits(w)
    BY <1>1, <1>2, <1>5 DEF ListFits
  <1> QED
    BY <1>2, <1>3, <1>4, <1>6, <1>7, StepKeeps DEF w

LEMMA RenameKeeps ==
  ASSUME B!BucketsAssumption, BucketsInv, NEW u \in User, B!Rename(u) PROVE BucketsInv'
  <1> DEFINE j == jobs[u]
             e == [j EXCEPT !.at = "cleanup"]
  <1>1. /\ j # None /\ UNCHANGED <<backend, side, litter, spent>> /\ j.op = "save"
        /\ j.at = "rename"
        /\ \/ /\ objects' = [objects EXCEPT ![j.key] = j.version]
              /\ B!Step(u, [j EXCEPT !.at = "attrs"])
           \/ UNCHANGED objects /\ B!Step(u, e)
    BY DEF B!Rename, B!At, B!Fixed
  <1>2. j \in B!Job /\ JobFits(j, objects) /\ ListFits(j) /\ j.version \in Version
    BY <1>1, JobIs DEF B!Job
  <1>3. CASE /\ objects' = [objects EXCEPT ![j.key] = j.version]
             /\ B!Step(u, [j EXCEPT !.at = "attrs"])
    <2>1. j.version \notin TooLarge
      BY <1>1, <1>2 DEF JobFits
    <2> QED
      BY <1>1, <1>2, <1>3, <2>1, WrittenFits
  <1>4. CASE UNCHANGED objects /\ B!Step(u, e)
    <2>1. WorldFits'
      BY <1>1, <1>4 DEF BucketsInv, WorldFits
    <2> QED
      BY <1>1, <1>4, <2>1, QuietMove
  <1> QED
    BY <1>1, <1>3, <1>4

\* The attributes change, or one call ends, and the objects stay.
LEMMA AttrsKeep ==
  ASSUME B!BucketsAssumption, BucketsInv, NEW u \in User, B!SaveAttrs(u) \/ B!FillAttrs(u)
  PROVE  BucketsInv'
  <1> DEFINE j == jobs[u]
             e == [j EXCEPT !.at = "fill"]
  <1>1. j # None /\ j.op = "save" /\ j.at \in {"attrs", "fill"}
    BY DEF B!SaveAttrs, B!FillAttrs, B!At
  <1>2. j \in B!Job /\ JobFits(j, objects) /\ ListFits(j) /\ j.key \in B!BlobKey
          /\ j.version \in Version
    BY <1>1, JobIs DEF B!Job
  <1>3. UNCHANGED <<backend, objects, litter, spent>>
    BY DEF B!SaveAttrs, B!FillAttrs, B!Fixed
  <1>4. \/ \E v \in Version \union {None, "torn"} : side' = [side EXCEPT ![j.key] = v]
        \/ side' = side
    BY <1>2 DEF B!SaveAttrs, B!FillAttrs
  <1>5. WorldFits'
    <2>1. side' \in [B!BlobKey -> Version \union {None, "torn"}]
      BY <1>2, <1>4 DEF BucketsInv, WorldFits
    <2> QED
      BY <1>3, <2>1 DEF BucketsInv, WorldFits
  <1>6. B!Step(u, e) \/ B!End(u, "done", j) \/ B!End(u, "half", j)
    BY DEF B!SaveAttrs, B!FillAttrs
  <1> HIDE DEF j
  <1>7. j.version \in j.seen /\ j.version \notin TooLarge
    BY <1>1, <1>2 DEF JobFits
  <1>8. CASE B!Step(u, e)
    BY <1>1, <1>3, <1>5, <1>7, <1>8, QuietMove DEF j
  <1>9. ASSUME NEW outcome \in {"done", "half"}, B!End(u, outcome, j) PROVE BucketsInv'
    <2>1. Truthful(outcome, j)
      BY <1>1, <1>7 DEF Truthful
    <2> QED
      BY <1>2, <1>3, <1>5, <1>9, <2>1, QuietEnd
  <1> QED
    BY <1>6, <1>8, <1>9

-----------------------------------------------------------------------------
(* Puts and deletions of the services, reads and deletions.                *)

LEMMA LandsKeep ==
  ASSUME B!BucketsAssumption, BucketsInv, NEW u \in User,
         NEW op \in {"save", "delete"}, NEW version, B!Lands(u, op, version),
         op = "save" => version = jobs[u].version, op = "delete" => version = None
  PROVE  BucketsInv'
  <1> DEFINE j == jobs[u]
  <1>1. /\ j # None /\ j.op = op /\ j.at \in {"land", "stray"}
        /\ UNCHANGED <<backend, side, litter, spent>>
        /\ \/ /\ objects' = [objects EXCEPT ![j.key] = version]
              /\ B!Step(u, [j EXCEPT !.at = "answer"]) \/ B!End(u, "failed", j)
           \/ UNCHANGED objects /\ B!End(u, "failed", j)
           \/ UNCHANGED objects /\ B!Step(u, [j EXCEPT !.at = "stray"])
    BY DEF B!Lands, B!At, B!Fixed
  <1>2. j \in B!Job /\ JobFits(j, objects) /\ j.version \in Version
    BY <1>1, JobIs DEF B!Job
  <1>3. version \in Version \union {None} /\ version \notin TooLarge
    BY <1>1, <1>2 DEF JobFits, B!BucketsAssumption
  <1>4. CASE /\ objects' = [objects EXCEPT ![j.key] = version]
             /\ B!Step(u, [j EXCEPT !.at = "answer"])
    BY <1>1, <1>3, <1>4, WrittenFits
  <1>5. CASE UNCHANGED objects /\ B!End(u, "failed", j)
    <2>1. WorldFits'
      BY <1>1, <1>5 DEF BucketsInv, WorldFits
    <2> HIDE DEF j
    <2> QED
      BY <1>1, <1>2, <1>5, <2>1, QuietEnd, Untold
  <1>6. CASE objects' = [objects EXCEPT ![j.key] = version] /\ B!End(u, "failed", j)
    <2>1. j.key \in B!BlobKey
      BY <1>2 DEF B!Job
    <2>2. WorldFits'
      BY <1>1, <1>3, <1>6, <2>1 DEF BucketsInv, WorldFits
    <2>3. Truthful("failed", B!Watch(j))
      BY Untold
    <2> HIDE DEF j
    <2> QED
      BY <1>1, <1>2, <1>6, <2>2, <2>3, EndKeeps
  <1>7. CASE UNCHANGED objects /\ B!Step(u, [j EXCEPT !.at = "stray"])
    <2>1. WorldFits'
      BY <1>1, <1>7 DEF BucketsInv, WorldFits
    <2>2. j.op = "save" => j.version \notin TooLarge
      BY <1>1, <1>2 DEF JobFits
    <2> QED
      BY <1>1, <1>7, <2>1, <2>2, QuietMove
  <1> QED
    BY <1>1, <1>4, <1>5, <1>6, <1>7

\* A call that ends, and leaves everything as it is.
LEMMA QuietlyEnds ==
  ASSUME B!BucketsAssumption, BucketsInv, NEW u \in User, jobs[u] # None, NEW outcome,
         B!Quiet, B!Fixed, B!End(u, outcome, jobs[u]),
         outcome \in {"broken", "rejected", "failed", "noop"} \/ Truthful(outcome, jobs[u])
  PROVE  BucketsInv'
  <1> DEFINE j == jobs[u]
  <1>1. j \in B!Job /\ WorldFits' /\ UNCHANGED <<backend, objects>> /\ B!End(u, outcome, j)
    BY JobIs, StillFits
  <1>2. Truthful(outcome, j)
    BY Untold
  <1> HIDE DEF j
  <1> QED
    BY <1>1, <1>2, QuietEnd

LEMMA EndingsKeep ==
  ASSUME B!BucketsAssumption, BucketsInv, NEW u \in User,
         B!Broken(u) \/ B!Cleanup(u) \/ B!NoopCall(u)
  PROVE  BucketsInv'
  <1>1. jobs[u] # None /\ B!Quiet /\ B!Fixed
    BY DEF B!Broken, B!Cleanup, B!NoopCall, B!At
  <1>2. \E outcome \in {"broken", "rejected", "failed", "noop"} : B!End(u, outcome, jobs[u])
    BY DEF B!Broken, B!Cleanup, B!NoopCall
  <1> QED
    BY <1>1, <1>2, QuietlyEnds

LEMMA AnsweredKeeps ==
  ASSUME B!BucketsAssumption, BucketsInv, NEW u \in User, B!Answered(u) PROVE BucketsInv'
  <1>1. jobs[u] # None /\ jobs[u].at = "answer" /\ B!Quiet /\ B!Fixed
    BY DEF B!Answered
  <1>2. PICK outcome \in {"done", "failed"} : B!End(u, outcome, jobs[u])
    BY DEF B!Answered
  <1>3. Truthful("done", jobs[u])
    BY <1>1, JobIs DEF Truthful, JobFits
  <1> QED
    BY <1>1, <1>2, <1>3, QuietlyEnds

LEMMA LooksKeep ==
  ASSUME B!BucketsAssumption, BucketsInv, NEW u \in User, NEW goesOn \in BOOLEAN,
         jobs[u] # None, jobs[u].op \in {"read", "exists", "attributes"},
         goesOn => jobs[u].op \in {"read", "attributes"}, jobs[u].at = "begin",
         B!Looks(u, goesOn)
  PROVE  BucketsInv'
  <1> DEFINE j == jobs[u]
             v == objects[j.key]
             e == [j EXCEPT !.got = v]
             d == [e EXCEPT !.at = "open"]
  <1>1. /\ B!Quiet /\ B!Fixed
        /\ \/ v = None /\ B!End(u, "missing", e)
           \/ goesOn /\ B!Step(u, d)
           \/ B!End(u, "done", e)
    BY DEF B!Looks
  <1>2. j \in B!Job /\ JobFits(j, objects) /\ ListFits(j) /\ WorldFits' /\ WorldFits
          /\ UNCHANGED <<backend, objects>>
    BY <1>1, JobIs, StillFits DEF BucketsInv
  <1>3. v \in Version \union {None} /\ v \in j.seen
    BY <1>2 DEF WorldFits, JobFits, B!Job
  <1> HIDE DEF v
  <1>4. /\ e \in B!Job /\ e.op = j.op /\ e.key = j.key /\ e.version = j.version
        /\ e.at = j.at /\ e.got = v /\ e.names = j.names /\ e.cursor = j.cursor
        /\ e.listed = j.listed /\ e.seen = j.seen /\ e.stayed = j.stayed
    BY <1>2, <1>3 DEF B!Job
  <1> HIDE DEF e
  <1>5. v = None => Truthful("missing", e)
    BY <1>3, <1>4 DEF Truthful
  <1>6. Truthful("done", e)
    BY <1>3, <1>4 DEF Truthful
  <1>7. CASE goesOn /\ B!Step(u, d)
    <2>1. /\ d \in B!Job /\ d.op = e.op /\ d.key = e.key /\ d.version = e.version
          /\ d.at = "open" /\ d.got = e.got /\ d.names = e.names /\ d.cursor = e.cursor
          /\ d.listed = e.listed /\ d.seen = e.seen /\ d.stayed = e.stayed
      <3>1. "open" \in Place
        BY DEF Place
      <3> QED
        BY <1>4, <3>1, MovedIs
    <2> HIDE DEF d
    <2>2. JobFits(d, objects) /\ ListFits(d)
      BY <1>2, <1>3, <1>4, <1>7, <2>1 DEF JobFits, ListFits
    <2> QED
      BY <1>2, <1>7, <2>1, <2>2, QuietStep
  <1>8. CASE v = None /\ B!End(u, "missing", e)
    BY <1>2, <1>4, <1>5, <1>8, QuietEnd
  <1>9. CASE B!End(u, "done", e)
    BY <1>2, <1>4, <1>6, <1>9, QuietEnd
  <1> QED
    BY <1>1, <1>7, <1>8, <1>9

LEMMA ReadsKeep ==
  ASSUME B!BucketsAssumption, BucketsInv, NEW u \in User,
         \/ B!MemoryReads(u) \/ B!S3Opens(u) \/ B!S3Heads(u) \/ B!GcsOpens(u)
         \/ B!GcsHeads(u) \/ B!FileStat(u) \/ B!FileExists(u) \/ B!FileAttributes(u)
  PROVE  BucketsInv'
  <1>1. jobs[u] # None /\ jobs[u].at = "begin"
          /\ jobs[u].op \in {"read", "exists", "attributes"}
    BY DEF B!MemoryReads, B!S3Opens, B!S3Heads, B!GcsOpens, B!GcsHeads, B!FileStat,
           B!FileExists, B!FileAttributes, B!Asks, B!At
  <1>2. \/ B!ServiceFails(u) \/ B!Looks(u, FALSE)
        \/ B!Looks(u, TRUE) /\ jobs[u].op \in {"read", "attributes"}
    BY DEF B!MemoryReads, B!S3Opens, B!S3Heads, B!GcsOpens, B!GcsHeads, B!FileStat,
           B!FileExists, B!FileAttributes, B!Asks, B!At
  <1>3. CASE B!ServiceFails(u)
    BY <1>1, <1>3, QuietlyEnds DEF B!ServiceFails
  <1> QED
    BY <1>1, <1>2, <1>3, LooksKeep

LEMMA OpenStreamKeeps ==
  ASSUME B!BucketsAssumption, BucketsInv, NEW u \in User, B!OpenStream(u) PROVE BucketsInv'
  <1> DEFINE j == jobs[u]
             v == objects[j.key]
             e == [j EXCEPT !.got = v]
  <1>1. /\ B!Quiet /\ B!Fixed /\ j # None /\ j.op = "read"
        /\ B!End(u, "failed", e) \/ B!End(u, "done", e)
    BY DEF B!OpenStream, B!At
  <1>2. j \in B!Job /\ JobFits(j, objects) /\ WorldFits' /\ WorldFits
          /\ UNCHANGED <<backend, objects>>
    BY <1>1, JobIs, StillFits DEF BucketsInv
  <1>3. v \in Version \union {None} /\ v \in j.seen
    BY <1>2 DEF WorldFits, JobFits, B!Job
  <1> HIDE DEF v
  <1>4. e \in B!Job /\ e.op = j.op /\ e.got = v /\ e.seen = j.seen
    BY <1>2, <1>3 DEF B!Job
  <1> HIDE DEF e, j
  <1>5. Truthful("done", e) /\ Truthful("failed", e)
    BY <1>1, <1>3, <1>4 DEF Truthful
  <1> QED
    BY <1>1, <1>2, <1>4, <1>5, QuietEnd

LEMMA ReadSidecarKeeps ==
  ASSUME B!BucketsAssumption, BucketsInv, NEW u \in User, B!ReadSidecar(u) PROVE BucketsInv'
  <1>1. /\ jobs[u] # None /\ jobs[u].op = "attributes" /\ jobs[u].at = "open"
        /\ B!Quiet /\ B!Fixed
        /\ B!End(u, "failed", jobs[u]) \/ B!End(u, "done", jobs[u])
    BY DEF B!ReadSidecar, B!At
  <1>2. Truthful("done", jobs[u])
    BY <1>1, JobIs DEF Truthful, JobFits
  <1> QED
    BY <1>1, <1>2, QuietlyEnds

LEMMA DeleteBeginsKeeps ==
  ASSUME B!BucketsAssumption, BucketsInv, NEW u \in User, B!DeleteBegins(u) PROVE BucketsInv'
  <1> DEFINE j == jobs[u]
  <1>1. /\ j # None /\ j.op = "delete" /\ j.at = "begin"
        /\ UNCHANGED <<backend, side, litter, spent>>
        /\ \/ UNCHANGED objects /\ B!Step(u, [j EXCEPT !.at = "land"])
           \/ /\ objects' = [objects EXCEPT ![j.key] = None]
              /\ B!Step(u, [j EXCEPT !.at = "unlink"]) \/ B!End(u, "done", j)
    BY DEF B!DeleteBegins, B!At, B!Fixed
  <1>2. j \in B!Job /\ None \in Version \union {None} /\ None \notin TooLarge
          /\ j.key \in B!BlobKey
    BY <1>1, JobIs DEF B!BucketsAssumption, B!Job
  <1>3. CASE UNCHANGED objects /\ B!Step(u, [j EXCEPT !.at = "land"])
    <2>1. WorldFits'
      BY <1>1, <1>3 DEF BucketsInv, WorldFits
    <2> QED
      BY <1>1, <1>3, <2>1, QuietMove
  <1>4. CASE /\ objects' = [objects EXCEPT ![j.key] = None]
             /\ B!Step(u, [j EXCEPT !.at = "unlink"])
    BY <1>1, <1>2, <1>4, WrittenFits
  <1>5. CASE objects' = [objects EXCEPT ![j.key] = None] /\ B!End(u, "done", j)
    <2> HIDE DEF j
    <2>1. WorldFits' /\ objects'[j.key] = None
      BY <1>1, <1>2, <1>5, WritesFit
    <2>2. LET w == B!Watch(j) IN w.op = j.op /\ None \in w.seen
      BY <1>2, <2>1, WatchIs
    <2>3. Truthful("done", B!Watch(j))
      BY <1>1, <2>2 DEF Truthful
    <2> QED
      BY <1>1, <1>2, <1>5, <2>1, <2>3, EndKeeps
  <1> QED
    BY <1>1, <1>3, <1>4, <1>5

LEMMA UnlinkKeeps ==
  ASSUME B!BucketsAssumption, BucketsInv, NEW u \in User, B!Unlink(u) PROVE BucketsInv'
  <1> DEFINE j == jobs[u]
  <1>1. /\ j # None /\ j.op = "delete" /\ j.at = "unlink" /\ B!End(u, "done", j)
        /\ UNCHANGED <<backend, objects, litter, spent>>
        /\ side' = [side EXCEPT ![j.key] = None]
    BY DEF B!Unlink, B!At, B!Fixed
  <1>2. j \in B!Job /\ JobFits(j, objects)
    BY <1>1, JobIs
  <1>3. WorldFits'
    BY <1>1 DEF BucketsInv, WorldFits
  <1> HIDE DEF j
  <1>4. Truthful("done", j)
    BY <1>1, <1>2 DEF Truthful, JobFits
  <1> QED
    BY <1>1, <1>2, <1>3, <1>4, QuietEnd

-----------------------------------------------------------------------------
(* Listings.                                                               *)

\* A page has a last key.
LEMMA LastOf ==
  ASSUME B!BucketsAssumption, NEW page \in SUBSET B!BlobKey, page # {}
  PROVE  \E k \in page : \A l \in page : l <= k
  <1> DEFINE left == {NumKeys - k : k \in page}
  <1>1. left \subseteq Nat /\ left # {}
    <2>1. \A k \in page : NumKeys - k \in Nat
      BY DEF B!BlobKey, B!BucketsAssumption
    <2> QED
      BY <2>1
  <1>2. PICK d \in left : \A e \in left : ~ (<<e, d>> \in OpToRel(<, Nat))
    <2> HIDE DEF left
    <2> QED
      BY <1>1, NatLessThanWellFounded, WFMin
  <1>3. PICK k \in page : d = NumKeys - k
    OBVIOUS
  <1>4. ASSUME NEW l \in page PROVE l <= k
    <2>1. NumKeys - l \in Nat /\ NumKeys - k \in Nat /\ ~ (NumKeys - l < NumKeys - k)
      BY <1>1, <1>2, <1>3 DEF OpToRel
    <2> QED
      BY <2>1 DEF B!BlobKey, B!BucketsAssumption
  <1> QED
    BY <1>4

\* A call that lists, and steps on with other names, keys yielded and cursor.
LEMMA ListedOn ==
  ASSUME B!BucketsAssumption, BucketsInv, NEW u \in User, jobs[u] # None, jobs[u].op = "list",
         B!Quiet, B!Fixed, NEW e \in B!Job, B!Step(u, e), e.op = "list", e.at = "walk",
         e.key = jobs[u].key, e.seen = jobs[u].seen, e.stayed = jobs[u].stayed, ListFits(e)
  PROVE  BucketsInv'
  <1>1. JobFits(jobs[u], objects) /\ WorldFits' /\ UNCHANGED <<backend, objects>>
    BY JobIs, StillFits
  <1>2. JobFits(e, objects)
    BY <1>1 DEF JobFits
  <1> QED
    BY <1>1, <1>2, QuietStep

LEMMA ReadDirKeeps ==
  ASSUME B!BucketsAssumption, BucketsInv, NEW u \in User, B!ReadDir(u) PROVE BucketsInv'
  <1> DEFINE j == jobs[u]
             d == [j EXCEPT !.names = B!Names]
             e == [d EXCEPT !.at = "walk"]
  <1>1. /\ backend = "filesystem" /\ j # None /\ j.op = "list" /\ B!Quiet /\ B!Fixed
        /\ B!Step(u, [j EXCEPT !.at = "walk", !.names = B!Names])
    BY DEF B!ReadDir, B!At
  <1>2. j \in B!Job /\ JobFits(j, objects)
    BY <1>1, JobIs
  <1>3. B!Names \in SUBSET ({"key", "temp", "left"} \X (B!BlobKey \union User))
    BY DEF B!Names, B!Existing, B!Writing, BucketsInv, WorldFits
  <1>4. /\ d \in B!Job /\ d.op = "list" /\ d.key = j.key /\ d.seen = j.seen
        /\ d.stayed = j.stayed /\ d.listed = j.listed /\ d.names = B!Names
    BY <1>1, <1>2, <1>3 DEF B!Job
  <1>5. /\ e \in B!Job /\ e.op = "list" /\ e.key = j.key /\ e.seen = j.seen
        /\ e.at = "walk" /\ e.stayed = j.stayed /\ e.listed = j.listed /\ e.names = B!Names
    <2> HIDE DEF d
    <2> QED
      BY <1>4 DEF B!Job
  <1>6. B!Step(u, e)
    <2>1. e = [j EXCEPT !.at = "walk", !.names = B!Names]
      BY <1>2 DEF B!Job
    <2> QED
      BY <1>1, <2>1
  <1> HIDE DEF e
  <1>7. ListFits(e)
    BY <1>1, <1>2, <1>5 DEF ListFits, JobFits, B!Names, B!Services
  <1> QED
    BY <1>1, <1>5, <1>6, <1>7, ListedOn

LEMMA WalkKeeps ==
  ASSUME B!BucketsAssumption, BucketsInv, NEW u \in User, B!Walk(u) PROVE BucketsInv'
  <1> DEFINE j == jobs[u]
  <1>1. /\ backend = "filesystem" /\ j # None /\ j.op = "list" /\ j.at = "walk"
        /\ B!Quiet /\ B!Fixed
        /\ \/ j.names = {} /\ B!End(u, "done", j)
           \/ \E n \in j.names :
                \/ B!End(u, "failed", j)
                \/ B!Step(u, [j EXCEPT
                        !.names = @ \ {n},
                        !.listed = IF n[1] = "key" THEN @ \union {n[2]} ELSE @])
                   /\ n \in B!Names
    BY DEF B!Walk, B!At
  <1>2. j \in B!Job /\ JobFits(j, objects) /\ ListFits(j)
    BY <1>1, JobIs
  <1>3. CASE j.names = {} /\ B!End(u, "done", j)
    <2>1. Truthful("done", j)
      BY <1>1, <1>2, <1>3 DEF Truthful, ListFits
    <2> QED
      BY <1>1, <1>3, <2>1, QuietlyEnds
  <1>4. CASE B!End(u, "failed", j)
    BY <1>1, <1>4, QuietlyEnds
  <1>5. ASSUME NEW n \in j.names, n \in B!Names,
               B!Step(u, [j EXCEPT
                            !.names = @ \ {n},
                            !.listed = IF n[1] = "key" THEN @ \union {n[2]} ELSE @])
        PROVE  BucketsInv'
    <2> DEFINE a == j.names \ {n}
               b == IF n[1] = "key" THEN j.listed \union {n[2]} ELSE j.listed
               d == [j EXCEPT !.names = a]
               e == [d EXCEPT !.listed = b]
    <2>1. n[1] = "key" => n[2] \in B!BlobKey
      BY <1>5 DEF B!Names, B!Existing
    <2>2. /\ a \in SUBSET ({"key", "temp", "left"} \X (B!BlobKey \union User))
          /\ b \in SUBSET B!BlobKey
      BY <1>2, <2>1 DEF B!Job
    <2>3. B!Step(u, e)
      <3>1. e = [j EXCEPT !.names = @ \ {n},
                          !.listed = IF n[1] = "key" THEN @ \union {n[2]} ELSE @]
        BY <1>2 DEF B!Job
      <3> QED
        BY <1>5, <3>1
    <2>4. \A k : <<"key", k>> \in j.names => <<"key", k>> \in a \/ k \in b
      OBVIOUS
    <2>5. j.listed \subseteq b
      OBVIOUS
    <2> HIDE DEF a, b
    <2>6. /\ d \in B!Job /\ d.op = "list" /\ d.key = j.key /\ d.seen = j.seen
          /\ d.at = "walk" /\ d.stayed = j.stayed /\ d.names = a
      BY <1>1, <1>2, <2>2 DEF B!Job
    <2> HIDE DEF d
    <2>7. /\ e \in B!Job /\ e.op = "list" /\ e.key = j.key /\ e.seen = j.seen
          /\ e.at = "walk" /\ e.stayed = j.stayed /\ e.names = a /\ e.listed = b
      BY <2>2, <2>6 DEF B!Job
    <2> HIDE DEF e
    <2>8. ListFits(e)
      BY <1>1, <1>2, <2>4, <2>5, <2>7 DEF ListFits, B!Services
    <2> QED
      BY <1>1, <2>3, <2>7, <2>8, ListedOn
  <1> QED
    BY <1>1, <1>3, <1>4, <1>5

LEMMA NextPageKeeps ==
  ASSUME B!BucketsAssumption, BucketsInv, NEW u \in User, NEW b \in B!Services,
         B!NextPage(u, b)
  PROVE  BucketsInv'
  <1> DEFINE j    == jobs[u]
             left == B!Beyond(j.cursor)
             last(page) == CHOOSE k \in page : \A l \in page : l <= k
             next(page) == [j EXCEPT !.at = "walk", !.listed = @ \union page,
                                     !.cursor = last(page)]
  <1>1. /\ backend \in B!Services /\ j # None /\ j.op = "list" /\ B!Quiet /\ B!Fixed
        /\ \/ B!End(u, "failed", j)
           \/ left = {} /\ B!End(u, "done", j)
           \/ \E page \in SUBSET left :
                /\ page # {} /\ \A k \in left \ page, l \in page : l < k
                /\ B!Step(u, next(page))
    BY DEF B!NextPage
  <1>2. j \in B!Job /\ JobFits(j, objects) /\ ListFits(j) /\ j.cursor \in 0..NumKeys
          /\ j.stayed \subseteq B!BlobKey /\ j.listed \subseteq B!BlobKey /\ NumKeys \in Nat
    BY <1>1, JobIs DEF B!Job, B!BucketsAssumption
  <1>3. left \subseteq B!BlobKey /\ \A k \in j.stayed : k \in left \/ k <= j.cursor
    BY <1>2 DEF B!Beyond, B!Existing, JobFits, B!BlobKey
  <1>4. CASE B!End(u, "failed", j)
    BY <1>1, <1>4, QuietlyEnds
  <1>5. CASE left = {} /\ B!End(u, "done", j)
    <2>1. Truthful("done", j)
      BY <1>1, <1>2, <1>3, <1>5 DEF Truthful, ListFits
    <2> QED
      BY <1>1, <1>5, <2>1, QuietlyEnds
  <1>6. ASSUME NEW page \in SUBSET left, page # {},
               \A k \in left \ page, l \in page : l < k, B!Step(u, next(page))
        PROVE  BucketsInv'
    <2> DEFINE c == last(page)
               f == j.listed \union page
               d == [j EXCEPT !.listed = f]
               h == [d EXCEPT !.cursor = c]
               e == [h EXCEPT !.at = "walk"]
    <2>1. c \in page /\ \A l \in page : l <= c
      BY <1>3, <1>6, LastOf
    <2>2. B!Step(u, e)
      <3>1. e = next(page)
        <4> HIDE DEF last
        <4> QED
          BY <1>2 DEF B!Job
      <3> QED
        BY <1>6, <3>1
    <2> HIDE DEF c, left
    <2>3. c \in 0..NumKeys /\ f \in SUBSET B!BlobKey
      <3>1. page \subseteq B!BlobKey
        BY <1>3
      <3>2. f \in SUBSET B!BlobKey
        BY <1>2, <3>1
      <3>3. c \in B!BlobKey
        BY <2>1, <3>1
      <3> QED
        BY <1>2, <3>2, <3>3 DEF B!BlobKey
    <2>4. \A k \in j.stayed : k <= c => k \in f
      <3> SUFFICES ASSUME NEW k \in j.stayed, k <= c, k \notin j.listed PROVE k \in page
        OBVIOUS
      <3>1. k \in left
        BY <1>1, <1>2, <1>3 DEF ListFits
      <3>2. k \notin page => c < k
        BY <1>6, <2>1, <3>1
      <3>3. k \in Nat /\ c \in Nat
        BY <1>2, <2>3 DEF B!BlobKey
      <3> QED
        BY <3>2, <3>3
    <2> HIDE DEF f
    <2>5. /\ d \in B!Job /\ d.op = "list" /\ d.key = j.key /\ d.seen = j.seen
          /\ d.stayed = j.stayed /\ d.listed = f
      BY <1>1, <1>2, <2>3 DEF B!Job
    <2> HIDE DEF d
    <2>6. /\ h \in B!Job /\ h.op = "list" /\ h.key = j.key /\ h.seen = j.seen
          /\ h.stayed = j.stayed /\ h.listed = f /\ h.cursor = c
      BY <2>3, <2>5 DEF B!Job
    <2> HIDE DEF h
    <2>7. /\ e \in B!Job /\ e.op = "list" /\ e.key = j.key /\ e.seen = j.seen
          /\ e.stayed = j.stayed /\ e.listed = f /\ e.cursor = c /\ e.at = "walk"
      BY <2>6 DEF B!Job
    <2> HIDE DEF e
    <2>8. ListFits(e)
      BY <1>1, <2>4, <2>7 DEF ListFits, B!Services
    <2> QED
      BY <1>1, <2>2, <2>7, <2>8, ListedOn
  <1> QED
    BY <1>1, <1>4, <1>5, <1>6

LEMMA NextEntryKeeps ==
  ASSUME B!BucketsAssumption, BucketsInv, NEW u \in User, B!NextEntry(u) PROVE BucketsInv'
  <1> DEFINE j == jobs[u]
             left == B!Existing(objects) \ j.listed
  <1>1. /\ backend = "memory" /\ j # None /\ j.op = "list" /\ B!Quiet /\ B!Fixed
        /\ \/ left = {} /\ B!End(u, "done", j)
           \/ \E k \in left :
                B!Step(u, [j EXCEPT !.at = "walk", !.listed = @ \union {k}])
    BY DEF B!NextEntry
  <1>2. j \in B!Job /\ JobFits(j, objects) /\ j.listed \subseteq B!BlobKey
    BY <1>1, JobIs DEF B!Job
  <1>3. CASE left = {} /\ B!End(u, "done", j)
    <2>1. Truthful("done", j)
      BY <1>1, <1>2, <1>3 DEF Truthful, JobFits
    <2> QED
      BY <1>1, <1>3, <2>1, QuietlyEnds
  <1>4. ASSUME NEW k \in left, B!Step(u, [j EXCEPT !.at = "walk", !.listed = @ \union {k}])
        PROVE  BucketsInv'
    <2> DEFINE f == j.listed \union {k}
               d == [j EXCEPT !.listed = f]
               e == [d EXCEPT !.at = "walk"]
    <2>1. f \in SUBSET B!BlobKey
      BY <1>2 DEF B!Existing
    <2>2. B!Step(u, e)
      <3>1. e = [j EXCEPT !.at = "walk", !.listed = @ \union {k}]
        BY <1>2 DEF B!Job
      <3> QED
        BY <1>4, <3>1
    <2> HIDE DEF f
    <2>3. d \in B!Job /\ d.op = "list" /\ d.key = j.key /\ d.seen = j.seen /\ d.stayed = j.stayed
      BY <1>1, <1>2, <2>1 DEF B!Job
    <2> HIDE DEF d
    <2>4. /\ e \in B!Job /\ e.op = "list" /\ e.key = j.key /\ e.seen = j.seen
          /\ e.stayed = j.stayed /\ e.at = "walk"
      BY <2>3 DEF B!Job
    <2> HIDE DEF e
    <2>5. ListFits(e)
      BY <1>1 DEF ListFits, B!Services
    <2> QED
      BY <1>1, <2>2, <2>4, <2>5, ListedOn
  <1> QED
    BY <1>1, <1>3, <1>4

-----------------------------------------------------------------------------

LEMMA BreakdownKeeps ==
  ASSUME B!BucketsAssumption, BucketsInv, B!Breakdown PROVE BucketsInv'
  <1>1. /\ spent' = [spent EXCEPT !.breakdowns = @ + 1] /\ spent.breakdowns < MaxBreakdowns
        /\ reply' = None /\ UNCHANGED <<backend, side>>
        /\ objects' \in {objects, [k \in B!BlobKey |-> None]}
        /\ backend \in B!Services => objects' = objects
        /\ litter' \in {litter, litter \union B!Writing}
    BY DEF B!Breakdown, B!Services
  <1>2. WorldFits'
    <2>1. spent' \in [jobs : 0..MaxJobs, breakdowns : 0..MaxBreakdowns]
      BY <1>1 DEF BucketsInv, WorldFits, B!BucketsAssumption
    <2>2. /\ objects' \in [B!BlobKey -> Version \union {None}]
          /\ \A k \in B!BlobKey : objects'[k] \notin TooLarge
      BY <1>1 DEF BucketsInv, WorldFits, B!BucketsAssumption
    <2>3. litter' \subseteq User
      BY <1>1 DEF BucketsInv, WorldFits, B!Writing
    <2> QED
      BY <1>1, <2>1, <2>2, <2>3 DEF BucketsInv, WorldFits
  <1>3. ASSUME NEW u \in User, jobs'[u] # None
        PROVE  /\ jobs'[u] \in B!Job /\ JobFits(jobs'[u], objects')
               /\ ListFits(jobs[u])'
    <2> DEFINE j == jobs[u]
               e == [j EXCEPT !.at = "stray"]
    <2>1. B!Outlives(u) /\ jobs'[u] = e
      BY <1>3 DEF B!Breakdown
    <2>2. /\ j \in B!Job /\ JobFits(j, objects) /\ ListFits(j) /\ j.at \in {"land", "stray"}
          /\ objects' = objects /\ "stray" \in Place
      BY <1>1, <2>1, JobIs DEF B!Outlives, Place
    <2> HIDE DEF j
    <2>3. /\ e \in B!Job
          /\ e.op = j.op /\ e.key = j.key /\ e.version = j.version /\ e.at = "stray"
          /\ e.got = j.got /\ e.names = j.names /\ e.cursor = j.cursor
          /\ e.listed = j.listed /\ e.seen = j.seen /\ e.stayed = j.stayed
      BY <2>2, MovedIs
    <2> HIDE DEF e
    <2>4. JobFits(e, objects')
      BY <2>2, <2>3 DEF JobFits
    <2>5. ListFits(jobs[u])'
      BY <1>1, <2>1, <2>2, <2>3 DEF ListFits
    <2> QED
      BY <2>1, <2>3, <2>4, <2>5
  <1>4. jobs' \in [User -> B!Job \union {None}]
    <2>1. jobs' = [u \in User |-> jobs'[u]]
      BY DEF B!Breakdown
    <2> QED
      BY <1>3, <2>1
  <1>5. B!TypeOK'
    BY <1>1, <1>2, <1>4 DEF BucketsInv, WorldFits, B!TypeOK
  <1>6. JobsFit' /\ ReplyFits'
    BY <1>1, <1>3 DEF JobsFit, ReplyFits
  <1> QED
    BY <1>2, <1>5, <1>6 DEF BucketsInv

LEMMA BucketsNext ==
  B!BucketsAssumption /\ BucketsInv /\ [B!Next]_bucketVars => BucketsInv'
  <1> SUFFICES ASSUME B!BucketsAssumption, BucketsInv, [B!Next]_bucketVars PROVE BucketsInv'
    OBVIOUS
  <1>1. CASE UNCHANGED bucketVars
    BY <1>1 DEF bucketVars, BucketsInv, B!TypeOK, WorldFits, JobsFit, ListFits, ReplyFits
  <1>2. B!Unsaved \in Version /\ 1 \in B!BlobKey
    BY DEF B!Unsaved, B!BlobKey, B!BucketsAssumption
  <1>3. ASSUME NEW u \in User, NEW op \in {"save", "read", "delete", "exists", "attributes", "list"},
               NEW k \in B!BlobKey, NEW v \in Version, NEW stream \in BOOLEAN,
               B!Call(u, op, k, v, stream)
        PROVE  BucketsInv'
    BY <1>3, CallKeeps
  <1>4. ASSUME NEW u \in User,
               \/ \E k \in B!BlobKey :
                    \/ \E v \in Version, stream \in BOOLEAN : B!Call(u, "save", k, v, stream)
                    \/ \E op \in {"read", "delete", "exists", "attributes"} :
                         B!Call(u, op, k, B!Unsaved, FALSE)
               \/ B!Call(u, "list", 1, B!Unsaved, FALSE)
        PROVE  BucketsInv'
    BY <1>2, <1>3, <1>4
  <1>5. ASSUME NEW u \in User,
               \/ B!PutLands(u) \/ B!UploadLands(u) \/ B!S3DeleteLands(u) \/ B!GcsDeleteLands(u)
        PROVE  BucketsInv'
    BY <1>5, LandsKeep DEF B!PutLands, B!UploadLands, B!S3DeleteLands, B!GcsDeleteLands
  <1>6. ASSUME NEW u \in User, B!S3Lists(u) \/ B!GcsLists(u) PROVE BucketsInv'
    BY <1>6, NextPageKeeps DEF B!S3Lists, B!GcsLists, B!Services
  <1> QED
    BY <1>1, <1>4, <1>5, <1>6, SaveBeginsKeeps, BodyEndsKeeps, BodyFailsKeeps, RenameKeeps,
       AttrsKeep, EndingsKeep, AnsweredKeeps, ReadsKeep, OpenStreamKeeps, ReadSidecarKeeps,
       DeleteBeginsKeeps, UnlinkKeeps, ReadDirKeeps, WalkKeeps, NextEntryKeeps, BreakdownKeeps
    DEF B!Next

LEMMA BucketsAreWhole == BucketsInv => B!ObjectsAreWhole
  BY DEF BucketsInv, WorldFits, ReplyFits, B!ObjectsAreWhole

-----------------------------------------------------------------------------
(* The stores together: each behaviour is of one, and the others stand.    *)

\* Whatever store a process reads from, it answers what was true: of a secret, no
\* longer ago than its cache and one call explain, and of an object at a moment of
\* the call, which finds or leaves whole versions only.
THEOREM StoresTellTheTruth == StoresSpec => []StoresAreTruthful
  <1> DEFINE Inv == SecretsInv /\ BucketsInv
  <1>1. S!SecretsAssumption /\ B!BucketsAssumption
    BY StoresAssumption
  <1>2. StoresInit => Inv
    BY <1>1, SecretsInit, BucketsInit DEF StoresInit
  <1>3. Inv /\ [StoresNext]_storesVars => Inv'
    <2> SUFFICES ASSUME Inv, [StoresNext]_storesVars PROVE Inv'
      OBVIOUS
    <2>1. [S!Next]_secretVars /\ [B!Next]_bucketVars
      BY DEF StoresNext, storesVars
    <2> QED
      BY <1>1, <2>1, SecretsNext, BucketsNext
  <1>4. Inv => StoresAreTruthful
    BY <1>1, SecretsAreFresh, BucketsAreWhole DEF StoresAreTruthful
  <1> HIDE DEF Inv
  <1> QED
    BY <1>2, <1>3, <1>4, PTL DEF StoresSpec
=============================================================================
