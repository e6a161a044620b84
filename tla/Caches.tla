-------------------------------- MODULE Caches --------------------------------
(***************************************************************************)
(* One cache under each of its providers and the calls of its clients: a   *)
(* bounded Map in memory, a redis server shared by processes, the web      *)
(* storage of a page, and the noop cache.  Time is a clock the stores and  *)
(* the clients agree on.                                                   *)
(*                                                                         *)
(* A local store answers one key per turn of the event loop.  A redis      *)
(* command is sent, served and answered apart, and may fail at each point. *)
(***************************************************************************)
EXTENDS Naturals, SequencesExt

CONSTANTS
  Key, Value, Client,
  CacheProviders, \* the providers in use
  Corrupt,        \* what a stored text that is not JSON stands for
  MaxEntries,     \* maxEntries; 0: no cap
  ExpiryMs,       \* the expiry of the cache; 0: none
  Requests,       \* bound: the calls clients make, [op, keys, value, ttl]
  CacheHorizon,   \* bound: the last instant of the clock
  MaxCalls,       \* bound: how many calls are made
  None            \* absent

VARIABLES
  cache,   \* the provider in use
  entries, \* what the store holds of each key
  order,   \* the Map in memory: pairs of its keys, the older one first
  calls,   \* each client's call, the last one until it makes another
  clock,
  made,    \* how many calls have been made
  written, \* history: what the last write to reach a key left there
  seen     \* history: the values that were live at a moment of each call

cacheVars == <<cache, entries, order, calls, clock, made, written, seen>>

\* until is the instant an entry expires at; 0 stands for never.
Entry == [value : Value \union {Corrupt}, until : Nat]

CachesAssumption ==
  /\ CacheProviders \subseteq {"memory", "redis", "web", "noop"}
  /\ MaxEntries \in Nat /\ ExpiryMs \in Nat
  /\ CacheHorizon \in Nat /\ MaxCalls \in Nat
  /\ Value # {} /\ Corrupt \notin Value /\ None \notin Entry
  /\ Requests \subseteq [op : {"get", "set", "delete"}, keys : Seq(Key),
                          value : Value, ttl : Nat]
  /\ \A r \in Requests : Len(r.keys) > 0

\* todo are the keys a call has still to do, got what it has read, bad the keys
\* it found corrupt.  A stray command was given up and may still be served.
Call == [op : {"get", "set", "delete"}, todo : Seq(Key), value : Value,
         ttl : Nat, got : SUBSET (Key \X Value), bad : SUBSET Key,
         at : {"queued", "served", "healing", "stray", "over"}]

\* A call that is over and has answered the pairs got.
Over(got) == [op |-> "get", todo |-> <<>>, value |-> CHOOSE v \in Value : TRUE,
              ttl |-> 0, got |-> got, bad |-> {}, at |-> "over"]

Held == {k \in Key : entries[k] # None}

Before(j, k) == <<j, k>> \in order

\* The Map knows in which order its keys were put into it, and keeps to its cap.
MapIsSound ==
  /\ order \subseteq Held \X Held
  /\ \A j, k \in Held : Before(j, k) <=> j # k /\ ~Before(k, j)
  /\ \A i, j, k \in Held : Before(i, j) /\ Before(j, k) => Before(i, k)
  /\ MaxEntries # 0 => Cardinality(Held) <= MaxEntries

TypeOK ==
  /\ cache \in CacheProviders
  /\ entries \in [Key -> Entry \union {None}]
  /\ IF cache = "memory" THEN MapIsSound ELSE order = {}
  /\ calls \in [Client -> Call]
  /\ clock \in 0..CacheHorizon /\ made \in 0..MaxCalls
  /\ written \in [Key -> Entry \union {None}]
  /\ seen \in [Client -> SUBSET (Key \X Value)]

Init ==
  /\ cache \in CacheProviders
  /\ entries = [k \in Key |-> None]
  /\ order = {}
  /\ calls = [c \in Client |-> Over({})]
  /\ clock = 0 /\ made = 0
  /\ written = [k \in Key |-> None]
  /\ seen = [c \in Client |-> {}]

-----------------------------------------------------------------------------
(* Entries.                                                                *)

\* Mutant of Expired: an entry outlives its last instant.
ExpiredLate(e) == e.until # 0 /\ e.until < clock

Expired(e) == e.until # 0 /\ e.until <= clock

\* The ttlMs contract: a positive one wins, anything else means the expiry of
\* the cache.
ResolveTtl(ttl) == IF ttl > 0 THEN ttl ELSE ExpiryMs

Fresh(c) ==
  LET ttl == ResolveTtl(calls[c].ttl)
  IN  [value |-> calls[c].value, until |-> IF ttl = 0 THEN 0 ELSE clock + ttl]

Full == MaxEntries # 0 /\ Cardinality(Held) >= MaxEntries

\* Mutant of Room: expired entries are not swept first.
RoomUnswept ==
  IF Full THEN {k \in Held : \E j \in Held : Before(j, k)} ELSE Held

\* The keys that stay when a new one needs room: at the cap the expired ones
\* go, and of the others the oldest until there is room.
Room ==
  LET live   == {k \in Held : ~Expired(entries[k])}
      excess == Cardinality(live) - MaxEntries + 1
  IN  IF Full
        THEN {k \in live : Cardinality({j \in live : Before(j, k)}) >= excess}
        ELSE Held

Current(c) == Head(calls[c].todo)

Among(ks) == order \intersect (ks \X ks)

Forget(ks) ==
  /\ entries' = [k \in Key |-> IF k \in ks THEN None ELSE entries[k]]
  /\ order' = Among(Held \ ks)

\* Key k, and no other, has been written, or deleted when e is None.
Landed(k, e) == written' = [written EXCEPT ![k] = e]

LivePairs(w, t) ==
  {<<k, w[k].value>> : k \in {j \in Key : /\ w[j] # None
                                          /\ w[j].value \in Value
                                          /\ w[j].until = 0 \/ w[j].until > t}}

\* Every running call has seen what is live after this step too.
Witness ==
  seen' = [c \in Client |->
             IF calls[c].at \in {"over", "stray"} THEN seen[c]
             ELSE seen[c] \union LivePairs(written', clock')]

\* The call is done with its first key, and over with its last.
Progress(c, pairs) ==
  LET got == calls[c].got \union pairs
  IN  calls' = [calls EXCEPT ![c] =
                  IF Len(@.todo) = 1 THEN Over(got)
                  ELSE [calls[c] EXCEPT !.todo = Tail(@), !.got = got]]

-----------------------------------------------------------------------------
(* Calls.                                                                  *)

\* A client calls get, getMany, set, setMany or delete.  The page's cache has no
\* batches.
Invoke(c, r) ==
  /\ calls[c].at = "over" /\ made < MaxCalls
  /\ made' = made + 1
  /\ cache = "web" \/ r.op = "delete" => Len(r.keys) = 1
  /\ calls' = [calls EXCEPT ![c] = [op |-> r.op, todo |-> r.keys,
                                    value |-> r.value, ttl |-> r.ttl,
                                    got |-> {}, bad |-> {}, at |-> "queued"]]
  /\ seen' = [seen EXCEPT ![c] = LivePairs(written, clock)]
  /\ UNCHANGED <<cache, entries, order, clock, written>>

Turn(c, op) == calls[c].at = "queued" /\ calls[c].op = op

MemoryGet(c) ==
  /\ cache = "memory" /\ Turn(c, "get")
  /\ LET e == entries[Current(c)]
     IN  IF e # None /\ Expired(e)
           THEN Forget({Current(c)}) /\ Progress(c, {})
           ELSE /\ Progress(c, IF e = None THEN {}
                               ELSE {<<Current(c), e.value>>})
                /\ UNCHANGED <<entries, order>>
  /\ UNCHANGED <<cache, clock, made, written>>
  /\ Witness

\* A key the Map knows keeps its place, whatever its lifetime.
MemorySet(c) ==
  /\ cache = "memory" /\ Turn(c, "set")
  /\ LET k    == Current(c)
         kept == IF k \in Held THEN Held ELSE Room
     IN  /\ order' = Among(kept) \union IF k \in Held THEN {} ELSE kept \X {k}
         /\ entries' = [j \in Key |-> CASE j = k -> Fresh(c)
                                        [] j # k /\ j \in kept -> entries[j]
                                        [] OTHER -> None]
         /\ Landed(k, Fresh(c))
  /\ Progress(c, {})
  /\ UNCHANGED <<cache, clock, made>>
  /\ Witness

LocalDelete(c) ==
  /\ cache \in {"memory", "web"} /\ Turn(c, "delete")
  /\ Forget({Current(c)})
  /\ Landed(Current(c), None)
  /\ Progress(c, {})
  /\ UNCHANGED <<cache, clock, made>>
  /\ Witness

\* A text that is not JSON, or has expired, is removed and is a miss.
WebGet(c) ==
  /\ cache = "web" /\ Turn(c, "get")
  /\ LET e == entries[Current(c)]
     IN  IF e # None /\ (e.value = Corrupt \/ Expired(e))
           THEN Forget({Current(c)}) /\ Progress(c, {})
           ELSE /\ Progress(c, IF e = None THEN {}
                               ELSE {<<Current(c), e.value>>})
                /\ UNCHANGED <<entries, order>>
  /\ UNCHANGED <<cache, clock, made, written>>
  /\ Witness

\* A write that exceeds the quota is skipped, and the call resolves; the entry
\* it meant to replace stays.
WebSet(c) ==
  /\ cache = "web" /\ Turn(c, "set")
  /\ \/ /\ entries' = [entries EXCEPT ![Current(c)] = Fresh(c)]
        /\ Landed(Current(c), Fresh(c))
     \/ UNCHANGED <<entries, written>>
  /\ Progress(c, {})
  /\ UNCHANGED <<cache, order, clock, made>>
  /\ Witness

NoopCall(c) ==
  /\ cache = "noop" /\ calls[c].at = "queued"
  /\ Progress(c, {})
  /\ UNCHANGED <<cache, entries, order, clock, made, written>>
  /\ Witness

-----------------------------------------------------------------------------
(* Redis.  A get is an MGET of one key, a set a pipeline of one command.   *)

\* The server answers a GET or MGET at one instant.
Reads(c) ==
  LET there == {k \in Range(calls[c].todo) :
                  entries[k] # None /\ ~Expired(entries[k])}
      bad   == {k \in there : entries[k].value = Corrupt}
  IN  /\ calls' = [calls EXCEPT
                     ![c].got = {<<k, entries[k].value>> : k \in there \ bad},
                     ![c].bad = bad, ![c].at = "served"]
      /\ UNCHANGED <<entries, written>>

\* The commands of a pipeline are served one by one.
Writes(c) ==
  LET e == IF calls[c].op = "set" THEN Fresh(c) ELSE None
  IN  /\ entries' = [entries EXCEPT ![Current(c)] = e]
      /\ Landed(Current(c), e)
      /\ calls' = [calls EXCEPT ![c].todo = Tail(@),
                                ![c].at = IF Len(calls[c].todo) = 1
                                            THEN "served" ELSE @]

RedisServes(c) ==
  /\ cache = "redis" /\ calls[c].at = "queued"
  /\ IF calls[c].op = "get" THEN Reads(c) ELSE Writes(c)
  /\ UNCHANGED <<cache, order, clock, made>>
  /\ Witness

\* A reader that met corrupt texts deletes their keys before it answers.
RedisAnswers(c) ==
  /\ cache = "redis" /\ calls[c].at = "served"
  /\ calls' = [calls EXCEPT ![c] = IF @.bad = {} THEN Over(@.got)
                                   ELSE [@ EXCEPT !.at = "healing"]]
  /\ UNCHANGED <<cache, entries, order, clock, made, written>>
  /\ Witness

\* That deletion reaches the server, whatever is stored by then, or it fails,
\* which the reader ignores.
Heal(c) ==
  /\ cache = "redis" /\ calls[c].at = "healing"
  /\ \/ Forget(calls[c].bad)
     \/ UNCHANGED <<entries, order>>
  /\ calls' = [calls EXCEPT ![c] = Over(@.got)]
  /\ UNCHANGED <<cache, clock, made, written>>
  /\ Witness

\* A command is rejected: the connection failed, or commandTimeout passed.  The
\* writes of the call may still be served, before any later one of that connection.
RedisFails(c) ==
  /\ cache = "redis" /\ calls[c].at \in {"queued", "served"}
  /\ calls' = [calls EXCEPT ![c] =
                  IF @.op = "get" \/ @.at = "served" THEN Over({})
                  ELSE [@ EXCEPT !.at = "stray"]]
  /\ UNCHANGED <<cache, entries, order, clock, made, written>>
  /\ Witness

\* The next write of a call that was given up is served or not, and it may be the last.
StrayMoves(c) ==
  /\ calls[c].at = "stray"
  /\ LET k == Current(c)
         e == IF calls[c].op = "set" THEN Fresh(c) ELSE None
     IN  \/ entries' = [entries EXCEPT ![k] = e] /\ Landed(k, e)
         \/ UNCHANGED <<entries, written>>
  /\ \/ calls' = [calls EXCEPT ![c] = Over({})]
     \/ /\ Len(calls[c].todo) > 1
        /\ calls' = [calls EXCEPT ![c].todo = Tail(@)]
  /\ UNCHANGED <<cache, order, clock, made>>
  /\ Witness

\* Another program, or an older one, leaves a text that is not JSON.
Scribble(k) ==
  /\ cache \in {"redis", "web"}
  /\ Corrupt \notin {written[j].value : j \in {i \in Key : written[i] # None}}
  /\ entries' = [entries EXCEPT ![k] = [value |-> Corrupt, until |-> 0]]
  /\ Landed(k, [value |-> Corrupt, until |-> 0])
  /\ UNCHANGED <<cache, order, calls, clock, made>>
  /\ Witness

Tick ==
  /\ clock < CacheHorizon
  /\ clock' = clock + 1
  /\ UNCHANGED <<cache, entries, order, calls, made, written>>
  /\ Witness

Next ==
  \/ \E c \in Client :
       \/ \E r \in Requests : Invoke(c, r)
       \/ MemoryGet(c) \/ MemorySet(c) \/ LocalDelete(c)
       \/ WebGet(c) \/ WebSet(c) \/ NoopCall(c)
       \/ RedisServes(c) \/ RedisAnswers(c) \/ Heal(c) \/ RedisFails(c)
       \/ StrayMoves(c)
  \/ \E k \in Key : Scribble(k)
  \/ Tick

Spec == Init /\ [][Next]_cacheVars

-----------------------------------------------------------------------------
(* Properties.                                                             *)

\* A value that a get or a getMany answers was, at a moment of that call, what
\* the last write had left under its key, and had not expired.
AnswersAreLive == \A c \in Client : calls[c].got \subseteq seen[c]

\* The variables keep their types, and the Map its order and its cap.
ReadsAreLive == TypeOK /\ AnswersAreLive

Lost(k) == /\ entries[k] # None /\ ~Expired(entries[k])
           /\ entries'[k] = None

LiveKeys == {k \in Held : ~Expired(entries[k])}

\* The four reasons an entry that has not expired may leave the store for: it is
\* deleted; it is the oldest of a Map that holds maxEntries live ones when a new
\* key needs room; its text is corrupt; or a redis reader that met a corrupt text
\* under that key earlier deletes it.
Deleted(k) == \E c \in Client : calls[c].op = "delete" /\ k \in Range(calls[c].todo)

Displaced(k) ==
  /\ cache = "memory" /\ MaxEntries # 0
  /\ Cardinality(LiveKeys) = MaxEntries
  /\ \A j \in LiveKeys \ {k} : Before(k, j)
  /\ \E j \in Key : entries[j] = None /\ entries'[j] # None

Healed(k) == \E c \in Client : calls[c].at = "healing" /\ k \in calls[c].bad

Justified(k) ==
  Deleted(k) \/ Displaced(k) \/ entries[k].value = Corrupt \/ Healed(k)

\* An entry that has not expired leaves the store only for a reason.
LossIsJustified == [][\A k \in Key : Lost(k) => Justified(k)]_cacheVars
=============================================================================
