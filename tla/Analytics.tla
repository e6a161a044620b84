------------------------------- MODULE Analytics -------------------------------
(***************************************************************************)
(* Events reported under the source they come from: the router, the        *)
(* reporter of each source, the vendor SDK behind it with its buffer and   *)
(* its background delivery, and the flush that ends a process.             *)
(***************************************************************************)
EXTENDS Integers, SequencesExt

CONSTANTS
  Source,       \* the sources callers name
  Settings,     \* the configs there are for them, by source
  MaxEvents,    \* bound: how many events are reported
  None          \* absent

VARIABLES
  config,     \* the config of each source, None for a source nobody knows
  reporters,  \* the provider behind each source
  buffer,     \* events the SDK of a source holds
  got,        \* events its vendor has
  shut,       \* whether its client was shut down
  warned,     \* unknown sources that were warned about
  counts,     \* sent, dropped: the counters of each source; and, as history,
              \* lost: events and failed: batches that background delivery lost
  reported,   \* history: how many events callers reported for each source
  flush       \* what each source's part of flush() or shutdown() is at

analyticsVars ==
  <<config, reporters, buffer, got, shut, warned, counts, reported, flush>>

\* The vendors' SDKs for a server and for a browser, and a config that the factory
\* throws at.
Servers  == {"segment", "posthog"}
Browsers == {"segment-browser", "posthog-browser"}
Provider == {"noop", "memory", "console", "broken"} \union Servers \union Browsers

AnalyticsAssumption ==
  /\ Settings \subseteq [Source -> Provider \union {None}] /\ MaxEvents \in Nat
  /\ None \notin Source \union Provider

\* source is the property the event carries when it leaves the router.
Event == [source : Source]

Counts == [sent : Nat, dropped : Nat, lost : Nat, failed : Nat]

TypeOK ==
  /\ config \in Settings
  /\ reporters \in [Source -> (Provider \ {"broken"}) \union {None}]
  /\ \A s \in Source : buffer[s] \in Seq(Event) /\ got[s] \in Seq(Event)
  /\ shut \in [Source -> BOOLEAN] /\ warned \subseteq Source
  /\ counts \in [Source -> Counts] /\ reported \in [Source -> 0..MaxEvents]
  /\ flush \in [Source -> {"idle", "flush", "shutdown", "over"}]

\* A source whose reporter cannot be built gets one that does nothing.
Built(c) == [s \in Source |-> IF c[s] = "broken" THEN "noop" ELSE c[s]]

Init ==
  /\ config \in Settings
  /\ reporters = Built(config)
  /\ buffer = [s \in Source |-> <<>>] /\ got = [s \in Source |-> <<>>]
  /\ shut = [s \in Source |-> FALSE] /\ warned = {}
  /\ counts = [s \in Source |-> [sent |-> 0, dropped |-> 0, lost |-> 0, failed |-> 0]]
  /\ reported = [s \in Source |-> 0]
  /\ flush = [s \in Source |-> "idle"]

-----------------------------------------------------------------------------

Sdk(s) == reporters[s] \in Servers \union Browsers

Idle == \A s \in Source : flush[s] \in {"idle", "over"}

\* Mutant of WithSource: the caller's properties are spread last.
CallersSource(s, claimed) == [source |-> IF claimed = None THEN s ELSE claimed]

\* The caller may give the event a source property of its own; the router's
\* stands.
WithSource(s, claimed) == [source |-> s]

\* One of the many: the first call for a source nobody knows is warned about.
Unknown(s) ==
  /\ reporters[s] = None
  /\ warned' = warned \union {s}
  /\ UNCHANGED <<buffer, got, counts>>

\* The reporters that need no vendor never fail.
Local(s, e) ==
  /\ reporters[s] \in {"noop", "memory", "console"}
  /\ got' = IF reporters[s] = "memory" THEN [got EXCEPT ![s] = Append(@, e)] ELSE got
  /\ UNCHANGED <<buffer, warned, counts>>

\* The SDK takes the event, or throws; a client that was shut down may do the one
\* as well as the other, and what it takes goes nowhere.
Taken(s, e) ==
  /\ buffer' = IF shut[s] THEN buffer ELSE [buffer EXCEPT ![s] = Append(@, e)]
  /\ counts' = [counts EXCEPT ![s].sent = @ + 1,
                              ![s].lost = IF shut[s] THEN @ + 1 ELSE @]
  /\ UNCHANGED <<got, warned>>

PostHogTakes(s, e)  == reporters[s] = "posthog" /\ Taken(s, e)
SegmentTakes(s, e)  == reporters[s] = "segment" /\ Taken(s, e)
BrowserTakes(s, e)  == reporters[s] \in Browsers /\ Taken(s, e)

Thrown(s) ==
  /\ Sdk(s)
  /\ counts' = [counts EXCEPT ![s].dropped = @ + 1]
  /\ UNCHANGED <<buffer, got, warned>>

\* track, identify, page or screen for a source.
Report(s, claimed) ==
  /\ reported[s] < MaxEvents
  /\ reported' = [reported EXCEPT ![s] = @ + 1]
  /\ UNCHANGED <<config, reporters, shut, flush>>
  /\ LET e == WithSource(s, claimed)
     IN  \/ Unknown(s) \/ Local(s, e) \/ Thrown(s)
         \/ PostHogTakes(s, e) \/ SegmentTakes(s, e) \/ BrowserTakes(s, e)

\* Mutant of OnBackgroundError: the listener is on no client.
Unheard(s) == counts[s].dropped

\* What the client of a server tells its reporter of; a browser's tells nothing.
OnBackgroundError(s) ==
  IF reporters[s] \in Servers THEN counts[s].dropped + 1 ELSE counts[s].dropped

\* A batch of the buffer is delivered, or lost in the background.
Deliver(s, n) ==
  /\ Sdk(s) /\ n \in 1..Len(buffer[s])
  /\ got' = [got EXCEPT ![s] = @ \o SubSeq(buffer[s], 1, n)]
  /\ buffer' = [buffer EXCEPT ![s] = SubSeq(@, n + 1, Len(@))]
  /\ UNCHANGED <<config, reporters, shut, warned, counts, reported, flush>>

Fails(s, n) ==
  /\ Sdk(s) /\ n \in 1..Len(buffer[s])
  /\ buffer' = [buffer EXCEPT ![s] = SubSeq(@, n + 1, Len(@))]
  /\ counts' = [counts EXCEPT ![s].dropped = OnBackgroundError(s),
                              ![s].lost = @ + n, ![s].failed = @ + 1]
  /\ UNCHANGED <<config, reporters, got, shut, warned, reported, flush>>

\* flush() or shutdown() of every source at once.
FlushAll(op) ==
  /\ Idle
  /\ flush' = [s \in Source |->
                 IF reporters[s] = None THEN "over" ELSE op]
  /\ shut' = IF op = "shutdown" THEN [s \in Source |-> Sdk(s) \/ shut[s]] ELSE shut
  /\ UNCHANGED <<config, reporters, buffer, got, warned, counts, reported>>

Over(s) ==
  /\ flush[s] \in {"flush", "shutdown"}
  /\ flush' = [flush EXCEPT ![s] = "over"]
  /\ UNCHANGED <<config, reporters, buffer, got, shut, warned, counts, reported>>

\* The work of a server's SDK ends: its buffer is empty, or it failed.
WorkEnds(s) == reporters[s] \in Servers /\ Over(s)

\* A browser's SDK, and a reporter without a vendor, have nothing to flush.
NothingToFlush(s) == reporters[s] \notin Servers /\ Over(s)

\* Mutant of Abandon: the deadline is for a shutdown only.
NotAFlush(s) == flush[s] = "shutdown" /\ Sdk(s) /\ Over(s)

\* The deadline passes, and the work is left to itself.
Abandon(s) == Sdk(s) /\ Over(s)

Moves == \E s \in Source : Abandon(s) \/ NothingToFlush(s)

Next ==
  \/ Moves
  \/ \E op \in {"flush", "shutdown"} : FlushAll(op)
  \/ \E s \in Source :
       \/ \E claimed \in Source \union {None} : Report(s, claimed)
       \/ \E n \in 1..MaxEvents : Deliver(s, n) \/ Fails(s, n)
       \/ WorkEnds(s)

Spec == Init /\ [][Next]_analyticsVars /\ WF_analyticsVars(Moves)

-----------------------------------------------------------------------------
(* Properties.                                                             *)

\* No event changes its source on the way, even when sources share an account and
\* callers set the property themselves; and the counters add up: each event was
\* taken or dropped at the call, each one taken is held, delivered or lost, and a
\* server counts a drop for every batch it loses.  The variables keep their types.
EventsAreAccounted ==
  /\ TypeOK
  /\ \A s \in Source :
       /\ \A e \in Range(got[s] \o buffer[s]) : e.source = s
       /\ Sdk(s) =>
            /\ counts[s].sent = Len(got[s]) + Len(buffer[s]) + counts[s].lost
            /\ reporters[s] \in Servers =>
                 /\ counts[s].dropped >= counts[s].failed
                 /\ reported[s] = counts[s].sent + counts[s].dropped - counts[s].failed

\* A flush or a shutdown of all sources ends, though a vendor's hangs.
FlushEnds == ~Idle ~> Idle
=============================================================================
