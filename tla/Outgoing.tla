------------------------------- MODULE Outgoing -------------------------------
(***************************************************************************)
(* What a process asks of others and waits for: calls over fetch, health   *)
(* checks, analytics.  They share nothing, so each behaviour is of one of  *)
(* them, chosen at the start, and the others stay as they began.           *)
(***************************************************************************)
EXTENDS HttpRequests

CONSTANTS
  Component, Backstops, Reasons,  \* of HealthChecks
  Source, Settings, MaxEvents,    \* of Analytics
  Absent                          \* None of both

VARIABLES
  part,   \* what the behaviour is of
  checkers, backstop, entries, own, results, halt, report,
  config, reporters, buffer, got, shut, warned, counts, reported, flush

healthVars == <<checkers, backstop, entries, own, results, halt, report>>
analyticsVars ==
  <<config, reporters, buffer, got, shut, warned, counts, reported, flush>>

H == INSTANCE HealthChecks WITH None <- Absent, checks <- results

A == INSTANCE Analytics WITH None <- Absent

ASSUME OutgoingAssumption ==
  HttpRequestsAssumption /\ H!HealthChecksAssumption /\ A!AnalyticsAssumption

\* What a part could choose at its start is not varied where it stands still.
PartsInit ==
  /\ part \in {"request", "health", "analytics"}
  /\ RequestInit /\ H!Init /\ A!Init
  /\ part # "request" => request = CHOOSE r \in Requests : TRUE
  /\ part # "health" => backstop = CHOOSE b \in Backstops : TRUE
  /\ part # "analytics" => config = CHOOSE c \in Settings : TRUE

Requesting == part = "request" /\ UNCHANGED <<part, healthVars, analyticsVars>>
Checking   == part = "health" /\ UNCHANGED <<part, requestVars, analyticsVars>>
Reporting  == part = "analytics" /\ UNCHANGED <<part, requestVars, healthVars>>

PartsNext ==
  \/ Requesting /\ RequestNext
  \/ Checking /\ H!Next
  \/ Reporting /\ A!Next

partsVars == <<part, requestVars, healthVars, analyticsVars>>

PartsSpec ==
  /\ PartsInit /\ [][PartsNext]_partsVars
  /\ WF_partsVars(Requesting /\ Moves)
  /\ WF_partsVars(Checking /\ H!Moves)
  /\ WF_partsVars(Reporting /\ A!Moves)

-----------------------------------------------------------------------------
(* Besides the properties of HttpRequests, those of the other two.         *)

\* A health report is as bad as its worst component and no worse (HealthChecks);
\* every event keeps its source and is taken, held, delivered or lost, as the
\* counters say (Analytics).
ReportsAreTrue == H!ReportsAreTruthful /\ A!EventsAreAccounted

\* A call with a timeout or an aborted caller settles (HttpRequests), a health report
\* with a deadline ends (HealthChecks), and so does a flush of analytics (Analytics),
\* whatever hangs behind them.
WaitsEnd == EveryWaitEnds /\ H!ReportsEnd /\ A!FlushEnds
=============================================================================
