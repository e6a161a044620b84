------------------------------ MODULE HealthChecks ------------------------------
(***************************************************************************)
(* A health registry: the checkers registered under each name, and one     *)
(* report of it.  The report runs every checker at once; the component     *)
(* behind one may answer, fail, or hang, and its own deadline, the         *)
(* registry's and the caller's abort race the answer.                      *)
(***************************************************************************)
EXTENDS FiniteSets

CONSTANTS
  Component,     \* the names of the checkers
  Backstops,     \* whether the registry may have a deadline (checkTimeoutMs)
  Reasons,       \* what a caller aborts with: an AbortError, or another error
  None           \* absent

VARIABLES
  checkers,  \* the checker registered under each name
  backstop,  \* whether the registry has a deadline
  entries,   \* the checkers of the report, as the report began
  own,       \* history: what each component answered in time
  checks,    \* the result of each checker
  halt,      \* the reason of the caller's abort
  report     \* the report

healthVars == <<checkers, backstop, entries, own, checks, halt, report>>

HealthStatus == {"healthy", "degraded", "unhealthy"}

\* A checker with a deadline of its own or not, a hand-written one or not: only
\* the first kind turns a failure into a result.
Checker == [timed : BOOLEAN, wrapped : BOOLEAN]

HealthChecksAssumption ==
  /\ IsFiniteSet(Component) /\ Backstops \subseteq BOOLEAN
  /\ Reasons \subseteq {"AbortError", "other"}
  /\ None \notin HealthStatus \union Checker \union Reasons \union {"thrown", "cancelled"}

TypeOK ==
  /\ checkers \in [Component -> Checker \union {None}]
  /\ backstop \in Backstops
  /\ entries \in [Component -> Checker \union {None}]
  /\ own \in [Component -> HealthStatus \union {"thrown", "cancelled", None}]
  /\ checks \in [Component -> HealthStatus \union {None}]
  /\ halt \in Reasons \union {None}
  /\ report \in HealthStatus \union {"idle", "running", "rejected"}

Init ==
  /\ checkers = [n \in Component |-> None] /\ backstop \in Backstops
  /\ entries = [n \in Component |-> None]
  /\ own = [n \in Component |-> None] /\ checks = [n \in Component |-> None]
  /\ halt = None /\ report = "idle"

-----------------------------------------------------------------------------

Entry == {n \in Component : entries[n] # None}

Waiting(n) == report = "running" /\ n \in Entry /\ checks[n] = None

\* Mutant of Aggregate: a degraded component is looked for first.
MildestFirst(results) ==
  CASE "degraded" \in results -> "degraded"
    [] "unhealthy" \in results /\ "degraded" \notin results -> "unhealthy"
    [] OTHER -> "healthy"

Aggregate(results) ==
  CASE "unhealthy" \in results -> "unhealthy"
    [] "degraded" \in results /\ "unhealthy" \notin results -> "degraded"
    [] OTHER -> "healthy"

\* A later checker of the same name replaces the earlier.
Register(n, c) ==
  /\ report \in {"idle", "running"}
  /\ checkers[n] # c
  /\ checkers' = [checkers EXCEPT ![n] = c]
  /\ UNCHANGED <<backstop, entries, own, checks, halt, report>>

\* The checkers of that moment are run; what is registered after is not.
Check ==
  /\ report = "idle"
  /\ entries' = checkers /\ report' = "running"
  /\ UNCHANGED <<checkers, backstop, own, checks, halt>>

Result(n, status) == checks' = [checks EXCEPT ![n] = status]

\* The component answers of itself.
Answers(n, status) ==
  /\ Waiting(n)
  /\ own' = [own EXCEPT ![n] = status]
  /\ Result(n, status)
  /\ UNCHANGED <<checkers, backstop, entries, halt, report>>

\* It throws: of a wrapped checker that is an unhealthy result, of another it
\* rejects the report, as one that throws because it was cancelled does.
Throws(n, what) ==
  /\ Waiting(n)
  /\ what = "cancelled" => halt # None
  /\ own' = [own EXCEPT ![n] = what]
  /\ UNCHANGED <<checkers, backstop, entries, halt>>
  /\ IF ~entries[n].wrapped \/ (what = "cancelled" /\ halt = "AbortError")
     THEN report' = "rejected" /\ UNCHANGED checks
     ELSE Result(n, "unhealthy") /\ UNCHANGED report

\* Its own deadline passes, which only a wrapped checker can have.
OwnTimeout(n) ==
  /\ Waiting(n)
  /\ entries[n].timed /\ entries[n].wrapped
  /\ Result(n, "unhealthy")
  /\ UNCHANGED <<checkers, backstop, entries, own, halt, report>>

\* Mutant of Deadline: a checker that has a deadline is left to it.
Uncovered(n) ==
  /\ Waiting(n)
  /\ backstop /\ ~entries[n].timed
  /\ Result(n, "unhealthy")
  /\ UNCHANGED <<checkers, backstop, entries, own, halt, report>>

\* The registry's deadline passes.
Deadline(n) ==
  /\ Waiting(n)
  /\ backstop
  /\ Result(n, "unhealthy")
  /\ UNCHANGED <<checkers, backstop, entries, own, halt, report>>

Collect ==
  /\ report = "running"
  /\ \A n \in Entry : checks[n] # None
  /\ report' = Aggregate({checks[n] : n \in Entry})
  /\ UNCHANGED <<checkers, backstop, entries, own, checks, halt>>

\* The caller aborts the report.
Halt(reason) ==
  /\ report = "running" /\ halt = None
  /\ halt' = reason
  /\ UNCHANGED <<checkers, backstop, entries, own, checks, report>>

Moves == (\E n \in Component : OwnTimeout(n) \/ Deadline(n)) \/ Collect

Next ==
  \/ Moves
  \/ Check
  \/ \E n \in Component :
       \/ \E c \in Checker : Register(n, c)
       \/ \E s \in HealthStatus : Answers(n, s)
       \/ \E what \in {"thrown", "cancelled"} : Throws(n, what)
  \/ \E reason \in Reasons : Halt(reason)

Spec == Init /\ [][Next]_healthVars /\ WF_healthVars(Moves)

-----------------------------------------------------------------------------
(* Properties.                                                             *)

\* A report is as bad as its worst component and no worse: it is healthy or
\* degraded only if every component it was asked about has answered so itself, in
\* time; unhealthy only if one said so, failed, or let a deadline pass; and never
\* because its caller cancelled with an AbortError.  The variables keep their types.
ReportsAreTruthful ==
  /\ TypeOK
  /\ report = "healthy" => \A n \in Entry : own[n] = "healthy"
  /\ report = "degraded" =>
       /\ \A n \in Entry : own[n] \in {"healthy", "degraded"}
       /\ \E n \in Entry : own[n] = "degraded"
  /\ report = "unhealthy" =>
       \E n \in Entry :
         \/ own[n] \in {"unhealthy", "thrown"}
         \/ own[n] = None /\ (backstop \/ entries[n].timed)
         \/ own[n] = "cancelled" /\ halt # "AbortError"

\* A report ends, even if a component hangs, when the registry has a deadline or
\* every checker of it has one.
ReportsEnd ==
  report = "running" /\ (backstop \/ \A n \in Entry : entries[n].timed
                                                     /\ entries[n].wrapped)
    ~> report \notin {"idle", "running"}
=============================================================================
