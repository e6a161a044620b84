------------------------------- MODULE Serving -------------------------------
(***************************************************************************)
(* A server's handling of requests that come in, as far as it keeps state  *)
(* from one step to the next: the rate limiter admits them, cookies are    *)
(* read and set, lists are walked page by page.  They share no state.      *)
(***************************************************************************)
EXTENDS RateLimits

CONSTANTS
  Cookie, Plain, Special, Foreign, Lone, Huge, MaxOps,   \* of Cookies
  Row, MaxLimit, DefaultLimit, Limits, Instants          \* of Filtering

VARIABLES
  jar, phase, cookies, pending, told, ops,
  rows, filter, page, seen, walking

cookieVars == <<jar, phase, cookies, pending, told, ops>>
listVars == <<rows, filter, page, seen, walking>>

C == INSTANCE Cookies

L == INSTANCE Filtering

ASSUME ServingAssumption ==
  RateLimitsAssumption /\ C!CookiesAssumption /\ L!FilteringAssumption

ServingInit == LimiterInit /\ C!Init /\ L!Init

Admitting == LimiterNext /\ UNCHANGED <<cookieVars, listVars>>
Handling  == C!Next /\ UNCHANGED <<limiterVars, listVars>>
Listing   == L!Next /\ UNCHANGED <<limiterVars, cookieVars>>

ServingNext == Admitting \/ Handling \/ Listing

servingVars == <<limiterVars, cookieVars, listVars>>

ServingSpec == ServingInit /\ [][ServingNext]_servingVars

-----------------------------------------------------------------------------
(* Besides the property of RateLimits, those of the other two.             *)

\* What one end writes the other reads: a cookie in the next request (Cookies), a
\* filter across a URL (Filtering).
WritesAreReadBack == C!ReadsReflectWrites /\ L!FiltersTravel

\* A client that follows the cursors gets every row once and ends (Filtering).
PagesCoverTheList == L!PagesCoverTheList
=============================================================================
