------------------------------ MODULE Filtering ------------------------------
(***************************************************************************)
(* The filtering package: a list query's filter, its form as URL search    *)
(* parameters, and the page a server answers with (query-filter.ts).  A    *)
(* client walks a list: it sends a filter, takes the page's cursor into    *)
(* the next one, and stops at an empty cursor.  The rows and the query     *)
(* that reads them are the caller's (external): rows of ascending ids,     *)
(* those after the cursor, no more than the limit.                         *)
(***************************************************************************)
EXTENDS Integers, Sequences, FiniteSets

CONSTANTS
  None,
  Row,             \* ids, positive integers in the order of the list
  MaxLimit,        \* MAX_QUERY_FILTER_LIMIT
  DefaultLimit,    \* DEFAULT_QUERY_FILTER_LIMIT
  Limits,          \* what a client writes as its limit
  Instants         \* what a client writes as its bounds

VARIABLES
  rows,            \* the rows there are
  filter,          \* the client's filter
  page,            \* the last page it was answered with; None before the first
  seen,            \* the rows it has been given, in order
  walking

filterVars == <<rows, filter, page, seen, walking>>

FilteringAssumption ==
  /\ Row \subseteq Nat \ {0} /\ IsFiniteSet(Row)
  /\ MaxLimit \in Nat /\ DefaultLimit \in 1..MaxLimit /\ Limits \subseteq Nat
  /\ None \notin Row

\* The fields of a filter; None in one means no constraint.
Fields == {"limit", "cursor", "createdAfter", "createdBefore", "updatedAfter",
           "updatedBefore", "includeArchived", "sortBy"}

EmptyFilter == [f \in Fields |-> None]

DefaultQueryFilter == [EmptyFilter EXCEPT !["limit"] = DefaultLimit, !["sortBy"] = "asc"]

-----------------------------------------------------------------------------
(* Parsing: None is a raw value the parser refuses.  A raw value is tagged *)
(* with how it was written: "text" that is none, or the value's own form.  *)

\* A limit is digits only, and clamped from above.
ParseLimit(raw) ==
  IF raw[1] # "number" \/ raw[2] < 0 THEN None
  ELSE IF raw[2] > MaxLimit THEN MaxLimit ELSE raw[2]

ParseDate(raw) == IF raw[1] = "date" THEN raw[2] ELSE None
ParseBool(raw) == IF raw[1] = "bool" THEN raw[2] ELSE None
ParseSort(raw) == IF raw[1] = "sort" THEN raw[2] ELSE None

\* An empty cursor is no cursor.
ParseCursor(raw) == IF raw[2] = 0 THEN None ELSE raw[2]

Parse(field, raw) ==
  CASE field = "limit" -> ParseLimit(raw)
    [] field = "cursor" -> ParseCursor(raw)
    [] field = "includeArchived" -> ParseBool(raw)
    [] field = "sortBy" -> ParseSort(raw)
    [] OTHER -> ParseDate(raw)

\* The parameters laid over a base: what is missing or refused stays as it was.
QueryFilterFromSearchParams(params, base) ==
  [f \in Fields |->
     IF f \in DOMAIN params THEN
       IF Parse(f, params[f]) # None THEN Parse(f, params[f]) ELSE base[f]
     ELSE base[f]]

\* What a server makes of a request: defaults, parameters, and no limit of 0.
ExtractQueryFilter(params) ==
  LET f == QueryFilterFromSearchParams(params, DefaultQueryFilter)
  IN IF f["limit"] = 0 THEN [f EXCEPT !["limit"] = DefaultLimit] ELSE f

Written(field, value) ==
  CASE field = "limit" -> <<"number", value>>
    [] field = "cursor" -> <<"text", value>>
    [] field = "includeArchived" -> <<"bool", value>>
    [] field = "sortBy" -> <<"sort", value>>
    [] OTHER -> <<"date", value>>

\* One parameter for each field that is set.
ToSearchParams(f) ==
  [field \in {x \in Fields : f[x] # None} |-> Written(field, f[field])]

-----------------------------------------------------------------------------
(* Pages.                                                                  *)

\* Rows in the order of the list.
Increasing(s) == \A i, j \in DOMAIN s : i < j => s[i] < s[j]
Ascending(R) == CHOOSE s \in [1..Cardinality(R) -> R] : Increasing(s)

\* The caller's query (external).
Query(f) ==
  LET after == Ascending({r \in rows : f["cursor"] = None \/ r > f["cursor"]})
  IN SubSeq(after, 1, IF Len(after) < f["limit"] THEN Len(after) ELSE f["limit"])

\* A page whose cursor is its first row.
FirstCursor(data, f) ==
  [data |-> data, cursor |-> IF data = <<>> THEN 0 ELSE Head(data),
   previousCursor |-> IF f["cursor"] = None THEN 0 ELSE f["cursor"], limit |-> f["limit"]]

\* newQueryFilteredResult: the cursor is the last row's id, empty (0) only on an
\* empty page.
NewQueryFilteredResult(data, f) ==
  [data |-> data, cursor |-> IF data = <<>> THEN 0 ELSE data[Len(data)],
   previousCursor |-> IF f["cursor"] = None THEN 0 ELSE f["cursor"], limit |-> f["limit"]]

Init ==
  /\ rows \in SUBSET Row
  /\ \E l \in Limits \union {None}, d, u \in Instants \union {None},
        a \in {TRUE, FALSE, None}, s \in {"asc", None} :
       filter = [EmptyFilter EXCEPT !["limit"] = l, !["createdAfter"] = d,
                   !["updatedBefore"] = u, !["includeArchived"] = a, !["sortBy"] = s]
  /\ page = None /\ seen = <<>> /\ walking = TRUE

\* One request for a page and its answer.
Fetch ==
  LET f == ExtractQueryFilter(ToSearchParams(filter))
      answer == NewQueryFilteredResult(Query(f), f)
  IN /\ walking
     /\ page' = answer
     /\ seen' = seen \o answer.data
     /\ walking' = (answer.cursor # 0)
     /\ filter' = [filter EXCEPT !["cursor"] = IF answer.cursor = 0 THEN @ ELSE answer.cursor]
     /\ UNCHANGED rows

Next == Fetch

Spec == Init /\ [][Next]_filterVars

-----------------------------------------------------------------------------

\* A filter survives the URL, save for a limit above the ceiling; the server's own
\* reading of it has a limit that fetches something, and never lets a parameter it
\* cannot read undo a constraint.
FiltersTravel ==
  LET f == QueryFilterFromSearchParams(ToSearchParams(filter), EmptyFilter)
      junk == [x \in Fields \ {"cursor"} |-> <<"text", 0>>]
  IN /\ \A x \in Fields \ {"limit"} : f[x] = filter[x]
     /\ filter["limit"] # None =>
          f["limit"] = IF filter["limit"] > MaxLimit THEN MaxLimit ELSE filter["limit"]
     /\ ExtractQueryFilter(ToSearchParams(filter))["limit"] \in 1..MaxLimit
     /\ QueryFilterFromSearchParams(junk, filter) = filter

\* A client that follows the cursors is given every row once, in order, and every
\* page but the last brings it further, so that the walk ends.
PagesCoverTheList ==
  /\ Len(seen) <= Cardinality(rows) /\ seen = SubSeq(Ascending(rows), 1, Len(seen))
  /\ ~walking => seen = Ascending(rows)
  /\ walking /\ page # None =>
       /\ page.data # <<>> /\ Len(page.data) <= page.limit
       /\ page.previousCursor < Head(page.data)
=============================================================================
