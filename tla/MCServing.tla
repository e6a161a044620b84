------------------------------- MODULE MCServing -------------------------------
(***************************************************************************)
(* What a server does with a request that comes in: it is admitted by the  *)
(* rate limiter, roles decide on it, cookies, lists, credentials and texts *)
(* are read and written.  These share nothing, so each behaviour is of one *)
(* of them, chosen at the start, and the others stand still.               *)
(***************************************************************************)
EXTENDS Serving

CONSTANTS u1, u2, Blank, a, b, c, ghost, pa, pb, pc,
          Data, Done, Char, Space, CR, LF, Lead, Trail, Wide, Bad, Up

VARIABLES
  part,
  policy, fault, expanded, memo, asked, answer,
  case, result,
  given, outcome

policyVars == <<policy, fault, expanded, memo, asked, answer>>
credentialVars == <<case, result>>
textVars == <<given, outcome>>

\* A cost that is refused, and one that takes the whole limit.
CostsInPlay == {-1, 1, 2}

Granted == [n \in {a, b, c} |-> IF n = a THEN {pa, Blank} ELSE IF n = b THEN {pb} ELSE {pc, pa}]

Role(name, inherits) ==
  [name |-> name, inherits |-> inherits,
   permissions |-> IF name = Blank THEN {pa} ELSE Granted[name]]

\* The lists of up to two parents.
Lists(names) == {<<>>} \cup {<<n>> : n \in names} \cup (names \X names)

\* All inheritance among three roles, and two roles with every fault of a name or
\* a parent.
Roles ==
  {<<>>}
  \cup {<<Role(a, x), Role(b, y), Role(c, z)>> :
          x \in Lists({b, c}), y \in Lists({a, c}), z \in Lists({a, b})}
  \cup {<<Role(m, x), Role(n, y)>> :
          m \in {a, b, Blank}, n \in {a, b, Blank},
          x \in Lists({a, b, ghost}), y \in Lists({a, b, ghost})}

P == INSTANCE Authorization WITH
  Policies <- Roles, Names <- {a, b, ghost}, Alphabet <- <<a, b, ghost>>,
  Parts <- [n \in {a, b, ghost} |-> <<n>>], MaxNames <- 2, MaxAsked <- 3

K == INSTANCE Credentials WITH
  given <- case, outcome <- result,
  Period <- 3, Instants <- 0..14, Windows <- 0..2, Bytes <- {0, 1, 127, 128, 255},
  MaxBytes <- 3, Costs <- {1, 2, 3, 4, 8, 16}, Blocks <- 1..4, Parallels <- 1..4,
  Salts <- {0, 16}, MaxCost <- 8, MaxBlock <- 3, MaxParallel <- 3

T == INSTANCE TextStreams WITH
  MaxText <- 4, MaxBody <- 2, Chunks <- 0..3, Types <- {"json", "yaml", "text"},
  Supported <- {"json", "yaml"}

ASSUME P!AuthorizationAssumption /\ K!CredentialsAssumption /\ T!TextStreamsAssumption

Init ==
  /\ part \in {"limiter", "policy", "cookies", "list", "credentials", "text"}
  /\ ServingInit
  /\ part # "limiter" => limiter = "noop"
  /\ part # "list" => rows = {} /\ filter = L!EmptyFilter
  /\ IF part = "policy" THEN P!Init
     ELSE policy = <<>> /\ fault = None /\ expanded = <<>> /\ memo = <<>> /\ asked = 0
            /\ answer = [names |-> <<>>, set |-> {}]
  /\ IF part = "credentials" THEN K!Init
     ELSE case = [kind |-> "none"] /\ result = <<>>
  /\ IF part = "text" THEN T!Init ELSE given = [kind |-> "none"] /\ outcome = None

Still == UNCHANGED <<policyVars, credentialVars, textVars>>

Deciding  == P!Next /\ UNCHANGED <<servingVars, credentialVars, textVars>>
Computing == K!Compute /\ UNCHANGED <<servingVars, policyVars, textVars>>
Reading   == T!Next /\ UNCHANGED <<servingVars, policyVars, credentialVars>>

Next ==
  /\ UNCHANGED part
  /\ \/ part = "limiter" /\ Admitting /\ Still
     \/ part = "cookies" /\ Handling /\ Still
     \/ part = "list" /\ Listing /\ Still
     \/ part = "policy" /\ Deciding
     \/ part = "credentials" /\ Computing
     \/ part = "text" /\ Reading

vars == <<part, servingVars, policyVars, credentialVars, textVars>>

Spec == Init /\ [][Next]_vars

Symmetric == Permutations({u1, u2})

-----------------------------------------------------------------------------
(* Besides the properties of Serving, those of the others.                *)

\* A policy is refused for cause only, and what roles resolve to is what they and
\* all their ancestors grant, in whatever order and however often they are asked
\* for, on the server and in the browser (Authorization).
AuthorityIsExact ==
  /\ P!TypeOK /\ P!RefusedForCause
  /\ part = "policy" => P!AuthorityIsInherited /\ P!GrantsTravel

\* A secret is read back from its text unless a space follows its padding, a
\* one-time code is good within its window only, a password hash for its password
\* only (Credentials); an event stream and a file are read the same however they are
\* cut, no body beyond its limit is decoded, and no name leads out of its directory
\* (TextStreams).
DecodingIsExact ==
  /\ K!SecretsAreReadBack /\ K!CodesExpire /\ K!HashesVerify
  /\ T!CutsDoNotShow /\ T!LinesAgree /\ T!BodiesAreBounded /\ T!NamesStayBelow
=============================================================================
