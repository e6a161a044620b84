---------------------------- MODULE Authorization ----------------------------
(***************************************************************************)
(* The authorization package: a policy of roles that inherit from one      *)
(* another (policy.ts), the resolver that expands it once and remembers    *)
(* unions (providers/static.ts), and what a session carries and a browser  *)
(* rebuilds from it (permission.ts, grants.ts).                            *)
(*                                                                         *)
(* A process builds one resolver over a policy and then asks it for the    *)
(* authority of lists of roles, one after another; permissions are model   *)
(* values, and Blank stands for "" both as a name and as a permission.     *)
(***************************************************************************)
EXTENDS Integers, Sequences, SequencesExt, FiniteSets, FiniteSetsExt, TLC

CONSTANTS
  None,
  Blank,       \* the empty string
  Policies,    \* the sequences of roles a process may be configured with
  Names,       \* the role names its principals may be assigned
  Alphabet,    \* those names in the order of the strings they are
  Parts,       \* the pieces NUL separates a name into: one, if it holds no NUL
  MaxNames,    \* bound: the roles of one principal
  MaxAsked     \* bound: the lists a resolver is asked for

VARIABLES
  policy,      \* the roles the resolver was given
  fault,       \* the reason the constructor threw, if it did
  expanded,    \* StaticPolicyResolver.#expanded
  memo,        \* StaticPolicyResolver.#memo
  asked,       \* how many lists it was asked for
  answer       \* the last list and the permissions it answered with

authVars == <<policy, fault, expanded, memo, asked, answer>>

AuthorizationAssumption ==
  /\ MaxNames \in Nat /\ MaxAsked \in Nat
  /\ Names = Range(Alphabet) /\ \A n \in Names : Parts[n] # <<>>
  /\ \A p \in Policies, i \in 1..10 :
       i \in DOMAIN p => DOMAIN p[i] = {"name", "permissions", "inherits"}

-----------------------------------------------------------------------------
(* Permission sets and grants.                                             *)

\* A set drops the empty permission, so nothing can be granted by a blank.
PermissionSet(perms) == perms \ {Blank}

Has(set, perm) == perm # Blank /\ perm \in set

\* What toJSON and permissionSetFromJSON make of a set on its way to a browser; a
\* value that is not an array of permissions costs its holder all authority.
FromJSON(value) == IF value = None THEN {} ELSE PermissionSet(value)

\* A principal's sets, kept apart, without the ones that grant nothing.
NewGrants(sets) == [sets |-> SelectSeq(sets, LAMBDA s : s # None /\ s # {})]

GrantsHas(grants, perm) ==
  \E i \in DOMAIN grants.sets : Has(grants.sets[i], perm)

\* All of a list, vacuously when it is empty.
GrantsHasAll(grants, perms) == \A i \in DOMAIN perms : GrantsHas(grants, perms[i])

GrantsHasAny(grants, perms) == \E i \in DOMAIN perms : GrantsHas(grants, perms[i])

\* The outcome for each of a list, denials included.
Evaluate(grants, perms) == [p \in Range(perms) |-> GrantsHas(grants, p)]

\* What is missing of a list, in its order.
Missing(grants, perms) == SelectSeq(perms, LAMBDA p : ~GrantsHas(grants, p))

GrantsFromJSON(values) == NewGrants([i \in DOMAIN values |-> FromJSON(values[i])])

-----------------------------------------------------------------------------
(* Policies.                                                               *)

RoleNames(roles) == {roles[i].name : i \in DOMAIN roles}

\* byName.get(name): the last role of that name, and none for an unknown one.
Parents(roles, name) ==
  IF name \in RoleNames(roles)
  THEN roles[Max({i \in DOMAIN roles : roles[i].name = name})].inherits ELSE <<>>

Direct(roles, name) ==
  IF name \in RoleNames(roles)
  THEN roles[Max({i \in DOMAIN roles : roles[i].name = name})].permissions ELSE {}

\* The depth-first walk from one name; None once it has met a role it is still
\* visiting, which is the exception that unwinds it.
RECURSIVE Walk(_, _, _)
Walk(roles, state, name) ==
  IF state = None \/ state[name] = "visiting" THEN None
  ELSE IF state[name] = "visited" THEN state
  ELSE LET end == FoldLeft(LAMBDA s, parent : Walk(roles, s, parent),
                           [state EXCEPT ![name] = "visiting"], Parents(roles, name))
       IN IF end = None THEN None ELSE [end EXCEPT ![name] = "visited"]

DetectCycles(roles) ==
  FoldLeft(LAMBDA s, name : Walk(roles, s, name),
           [n \in RoleNames(roles) |-> "new"], SetToSeq(RoleNames(roles))) = None

\* The first thing wrong with the names, and with the parents, in the order read.
NameFault(roles, i) ==
  IF roles[i].name = Blank THEN "empty-role-name"
  ELSE IF roles[i].name \in RoleNames(SubSeq(roles, 1, i - 1)) THEN "duplicate-role"
  ELSE None

ParentFault(roles, i) ==
  LET inherits == roles[i].inherits
      faulty == {k \in DOMAIN inherits : inherits[k] \notin RoleNames(roles)
                                           \/ inherits[k] = roles[i].name}
  IN IF faulty = {} THEN None
     ELSE IF inherits[Min(faulty)] = roles[i].name THEN "self-inheritance"
     ELSE "unknown-parent-role"

\* The reason a policy is refused for; None for a well-formed one.
ValidateRoles(roles) ==
  LET First(Fault(_)) ==
        LET faulty == {i \in DOMAIN roles : Fault(i) # None}
        IN IF faulty = {} THEN None ELSE Fault(Min(faulty))
      name == First(LAMBDA i : NameFault(roles, i))
      parent == First(LAMBDA i : ParentFault(roles, i))
  IN IF name # None THEN name
     ELSE IF parent # None THEN parent
     ELSE IF DetectCycles(roles) THEN "inheritance-cycle" ELSE None

\* One role's effective set, remembered before its parents are resolved and after
\* each of them.
RECURSIVE Resolve(_, _, _)
Resolve(roles, done, name) ==
  IF name \in DOMAIN done THEN done
  ELSE FoldLeft(LAMBDA d, parent :
                  LET r == Resolve(roles, d, parent)
                  IN [r EXCEPT ![name] = @ \cup r[parent]],
                (name :> PermissionSet(Direct(roles, name))) @@ done,
                Parents(roles, name))

\* Every role's effective set, of a policy that was validated.
ExpandInheritance(roles) ==
  FoldLeft(LAMBDA d, role : Resolve(roles, d, role.name), <<>>, roles)

-----------------------------------------------------------------------------
(* The resolver.                                                           *)

Built == fault = None

Effective(name) == IF name \in DOMAIN expanded THEN expanded[name] ELSE {}

Rank(name) == CHOOSE i \in DOMAIN Alphabet : Alphabet[i] = name

\* A key that leaves out every name but the first.
FirstNameKey(names) == Parts[Head(names)]

\* The names in order, joined on NUL: what NUL separates, of every name in its turn.
MemoKey(names) ==
  LET sorted == SortSeq(names, LAMBDA m, n : Rank(m) < Rank(n))
  IN FlattenSeq([i \in DOMAIN sorted |-> Parts[sorted[i]]])

Union(names) == UNION {Effective(names[i]) : i \in DOMAIN names}

Init ==
  /\ policy \in Policies
  /\ fault = ValidateRoles(policy)
  /\ expanded = IF fault = None THEN ExpandInheritance(policy) ELSE <<>>
  /\ memo = <<>> /\ asked = 0
  /\ answer = [names |-> <<>>, set |-> {}]

\* permissionsForRoles: one name is looked up, several are united once.
ResolveRoles(names) ==
  LET key == MemoKey(names)
      set == IF Len(names) <= 1 THEN Union(names)
             ELSE IF key \in DOMAIN memo THEN memo[key] ELSE Union(names)
  IN /\ Built /\ asked < MaxAsked
     /\ asked' = asked + 1
     /\ answer' = [names |-> names, set |-> set]
     /\ memo' = IF Len(names) <= 1 THEN memo ELSE (key :> set) @@ memo
     /\ UNCHANGED <<policy, fault, expanded>>

Next == \E n \in 0..MaxNames : \E names \in [1..n -> Names] : ResolveRoles(names)

Spec == Init /\ [][Next]_authVars

-----------------------------------------------------------------------------
(* Properties.                                                             *)

TypeOK ==
  /\ \A n \in DOMAIN expanded : Blank \notin expanded[n]
  /\ asked \in 0..MaxAsked

\* The roles a name inherits from, itself included, over any number of steps.
Ancestry(name) ==
  LET Step(set) == set \cup UNION {Range(Parents(policy, n)) : n \in set}
  IN Step(Step(Step(Step({name}))))

\* A policy is refused if and only if a name is blank or repeated, a parent
\* unknown, or a role among the ancestors of its own parents.
RefusedForCause ==
  Built <=> /\ Blank \notin RoleNames(policy)
            /\ Cardinality(RoleNames(policy)) = Len(policy)
            /\ \A n \in RoleNames(policy) :
                 /\ Range(Parents(policy, n)) \subseteq RoleNames(policy)
                 /\ \A p \in Range(Parents(policy, n)) : n \notin Ancestry(p)

\* What a list of roles resolves to is what they and all their ancestors grant,
\* whatever order policy and list are in and whatever was asked before; a role
\* the policy does not know adds nothing.  "A role name cannot usefully contain"
\* the NUL that memo keys are joined on (static.ts:111-112): with one in a name two
\* lists may share a key, which nothing refuses, and nothing is promised here.
AuthorityIsInherited ==
  Built /\ (\A n \in Names : Len(Parts[n]) = 1) => answer.set = PermissionSet(UNION {Direct(policy, a) :
             a \in UNION {Ancestry(n) : n \in Range(answer.names)}})

\* A browser that rebuilds the grants of a session from JSON decides as the server
\* does; what is missing of a list is empty exactly when all of it is granted.
GrantsTravel ==
  Built =>
    LET server == NewGrants(<<None, answer.set>> \o [i \in DOMAIN answer.names |->
                                                     Effective(answer.names[i])])
        browser == GrantsFromJSON(<<None, answer.set>>)
        perms == SetToSeq(UNION {policy[i].permissions : i \in DOMAIN policy})
    IN /\ Evaluate(server, perms) = Evaluate(browser, perms)
       /\ GrantsHasAll(browser, perms) <=> Missing(browser, perms) = <<>>
       /\ ~GrantsHasAny(browser, perms) => answer.set = {}
       /\ ~GrantsHas(browser, Blank)
=============================================================================
