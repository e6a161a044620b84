----------------------------- MODULE AtMostOnce -----------------------------
(***************************************************************************)
(* What idempotency promises for one key, without stores, locks or time:   *)
(* at any moment the key is free, held by one execution, or settled with   *)
(* that execution's result; and no caller is told anything the key's       *)
(* history does not support.                                               *)
(***************************************************************************)
CONSTANTS Request, FpOf, None

VARIABLES
  holder,   \* the run that holds the key, or None
  settled,  \* the run whose result is retained, or None
  claimed,  \* every run that ever held the key
  produced, \* every run whose work returned a result worth keeping
  answer    \* what each run was told

vars == <<holder, settled, claimed, produced, answer>>

Init ==
  /\ holder = None
  /\ settled = None
  /\ claimed = {}
  /\ produced = {}
  /\ answer = [r \in Request |-> None]

Reply(r, a) == answer[r] = None /\ answer' = [answer EXCEPT ![r] = a]

\* A run may take the key only when nobody holds it and no result is retained.
Take(r) ==
  /\ holder = None /\ settled = None
  /\ r \notin claimed
  /\ holder' = r
  /\ claimed' = claimed \union {r}
  /\ UNCHANGED <<settled, produced, answer>>

\* Work finishes only while its run holds the key.
Produce(r) ==
  /\ holder = r /\ r \notin produced
  /\ produced' = produced \union {r}
  /\ UNCHANGED <<holder, settled, claimed, answer>>

\* The holder's result is retained.
Settle(r) ==
  /\ holder = r /\ r \in produced
  /\ holder' = None
  /\ settled' = r
  /\ Reply(r, [status |-> "executed"])
  /\ UNCHANGED <<claimed, produced>>

\* The holder gives the key back without a result to keep.
GiveBack(r) ==
  /\ holder = r /\ r \notin produced
  /\ holder' = None
  /\ \E status \in {"executed", "threw"} : Reply(r, [status |-> status])
  /\ UNCHANGED <<settled, claimed, produced>>

\* A hold, or a retained result, comes to the end of its life.
Expire ==
  /\ \/ holder # None /\ holder' = None /\ UNCHANGED settled
     \/ settled # None /\ settled' = None /\ UNCHANGED holder
  /\ UNCHANGED <<claimed, produced, answer>>

\* The evidence each answer needs.
Supported(r, a) ==
  \/ a.status = "unavailable"
  \/ a.status \in {"executed", "threw"} /\ r \in claimed
  \/ a.status = "in-flight" /\ r \notin claimed
  \/ /\ a.status = "mismatch" /\ r \notin claimed
     /\ \E s \in claimed : FpOf[s] # FpOf[r]
  \/ /\ a.status = "replayed" /\ r \notin claimed
     /\ a.value \in produced /\ FpOf[a.value] = FpOf[r]

Answers ==
  [status : {"executed", "threw", "in-flight", "mismatch", "unavailable"}]
    \union [status : {"replayed"}, value : Request]

Tell(r) ==
  /\ \E a \in Answers : Supported(r, a) /\ Reply(r, a)
  /\ UNCHANGED <<holder, settled, claimed, produced>>

Next ==
  \/ Expire
  \/ \E r \in Request : Take(r) \/ Produce(r) \/ Settle(r) \/ GiveBack(r) \/ Tell(r)

Spec == Init /\ [][Next]_vars
=============================================================================
