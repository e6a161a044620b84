----------------------------- MODULE LeaseLock -----------------------------
(***************************************************************************)
(* What distributedlock.ts promises for one key, without stores or clocks: *)
(* at most one acquire() call owns the key at a time, a caller is told it  *)
(* holds the key only if it was granted, and a call that has been answered *)
(* never comes to own the key again once its lease has ended.              *)
(***************************************************************************)
CONSTANTS Token, None

VARIABLES
  owner,    \* the acquire() call whose lease is live, or None
  entitled, \* the calls that may still be answered with a lock
  resolved  \* the calls that have been answered

vars == <<owner, entitled, resolved>>

Init == owner = None /\ entitled = {} /\ resolved = {}

\* The call takes a free key; if nobody awaits it, nobody is entitled to it.
Grant(t) ==
  /\ owner = None /\ t \notin resolved
  /\ owner' = t
  /\ entitled' \in {entitled, entitled \union {t}}
  /\ UNCHANGED resolved

\* The lease is released by its owner, or lapses.
End ==
  /\ owner # None
  /\ owner' = None
  /\ UNCHANGED <<entitled, resolved>>

AnswerHeld(t) ==
  /\ t \in entitled \ resolved
  /\ entitled' = entitled \ {t}
  /\ resolved' = resolved \union {t}
  /\ UNCHANGED owner

AnswerRefused(t) ==
  /\ t \notin entitled \union resolved
  /\ resolved' = resolved \union {t}
  /\ UNCHANGED <<owner, entitled>>

\* The answer is lost on its way.
Forfeit(t) ==
  /\ t \in entitled
  /\ entitled' = entitled \ {t}
  /\ UNCHANGED <<owner, resolved>>

Next ==
  \/ End
  \/ \E t \in Token : Grant(t) \/ AnswerHeld(t) \/ AnswerRefused(t) \/ Forfeit(t)

Spec == Init /\ [][Next]_vars
=============================================================================
