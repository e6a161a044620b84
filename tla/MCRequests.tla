------------------------------ MODULE MCRequests ------------------------------
(* Instances of Outgoing for TLC.                                          *)
EXTENDS Outgoing

CONSTANTS web, ios, db, mq

\* A sound call with neither a deadline nor a signal nor a policy.
Plain(api, vendor, method) ==
  [api |-> api, vendor |-> vendor, method |-> method, idempotent |-> "unset",
   policy |-> FALSE, picky |-> FALSE, timed |-> FALSE, signalled |-> FALSE,
   strict |-> FALSE, sound |-> TRUE]

Postmark == Plain("sdk", "postmark", "POST")

Rest == {"resend", "sendgrid", "mailgun", "mailjet"}
Models == {"anthropic", "openai"}

\* Every operation, with every combination of what its config and its caller may
\* give it; of the methods one that may be replayed and one that may not.
Calls ==
  {[Plain("http", "fetch", m) EXCEPT !.idempotent = i, !.policy = p, !.timed = t,
      !.signalled = s, !.strict = n] :
     m \in {"GET", "POST"}, i \in {"unset", "yes", "no"},
     p \in BOOLEAN, t \in BOOLEAN, s \in BOOLEAN, n \in BOOLEAN}
  \union {[Plain("http", "fetch", "PUT") EXCEPT !.sound = FALSE], Postmark}
  \union {[Plain("send", v, "POST") EXCEPT !.policy = p, !.timed = t, !.sound = b] :
            v \in Rest, p \in BOOLEAN, t \in BOOLEAN, b \in BOOLEAN}
  \union {[Plain("complete", v, "POST") EXCEPT !.policy = p, !.picky = k, !.timed = t,
             !.signalled = s] :
            v \in Models, p \in BOOLEAN, k \in BOOLEAN, t \in BOOLEAN, s \in BOOLEAN}
  \union {[Plain("stream", v, "POST") EXCEPT !.signalled = s] :
            v \in Models, s \in BOOLEAN}
  \union {Plain("ping", v, "GET") : v \in Rest}
  \union {[Plain("ping", v, "GET") EXCEPT !.policy = p, !.timed = t] :
            v \in Models, p \in BOOLEAN, t \in BOOLEAN}

\* A server's SDK beside another, a browser's, a reporter without a vendor, one
\* that cannot be built, and a source that nobody knows.
Configs == {[s \in {web, ios} |-> IF s = web THEN "segment" ELSE p] :
              p \in {"posthog", "posthog-browser", "memory", "broken", Absent}}
===============================================================================
