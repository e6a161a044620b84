------------------------------- MODULE Cookies -------------------------------
(***************************************************************************)
(* The cookies package: the server's store, which reads one request's      *)
(* Cookie header and gathers the Set-Cookie headers of its response        *)
(* (providers/header.ts), the page's store over document.cookie            *)
(* (providers/document.browser.ts), and the syntax both share              *)
(* (serialize.ts).  A browser (external) keeps the jar, sends it with each *)
(* request and applies what the response sets.                             *)
(*                                                                         *)
(* A cookie's wire form is a pair: "encoded" and the value, or "raw" and   *)
(* what another script wrote, which no URI decoding may undo.  Every name  *)
(* is used with one path, as a store's defaults have it.                   *)
(***************************************************************************)
EXTENDS Integers

CONSTANTS
  None,
  Cookie,      \* well-formed names
  Plain,       \* a value that needs no encoding
  Special,     \* a value with a semicolon, cut short unless it is encoded
  Foreign,     \* "%zz": encodes like any value, but is no encoding of one
  Lone,        \* a value with a lone surrogate, which cannot be encoded
  Huge,        \* a value past the size any browser keeps
  MaxOps       \* bound: the operations of one behaviour

VARIABLES
  jar,         \* the browser's cookies: name -> wire form
  phase,       \* of a request: "idle", "handling", "answered"
  cookies,     \* HeaderCookieStore.#cookies
  pending,     \* HeaderCookieStore.#pending
  told,        \* names whose handler was told that a set or delete may not hold
  ops

cookieVars == <<jar, phase, cookies, pending, told, ops>>

Values == {Plain, Special, Foreign, Lone, Huge}

\* A plain value is none of those that are hard to write or to keep.
CookiesAssumption == Plain \notin {Special, Foreign, Lone, Huge}

\* What a set or delete is called with: attributes that hold, a Max-Age that
\* truncates to 0, and a Max-Age, domain or path the grammar refuses.
Options == {"lasting", "expired", "refused"}

-----------------------------------------------------------------------------
(* serialize.ts                                                            *)

\* A value put on the wire as it is, so that a semicolon ends it.
Unencoded(value) == IF value = Special THEN <<"encoded", Plain>> ELSE <<"encoded", value>>

\* encodeURIComponent, which throws on a lone surrogate: None.
Encoded(value) == IF value = Lone THEN None ELSE <<"encoded", value>>

\* A Set-Cookie value; None when it throws a TypeError or URIError.
SerializeCookie(value, options) ==
  IF options = "refused" \/ Encoded(value) = None THEN None
  ELSE [wire |-> Encoded(value), expires |-> options = "expired"]

\* One pair of a Cookie header: an undecodable value is passed through raw.
Decoded(wire) == wire[2]

\* A header, or document.cookie, as a map of values.
ParseCookieHeader(sent) == [n \in DOMAIN sent |-> Decoded(sent[n])]

\* More bytes than MAX_COOKIE_BYTES: the store warns, and browsers drop it.
Oversized(cookie) == cookie.wire[2] = Huge

\* A map with a name put into it.
With(map, name, value) ==
  [n \in DOMAIN map \union {name} |-> IF n = name THEN value ELSE map[n]]

\* A browser drops what is too big, deletes what has expired, keeps the rest.
Kept(stored, set) ==
  LET fits == {n \in DOMAIN set : ~Oversized(set[n])}
      gone == {n \in fits : set[n].expires}
  IN [n \in (DOMAIN stored \cup fits) \ gone |->
        IF n \in fits THEN set[n].wire ELSE stored[n]]

-----------------------------------------------------------------------------

Init ==
  /\ jar = <<>> /\ phase = "idle" /\ cookies = <<>> /\ pending = <<>>
  /\ told = {} /\ ops = 0

Count == ops < MaxOps /\ ops' = ops + 1

\* A request reaches the server: a new store over its Cookie header.
Receive ==
  /\ Count /\ phase # "handling"
  /\ phase' = "handling"
  /\ cookies' = ParseCookieHeader(jar)
  /\ pending' = <<>> /\ told' = {}
  /\ UNCHANGED jar

\* HeaderCookieStore.set: the map first, then the serialization, which may throw.
HeaderSet(name, value, options) ==
  LET set == SerializeCookie(value, options)
  IN /\ Count /\ phase = "handling"
     /\ cookies' = With(cookies, name, value)
     /\ pending' = IF set = None THEN pending ELSE With(pending, name, set)
     /\ told' = IF set = None \/ options = "expired" THEN told \cup {name}
                ELSE IF Oversized(set) THEN told \cup {name} ELSE told \ {name}
     /\ UNCHANGED <<jar, phase>>

\* HeaderCookieStore.delete: an empty value that has expired, under the attributes
\* given, which may be refused after the map has lost the name.
HeaderDelete(name, options) ==
  LET set == SerializeCookie(Plain, IF options = "refused" THEN options ELSE "expired")
  IN /\ Count /\ phase = "handling"
     /\ cookies' = [n \in DOMAIN cookies \ {name} |-> cookies[n]]
     /\ pending' = IF set = None THEN pending ELSE With(pending, name, set)
     /\ told' = IF set = None THEN told \cup {name} ELSE told \ {name}
     /\ UNCHANGED <<jar, phase>>

\* The handler writes headers() onto its response, and the browser applies them.
Respond ==
  /\ phase = "handling" /\ phase' = "answered"
  /\ jar' = Kept(jar, pending)
  /\ UNCHANGED <<cookies, pending, told, ops>>

\* Between requests the page's own scripts write to the jar; a throw leaves it alone.
OnThePage(written) ==
  /\ Count /\ phase # "handling"
  /\ phase' = "idle"
  /\ jar' = written
  /\ UNCHANGED <<cookies, pending, told>>

\* DocumentCookieStore.set.
DocumentSet(name, value, options) ==
  LET set == SerializeCookie(value, options)
  IN OnThePage(IF set = None THEN jar ELSE Kept(jar, With(<<>>, name, set)))

\* DocumentCookieStore.delete.
DocumentDelete(name) == OnThePage(Kept(jar, With(<<>>, name, SerializeCookie(Plain, "expired"))))

\* Another script writes document.cookie, encoded or not.
ForeignWrite(name) ==
  \E wire \in {<<"raw", Foreign>>, <<"encoded", Special>>} : OnThePage(With(jar, name, wire))

Next ==
  \/ Receive \/ Respond
  \/ \E n \in Cookie :
       \/ \E v \in Values, o \in Options : HeaderSet(n, v, o) \/ DocumentSet(n, v, o)
       \/ \E o \in Options : HeaderDelete(n, o)
       \/ DocumentDelete(n) \/ ForeignWrite(n)

Spec == Init /\ [][Next]_cookieVars

-----------------------------------------------------------------------------

\* Once the response is applied, what the next request will read of a name is
\* what the handler itself last read of it, set or deleted, decoding and encoding
\* included, unless its store warned it, threw, or was asked for an expired cookie.
ReadsReflectWrites ==
  phase = "answered" =>
    \A n \in Cookie \ told :
      /\ n \in DOMAIN jar <=> n \in DOMAIN cookies
      /\ n \in DOMAIN jar => ParseCookieHeader(jar)[n] = cookies[n]
=============================================================================
