----------------------------- MODULE Credentials -----------------------------
(***************************************************************************)
(* The authentication package's algorithms: one-time codes                 *)
(* (providers/totp.ts) with the base32 form of their secrets, and password *)
(* hashes (providers/scrypt.ts).  HMAC and scrypt themselves are external: *)
(* codes of different steps and keys of different inputs differ.  A case   *)
(* is chosen and then computed.                                            *)
(***************************************************************************)
EXTENDS Integers, Sequences, SequencesExt, FiniteSets

CONSTANTS
  None,
  Period,        \* ticks in a time step
  Instants,      \* ticks a code is generated or checked at
  Windows,       \* what verify accepts on either side
  Bytes,         \* the bytes secrets are made of
  MaxBytes,      \* bound: the length of a secret
  Costs, Blocks, Parallels,   \* N, r and p a hasher is built with
  Salts,         \* the lengths of salts
  MaxCost, MaxBlock, MaxParallel   \* the ceilings verify() applies

VARIABLES given, outcome

credentialVars == <<given, outcome>>

CredentialsAssumption ==
  /\ Period \in Nat \ {0} /\ Instants \subseteq Nat /\ Windows \subseteq Nat
  /\ Bytes \subseteq 0..255

-----------------------------------------------------------------------------
(* Base32.  value is a 32-bit accumulator of which only the low 12 bits    *)
(* are ever read, so it is kept to 16.                                     *)

Low(n) == n % (2^16)

\* Characters are the digits 0..31, padding, whitespace, or none of the alphabet.
Pad == 32
Gap == 33
Junk == 34

\* Digits leave as soon as there are five bits; at most two of them per byte.
PushByte(s, byte) ==
  LET value == Low(s.value * 256 + byte)
      bits == s.bits + 8
      first == (value \div 2^(bits - 5)) % 32
      second == IF bits >= 10 THEN <<(value \div 2^(bits - 10)) % 32>> ELSE <<>>
  IN [value |-> value, out |-> s.out \o <<first>> \o second, bits |-> bits % 5]

Base32Encode(bytes) ==
  LET s == FoldLeft(PushByte, [value |-> 0, bits |-> 0, out |-> <<>>], bytes)
  IN IF s.bits = 0 THEN s.out
     ELSE Append(s.out, (s.value * 2^(5 - s.bits)) % 32)

\* A byte leaves whenever eight bits are there; a character outside the alphabet
\* (None) is an InvalidTOTPSecretError.
PushDigit(s, digit) ==
  LET value == Low(s.value * 32 + digit)
      bits == s.bits + 5
  IN IF bits < 8 THEN [s EXCEPT !.value = value, !.bits = bits]
     ELSE [value |-> value, bits |-> bits - 8,
           out |-> Append(s.out, (value \div 2^(bits - 8)) % 256)]

\* Padding is stripped from the end, whitespace from anywhere, in this order.
Base32Decode(text) ==
  LET ends == {n \in 0..Len(text) : \A i \in (n + 1)..Len(text) : text[i] = Pad}
      last == CHOOSE n \in ends : \A m \in ends : n <= m
      digits == SelectSeq(SubSeq(text, 1, last), LAMBDA c : c # Gap)
  IN IF \E i \in DOMAIN digits : digits[i] \notin 0..31 THEN None
     ELSE FoldLeft(PushDigit, [value |-> 0, bits |-> 0, out |-> <<>>], digits).out

-----------------------------------------------------------------------------
(* One-time codes.  A code is the key and the step it is of.               *)

CounterAt(at) == at \div Period

\* None when the secret is malformed or the step negative, which throw.
CodeForCounter(secret, counter) ==
  IF Base32Decode(secret) = None \/ counter < 0 THEN None
  ELSE <<Base32Decode(secret), counter>>

Generate(secret, at) == CodeForCounter(secret, CounterAt(at))

\* A check of the steps behind only.
Behind(counter, window) == [i \in 1..(window + 1) |-> counter - window + i - 1]

\* The steps in the order verify tries them.
Candidates(counter, window) == [i \in 1..(2 * window + 1) |-> counter - window + i - 1]

\* The first candidate that is equal, or an exception, ends the loop.
Verify(secret, code, window, at) ==
  LET steps == Candidates(CounterAt(at), window)
      codes == [i \in DOMAIN steps |-> CodeForCounter(secret, steps[i])]
      hits == {i \in DOMAIN codes : codes[i] = code}
  IN \E i \in hits : \A j \in 1..i : codes[j] # None

-----------------------------------------------------------------------------
(* Password hashes.                                                        *)

PowersOfTwo == {2^n : n \in 1..24}

\* scrypt refuses more memory than maxmem, 256 N r, for 128 r (N + p + 2).
DeriveKey(password, salt, cost, block, parallel, length) ==
  IF parallel + 2 > cost THEN None
  ELSE <<password, salt, cost, block, parallel, length>>

\* The constructor: None for a cost that is no power of two.
ScryptHasher(options) == IF options.cost \in PowersOfTwo THEN options ELSE None

\* hash(): the parameters, the salt and the key, or None when it rejects.
Hash(hasher, password) ==
  LET salt == <<"salt", hasher.salt>>
      key == DeriveKey(password, salt, hasher.cost, hasher.block, hasher.parallel, hasher.key)
  IN IF key = None THEN None
     ELSE [cost |-> hasher.cost, block |-> hasher.block, parallel |-> hasher.parallel,
           salt |-> salt, hash |-> key, length |-> hasher.key]

\* parseEncoded: a hash outside the ceilings, or with nothing in its salt or key,
\* is malformed.
ParseEncoded(encoded) ==
  IF /\ encoded.cost \in PowersOfTwo /\ encoded.cost <= MaxCost
     /\ encoded.block \in 1..MaxBlock /\ encoded.parallel \in 1..MaxParallel
     /\ encoded.salt[2] > 0 /\ encoded.length > 0
  THEN encoded ELSE None

\* verify(), with whatever hasher: the parameters are the hash's own.
VerifyPassword(password, encoded) ==
  LET parsed == ParseEncoded(encoded)
  IN /\ parsed # None
     /\ DeriveKey(password, parsed.salt, parsed.cost, parsed.block, parsed.parallel,
                  parsed.length) = parsed.hash

-----------------------------------------------------------------------------

Secrets == UNION {[1..n -> Bytes] : n \in 0..MaxBytes}

Cases ==
  [kind : {"base32"}, bytes : Secrets, pads : 0..2,
   gaps : SUBSET {"front", "middle", "padding", "behind"}]
    \cup [kind : {"totp"}, from : Instants, at : Instants, window : Windows,
          malformed : BOOLEAN]
    \cup [kind : {"scrypt"}, cost : Costs, block : Blocks, parallel : Parallels,
          salt : Salts, key : {0, 64}]

\* A secret as a user types it: with padding, and with spaces before it, inside
\* it, before the padding and behind it.
Typed(c) ==
  LET text == Base32Encode(c.bytes)
      half == Len(text) \div 2
      GapAt(where) == IF where \in c.gaps THEN <<Gap>> ELSE <<>>
  IN GapAt("front") \o SubSeq(text, 1, half)
       \o GapAt("middle") \o SubSeq(text, half + 1, Len(text))
       \o GapAt("padding") \o [i \in 1..c.pads |-> Pad] \o GapAt("behind")

Secret(c) == IF c.malformed THEN <<1, Junk>> ELSE Base32Encode(<<7, 200>>)

Result(c) ==
  CASE c.kind = "base32" -> Base32Decode(Typed(c))
    [] c.kind = "totp" ->
         LET code == Generate(Secret(c), c.from)
         IN code # None /\ Verify(Secret(c), code, c.window, c.at)
    [] OTHER ->
         IF ScryptHasher(c) = None THEN None ELSE Hash(ScryptHasher(c), "right")

Init == given \in Cases /\ outcome = <<>>

Compute == outcome = <<>> /\ outcome' = <<Result(given)>> /\ UNCHANGED given

Spec == Init /\ [][Compute]_credentialVars

-----------------------------------------------------------------------------

\* A secret is read back from its text, with spaces anywhere in it and padding at
\* its end; behind a space padding is not the end of the text, and is refused.
SecretsAreReadBack ==
  outcome # <<>> /\ given.kind = "base32" =>
    outcome[1] = IF given.pads > 0 /\ "behind" \in given.gaps THEN None ELSE given.bytes

\* Once the clock is a window past the epoch, a code is accepted exactly within
\* the window around its step, earlier and later; a malformed secret accepts none.
CodesExpire ==
  outcome # <<>> /\ given.kind = "totp" =>
    LET apart == CounterAt(given.at) - CounterAt(given.from)
    IN /\ CounterAt(given.at) >= given.window /\ ~given.malformed =>
            (outcome[1] <=> apart \in -given.window..given.window)
       /\ given.malformed => ~outcome[1]

\* A hash that a hasher within the ceilings produced is accepted for its password
\* and for no other, whatever hasher checks it; no other hash is ever accepted.
HashesVerify ==
  outcome # <<>> /\ given.kind = "scrypt" /\ outcome[1] # None =>
    LET sane == /\ given.cost <= MaxCost /\ given.block \in 1..MaxBlock
                /\ given.parallel \in 1..MaxParallel /\ given.salt > 0 /\ given.key > 0
    IN VerifyPassword("right", outcome[1]) = sane /\ ~VerifyPassword("wrong", outcome[1])
=============================================================================
