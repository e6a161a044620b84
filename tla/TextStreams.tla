---------------------------- MODULE TextStreams ----------------------------
(***************************************************************************)
(* What the program gets or hands on in pieces: a model's answer as        *)
(* server-sent events (llm support.ts), the lines of a file, read whole or *)
(* streamed (files lines.ts and files.ts), a request's body under a limit  *)
(* (encoding.ts), and names below a directory (files.ts Dir).  A case is   *)
(* chosen, and then one way to read it.                                    *)
(*                                                                         *)
(* A text is a sequence of tokens: Data is "data:", Done "[DONE]", Lead    *)
(* and Trail the two bytes of one character, Char any other text.          *)
(***************************************************************************)
EXTENDS Integers, Sequences, SequencesExt, FiniteSets, FiniteSetsExt

CONSTANTS
  None,
  Data, Done, Char, Space, CR, LF, Lead, Trail,   \* tokens of a text
  Wide, Bad,       \* what Lead and Trail decode to, together and apart
  Up,              \* ".." in a name, of which Char is any other segment
  MaxText,         \* bound: tokens of a text, segments of a name
  MaxBody,         \* the configured maxRequestBytes; 0 disables the limit
  Chunks,          \* the sizes of the chunks of a body
  Types, Supported \* media types, and those there is a codec for, JSON among them

VARIABLES given, outcome

textVars == <<given, outcome>>

TextStreamsAssumption ==
  MaxText \in Nat /\ MaxBody \in Nat /\ Chunks \subseteq Nat /\ "json" \in Supported

-----------------------------------------------------------------------------
(* Server-sent events.                                                     *)

\* UTF-8, a token at a time: a Lead waits for its Trail.
Feed(state, chunk) ==
  LET Held(s) == IF s.held THEN Append(s.out, Bad) ELSE s.out
      Take(s, t) ==
        CASE t = Lead -> [held |-> TRUE, out |-> Held(s)]
          [] t = Trail -> [held |-> FALSE, out |-> Append(s.out, IF s.held THEN Wide ELSE Bad)]
          [] OTHER -> [held |-> FALSE, out |-> Append(Held(s), t)]
  IN FoldLeft(Take, state, chunk)

\* A decoder that does not remember the byte a chunk ended with.
DecodeApart(state, chunk) == Feed([state EXCEPT !.held = FALSE], chunk)

\* TextDecoder.decode with stream: true, one decoder for the whole stream (external).
Decode(state, chunk) == Feed(state, chunk)

White == {Space, CR, LF}

TrimEnd(line) ==
  SubSeq(line, 1, Max({0} \cup {i \in DOMAIN line : line[i] \notin White}))

TrimStart(line) ==
  SubSeq(line, Min({Len(line) + 1} \cup {i \in DOMAIN line : line[i] \notin White}), Len(line))

\* The payload of a data line; None for any other line.
SseData(line) ==
  IF line = <<>> THEN None
  ELSE IF Head(line) # Data THEN None ELSE TrimStart(Tail(line))

\* Takes every whole line out of the buffer, until the sentinel ends the stream.
RECURSIVE TakeLines(_)
TakeLines(s) ==
  LET newline == {i \in DOMAIN s.buffer : s.buffer[i] = LF}
      payload == SseData(TrimEnd(SubSeq(s.buffer, 1, Min(newline) - 1)))
      rest == SubSeq(s.buffer, Min(newline) + 1, Len(s.buffer))
  IN IF s.ended \/ newline = {} THEN s
     ELSE IF payload = None THEN TakeLines([s EXCEPT !.buffer = rest])
     ELSE IF payload = <<Done>> THEN [s EXCEPT !.ended = TRUE]
     ELSE TakeLines([s EXCEPT !.buffer = rest, !.yielded = Append(@, payload)])

\* One chunk: decoded onto the buffer, its whole lines taken.
TakeChunk(s, chunk) ==
  IF s.ended THEN s
  ELSE LET d == Decode([held |-> s.held, out |-> s.buffer], chunk)
       IN TakeLines([s EXCEPT !.held = d.held, !.buffer = d.out])

\* sseDataLines: what a stream of chunks yields, a last line without its newline
\* included.
SseDataLines(chunks) ==
  LET s == FoldLeft(TakeChunk, [held |-> FALSE, buffer |-> <<>>, ended |-> FALSE,
                                yielded |-> <<>>], chunks)
      last == SseData(TrimEnd(s.buffer))
  IN IF s.ended \/ last \in {None, <<Done>>} THEN s.yielded ELSE Append(s.yielded, last)

-----------------------------------------------------------------------------
(* Lines.                                                                  *)

Split(text) ==
  FoldLeft(LAMBDA parts, t : IF t = LF THEN Append(parts, <<>>)
                             ELSE Append(Front(parts), Append(Last(parts), t)),
           << <<>> >>, text)

Unended(parts) == IF Last(parts) = <<>> THEN Front(parts) ELSE parts

\* splitLines: at line feeds, less one carriage return at each line's end.
SplitLines(content) ==
  LET Strip(line) == IF line = <<>> THEN line
                     ELSE IF Last(line) = CR THEN Front(line) ELSE line
      parts == Unended(Split(content))
  IN [i \in DOMAIN parts |-> Strip(parts[i])]

\* readline with an endless crlfDelay (external), which also ends a line at a
\* carriage return of its own.
StreamedLines(content) ==
  LET Ends(i) == content[i] = LF /\ (i > 1 => content[i - 1] # CR)
      kept == SetToSortSeq({i \in DOMAIN content : content[i] # LF \/ Ends(i)}, <)
  IN Unended(Split([i \in DOMAIN kept |->
                      IF content[kept[i]] = CR THEN LF ELSE content[kept[i]]]))

\* Files.chunks: groups filled line by line, and what is left over.
StreamedChunks(lines, size) ==
  LET s == FoldLeft(LAMBDA g, line :
                      IF Len(g.buffer) + 1 = size
                      THEN [out |-> Append(g.out, Append(g.buffer, line)), buffer |-> <<>>]
                      ELSE [g EXCEPT !.buffer = Append(@, line)],
                    [out |-> <<>>, buffer |-> <<>>], lines)
  IN IF s.buffer = <<>> THEN s.out ELSE Append(s.out, s.buffer)

\* chunkLines: slices of size from 0 on.
ChunkLines(lines, size) ==
  [k \in 1..((Len(lines) + size - 1) \div size) |->
     SubSeq(lines, (k - 1) * size + 1, Min({k * size, Len(lines)}))]

Misuse(offset, count) ==
  IF offset < 0 THEN "negative-offset" ELSE IF count < 0 THEN "negative-count" ELSE None

\* sliceLinesFrom, on a text that was read.
SliceLinesFrom(lines, offset, count) ==
  IF Misuse(offset, count) # None THEN Misuse(offset, count)
  ELSE IF count = 0 THEN <<>>
  ELSE IF offset >= Len(lines) THEN "offset-beyond-eof"
  ELSE SubSeq(lines, offset + 1, Min({offset + count, Len(lines)}))

\* Files.sliceLines, which stops reading at the last line it needs.
StreamedSlice(lines, offset, count) ==
  LET taken == FoldLeft(LAMBDA s, line :
                          IF s.index >= offset /\ Len(s.result) < count
                          THEN [index |-> s.index + 1, result |-> Append(s.result, line)]
                          ELSE [s EXCEPT !.index = @ + 1],
                        [index |-> 0, result |-> <<>>], lines).result
  IN IF Misuse(offset, count) # None THEN Misuse(offset, count)
     ELSE IF count = 0 THEN <<>>
     ELSE IF taken = <<>> THEN "offset-beyond-eof" ELSE taken

-----------------------------------------------------------------------------
(* Bodies.                                                                 *)

\* Unknown and absent media types are read as JSON.
ContentTypeFromString(header) == IF header \in Supported THEN header ELSE "json"

\* The bytes of a body, refused by what it declares or while they are counted.
ReadBounded(declared, chunks) ==
  LET limited == MaxBody > 0
      Count(total, n) ==
        IF total = None THEN None
        ELSE IF limited /\ total + n > MaxBody THEN None ELSE total + n
  IN IF limited /\ declared # None THEN
       IF declared > MaxBody THEN None ELSE FoldLeft(Count, 0, chunks)
     ELSE FoldLeft(Count, 0, chunks)

\* A typed error passes, anything a codec throws is wrapped.
RecordEncodingError(cause) ==
  IF cause \in {"unsupported-content-type", "request-too-large"} THEN cause
  ELSE "decode-failed"

\* decodeRequest: the media type, the body, the codec.
DecodeRequest(request) ==
  LET type == ContentTypeFromString(request.type)
      body == ReadBounded(request.declared, request.chunks)
  IN IF request.allowed # None /\ type \notin request.allowed
     THEN RecordEncodingError("unsupported-content-type")
     ELSE IF body = None THEN RecordEncodingError("request-too-large")
     ELSE IF ~request.sound THEN RecordEncodingError("SyntaxError")
     ELSE <<type, body>>

-----------------------------------------------------------------------------
(* Names below a directory.                                                *)

\* path.resolve of a base and a name: ".." takes a segment away, down to the root.
Normalize(segments) ==
  FoldLeft(LAMBDA path, s : IF s # Up THEN Append(path, s)
                            ELSE IF path = <<>> THEN path ELSE Front(path),
           <<>>, segments)

\* Dir.resolve; None is a PathEscapesBaseError.  Below the root directory, whose
\* text ends in a separator already, no name but its own is found.
ResolveName(base, name) ==
  LET resolved == Normalize(base \o name)
  IN IF resolved = base \/ (base # <<>> /\ IsPrefix(base, resolved)) THEN resolved ELSE None

-----------------------------------------------------------------------------

Texts(tokens) == UNION {[1..n -> tokens] : n \in 0..MaxText}

Cases ==
  [kind : {"events"}, text : Texts({Data, Done, Char, Space, LF, Lead, Trail})]
    \cup [kind : {"file"}, text : Texts({Char, CR, LF})]
    \cup [kind : {"body"}, type : Types, allowed : {None, {"json"}}, sound : BOOLEAN,
          declared : Chunks \cup {None}, chunks : UNION {[1..n -> Chunks] : n \in 0..2}]
    \cup [kind : {"name"}, base : {<<>>, <<Char>>, <<Char, Char>>}, name : Texts({Char, Up})]

\* The text in chunks, cut after each position in cuts.
Cut(text, cuts) ==
  LET ends == SetToSortSeq(cuts \cup {0, Len(text)}, <)
  IN [i \in 1..(Len(ends) - 1) |-> SubSeq(text, ends[i] + 1, ends[i + 1])]

Init == given \in Cases /\ outcome = None

ReadEvents ==
  /\ given.kind = "events"
  /\ \E cuts \in SUBSET (1..(Len(given.text) - 1)) :
       outcome' = <<SseDataLines(Cut(given.text, cuts))>>

ReadChunks(size) ==
  given.kind = "file"
    /\ outcome' = [size |-> size, whole |-> ChunkLines(SplitLines(given.text), size),
                   streamed |-> StreamedChunks(StreamedLines(given.text), size)]

ReadSlice(offset, count) ==
  given.kind = "file"
    /\ outcome' = [size |-> 0, whole |-> SliceLinesFrom(SplitLines(given.text), offset, count),
                   streamed |-> StreamedSlice(StreamedLines(given.text), offset, count)]

ReadRequest == given.kind = "body" /\ outcome' = <<DecodeRequest(given)>>

OpenName == given.kind = "name" /\ outcome' = <<ResolveName(given.base, given.name)>>

Next ==
  /\ outcome = None
  /\ \/ ReadEvents
     \/ \E size \in 1..(MaxText + 1) : ReadChunks(size)
     \/ \E offset, count \in -1..(MaxText + 1) : ReadSlice(offset, count)
     \/ ReadRequest
     \/ OpenName
  /\ UNCHANGED given

Spec == Init /\ [][Next]_textVars

-----------------------------------------------------------------------------

\* The payloads of a text read in one piece, line by line, up to the sentinel.
Payloads(text) ==
  LET lines == Split(Decode([held |-> FALSE, out |-> <<>>], text).out)
      all == SelectSeq([i \in DOMAIN lines |-> SseData(TrimEnd(lines[i]))],
                       LAMBDA p : p # None)
      ends == {i \in DOMAIN all : all[i] = <<Done>>}
  IN IF ends = {} THEN all ELSE SubSeq(all, 1, Min(ends) - 1)

\* Wherever the network cuts a stream, in the middle of a line, of a character or
\* of the sentinel's line, its consumer gets the payloads of the whole text.
CutsDoNotShow ==
  given.kind = "events" /\ outcome # None => outcome = <<Payloads(given.text)>>

LoneReturn(text) ==
  \E i \in DOMAIN text : text[i] = CR /\ (i = Len(text) \/ SubSeq(text, i, i + 1) # <<CR, LF>>)

\* Streaming a file and reading it whole give the same lines, groups and slices,
\* unless a carriage return stands alone in it.
LinesAgree ==
  given.kind = "file" /\ outcome # None /\ ~LoneReturn(given.text) =>
    outcome.whole = outcome.streamed

\* What is decoded was counted to be within the limit, whatever it declared, and
\* is of a type that was allowed; what is refused is refused for the first of
\* type, size and syntax that is wrong.
BodiesAreBounded ==
  given.kind = "body" /\ outcome # None =>
    LET total == FoldLeft(LAMBDA a, b : a + b, 0, given.chunks)
        size == IF given.declared = None THEN total ELSE Max({total, given.declared})
        big == MaxBody > 0 /\ size > MaxBody
        banned == given.allowed # None /\ given.type \in Supported \ given.allowed
        type == IF given.type \in Supported THEN given.type ELSE "json"
        right == IF banned THEN "unsupported-content-type"
                 ELSE IF big THEN "request-too-large"
                 ELSE IF ~given.sound THEN "decode-failed" ELSE <<type, total>>
    IN outcome = <<right>>

\* No name leads out of its directory, and none that never leaves it is refused,
\* save below the root.
NamesStayBelow ==
  given.kind = "name" /\ outcome # None =>
    LET count(i, s) == Cardinality({k \in 1..i : given.name[k] = s})
        inside == \A i \in DOMAIN given.name : count(i, Up) <= count(i, Char)
    IN /\ outcome[1] # None => IsPrefix(given.base, outcome[1])
       /\ inside /\ given.base # <<>> => outcome[1] # None
=============================================================================
