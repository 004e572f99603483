--------------------------- MODULE StreamDecoder ----------------------------
(***************************************************************************)
(* The upstream streams of subscriptions: gRPC frames (core/grpc/stream.rs *)
(* and request.rs) and server-sent events (core/graphql/sse_client.rs,     *)
(* streaming.rs, core/http/streaming.rs), cut out of the chunks the network*)
(* happens to deliver.                                                     *)
(*                                                                         *)
(* A gRPC byte is a number.  A byte of an event stream is "\n", "data", ":"*)
(* and "blank", or another; the four letters of "data" count as one.           *)
(***************************************************************************)
EXTENDS Integers, SequencesExt, FiniteSetsExt

\* What is left of the buffer, and what comes out of it.
Unit(rest, out) == <<[rest |-> rest, out |-> out]>>

-----------------------------------------------------------------------------
(* GrpcFrameDecoder: a flag, the length in four bytes, and the message.     *)
MessageLength(buffer) ==
    ((buffer[2] * 256 + buffer[3]) * 256 + buffer[4]) * 256 + buffer[5]

GrpcFrame(buffer) ==
    IF Len(buffer) < 5 \/ Len(buffer) < 5 + MessageLength(buffer) THEN <<>>
    ELSE Unit(SubSeq(buffer, 6 + MessageLength(buffer), Len(buffer)),
              <<SubSeq(buffer, 6, 5 + MessageLength(buffer))>>)

-----------------------------------------------------------------------------
(* SseEventParser: a block of lines up to a blank line; the block's data    *)
(* lines, joined; a block without any, or whose data is empty, is no event. *)
BlankLine(buffer) ==
    {i \in 1..(Len(buffer) - 1) : buffer[i] = "\n" /\ buffer[i + 1] = "\n"}

\* block.lines()
Lines(block) ==
    LET lines[n \in 0..Len(block)] ==
            IF n = 0 THEN << <<>> >>
            ELSE IF block[n] = "\n" THEN Append(lines[n - 1], <<>>)
            ELSE [lines[n - 1] EXCEPT ![Len(lines[n - 1])] = Append(@, block[n])]
    IN  lines[Len(block)]

\* value.trim_start()
TrimStart(text) ==
    LET from == SelectInSeq(text, LAMBDA byte : byte # "blank")
    IN  IF from = 0 THEN <<>> ELSE SubSeq(text, from, Len(text))

DataOf(line) ==
    CASE line = <<"data">> -> << <<>> >>
      [] Len(line) > 1 /\ line[1] = "data" /\ line[2] = ":" ->
            <<TrimStart(SubSeq(line, 3, Len(line)))>>
      [] OTHER -> <<>>

JoinLines(parts) ==
    LET text[n \in 0..Len(parts)] ==
            IF n = 0 THEN <<>>
            ELSE IF n = 1 THEN parts[1] ELSE text[n - 1] \o <<"\n">> \o parts[n]
    IN  text[Len(parts)]

DataLines(lines) == FlattenSeq([i \in DOMAIN lines |-> DataOf(lines[i])])

\* extract_data_lines()
ExtractData(block) == JoinLines(DataLines(Lines(block)))

EventOf(data) == IF data = <<>> THEN <<>> ELSE <<data>>
EventBefore(buffer, at) ==
    Unit(SubSeq(buffer, at + 2, Len(buffer)), EventOf(ExtractData(SubSeq(buffer, 1, at - 1))))

SseEvent(buffer) ==
    IF BlankLine(buffer) = {} THEN <<>> ELSE EventBefore(buffer, Min(BlankLine(buffer)))

-----------------------------------------------------------------------------
Next(kind, buffer) == IF kind = "grpc" THEN GrpcFrame(buffer) ELSE SseEvent(buffer)

\* A turn of decode()'s loop, which stays where it is when it would break.
TakeUnit(s, next) ==
    IF next = <<>> THEN s ELSE [buffer |-> next[1].rest, out |-> s.out \o next[1].out]
Turn(kind, s) == TakeUnit(s, Next(kind, s.buffer))

\* decode(): each unit is of a byte at least, so there are no more turns than bytes.
Drain(kind, s) ==
    LET after[n \in Nat] == IF n = 0 THEN s ELSE Turn(kind, after[n - 1])
    IN  after[Len(s.buffer)]

\* Mutated form: each chunk is decoded from the last one's last whole unit on.
Decode_WholeChunks(kind, s, chunk) == Drain(kind, [buffer |-> chunk, out |-> s.out])

\* The chunk joins what the last ones left over.
Decode(kind, s, chunk) == Drain(kind, [buffer |-> s.buffer \o chunk, out |-> s.out])

Ok(value) == [ok |-> TRUE, value |-> value]
Err == [ok |-> FALSE, value |-> <<>>]

\* convert_output_raw(): no message starts with 255 here.
ConvertRaw(frame) == IF frame # <<>> /\ frame[1] = 255 THEN Err ELSE Ok(frame)

\* parse_sse_raw_json()
RawJson(text) == IF text[1] = "bad" THEN Err ELSE Ok(text)

\* parse_sse_graphql_event(): a response without errors, and its one field.
GraphqlEvent(text) == IF text[1] \in {"errors", "nofield"} THEN Err ELSE RawJson(text)

(***************************************************************************)
(* The stream!s: an item for every unit, an error for the unit that does   *)
(* not parse, until the connection ends or fails, and then its error.      *)
(***************************************************************************)
Drained(kind, chunks) ==
    LET after[n \in 0..Len(chunks)] ==
            IF n = 0 THEN [buffer |-> <<>>, out |-> <<>>]
            ELSE Decode(kind, after[n - 1], chunks[n])
    IN  after[Len(chunks)].out

Failure(fails) == IF fails THEN <<Err>> ELSE <<>>

GrpcStream(chunks, fails) ==
    LET frames == Drained("grpc", chunks)
    IN  [i \in DOMAIN frames |-> ConvertRaw(frames[i])] \o Failure(fails)

HttpStream(chunks, fails) ==
    LET events == Drained("http", chunks)
    IN  [i \in DOMAIN events |-> RawJson(events[i])] \o Failure(fails)

GraphqlStream(chunks, fails) ==
    LET events == Drained("graphql", chunks)
    IN  [i \in DOMAIN events |-> GraphqlEvent(events[i])] \o Failure(fails)

Stream(kind, chunks, fails) ==
    CASE kind = "grpc" -> GrpcStream(chunks, fails)
      [] kind = "http" -> HttpStream(chunks, fails)
      [] kind = "graphql" -> GraphqlStream(chunks, fails)

-----------------------------------------------------------------------------
(* What the other side sends.  A message is at most 255 bytes long here.    *)
Framed(message) == <<0, 0, 0, 0, Len(message)>> \o message

\* handle_sse_request(): an event of the gateway's own; JSON has no line end.
Event(json) == <<"data", ":", "blank">> \o json \o <<"\n", "\n">>

Packed(kind, message) == IF kind = "grpc" THEN Framed(message) ELSE Event(message)
Wire(kind, messages) == FlattenSeq([i \in DOMAIN messages |-> Packed(kind, messages[i])])

\* What a stream! makes of a unit.
Parsed(kind, text) ==
    CASE kind = "grpc" -> ConvertRaw(text)
      [] kind = "http" -> RawJson(text)
      [] kind = "graphql" -> GraphqlEvent(text)

\* GrpcFrameDecoder, SseEventParser: wherever the network cuts the bytes, a
\* stream yields what was sent, in order, each message once; when it breaks off
\* or fails after any byte, exactly the messages it had in full, then the error.
CutsDoNotMatter(kind, messages, chunks, fails) ==
    LET whole == {n \in 0..Len(messages) :
                    Len(Wire(kind, SubSeq(messages, 1, n))) <= Len(FlattenSeq(chunks))}
        last == CHOOSE n \in whole : \A m \in whole : m <= n
    IN  Stream(kind, chunks, fails) =
            [n \in 1..last |-> Parsed(kind, messages[n])] \o Failure(fails)

\* GrpcFrameDecoder, SseEventParser: what a stream yields of any bytes, sent by
\* whomever, does not depend on how they are cut into chunks.
SameAsWhole(kind, chunks, fails) ==
    Stream(kind, chunks, fails) = Stream(kind, <<FlattenSeq(chunks)>>, fails)
=============================================================================
