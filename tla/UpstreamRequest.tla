-------------------------- MODULE UpstreamRequest --------------------------
(***************************************************************************)
(* What a resolver sends upstream and the key its answer is shared under:  *)
(* @http (core/http/request_template, query_encoder.rs), @graphQL, @grpc   *)
(* and @s3.                                                                *)
(*                                                                         *)
(* A template is a sequence of segments, each a literal or "arg", what the *)
(* field's expression says.  A context x has the expression's value, x.arg:*)
(* <<>> where it is missing, else <<scalars>>, of which null has none and a*)
(* list may have several; and x.headers, the request's allowed headers.    *)
(***************************************************************************)
EXTENDS Integers, SequencesExt, TLC

\* path_string(): a scalar's text, a list's JSON; nothing if missing or null.
PathString(x) ==
    IF x.arg \in {<<>>, << <<>> >>} THEN ""
    ELSE IF Len(x.arg[1]) = 1 THEN x.arg[1][1] ELSE ToString(x.arg[1])

\* Mustache::render
Text(template, x) ==
    SelectSeq([i \in DOMAIN template |->
                  IF template[i] = "arg" THEN PathString(x) ELSE template[i]],
              LAMBDA s : s # "")

IsConst(template) == "arg" \notin ToSet(template)

\* ValueStringEval: the first segment that has a value, and only that one.
Raw(template, x) ==
    LET values == SelectSeq([i \in DOMAIN template |->
                                IF template[i] = "arg" THEN x.arg ELSE << <<template[i]>> >>],
                            LAMBDA v : v # <<>>)
    IN  IF values = <<>> THEN <<>> ELSE values[1]

\* QueryEncoder::encode: no value at all leaves the bare key.
Encode(encoder, key, raw) ==
    LET scalars == IF raw = <<>> THEN <<>> ELSE raw[1]
    IN  IF scalars = <<>> THEN << <<key, "">> >>
        ELSE IF encoder = "CommaSeparated" THEN << <<key, ToString(scalars)>> >>
        ELSE [i \in DOMAIN scalars |-> <<key, scalars[i]>>]

\* create_url(): the pairs of the template's own URL that have a value, and
\* then its query; a constant URL without a query is left as it is.
CreateUrl(t, x) ==
    LET base == SelectSeq(t.base, LAMBDA p : p[2] # "")
        extra == [i \in DOMAIN t.query |->
                    IF t.query[i].skip /\ Raw(t.query[i].value, x) = <<>> THEN <<>>
                    ELSE Encode(t.encoder, t.query[i].key, Raw(t.query[i].value, x))]
    IN  [root |-> Text(t.url, x),
         query |-> IF t.query = <<>> /\ IsConst(t.url) THEN t.base
                   ELSE base \o FlattenSeq(extra)]

\* HeaderMap::extend: the later map's values replace the earlier one's.
Over(later, earlier) ==
    [n \in DOMAIN later \cup DOMAIN earlier |->
        IF n \in DOMAIN later THEN later[n] ELSE earlier[n]]

\* create_headers(): a value no header may have drops the header.
Valid(value) == "\n" \notin ToSet(value)
CreateHeaders(t, x) ==
    [n \in {m \in DOMAIN t.headers : Valid(Text(t.headers[m], x))} |-> Text(t.headers[n], x)]

ContentType(type) == [n \in {"content-type"} |-> <<type>>]

-----------------------------------------------------------------------------
(* http::RequestTemplate                                                    *)
HttpHeaders(t, x) ==
    Over(IF t.method = "GET" THEN <<>> ELSE ContentType(t.encoding),
         Over(x.headers, CreateHeaders(t, x)))

\* set_body(): with JSON, the first expression's value is the batching value.
HttpBody(t, x) == IF t.body = <<>> THEN <<>> ELSE <<Text(t.body[1], x)>>
BatchingValue(t, x) ==
    IF t.body = <<>> \/ t.encoding # "json" \/ IsConst(t.body[1]) THEN <<>> ELSE <<PathString(x)>>

ToRequest(t, x) ==
    [method |-> t.method, url |-> CreateUrl(t, x), headers |-> HttpHeaders(t, x),
     body |-> HttpBody(t, x), encoding |-> t.encoding]

\* Mutated form: the request's own headers are left out of the key.
HttpKey_TemplateHeaders(t, x) ==
    <<t.method, [n \in DOMAIN t.headers |-> Text(t.headers[n], x)],
      HttpBody(t, x), CreateUrl(t, x)>>

\* cache_key(): every header, valid or not, but not the encoding.
HttpKey(t, x) ==
    <<t.method, [n \in DOMAIN t.headers |-> Text(t.headers[n], x)], x.headers,
      HttpBody(t, x), CreateUrl(t, x)>>

-----------------------------------------------------------------------------
(* graphql::RequestTemplate                                                 *)
\* render_graphql_query(): an argument that renders to nothing is left out.
Query(t, x) ==
    <<t.operation,
      SelectSeq([i \in DOMAIN t.args |-> <<t.args[i][1], Text(t.args[i][2], x)>>],
                LAMBDA a : a[2] # <<>>),
      x.directives, IF t.selection = "" THEN x.selection ELSE t.selection>>

GraphqlRequest(t, x) ==
    [url |-> t.url, body |-> Query(t, x),
     headers |-> Over(x.headers, Over(ContentType("json"), CreateHeaders(t, x)))]

-----------------------------------------------------------------------------
(* grpc::RequestTemplate                                                    *)
GrpcRequest(t, x) ==
    [url |-> Text(t.url, x),
     body |-> IF t.body = <<>> THEN <<"{}">> ELSE Text(t.body[1], x),
     headers |-> Over(x.headers, Over(CreateHeaders(t, x), ContentType("grpc")))]

-----------------------------------------------------------------------------
(* s3::RequestTemplate: what renders to nothing is not there.               *)
S3Request(t, x) ==
    LET some(o) == IF o = <<>> \/ Text(o[1], x) = <<>> THEN <<>> ELSE <<Text(o[1], x)>>
    IN  [bucket |-> Text(t.bucket, x), operation |-> t.operation, key |-> some(t.key),
         prefix |-> some(t.prefix), type |-> some(t.type), link |-> t.link]

-----------------------------------------------------------------------------
\* IO::to_request, what the upstream is asked.
Sent(f, x) ==
    CASE f.kind = "http" -> ToRequest(f.t, x)
      [] f.kind = "graphql" -> GraphqlRequest(f.t, x)
      [] f.kind = "grpc" -> GrpcRequest(f.t, x)
      [] f.kind = "s3" -> S3Request(f.t, x)

\* IO::cache_key(): the key two requests for the same answer share; nothing
\* in it says of which kind the resolver is.
Key(f, x) ==
    CASE f.kind = "http" -> HttpKey(f.t, x)
      [] f.kind = "graphql" -> Query(f.t, x)
      [] f.kind = "grpc" -> <<GrpcRequest(f.t, x).url, GrpcRequest(f.t, x).body>>
      [] f.kind = "s3" -> S3Request(f.t, x)

\* What the keys leave out, though the answer may depend on it.
Unkeyed(kind) ==
    CASE kind = "http" -> {"encoding", "headers"}
      [] kind = "graphql" -> {"url", "headers"}
      [] kind = "grpc" -> {"headers"}
      [] kind = "s3" -> {}

\* What is asked, but for that.
Keyed(f, x) ==
    [part \in DOMAIN Sent(f, x) \ Unkeyed(f.kind) |-> Sent(f, x)[part]]

\* Whose request it is asked as.
User(f, x) ==
    IF f.kind # "http" THEN <<>>
    ELSE LET headers == Sent(f, x).headers
         IN  [n \in DOMAIN headers \ {"content-type"} |-> headers[n]]

\* cache_key(): requests that share an answer ask the same of the same
\* upstream, but for what the key leaves out: with @http only the encoding (and
\* the content type that says it), so that no request is answered for another
\* user; with @grpc the headers, with @graphQL the upstream too.  That is, of
\* all the fields and contexts, there are no more questions than keys.
KeysTellApart(fields, contexts) ==
    LET asked == fields \X contexts
    IN  Cardinality({<<Key(a[1], a[2]), Keyed(a[1], a[2]), User(a[1], a[2])>> : a \in asked})
            = Cardinality({Key(a[1], a[2]) : a \in asked})
=============================================================================
