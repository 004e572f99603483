----------------------------- MODULE Upstreams ------------------------------
(***************************************************************************)
(* What lies between a resolver and its upstreams, put together: the keys  *)
(* its requests share an answer under, the batches they are sent in, and   *)
(* the streams their answers come from.  None of it keeps a state of its   *)
(* own, so that a state is one input of one of them: `family` says of      *)
(* which, and `input` has its parts.                                       *)
(***************************************************************************)
EXTENDS StreamDecoder, UpstreamBatch, UpstreamRequest

CONSTANT Camel   \* column -> its name in camel case

VARIABLES family, input

Sql == INSTANCE PostgresQuery
Handler == INSTANCE RequestHandler

\* GrpcFrameDecoder, SseEventParser: where the network cuts its bytes makes no
\* difference to what a stream yields, nor where it breaks off.
ChunksDoNotMatter ==
    /\ family = "stream" =>
        CutsDoNotMatter(input.kind, input.messages, input.chunks, input.fails)
    /\ family = "text" => SameAsWhole(input.kind, input.chunks, input.fails)

\* The cache_key() of each request template: what shares one key asks for the
\* same, but for the parts a key is known to leave out.
SharedAreSame == family = "key" => KeysTellApart(input.fields, input.contexts)

\* The load() of each upstream loader: a request answered in a batch gets what
\* it would get alone, or all of the batch fail.
BatchedIsAlone ==
    family = "batch" =>
        ApartAsAlone(input.kind, input.keys, input.list, input.records,
                     input.fails, input.short)

\* PostgresOperation: a statement that the configuration accepts updates and
\* deletes within its where clause only, each placeholder is that of its value,
\* and it goes to a connection of the directive's own kind.
SqlIsOwn ==
    family = "sql" =>
        /\ Sql!StatementIsBounded(input.d, input.root, input.c, input.arg)
        /\ Sql!ConnectionOfItsKind(input.d, input.root, input.c)

\* handle_request(), EndpointSet::matches(), RequestContext::set_cache_control():
\* a request reaches its endpoint with its values and its origin, and its answer
\* is cached no longer than an upstream allowed.
RequestIsAnswered ==
    /\ family = "http" =>
        Handler!RequestIsAnswered(input.server, input.request, input.upstream)
    /\ family = "cache" => Handler!CacheNoLonger(input.enabled, input.size, input.policies)
=============================================================================
