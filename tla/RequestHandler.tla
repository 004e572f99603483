--------------------------- MODULE RequestHandler ---------------------------
(***************************************************************************)
(* The way of an HTTP request through src/core/http/request_handler.rs: to *)
(* the route that answers it, the @rest endpoint whose pattern it follows  *)
(* (src/core/rest), and back with its CORS headers (blueprint/cors.rs) and *)
(* a Cache-Control that sums up the upstreams' (request_context.rs,        *)
(* gqlrs_hyper.rs).                                                        *)
(*                                                                         *)
(* A path is a sequence of "/" and pieces of letters and digits; headers   *)
(* are a function from names to values; a body is what it says as JSON, if *)
(* it is JSON.  Optional values are sequences of at most one.              *)
(***************************************************************************)
EXTENDS Integers, FiniteSets, SequencesExt, Functions

NoHeaders == [n \in {} |-> ""]
Over(later, earlier) ==
    [n \in DOMAIN later \cup DOMAIN earlier |->
        IF n \in DOMAIN later THEN later[n] ELSE earlier[n]]
Header(name, value) == [n \in {name} |-> value]

\* split('/').filter(|s| !s.is_empty())
Segments(path) ==
    LET split[n \in 0..Len(path)] ==
            IF n = 0 THEN <<>>
            ELSE IF path[n] = "/" THEN split[n - 1]
            ELSE IF n = 1 \/ path[n - 1] = "/" THEN Append(split[n - 1], <<path[n]>>)
            ELSE [split[n - 1] EXCEPT ![Len(split[n - 1])] = Append(@, path[n])]
    IN  split[Len(path)]

\* API_URL_PREFIX is taken out wherever it is.
IsApi(path, i) == i < Len(path) /\ path[i] = "/" /\ path[i + 1] = "api"
Stripped(path) ==
    LET kept[n \in 0..Len(path)] ==
            IF n = 0 THEN <<>>
            ELSE IF IsApi(path, n) \/ (n > 1 /\ IsApi(path, n - 1)) THEN kept[n - 1]
            ELSE Append(kept[n - 1], path[n])
    IN  kept[Len(path)]

\* str::parse::<Uri>(): the path of the URI, if the text is one.  A text that does not
\* begin with a slash is an authority, whose path is empty and which holds no slash.
ParseUri(text) ==
    CASE text = <<>> -> <<>>
      [] text # <<>> /\ text[1] = "/" -> <<text>>
      [] OTHER -> IF "/" \in ToSet(text) THEN <<>> ELSE << <<>> >>

-----------------------------------------------------------------------------
(* Endpoint::try_new(): the endpoint of an operation with @rest; a pattern's*)
(* segment is <<text>> or <<"$", variable>>.                                *)
UrlTypes == {"String", "Int", "Boolean", "Float"}

\* Its variables are the operation's, of types a text can be read as.
Typable(op) ==
    op.rest # <<>> =>
        \A name \in Range(op.rest[1].query)
                     \cup {s[2] : s \in {t \in ToSet(op.rest[1].path) : t[1] = "$"}} :
            name \in DOMAIN op.types /\ op.types[name] \in UrlTypes

\* All of a file's endpoints, or none.
Accepted(ops) == \A i \in DOMAIN ops : Typable(ops[i])

\* The endpoints of the operations, ops being in the order in which doc.operations, a
\* hash map, iterates them: it is any order, not the text's.
EndpointSet(ops) ==
    LET endpoint(op, rest) ==
            [op |-> op.name, method |-> rest.method, path |-> rest.path, query |-> rest.query,
             body |-> rest.body, types |-> op.types]
    IN  [i \in {i \in DOMAIN ops : ops[i].rest # <<>>} |-> endpoint(ops[i], ops[i].rest[1])]

\* UrlParamType::to_value()
Typed(type, text) ==
    CASE type = "String" -> TRUE
      [] type \in {"Int", "Float"} -> text \in {<<"1">>, <<"2">>}
      [] type = "Boolean" -> text \in {<<"true">>, <<"false">>}

\* Mutated form: what is left of the request's path is not looked at.
PathMatches_Prefix(e, segments) ==
    \A i \in 1..Len(e.path) :
        /\ i <= Len(segments)
        /\ IF e.path[i][1] = "$" THEN Typed(e.types[e.path[i][2]], segments[i])
           ELSE e.path[i] = segments[i]

\* Path::matches(): the request may end before the pattern, not after it.
PathMatches(e, segments) ==
    /\ Len(segments) <= Len(e.path)
    /\ \A i \in DOMAIN segments :
          IF e.path[i][1] = "$" THEN Typed(e.types[e.path[i][2]], segments[i])
          ELSE e.path[i] = segments[i]

PathVariables(e, segments) ==
    LET params == {i \in DOMAIN segments : i <= Len(e.path) /\ e.path[i][1] = "$"}
        at(name) == CHOOSE i \in params :
                       e.path[i][2] = name /\ \A j \in params : e.path[j][2] = name => j <= i
    IN  [name \in {e.path[i][2] : i \in params} |-> segments[at(name)]]

\* QueryParams::matches(), of a parsed query.
QueryMatches(e, query) ==
    \A key \in DOMAIN e.query \cap DOMAIN query : Typed(e.types[e.query[key]], query[key])

QueryVariables(e, query) ==
    LET of(name) == {k \in DOMAIN e.query \cap DOMAIN query : e.query[k] = name}
    IN  [name \in {e.query[k] : k \in DOMAIN e.query \cap DOMAIN query} |->
            query[CHOOSE k \in of(name) : TRUE]]

\* Endpoint::matches(): method, path and query.
EndpointMatches(e, request) ==
    /\ e.method = request.method
    /\ PathMatches(e, Segments(request.path))
    /\ QueryMatches(e, request.query)

\* PartialRequest::into_request(): it fails on a body that is to be read and is not JSON.
Readable(e, request) == e.body = <<>> \/ request.body # <<>>

Variables(e, request) ==
    Over(IF e.body = <<>> THEN NoHeaders ELSE Header(e.body[1], request.body[1]),
         Over(QueryVariables(e, request.query), PathVariables(e, Segments(request.path))))

\* EndpointSet::matches(): the first that matches.
FirstMatch(endpoints, request) ==
    LET matching == {i \in DOMAIN endpoints : EndpointMatches(endpoints[i], request)}
        answer(e) == IF Readable(e, request) THEN <<"rest", e.op, Variables(e, request)>>
                     ELSE <<"error">>
    IN  IF matching = {} THEN <<"not_found">> ELSE answer(endpoints[Min(matching)])

\* handle_rest_apis(): the URI that is matched is made of the path alone, and
\* the request fails if what is left of the path is no URI.
Rest(server, request) ==
    LET uri == ParseUri(Stripped(request.path))
    IN  IF uri = <<>> THEN <<"error">>
        ELSE FirstMatch(EndpointSet(server.operations),
                        [request EXCEPT !.path = uri[1], !.query = NoHeaders])

\* handle_request_inner()
Route(server, request) ==
    LET post == request.method = "POST"
        get == request.method = "GET"
    IN  CASE Len(request.path) > 1 /\ IsApi(request.path, 1) -> Rest(server, request)
          [] OTHER ->
             CASE post /\ request.path = server.graphql -> <<"graphql">>
               [] post /\ server.showcase /\ request.path = <<"/", "showcase", "/", "graphql">> ->
                    <<"showcase">>
               [] get /\ request.path = server.status -> <<"status">>
               [] get /\ request.path = server.metrics -> <<"metrics">>
               [] get /\ request.path # server.status /\ request.path # server.metrics
                      /\ server.spa -> <<"spa">>
               [] OTHER -> <<"not_found">>

-----------------------------------------------------------------------------
(* Cors: credentials with a wildcard are no configuration.                  *)
UsableCors(cors) ==
    cors.credentials =>
        /\ cors.headers # <<"*">>
        /\ cors.methods \notin {<<>>, <<"*">>}
        /\ "*" \notin ToSet(cors.origins)
        /\ cors.expose # <<"*">>

Given(name, value) == IF value = <<>> THEN NoHeaders ELSE Header(name, value[1])

AllowOrigin(cors, origin) ==
    IF "*" \in ToSet(cors.origins) \/ ToSet(origin) \subseteq ToSet(cors.origins)
    THEN Given("allow-origin", origin) ELSE NoHeaders

CorsHeaders(cors, request) ==
    Over(AllowOrigin(cors, request.origin),
    Over(IF cors.credentials THEN Header("allow-credentials", "true") ELSE NoHeaders,
    Over(IF cors.private /\ request.private THEN Header("allow-private-network", "true")
         ELSE NoHeaders,
    IF request.method = "OPTIONS"
    THEN Over(Header("allow-methods", IF cors.methods = <<>> THEN <<"*">> ELSE cors.methods),
              IF cors.headers = <<>> THEN NoHeaders ELSE Header("allow-headers", cors.headers))
    ELSE Header("expose-headers", cors.expose))))

\* update_response_headers(), of what a query or an endpoint answered.
Answered(server, request, upstream) ==
    IF Route(server, request)[1] \in {"rest", "graphql", "showcase"}
    THEN Over(upstream, server.headers) ELSE NoHeaders

\* handle_request_with_cors(), handle_origin_gqlforge(): a preflight's route is
\* <<>>, nothing else having a part in its answer.  An error is handed on: the
\* connection is closed on it and no header is sent.
WithHeaders(inner, request, headers) ==
    CASE request.method = "OPTIONS" -> [route |-> <<>>, headers |-> headers]
      [] request.method # "OPTIONS" /\ inner.route = <<"error">> -> inner
      [] OTHER -> [inner EXCEPT !.headers = Over(headers, @)]

\* handle_request()
WithCors(server, request, inner) ==
    IF server.cors # <<>>
    THEN WithHeaders(inner, request, CorsHeaders(server.cors[1], request))
    ELSE IF request.origin = <<"gqlforge">>
    THEN WithHeaders(inner, request, Header("allow-origin", "gqlforge"))
    ELSE inner

Handle(server, request, upstream) ==
    WithCors(server, request, [route |-> Route(server, request),
                               headers |-> Answered(server, request, upstream)])

-----------------------------------------------------------------------------
(* RequestContext: what the upstreams' policies leave, and the header.  An *)
(* age is a number of seconds as an i32, which longer ones are cut to; -1  *)
(* is no-cache.                                                            *)
MinAge(ages, age) == IF ages = <<>> \/ age < ages[1] THEN <<age>> ELSE ages

SetCacheControl(c, policy) ==
    LET aged == IF policy.age = <<>> THEN c.age ELSE MinAge(c.age, policy.age[1])
    IN  [public |-> c.public /\ policy.scope # "private",
         age |-> IF policy.scope = "no-cache" THEN MinAge(aged, -1) ELSE aged]

\* set_headers(), of the upstreams that succeeded, in order.
Collected(policies) ==
    LET set[n \in 0..Len(policies)] ==
            IF n = 0 THEN [public |-> TRUE, age |-> <<>>]
            ELSE IF policies[n].success THEN SetCacheControl(set[n - 1], policies[n])
            ELSE set[n - 1]
    IN  set[Len(policies)]

\* CacheControl::merge()
Merge(a, b) ==
    [public |-> a.public /\ b.public,
     age |-> IF a.age = -1 \/ b.age = -1 THEN -1
             ELSE IF b.age = 0 THEN a.age ELSE IF a.age = 0 THEN b.age
             ELSE IF a.age < b.age THEN a.age ELSE b.age]

\* BatchResponse::cache_control(), value(): <<>> if there is no header.
NoPolicy == [public |-> TRUE, age |-> 0]
OwnPolicy(enabled, c) ==
    IF enabled THEN [public |-> c.public, age |-> IF c.age = <<>> THEN 0 ELSE c.age[1]] ELSE NoPolicy
MergedPolicy(own, size) ==
    LET merged[n \in 0..size] == IF n = 0 THEN NoPolicy ELSE Merge(merged[n - 1], own)
    IN  merged[size]

CacheControl(enabled, ok, size, policies) ==
    LET all == MergedPolicy(OwnPolicy(enabled, Collected(policies)), size)
    IN  IF ~ok \/ (all.age = 0 /\ all.public) THEN <<>> ELSE <<all>>

-----------------------------------------------------------------------------
\* The places of a pattern's variables, their names, and its instances that begin with the
\* segments of a request.
Params(e) == {i \in DOMAIN e.path : e.path[i][1] = "$"}
NamesAt(e, places) == {e.path[i][2] : i \in places}
Instances(e, segments) ==
    {v \in [Params(e) -> ToSet(segments) \cup {<<>>}] :
        Len(segments) <= Len(e.path) /\ \A i \in 1..Len(segments) :
            IF i \in Params(e)
            THEN v[i] = segments[i] /\ Typed(e.types[e.path[i][2]], segments[i])
            ELSE e.path[i] = segments[i]}
Fits(e, method, segments) == e.method = method /\ Instances(e, segments) # {}

\* Its variables are an instance's, but for the one the body is put into.
AnsweredWith(e, segments, vars) ==
    /\ Len(segments) = Len(e.path) /\ e.body = <<>> => DOMAIN vars = NamesAt(e, Params(e))
    /\ \A v \in Instances(e, segments) :
          \A name \in DOMAIN vars \cap NamesAt(e, Params(e)) :
             e.body # <<name>> =>
                \E k \in Params(e) \cap 1..Len(segments) : e.path[k][2] = name /\ vars[name] = v[k]

Tells(headers, origin) == "allow-origin" \in DOMAIN headers /\ headers["allow-origin"] = origin

\* Whether a request is below /api, whether no URI is left of its path, and the path that
\* is; it is empty if what follows the prefix does not begin with a slash.
Below(request) == Len(request.path) > 1 /\ IsApi(request.path, 1)
NoUri(path) == Stripped(path) = <<>> \/ (Stripped(path)[1] # "/" /\ "/" \in ToSet(Stripped(path)))
Left(path) == IF Stripped(path) # <<>> /\ Stripped(path)[1] = "/" THEN Stripped(path) ELSE <<>>

\* The endpoint that is to answer a request that is left with these segments.
Answering(endpoints, method, segments, i) ==
    /\ Fits(endpoints[i], method, segments)
    /\ \A j \in DOMAIN endpoints : j < i => ~Fits(endpoints[j], method, segments)

AnswersAsAsked(server, request, endpoints, answer, bare) ==
    LET segments == Segments(Left(request.path))
        answers(i) == Answering(endpoints, request.method, segments, i)
        allowed == IF server.cors = <<>> THEN {"gqlforge"} ELSE ToSet(server.cors[1].origins)
        origin == request.origin[1]
    IN  /\ answer.route = <<>> <=> request.method = "OPTIONS" /\
                                   (server.cors # <<>> \/ request.origin = <<"gqlforge">>)
        /\ answer.route # <<>> => answer.route = bare.route
        /\ bare.route = <<"error">> <=>
              /\ Below(request)
              /\ \/ NoUri(request.path)
                 \/ \E i \in DOMAIN endpoints :
                       answers(i) /\ endpoints[i].body # <<>> /\ request.body = <<>>
        /\ answer.route # <<>> /\ answer.route[1] = "rest" =>
              \E i \in DOMAIN endpoints :
                 /\ answers(i)
                 /\ answer.route[2] = endpoints[i].op
                 /\ AnsweredWith(endpoints[i], segments, answer.route[3])
        /\ answer.route = <<"not_found">> /\ Below(request) =>
              \A i \in DOMAIN endpoints : ~Fits(endpoints[i], request.method, segments)
        /\ request.origin # <<>> =>
              (Tells(answer.headers, origin) <=>
                 /\ answer.route # <<"error">>
                 /\ \/ origin \in allowed \/ "*" \in allowed
                    \/ answer.route # <<>> /\ Tells(bare.headers, origin))

\* handle_request(), EndpointSet::matches(): a request below /api is answered
\* by the first endpoint of its method some instance of whose pattern what is
\* left of its path is the beginning of, with the values of that instance, and
\* nothing of its query; it fails exactly if nothing is left or what is left
\* is no URI, or if that endpoint reads a body that is not JSON; any other one
\* is answered only by the route it names; what answers never depends on CORS,
\* and the origin is told to be allowed exactly if the request does not fail
\* and it is, or the upstream's and the configured headers tell it.
RequestIsAnswered(server, request, upstream) ==
    AnswersAsAsked(server, request, EndpointSet(server.operations),
                   Handle(server, request, upstream),
                   Handle([server EXCEPT !.cors = <<>>], [request EXCEPT !.origin = <<>>],
                          upstream))

CachedAsAllowed(enabled, used, header, reversed, alone) ==
    /\ header = reversed
    /\ header = alone
    /\ enabled =>
          /\ (\E p \in used : p.scope = "no-cache") <=> header # <<>> /\ header[1].age = -1
          /\ \A p \in used : header # <<>> /\ p.age # <<>> => header[1].age <= p.age[1]
          /\ (\E p \in used : p.scope = "private") <=> header # <<>> /\ ~header[1].public

\* set_cache_control() of RequestContext, CacheControl::merge(): whichever
\* upstream answers first, a response says no-cache if one of them did, names
\* no longer age than any, and is private if one of them is; and so is a batch.
CacheNoLonger(enabled, size, policies) ==
    CachedAsAllowed(enabled, {p \in ToSet(policies) : p.success},
                    CacheControl(enabled, TRUE, size, policies),
                    CacheControl(enabled, TRUE, size, Reverse(policies)),
                    CacheControl(enabled, TRUE, 1, policies))
=============================================================================
