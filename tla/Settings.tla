------------------------------ MODULE Settings ------------------------------
(***************************************************************************)
(* What @server and @upstream set (src/core/config/directives, blueprint/    *)
(* server.rs, blueprint/upstream.rs), and what is built from it: the clients *)
(* of the upstreams (cli/runtime/http.rs), the data loaders of the fields    *)
(* (app_context.rs) and the limits of the schema (blueprint.rs).             *)
(*                                                                         *)
(* An option that may be left out is <<>> or <<value>>.  A resolver is       *)
(* <<"io", io>>, <<"cache", io>> or <<kind, the resolvers below it>>; an io   *)
(* is [kind, query, group, list, dl].                                        *)
(***************************************************************************)
EXTENDS Naturals, SequencesExt

OrElse(option, default) == IF option = <<>> THEN default ELSE option[1]

-----------------------------------------------------------------------------
(* @upstream, as the files write it, one after another.                      *)

\* Option::merge_right(): of numbers, strings and flags the later; of sets both.
Later(a, b) == IF b = <<>> THEN a ELSE b
Both(a, b) == IF a = <<>> \/ b = <<>> THEN a \o b ELSE <<a[1] \cup b[1]>>

\* serde: a directive that leaves verifySSL out sets it, a batch that leaves delay out sets it to 0.
NoUpstream == [timeout |-> <<>>, cache |-> <<>>, http2 |-> <<>>, proxy |-> <<>>, allowed |-> <<>>,
               verify |-> <<>>, batch |-> <<>>]
ReadBatch(written) ==
    [delay |-> OrElse(written.delay, 0), max |-> written.max, headers |-> OrElse(written.headers, {})]
ReadUpstream(written) ==
    IF written = <<>> THEN NoUpstream
    ELSE [written[1] EXCEPT !.verify = <<OrElse(@, TRUE)>>,
                            !.batch = IF @ = <<>> THEN <<>> ELSE <<ReadBatch(@[1])>>]

MergeBatch(a, b) ==
    IF a = <<>> \/ b = <<>> THEN a \o b
    ELSE <<[delay |-> b[1].delay, max |-> Later(a[1].max, b[1].max), headers |-> a[1].headers \cup b[1].headers]>>
MergeUpstream(a, b) ==
    [timeout |-> Later(a.timeout, b.timeout), cache |-> Later(a.cache, b.cache),
     http2 |-> Later(a.http2, b.http2), proxy |-> Later(a.proxy, b.proxy),
     allowed |-> Both(a.allowed, b.allowed), verify |-> Later(a.verify, b.verify),
     batch |-> MergeBatch(a.batch, b.batch)]

\* Upstream::try_from(), get_batch(): the header that authenticates is always let through.
DefaultMaxSize == 100
\* Mutated form: only the headers that are allowed.
ToUpstream_Given(u, hasAuth) ==
    [timeout |-> OrElse(u.timeout, 60), cache |-> OrElse(u.cache, 0), http2 |-> OrElse(u.http2, FALSE),
     proxy |-> u.proxy, verify |-> OrElse(u.verify, TRUE), allowed |-> OrElse(u.allowed, {}),
     batch |-> IF u.batch = <<>> THEN <<>>
               ELSE <<[u.batch[1] EXCEPT !.max = <<OrElse(@, DefaultMaxSize)>>]>>]
ToUpstream(u, hasAuth) ==
    [timeout |-> OrElse(u.timeout, 60), cache |-> OrElse(u.cache, 0), http2 |-> OrElse(u.http2, FALSE),
     proxy |-> u.proxy, verify |-> OrElse(u.verify, TRUE),
     allowed |-> OrElse(u.allowed, {}) \cup (IF hasAuth THEN {"authorization"} ELSE {}),
     batch |-> IF u.batch = <<>> THEN <<>>
               ELSE <<[u.batch[1] EXCEPT !.max = <<OrElse(@, DefaultMaxSize)>>]>>]

UpstreamOf(files, hasAuth) ==
    ToUpstream(FoldLeft(LAMBDA u, f : MergeUpstream(u, ReadUpstream(f)), NoUpstream, files), hasAuth)

\* is_batching_enabled()
IsBatchingEnabled(upstream) == upstream.batch # <<>> /\ upstream.batch[1].delay >= 1

\* NativeHttp::init(), init_http2_only(): the client of gRPC speaks nothing but HTTP/2.
Client(upstream, grpc) ==
    [timeout |-> upstream.timeout, insecure |-> ~upstream.verify, proxy |-> upstream.proxy,
     http2 |-> upstream.http2 \/ grpc, cached |-> upstream.cache > 0]

-----------------------------------------------------------------------------
(* @server and the files linked to it.                                       *)

\* merge_key_value_vecs(), get_vars(): of two values of a key the later.
\* Mutated form: the first value stays.
Vars_First(pairs) == FoldLeft(LAMBDA vars, p : vars @@ (p[1] :> p[2]), <<>>, pairs)
Vars(pairs) == FoldLeft(LAMBDA vars, p : (p[1] :> p[2]) @@ vars, <<>>, pairs)

\* resolve_limit(): env is <<>>, <<"number", n>> or <<"text">>.
ResolveLimit(option, env, default) ==
    IF option # <<>> THEN option[1] ELSE IF env = <<>> \/ env = <<"text">> THEN default ELSE env[2]

\* validate_hostname(), handle_response_headers(), handle_experimental_headers(), validate_spa_dir():
\* what each finds wrong.  A name is "x-...", another, or not one of a header.
WrongHostname(name) == IF name \in {"localhost", "127.0.0.1"} THEN {} ELSE {"hostname"}
WrongCustom(pairs) ==
    (IF \E p \in ToSet(pairs) : p[1] = "bad name" THEN {"header name"} ELSE {})
    \cup (IF \E p \in ToSet(pairs) : p[2] = "bad value" THEN {"header value"} ELSE {})
WrongExperimental(names) == IF \A n \in names : n \in {"x-a", "X-B"} THEN {} ELSE {"experimental"}
WrongSpa(dir, directories) ==
    IF dir = <<>> \/ <<dir[1], "index.html">> \in directories THEN {} ELSE {"spa"}

\* Server::try_from(): without what HTTP/2 needs nothing else is looked at.
Http2(server, extensions) ==
    CASE server.version # <<"HTTP2">> -> {}
      [] server.version = <<"HTTP2">> /\ extensions.cert = {} -> {"certificate"}
      [] OTHER -> IF extensions.keys = <<>> THEN {"key"} ELSE {}
ServerErrors(server, extensions, directories) ==
    IF Http2(server, extensions) # {} THEN Http2(server, extensions)
    ELSE WrongHostname(OrElse(server.hostname, "127.0.0.1")) \cup WrongCustom(server.custom)
           \cup WrongExperimental(server.experimental) \cup WrongSpa(server.spa, directories)
\* get_port(), enable_introspection() and the like: what an option is when nothing is said.
Defaulted(server) ==
    [port |-> OrElse(server.port, 8000), vars |-> Vars(server.vars), version |-> OrElse(server.version, "HTTP1"),
     introspection |-> OrElse(server.introspection, TRUE), validation |-> OrElse(server.validation, FALSE)]
ToServer(server, extensions, env) ==
    [http |-> IF Defaulted(server).version = "HTTP1" THEN <<"HTTP1">>
              ELSE <<"HTTP2", extensions.cert, extensions.keys[1]>>,
     limits |-> [depth |-> ResolveLimit(server.depth, env, 15),
                 complexity |-> ResolveLimit(server.complexity, <<>>, 1000)]]
    @@ Defaulted(server)

-----------------------------------------------------------------------------
(* The schema that async-graphql executes.                                   *)

\* to_schema_with(): a limit of 0 is none; without resolvers a query is only validated.
ToSchemaWith(server, noResolver) ==
    [resolvers |-> ~noResolver, strict |-> server.validation \/ noResolver,
     introspection |-> server.introspection /\ ~noResolver,
     depth |-> IF server.limits.depth > 0 THEN <<server.limits.depth>> ELSE <<>>,
     complexity |-> IF server.limits.complexity > 0 THEN <<server.limits.complexity>> ELSE <<>>]

\* Mutated form: the limit itself is refused.
Within_Below(limit, n) == limit = <<>> \/ n < limit[1]
Within(limit, n) == limit = <<>> \/ n <= limit[1]
\* external: Schema::execute(), which validates before it resolves.
Admitted(schema, request) ==
    /\ Within(schema.depth, request.depth)
    /\ Within(schema.complexity, request.complexity)
    /\ schema.strict => request.valid
Executed(schema, request) ==
    IF ~Admitted(schema, request) THEN <<"refused">>
    ELSE <<"answer", IF schema.resolvers THEN "data" ELSE "nothing",
           request.introspects /\ schema.introspection>>

\* ConstValueExecutor::execute(), handle_rest_apis(), subscriptions, validate_operations():
\* a query is planned and executed without the schema, which answers its introspection.
Answer(server, request) ==
    CASE request.by \in {"rest", "sse"} -> Executed(ToSchemaWith(server, FALSE), request)
      [] request.by = "startup" -> Executed(ToSchemaWith(server, TRUE), request)
      [] OTHER ->
            IF request.introspects /\ server.introspection
            THEN <<"merged", Executed(ToSchemaWith(server, FALSE), request)>>
            ELSE <<"answer", "data", FALSE>>

-----------------------------------------------------------------------------
(* AppContext::new()                                                         *)

\* to_data_loader(), into_data_loader()
Batched == {"http", "graphql", "grpc"}
Loader(io, upstream) ==
    [group |-> io.group, list |-> io.list,
     delay |-> IF upstream.batch = <<>> THEN 0 ELSE upstream.batch[1].delay,
     max |-> IF upstream.batch = <<>> THEN DefaultMaxSize ELSE upstream.batch[1].max[1]]

\* IR::modify(): every io below a resolver, each with the loader made for it.
RECURSIVE Modified(_, _, _)
Numbered(ir, loaders, upstream) ==
    IF ir[2].kind \notin Batched THEN <<ir, loaders>>
    ELSE << <<ir[1], [ir[2] EXCEPT !.dl = <<Len(loaders[ir[2].kind]) + 1>>]>>,
            [loaders EXCEPT ![ir[2].kind] = Append(@, Loader(ir[2], upstream))]>>
Further(done, next) == <<Append(done[1], next[1]), next[2]>>
Below(kind, parts) == << <<kind, parts[1]>>, parts[2]>>
\* Mutated form: the loaders of a kind are one.
Modified_Shared(ir, loaders, upstream) ==
    IF ir[1] \in {"io", "cache"}
    THEN IF ir[2].kind \notin Batched THEN <<ir, loaders>>
         ELSE << <<ir[1], [ir[2] EXCEPT !.dl = <<1>>]>>,
                 [loaders EXCEPT ![ir[2].kind] = <<Loader(ir[2], upstream)>>]>>
    ELSE Below(ir[1], FoldLeft(LAMBDA done, i : Further(done, Modified(i, done[2], upstream)),
                               << <<>>, loaders>>, ir[2]))
Modified(ir, loaders, upstream) ==
    IF ir[1] \in {"io", "cache"} THEN Numbered(ir, loaders, upstream)
    ELSE Below(ir[1], FoldLeft(LAMBDA done, i : Further(done, Modified(i, done[2], upstream)),
                               << <<>>, loaders>>, ir[2]))

NoLoaders == [k \in Batched |-> <<>>]
FieldsWith(def, loaders, upstream) ==
    FoldLeft(LAMBDA done, ir : Further(done, Modified(ir, done[2], upstream)), << <<>>, loaders>>, def.fields)
InDefinition(def, loaders, upstream) ==
    IF def.kind # "object" THEN <<def, loaders>>
    ELSE <<[def EXCEPT !.fields = FieldsWith(def, loaders, upstream)[1]], FieldsWith(def, loaders, upstream)[2]>>
AppContext(definitions, upstream) ==
    FoldLeft(LAMBDA done, def : Further(done, InDefinition(def, done[2], upstream)), << <<>>, NoLoaders>>, definitions)

\* EvalHttp::new(), eval_io_inner(), execute_request_with_dl(): through its loader, or at once.
Through(io, loaders) ==
    IF io.dl = <<>> THEN <<"unreachable">>
    ELSE IF io.dl[1] \notin DOMAIN loaders[io.kind] THEN <<"unreachable">>
    ELSE <<"loader", loaders[io.kind][io.dl[1]]>>
Sent(io, upstream, loaders) ==
    CASE io.kind = "http" ->
            IF IsBatchingEnabled(upstream) /\ io.dl # <<>> THEN Through(io, loaders) ELSE <<"raw">>
      [] io.kind \in {"graphql", "grpc"} ->
            IF upstream.batch # <<>> /\ io.query THEN Through(io, loaders) ELSE <<"raw">>
      [] OTHER -> <<"own">>

-----------------------------------------------------------------------------
(* Headers, from the client to the upstreams and back: a function from a name *)
(* in lower case to its values in order.                                      *)
Lower(name) == CASE name = "X-A" -> "x-a" [] name = "X-B" -> "x-b" [] OTHER -> name

\* create_allowed_headers(): insert() leaves the last value of a name.
CreateAllowedHeaders(headers, allowed) ==
    [n \in DOMAIN headers \cap {Lower(a) : a \in allowed} |-> <<Last(headers[n])>>]

\* RequestContext::from(): what it collects of the upstreams' answers
NewContext(server) == [x |-> <<>>, cookies |-> IF server.setCookies THEN << <<>> >> ELSE <<>>]

\* set_cookie_headers(): an answer's first cookie, joined to those before in one value, if
\* both are text.
Joined(kept, cookie) ==
    IF kept = <<>> THEN <<cookie>> ELSE IF "opaque" \in ToSet(kept) \cup {cookie} THEN kept ELSE Append(kept, cookie)
\* Mutated form: a later answer's cookie takes the place of the earlier ones.
SetCookieHeaders_Last(c, headers) ==
    IF c.cookies = <<>> \/ "set-cookie" \notin DOMAIN headers THEN c
    ELSE [c EXCEPT !.cookies = << <<headers["set-cookie"][1]>> >>]
SetCookieHeaders(c, headers) ==
    IF c.cookies = <<>> \/ "set-cookie" \notin DOMAIN headers THEN c
    ELSE [c EXCEPT !.cookies = <<Joined(@[1], headers["set-cookie"][1])>>]

\* add_x_headers(): the first value, in the place of an earlier answer's
AddXHeaders(c, experimental, headers) ==
    [c EXCEPT !.x = [n \in {Lower(e) : e \in experimental} \cap DOMAIN headers |-> headers[n][1]] @@ @]

\* EvalHttp::execute(), set_headers(): an answer that is not what the schema says fails before.
SetHeaders(c, server, answer) ==
    IF ~answer.valid THEN c
    ELSE AddXHeaders(IF answer.success THEN SetCookieHeaders(c, answer.headers) ELSE c,
                     server.experimental, answer.headers)

\* update_response_headers(), extend_x_headers(): what comes later is what stays.
UpdateResponseHeaders(own, server, c) ==
    [n \in DOMAIN c.x |-> <<c.x[n]>>]
    @@ (IF c.cookies \in {<<>>, << <<>> >>} THEN <<>> ELSE "set-cookie" :> c.cookies)
    @@ server.custom @@ own

Responded(own, server, answers) ==
    UpdateResponseHeaders(own, server, FoldLeft(LAMBDA c, a : SetHeaders(c, server, a), NewContext(server), answers))

-----------------------------------------------------------------------------
RECURSIVE Ios(_)
Ios(ir) == IF ir[1] \in {"io", "cache"} THEN <<ir[2]>> ELSE FlattenSeq([i \in DOMAIN ir[2] |-> Ios(ir[2][i])])
IosOf(definitions) ==
    FlattenSeq([d \in DOMAIN definitions |->
        IF definitions[d].kind # "object" THEN <<>>
        ELSE FlattenSeq([f \in DOMAIN definitions[d].fields |-> Ios(definitions[d].fields[f])])])

\* AppContext::new(), eval_io_inner(): every io an object's fields may come to is
\* sent as the upstream's batch asks, through a loader of its own that groups as it does.
AreSent(was, is, upstream, loaders) ==
    /\ Len(is) = Len(was)
    /\ \A i \in DOMAIN is :
          /\ [is[i] EXCEPT !.dl = <<>>] = was[i]
          /\ Sent(is[i], upstream, loaders) =
                CASE was[i].kind \notin Batched -> <<"own">>
                  [] /\ was[i].kind \in Batched /\ upstream.batch # <<>>
                     /\ IF was[i].kind = "http" THEN upstream.batch[1].delay > 0 ELSE was[i].query ->
                        <<"loader", [group |-> was[i].group, list |-> was[i].list,
                                     delay |-> upstream.batch[1].delay, max |-> upstream.batch[1].max[1]]>>
                  [] OTHER -> <<"raw">>
    /\ \A i, j \in DOMAIN is :
          i # j /\ is[i].kind = is[j].kind /\ is[i].kind \in Batched => is[i].dl # is[j].dl
LoadersAreTheirOwn(definitions, upstream) ==
    AreSent(IosOf(definitions), IosOf(AppContext(definitions, upstream)[1]), upstream,
            AppContext(definitions, upstream)[2])

\* Config's unify(), Upstream::try_from(): the last file that says so decides, what
\* it leaves out of a batch or of @upstream included, and no header is lost.
Saying(files, Of(_)) == SelectSeq([i \in DOMAIN files |-> IF files[i] = <<>> THEN <<>> ELSE Of(files[i][1])],
                                  LAMBDA o : o # <<>>)
Written(files) == SelectSeq(files, LAMBDA f : f # <<>>)
LastSaid(said, default) == IF said = <<>> THEN default ELSE Last(said)[1]
IsLast(u, files, allowed, batches, hasAuth) ==
    /\ u.timeout = LastSaid(Saying(files, LAMBDA w : w.timeout), 60)
    /\ hasAuth => "authorization" \in u.allowed
    /\ u.allowed \ {"authorization"} = UNION {a[1] : a \in ToSet(allowed)}
    /\ u.verify <=> (Written(files) = <<>> \/ Last(Written(files))[1].verify # <<FALSE>>)
    /\ IsBatchingEnabled(u) <=> (batches # <<>> /\ OrElse(Last(batches)[1].delay, 0) > 0)
    /\ u.batch # <<>> <=> batches # <<>>
    /\ batches # <<>> =>
          /\ u.batch[1].max[1] = LastSaid(SelectSeq([i \in DOMAIN batches |-> batches[i][1].max],
                                                   LAMBDA m : m # <<>>), DefaultMaxSize)
          /\ u.batch[1].headers = UNION {OrElse(b[1].headers, {}) : b \in ToSet(batches)}
UpstreamIsLast(files, hasAuth) ==
    IsLast(UpstreamOf(files, hasAuth), files, Saying(files, LAMBDA w : w.allowed),
           Saying(files, LAMBDA w : w.batch), hasAuth)

\* resolve_limit(), to_schema_with(): what passes a limit is refused wherever the schema
\* executes it; a query of /graphql never is, but for its introspection.
Over(limits, request) ==
    \/ limits.depth > 0 /\ request.depth > limits.depth
    \/ limits.complexity > 0 /\ request.complexity > limits.complexity
LimitsAreKept(server, request) ==
    CASE request.by = "startup" ->
            Answer(server, request) = IF Over(server.limits, request) \/ ~request.valid THEN <<"refused">>
                                      ELSE <<"answer", "nothing", FALSE>>
      [] request.by \in {"rest", "sse"} ->
            Answer(server, request) = IF Over(server.limits, request) \/ (server.validation /\ ~request.valid)
                                      THEN <<"refused">>
                                      ELSE <<"answer", "data", request.introspects /\ server.introspection>>
      [] OTHER -> Answer(server, request) # <<"refused">>

\* Server::try_from(): a server that starts has what its protocol needs and is
\* told of every section that is wrong at once; the last value of a variable counts.
Complained(errors, server, directories) ==
    IF errors \cap {"certificate", "key"} # {} THEN Cardinality(errors) = 1
    ELSE "spa" \in errors <=> server.spa # <<>> /\ <<server.spa[1], "index.html">> \notin directories
Configured(s, server, env) ==
    /\ server.version = <<"HTTP2">> => s.http[1] = "HTTP2" /\ s.http[2] # {}
    /\ \A i \in DOMAIN server.vars :
          (\A j \in DOMAIN server.vars : j > i => server.vars[j][1] # server.vars[i][1])
              => s.vars[server.vars[i][1]] = server.vars[i][2]
    /\ s.limits.depth # 15 => <<s.limits.depth>> = server.depth \/ <<"number", s.limits.depth>> = env
    /\ server.depth # <<>> => server.depth = <<s.limits.depth>>
ServerIsChecked(server, extensions, directories, env) ==
    /\ Complained(ServerErrors(server, extensions, directories), server, directories)
    /\ ServerErrors(server, extensions, directories) = {} => Configured(ToServer(server, extensions, env), server, env)

\* create_allowed_headers(), set_headers(), update_response_headers(): an upstream is sent only
\* what it may be; a client gets of the upstreams' headers those asked for, as the last answer has
\* them, and a cookie of every answer that succeeded, whichever came first.
CookiesOf(answers) ==
    {a.headers["set-cookie"][1] : a \in {b \in ToSet(answers) : b.valid /\ b.success /\ "set-cookie" \in DOMAIN b.headers}}
HeadersAreAsked(request, allowed, own, server, answers) ==
    LET sent == CreateAllowedHeaders(request, allowed)
        back == Responded(own, server, answers)
        base == server.custom @@ own
        having(n) == {i \in DOMAIN answers : answers[i].valid /\ n \in DOMAIN answers[i].headers}
        asked == {Lower(e) : e \in server.experimental}
    IN  /\ \A n \in DOMAIN sent : n \in {Lower(a) : a \in allowed} /\ sent[n][1] \in ToSet(request[n])
        /\ \A n \in DOMAIN back :
              n \notin asked \cup {"set-cookie"} => n \in DOMAIN base /\ back[n] = base[n]
        /\ \A n \in asked :
              IF having(n) = {} THEN n \in DOMAIN back => back[n] = base[n]
              ELSE back[n] = <<answers[Max(having(n))].headers[n][1]>>
        /\ IF server.setCookies /\ CookiesOf(answers) # {}
           THEN "opaque" \notin CookiesOf(answers) =>
                   /\ ToSet(back["set-cookie"][1]) = CookiesOf(answers)
                   /\ ToSet(Responded(own, server, Reverse(answers))["set-cookie"][1]) = CookiesOf(answers)
           ELSE "set-cookie" \in DOMAIN back => back["set-cookie"] = base["set-cookie"]
=============================================================================
