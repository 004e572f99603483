------------------------------ MODULE MCInputs ------------------------------
(* Bounded inputs for the functions that MCAlgorithms picks, but for those of *)
(* a request.  First what a server is built of, what databases and HTTP       *)
(* upstreams answer, and what goes over the wire to them and comes back: a    *)
(* second has a hundred parts and an integer two cells; a script redirects a  *)
(* request three times.  Then what is done with configurations before a       *)
(* server starts.                                                             *)
EXTENDS Upstreams, Naturals, FiniteSets, SequencesExt, TLC

Made == INSTANCE Blueprint
Operating == INSTANCE Operators

Str(s) == <<"str", s>>
Obj(f) == <<"obj", f>>
Named(name, nonNull) == <<"named", name, nonNull>>
Many(name, inner) == <<"list", Named(name, inner), FALSE>>
Having1(type, resolvers) ==
    [type |-> type, args |-> <<>>, resolvers |-> resolvers, modify |-> <<>>, omit |-> FALSE,
     cache |-> <<>>, protected |-> <<>>, discriminate |-> <<>>]
Holding(fields) ==
    [fields |-> fields, added |-> <<>>, implements |-> {}, cache |-> <<>>, protected |-> <<>>]
Schema(types) ==
    [types |-> types, unions |-> [U |-> {"A", "B"}],
     enums |-> [E |-> [x |-> {"y", "1"}, z |-> {}], F |-> [x |-> {}]],
     roots |-> [query |-> <<"Query">>, mutation |-> <<>>, subscription |-> <<>>], providers |-> {"p", "q"}]

\* The answers of upstreams, and the parent's value.
Answers ==
    [a |-> <<Obj([type |-> Str("A"), f |-> Str("x")])>>, b |-> <<Obj([B |-> Obj([f |-> Str("1")])])>>,
     x |-> <<Str("y")>>, many |-> << <<"list", <<Str("1"), <<"null">>, Str("x")>> >> >>, fails |-> <<>>]
InContext(value, auth) ==
    [value |-> <<value>>, args |-> <<Obj([a |-> Str("x")])>>, copied |-> {}, vars |-> [v |-> "2"],
     auth |-> auth, world |-> Answers, kept |-> <<>>, keyed |-> DOMAIN Answers]

\* One field, with each of its directives and those of its type and of the type that it has.
Leaf1 == Having1(Named("Int", FALSE), <<>>)
FieldTypes1 == {Named("Int", FALSE), Many("E", FALSE), Named("F", FALSE), Named("U", FALSE),
                Named("N", FALSE), Named("D", FALSE), Named("A", FALSE)}
ResolverSets == {<<>>, << <<"io", "a">> >>, << <<"io", "x">> >>, << <<"io", "many">> >>, << <<"federation">> >>,
                 << <<"io", "a">>, <<"federation">>, <<"io", "b">> >>, << <<"io", "fails">> >>}
OfField(field, cache, protected, its) ==
    Schema([T |-> [Holding([f |-> field]) EXCEPT !.cache = cache, !.protected = protected, !.implements = {"N"}],
            D |-> [Holding([d |-> Having1(Named("Int", FALSE), << <<"io", "a">> >>), e |-> Having1(Named("D", FALSE), <<>>)])
                      EXCEPT !.protected = its],
            A |-> [Holding([f |-> Leaf1]) EXCEPT !.implements = {"N"}, !.protected = its],
            B |-> Holding([f |-> Leaf1]),
            N |-> Holding([n |-> Leaf1])])
FieldInputs ==
    {[config |-> OfField([Having1(type, resolvers) EXCEPT !.modify = modify, !.cache = cache, !.protected = own,
                                                          !.discriminate = discriminate],
                         of.cache, of.protected, its),
      ctx |-> InContext(Obj([f |-> Str("y"), z |-> Str("other")]), auth)] :
        type \in FieldTypes1, resolvers \in ResolverSets, modify \in {<<>>, <<"z">>, <<"n">>},
        cache \in {<<>>, <<1>>}, own \in {<<>>, <<{}>>, <<{"p"}>>}, discriminate \in {<<>>, <<"type">>},
        of \in {[cache |-> <<>>, protected |-> <<>>], [cache |-> <<2>>, protected |-> <<{"q"}>>]},
        its \in {<<>>, <<{"p"}>>}, auth \in {{"p"}, {"p", "q"}}}

\* Steps one after another; what they are given is a template of the step before.
CallSchema ==
    Schema([Query |-> Holding([one |-> [Having1(Named("A", FALSE), << <<"io", "a">> >>) EXCEPT
                                          !.args = [a \in {"a"} |-> [type |-> Named("Int", TRUE)]]],
                               said |-> Having1(Named("A", FALSE), << <<"dynamic", <<"mustache", <<"args", "a">> >> >> >>),
                               plain |-> Having1(Named("A", FALSE), <<>>),
                               fails |-> Having1(Named("A", FALSE), << <<"io", "fails">> >>)]),
            A |-> Holding([f |-> Leaf1])])
StepArgs == {<<>>, [a \in {"a"} |-> <<"mustache", <<"args", "f">> >>], [a \in {"a"} |-> <<"mustache", <<"args", "a">> >>],
             [a \in {"a"} |-> <<"value", Str("z")>>]}
Steps == [root : {"Query"}, field : {"one", "said", "plain", "fails"}, args : StepArgs]
CallInputs == {s \in UNION {[1..n -> Steps] : n \in 1..3} : \A i \in DOMAIN s : i > 2 => s[i].field = "said"}

\* Added fields, and the templates that their source may have.
Deep(leaf, list) ==
    Schema([T |-> Holding([u |-> Having1(IF list THEN Many("A", TRUE) ELSE Named("A", TRUE), <<>>),
                           r |-> Having1(Named("A", FALSE), << <<"io", "u">> >>),
                           a |-> Having1(Named("String", TRUE), <<>>), s |-> Having1(Many("Int", TRUE), <<>>)]),
            A |-> Holding([f |-> Having1(leaf, <<>>), g |-> Having1(Named("B", TRUE), <<>>)]),
            B |-> Holding([h |-> Having1(leaf, <<>>), a |-> Having1(Named("Int", TRUE), << <<"io", "x">> >>)])])
LeafTypes == {Named("Int", TRUE), Named("Int", FALSE), Many("Int", TRUE), Many("Int", FALSE)}
LeafValues == {<<"num", 1>>, <<"null">>, <<"list", << <<"num", 1>> >> >>, <<"list", << <<"null">> >> >>}
Tree(v) == Obj([f |-> v, g |-> Obj([h |-> v])])
AddedPaths == UNION {[1..n -> {"u", "r", "f", "g", "h", "0", "a", "s"}] : n \in 1..3}
                 \cup {<<"u", "0", "g", "h">>, <<"r", "g", "h", "0">>, <<"u", "g", "h", "0">>}
Placed(v, list) == Obj([u |-> IF list THEN <<"list", <<Tree(v)>> >> ELSE Tree(v), a |-> Str("x"),
                        s |-> <<"list", << <<"num", 2>> >> >>])
AddedInputs ==
    {[config |-> Deep(leaf, list), added |-> [name |-> "new", path |-> path],
      ctx |-> [InContext(Placed(v, list), {}) EXCEPT !.world = [u |-> <<Tree(v)>>, x |-> << <<"num", 3>> >>]]] :
        leaf \in LeafTypes, list \in BOOLEAN, v \in LeafValues, path \in AddedPaths}
Template1(leaf, parts, v, of, given) ==
    [config |-> Deep(leaf, FALSE), parts |-> parts, value |-> Placed(v, FALSE), of |-> of, given |-> given]
TemplateInputs ==
    {Template1(leaf, <<head>> \o path, v, [type |-> leaf, default |-> <<>>], <<"num", 1>>) :
        leaf \in LeafTypes, v \in LeafValues, head \in {"value", "other"},
        path \in {p \in AddedPaths : Len(p) < 4 /\ (Len(p) = 1 \/ p[1] = "u")}}
    \cup {Template1(Named("Int", TRUE), <<head>> \o path, <<"num", 1>>, [type |-> t, default |-> d], given) :
        head \in {"args", "vars"}, path \in UNION {[1..n -> {"a", "b"}] : n \in 0..2},
        t \in LeafTypes, d \in {<<>>, << <<"num", 1>> >>}, given \in {<<"num", 1>>, <<"null">>}}

\* Types one below the other, of which some have resolvers.
RootInputs ==
    {[Schema([Query |-> Holding([a |-> q]), A |-> Holding([a |-> a, b |-> b]), B |-> Holding([a |-> c]),
              Date |-> Holding(<<>>)])
        EXCEPT !.roots = [query |-> root, mutation |-> <<>>, subscription |-> other]] :
        q \in {Having1(Named(n, FALSE), r) : n \in {"A", "B", "Int"}, r \in {<<>>, << <<"io", "a">> >>}},
        a \in {Having1(Many(n, FALSE), r) : n \in {"A", "B", "E", "Date"}, r \in {<<>>, << <<"io", "a">> >>}},
        b \in {Having1(Named(n, FALSE), r) : n \in {"B", "U", "Query"}, r \in {<<>>, << <<"io", "a">> >>}},
        c \in {Having1(Named(n, FALSE), r) : n \in {"A", "Query", "Int"}, r \in {<<>>, << <<"io", "a">> >>}},
        root \in {<<>>, <<"Query">>, <<"Gone">>}, other \in {<<>>, <<"B">>}}

Defined(kind, fields, args, implements, members) ==
    [kind |-> kind, fields |-> fields, args |-> args, implements |-> implements, members |-> members]
Names == {"A", "B", "I", "U", "JSON"}
KeepInputs ==
    {[defs |-> [Q |-> Defined("object", q, {}, {}, {}), M |-> Defined("object", {"B"}, {"In"}, {}, {}),
                A |-> Defined("object", a, arg, i, {}), B |-> Defined("object", {"Int"}, {}, {"I"}, {}),
                I |-> Defined("interface", n, {}, {}, {}), U |-> Defined("union", {}, {}, {}, u),
                In |-> Defined("input", {"Int"}, {}, {}, {}), S |-> Defined("scalar", {}, {}, {}, {"S"})],
      query |-> "Q", mutation |-> mutation] :
        q \in SUBSET Names, a \in SUBSET {"U", "Q", "S"}, arg \in {{}, {"In"}}, i \in {{}, {"I"}},
        n \in {{"Int"}, {"A"}}, u \in {{"A", "B"}, {"A"}}, mutation \in {<<>>, <<"M">>}}

\* A query that is answered with what varies, and the types that it may lead to.
OfArg(field, name) == [field EXCEPT !.args = [x \in {"x"} |-> [type |-> Named(name, TRUE), default |-> <<>>]]]
Plain1(name) == Having1(Named(name, FALSE), << <<"io", "a">> >>)
DefineInputs ==
    {[types |-> [Query |-> Holding([f |-> OfArg(Plain1(out), arg),
                                     g |-> [Plain1("Int") EXCEPT !.modify = g.modify, !.omit = g.omit]]),
                 T |-> [Holding([a |-> Plain1("Int"), t |-> OfArg(Plain1(of), "D")]) EXCEPT !.implements = it],
                 K |-> [Holding([a |-> Plain1("Int")]) EXCEPT !.implements = {"J"}],
                 J |-> [Holding([a |-> Plain1("Int")]) EXCEPT !.implements = ij],
                 I |-> Holding([a |-> Plain1("Int")]),
                 D |-> Holding([c |-> Plain1("Int"), d |-> Plain1(inner)])]
                @@ g.scalar :> Holding(<<>>),
      unions |-> [U |-> {"T", "K"}], enums |-> [E |-> g.enum], providers |-> {},
      roots |-> [query |-> <<"Query">>, mutation |-> <<"T">>, subscription |-> <<"K">>]] :
        out \in {"T", "I", "J", "U", "E"}, arg \in {"D", "T", "E", "S"}, of \in {"I", "U", "D", "Gone"},
        inner \in {"D", "E", "T"}, it \in {{}, {"I"}, {"I", "J"}}, ij \in {{}, {"I"}},
        g \in {[modify |-> m, omit |-> m # <<>>, scalar |-> "S", enum |-> [x |-> {"y"}, z |-> {}]] : m \in {<<>>, <<"h">>}}
               \cup {[modify |-> <<"h">>, omit |-> FALSE, scalar |-> "JSON", enum |-> [x |-> {"y"}]],
                      [modify |-> <<"h">>, omit |-> FALSE, scalar |-> "S", enum |-> <<>>]}}

\* What the blueprint says of a configuration is what its directives say.
BlueprintMeans ==
    /\ family = "field" => Made!FieldMeansItsDirectives(input.config, input.config.types["T"], "f", input.ctx)
    /\ family = "call" => Made!CallIsItsSteps(CallSchema, input, InContext(Obj(<<>>), {}))
    /\ family = "added" => Made!AddedFieldFits(input.config, input.config.types["T"], input.added, input.ctx)
    /\ family = "template" =>
        LET default == input.of.default
            ctx == [InContext(input.value, {}) EXCEPT
                      !.args = <<Obj([a |-> IF default # <<>> THEN default[1] ELSE input.given])>>]
        IN  Made!Fits(input.config, Named("T", TRUE), input.value)
            /\ Made!Fits(input.config, input.of.type, ctx.args[1][2]["a"])
            => Made!ValidatedRenders(input.config, input.config.types["T"], [a \in {"a"} |-> input.of],
                                     [a \in {"a"} |-> "1"], input.parts, [ctx EXCEPT !.vars = [a \in {"a"} |-> "1"]])
    /\ family = "roots" => Made!RootsAreResolved(input)
    /\ family = "keep" =>
        /\ Made!KeptIsWhole(input.defs, input.query, input.mutation)
        /\ Operating!FieldTypesRegistered(input.defs, input.query, input.mutation, <<"B">>)
    /\ family = "define" => Operating!Defines(input)

-----------------------------------------------------------------------------
\* The directives, one by one, for a field of a type of its own.
Lit == <<>>
Told1(segments) == <<"str", segments>>
Templated == {Told1(<<Lit>>), Told1(<< <<"value", "a">> >>), Told1(<< <<"a">> >>), Told1(<<Lit, <<"value", "u">> >>),
              Told1(<< <<"args", "a">>, Lit, <<"vars", "v">> >>), Told1(<< <<"u", "f">>, Lit>>), <<"num", 1>>, <<"null">>}
Bodies1 == Templated \cup {Obj([f |-> t]) : t \in Templated} \cup {<<"list", <<t, u>> >> : t \in Templated, u \in Templated}
             \cup {<<"list", <<Obj([f |-> t]), u>> >> : t \in Templated, u \in Templated}
Parent(v) == Obj([a |-> v, u |-> Obj([f |-> v])])
SelectingInputs == {[json |-> j, answer |-> a] : j \in Bodies1, a \in {Str("x"), Obj([a |-> Str("y")]), Parent(Str("1"))}}

QueryParams == [key : {"p", "q"}, value : {<<>>, <<"value", "a">>, <<"args", "a">>, <<"args", "b">>, <<"value", "u">>}]
HttpOf(method, query, body, batchKey) ==
    [kind |-> "http", url |-> "u", path |-> {}, method |-> method, query |-> query, body |-> body, select |-> <<>>,
     batchKey |-> batchKey]
HttpsInputs ==
    {[d |-> HttpOf(m, q, b, k), upstream |-> [batch |-> u]] :
        m \in {"GET", "POST"}, q \in UNION {[1..n -> QueryParams] : n \in 0..2}, k \in {<<>>, <<"id">>},
        b \in {<<>>}, u \in {<<>>, <<[delay |-> 1, max |-> <<>>]>>, <<[delay |-> 0, max |-> <<>>]>>,
                            <<[delay |-> 1, max |-> <<0>>]>>}}
    \cup {[d |-> HttpOf(m, <<>>, <<b>>, <<"id">>), upstream |-> [batch |-> <<[delay |-> 1, max |-> <<>>]>>]] :
            m \in {"GET", "POST"}, b \in Bodies1}

\* What a field's directive is compiled with.
Text1 == [Having1(Named("Int", FALSE), << <<"io", "a">> >>) EXCEPT !.args = [a \in {"a"} |-> [type |-> Named("String", TRUE), default |-> <<>>]]]
Resolving1 == Schema([T |-> [Holding([f |-> Text1, a |-> Having1(Named("String", TRUE), <<>>),
                                      u |-> Having1(Named("A", FALSE), <<>>), l |-> Having1(Many("Int", TRUE), <<>>)])
                              EXCEPT !.implements = {"N"}],
                      A |-> Holding([f |-> Having1(Named("Int", FALSE), <<>>)]),
                      D |-> [Holding([f |-> Leaf1]) EXCEPT !.protected = <<{}>>],
                      N |-> Holding([n |-> Leaf1])])
GivenIn(config, links) ==
    [config |-> config, links |-> links, schemas |-> <<>>, script |-> <<"script">>, upstream |-> [batch |-> <<>>],
     methods |-> (<<"p", "S", "m">> :> TRUE) @@ (<<"p", "S", "other">> :> FALSE), vars |-> {"v"}]

\* Constants, for a field of every type of which the schema says what its values are.
ConstantInputs == [body : Bodies1, type : {Named("Int", FALSE), Named("String", TRUE), Named("A", FALSE), Named("A", TRUE),
                                           Many("Int", FALSE), Many("String", TRUE), Many("A", FALSE)}]

\* Directives, one or two, of which each asks for something of the parent.
GrpcOf(method, path, headers, body, select) ==
    [kind |-> "grpc", url |-> "g", path |-> path, method |-> method, headers |-> headers, body |-> body,
     batchKey |-> <<>>, select |-> select]
GraphqlOf(headers, args, streamUrl) ==
    [kind |-> "graphql", url |-> <<"q">>, headers |-> headers, args |-> args, streamUrl |-> streamUrl]
Asked1 == {<<"value", "a">>, <<"value", "u">>, <<"value", "u", "f">>, <<"value", "l">>, <<"value", "l", "0">>,
           <<"value">>, <<"args", "a">>, <<"args", "b">>, <<"vars", "v">>, <<"vars", "w">>, <<"headers", "h">>, <<"other", "a">>}
TemplatesOf(p) ==
    {HttpOf("GET", <<[key |-> "p", value |-> p]>>, <<>>, <<>>), [HttpOf("GET", <<>>, <<>>, <<>>) EXCEPT !.path = {p}],
     GraphqlOf({p}, {}, <<>>), GraphqlOf({}, {p, <<"value", "a">>}, <<>>), GrpcOf(<<"p", "S", "m">>, {p}, {}, {}, <<>>),
     GrpcOf(<<"p", "S", "m">>, {}, {p}, {}, <<>>), GrpcOf(<<"p", "S", "m">>, {}, {}, {p}, <<>>)}
TemplatedInputs ==
    LET one == UNION {{<<d>> : d \in TemplatesOf(p)} : p \in Asked1}
        before == {GraphqlOf({}, {}, <<>>), HttpOf("GET", <<>>, <<>>, <<>>)}
    IN  [directives : one \cup {<<b>> \o d : b \in before, d \in one}, v : {Str("x"), Str("1")}, there : BOOLEAN]

\* Databases by their links, and what is asked of them.
LinkOf(type, id, src) == [type |-> type, id |-> id, src |-> src, region |-> <<>>]
LinkSets ==
    {l \in UNION {[1..n -> {LinkOf(t, id, <<"url", u>>) : t \in {"Postgres", "GreptimeDB", "Redis", "S3"},
                             id \in {<<>>, <<"x">>, <<"y">>}, u \in {"k", "l"}}] : n \in 0..2} :
        Operating!Reader!LinksAreValid(l) /\ \A i \in DOMAIN l : l[i].src[2] = <<"k", "l">>[i]}
LinkedRuntime(links) ==
    Operating!Reader!Runtime(links,
        [s3 |-> FoldLeft(LAMBDA s, l : IF l.type = "S3"
                                       THEN Append(s, [id |-> <<IF l.id = <<>> THEN "" ELSE l.id[1]>>, content |-> l.src]) ELSE s,
                         <<>>, links)])
SqlOf(name, op, db) ==
    [kind |-> "sql", sql |-> [name |-> name, op |-> op, db |-> db, table |-> <<"users">>, filter |-> <<>>, input |-> <<>>,
                              limit |-> <<>>, offset |-> <<>>, channel |-> "valid", order |-> <<>>]]
RedisOf(op, db) ==
    [kind |-> "redis", redis |-> [op |-> op, db |-> db, key |-> <<"k">>, field |-> <<>>, value |-> <<>>, ttl |-> <<>>,
                                  start |-> <<>>, stop |-> <<>>, channel |-> <<"c">>, startId |-> <<>>, payload |-> "JSON"]]
S3Of(op, key, bucket, link) == [kind |-> "s3", op |-> op, key |-> key, bucket |-> bucket, link |-> link]
ClientInputs ==
    [links : LinkSets,
     d : {SqlOf(name, "Select", db) : name \in {"@postgres", "@greptimedb"}, db \in {<<>>, <<"x">>, <<"default">>}}
         \cup {RedisOf(op, db) : op \in {"GET", "SUBSCRIBE"}, db \in {<<>>, <<"x">>}}
         \cup {S3Of(op, key, bucket, link) : op \in {"List", "Delete"}, key \in {<<>>, <<"k">>}, bucket \in {"", "b"},
                                            link \in {<<>>, <<"x">>}}]
StreamingInputs ==
    {[links |-> links, d |-> d, field |-> [Text1 EXCEPT !.type = type, !.cache = cache, !.protected = protected]] :
        links \in LinkSets, type \in {Named("Int", FALSE), Named("E", FALSE), Named("F", FALSE), Named("U", FALSE), Named("D", FALSE)},
        cache \in {<<>>, <<1>>}, protected \in {<<>>, <<{"p"}>>},
        d \in {SqlOf(name, op, db) : name \in {"@postgres", "@greptimedb"}, op \in {"Select", "Listen"}, db \in {<<>>, <<"x">>}}
               \cup {RedisOf(op, db) : op \in {"GET", "SUBSCRIBE", "XREAD"}, db \in {<<>>, <<"x">>}}}
    \cup {[links |-> <<>>, d |-> d, field |-> [Text1 EXCEPT !.type = type, !.cache = cache]] :
        type \in {Named("Int", FALSE), Named("E", FALSE)}, cache \in {<<>>, <<1>>},
        d \in {[HttpOf("GET", <<>>, <<>>, k) EXCEPT !.select = s] : k \in {<<>>, <<"id">>}, s \in {<<>>, <<Str(<<Lit>>)>>}}
               \cup {GrpcOf(m, {}, {}, {}, s) : m \in {<<"p", "S", "m">>, <<"p", "S", "other">>, <<"S", "m">>, <<"p", "S", "gone">>},
                                              s \in {<<>>, <<Str(<<Lit>>)>>}}
               \cup {GraphqlOf({}, {}, s) : s \in {<<>>, <<"s">>}}
               \cup {[kind |-> "js"], [kind |-> "expr", body |-> <<"num", 1>>], S3Of("List", <<>>, "b", <<>>)}}

\* The fields of a query type, and the federation's.
OfTypes == [a \in {"A"} |-> [kind |-> "expr", body |-> Obj([f |-> <<"num", 1>>])]]
EntityOf(byType) == [kind |-> "entity", byType |-> byType]
Services == {<<>>, <<[kind |-> "service"]>>, <<[kind |-> "js"], [kind |-> "service"]>>}
Entities ==
    {<<EntityOf(OfTypes)>>, <<EntityOf([A |-> [kind |-> "js"], D |-> SqlOf("@postgres", "Select", <<>>)])>>,
     <<EntityOf([a \in {"A"} |-> EntityOf(OfTypes)])>>, <<EntityOf([a \in {"A"} |-> [kind |-> "service"]])>>,
     <<EntityOf(OfTypes), [kind |-> "service"]>>, <<EntityOf([a \in {"A"} |-> [kind |-> "expr", body |-> <<"num", 1>>]])>>,
     << [kind |-> "js"], EntityOf(OfTypes)>>}
FederationInputs ==
    {[config |-> [n \in named |-> CASE n = "a" -> a [] n = "b" -> b [] OTHER -> c],
      fields |-> [i \in 1..3 |-> [name |-> <<"a", "b", "c">>[i], resolver |-> own]]] :
        a \in Services \cup Entities, b \in Services \cup Entities, c \in Services,
        named \in {{"a", "b", "c"}, {"a", "c"}}, own \in {<<>>, << <<"io", "a">> >>}}

\* Definitions one after another, of which a later may have the name of an earlier.
EnumOf(name, values) == [name |-> name, kind |-> "enum", values |-> values]
EnumInputs ==
    [defs : UNION {[1..n -> {EnumOf("E", [x |-> {"y"}, z |-> {}]), EnumOf("E", [x \in {"x"} |-> {}]), EnumOf("F", [y |-> {"x", "z"}, w |-> {"y"}]),
                             [name |-> "E", kind |-> "scalar"],
                             [name |-> "E", kind |-> "input", fields |-> <<[name |-> "f", type |-> "Int"], [name |-> "f", type |-> "E"]>>]}] : n \in 0..3},
     enum : {"E", "F"}, value : {"x", "y", "z", "w"}]

\* Each directive asks what it should of whom it should, and is refused otherwise.
DirectivesMean ==
    /\ family = "selecting" =>
          \A other \in {Str("1"), Obj([a |-> Str("2")])} :
              Operating!SelectReadsTheAnswer(input.json, <<"io", "z">>,
                  [InContext(Parent(Str("x")), {}) EXCEPT !.world = [z \in {"z"} |-> <<input.answer>>]],
                  [InContext(other, {}) EXCEPT !.args = <<other>>, !.world = [z \in {"z"} |-> <<input.answer>>]])
    /\ family = "https" =>
          Operating!BatchDiffersOnce([GivenIn(Resolving1, <<>>) EXCEPT !.upstream = input.upstream], input.d, Text1,
                                     InContext(Parent(Str("x")), {}), InContext(Parent(Str("y")), {}))
    /\ family = "constant" =>
          Operating!ConstantFits(GivenIn(Resolving1, <<>>), [kind |-> "expr", body |-> input.body], input.type)
    /\ family = "templated" =>
          Operating!TemplatesRenderLeaves(GivenIn(Resolving1, <<>>), input.directives, Resolving1.types["T"], Text1,
              InContext(Obj([a |-> input.v, u |-> IF input.there THEN Obj([f |-> input.v]) ELSE <<"null">>, l |-> <<"list", <<input.v>> >>]), {}))
    /\ family = "client" =>
          Operating!AsksItsClient(GivenIn(Resolving1, input.links), input.d, Text1, LinkedRuntime(input.links), <<Str("x")>>)
    /\ family = "streaming" =>
          Operating!SubscriptionOpens(GivenIn(Resolving1, input.links), input.d, Resolving1.types["T"], input.field,
                                      LinkedRuntime(input.links))
    /\ family = "federation" => Operating!FederatedAsMeant(GivenIn(Resolving1, <<>>), input.config, input.fields)
    /\ family = "enum" => Operating!EnumsAgree(input.defs, input.enum, input.value)

-----------------------------------------------------------------------------
Columns1 == INSTANCE PostgresValue WITH Parts <- 100, Width <- 2

Numerics ==
    {<<"numeric", n, dscale, negative>> :
        n \in {0, 1, 7, 10, 12, 99, 100, 101, 120, 500, 999, 1000, 1002, 1200, 4321, 9900},
        dscale \in 0..5, negative \in BOOLEAN}

Intervals ==
    {<<"interval", months, days, parts>> :
        months \in {-25, -13, -12, -11, -1, 0, 1, 11, 12, 13, 24}, days \in {-1, 0, 1, 40},
        parts \in {0, 1, 10, 60, 105, 6000, 359999, 360000, 366110, 9000000, -1, -50, -6000, -360001}}

Timetzs ==
    {<<"timetz", parts, offset>> :
        parts \in {0, 1, 10, 105, 366110, 8639999, 8640000},
        offset \in {0, 60, 3600, 19800, 45900, -3600, -20700, 30, -30, -3661}}

\* Elements: a null, an integer, a text of one cell and one of none.
Elements == {<<>>, <<0, 5>>, <<1, 0>>, <<7>>}
Shaped == {<< <<>>, <<>> >>} \cup
          {<<elements, dims>> : elements \in Elements \X Elements, dims \in {<<2>>, <<1, 2>>, <<2, 1>>}}
          \cup {<<elements, <<2, 2>> >> : elements \in [1..4 -> Elements \ {<<7>>}]}

Arrays ==
    {<<"array", s[1], s[2], cut, type>> : s \in Shaped, cut \in 0..12, type \in {"int", "text"}}

Ranges ==
    {<<"range", lower, upper, inclusive, type>> :
        lower \in {<<>>, <<0, 1>>, <<2, 2>>}, upper \in {<<>>, <<0, 1>>, <<2, 2>>},
        inclusive \in SUBSET {"lower inclusive", "upper inclusive"} \cup {{"empty"}}, type \in {"int", "text"}}

Inets ==
    {<<"inet", [address |-> "a", max |-> max, mask |-> mask, cidr |-> cidr]>> :
        max \in {32, 128}, mask \in {0, 8, 32, 128}, cidr \in BOOLEAN}

ColumnTypes ==
    {<<"type", t>> : t \in {"bool", "int2", "int4", "int8", "float8", "numeric", "timestamp",
        "timestamptz", "date", "time", "timetz", "interval", "inet", "json", "uuid", "text",
        "bytea", "range", "enum"}}

ColumnNames ==
    {<<"a">>, <<"_", "_", "a">>, <<"-", "-">>, <<"1">>, <<"_", "1">>, <<"-", "1">>, <<>>,
     <<"a", "-", "a">>, <<"a", "_", "a">>, <<"_", "u">>, <<"_">>}
NamedRows == {<<"row", columns>> : columns \in UNION {[1..n -> ColumnNames] : n \in 0..3}}

ColumnInputs ==
    UNION {Numerics, Intervals, Timetzs, Arrays, Ranges, Inets, ColumnTypes, NamedRows}

\* PostgresIO::execute(), row_value_to_const(), parse_pg_numeric(), parse_pg_array():
\* a row has each column under its name, and each value is the one that was sent,
\* looks as its GraphQL type demands, and can be given back to its column.
ColumnsAreRead(column) ==
    CASE column[1] = "numeric" -> Columns1!NumericIsExact(column[2], column[3], column[4])
      [] column[1] = "interval" -> Columns1!IntervalIsExact(column[2], column[3], column[4])
      [] column[1] = "timetz" -> Columns1!TimetzIsExact(column[2], column[3])
      [] column[1] = "array" -> Columns1!ArrayIsRead(column[2], column[3], column[4], column[5])
      [] column[1] = "range" -> Columns1!RangeIsExact(column[2], column[3], column[4], column[5])
      [] column[1] = "inet" -> Columns1!InetIsExact(column[2])
      [] column[1] = "type" -> Columns1!ColumnTakesItBack(column[2])
      [] column[1] = "row" -> Columns1!RowIsNamed(column[2])

-----------------------------------------------------------------------------
Hooks == INSTANCE WorkerHooks WITH MaxRedirects <- 3

BodyJson(x) == <<"json", x>>
HookPaths == {"a", "b", "c"}
Answer(status, headers, body) == Hooks!Response(status, headers, <<>>, body)
Redirect(status, to) == Hooks!Response(status, {}, <<to>>, BodyJson("x"))
\* What an upstream, a script and a script's second function answer.
UpstreamAnswers ==
    {<<>>, <<Answer(200, {"max-age"}, BodyJson("x"))>>, <<Answer(200, {}, <<"none">>)>>,
     <<Answer(404, {"cookie"}, BodyJson("x"))>>, <<Answer(200, {}, <<"text", "x">>)>>}
ScriptAnswers ==
    {<<"throws">>, <<"number">>, <<"request", "b">>, <<"both", "b", Answer(200, {}, BodyJson("y"))>>,
     <<"response", Answer(200, {}, BodyJson("y"))>>, <<"response", Answer(500, {}, BodyJson("y"))>>,
     <<"response", Answer(200, {}, <<"none">>)>>, <<"response", Answer(302, {}, BodyJson("y"))>>,
     <<"response", Redirect(302, "b")>>, <<"response", Redirect(301, "c")>>, <<"response", Redirect(302, "a")>>}
BodyAnswers ==
    {[b \in {BodyJson("x"), BodyJson("y"), BodyJson("null")} |-> BodyJson("y")],
     (BodyJson("x") :> BodyJson("y") @@ BodyJson("y") :> BodyJson("x") @@ BodyJson("null") :> <<"text", "z">>)}
Scripts ==
    {<<>>, <<[loads |-> FALSE, functions |-> <<>>]>>}
    \cup {<<[loads |-> TRUE, functions |-> [onRequest |-> asked, onResponse |-> seen]]>> :
            asked \in {[p \in HookPaths |-> CASE p = "a" -> x [] p = "b" -> y [] OTHER -> <<"throws">>] :
                        x \in ScriptAnswers, y \in ScriptAnswers},
            seen \in BodyAnswers}
HookInputs ==
    {[hooks |-> [request |-> request, response |-> response], script |-> script,
      upstream |-> [p \in HookPaths |-> CASE p = "a" -> <<Answer(200, {"max-age"}, BodyJson("x"))>>
                                          [] p = "b" -> up [] OTHER -> <<Answer(200, {}, BodyJson("y"))>>],
      item |-> item] :
        request \in {<<>>, <<"onRequest">>, <<"onWrong">>}, response \in {<<>>, <<"onResponse">>},
        script \in Scripts, up \in UpstreamAnswers, item \in {<<>>, <<1>>}}

\* What a script is shown, and what it may make up.
Url1(scheme, port, query) == [scheme |-> scheme, host |-> <<"h">>, port |-> port, path |-> <<"/", "p">>, query |-> query]
Texts1 == {<<>>, <<"a">>, <<"a", "&", "b">>, <<"a", "#">>, <<"+">>}
Headers1 == BoundedSeq({"x", "y"} \X {"1", "2", "unseen"}, 2)
Shown(kind, it) == [kind |-> kind, it |-> it]
JsUrls ==
    {[path |-> path, query |-> query, scheme |-> <<"str", scheme>>, host |-> host, port |-> port] :
        path \in {<<"str", <<"/", "p">>>>, <<"str", <<"p", "/", "q">>>>, <<"str", <<>>>>, <<"num", 1>>},
        query \in {<<"obj", <<>>>>, Hooks!JsMap(<<"j">> :> <<"a", "&", "k">>), <<"obj", <<"j">> :> <<"num", 1>>>>, <<"undefined">>},
        scheme \in {"https", "http", "ftp"}, host \in {<<"null">>, <<"str", <<"h">>>>, <<"num", 1>>},
        port \in {<<"undefined">>, <<"num", 80>>, <<"num", 443>>, <<"num", 8080>>, <<"num", 70000>>}}
JsHeaders == {<<"undefined">>, <<"obj", <<>>>>} \cup {Hooks!JsMap(h) : h \in {[x |-> "1"], [x |-> "broken"], "not a token" :> "1"}}
JsBodies == {<<"null">>, <<"str", "b">>, <<"num", 1>>}
JsRequest(url, method, headers, body) ==
    <<"obj", [uri |-> <<"obj", url>>, method |-> method, headers |-> headers, body |-> body]>>
JsRequests ==
    {JsRequest(url, <<"str", "GET">>, <<"obj", <<>>>>, <<"null">>) : url \in JsUrls}
    \cup {JsRequest(Hooks!UriIntoJs(Hooks!UriOf(Url1("http", <<>>, <<>>)))[2], method, headers, body) :
            method \in {<<"str", "GET">>, <<"str", "not a token">>, <<"null">>}, headers \in JsHeaders, body \in JsBodies}
JsResponses ==
    {<<"obj", [status |-> status, headers |-> headers, body |-> body]>> :
        status \in {<<"num", n>> : n \in {99, 100, 302, 1000, 70000}} \cup {<<"str", "200">>}, headers \in JsHeaders, body \in JsBodies}
CodecInputs ==
    {Shown("request", [method |-> "GET", url |-> Url1(scheme, port, query), headers |-> <<>>, body |-> <<>>]) :
        scheme \in {"http", "https"}, port \in {<<>>, <<8080>>}, query \in BoundedSeq({<<"j">>, <<"k">>} \X Texts1, 2)}
    \cup {Shown("request", [method |-> "POST", url |-> Url1("http", <<>>, <<>>), headers |-> headers, body |-> body]) :
            headers \in Headers1, body \in {<<>>, <<"text">>, <<"bytes">>, <<"stream">>}}
    \cup {Shown("response", [status |-> status, headers |-> headers, body |-> body]) :
            status \in {100, 200, 999}, headers \in Headers1, body \in {"text", "bytes"}}
    \cup {Shown("made", <<"obj", "request" :> r>>) : r \in JsRequests \cup {<<"num", 1>>}}
    \cup {Shown("made", <<"obj", name :> r>>) : r \in JsResponses, name \in {"response", "answer"}}
    \cup {Shown("made", <<"obj", "response" :> r @@ "request" :> JsRequest(url, <<"str", "GET">>, <<"obj", <<>>>>, <<"null">>)>>) :
            r \in JsResponses, url \in {Hooks!UriIntoJs(Hooks!UriOf(Url1("http", <<>>, <<>>)))[2]}}
    \cup {Shown("made", <<"str", "request">>)}

-----------------------------------------------------------------------------
Grpc == INSTANCE Protobuf

\* Schemas, and a value that may be of both, either or none.
LeafSchemas == {<<"str">>, <<"num">>, <<"empty">>, <<"any">>, <<"enum", {"A"}>>, <<"enum", {"A", "B"}>>}
Optionally(s) == s \cup {<<"opt", x>> : x \in s}
Flat == Optionally(LeafSchemas)
Schemas1 == Flat \cup {<<"arr", s>> : s \in Flat} \cup {<<"obj", [a \in {"a"} |-> s]>> : s \in Flat}
            \cup {<<"obj", [a |-> s, b |-> <<"opt", <<"num">> >>]>> : s \in Flat}
            \cup {<<"opt", <<"arr", <<"opt", <<"num">> >> >> >>, <<"opt", <<"obj", <<>> >> >>}
JsonNum == <<"num", 1>>
SchemaValues ==
    {<<"null">>, JsonNum, <<"str", "A">>, <<"bool", TRUE>>, <<"obj", <<>> >>, <<"obj", [b \in {"b"} |-> JsonNum]>>}
    \cup {<<"list", s>> : s \in {<<>>, <<JsonNum>>, <<JsonNum, <<"null">> >>, << <<"str", "A">> >>}}
    \cup {<<"obj", [a \in {"a"} |-> v]>> : v \in {<<"null">>, JsonNum, <<"str", "A">>, <<"obj", <<>> >>}}
    \cup {<<"obj", [a |-> JsonNum, b |-> v]>> : v \in {<<"null">>, <<"str", "A">>}}
SchemaInputs == [sub : Schemas1, super : Schemas1, value : SchemaValues]

\* A message with one field of every kind, and the schema of the field that is its answer.
ProtoField(name, kind, label, oneof, explicit, type) ==
    [name |-> name, kind |-> kind, label |-> label, oneof |-> oneof, explicit |-> explicit, type |-> type]
SimpleField(name, kind) == ProtoField(name, kind, "optional", 0, FALSE, <<>>)
Shapes(proto3) ==
    {<<"optional", 0, FALSE>>, <<"repeated", 0, FALSE>>, <<"optional", 1, FALSE>>}
    \cup IF proto3 THEN {<<"optional", 1, TRUE>>} ELSE {<<"required", 0, FALSE>>}
Kinds == {<<"int32", <<>> >>, <<"int64", <<>> >>, <<"bool", <<>> >>, <<"string", <<>> >>, <<"enum", <<"p", "E">> >>,
          <<"message", <<"p", "N">> >>, <<"message", Grpc!Timestamp>>, <<"message", <<"p", "M", "Entry">> >>,
          <<"message", Grpc!Empty>>}
InShape(name, kind, shape) ==
    IF kind[2] = <<"p", "M", "Entry">> THEN ProtoField(name, kind[1], "repeated", 0, FALSE, kind[2])
    ELSE ProtoField(name, kind[1], shape[1], shape[2], shape[3], kind[2])
Message(fields) == [fields |-> fields, map |-> FALSE]
Pool(proto3, fields) ==
    [proto3 |-> proto3, enums |-> (<<"p", "E">> :> <<"A", "B">>),
     messages |-> (<<"p", "M">> :> Message(fields)) @@ (<<"p", "N">> :> Message(<<SimpleField("a", "int32")>>))
         @@ (<<"p", "R">> :> Message(<<ProtoField("items", "message", "repeated", 0, FALSE, <<"p", "M">>)>>))
         @@ (<<"p", "M", "Entry">> :> [fields |-> <<SimpleField("key", "string"), SimpleField("value", "string")>>, map |-> TRUE])
         @@ (Grpc!Empty :> Message(<<>>)) @@ (<<"p", "Ids">> :> Message(<<ProtoField("ids", "message", "repeated", 0, FALSE, <<"p", "N">>)>>))
         @@ (Grpc!Timestamp :> Message(<<SimpleField("seconds", "int64"), SimpleField("nanos", "int32")>>))]
ValuesOf(f) ==
    CASE f.type = <<"p", "M", "Entry">> -> {[k \in {"k"} |-> "v"]}
      [] f.label = "repeated" ->
            {<<>>, IF f.kind = "message" THEN << <<>>, <<>> >> ELSE IF f.kind = "bool" THEN <<TRUE>>
                   ELSE IF f.kind \in {"string", "enum"} THEN <<"A", "B">> ELSE <<1, 0>>}
      [] f.kind = "message" -> {<<>>} \cup IF f.type = <<"p", "N">> THEN {[a \in {"a"} |-> 1]} ELSE {}
      [] f.kind = "bool" -> {TRUE} [] f.kind \in {"string", "enum"} -> {"A"} [] OTHER -> {1}
SetTo(f) == (IF f.label = "required" THEN {} ELSE {<<>>}) \cup {[n \in {f.name} |-> v] : v \in ValuesOf(f)}
FieldsOf(proto3) == {InShape("a", kind, shape) : kind \in Kinds, shape \in Shapes(proto3)}
SchemaTypes ==
    UNION {{<<"named", n, nonNull>>, <<"list", <<"named", n, nonNull>>, TRUE>>, <<"list", <<"named", n, TRUE>>, nonNull>>} :
             n \in {<<"Int">>, <<"String">>, <<"E">>, <<"N">>, <<"JSON">>, <<"Boolean">>, <<"Empty">>}, nonNull \in BOOLEAN}
SchemaConfig(type) ==
    [types |-> (<<"T">> :> [a \in {"a"} |-> type]) @@ (<<"N">> :> [a \in {"a"} |-> <<"named", <<"Int">>, TRUE>>]),
     enums |-> (<<"E">> :> {"A", "B"})]
AnswerInputs ==
    UNION {[pool : {Pool(proto3, <<f>>)}, type : SchemaTypes, nonNull : BOOLEAN, grouped : BOOLEAN, set : SetTo(f)] :
             <<proto3, f>> \in UNION {{p} \X FieldsOf(p) : p \in BOOLEAN}}

\* What a method is sent, of which any bool may be left out.
ArgPool ==
    LET of(name, kind, label, type) == ProtoField(name, kind, label, 0, FALSE, type)
    IN  [Pool(TRUE, <<of("flag", "bool", "optional", <<>>), of("n", "int32", "optional", <<>>),
                      of("s", "string", "optional", <<>>), of("flags", "bool", "repeated", <<>>),
                      of("one", "message", "optional", <<"p", "N">>), of("many", "message", "repeated", <<"p", "N">>)>>)
           EXCEPT !.messages[<<"p", "N">>].fields = <<of("flag", "bool", "optional", <<>>), of("n", "int64", "optional", <<>>)>>]
FlagValues == {<<"null">>, <<"bool", TRUE>>, <<"bool", FALSE>>, <<"str", "true">>}
InnerArgs == {Obj(<<>>)} \cup {Obj([flag |-> v, n |-> JsonNum]) : v \in FlagValues}
                         \cup {Obj([n \in {"n"} |-> <<"bool", TRUE>>])}
ArgInputs ==
    {Obj([flag |-> v, n |-> n, s |-> <<"str", "true">>, flags |-> <<"list", l>>, one |-> one, many |-> <<"list", many>>]) :
        v \in FlagValues, n \in {JsonNum, <<"str", "1">>, <<"str", "">>},
        l \in {<<>>, << <<"bool", TRUE>>, <<"bool", FALSE>> >>}, one \in InnerArgs,
        many \in {<<>>} \cup UNION {{<<x>>, <<x, Obj(<<>>)>>} : x \in InnerArgs}}
    \cup {Obj([other \in {"other"} |-> JsonNum])}

\* Requests sent as one, and an answer that lacks, repeats and reorders theirs.
ItemsOf(ids) == [items |-> [i \in DOMAIN ids |-> [id |-> ids[i], a |-> i]]]
GroupedPool(kind) ==
    LET fields == <<SimpleField("id", kind), SimpleField("a", "int32")>>
    IN  [Pool(TRUE, fields) EXCEPT !.messages[<<"p", "N">>].fields = fields]
GroupedInputs ==
    {[pool |-> GroupedPool(kind), children |-> [i \in DOMAIN ids |-> [id \in {"id"} |-> ids[i]]], answer |-> ItemsOf(back)] :
        kind \in {"int32", "int64"}, ids \in UNION {[1..n -> 0..2] : n \in 1..3}, back \in UNION {[1..n -> 0..2] : n \in 0..3}}

\* Files to generate from, and oneofs of one, two or three fields.
Methods == << [name |-> "get", input |-> Grpc!Empty, output |-> <<"p", "M">>, client |-> FALSE, server |-> FALSE],
              [name |-> "watch", input |-> <<"p", "N">>, output |-> <<"p", "R">>, client |-> FALSE, server |-> TRUE],
              [name |-> "send", input |-> <<"p", "N">>, output |-> Grpc!Empty, client |-> TRUE, server |-> FALSE],
              [name |-> "drop", input |-> <<"p", "M">>, output |-> Grpc!Empty, client |-> FALSE, server |-> FALSE] >>
InOneof(name, k, kind) == ProtoField(name, kind[1], "optional", k, FALSE, kind[2])
Several ==
    {<<InOneof("x", 1, a), InOneof("y", 1, b), InOneof("z", k, c), SimpleField("n", "int32"),
       InOneof("w", k, d)>> :
        a, b, c \in {<<"int32", <<>> >>, <<"message", <<"p", "N">> >>}, k \in 0..2,
        d \in {<<"string", <<>> >>, <<"message", <<"p", "N">> >>}}
ProtoInputs ==
    {Pool(proto3, fields) : proto3 \in BOOLEAN, fields \in Several}
    \cup UNION {{Pool(proto3, <<f>>), Pool(proto3, <<f, SimpleField("n", "int32")>>)} :
                  <<proto3, f>> \in UNION {{p} \X FieldsOf(p) : p \in BOOLEAN}}

\* Files that import each other, of which some cannot be read, on a server that lists some.
ProtoFiles == {"a", "b", "c"}
Replied(services, protos) ==
    [reached |-> TRUE, http |-> 200, grpc |-> <<>>, body |-> <<[services |-> services, protos |-> protos]>>]
Naming(file) == Replied(<<>>, << <<[file |-> file, ok |-> TRUE]>> >>)
Spoilt(answer) ==
    {[answer EXCEPT !.reached = FALSE], [answer EXCEPT !.http = 404], [answer EXCEPT !.grpc = <<"num", 12>>],
     [answer EXCEPT !.grpc = <<"num", 0>>], [answer EXCEPT !.grpc = <<"text">>], [answer EXCEPT !.body = <<>>],
     Replied(<<>>, <<>>)}
Undecoded == {Replied(<<>>, << <<>> >>), Replied(<<>>, << <<[file |-> "b", ok |-> FALSE]>> >>)}
ServiceLists == {Replied(<<x>>, <<>>) : x \in {<<"S", "ServerReflection">>, <<"S", "T">>}}
Symbols == [s \in {"S", "T", "ServerReflection"} |->
              CASE s = "S" -> Naming("a") [] s = "T" -> Naming("b") [] OTHER -> Naming("c")]
ProtoOf(deps, bare) == [n \in ProtoFiles |-> [deps |-> SetToSeq(deps[n]), package |-> n # bare]]
ImportInputs ==
    {[v1 |-> v1, v1alpha |-> Replied(<<>>, <<>>), symbols |-> Symbols, files |-> ProtoOf(deps, bare),
      names |-> [n \in ProtoFiles |-> IF n = broken THEN Replied(<<>>, <<>>) ELSE Naming(n)]] :
        v1 \in ServiceLists, deps \in [ProtoFiles -> SUBSET ProtoFiles], broken \in {"", "b", "c"}, bare \in {"", "b"}}
    \cup {[v1 |-> v1, v1alpha |-> alpha, symbols |-> [Symbols EXCEPT !["T"] = symbol],
           files |-> ProtoOf([n \in ProtoFiles |-> IF n = "a" THEN {"b"} ELSE {}], ""),
           names |-> [n \in ProtoFiles |-> IF n = "b" THEN name ELSE Naming(n)]] :
             v1 \in ServiceLists \cup Spoilt(Replied(<< <<"S">> >>, <<>>)),
             alpha \in {Replied(<<>>, <<>>), Replied(<< <<"S", "T">> >>, <<>>)},
             symbol \in {Naming("b")} \cup Spoilt(Naming("b")) \cup Undecoded,
             name \in {Naming("b")} \cup Spoilt(Naming("b")) \cup Undecoded}

\* A linked file and what it imports, some of which is in the directories of protos, elsewhere or missing.
LinkInputs ==
    {[link |-> link, protoPaths |-> paths,
      world |-> [files |-> [f \in there \cup {link} |->
                               [deps |-> CASE f = link -> <<<<"", "b">>, import>> [] f[2] = "b" -> <<<<"", "g">>, <<"", "c">>>> [] OTHER -> <<>>,
                                package |-> ~bare]],
                 disk |-> {f \in there \cup {link} : f[1] # "http"}, google |-> {"g"}]] :
        link \in {<<"d", "a">>, <<"http", "a">>}, paths \in {<<>>, <<"p">>, <<"q", "p">>},
        import \in {<<"", "c">>, <<"d", "c">>, <<"http", "c">>}, bare \in BOOLEAN,
        there \in SUBSET ({"d", "p", "q", "http"} \X {"b", "c"})}

\* gRPC: what is accepted is answered with what fits, arguments arrive as they were given, and
\* a request in a batch gets its own.
GrpcIsServed ==
    /\ family = "schema" => Grpc!SubtypeIsSound(input.sub, input.super, input.value)
    /\ family = "answer" =>
        LET type == <<"named", <<"T">>, input.nonNull>>
        IN  IF input.grouped
            THEN Grpc!AcceptedAnswerFits(input.pool, <<"p", "R">>, Grpc!ToJsonSchema(SchemaConfig(input.type), type),
                                         <<"items", "a">>, [items |-> <<input.set, input.set>>])
            ELSE Grpc!AcceptedAnswerFits(input.pool, <<"p", "M">>, Grpc!ToJsonSchema(SchemaConfig(input.type), type),
                                         <<>>, input.set)
    /\ family = "args" => Grpc!CoercedIsMeant(ArgPool, <<"p", "M">>, input)
    /\ family = "grouped" =>
        Grpc!GroupedIsOwn(input.pool, [input |-> <<"p", "Ids">>, output |-> <<"p", "R">>], input.children, input.answer)

\* .proto files: what is generated from them is accepted with them, and they are read whole.
ProtoIsWhole ==
    /\ family = "proto" =>
        /\ Grpc!GeneratedIsAccepted(input, Methods)
        /\ Grpc!Plainly(input) => \A set \in SUBSET {"a", "x", "y", "z", "w"} : Grpc!OneofsAreTold(input, <<"p", "M">>, set)
    /\ family = "imports" => Grpc!FetchedIsClosed(input)
    /\ family = "link" => Grpc!ImportsAreFound(input.world, input.link, input.protoPaths)

-----------------------------------------------------------------------------
Federation == INSTANCE FederationMerge

Type(name, nonNull) == <<"named", name, nonNull>>
Listed(name, inner, nonNull) == <<"list", Type(name, inner), nonNull>>
Member(type) == [type |-> type, args |-> <<>>]

FieldTypes == {Type("Int", FALSE), Type("Int", TRUE), Type("E", FALSE),
               Listed("Int", FALSE, FALSE), Listed("Int", TRUE, FALSE)}
FieldSets == {<<>>} \cup {[f \in {"a"} |-> Member(t)] : t \in FieldTypes}
                \cup {[f \in {"a", "b"} |-> Member(IF f = "a" THEN t ELSE Type("Int", nn))] :
                        t \in FieldTypes, nn \in BOOLEAN}

\* Query has get(arg): Out, or not; In and Out have the fields; E is where In or Out has it.
Side(arg, fields, type, enum) ==
    [types |-> [n \in {"Query", type} |->
                  IF n = type THEN fields
                  ELSE [f \in {"get"} |->
                          [type |-> Type(IF type = "Out" THEN "Out" ELSE "Int", FALSE),
                           args |-> IF arg = <<>> THEN <<>> ELSE [x \in {"x"} |-> Member(arg[1])]]]],
     enums |-> [e \in {"E"} |-> enum], unions |-> <<>>,
     implements |-> [n \in {} |-> {}],
     roots |-> [query |-> <<"Query">>]]

Sides(type) ==
    {Side(arg, fields, type, enum) :
        arg \in {<<>>, <<Type(IF type = "In" THEN "In" ELSE "Int", FALSE)>>, <<Type("E", TRUE)>>},
        fields \in {f \in FieldSets : DOMAIN f /= {}}, enum \in {{"x"}, {"x", "y"}}}

Atoms == {<<"null">>, <<"scalar", "Int">>, <<"enum", "x">>, <<"enum", "y">>,
          <<"list", << <<"null">> >> >>, <<"list", << <<"scalar", "Int">> >> >>}
Values == Atoms \cup {<<"object", o>> : o \in UNION {[D -> Atoms] : D \in SUBSET {"a", "b"}}}

UnifyInputs ==
    {u \in [a : Sides("In") \cup Sides("Out"), b : Sides("In") \cup Sides("Out")] :
        DOMAIN u.a.types = DOMAIN u.b.types}

Resolved(kind, parts) == [kind |-> kind, parts |-> parts]
Value(path) == <<"value">> \o path
Templates == {<<>>, <<Value(<<"id">>)>>, <<Value(<<"id">>), Value(<<"of", "id">>)>>,
              << <<"headers", "x">> >>, << <<"args", "id">> >>, <<Value(<<"gone">>)>>}
TypeResolvers ==
    {<<>>, <<Resolved("postgres", <<>>)>>}
    \cup {<<Resolved("http", [url |-> u, query |-> q, body |-> b, headers |-> <<>>])>> :
            u \in Templates, q \in Templates, b \in Templates}
    \cup {<<Resolved("grpc", [url |-> <<>>, method |-> <<>>, body |-> b, headers |-> h])>> :
            b \in Templates, h \in Templates}
    \cup {<<Resolved("call", [first |-> b])>> : b \in Templates}
    \cup {<<Resolved("expr", [body |-> b]), Resolved("expr", [body |-> b])>> : b \in Templates}

Entity == [types |-> [User |-> [id |-> Member(Type("Int", TRUE)), of |-> Member(Type("User", FALSE))],
                      Query |-> [user |-> Member(Type("User", FALSE))]],
           enums |-> <<>>, unions |-> <<>>, implements |-> <<>>, roots |-> [query |-> <<"Query">>]]
KeyedInputs ==
    {[config |-> [Entity EXCEPT !.roots.query = q], resolvers |-> [User |-> r, Query |-> <<>>],
      directives |-> [User |-> d, Query |-> {}]] :
        r \in TypeResolvers, q \in {<<>>, <<"Query">>}, d \in {{}, {{<<"id">>}}}}

-----------------------------------------------------------------------------
Transforming == INSTANCE Transformers WITH
    Alphabet <- <<"A", "AInput", "A__uB", "A__uC", "B", "BInput", "C", "CInput", "E",
                  "GEN__M1", "GEN__M2", "GEN__M3", "GEN__M4", "Get", "I", "Mutation", "Node", "Query", "U", "Used", "V",
                  "a", "b", "e", "get", "node", "u", "x">>,
    Pascal <- LAMBDA f : IF f = "node" THEN "Node" ELSE IF f = "u" THEN "Used" ELSE "Get"

\* Query { get(x): ..., node: B }; what is of A and B varies, C and V stand aside.
TransformConfigs ==
    {[types |-> [Query |-> [get |-> [type |-> Type(out, FALSE), args |-> [x \in {"x"} |-> Member(Type(arg, FALSE))]],
                            node |-> Member(Listed("B", FALSE, FALSE))],
                 A |-> [a |-> Member(Type("Int", FALSE)), u |-> Member(Type(u, FALSE))],
                 B |-> IF b = "" THEN [b |-> Member(Type("Int", FALSE))]
                       ELSE [a |-> Member(Type("Int", FALSE)), u |-> Member(Type(b, FALSE))],
                 C |-> [a |-> Member(Type("Int", FALSE)), u |-> Member(Type("Int", FALSE))],
                 I |-> [a |-> Member(Type("Int", FALSE))]],
      enums |-> [E |-> {"x", "y"}],
      unions |-> [U |-> {"B", "C"}, V |-> v],
      implements |-> [A |-> {"I"}],
      roots |-> [query |-> <<"Query">>, mutation |-> <<>>, subscription |-> <<>>]] :
        out \in {"A", "V"}, arg \in {"A", "B", "E", "V"}, u \in {"Int", "U", "C", "A"},
        b \in {"", "Int", "JSON", "E", "C"}, v \in {{"U", "C"}, {"U"}, {"A", "C"}}}

TransformInputs == {[config |-> c, percent |-> p] : c \in TransformConfigs, p \in {50, 100}}
Inside == {<<"null">>, <<"scalar", "Int">>, <<"enum", "x">>,
           <<"object", [a |-> <<"scalar", "Int">>]>>, <<"object", [b |-> <<"scalar", "Int">>]>>}
Objects2 == {<<"object", o>> : o \in UNION {[D -> Inside] : D \in {{"a", "u"}, {"b"}, {"u"}}}}
TransformValues == Inside \cup Objects2 \cup {<<"list", <<o>> >> : o \in Objects2}

-----------------------------------------------------------------------------
Database == INSTANCE SqlSchema WITH
    Camel <- LAMBDA n : IF n = "user_id" THEN "userId" ELSE IF n = "boss_id" THEN "bossId" ELSE n,
    Pascal <- LAMBDA n : CASE n = "users" -> "Users" [] n = "post" -> "Post" [] OTHER -> "Seen",
    Plural <- LAMBDA n : IF n = "post" THEN "posts" ELSE n \o "List"

Column(name, type, options) == [name |-> name, type |-> type, options |-> options]
References(columns, table, refs) == [columns |-> columns, table |-> table, refs |-> refs]
CreateTable(name, columns, pks, fks) ==
    [kind |-> "table", name |-> name, columns |-> columns, pks |-> pks, fks |-> fks]
CreateView(columns, items, from) ==
    [kind |-> "view", name |-> <<"seen">>, columns |-> columns, from |-> from,
     items |-> [i \in DOMAIN items |-> [path |-> items[i][1], as |-> items[i][2]]]]
From(name) == [name |-> name, as |-> <<>>]

UserTables ==
    {CreateTable(name, <<id, Column("name", type, {}), Column("org", "int8", options)>>, pks, fks) :
        name \in {<<"users">>, <<"app", "users">>},
        id \in {Column("id", "serial", {"PrimaryKey"}), Column("id", "uuid", {"Default"}),
               Column("id", "int", {"Identity"})},
        type \in {"varchar(9)", "timestamptz", "mood"},
        options \in {{"NotNull"}, {"NotNull", "Default"}, {"Generated"}},
        pks \in {<<>>, << <<"id">> >>, << <<"org", "id">> >>},
        fks \in {<<>>, <<References(<<"org">>, <<"users">>, <<"id">>)>>}}
PostTables ==
    {CreateTable(<<"post">>,
                 <<Column("id", "bigserial", {}), Column("user_id", type, options),
                   Column("boss_id", "int", {}), Column("users", "text", {"Default"})>>, pks, fks) :
        type \in {"uuid", "float8"}, options \in {{}, {"NotNull"}},
        pks \in {<<>>, << <<"id">> >>},
        fks \in {<<>>, <<References(<<"user_id">>, <<"users">>, <<>>)>>,
                <<References(<<"user_id">>, <<"users">>, <<"id">>),
                  References(<<"boss_id">>, <<"public", "users">>, <<"id">>)>>,
                <<References(<<"user_id", "boss_id">>, <<"users">>, <<"id", "org">>)>>,
                <<References(<<"user_id">>, <<"app", "users">>, <<"id">>),
                  References(<<"boss_id">>, <<"post">>, <<"id">>)>>}}
LaterStatements ==
    {<<>>}
    \cup {<<[kind |-> "alter", name |-> name, ops |-> ops]>> :
            name \in {<<"users">>, <<"app", "users">>},
            ops \in {<< <<"drop", <<"name", "org">> >>, <<"add", Column("name", "bool", {"NotNull"})>> >>,
                    << <<"add", Column("age", "smallserial", {})>>, <<"constraint">> >>,
                    << <<"add", Column("org", "int", {})>> >>}}
    \cup {<<CreateView(columns, items, from)>> :
            columns \in {<<>>, <<"a", "b">>},
            items \in {<< <<<<"*">>, <<>>>> >>, << <<<<"users", "*">>, <<>>>> >>,
                      << <<<<"users", "id">>, <<>>>>, <<<<"post", "id">>, <<"other">>>> >>,
                      << <<<<"name">>, <<>>>>, <<<<>>, <<"n">>>> >>,
                      << <<<<"id">>, <<>>>>, <<<<"user_id">>, <<"u">>>> >>},
            from \in {<<From(<<"users">>)>>, <<From(<<"post">>), From(<<"users">>)>>,
                     <<From(<<"app", "users">>), From(<<"post">>)>>,
                     <<[name |-> <<"post">>, as |-> <<"users">>]>>}}
SomeUsers == {u \in UserTables : Len(u.name) + Len(u.pks) # 2 /\ u.columns[2].type # "mood" /\ u.fks = <<>>
                                  /\ u.columns[3].options = {"NotNull"}}
SomePosts == {p \in PostTables : p.pks # <<>> /\ p.columns[2] = Column("user_id", "uuid", {})}
DdlInputs == {<<u, p>> : u \in UserTables, p \in SomePosts}
    \cup {<<u, p>> \o later : u \in SomeUsers, p \in SomePosts, later \in LaterStatements}
    \cup {<<u, p>> : u \in SomeUsers, p \in PostTables}

-----------------------------------------------------------------------------
Sdl == INSTANCE SdlDocument

Plainly(type) ==
    [type |-> type, args |-> <<>>, doc |-> <<>>, default |-> <<>>, modify |-> <<>>, omit |-> <<>>,
     cache |-> <<>>, protected |-> <<>>, discriminate |-> <<>>, resolvers |-> <<>>, directives |-> <<>>]
Described(type, doc, default, modify) ==
    [x \in {"x"} |-> [type |-> type, doc |-> doc, default |-> default, modify |-> modify]]
Having(fields) == [Sdl!EmptyType EXCEPT !.fields = fields]
Written ==
    [server |-> "default", upstream |-> "default", telemetry |-> "default", links |-> <<>>,
     roots |-> [query |-> <<"Query">>, mutation |-> <<>>, subscription |-> <<>>],
     types |-> [Query |-> Having([get |-> [Plainly(Type("Out", TRUE)) EXCEPT
                                             !.args = Described(Type("In", FALSE), <<>>, <<>>, <<>>)]]),
                In |-> Having([a |-> Plainly(Type("Int", FALSE))]),
                Out |-> [Having([a |-> Plainly(Type("Int", TRUE)), u |-> Plainly(Listed("U", TRUE, FALSE))])
                            EXCEPT !.implements = {"Node"}],
                Node |-> Having([a |-> Plainly(Type("Int", TRUE))]),
                Date |-> Sdl!EmptyType],
     unions |-> [U |-> [types |-> {"Out", "Query"}, doc |-> <<>>]],
     enums |-> [E |-> [variants |-> {<<"x", <<>>>>, <<"y", <<>>>>}, doc |-> <<>>]]]

FieldParts ==
    {<<part, <<"1">>>> : part \in {"doc", "default", "modify", "omit", "cache", "protected", "discriminate"}}
    \cup {<<"doc", <<"1", "2">>>>, <<"resolvers", << <<"http", "1">>, <<"expr", "2">> >>>>,
          <<"directives", << <<"key", "1">> >>>>,
          <<"args", Described(Type("Int", FALSE), <<"1">>, <<>>, <<>>)>>,
          <<"args", Described(Type("Int", FALSE), <<>>, <<"1">>, <<>>)>>,
          <<"args", Described(Type("Out", FALSE), <<>>, <<>>, <<"1">>)>>}
TypeParts ==
    {<<part, <<"1">>>> : part \in {"added", "doc", "cache", "protected"}}
    \cup {<<"doc", <<"1", "2">>>>, <<"added", <<"1", "2">>>>,
          <<"resolvers", << <<"http", "1">> >>>>, <<"directives", << <<"key", "1">> >>>>}
ConfigParts ==
    {<<"server", "1">>, <<"telemetry", "1">>, <<"links", <<"1", "2">>>>,
     <<"roots", [query |-> <<>>, mutation |-> <<>>, subscription |-> <<"Query">>]>>,
     <<"roots", [query |-> <<>>, mutation |-> <<"Query">>, subscription |-> <<"Out">>]>>,
     <<"unions", [U |-> [types |-> {"Out"}, doc |-> <<"1">>]]>>,
     <<"enums", [E |-> [variants |-> {<<"x", <<"1">>>>, <<"y", <<>>>>}, doc |-> <<"1", "2">>]]>>}
Edits ==
    {<<"field", x[1], x[2]>> :
        x \in {y \in {<<"In", "a">>, <<"Out", "a">>, <<"Node", "a">>} \X FieldParts :
                  y[1][1] = "In" => y[2][1] # "args"}}
    \cup {<<"type", t, p>> : t \in {"In", "Out", "Node", "Date"}, p \in TypeParts}
    \cup {<<"config", "", p>> : p \in ConfigParts}
Edited(config, e) ==
    CASE e[1] = "field" -> [config EXCEPT !.types[e[2][1]].fields[e[2][2]][e[3][1]] = e[3][2]]
      [] e[1] = "type" -> [config EXCEPT !.types[e[2]][e[3][1]] = e[3][2]]
      [] e[1] = "config" -> [config EXCEPT ![e[3][1]] = e[3][2]]
\* Edits of different parts commute, and of one part a single edit is what is left.
SdlInputs == {[edits |-> SetToSeq(es)] : es \in {{a, b} : a \in Edits, b \in Edits}}

Letters == {"a", " "}
DocInputs == UNION {[1..n -> Letters] : n \in 0..8}

-----------------------------------------------------------------------------
Access == INSTANCE AccessExpr

Tokens == {<<"op", o>> : o \in {"(", ")", "!", "&&", "||", "=="}} \cup {<<"path", <<"args">> >>}
Comparing(c) == <<"cmp", <<"path", <<"args">> >>, c, <<"literal", <<"num", 1>> >> >>
Joined(E, F) == {<<op, e, f>> : op \in {"and", "or"}, e \in E, f \in F}
Simple == {Comparing("=="), Comparing("!=")}
Compound == Simple \cup {<<"not", e>> : e \in Simple} \cup Joined(Simple, Simple)
AccessInputs ==
    {[tokens |-> <<>>, e |-> e] :
        e \in {<<"not", <<"not", e>> >> : e \in Compound} \cup Joined(Compound, Compound)
              \cup Joined({<<"not", e>> : e \in Compound}, Joined(Simple, Compound))}
    \cup {[tokens |-> t, e |-> Comparing("==")] : t \in UNION {[1..n -> Tokens] : n \in 1..4}}

\* Providers of the same user and keys, and some that restrict whose token they take.
Signing == [k |-> [kid |-> <<"k">>, algorithm |-> <<"RS">>, secret |-> 1],
            l |-> [kid |-> <<"l">>, algorithm |-> <<"RS">>, secret |-> 2],
            m |-> [kid |-> <<"m">>, algorithm |-> <<>>, secret |-> 1]]
Jwt(keys, issuer, audiences, optional) ==
    <<"provider", [kind |-> "jwt", keys |-> [i \in DOMAIN keys |-> Signing[keys[i]]], issuer |-> issuer,
                   audiences |-> audiences, optionalKid |-> optional]>>
Providers ==
    {<<"provider", [kind |-> "basic", users |-> users]>> : users \in {{"u"}, {"u", "v"}}}
    \cup {Jwt(keys, <<>>, {}, o) : keys \in {<<"k">>, <<"k", "l">>, <<"m", "l">>}, o \in BOOLEAN}
    \cup {Jwt(<<"k">>, i, a, FALSE) : i \in {<<>>, << <<"str", "me">> >>}, a \in {{"them"}, {"us", "them"}}}
Bearers ==
    {<<"Bearer", <<[kid |-> kid, algorithm |-> a[1], secret |-> s, expired |-> a[2], claims |-> c]>> >> :
        kid \in {<<>>, <<"k">>, <<"l">>, <<"m">>, <<"gone">>}, s \in 1..2,
        a \in {<<"RS", FALSE>>, <<"HS", FALSE>>, <<"RS", TRUE>>},
        c \in {[iss |-> <<"str", "me">>, aud |-> {"us"}], [sub |-> <<"num", 1>>, aud |-> {"them"}]}}
Headers ==
    Bearers \cup {<<>>, <<"Basic", "u">>, <<"Basic", "v">>, <<"Basic", "w">>, <<"Bearer", <<>> >>}
Claiming(c) == <<"cmp", <<"path", <<"claims", "iss">> >>, c, <<"literal", <<"str", "me">> >> >>
AuthInputs ==
    {[auth |-> a, header |-> h, expr |-> e, shared |-> <<[iss |-> <<"str", "me">>]>>] :
        a \in Providers, h \in Headers, e \in {<<>>, <<Claiming("==")>>}}
    \cup {[auth |-> a, header |-> h, expr |-> <<>>, shared |-> <<>>] :
        a \in Joined(Providers, Providers), h \in Headers}

\* A server's first file, with links of every kind, and at most one more.
Reader == INSTANCE ConfigReader

LinkTo(type, id, src) == [type |-> type, id |-> id, src |-> src, region |-> <<>>]
Near(name) == <<"rel", name>>
OneLinks ==
    {LinkTo("Config", <<>>, Near("more")), LinkTo("Config", <<>>, Near("clash")),
     LinkTo("Protobuf", <<>>, Near("p")), LinkTo("Protobuf", <<>>, <<"abs", "other", "p">>),
     LinkTo("Grpc", <<>>, <<"url", "g">>), LinkTo("Script", <<>>, Near("js")), LinkTo("Cert", <<>>, Near("pem")),
     LinkTo("Cert", <<>>, Near("broken")), LinkTo("Key", <<>>, Near("pem")), LinkTo("Key", <<>>, Near("broken")),
     LinkTo("Operation", <<>>, Near("ops")), LinkTo("Htpasswd", <<"a">>, Near("js")),
     LinkTo("Jwks", <<"b">>, Near("jwks")), LinkTo("Jwks", <<>>, Near("js")),
     LinkTo("Sql", <<>>, Near("sql")), LinkTo("Sql", <<"a">>, Near("sql")),
     LinkTo("Postgres", <<>>, <<"url", "p1">>), LinkTo("Postgres", <<"a">>, <<"env", "DB">>),
     LinkTo("GreptimeDB", <<"default">>, <<"url", "p2">>), LinkTo("AuroraDsql", <<>>, <<"url", "p2">>),
     [LinkTo("AuroraDsql", <<"b">>, <<"url", "p2">>) EXCEPT !.region = <<"r">>],
     LinkTo("Redis", <<>>, <<"url", "r1">>), LinkTo("Redis", <<"c">>, <<"url", "r2">>),
     LinkTo("S3", <<>>, <<"url", "s1">>), LinkTo("S3", <<"c">>, <<"env", "NONE">>), LinkTo("Postgres", <<>>, <<>>)}
Linking(links, types, telemetry, vars) ==
    [kind |-> "config", is |-> [links |-> links, types |-> types, vars |-> vars, telemetry |-> telemetry]]
WorldWith(links, others, telemetry) ==
    [files |->
        (<<"home", "main">> :> Linking(links, [Q |-> 1], telemetry, [v |-> <<"url", "mine">>])
         @@ <<"other", "main">> :> Linking(others, [Q |-> 1, S |-> 2], <<"url", "theirs">>, <<>>)
         @@ <<"home", "more">> :> Linking(<<LinkTo("Redis", <<>>, <<>>)>>, [M |-> 1], <<"url", "no">>, <<>>)
         @@ <<"home", "clash">> :> Linking(<<>>, [Q |-> 3], <<"url", "no">>, <<>>)
         @@ <<"home", "p">> :> [kind |-> "proto", is |-> [x |-> "home"]]
         @@ <<"other", "p">> :> [kind |-> "proto", is |-> [x |-> "other", y |-> "other"]]
         @@ [p \in {"home", "other"} \X {"js"} |-> [kind |-> "text", is |-> p]]
         @@ [p \in {"home", "other"} \X {"pem"} |-> [kind |-> "pem", is |-> [certs |-> <<p>>, keys |-> <<p, "k">>]]]
         @@ <<"home", "broken">> :> [kind |-> "broken", is |-> <<>>]
         @@ [p \in {"home", "other"} \X {"ops"} |-> [kind |-> "operations", is |-> <<p>>]]
         @@ [p \in {"home", "other"} \X {"jwks", "sql"} |-> [kind |-> p[2], is |-> p[1]]]),
     env |-> [DB |-> <<"url", "p1">>, URL |-> <<"url", "given">>],
     databases |-> (<<"url", "p1">> :> "one" @@ <<"url", "p2">> :> "two"),
     reflection |-> (<<"url", "g">> :> [y |-> "remote", z |-> "remote"])]
SecondFiles == {<<>>} \cup {<< <<l>> >> : l \in OneLinks} \cup {<< <<l, l>> >> : l \in OneLinks}
Telemetries == {<<"url", "t">>, <<"env", "URL">>, <<"env", "NONE">>, <<"vars", "v">>, <<"vars", "w">>}
StartInputs ==
    {[links |-> links, others |-> others, telemetry |-> <<"env", "URL">>] :
        links \in UNION {[1..n -> OneLinks] : n \in 0..1}, others \in SecondFiles}
    \cup {[links |-> links, others |-> others, telemetry |-> <<"env", "URL">>] :
        links \in [1..2 -> OneLinks],
        others \in {<<>>} \cup {<< <<l>> >> : l \in {k \in OneLinks : k.id = <<>> /\ k.type \in {"Cert", "Sql", "Postgres", "Redis"}}}}
    \cup {[links |-> links, others |-> <<>>, telemetry |-> <<"vars", "v">>] : links \in [1..3 -> {l \in OneLinks : l.type \in {"Sql", "Postgres", "GreptimeDB", "AuroraDsql", "Redis", "Cert"}}]}
    \cup {[links |-> <<>>, others |-> others, telemetry |-> telemetry] :
            others \in SecondFiles, telemetry \in Telemetries}

-----------------------------------------------------------------------------
\* What @upstream and @server may say, in up to three files; resolvers of two fields.
Setting == INSTANCE Settings

SomeBatch(delay, max, headers) == <<[delay |-> delay, max |-> max, headers |-> headers]>>
SomeUpstreams ==
    {<<>>} \cup
    {<<[timeout |-> t, cache |-> <<>>, http2 |-> <<>>, proxy |-> <<>>, allowed |-> a, verify |-> v, batch |-> b]>> :
        t \in {<<>>, <<5>>}, a \in {<<>>, <<{"x"}>>, <<{"y"}>>}, v \in {<<>>, <<FALSE>>},
        b \in {<<>>, SomeBatch(<<>>, <<50>>, <<{"h"}>>), SomeBatch(<<10>>, <<>>, <<>>), SomeBatch(<<0>>, <<7>>, <<{"i"}>>)}}
UpstreamInputs ==
    {[files |-> f, auth |-> auth] : f \in UNION {[1..n -> SomeUpstreams] : n \in 0..2}, auth \in BOOLEAN}
    \cup {[files |-> f, auth |-> FALSE] :
            f \in [1..3 -> {u \in SomeUpstreams : u = <<>> \/ (u[1].timeout = <<>> /\ u[1].allowed = <<>>)}]}

DefaultServer ==
    [version |-> <<>>, hostname |-> <<>>, custom |-> <<>>, experimental |-> {}, spa |-> <<>>, port |-> <<>>,
     vars |-> << <<"v", "1">>, <<"w", "2">>, <<"v", "3">> >>, introspection |-> <<>>, validation |-> <<>>,
     depth |-> <<>>, complexity |-> <<>>]
ServerInputs ==
    {[server |-> [DefaultServer EXCEPT !.version = v, !.hostname = h, !.custom = c, !.experimental = x, !.spa = s],
      extensions |-> e, env |-> <<>>] :
        v \in {<<>>, <<"HTTP2">>}, h \in {<<>>, <<"localhost">>, <<"nowhere">>}, x \in {{}, {"x-a"}, {"a"}},
        c \in {<<>>, << <<"bad name", "1">>, <<"h", "bad value">> >>}, s \in {<<>>, <<"app">>, <<"empty">>},
        e \in [cert : {{}, {"c"}}, keys : {<<>>, <<"k">>}]}
    \cup {[server |-> [DefaultServer EXCEPT !.depth = d], extensions |-> [cert |-> {}, keys |-> <<>>], env |-> env] :
            d \in {<<>>, <<0>>, <<3>>}, env \in {<<>>, <<"number", 7>>, <<"text">>}}
Directories == { <<"app", "index.html">> }

LimitInputs ==
    {[server |-> [limits |-> [depth |-> d, complexity |-> c], validation |-> v, introspection |-> i], request |-> r] :
        d \in {0, 2}, c \in {0, 3}, v \in BOOLEAN, i \in BOOLEAN,
        r \in [by : {"rest", "sse", "startup", "graphql"}, depth : 1..3, complexity : 2..4, valid : BOOLEAN,
               introspects : BOOLEAN]}

Sending(kind, query, group) ==
    [kind |-> kind, query |-> query, group |-> group, list |-> group # <<>>, dl |-> <<>>]
Sendings == {Sending(k, q, g) : k \in {"http", "grpc"}, q \in BOOLEAN, g \in {<<>>, <<"id">>}}
               \cup {Sending("graphql", TRUE, <<>>), Sending("postgres", TRUE, <<>>)}
Atomic == {<<"io", s>> : s \in Sendings}
Nested == {<<"protect", <<i>> >> : i \in Atomic} \cup {<<"pipe", <<i, j>> >> : i \in Atomic, j \in Atomic}
            \cup {<<"merge", <<i, <<"cache", i[2]>>, i>> >> : i \in Atomic}
LoaderInputs ==
    {[definitions |-> <<[kind |-> k, fields |-> <<i, j>>], [kind |-> "object", fields |-> <<i>>]>>,
      upstream |-> [batch |-> b]] :
        k \in {"object", "interface"}, i \in Atomic \cup Nested, j \in Atomic,
        b \in {<<>>} \cup {SomeBatch(d, <<100>>, {}) : d \in {0, 10}}}

\* Answers of upstreams to one request, which may have headers of each kind, and more than once.
SomeHeaders == {[n \in {} |-> <<>>], [n \in {"set-cookie", "x-a"} |-> <<"1", "2">>], [n \in {"set-cookie"} |-> <<"opaque">>],
                [n \in {"x-a", "x-b", "secret"} |-> <<"3">>], [n \in {"set-cookie", "x-b"} |-> <<"4">>]}
Replying == [headers : SomeHeaders, success : BOOLEAN, valid : BOOLEAN]
HeaderInputs ==
    {[request |-> [n \in {"x-a", "cookie"} |-> <<"5", "6">>], allowed |-> a, own |-> [n \in {"content-type"} |-> <<"json">>],
      server |-> [setCookies |-> k, experimental |-> x, custom |-> c], answers |-> answers] :
        a \in {{}, {"X-A"}, {"cookie", "x-b"}}, k \in BOOLEAN, x \in {{}, {"X-A", "x-b"}},
        c \in {<<>>, [n \in {"x-a", "set-cookie", "content-type"} |-> <<"7">>]},
        answers \in {r \in UNION {[1..n -> Replying] : n \in 0..2} : Len(r) = 2 => r[1].valid \/ r[2].valid}}

SettingsHold ==
    /\ family = "upstream" => Setting!UpstreamIsLast(input.files, input.auth)
    /\ family = "server" => Setting!ServerIsChecked(input.server, input.extensions, Directories, input.env)
    /\ family = "limit" => Setting!LimitsAreKept(input.server, input.request)
    /\ family = "loaders" => Setting!LoadersAreTheirOwn(input.definitions, input.upstream)
    /\ family = "headers" =>
          Setting!HeadersAreAsked(input.request, input.allowed, input.own, input.server, input.answers)

\* Samples of requests and answers, a proto file's methods, and the file they are written to.
Generator == INSTANCE ConfigGenerator WITH
    Alphabet <- <<"GEN__1", "GEN__2", "GEN__3", "GEN__4", "GEN__5", "GEN__6", "Mutation", "Query", "Root", "Subscription",
                  "a", "b", "f", "g", "x-y">>,
    Pascal <- LAMBDA f : f,
    Camel <- LAMBDA k : IF k = "user_id" THEN "userId" ELSE k

JsonOf(type) == <<"scalar", type>>
JsonWith(f, v) == <<"object", [n \in {f} |-> v]>>
Sampled1 == {<<"null">>, JsonOf("Int"), JsonOf("String"), JsonOf("Float"), <<"list", <<>> >>, <<"object", <<>> >>,
             JsonWith("x-y", JsonOf("Int")), JsonWith("b", JsonOf("Int")), JsonWith("b", <<"null">>),
             <<"list", <<JsonWith("b", JsonOf("String"))>> >>, <<"list", <<JsonOf("Int"), <<"null">> >> >>,
             <<"list", << <<"list", <<JsonOf("Int")>> >> >> >>}
Sampled2 == {JsonWith("a", v) : v \in Sampled1} \cup
            {<<"object", [a |-> v, b |-> w]>> : v \in Sampled1, w \in {JsonOf("Int"), JsonWith("a", JsonOf("String"))}}
SampledAnswers == Sampled1 \cup Sampled2 \cup {<<"list", <<v, w>> >> : v \in Sampled2, w \in {JsonWith("a", x) : x \in Sampled1}}

SegmentOf(digits, rest, uuid) == [digits |-> digits, rest |-> rest, uuid |-> uuid]
UrlSegments == {SegmentOf("", "users", FALSE), SegmentOf("42", "", FALSE), SegmentOf("7", "-b", TRUE),
             SegmentOf("", "c-d", TRUE), SegmentOf("1", ".5", FALSE)}
QueryPairs == {[key |-> k, value |-> [type |-> t[1], text |-> t[2], commas |-> t[3]]] :
             k \in {"a", "user_id", "userId"},
             t \in {<<"Int", "1", FALSE>>, <<"Int", "1,2", TRUE>>, <<"String", "x,y", TRUE>>, <<"Int", "3", FALSE>>}}
HomeUrl == [path |-> <<SegmentOf("", "users", FALSE)>>, query |-> <<>>]
SampleOf(url, op, field, req, res, headers) ==
    [kind |-> "json", sample |-> [url |-> url, isMutation |-> op \in {"mutation", "both"},
         isSubscription |-> op \in {"subscription", "both"}, method |-> "POST", field |-> field,
         request |-> req, response |-> res, headers |-> headers]]
Answering(res) == SampleOf(HomeUrl, "query", "f", <<"null">>, res, {"h"})
RpcField(body) == [type |-> Type("Int", FALSE), args |-> <<>>, resolver |->
    <<"grpc", [url |-> "u", method |-> <<"p", "S", "M">>, body |-> body, headers |-> {}, batch |-> <<>>]>>]
ProtoInput(src, connect) ==
    [kind |-> "proto", src |-> src, connect |-> connect,
     config |-> [types |-> [Query |-> [r |-> RpcField(<<>>), s |-> RpcField(<<"b">>)]], enums |-> <<>>, unions |-> <<>>,
                 implements |-> <<>>, allowed |-> {}, links |-> <<>>,
                 roots |-> [query |-> <<"Query">>, mutation |-> <<>>, subscription |-> <<>>]]]
ProtoSources == {<<"url", "p">>, <<"abs", <<"out", "p">> >>, <<"abs", <<"home", "in", "p">> >>} \cup
                {<<"rel", p>> : p \in {<<"p">>, <<"..", "p">>, <<"..", "..", "p">>, <<"in", "p">>}}
Generating(inputs, query) ==
    [inputs |-> inputs, dir |-> <<"home", "me">>, output |-> <<"home">>, format |-> "graphql", percent |-> 100,
     exists |-> FALSE, confirmed |-> FALSE,
     schema |-> [query |-> query, mutation |-> <<>>, subscription |-> <<>>]]
SampleInputs ==
    {Generating(<<Answering(r)>>, <<>>) : r \in SampledAnswers}
    \cup {Generating(<<SampleOf([path |-> p, query |-> q], "query", "f", <<"null">>, JsonOf("Int"), {})>>, <<>>) :
            p \in UNION {[1..n -> UrlSegments] : n \in 1..2}, q \in {<<>>} \cup {<<p>> : p \in QueryPairs}}
    \cup {Generating(<<SampleOf([path |-> p, query |-> <<>>], "query", "f", <<"null">>, JsonOf("Int"), {})>>, <<>>) :
            p \in [1..3 -> UrlSegments]}
    \cup {Generating(<<SampleOf([path |-> <<s>>, query |-> q], "query", "f", <<"null">>, JsonOf("Int"), {})>>, <<>>) :
            s \in UrlSegments, q \in [1..2 -> QueryPairs] \cup [1..3 -> {p \in QueryPairs : ~p.value.commas /\ p.key # "userId"}]}
    \cup {Generating(<<SampleOf(HomeUrl, op, "f", r, JsonWith("a", JsonOf("Int")), {}),
                      SampleOf(HomeUrl, op2, "g", <<"null">>, s, {"h"})>>, q) :
            op \in {"query", "mutation", "subscription", "both"}, op2 \in {"query", "mutation"}, r \in Sampled1,
            s \in {JsonWith("a", JsonOf("String")), <<"list", <<JsonWith("b", JsonWith("a", JsonOf("Int")))>> >>},
            q \in {<<>>, <<"Root">>}}
    \cup {[Generating(<<ProtoInput(s, c), Answering(JsonWith("a", JsonOf("Int")))>>, <<>>) EXCEPT !.dir = d, !.output = o] :
            s \in ProtoSources, c \in BOOLEAN, d \in {<<>>, <<"home">>, <<"home", "me">>},
            o \in {<<>>, <<"home">>, <<"home", "me", "out">>, <<"out">>}}
    \cup {[Generating(<<Answering(JsonOf("Int"))>>, <<>>) EXCEPT !.format = f, !.percent = p, !.exists = e, !.confirmed = c] :
            f \in {"graphql", "json"}, p \in {0, 100, 101}, e \in BOOLEAN, c \in BOOLEAN}

GeneratedIsServed ==
    /\ family = "sample" => Generator!SamplesAreServed(input)
    /\ family = "unwrap" => Generator!LeavesAreKept(input, Generator!FlattenSingleField(input))

\* read_all(), Links::try_from(), init(): a server has of its linked files and stores
\* what its configuration links, each once.
\* ConfigModule::unify(), Subgraph::transform(): what the merged schema accepts every
\* subgraph accepts, what a subgraph answers it allows, and an entity's key is all its
\* resolver reads; Preset::transform(): what a transformed type allows it allowed before.
\* to_sdl(), from_sdl(), compress(): a configuration that is written is the one read.
\* parse_migrations(), from_database(): the schema of the migrations is that of the
\* database that ran them, and the configuration made of it can be resolved.
\* to_field_definition(), process_path(), validate_query(), MustachePartsValidator: the
\* blueprint resolves what it accepts; from_proto(), fetch(): a proto is read with all it
\* imports; Generator::generate(): what is generated of samples serves them.
\* Upstream::try_from(), Server::try_from(), to_schema_with(), AppContext::new(): what
\* is configured is what the server, its clients and its loaders are set to.
ConfigurationsMerge ==
    /\ SettingsHold /\ BlueprintMeans /\ DirectivesMean /\ ProtoIsWhole /\ GeneratedIsServed
    /\ family = "start" =>
        Reader!StartedAsLinked(WorldWith(input.links, IF input.others = <<>> THEN <<>> ELSE input.others[1], input.telemetry),
                               << <<"home", "main">> >> \o (IF input.others = <<>> THEN <<>> ELSE << <<"other", "main">> >>))
    /\ family = "unify" =>
        Federation!MergedServesBoth(input.a, input.b, "In", "Out", Values)
    /\ family = "keys" =>
        Federation!KeysAreComplete(input.config, input.resolvers, input.directives)
    /\ family = "transform" =>
        Transforming!TransformedMeansTheSame(input.config, input.percent, TransformValues)
    /\ family = "sdl" =>
        Sdl!SdlKeepsTheConfiguration(FoldLeft(Edited, Written, input.edits))
    /\ family = "doc" => \A n \in 1..3 : Sdl!LinesAreTheText(input, n)
    /\ family = "ddl" =>
        /\ Database!MigrationsMakeTheDatabase(input)
        /\ Database!Database(input) # <<>> =>
              /\ Database!GeneratedIsServed(Database!ParseMigrations(input))
              /\ Database!GeneratedIsServed(Database!Introspect(Database!Database(input)[1]))
=============================================================================
