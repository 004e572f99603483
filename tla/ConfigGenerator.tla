-------------------------- MODULE ConfigGenerator --------------------------
(* The generator of configurations: a sample of a request and its answer     *)
(* becomes types, a field and its @http; a proto file's resolvers may become *)
(* Connect calls; all are merged, and types of one field are unwrapped.      *)
(*                                                                           *)
(* JSON is <<"null">>, <<"scalar", its type>>, <<"list", items>> or          *)
(* <<"object", fields>>; a field of a generated type has also its resolver.  *)
EXTENDS Transformers

\* convert_case's camel case of a query's key.
CONSTANT Camel(_)

Incompatible == {"x-y"}
Plain(name) == <<"named", name, FALSE>>
AsList(type) == <<"list", type, FALSE>>

-----------------------------------------------------------------------------
\* JSONValidator: what is empty, or has a key GraphQL has no name for, has no type.
IsGraphqlCompatible(json) ==
    CASE json[1] = "list" -> json[2] /= <<>>
      [] json[1] = "object" -> json[2] /= <<>> /\ DOMAIN json[2] \cap Incompatible = {}
      [] OTHER -> TRUE

\* to_gql_type(): a number of any kind is an Int.
ToGqlType(json) ==
    IF json[1] = "null" THEN "JSON" ELSE IF json[2] = "Float" THEN "Int" ELSE json[2]

\* NameGenerator: the names made so far are counted.
Made(types, st) ==
    [name |-> "GEN__" \o ToString(st.next),
     st   |-> [next |-> st.next + 1, types |-> With(st.types, ("GEN__" \o ToString(st.next)) :> types)]]

\* Mutated form: a later sample's type replaces the one before it.
MergeSamples_Last(types) ==
    FoldLeft(LAMBDA F, G : With(F, G), <<>>, types)
\* TypeMerger::merge_fields(): the first type of a field stays, unless it says nothing.
MergeSamples(types) ==
    FoldLeft(LAMBDA F, G : [f \in DOMAIN F \cup DOMAIN G |->
                 IF f \notin DOMAIN F THEN G[f]
                 ELSE IF f \in DOMAIN G /\ Name(F[f].type) = "JSON" THEN G[f] ELSE F[f]],
             <<>>, types)

FieldOf(made, isList) ==
    [field |-> [type |-> IF isList THEN AsList(Plain(made.name)) ELSE Plain(made.name), args |-> <<>>,
                resolver |-> <<>>],
     st |-> made.st]

RECURSIVE GenerateTypes(_, _), GenerateList(_, _, _)

TypeOfProperty(json, st) ==
    IF ~IsGraphqlCompatible(json) THEN [name |-> "JSON", st |-> st]
    ELSE IF json[1] \in {"list", "object"} THEN GenerateTypes(json, st)
    ELSE [name |-> ToGqlType(json), st |-> st]

WithField(acc, f, made) == [fields |-> With(acc.fields, f :> made.field), st |-> made.st]
CreateTypeFromObject(object, st) ==
    FoldLeft(LAMBDA acc, f : WithField(acc, f, FieldOf(TypeOfProperty(object[f], acc.st), object[f][1] = "list")),
             [fields |-> <<>>, st |-> st], Sorted(DOMAIN object))

Push(of, created, rest) == GenerateList(rest, Append(of, created.fields), created.st)
GenerateList(items, of, st) ==
    IF items = <<>> THEN IF of = <<>> THEN [name |-> "JSON", st |-> st] ELSE Made(MergeSamples(of), st)
    ELSE IF items[1][1] /= "object" THEN GenerateTypes(items[1], st)
    ELSE IF ~IsGraphqlCompatible(items[1]) THEN [name |-> "JSON", st |-> st]
    ELSE Push(of, CreateTypeFromObject(items[1][2], st), Tail(items))

Named(created) == Made(created.fields, created.st)
GenerateTypes(json, st) ==
    IF json[1] = "list" THEN GenerateList(json[2], <<>>, st)
    ELSE IF json[1] /= "object" THEN [name |-> ToGqlType(json), st |-> st]
    ELSE IF ~IsGraphqlCompatible(json) THEN [name |-> "JSON", st |-> st]
    ELSE Named(CreateTypeFromObject(json[2], st))

-----------------------------------------------------------------------------
\* A segment of a path has the digits it begins with, if a word ends there, and the rest; a query
\* pair has a value with a text, its type, and whether it is several joined by commas.
SegmentText(s) == s.digits \o s.rest

\* add_path_variables(): numbers are replaced before identifiers, and an identifier that begins
\* with a group of digits is a number with a suffix.
Numbers(path) == {i \in DOMAIN path : path[i].digits /= ""}
Uuids(path) == {i \in DOMAIN path : path[i].digits = "" /\ path[i].uuid}
\* Mutated form: the identifiers are counted from one again.
PathArg_Restart(path, i) ==
    "GEN__" \o ToString(IF i \in Numbers(path) THEN Cardinality({j \in Numbers(path) : j <= i})
                        ELSE Cardinality({j \in Uuids(path) : j <= i}))
PathArg(path, i) ==
    "GEN__" \o ToString(IF i \in Numbers(path) THEN Cardinality({j \in Numbers(path) : j <= i})
                        ELSE Cardinality(Numbers(path)) + Cardinality({j \in Uuids(path) : j <= i}))
AddPathVariables(path) ==
    [url  |-> [i \in DOMAIN path |->
                 IF i \in Numbers(path) THEN << <<"arg", PathArg(path, i)>>, <<"text", path[i].rest>> >>
                 ELSE IF i \in Uuids(path) THEN << <<"arg", PathArg(path, i)>> >>
                 ELSE << <<"text", SegmentText(path[i])>> >>],
     args |-> [a \in {PathArg(path, i) : i \in Numbers(path) \cup Uuids(path)} |->
                 [type |-> <<"named", IF \E i \in Numbers(path) : PathArg(path, i) = a THEN "Int" ELSE "String", TRUE>>]]]

\* Mutated form: a key seen again is passed over.
GetQueryParams_First(query) ==
    FoldLeft(LAMBDA acc, p :
               IF \E i \in DOMAIN acc : acc[i].key = p.key THEN acc
               ELSE Append(acc, [key |-> p.key, type |-> p.value.type, list |-> p.value.commas]),
             <<>>, query)
\* UrlUtility::get_query_params(): a key's first value has its type; a key seen again is a list.
GetQueryParams(query) ==
    FoldLeft(LAMBDA acc, p :
               IF \E i \in DOMAIN acc : acc[i].key = p.key
               THEN [i \in DOMAIN acc |-> IF acc[i].key = p.key THEN [acc[i] EXCEPT !.list = TRUE] ELSE acc[i]]
               ELSE Append(acc, [key |-> p.key, type |-> p.value.type, list |-> p.value.commas]),
             <<>>, query)

AddQueryVariables(params) ==
    [query |-> [i \in DOMAIN params |-> [key |-> params[i].key, arg |-> Camel(params[i].key)]],
     args  |-> FoldLeft(LAMBDA A, p : With(A, Camel(p.key) :>
                            [type |-> IF p.list THEN AsList(Plain(p.type)) ELSE Plain(p.type)]),
                        <<>>, params)]

HttpDirective(path, query) ==
    [args |-> With(path.args, query.args),
     http |-> [url |-> path.url, query |-> query.query, body |-> "", method |-> "GET"]]
GenerateHttpDirective(url) ==
    HttpDirective(AddPathVariables(url.path), AddQueryVariables(GetQueryParams(url.query)))

-----------------------------------------------------------------------------
\* RequestSample: a subscription is one whatever else was said.
OperationType(sample) ==
    IF sample.isSubscription THEN "subscription" ELSE IF sample.isMutation THEN "mutation" ELSE "query"
Title(op) == CASE op = "query" -> "Query" [] op = "mutation" -> "Mutation" [] OTHER -> "Subscription"

WithBody(type, directive, method, made) ==
    [field |-> [type |-> type, args |-> With(directive.args, "GEN__Input1" :> [type |-> Plain(made.name)]),
                resolver |-> <<"http", [directive.http EXCEPT !.body = "GEN__Input1", !.method = method]>>],
     st |-> made.st]
\* OperationTypeGenerator: only a mutation has a body, and a method other than GET.
OperationField(sample, type, directive, st) ==
    IF OperationType(sample) = "mutation"
    THEN WithBody(type, directive, sample.method, GenerateTypes(sample.request, st))
    ELSE [field |-> [type |-> type, args |-> directive.args, resolver |-> <<"http", directive.http>>], st |-> st]
Operation(sample, made) ==
    OperationField(sample, IF sample.response[1] = "list" THEN AsList(Plain(made.name)) ELSE Plain(made.name),
                   GenerateHttpDirective(sample.url), made.st)

Empty ==
    [types |-> <<>>, enums |-> <<>>, unions |-> <<>>, implements |-> <<>>, allowed |-> {}, links |-> <<>>,
     roots |-> [query |-> <<>>, mutation |-> <<>>, subscription |-> <<>>]]

\* SchemaGenerator, then RenameTypes to the name the schema asks for.
SchemaOf(sample, op, made) ==
    [Empty EXCEPT !.types = With(made.st.types, Title(op) :> (sample.field :> made.field)),
                  !.roots[op] = <<Title(op)>>, !.allowed = sample.headers]
RootName(schema, op) == IF schema[op] = <<>> THEN Title(op) ELSE schema[op][1]
Rooted(config, schema, op) == RenameTypes(config, << <<Title(op), RootName(schema, op)>> >>, <<>>)

FromJson(sample, schema, made) ==
    [config |-> Rooted(SchemaOf(sample, OperationType(sample), made), schema, OperationType(sample))[1],
     next   |-> made.st.next]
GenerateFromJson(sample, schema, next) ==
    FromJson(sample, schema, Operation(sample, GenerateTypes(sample.response, [next |-> next, types |-> <<>>])))

\* ConnectRPC: the method's last part is called at the service; without a body {} is sent.
ConnectCall(grpc) ==
    [url |-> <<grpc.url, Front(grpc.method), Last(grpc.method)>>, method |-> "POST",
     body |-> IF grpc.body = <<>> THEN <<"{}">> ELSE grpc.body,
     headers |-> grpc.headers \cup {"Connect-Protocol-Version"}, batch |-> grpc.batch]
ConnectRpc(config) ==
    [config EXCEPT !.types = [t \in DOMAIN @ |-> [f \in DOMAIN @[t] |->
        IF @[t][f].resolver /= <<>> /\ @[t][f].resolver[1] = "grpc"
        THEN [@[t][f] EXCEPT !.resolver = <<"connect", ConnectCall(@[2])>>] ELSE @[t][f]]]]

\* Config::merge_right: a type's fields are joined, and of one field the later is taken.
MergeRight(config, other) ==
    [types |-> [t \in DOMAIN config.types \cup DOMAIN other.types |->
                  IF t \notin DOMAIN config.types THEN other.types[t]
                  ELSE IF t \notin DOMAIN other.types THEN config.types[t]
                  ELSE With(config.types[t], other.types[t])],
     enums |-> With(config.enums, other.enums), unions |-> With(config.unions, other.unions),
     implements |-> With(config.implements, other.implements),
     allowed |-> config.allowed \cup other.allowed, links |-> config.links \o other.links,
     roots |-> [r \in DOMAIN config.roots |-> IF other.roots[r] = <<>> THEN config.roots[r] ELSE other.roots[r]]]

FromProto(input, config) == IF input.connect THEN ConnectRpc(config) ELSE config
Merged(acc, made) == [config |-> MergeRight(acc.config, made.config), next |-> made.next]
\* Mutated form: every sample has a generator of names of its own.
Generate_Restart(inputs, schema) ==
    FoldLeft(LAMBDA acc, input :
               Merged(acc, IF input.kind = "json" THEN GenerateFromJson(input.sample, schema, 1)
                           ELSE [config |-> FromProto(input, [input.config EXCEPT !.links = <<input.link>>]), next |-> acc.next]),
             [config |-> Empty, next |-> 1], inputs).config
\* Generator::generate(): one input after the other, with one generator of names.
Generate(inputs, schema) ==
    FoldLeft(LAMBDA acc, input :
               Merged(acc, IF input.kind = "json" THEN GenerateFromJson(input.sample, schema, acc.next)
                           ELSE [config |-> FromProto(input, [input.config EXCEPT !.links = <<input.link>>]), next |-> acc.next]),
             [config |-> Empty, next |-> 1], inputs).config

-----------------------------------------------------------------------------
\* FlattenSingleField: the path through types of one field to a leaf; <<>> if there is none.
RECURSIVE SingleFieldPath(_, _, _, _)
Onwards(f, path) == IF path = <<>> THEN <<>> ELSE << <<f>> \o path[1] >>
\* Mutated form: any field of a type stands for it.
SingleFieldPath_Any(config, f, t, visited) ==
    IF t \in visited THEN <<>>
    ELSE IF IsScalar(config, t) \/ t \in DOMAIN config.enums THEN << <<f>> >>
    ELSE IF t \notin DOMAIN config.types \/ DOMAIN config.types[t] = {} THEN <<>>
    ELSE LET g == CHOOSE g \in DOMAIN config.types[t] : TRUE
         IN  Onwards(f, SingleFieldPath(config, g, Name(config.types[t][g].type), visited \cup {t}))
SingleFieldPath(config, f, t, visited) ==
    IF t \in visited THEN <<>>
    ELSE IF IsScalar(config, t) \/ t \in DOMAIN config.enums THEN << <<f>> >>
    ELSE IF t \notin DOMAIN config.types \/ Cardinality(DOMAIN config.types[t]) /= 1 THEN <<>>
    ELSE LET g == CHOOSE g \in DOMAIN config.types[t] : TRUE
         IN  Onwards(f, SingleFieldPath(config, g, Name(config.types[t][g].type), visited \cup {t}))

Unwrapped(config, t, f) == SingleFieldPath(config, f, Name(config.types[t][f].type), {})
\* The paths of the fields that are omitted and added again; an input type has none.
FlattenSingleField(config) ==
    [t \in DOMAIN config.types \ InputTypes(config) |->
        [f \in {g \in DOMAIN config.types[t] :
                  \E p \in ToSet(Unwrapped(config, t, g)) : Len(p) > 1} |-> Unwrapped(config, t, f)[1]]]

-----------------------------------------------------------------------------
\* Location::into_resolved(): what is absolute stays; to_relative_path(): the way from a directory.
Step(dir, name) == IF name = ".." THEN (IF dir = <<>> THEN <<>> ELSE Front(dir)) ELSE Append(dir, name)
Clean(dir, path) == FoldLeft(Step, dir, path)
IntoResolved(src, dir) == IF src[1] = "rel" THEN <<"abs", Clean(dir, src[2])>> ELSE src

Shared(from, to) == Max({n \in 0..Len(from) : n <= Len(to) /\ SubSeq(from, 1, n) = SubSeq(to, 1, n)})
Apart(from, to, n) == [i \in 1..(Len(from) - n) |-> ".."] \o SubSeq(to, n + 1, Len(to))
ToRelativePath(from, path) ==
    IF path[1] = "url" THEN path ELSE <<"rel", Apart(from, path[2], Shared(from, path[2]))>>

\* resolve_io(): a proto file is linked by its way from the output's directory.
ResolveIo(run) ==
    [i \in DOMAIN run.inputs |->
       IF run.inputs[i].kind = "json" THEN run.inputs[i]
       ELSE [kind |-> "proto", connect |-> run.inputs[i].connect, config |-> run.inputs[i].config,
             link |-> ToRelativePath(run.output, IntoResolved(run.inputs[i].src, run.dir))]]

\* The command: what is refused is refused before the file is, and one that is there is asked about.
Command(run) ==
    IF \E i \in DOMAIN run.inputs : run.inputs[i].kind = "json" /\
          run.inputs[i].sample.isMutation /\ run.inputs[i].sample.isSubscription THEN "refused"
    ELSE IF run.percent \notin 0..100 \/ run.format /= "graphql" THEN "refused"
    ELSE IF run.exists /\ ~run.confirmed THEN "kept" ELSE "written"

-----------------------------------------------------------------------------
\* A sample says enough: whole numbers, lists of items alike and of no lists.
RECURSIVE Alike(_, _), Regular(_)
Alike(a, b) ==
    \/ a[1] = "null" \/ b[1] = "null"
    \/ a[1] = "scalar" /\ b[1] = "scalar" /\ a = b
    \/ a[1] = "list" /\ b[1] = "list" /\ \A i \in DOMAIN a[2], j \in DOMAIN b[2] : Alike(a[2][i], b[2][j])
    \/ a[1] = "object" /\ b[1] = "object" /\
         (a[2] = <<>> \/ b[2] = <<>> \/ (DOMAIN a[2] = DOMAIN b[2] /\ \A f \in DOMAIN a[2] : Alike(a[2][f], b[2][f])))
Regular(json) ==
    CASE json[1] = "null" -> TRUE
      [] json[1] = "scalar" -> json[2] /= "Float"
      [] json[1] = "list" -> \A i \in DOMAIN json[2] : /\ json[2][i][1] /= "list" /\ Regular(json[2][i])
                                                       /\ \A j \in DOMAIN json[2] : Alike(json[2][i], json[2][j])
      [] OTHER -> \A f \in DOMAIN json[2] : Regular(json[2][f])

\* What a value shows of its shape its type says, except of a list whose first item shows none; the
\* objects within the items of a list are those of the first item that has them.
Shown(json) ==
    /\ IsGraphqlCompatible(json)
    /\ json[1] = "object" => \A f \in DOMAIN json[2] : json[2][f][1] = "object" =>
         \A g \in DOMAIN json[2][f][2] : json[2][f][2][g][1] /= "null"
RECURSIVE Specific(_, _, _)
Specific(config, type, json) ==
    CASE json[1] = "null" \/ ~IsGraphqlCompatible(json) -> TRUE
      [] json[1] = "scalar" -> Name(type) /= "JSON"
      [] json[1] = "list" ->
           (json[2][1][1] /= "null" /\ \A i \in DOMAIN json[2] : Shown(json[2][i])) =>
              type[1] = "list" /\ \A i \in DOMAIN json[2] : Specific(config, type[2], json[2][i])
      [] OTHER -> /\ type[1] = "named" /\ type[2] \in DOMAIN config.types
                  /\ \A f \in DOMAIN json[2] : Specific(config, config.types[type[2]][f].type, json[2][f])

\* The URL a field asks for, with its arguments given.
Asked(http, given) ==
    [path |-> [i \in DOMAIN http.url |->
                 FoldLeft(LAMBDA text, p : text \o (IF p[1] = "arg" THEN given[p[2]][1].text ELSE p[2]), "", http.url[i])],
     query |-> FlattenSeq([i \in DOMAIN http.query |->
                 [j \in DOMAIN given[http.query[i].arg] |->
                    <<http.query[i].key, given[http.query[i].arg][j].text>>]])]
Fits(type, values) ==
    /\ type[1] = "named" => Len(values) = 1
    /\ \A v \in ToSet(values) : Name(type) = "String" \/ (v.type = Name(type) /\ ~v.commas)

Texts(url) ==
    {<<[type |-> "Int", text |-> s.digits, commas |-> FALSE]>> : s \in ToSet(url.path)}
    \cup {<<[type |-> "String", text |-> SegmentText(s), commas |-> FALSE]>> : s \in ToSet(url.path)}
ValuesOf(query, key) ==
    LET of == SelectSeq(query, LAMBDA p : p.key = key) IN [i \in DOMAIN of |-> of[i].value]

\* Keys apart in camel case, each with values of one type, which several joined have only as text.
Distinct(query) ==
    \A p \in ToSet(query), q \in ToSet(query) :
        /\ Camel(p.key) = Camel(q.key) => (p.key = q.key /\ p.value.type = q.value.type)
        /\ p.value.commas => p.value.type = "String"

AskedAsSampled(url, field) ==
    Distinct(url.query) =>
        \E given \in [DOMAIN field.args -> Texts(url) \cup {ValuesOf(url.query, p.key) : p \in ToSet(url.query)}] :
            /\ \A a \in DOMAIN field.args :
                 \/ Fits(field.args[a].type, given[a])
                 \/ a = "GEN__Input1"
            /\ LET asked == Asked(field.resolver[2], given)
               IN  /\ asked.path = [i \in DOMAIN url.path |-> SegmentText(url.path[i])]
                   /\ Len(asked.query) = Len(url.query)
                   /\ ToSet(asked.query) = {<<p.key, p.value.text>> : p \in ToSet(url.query)}

\* FromJsonGenerator: each field can ask what its sample asked, and takes what was sent and answered.
SampleIsServed(config, schema, sample) ==
    LET op    == OperationType(sample)
        root  == RootName(schema, op)
        field == config.types[root][sample.field]
    IN  /\ config.roots[op] = <<IF op = "subscription" THEN Title(op) ELSE root>>
        /\ Regular(sample.response) => /\ Conforms(config, FALSE, field.type, sample.response)
                                       /\ Specific(config, field.type, sample.response)
        /\ (op = "mutation" /\ Regular(sample.request) /\ sample.request[1] /= "list") =>
             Conforms(config, TRUE, field.args["GEN__Input1"].type, sample.request)
        /\ AskedAsSampled(sample.url, field)
        /\ sample.headers \subseteq config.allowed

\* The way of a leaf: as it was, and as it is unwrapped; ways longer than n are cut.
RECURSIVE Ways(_, _, _), UnwrappedWays(_, _, _, _)
Cut(way, n) == IF Len(way) > n THEN SubSeq(way, 1, n) ELSE way
Below(config, t, f) == Name(config.types[t][f].type)
IsObject(config, t) == t \in DOMAIN config.types /\ ~IsScalar(config, t)
Ways(config, t, n) ==
    IF n = 0 \/ ~IsObject(config, t) THEN {<<>>}
    ELSE UNION {{<<f>> \o w : w \in Ways(config, Below(config, t, f), n - 1)} : f \in DOMAIN config.types[t]}
UnwrappedWays(config, flat, t, n) ==
    IF n = 0 \/ ~IsObject(config, t) THEN {<<>>}
    ELSE UNION {IF t \in DOMAIN flat /\ f \in DOMAIN flat[t] THEN {Cut(flat[t][f], n)}
                ELSE {<<f>> \o w : w \in UnwrappedWays(config, flat, Below(config, t, f), n - 1)} :
                    f \in DOMAIN config.types[t]}

\* FlattenSingleField: every leaf is reached as before, and no further one.
LeavesAreKept(config, flat) ==
    \A t \in DOMAIN config.types : Ways(config, t, 5) = UnwrappedWays(config, flat, t, 5)

\* to_relative_path(): the links of a generated configuration lead from it to the files that were read.
LinksLeadBack(run, links) ==
    {IntoResolved(l, run.output) : l \in ToSet(links)} =
      {IntoResolved(run.inputs[i].src, run.dir) : i \in {j \in DOMAIN run.inputs : run.inputs[j].kind = "proto"}}

\* ConnectRPC: a call names the method it stands for, and none is left as it was.
CallsAreConnect(config, inputs) ==
    \A i \in DOMAIN inputs : inputs[i].kind = "proto" =>
      \A f \in DOMAIN inputs[i].config.types.Query :
        LET was == inputs[i].config.types.Query[f].resolver
            is  == config.types.Query[f].resolver
        IN  IF inputs[i].connect THEN /\ is[1] = "connect" /\ Append(is[2].url[2], is[2].url[3]) = was[2].method
                                      /\ is[2].body /= <<>>
            ELSE is = was

GeneratedHolds(run, config) ==
    /\ \A i \in DOMAIN run.inputs :
         run.inputs[i].kind = "json" => SampleIsServed(config, run.schema, run.inputs[i].sample)
    /\ LeavesAreKept(config, FlattenSingleField(config))
    /\ LinksLeadBack(run, config.links) /\ CallsAreConnect(config, run.inputs)

\* Generator::generate(): what was sampled is served, and only a run that is not refused writes.
SamplesAreServed(run) ==
    /\ Command(run) = "refused" \/ GeneratedHolds(run, Generate(ResolveIo(run), run.schema))
    /\ (Command(run) = "written" /\ run.exists) => run.confirmed
=============================================================================
