----------------------------- MODULE Operators -----------------------------
(***************************************************************************)
(* The directives that resolve a field: what the blueprint takes of them    *)
(* (src/core/blueprint/operators and mustache.rs), which client, loader or  *)
(* listener of the runtime each asks in the end (eval_io_inner(), and the   *)
(* subscriptions of into_schema.rs), and the fields of a federation.        *)
(*                                                                         *)
(* A directive is [kind, ...], with its arguments by their names; JSON that *)
(* may hold templates is IrEval's, where text is <<"str", segments>> and a  *)
(* segment is a path, or <<>> without a template.  It is compiled with      *)
(* given, [config, links, schemas, script, methods, upstream, vars], to one *)
(* of IrEval's IRs, of which the upstream is [io, id, of, groupBy].  A link *)
(* is ConfigReader's; what can fail is <<>> or a sequence of one.           *)
(***************************************************************************)
EXTENDS Blueprint

Settings1 == INSTANCE Settings
Reader == INSTANCE ConfigReader
Proto == INSTANCE Protobuf
Sql == INSTANCE PostgresQuery WITH Camel <- <<>>
NoJson(text) == <<>>
Redis == INSTANCE RedisCommand WITH Parse <- NoJson

Io(kind, id, d, groupBy) == <<"io", [io |-> kind, id |-> id, of |-> d, groupBy |-> groupBy]>>

-----------------------------------------------------------------------------
\* DynamicValue::try_from(); text without a template is all one text.
IsText(segments) == \A i \in DOMAIN segments : segments[i] = <<>>
TextOf(segments) ==
    CASE IsText(segments) -> <<"value", <<"str", "text">> >>
      [] ~IsText(segments) /\ Len(segments) = 1 -> <<"mustache", segments[1]>>
      [] OTHER -> <<"text", segments>>
RECURSIVE ToDynamic(_)
ToDynamic(json) ==
    CASE json[1] = "str" -> TextOf(json[2])
      [] json[1] = "list" -> <<"array", [i \in DOMAIN json[2] |-> ToDynamic(json[2][i])]>>
      [] json[1] = "obj" -> <<"object", [k \in DOMAIN json[2] |-> ToDynamic(json[2][k])]>>
      [] OTHER -> <<"value", json>>
\* TryFrom<&DynamicValue> for ConstValue, where no template is left
RECURSIVE ToConst(_)
ToConst(d) ==
    CASE d[1] = "array" -> <<"list", [i \in DOMAIN d[2] |-> ToConst(d[2][i])]>>
      [] d[1] = "object" -> <<"obj", [k \in DOMAIN d[2] |-> ToConst(d[2][k])]>>
      [] OTHER -> d[2]

\* count_dynamic_paths()
\* Mutated form: what is within an object is not counted.
RECURSIVE CountDynamicPaths_Flat(_)
CountDynamicPaths_Flat(json) ==
    CASE json[1] = "str" -> IF IsText(json[2]) THEN 0 ELSE 1
      [] json[1] = "list" -> FoldLeft(LAMBDA n, of : n + CountDynamicPaths_Flat(of), 0, json[2])
      [] OTHER -> 0
RECURSIVE CountDynamicPaths(_)
CountDynamicPaths(json) ==
    CASE json[1] = "str" -> IF IsText(json[2]) THEN 0 ELSE 1
      [] json[1] = "list" -> FoldLeft(LAMBDA n, of : n + CountDynamicPaths(of), 0, json[2])
      [] json[1] = "obj" ->
            FoldLeft(LAMBDA n, key : n + CountDynamicPaths(json[2][key]), 0, SetToSeq(DOMAIN json[2]))
      [] OTHER -> 0

\* apply_select(): what a select reads is what the upstream answered.
\* Mutated form: the field's own arguments are what it reads.
ApplySelect_Unpiped(ir, select) ==
    IF select = <<>> THEN <<ir>> ELSE << <<"pipe", ir, <<"dynamic", ToDynamic(select[1])>> >> >>
ApplySelect(ir, select) ==
    IF select = <<>> THEN <<ir>>
    ELSE << <<"pipe", ir, <<"dynamic", Prepend(ToDynamic(select[1]), "args")>> >> >>

\* path_validator(), validate_argument(): what a query reads of the arguments is there, down
\* to a scalar or an enum; what follows those is not looked at.
RECURSIVE PathValid(_, _, _)
PathValid(config, path, type) ==
    IF type \notin DOMAIN config.types THEN type \in Predefined \cup DOMAIN config.enums
    ELSE /\ path # <<>> /\ path[1] \in DOMAIN config.types[type].fields
         /\ PathValid(config, Tail(path), Name(config.types[type].fields[path[1]].type))
ArgumentValid(config, args, path) ==
    path # <<>> /\ path[1] = "args" =>
        /\ Len(path) > 1 /\ path[2] \in DOMAIN args
        /\ PathValid(config, SubSeq(path, 3, Len(path)), Name(args[path[2]].type))

\* GroupBy: the parameter named, or the last name of the path.
GroupBy(path, key) == <<[path |-> path, key |-> IF key = <<>> THEN path[Len(path)] ELSE key[1]]>>

\* The first parameter of a GET that reads the parent.
\* Mutated form: the first parameter.
KeyOfValue_First(d) == IF d.method = "GET" /\ d.query # <<>> THEN <<d.query[1].key>> ELSE <<>>
KeyOfValue(d) ==
    LET reading == SelectSeq(d.query, LAMBDA q : q.value # <<>> /\ "value" \in ToSet(q.value))
    IN  IF d.method = "GET" /\ reading # <<>> THEN <<reading[1].key>> ELSE <<>>

\* Upstream::get_delay(), get_max_size(): without a batch there is no delay.
Delay(upstream) == IF upstream.batch = <<>> THEN 0 ELSE upstream.batch[1].delay
MaxSize(upstream) ==
    IF upstream.batch = <<>> THEN Settings1!DefaultMaxSize
    ELSE Settings1!OrElse(upstream.batch[1].max, Settings1!DefaultMaxSize)

\* compile_http()
RefusesBatch(given, d, operation) ==
    \/ Delay(given.upstream) < 1 \/ MaxSize(given.upstream) < 1
    \/ operation = "subscription"
    \/ d.body = <<>> /\ (d.query = <<>> \/ d.method # "GET")
    \/ d.body # <<>> /\ CountDynamicPaths(d.body[1]) # 1
CompileHttp(given, d, args, operation) ==
    IF \/ d.batchKey # <<>> /\ RefusesBatch(given, d, operation)
       \/ \E q \in ToSet(d.query) : ~ArgumentValid(given.config, args, q.value)
    THEN <<>>
    ELSE IF operation = "subscription" THEN ApplySelect(Io("HttpStream", "", d, <<>>), d.select)
    ELSE ApplySelect(Io("Http", "", d, IF d.batchKey = <<>> THEN <<>> ELSE GroupBy(d.batchKey, KeyOfValue(d))),
                     d.select)

\* compile_grpc(): a method is a package, a service and a name, and says whether its answer
\* is the field's (Protobuf!Accepted).
MethodAccepted(given, method) ==
    /\ Len(method) > 2                       \* GrpcMethod::from_str()
    /\ DOMAIN given.methods # {}             \* there is a .proto file
    /\ method \in DOMAIN given.methods       \* to_operation()
    /\ given.methods[method]
CompileGrpc(given, d, operation) ==
    IF ~MethodAccepted(given, d.method) THEN <<>>
    ELSE IF operation = "subscription" THEN ApplySelect(Io("GrpcStream", "", d, <<>>), d.select)
    ELSE ApplySelect(Io("Grpc", "", d, IF d.batchKey = <<>> THEN <<>> ELSE GroupBy(d.batchKey, <<>>)), d.select)

\* compile_graphql(): its fields are JitInput's RelatedFields.
CompileGraphql(d, operation) ==
    IF operation = "subscription"
    THEN <<Io("GraphQLStream", "", [d EXCEPT !.url = IF d.streamUrl = <<>> THEN Append(@, "stream") ELSE d.streamUrl], <<>>)>>
    ELSE <<Io("GraphQL", "", d, <<>>)>>

CompileJs(given, d) == IF given.script = <<>> THEN <<>> ELSE <<Io("Js", "", d, <<>>)>>

NeedsKey == {"GetPresignedUrl", "PutPresignedUrl", "Delete"}
CompileS3(d) == IF d.op \in NeedsKey /\ d.key = <<>> THEN <<>> ELSE <<Io("S3", "", d, <<>>)>>

\* to_json_schema(), with the fields that have no resolver; no type is given that is within itself.
RECURSIVE InProto(_)
InProto(type) == IF IsList(type) THEN <<"list", InProto(type[2]), type[3]>> ELSE <<"named", <<type[2]>>, type[3]>>
SchemaOf(config, type) ==
    LET own(fields) == {f \in DOMAIN fields : fields[f].resolvers = <<>>}
        in(fields) == [f \in own(fields) |-> InProto(fields[f].type)]
    IN  Proto!ToJsonSchema([types |-> [n \in {<<t>> : t \in DOMAIN config.types} |-> in(config.types[n[1]].fields)],
                            enums |-> [n \in {<<e>> : e \in DOMAIN config.enums} |-> DOMAIN config.enums[n[1]]]],
                           InProto(type))

\* compile_expr(): only what has no template is validated.
\* Mutated form: a constant is not, either.
CompileExpr_Unchecked(given, d, type) == << <<"dynamic", ToDynamic(d.body)>> >>
CompileExpr(given, d, type) ==
    LET value == ToDynamic(d.body)
    IN  IF IsConst(value) /\ ~Proto!Validates(SchemaOf(given.config, type), ToConst(value)) THEN <<>>
        ELSE << <<"dynamic", value>> >>

\* The databases' connections are PostgresQuery's and RedisCommand's.
Root(operation) == IF operation = "subscription" THEN "Subscription" ELSE "Query"
SqlLinks(links) ==
    [i \in DOMAIN links |->
        [id |-> Reader!IdOf(links[i]), type |-> IF links[i].type = "GreptimeDB" THEN "GreptimeDb" ELSE links[i].type]]
CompileSql(given, d, operation) ==
    LET Of(ios) == [i \in DOMAIN ios |-> Io(ios[i].io, ios[i].connection, d, <<>>)]
    IN  Of(Sql!Compile(d.sql, Root(operation), [links |-> SqlLinks(given.links), schemas |-> given.schemas]))
CompileRedis(given, d, operation) ==
    LET Of(ios) == [i \in DOMAIN ios |-> Io(ios[i].io, ios[i].id, d, <<>>)]
    IN  Of(Redis!Compile(d.redis, Root(operation), given.links))

\* compile_resolver(), of a field that is [type, args].
CompileDirective(given, d, field, operation) ==
    CASE d.kind = "http" -> CompileHttp(given, d, field.args, operation)
      [] d.kind = "grpc" -> CompileGrpc(given, d, operation)
      [] d.kind = "graphql" -> CompileGraphql(d, operation)
      [] d.kind = "js" -> CompileJs(given, d)
      [] d.kind = "s3" -> CompileS3(d)
      [] d.kind = "expr" -> CompileExpr(given, d, field.type)
      [] d.kind = "sql" -> CompileSql(given, d, operation)
      [] d.kind = "redis" -> CompileRedis(given, d, operation)

\* MustachePartsValidator, for what may render to nothing: a query, a header, an argument, a body.
RECURSIVE ValidateQuery(_, _, _)
ValidateQuery(config, parts, type) ==
    /\ parts[1] \in DOMAIN type.fields
    /\ IF Len(parts) = 1 THEN Name(type.fields[parts[1]].type) \in Predefined
       ELSE /\ Name(type.fields[parts[1]].type) \in DOMAIN config.types
            /\ ValidateQuery(config, Tail(parts), config.types[Name(type.fields[parts[1]].type)])
ValidateOptional(given, type, args, parts) ==
    /\ Len(parts) > 1
    /\ CASE parts[1] = "value" -> ValidateQuery(given.config, Tail(parts), type)
         [] parts[1] = "args" -> parts[2] \in DOMAIN args
         [] parts[1] = "vars" -> parts[2] \in given.vars
         [] OTHER -> parts[1] \in {"headers", "env", "claims"}

\* validate_resolver(): what is streamed, piped, or of a database is not looked at.
Templates(paths) == paths \ {<<>>}
DemandedTemplates(io) == IF io.io \in {"Http", "Grpc"} THEN Templates(io.of.path) ELSE {}
\* Mutated form: those of a query are compile_http()'s to look at.
OptionalTemplates_NoQuery(io) ==
    CASE io.io = "GraphQL" -> Templates(io.of.headers \cup io.of.args)
      [] io.io = "Grpc" -> Templates(io.of.headers \cup io.of.body)
      [] OTHER -> {}
OptionalTemplates(io) ==
    CASE io.io = "Http" -> Templates({q.value : q \in ToSet(io.of.query)})
      [] io.io = "GraphQL" -> Templates(io.of.headers \cup io.of.args)
      [] io.io = "Grpc" -> Templates(io.of.headers \cup io.of.body)
      [] OTHER -> {}
RECURSIVE ResolverValid(_, _, _, _)
ResolverValid(given, type, args, ir) ==
    CASE ir[1] = "merge" -> \A i \in DOMAIN ir[2] : ResolverValid(given, type, args, ir[2][i])
      [] ir[1] = "io" ->
            /\ \A p \in DemandedTemplates(ir[2]) : Validate(given.config, type, args, given.vars, p)
            /\ \A p \in OptionalTemplates(ir[2]) : ValidateOptional(given, type, args, p)
      [] OTHER -> TRUE

\* update_resolver(), of the directives of a field.
FieldResolver(given, directives, type, field, operation) ==
    LET Validated(ir) == IF \A r \in ToSet(ir) : ResolverValid(given, type, field.args, r) THEN ir ELSE <<>>
        Of(irs) == IF \E i \in DOMAIN irs : irs[i] = <<>> THEN <<>> ELSE Validated(Resolved(FlattenSeq(irs)))
    IN  Of([i \in DOMAIN directives |-> CompileDirective(given, directives[i], field, operation)])

-----------------------------------------------------------------------------
\* eval_io_inner(): the client that is asked; what fails is <<>>.  It is a set, since a HashMap
\* has no order; runtime is ConfigReader's, and a worker is <<>> or of the script.
Client(clients, id) == IF id \in DOMAIN clients THEN <<clients[id]>> ELSE <<>>
AskS3(d, clients) ==
    CASE d.bucket = "" -> {<<>>}
      [] d.bucket # "" /\ d.link # <<>> -> {Client(clients, d.link[1])}
      [] d.bucket # "" /\ d.link = <<>> ->
            IF "" \in DOMAIN clients \/ DOMAIN clients = {} THEN {Client(clients, "")}
            ELSE {Client(clients, id) : id \in DOMAIN clients}
EvalIo(io, runtime, worker, value) ==
    CASE io.io \in {"Http", "GraphQL", "Grpc"} -> {<<io.of.url>>}
      [] io.io = "Postgres" -> {Client(runtime.postgres, io.id)}
      [] io.io = "Redis" -> {Client(runtime.redis, io.id)}
      [] io.io = "S3" -> AskS3(io.of, runtime.s3)
      [] io.io = "Js" -> {IF worker # <<>> /\ value # <<>> THEN worker ELSE << <<"null">> >>}
      [] OTHER -> {<<>>}

\* to_subscription_type(): a stream is opened for an io that stands for itself.
\* Mutated form: a database's is asked of its pool.
Subscribed_ToPool(ir, runtime) ==
    IF ir[1] = "io" /\ ir[2].io = "PostgresStream" THEN Client(runtime.postgres, ir[2].id) ELSE <<>>
Subscribed(ir, runtime) ==
    IF ir[1] # "io" THEN <<>>
    ELSE CASE ir[2].io \in {"GrpcStream", "HttpStream", "GraphQLStream"} -> <<ir[2].of.url>>
           [] ir[2].io = "PostgresStream" -> Client(runtime.postgresListeners, ir[2].id)
           [] ir[2].io = "RedisStream" -> Client(runtime.redisListeners, ir[2].id)
           [] OTHER -> <<>>

-----------------------------------------------------------------------------
\* compile_entity_resolver(): a directive of each type, of a field without arguments.
RECURSIVE CompileEntity(_, _)
CompileEntity(given, byType) ==
    LET OfType(t) ==
            CASE byType[t].kind = "entity" -> CompileEntity(given, byType[t].byType)
              [] byType[t].kind = "service" -> <<>>
              [] OTHER -> CompileDirective(given, byType[t], [type |-> <<"named", t, FALSE>>, args |-> <<>>], "query")
        Entity(irs) ==
            IF \E t \in DOMAIN irs : irs[t] = <<>> THEN <<>> ELSE << <<"entity", [t \in DOMAIN irs |-> irs[t][1]]>> >>
    IN  Entity([t \in DOMAIN byType |-> OfType(t)])

\* update_federation(): of the blueprint's query type, after the other directives; a is the
\* fields so far and the document that the first _service takes.
Federation(directives) == SelectSeq(directives, LAMBDA d : d.kind \in {"entity", "service"})
FederationOf(given, directives, document) ==
    IF directives[1].kind = "service" THEN << <<"service", document>> >>
    ELSE CompileEntity(given, directives[1].byType)
\* Mutated form: the federation's resolver is one of the field's.
WithFederation_Merged(field, ir) == [field EXCEPT !.resolver = <<Resolved(@ \o ir)[1]>>]
WithFederation(field, ir) == [field EXCEPT !.resolver = ir]
UpdateFederation(given, config, a, field) ==
    LET of == Federation(config[field.name])
        With1(ir) ==
            IF ir = <<>> THEN <<>>
            ELSE <<[fields |-> Append(a[1].fields, WithFederation(field, ir)),
                    document |-> IF of[1].kind = "service" THEN "none" ELSE a[1].document]>>
    IN  IF a = <<>> \/ field.name \notin DOMAIN config THEN <<>>
        ELSE IF of = <<>> THEN <<[a[1] EXCEPT !.fields = Append(@, field)]>>
        ELSE With1(FederationOf(given, of, a[1].document))
Federated(given, enabled, config, fields) ==
    LET Fields(a) == [i \in DOMAIN a |-> a[i].fields]
    IN  IF ~enabled THEN <<fields>>
        ELSE Fields(FoldLeft(LAMBDA a, field : UpdateFederation(given, config, a, field),
                             <<[fields |-> <<>>, document |-> "document"]>>, fields))

-----------------------------------------------------------------------------
\* Index::from(): of definitions and of fields of one name, the last.
LastOf(named, n) == LET own == SelectSeq(named, LAMBDA x : x.name = n) IN own[Len(own)]
ByName(named) == [n \in {x.name : x \in ToSet(named)} |-> LastOf(named, n)]
IndexOf(defs) ==
    [n \in DOMAIN ByName(defs) |->
        [def |-> ByName(defs)[n],
         fields |-> IF ByName(defs)[n].kind \in {"object", "interface", "input"} THEN ByName(ByName(defs)[n].fields)
                    ELSE <<>>]]
IsKind(index, type, kind) == type \in DOMAIN index /\ index[type].def.kind = kind
TypeIsScalar(index, type) == IsKind(index, type, "scalar") \/ type \in Predefined
TypeIsEnum(index, type) == IsKind(index, type, "enum")
GetInputType(index, type) == IF IsKind(index, type, "input") THEN <<index[type].def>> ELSE <<>>
GetInterfaces(index) == {n \in DOMAIN index : index[n].def.kind = "interface"}
GetField(index, type, field) ==
    IF type \in DOMAIN index /\ field \in DOMAIN index[type].fields THEN <<index[type].fields[field]>> ELSE <<>>
\* Mutated form: only the names themselves.
ValidateEnumValue_Names(index, type, value) ==
    TypeIsEnum(index, type) /\ value \in DOMAIN index[type].def.values
ValidateEnumValue(index, type, value) ==
    /\ TypeIsEnum(index, type)
    /\ \E v \in DOMAIN index[type].def.values : value \in {v} \cup index[type].def.values[v]

\* to_type(), to_subscription_type(): what a kept definition, as compress() has it, is registered
\* as; inject_custom_scalars(): and the scalars of its fields, but not of arguments.
BuiltIn == {"Int", "Float", "String", "Boolean", "ID"}
CustomScalars == Predefined \ BuiltIn
Holders == {"object", "interface", "input"}
SchemaTypes(defs, kept, subscription) ==
    LET scalars == CustomScalars \cap UNION {defs[n].fields : n \in {m \in kept : defs[m].kind \in Holders}}
    IN  [n \in kept \cup scalars |->
            IF n \notin kept THEN "scalar"
            ELSE IF defs[n].kind = "object" /\ <<n>> = subscription THEN "subscription" ELSE defs[n].kind]

-----------------------------------------------------------------------------
\* to_definitions(): a definition is [name, kind, fields, implements, members, values], of which
\* a field is [name, type, args], and an enum's values are those of the configuration.
Defining(name, kind, fields, implements, members, values) ==
    [name |-> name, kind |-> kind, fields |-> fields, implements |-> implements, members |-> members, values |-> values]
Bare(config) == [config EXCEPT !.types = [t \in DOMAIN config.types |-> config.types[t].fields]]

\* Mutated form: an interface is an object.
KindOf_Object(config, inputs, name) == IF name \in inputs THEN "input" ELSE "object"
KindOf(config, inputs, name) ==
    IF name \in inputs THEN "input" ELSE IF Declaring(config, name) # {} THEN "interface" ELSE "object"

\* to_fields(), to_input_object_type_definition(): whose fields have no arguments.
DefinedField(field, def, isInput) ==
    [name |-> def.name, type |-> def.type,
     args |-> IF isInput THEN <<>> ELSE [a \in DOMAIN field.args |-> field.args[a].type]]
ToFields(config, type, isInput) ==
    {{DefinedField(type.fields[m[1]], m[2][1], isInput) : m \in all} :
       all \in {made \in {{<<n, ToField(config, type, isInput, n)>> :
                              n \in {m \in DOMAIN type.fields : ~type.fields[m].omit}}} :
                  \A m \in made : m[2] # <<>>}}

\* to_object_type_definition(), to_interface_type_definition(), to_scalar_type_definition()
ObjectOf(name, kind, fields, implements) ==
    SetToSeq({Defining(name, kind, f, IF kind = "input" THEN {} ELSE implements, {}, <<>>) : f \in fields})
TypeDefinition(config, inputs, name) ==
    CASE config.types[name].fields = <<>> /\ name \in Predefined -> <<>>
      [] config.types[name].fields = <<>> /\ name \notin Predefined -> <<Defining(name, "scalar", {}, {}, {}, <<>>)>>
      [] OTHER -> ObjectOf(name, KindOf(config, inputs, name), ToFields(config, config.types[name], name \in inputs),
                           config.types[name].implements)
AllDefinitions(config, types) ==
    {UNION {ToSet(type) : type \in all}
       \cup {Defining(u, "union", {}, {}, config.unions[u], <<>>) : u \in DOMAIN config.unions}
       \cup {Defining(e, "enum", {}, {}, {}, config.enums[e]) : e \in DOMAIN config.enums} :
     all \in {of \in {types} : <<>> \notin of /\ \A e \in DOMAIN config.enums : config.enums[e] # <<>>}}
ToDefinitions(config) ==
    UNION {AllDefinitions(config, {TypeDefinition(config, inputs, n) : n \in DOMAIN config.types}) :
             inputs \in {InputTypes(Bare(config))}}

\* ServiceDocument::from(): what a subgraph says of itself; a subscription's type is no root of it.
ToDefinition(def) == [def EXCEPT !.values = DOMAIN @]
Document(defs, roots) ==
    [roots |-> roots.query \o roots.mutation, definitions |-> {ToDefinition(d) : d \in defs}]

\* to_type(): what the executor knows of it; an interface's fields have no arguments, and it
\* implements nothing.
ToType(def) ==
    IF def.kind # "interface" THEN ToDefinition(def)
    ELSE [def EXCEPT !.implements = {}, !.fields = {[f EXCEPT !.args = <<>>] : f \in @}, !.values = DOMAIN @]

-----------------------------------------------------------------------------
\* Only the first segment of a text is an expression.
RECURSIVE BeginsWithIt(_)
BeginsWithIt(json) ==
    CASE json[1] = "str" -> \A i \in DOMAIN json[2] : i > 1 => json[2][i] = <<>>
      [] json[1] \in {"list", "obj"} -> \A k \in DOMAIN json[2] : BeginsWithIt(json[2][k])
      [] OTHER -> TRUE
\* The places where two values of one shape differ.
RECURSIVE Differing(_, _)
Differing(a, b) ==
    IF a[1] # b[1] THEN 1
    ELSE IF a[1] = "list" THEN FoldLeft(LAMBDA n, i : n + Differing(a[2][i], b[2][i]), 0, [i \in DOMAIN a[2] |-> i])
    ELSE IF a[1] = "obj" THEN FoldLeft(LAMBDA n, k : n + Differing(a[2][k], b[2][k]), 0, SetToSeq(DOMAIN a[2]))
    ELSE IF a = b THEN 0 ELSE 1

\* DynamicValue::prepend(): what a select makes of an answer, it makes of that answer alone;
\* but a text whose later segments are templates reads what they name.
SelectReadsTheAnswer(json, ir, ctx, other) ==
    BeginsWithIt(json) => Eval(ApplySelect(ir, <<json>>)[1], ctx) = Eval(ApplySelect(ir, <<json>>)[1], other)

\* compile_http(): requests of one batch are of the same endpoint but for one parameter, by
\* whose key they are told apart again, or for one place of their body.
Reading(d) == {i \in DOMAIN d.query : d.query[i].value # <<>> /\ "value" \in ToSet(d.query[i].value)}
BatchDiffersOnce(given, d, field, ctx, other) ==
    \A ir \in ToSet(CompileHttp(given, d, field.args, "query")) :
        ir[1] = "io" /\ ir[2].groupBy # <<>> =>
            IF d.body = <<>>
            THEN Cardinality(Reading(d)) = 1 =>
                    \A i \in {j \in DOMAIN d.query : d.query[j].value # <<>>} :
                        Rendered(ctx, d.query[i].value) # Rendered(other, d.query[i].value) =>
                            d.query[i].key = ir[2].groupBy[1].key
            ELSE Differing(RenderValue(ToDynamic(d.body[1]), ctx), RenderValue(ToDynamic(d.body[1]), other)) < 2

\* compile_expr(): a constant is of its field's type.
ConstantFits(given, d, type) ==
    \A ir \in ToSet(CompileExpr(given, d, type)) : IsConst(ir[2]) => Fits(given.config, type, ToConst(ir[2]))

\* MustachePartsValidator: what a field's directives read of its parent is no object, and what
\* their URLs read is there, unless there is a list on the way.
MustRead(d) == IF d.kind \in {"http", "grpc"} THEN d.path ELSE {}
MayRead(d) ==
    CASE d.kind = "http" -> {q.value : q \in ToSet(d.query)}
      [] d.kind = "graphql" -> d.headers \cup d.args
      [] d.kind = "grpc" -> d.headers \cup d.body
TemplatesRenderLeaves(given, directives, type, field, ctx) ==
    FieldResolver(given, directives, type, field, "query") # <<>> =>
        \A d \in ToSet(directives) :
            \A p \in {q \in MustRead(d) \cup MayRead(d) : q # <<>> /\ q[1] = "value"} :
                \/ \E t \in ToSet(Through(given.config, Tail(p), <<"named", "T", TRUE>>)) : IsList(t)
                \/ /\ \A v \in ToSet(Rendered(ctx, p)) : v[1] # "obj"
                   /\ p \in MustRead(d) => Rendered(ctx, p) # <<>>

\* The links a directive may be served by.
Linked(d, links) ==
    LET types == CASE d.kind = "redis" -> {"Redis"} [] d.kind = "s3" -> {"S3"}
                   [] d.kind = "sql" -> IF d.sql.name = "@greptimedb" THEN {"GreptimeDB"} ELSE {"Postgres", "AuroraDsql"}
        db == CASE d.kind = "redis" -> d.redis.db [] d.kind = "s3" -> d.link [] d.kind = "sql" -> d.sql.db
        id(l) == IF l.type = "S3" THEN Settings1!OrElse(l.id, "") ELSE Reader!IdOf(l)
    IN  {l \in ToSet(links) : l.type \in types /\ (db # <<>> => id(l) = db[1])}

\* to_subscription_type(): whatever its directive, a field's subscription opens a stream of its
\* own, of the source its directive names, unless something is made of what it answers.
Streams(d) ==
    CASE d.kind \in {"http", "grpc"} -> d.select = <<>>
      [] d.kind = "graphql" -> TRUE
      [] d.kind = "sql" -> d.sql.op = "Listen"
      [] d.kind = "redis" -> d.redis.op \in {"SUBSCRIBE", "XREAD"}
      [] OTHER -> FALSE
Plain(config, type, field) ==
    /\ field.cache \o type.cache = <<>> /\ ~Protecting(config, type, field)
    /\ Possible(config, Name(field.type)) = {}
    /\ Name(field.type) \in DOMAIN config.enums =>
          \A v \in DOMAIN config.enums[Name(field.type)] : config.enums[Name(field.type)][v] = {}
SubscriptionOpens(given, d, type, field, runtime) ==
    LET own == {l \in Linked(d, given.links) : l.type \in {"Postgres", "Redis"}}
        Opens(opened) ==
            /\ opened # <<>> <=>
                  /\ Streams(d) /\ Plain(given.config, type, field)
                  /\ d.kind \in {"sql", "redis"} => own # {}
            /\ opened # <<>> /\ d.kind \in {"sql", "redis"} => opened[1] \in {l.src : l \in own}
        Open(def) == def # <<>> => Opens(Subscribed(def[1].resolver[1], runtime))
        Of(ir) ==
            ir # <<>> =>
                Open(Completed(given.config, type, field, FALSE, <<[name |-> "f", type |-> field.type, resolver |-> ir]>>))
    IN  Of(FieldResolver(given, <<d>>, type, field, "subscription"))

\* compile_postgres(), compile_redis(), compile_s3(), eval_io_inner(): a field that is accepted asks
\* the client of the one link that may serve it; without one its requests fail, and an @s3 field
\* that names none of several asks any of them.
AsksItsClient(given, d, field, runtime, value) ==
    \A ir \in ToSet(CompileDirective(given, d, field, "query")) :
        LET asked == EvalIo(ir[2], runtime, given.script, value)
            may == Linked(d, given.links)
        IN  CASE d.kind \in {"sql", "redis"} ->
                    IF may = {} THEN asked = {<<>>} ELSE \E l \in may : asked = {<<[type |-> l.type, url |-> l.src]>>}
              [] d.kind = "s3" ->
                    IF d.bucket = "" \/ may = {} THEN asked = {<<>>}
                    ELSE asked \subseteq {<<l.src>> : l \in may}
              [] OTHER -> TRUE

\* update_federation(): it keeps a server from starting, or each field of the query type is as it
\* was but for those of the federation, of which an entity's types are asked each as its
\* directive says, and one _service has the whole document.
FederatedAsMeant(given, config, fields) ==
    LET own(f) == Federation(config[f.name])
        Refused(f) ==
            \/ f.name \notin DOMAIN config
            \/ own(f) # <<>> /\ own(f)[1].kind = "entity" /\ CompileEntity(given, own(f)[1].byType) = <<>>
        Served1(is, i) ==
            LET f == fields[i]
                first == \A j \in 1..i - 1 : own(fields[j]) = <<>> \/ own(fields[j])[1].kind # "service"
            IN  /\ is.name = f.name
                /\ own(f) = <<>> => is = f
                /\ own(f) # <<>> /\ own(f)[1].kind = "entity" =>
                      \A t \in DOMAIN own(f)[1].byType :
                          own(f)[1].byType[t].kind # "entity" =>
                              is.resolver[1][2][t] \in
                                  ToSet(CompileDirective(given, own(f)[1].byType[t],
                                            [type |-> <<"named", t, FALSE>>, args |-> <<>>], "query"))
                /\ own(f) # <<>> /\ own(f)[1].kind = "service" =>
                      (is.resolver = << <<"service", "document">> >> <=> first)
        Meant(of) ==
            IF of = <<>> THEN \E f \in ToSet(fields) : Refused(f)
            ELSE Len(of[1]) = Len(fields) /\ \A i \in DOMAIN fields : Served1(of[1][i], i)
    IN  Meant(Federated(given, TRUE, config, fields))

\* Index, SchemaBuilder::from(), MapEnum: what the executor takes for a value of an enum is what
\* the map of its aliases knows; and whatever a kept field names is registered, once.
EnumsAgree(defs, enum, v) ==
    ValidateEnumValue(IndexOf(defs), enum, v)
        <=> IsKind(IndexOf(defs), enum, "enum") /\ MapEnum(<<"str", v>>, AliasMap(ByName(defs)[enum].values)) # <<>>

\* SchemaBuilder::from(), compress(): whatever type a field has is known to the schema.
FieldTypesRegistered(defs, query, mutation, subscription) ==
    LET kept == Compress(defs, query, mutation)
    IN  \A n \in kept :
            defs[n].kind \in Holders =>
                defs[n].fields \cap (DOMAIN defs \cup CustomScalars)
                    \subseteq DOMAIN SchemaTypes(defs, kept, subscription)
\* to_definitions(), input_types(), interfaces_types_map(): an argument is of a type that may come
\* in and a field of one that may go out, and a value that an interface stands for is an object;
\* where no type, with what implements it, is of both sides, and no argument is of a union.
DefinedAsUsed(config, defs, inputs, outputs) ==
    LET Kinds(type) == {d.kind : d \in {e \in defs : e.name = Name(type)}}
        In == {"input", "scalar", "enum"}
        Whole(n) == {n} \cup Implementing(config, n) \cup UNION {config.types[t].implements : t \in {n} \cap DOMAIN config.types}
    IN  inputs \cap (DOMAIN config.unions \cup UNION {Whole(n) : n \in outputs}) = {} /\ (\A n \in inputs : Whole(n) = {n}) =>
        \A d \in defs :
            /\ d.name \in outputs => \A f \in d.fields :
                  Kinds(f.type) \cap {"input"} = {} /\ \A a \in DOMAIN f.args : Kinds(f.args[a]) \subseteq In
            /\ d.kind = "input" => \A f \in d.fields : Kinds(f.type) \subseteq In
            /\ \A i \in d.implements : Kinds(<<"named", i, FALSE>>) \subseteq {"interface"}
            /\ d.kind = "interface" =>
                  Implementing(config, d.name) # {}
                  /\ \A t \in Implementing(config, d.name) : Kinds(<<"named", t, FALSE>>) = {"object"}

\* ServiceDocument::from(), to_type(): the document names every type, union and enum and every
\* field that is not omitted by the name that it is served under, and says of each what the
\* executor knows of it, but that of an interface it knows less.
DocumentIsServed(config, defs) ==
    LET of == Document(defs, config.roots)
        Shown(n, f) == IF f.omit THEN {} ELSE IF f.modify = <<>> THEN {n} ELSE {f.modify[1]}
        Names1(type) == UNION {Shown(n, type.fields[n]) : n \in DOMAIN type.fields}
    IN  /\ {d.name : d \in of.definitions} = DOMAIN config.types \cup DOMAIN config.unions \cup DOMAIN config.enums
        /\ \A d \in of.definitions :
              d.name \in DOMAIN config.types => {f.name : f \in d.fields} = Names1(config.types[d.name])
        /\ \A d \in defs : d.kind # "interface" => ToType(d) \in of.definitions
        /\ ToSet(of.roots) \subseteq ToSet(config.roots.query \o config.roots.mutation)

Defines(config) ==
    \A defs \in ToDefinitions(config) :
        /\ \A inputs \in {InputTypes(Bare(config))} : \A outputs \in {OutputTypes(Bare(config))} :
              DefinedAsUsed(config, defs, inputs, outputs)
        /\ DocumentIsServed(config, defs)
=============================================================================
