------------------------------ MODULE Protobuf ------------------------------
(***************************************************************************)
(* What gRPC methods take and answer, against what the schema says of them: *)
(* JSON schemas of messages and of fields (json_schema.rs, from_config.rs), *)
(* the checks of @grpc and of constant @expr (blueprint/operators),         *)
(* arguments made messages (grpc/protobuf.rs), the schema generated from a  *)
(* .proto file (generator/from_proto.rs), and its imports (proto_reader).   *)
(*                                                                         *)
(* A pool is [proto3, messages, enums]; a message is [fields, map] and a    *)
(* field [name, kind, label, oneof, explicit, type], with oneof 0 for none. *)
(* Names of types are sequences of segments.  A JSON value is <<"null">>,   *)
(* <<"num", n>>, <<"str", s>>, <<"bool", b>>, <<"list", s>> or <<"obj", f>>.*)
(***************************************************************************)
EXTENDS Naturals, Sequences, SequencesExt, FiniteSetsExt

Null == <<"null">>
Timestamp == <<"google", "protobuf", "Timestamp">>
Empty == <<"google", "protobuf", "Empty">>
NamesOf(fields) == {fields[i].name : i \in DOMAIN fields}
Field(fields, name) == fields[CHOOSE i \in DOMAIN fields : fields[i].name = name]
Numeric == {"int32", "int64", "float"}

-----------------------------------------------------------------------------
\* JsonSchema::validate(): whatever an enum is given is taken.
RECURSIVE Validates(_, _)
Validates(schema, v) ==
    CASE schema[1] = "str" -> v[1] = "str"
      [] schema[1] = "num" -> v[1] = "num"
      [] schema[1] = "bool" -> v[1] = "bool"
      [] schema[1] = "empty" -> v = Null \/ (v[1] = "obj" /\ DOMAIN v[2] = {})
      [] schema[1] = "arr" -> v[1] = "list" /\ \A i \in DOMAIN v[2] : Validates(schema[2], v[2][i])
      [] schema[1] = "obj" ->
            /\ v[1] = "obj"
            /\ \A n \in DOMAIN schema[2] :
                  IF n \in DOMAIN v[2] THEN Validates(schema[2][n], v[2][n]) ELSE schema[2][n][1] = "opt"
      [] schema[1] = "opt" -> v = Null \/ Validates(schema[2], v)
      [] OTHER -> TRUE

\* JsonSchema::is_a()
\* Mutated form: what may be absent passes for what may not.
IsAOpt_Unwrapped(sub, super) == TRUE
IsAOpt(sub, super) == super[1] = "opt"

RECURSIVE IsA(_, _)
IsA(sub, super) ==
    CASE super[1] = "any" -> TRUE
      [] sub[1] = "opt" -> IsAOpt(sub, super) /\ IsA(sub[2], IF super[1] = "opt" THEN super[2] ELSE super)
      [] super[1] = "obj" ->
            sub[1] = "obj" /\ \A n \in DOMAIN super[2] : n \in DOMAIN sub[2] /\ IsA(sub[2][n], super[2][n])
      [] super[1] = "arr" -> sub[1] = "arr" /\ IsA(sub[2], super[2])
      [] super[1] = "opt" -> IsA(sub, super[2])
      [] OTHER -> sub = super

\* What is said to be a subtype has no value that the other has not.  Excluded is a custom
\* scalar that a field must have: an answer that may lack the field is a subtype of it.
RECURSIVE LacksNothing(_)
LacksNothing(schema) ==
    CASE schema[1] = "obj" -> \A n \in DOMAIN schema[2] : schema[2][n] # <<"any">> /\ LacksNothing(schema[2][n])
      [] schema[1] \in {"arr", "opt"} -> LacksNothing(schema[2])
      [] OTHER -> TRUE
SubtypeIsSound(sub, super, v) ==
    LacksNothing(super) /\ IsA(sub, super) /\ Validates(sub, v) => Validates(super, v)

-----------------------------------------------------------------------------
\* prost-reflect: is_map(), supports_presence()
IsMap(pool, f) == f.label = "repeated" /\ f.kind = "message" /\ pool.messages[f.type].map
HasPresence(pool, f) ==
    f.label # "repeated" /\ (~pool.proto3 \/ f.kind = "message" \/ f.oneof # 0)

\* TryFrom<&FieldDescriptor>, TryFrom<&MessageDescriptor>
\* Mutated form: a field whose absence is told is taken for one that is there.
FieldPresent_Always(pool, f, schema) == schema
FieldPresent(pool, f, schema) ==
    IF HasPresence(pool, f) /\ f.label # "required" THEN <<"opt", schema>> ELSE schema

RECURSIVE MessageSchema(_, _)
KindSchema(pool, f) ==
    CASE f.kind \in Numeric -> <<"num">>
      [] f.kind \in {"string", "bytes"} -> <<"str">>
      [] f.kind = "enum" -> <<"enum", ToSet(pool.enums[f.type])>>
      [] f.kind = "message" -> MessageSchema(pool, f.type)
      [] OTHER -> <<f.kind>>
FieldSchema(pool, f) ==
    IF f.label = "repeated" /\ ~IsMap(pool, f) THEN <<"arr", FieldPresent(pool, f, KindSchema(pool, f))>>
    ELSE FieldPresent(pool, f, KindSchema(pool, f))
MessageSchema(pool, m) ==
    IF pool.messages[m].map THEN <<"any">>
    ELSE IF pool.messages[m].fields = <<>> THEN <<"empty">>
    ELSE <<"obj", [n \in NamesOf(pool.messages[m].fields) |-> FieldSchema(pool, Field(pool.messages[m].fields, n))]>>

\* to_json_schema(), from_scalar_type(); config is [types, enums].
RECURSIVE ToJsonSchema(_, _)
NamedSchema(config, name) ==
    CASE name \in DOMAIN config.types ->
            <<"obj", [f \in DOMAIN config.types[name] |-> ToJsonSchema(config, config.types[name][f])]>>
      [] name \in DOMAIN config.enums -> <<"enum", config.enums[name]>>
      [] name = <<"String">> -> <<"str">> [] name = <<"Int">> -> <<"num">>
      [] name = <<"Boolean">> -> <<"bool">> [] name = <<"Empty">> -> <<"empty">>
      [] OTHER -> <<"any">>
ToJsonSchema(config, type) ==
    LET schema == IF type[1] = "list" THEN <<"arr", ToJsonSchema(config, type[2])>>
                  ELSE NamedSchema(config, type[2])
    IN  IF type[3] THEN schema ELSE <<"opt", schema>>

\* convert_output(): prost's JSON of a message, in which set holds the fields that are set.
\* What has no presence is there with its default, and 64 bits are text.
Default(pool, f) ==
    CASE IsMap(pool, f) -> <<"obj", <<>> >>
      [] f.label = "repeated" -> <<"list", <<>> >>
      [] f.kind = "int64" -> <<"str", "0">>
      [] f.kind \in Numeric -> <<"num", 0>>
      [] f.kind = "bool" -> <<"bool", FALSE>>
      [] f.kind = "enum" -> <<"str", pool.enums[f.type][1]>>
      [] OTHER -> <<"str", "">>
RECURSIVE Json(_, _, _)
ValueJson(pool, f, v) ==
    CASE f.kind = "message" -> IF f.type = Timestamp THEN <<"str", "1970">> ELSE Json(pool, f.type, v)
      [] f.kind = "int64" -> <<"str", ToString(v)>>
      [] f.kind \in Numeric -> <<"num", v>>
      [] f.kind = "bool" -> <<"bool", v>>
      [] OTHER -> <<"str", v>>
FieldJson(pool, f, v) ==
    CASE IsMap(pool, f) -> <<"obj", [k \in DOMAIN v |-> <<"str", v[k]>>]>>
      [] f.label = "repeated" -> <<"list", [i \in DOMAIN v |-> ValueJson(pool, f, v[i])]>>
      [] OTHER -> ValueJson(pool, f, v)
Json(pool, m, set) ==
    LET fields == pool.messages[m].fields
        told == {n \in NamesOf(fields) : n \in DOMAIN set \/ ~HasPresence(pool, Field(fields, n))}
    IN  <<"obj", [n \in told |-> IF n \in DOMAIN set THEN FieldJson(pool, Field(fields, n), set[n])
                                 ELSE Default(pool, Field(fields, n))]>>

\* validate_schema(), validate_group_by(): of the items before the last, only the last is looked up.
Accepted(pool, out, schema, groupBy) ==
    LET fields == pool.messages[out].fields
        by == IF Len(groupBy) > 1 THEN groupBy[Len(groupBy) - 1] ELSE ""
    IN  IF groupBy = <<>> THEN IsA(MessageSchema(pool, out), schema)
        ELSE by \in NamesOf(fields) /\ IsA(FieldSchema(pool, Field(fields, by)), <<"arr", schema>>)

\* What is accepted at start-up as the answer to a field is an answer that the field's type
\* has room for: of the whole message, or of the items among which each request finds its
\* own.  A number of 64 bits is text, so the schema's "number" is not what the message says;
\* so is a time.
RECURSIVE SaysItself(_, _)
SaysItself(pool, m) ==
    \A i \in DOMAIN pool.messages[m].fields :
        LET f == pool.messages[m].fields[i]
        IN  f.kind # "int64" /\ f.type # Timestamp /\ (f.kind = "message" => SaysItself(pool, f.type))
AcceptedAnswerFits(pool, out, schema, groupBy, set) ==
    Accepted(pool, out, schema, groupBy) /\ SaysItself(pool, out) /\ LacksNothing(schema)
    => IF groupBy = <<>> THEN Validates(schema, Json(pool, out, set))
       ELSE LET items == Json(pool, out, set)[2][groupBy[1]][2]
            IN  \A i \in DOMAIN items : Validates(schema, items[i])

-----------------------------------------------------------------------------
\* coerce_json_value(): text that stands for a bool is one, and an empty one is left out.
RECURSIVE CoerceMessage(_, _, _)
\* Mutated form: only a message's own fields are looked at.
CoerceKind_Flat(pool, f, v) ==
    IF f.kind = "bool" /\ v[1] = "str"
    THEN CASE v[2] = "true" -> << <<"bool", TRUE>> >> [] v[2] = "false" -> << <<"bool", FALSE>> >>
           [] v[2] = "" -> <<>> [] OTHER -> <<v>>
    ELSE <<v>>
CoerceKind(pool, f, v) ==
    IF f.kind = "bool" /\ v[1] = "str"
    THEN CASE v[2] = "true" -> << <<"bool", TRUE>> >> [] v[2] = "false" -> << <<"bool", FALSE>> >>
           [] v[2] = "" -> <<>> [] OTHER -> <<v>>
    ELSE IF f.kind = "message" THEN <<CoerceMessage(pool, f.type, v)>> ELSE <<v>>
CoerceField(pool, f, v) ==
    IF f.label = "repeated" /\ v[1] = "list"
    THEN << <<"list", FlattenSeq([i \in DOMAIN v[2] |-> CoerceKind(pool, f, v[2][i])])>> >>
    ELSE CoerceKind(pool, f, v)
CoerceMessage(pool, m, v) ==
    IF v[1] # "obj" THEN v
    ELSE LET fields == pool.messages[m].fields
             of(n) == IF n \in NamesOf(fields) THEN CoerceField(pool, Field(fields, n), v[2][n]) ELSE <<v[2][n]>>
         IN  <<"obj", [n \in {k \in DOMAIN v[2] : of(k) # <<>>} |-> of(n)[1]]>>

\* DynamicMessage::deserialize(), as canonical JSON has it: the fields set, or an error.
RECURSIVE Deserialized(_, _, _)
KindRead(pool, f, v) ==
    CASE f.kind = "bool" -> IF v[1] = "bool" THEN <<v[2]>> ELSE <<>>
      [] f.kind \in Numeric ->
            IF v[1] = "num" THEN <<v[2]>>
            ELSE IF v[1] = "str" /\ v[2] \in {"0", "1"} THEN <<IF v[2] = "0" THEN 0 ELSE 1>> ELSE <<>>
      [] f.kind = "message" -> Deserialized(pool, f.type, v)
      [] OTHER -> IF v[1] = "str" THEN <<v[2]>> ELSE <<>>
FieldRead(pool, f, v) ==
    IF f.label # "repeated" THEN KindRead(pool, f, v)
    ELSE IF v[1] # "list" \/ \E i \in DOMAIN v[2] : KindRead(pool, f, v[2][i]) = <<>> THEN <<>>
    ELSE <<[i \in DOMAIN v[2] |-> KindRead(pool, f, v[2][i])[1]]>>
Deserialized(pool, m, v) ==
    LET fields == pool.messages[m].fields
        given == {n \in DOMAIN v[2] : v[2][n] # Null}
    IN  IF v[1] # "obj" THEN <<>>
        ELSE IF \E n \in given : n \notin NamesOf(fields) \/ FieldRead(pool, Field(fields, n), v[2][n]) = <<>>
        THEN <<>>
        ELSE <<[n \in given |-> FieldRead(pool, Field(fields, n), v[2][n])[1]]>>

\* to_message()
ToMessage(pool, m, v) == Deserialized(pool, m, CoerceMessage(pool, m, v))

\* A template renders each argument as text, and one that is not given as nothing.
RECURSIVE AsText(_)
AsText(v) ==
    CASE v = Null -> <<"str", "">>
      [] v[1] = "num" -> <<"str", ToString(v[2])>>
      [] v[1] = "bool" -> <<"str", IF v[2] THEN "true" ELSE "false">>
      [] v[1] \in {"list", "obj"} -> <<v[1], [k \in DOMAIN v[2] |-> AsText(v[2][k])]>>
      [] OTHER -> v

\* The message of rendered arguments is the one of the arguments themselves: at any depth, in
\* lists, and with an argument that is not given left unset, of which only a bool can say so.
CoercedIsMeant(pool, m, v) ==
    Deserialized(pool, m, v) # <<>> => ToMessage(pool, m, AsText(v)) = Deserialized(pool, m, v)

-----------------------------------------------------------------------------
\* protobuf_value_as_str() of a key sent, and group_by_key() of one in an answer.
AsStr(kind, v) == CASE kind \in Numeric -> ToString(v) [] kind = "string" -> v [] OTHER -> ""
KeyOf(json) == CASE json[1] = "str" -> <<json[2]>> [] json[1] = "num" -> <<ToString(json[2])>> [] OTHER -> <<>>

\* convert_multiple_inputs() and load_with_group_by(): the list field gets all children, and
\* each of them the first item of the answer with its key, or null.
ListField(pool, m) ==
    LET lists == SelectSeq(pool.messages[m].fields, LAMBDA f : f.label = "repeated" /\ ~IsMap(pool, f))
    IN  IF lists = <<>> \/ lists[1].kind # "message" THEN <<>> ELSE <<lists[1]>>
\* Mutated form: answers are taken in the order in which they come.
Own_InOrder(items, key, i) == IF i \in DOMAIN items THEN items[i] ELSE Null
Own(items, key, i) ==
    LET hits == {j \in DOMAIN items : "id" \in DOMAIN items[j][2] /\ KeyOf(items[j][2]["id"]) = <<key>>}
    IN  IF hits = {} THEN Null ELSE items[Min(hits)]
GroupedGrpc(pool, op, children, answer) ==
    LET list == ListField(pool, op.input)
        fields == pool.messages[list[1].type].fields
        key(c) == IF "id" \in DOMAIN c THEN c["id"] ELSE 0
        items == Json(pool, op.output, answer)[2]["items"][2]
    IN  IF list = <<>> \/ "id" \notin NamesOf(fields) THEN <<>>
        ELSE [i \in DOMAIN children |-> Own(items, AsStr(Field(fields, "id").kind, key(children[i])), i)]

\* A request that was sent with others is answered with the first item that has its id.
GroupedIsOwn(pool, op, children, answer) ==
    LET results == GroupedGrpc(pool, op, children, answer)
        id(m) == IF "id" \in DOMAIN m THEN m["id"] ELSE 0
        mine(i) == SelectSeq(answer["items"], LAMBDA m : id(m) = id(children[i]))
    IN  results # <<>> =>
        \A i \in DOMAIN children :
            results[i] = IF mine(i) = <<>> THEN Null
                         ELSE ValueJson(pool, Field(pool.messages[op.output].fields, "items"), mine(i)[1])
-----------------------------------------------------------------------------
\* from_proto(): append_msg_type(), the type of a field.  A map's entry was seen before.
ScalarName(kind) ==
    CASE kind = "int32" -> <<"Int">> [] kind = "int64" -> <<"Int64">> [] kind = "float" -> <<"Float">>
      [] kind = "bool" -> <<"Boolean">> [] kind = "bytes" -> <<"Bytes">> [] OTHER -> <<"String">>
TypeRef(f) ==
    IF f.type = Timestamp THEN <<"DateTime">> ELSE IF f.kind \in {"message", "enum"} THEN f.type ELSE ScalarName(f.kind)
\* Mutated form: every single field of a proto3 file is there.
AlwaysThere_AnyKind(pool, f) == f.label = "required" \/ (pool.proto3 /\ ~f.explicit)
AlwaysThere(pool, f) ==
    f.label = "required" \/ (pool.proto3 /\ ~f.explicit /\ f.kind # "message")
GeneratedType(pool, f) ==
    IF IsMap(pool, f) THEN <<"named", <<"JSON">>, FALSE>>
    ELSE IF f.label = "repeated" THEN <<"list", <<"named", TypeRef(f), TRUE>>, TRUE>>
    ELSE <<"named", TypeRef(f), AlwaysThere(pool, f)>>

\* insert_oneofs(), collect_types(): one after another, each of the oneofs that are left.
With(type, name, of) == [n \in DOMAIN type \cup {name} |-> IF n = name THEN of ELSE type[n]]
Required(type) == <<type[1], type[2], TRUE>>
\* Mutated form: there is no type for a oneof of which nothing is set.
NoneSet_Never(name, base) == <<>>
NoneSet(name, base) == << <<Append(name, "Var"), base>> >>
Chosen(pool, name, base, oneof) ==
    IF Len(oneof) = 1
    THEN << <<Append(name, "Var"), With(base, oneof[1].name, GeneratedType(pool, oneof[1]))>> >>
    ELSE NoneSet(name, base)
         \o [i \in DOMAIN oneof |->
               <<Append(name, "Var" \o ToString(i - 1)),
                 With(base, oneof[i].name, Required(GeneratedType(pool, oneof[i])))>>]
CollectTypes(pool, name, base, oneofs) ==
    FoldLeft(LAMBDA types, oneof :
               FlattenSeq([i \in DOMAIN types |-> Chosen(pool, types[i][1], types[i][2], oneof)]),
             << <<name, base>> >>, oneofs)
Oneofs(pool, m) ==
    LET fields == pool.messages[m].fields
        last == Max({fields[i].oneof : i \in DOMAIN fields} \cup {0})
    IN  [k \in 1..last |-> SelectSeq(fields, LAMBDA f : f.oneof = k)]
BaseType(pool, m) ==
    LET base == SelectSeq(pool.messages[m].fields, LAMBDA f : f.oneof = 0)
    IN  [n \in NamesOf(base) |-> GeneratedType(pool, Field(base, n))]
Variants(pool, m) == CollectTypes(pool, m, BaseType(pool, m), Oneofs(pool, m))

\* What messages become: types, or several and a union of them.
AsType(pool, m) == Len(Variants(pool, m)) = 1
Generated(pool) ==
    LET own == {m \in DOMAIN pool.messages : ~pool.messages[m].map /\ AsType(pool, m)}
    IN  [types |-> [m \in own |-> Variants(pool, m)[1][2]],
         unions |-> [m \in {n \in DOMAIN pool.messages : ~pool.messages[n].map} \ own |-> ToSet(Variants(pool, m))],
         enums |-> [e \in DOMAIN pool.enums |-> ToSet(pool.enums[e])]]

\* append_query_service(): a method is [name, input, output, client, server].
OutputType(method) ==
    <<"named", IF method.output = Empty THEN <<"Empty">>
               ELSE IF method.output = Timestamp THEN <<"DateTime">> ELSE method.output, FALSE>>
\* Mutated form: Empty is an argument as any other.
InputTypes_Empty(method) == {<<"named", method.input, TRUE>>}
InputTypes(method) == IF method.input = Empty THEN {} ELSE {<<"named", method.input, TRUE>>}
RootOf(method) == IF method.server THEN "Subscription" ELSE "Query"
ServiceFields(methods) ==
    {[root |-> RootOf(m), name |-> m.name, type |-> OutputType(m), args |-> InputTypes(m)] :
        m \in {methods[i] : i \in {j \in DOMAIN methods : ~methods[j].client}}}

\* Every answer of a message with oneofs is of exactly one type of its union, which has the
\* fields that are set and asks for no other.
OneofsAreTold(pool, m, set) ==
    LET oneof == {f \in ToSet(pool.messages[m].fields) : f.oneof # 0}
        told == {f.name : f \in {g \in oneof : g.name \in set}}
        asks(type) == {n \in DOMAIN type \cap {f.name : f \in oneof} : type[n][3]}
    IN  Cardinality(told) = Cardinality({f.oneof : f \in {g \in oneof : g.name \in set}})
        => Cardinality({v \in ToSet(Variants(pool, m)) : told \subseteq DOMAIN v[2] /\ asks(v[2]) \subseteq told}) = 1

\* What is generated from a file is accepted with that file: each method's field has a type
\* that its method's answer fits, and what it and its arguments name is there.  Excluded are
\* fields of messages without fields, whose schema is not that of their type, and the only
\* scalar of a oneof in proto3, which is taken for one that is always set.
Plainly(pool) ==
    \A m \in DOMAIN pool.messages :
        /\ \A f \in ToSet(pool.messages[m].fields) :
              f.kind = "message" => pool.messages[f.type].fields # <<>>
        /\ \A k \in DOMAIN Oneofs(pool, m) :
              LET oneof == Oneofs(pool, m)[k]
              IN  Len(oneof) = 1 => ~AlwaysThere(pool, oneof[1])
GeneratedIsAccepted(pool, methods) ==
    LET config == Generated(pool)
        known == DOMAIN config.types \cup DOMAIN config.unions \cup DOMAIN config.enums
        there(type) == type[1] = "named" /\ Len(type[2]) > 1 => type[2] \in known \ {Empty}
    IN  Plainly(pool) =>
        /\ \A i \in DOMAIN methods : ~methods[i].client =>
              \E f \in ServiceFields(methods) :
                  /\ f.name = methods[i].name
                  /\ IsA(MessageSchema(pool, methods[i].output), ToJsonSchema(config, f.type))
        /\ \A f \in ServiceFields(methods) : there(f.type) /\ \A a \in f.args : there(a)
        /\ \A t \in DOMAIN config.types : \A n \in DOMAIN config.types[t] : there(config.types[t][n])

-----------------------------------------------------------------------------
\* resolve_dependencies(): files is a function from a name to [deps, ok]; the answers to a
\* file's imports come together, and what is known already is not followed again.
RECURSIVE Resolve(_, _, _)
\* Mutated form: the imports of an import are not followed.
Follow_Once(queue, new) == queue
Follow(queue, new) == queue \o new
NewOf(files, name, known) == SelectSeq(files[name].deps, LAMBDA d : d \notin known)
Resolve(files, queue, known) ==
    IF queue = <<>> THEN <<known>>
    ELSE IF \E i \in DOMAIN files[queue[1]].deps : ~files[files[queue[1]].deps[i]].ok THEN <<>>
    ELSE Resolve(files, Follow(Tail(queue), NewOf(files, queue[1], known)),
                 known \cup ToSet(files[queue[1]].deps))
\* read(), check_package(): of what is imported no package is asked.
Closed(files, name) ==
    IF ~files[name].package THEN <<>>
    ELSE LET found == Resolve(files, <<name>>, {})
         IN  IF found = <<>> THEN <<>> ELSE <<found[1] \cup {name}>>
ReadProto(files, name) == IF files[name].ok THEN Closed(files, name) ELSE <<>>

\* execute(): an answer is [reached, http, grpc, body], of which grpc is <<>>, <<"num", code>> or
\* <<"text">>, and body <<>> if it is no ReflectionResponse, or <<[services, protos]>>.
\* Mutated form: the status of gRPC is not looked at.
Execute_Http(answer) == IF answer.reached /\ answer.http \in 200..299 THEN answer.body ELSE <<>>
GrpcStatus(answer) == IF answer.grpc # <<>> /\ answer.grpc[1] = "num" THEN answer.grpc[2] ELSE 0
Execute(answer) ==
    IF answer.reached /\ answer.http \in 200..299 /\ GrpcStatus(answer) = 0 THEN answer.body ELSE <<>>

\* list_all_files(); request_proto(), get(): the first descriptor, [file, ok] where it may not decode.
ListAllFiles(answer) == LET of == Execute(answer) IN IF of = <<>> THEN <<>> ELSE of[1].services
RequestProto(answer) ==
    LET of == Execute(answer)
    IN  IF of = <<>> \/ of[1].protos \in {<<>>, << <<>> >>} THEN <<>>
        ELSE IF of[1].protos[1][1].ok THEN <<of[1].protos[1][1].file>> ELSE <<>>

\* fetch(): reflection, in the older version when the newer does not list; a server is [v1, v1alpha,
\* symbols, names, files]: what it answers to each version, for a service and for a file.
Listed(server) ==
    IF ListAllFiles(server.v1) # <<>> THEN ListAllFiles(server.v1) ELSE ListAllFiles(server.v1alpha)
\* reflection_resolve()
Reflected(server) ==
    [f \in DOMAIN server.files |->
        [deps |-> server.files[f].deps, package |-> server.files[f].package,
         ok |-> RequestProto(server.names[f]) = <<f>>]]
GetByService(server, service) ==
    LET file == RequestProto(server.symbols[service])
    IN  IF file = <<>> THEN <<>> ELSE Closed(Reflected(server), file[1])
\* Mutated form: what fails to resolve is left out.
Fetched_Partial(server, services) ==
    <<UNION {UNION ToSet(GetByService(server, services[i])) : i \in DOMAIN services}>>
Fetched(server, services) ==
    LET sets == [i \in DOMAIN services |-> GetByService(server, services[i])]
    IN  IF \E i \in DOMAIN sets : sets[i] = <<>> THEN <<>>
        ELSE <<UNION {sets[i][1] : i \in DOMAIN sets}>>
Fetch(server) ==
    IF Listed(server) = <<>> THEN <<>>
    ELSE Fetched(server, SelectSeq(Listed(server)[1], LAMBDA s : s # "ServerReflection"))

\* resolve_path(): a path is <<directory, name>>, with "" for a relative one; disk, what is there of
\* the file system.
\* Mutated form: the directories of protos are not looked at.
ResolvePath_NoProtoPaths(src, root, protoPaths, disk) == IF src[1] # "" THEN src ELSE <<root, src[2]>>
ResolvePath(src, root, protoPaths, disk) ==
    LET there == SelectSeq(protoPaths, LAMBDA p : <<p, src[2]>> \in disk)
    IN  IF src[1] # "" THEN src ELSE IF there # <<>> THEN <<there[1], src[2]>> ELSE <<root, src[2]>>

\* read_proto(), file_resolve(): Google's own files are known, and an import is looked for where
\* the linked file is, whichever file it is of.
Opened(world, path) ==
    IF path \in DOMAIN world.files THEN world.files[path] @@ [ok |-> TRUE] ELSE [deps |-> <<>>, ok |-> FALSE, package |-> FALSE]
FileResolve(world, link, protoPaths) ==
    [src \in {link} \cup UNION {ToSet(world.files[f].deps) : f \in DOMAIN world.files} |->
        IF src[2] \in world.google THEN [deps |-> <<>>, ok |-> TRUE, package |-> TRUE]
        ELSE IF src = link THEN Opened(world, src)
        ELSE Opened(world, ResolvePath(src, link[1], protoPaths, world.disk))]
Read(world, link, protoPaths) == ReadProto(FileResolve(world, link, protoPaths), link)

\* What is read of a server is enough to build the pool of its descriptors: every service that
\* it lists is in it with all that it imports, however deep, in a circle or shared; or the
\* whole of it fails.
RECURSIVE Below(_, _)
Below(files, names) ==
    LET more == names \cup UNION {ToSet(files[n].deps) : n \in names}
    IN  IF more = names THEN names ELSE Below(files, more)
Answers(answer) ==
    /\ answer.reached /\ answer.http = 200 /\ answer.body # <<>>
    /\ answer.grpc = <<>> \/ answer.grpc[1] = "text" \/ answer.grpc[2] = 0
Names(answer, file) == Answers(answer) /\ answer.body[1].protos # <<>> /\ answer.body[1].protos[1] # <<>>
                       /\ answer.body[1].protos[1][1] = [file |-> file, ok |-> TRUE]
Lists(answer) == Answers(answer) /\ answer.body[1].services # <<>>
FetchedIsClosed(server) ==
    LET services == IF Lists(server.v1) THEN ToSet(server.v1.body[1].services[1])
                    ELSE IF Lists(server.v1alpha) THEN ToSet(server.v1alpha.body[1].services[1]) ELSE {}
        wanted == services \ {"ServerReflection"}
        of(s) == {f \in DOMAIN server.files : Names(server.symbols[s], f)}
        first == UNION {of(s) : s \in wanted}
        all == Below(server.files, first)
        good == (Lists(server.v1) \/ Lists(server.v1alpha)) /\ (\A s \in wanted : of(s) # {})
                /\ (\A n \in UNION {ToSet(server.files[f].deps) : f \in all} : Names(server.names[n], n))
                /\ \A f \in first : server.files[f].package
    IN  Fetch(server) = IF good THEN <<all>> ELSE <<>>

\* Of a link: itself and what it leads to, each import the first that is there of the link's
\* directories of protos, or else of the one that it is in itself; or nothing, if one is missing.
ImportsAreFound(world, link, protoPaths) ==
    LET dirs == protoPaths \o <<link[1]>>
        first(name) == SelectInSeq(dirs, LAMBDA d : <<d, name>> \in world.disk)
        place(src) ==
            IF src = link \/ src[1] # "" THEN src
            ELSE <<IF first(src[2]) = 0 THEN link[1] ELSE dirs[first(src[2])], src[2]>>
        srcs == {link} \cup UNION {ToSet(world.files[f].deps) : f \in DOMAIN world.files}
        found(src) == src[2] \in world.google \/ place(src) \in DOMAIN world.files
        all == Below([src \in srcs |-> [deps |-> IF src[2] \in world.google \/ ~found(src) THEN <<>>
                                                 ELSE world.files[place(src)].deps]], {link})
    IN  Read(world, link, protoPaths) =
            IF (\A src \in all : found(src)) /\ world.files[link].package THEN <<all>> ELSE <<>>
=============================================================================
