---------------------------- MODULE JitResponse ----------------------------
(***************************************************************************)
(* How a plan is executed and its response put together: the results of a *)
(* field are kept in a store under the field, nested in lists of the shape *)
(* of its parents (src/core/jit/exec.rs, exec_const.rs, store.rs), and are *)
(* found again by the path of indexes walked so far (synth/synth.rs).      *)
(*                                                                         *)
(* A value is <<"null">>, <<"leaf", x>>, <<"list", values>> or <<"object", *)
(* pairs>>; a result is <<value>>, or <<>> for an error.  A field is a     *)
(* record: its type is list or not, list and element nullable or not; kind *)
(* is "leaf", "enum", "json" or "object"; on, the type it is selected on. *)
(***************************************************************************)
EXTENDS Naturals, FiniteSets, SequencesExt

CONSTANTS Resolve(_, _),       \* (resolver, value of the parent) -> result
          Implements(_, _)     \* Index::is_type_implements()

Null == <<"null">>
IsList(v) == v[1] = "list"

\* get_key(): the values of the key, none or one.
Get(v, key) ==
    IF v[1] # "object" THEN <<>>
    ELSE LET pairs == SelectSeq(v[2], LAMBDA p : p[1] = key)
         IN  IF pairs = <<>> THEN <<>> ELSE <<pairs[1][2]>>

\* An array of results is a result if all of them are.
Gathered(results) ==
    IF \E i \in DOMAIN results : results[i] = <<>> THEN <<>>
    ELSE << <<"list", [i \in DOMAIN results |-> results[i][1]]>> >>

\* field_is_part_of_value(): on the type the value says it is of, if it says so.
IsPart(f, v) ==
    LET type == Get(v, "__typename")
    IN  type = <<>> \/ Implements(type[1][2], f.on)

-----------------------------------------------------------------------------
\* ConstValueExec::call(): nothing is resolved below null.
Call(f, v) == IF v = Null THEN <<Null>> ELSE Resolve(f.ir[1], v)

\* Mutated form: the results of the members of other types are left out.
RECURSIVE Each_OnlyItsParts(_, _)
Each_OnlyItsParts(f, v) ==
    IF IsList(v)
    THEN LET own == SelectSeq(v[2], LAMBDA w : IsList(w) \/ IsPart(f, w))
         IN  Gathered([i \in DOMAIN own |-> Each_OnlyItsParts(f, own[i])])
    ELSE Call(f, v)

\* IRExecutor::execute() of a list: a result in the place of every value.
RECURSIVE Each(_, _)
Each(f, v) ==
    IF IsList(v) THEN Gathered([i \in DOMAIN v[2] |-> Each(f, v[2][i])])
    ELSE IF IsPart(f, v) THEN Call(f, v) ELSE <<Null>>

\* value.map_ref(get_key(output_name))
RECURSIVE Keys(_, _)
Keys(f, v) ==
    IF IsList(v) THEN <<"list", [i \in DOMAIN v[2] |-> Keys(f, v[2][i])]>>
    ELSE IF Get(v, f.out) = <<>> THEN Null ELSE Get(v, f.out)[1]

\* ExecutorInner::execute() and iter_field(): what the store gets, field by field.
RECURSIVE Store(_, _)
Store(f, v) ==
    LET result == IF f.ir = <<>> THEN <<Keys(f, v)>>
                  ELSE IF IsList(v) THEN Each(f, v) ELSE Call(f, v)
        below == IF result = <<>> THEN {}
                 ELSE UNION {Store(f.sel[i], result[1]) : i \in DOMAIN f.sel}
    IN  below \cup IF f.ir = <<>> THEN {} ELSE {<<f.id, result>>}

-----------------------------------------------------------------------------
(* Synth.  An error anywhere is the response's only content.                *)
Guard(f) == IF f.nullable THEN <<Null>> ELSE <<>>

\* The path's index in each array in turn, which panics beyond its end; <<>> if
\* there is no array to index.
RECURSIVE Walk(_, _)
Walk(v, path) ==
    IF path = <<>> THEN <<v>>
    ELSE IF ~IsList(v) THEN <<>>
    ELSE IF path[1] >= Len(v[2]) THEN << <<"panic">> >>
    ELSE Walk(v[2][path[1] + 1], Tail(path))

Object(children, results) ==
    IF \E i \in DOMAIN results : results[i] = <<>> THEN <<>>
    ELSE << <<"object", [i \in DOMAIN results |-> <<children[i].out, results[i][1]>>]>> >>

\* Scalar::validate(), of the value as a whole, and an enum, of each element.
Valid(f, v) ==
    LET good(w) == w[1] = "leaf" /\ w # <<"leaf", "bad">>
    IN  CASE f.kind \in {"json", "leaf"} -> TRUE
          [] f.kind = "email" -> good(v)
          [] f.kind = "enum" -> IF IsList(v) THEN \A i \in DOMAIN v[2] : good(v[2][i]) ELSE good(v)

\* iter_inner(), but for where the children's and the elements' values are from.
Inner(f, v, elements, child) ==
    LET children == SelectSeq(f.sel, LAMBDA c : IsPart(c, v))
        type == Get(v, "__typename")
        named(c) == IF c.name # "__typename" THEN child[c]
                    ELSE IF type = <<>> THEN << <<"leaf", f.type>> >> ELSE type
    IN  IF v = Null
        THEN IF (IF f.list THEN f.elementNullable ELSE f.nullable) THEN <<Null>> ELSE <<>>
        ELSE IF f.kind # "object" THEN IF Valid(f, v) THEN <<v>> ELSE <<>>
        ELSE CASE v[1] = "object" ->
                    Object(children, [i \in DOMAIN children |-> named(children[i])])
               [] IsList(v) -> Gathered(elements)
               [] OTHER -> <<v>>

RECURSIVE IterInner(_, _, _, _), ProcessNode(_, _, _, _)
ProcessNode(f, value, store, path) ==
    LET stored == {entry[2] : entry \in {e \in store : e[1] = f.id}}
        result == CHOOSE r \in stored : TRUE
        found == Walk(result[1], path)
    IN  IF stored = {}
        THEN IF value = <<>> THEN Guard(f) ELSE IterInner(f, value[1], store, path)
        ELSE IF result = <<>> THEN <<>>
        ELSE IF found = <<>> THEN <<Null>>
        ELSE IF f.kind # "json" /\ f.list # IsList(found[1]) THEN Guard(f)
        ELSE IterInner(f, found[1], store, path)

IterInner(f, v, store, path) ==
    Inner(f, v, IF IsList(v)
                THEN [i \in DOMAIN v[2] |-> IterInner(f, v[2][i], store, Append(path, i - 1))]
                ELSE <<>>,
          [c \in ToSet(f.sel) |-> ProcessNode(c, Get(v, c.name), store, path)])

\* Executor::execute(), synthesize(): a root field has no value to start from.
Response(fields) ==
    LET store == UNION {Store(fields[i], <<"object", <<>> >>) : i \in DOMAIN fields}
        node(f) == IF f.name = "__typename" THEN << <<"leaf", "Query">> >>
                   ELSE ProcessNode(f, <<>>, store, <<>>)
    IN  Object(fields, [i \in DOMAIN fields |-> node(fields[i])])

-----------------------------------------------------------------------------
(* What is sent of responses, each [data, errors].                          *)
Failed(error) == [data |-> Null, errors |-> <<error>>]

\* Mutated form: the introspection's fields take the place of the response's.
MergeWith_Theirs(own, other) ==
    [data |-> CASE other.data[1] # "object" -> own.data
                [] other.data[1] = "object" /\ own.data[1] # "object" -> other.data
                [] OTHER -> <<"object", SelectSeq(own.data[2], LAMBDA p : Get(other.data, p[1]) = <<>>) \o other.data[2]>>,
     errors |-> own.errors \o other.errors]
\* Response::merge_with(): of the introspection, what the response has not.
MergeWith(own, other) ==
    [data |-> CASE other.data[1] # "object" -> own.data
                [] other.data[1] = "object" /\ own.data[1] # "object" -> other.data
                [] OTHER -> <<"object", own.data[2] \o SelectSeq(other.data[2], LAMBDA p : Get(own.data, p[1]) = <<>>)>>,
     errors |-> own.errors \o other.errors]

\* ConstValueExecutor::execute(): a request that fails before its fields is not introspected.
ExecuteConst(request) ==
    IF request.before # <<>> THEN Failed(request.before[1])
    ELSE IF request.input # <<>> THEN Failed(request.input[1])
    ELSE IF request.introspects THEN MergeWith(request.own, request.schema)
    ELSE request.own

\* BatchResponse::is_ok(), default_body(): single is one response, or the batch is in order.
IsOk(responses) == \A i \in DOMAIN responses : responses[i].errors = <<>>
DefaultBody(single, responses) == IF single THEN responses[1] ELSE responses
\* GraphQLArcResponse::build_response(): the header only of what is without errors.
IntoResponse(single, responses, cacheControl) ==
    [status |-> "OK", body |-> DefaultBody(single, responses),
     cacheControl |-> IF IsOk(responses) THEN cacheControl ELSE <<>>]

\* flatten_response(), into_rest_response()
FlattenResponse(data) == IF data[1] = "object" /\ Len(data[2]) = 1 THEN data[2][1][2] ELSE data
\* Mutated form: an error is not noticed.
IntoRestResponse_Ok(single, responses) ==
    LET flat == [i \in DOMAIN responses |-> FlattenResponse(responses[i].data)]
    IN  [status |-> "OK", body |-> IF single THEN flat[1] ELSE flat]
IntoRestResponse(single, responses) ==
    LET flat == [i \in DOMAIN responses |-> FlattenResponse(responses[i].data)]
    IN  IF IsOk(responses) THEN [status |-> "OK", body |-> IF single THEN flat[1] ELSE flat]
        ELSE [status |-> "INTERNAL_SERVER_ERROR", body |-> DefaultBody(single, responses)]

\* graphql_request(): text of type application/graphql becomes the query of a request, as it
\* stands if it has a backslash, else quoted; body is [type, json, backslash, quoted], where
\* json is whether it is a request itself, quoted whether it is a JSON string.
Understood(body) ==
    CASE body.type # "application/graphql" -> body.json
      [] body.type = "application/graphql" /\ body.backslash -> body.quoted
      [] OTHER -> TRUE
GraphqlRequest(body, response, cacheControl) ==
    IF Understood(body) THEN IntoResponse(TRUE, <<response>>, cacheControl)
    ELSE IntoResponse(TRUE, <<Failed("Unexpected GraphQL Request")>>, <<>>)

-----------------------------------------------------------------------------
(* The same response without a store: each field completed on the value it *)
(* belongs to.                                                              *)
RECURSIVE Complete(_, _), CompleteField(_, _)
CompleteField(f, v) ==
    LET result == IF f.ir # <<>> THEN Call(f, v) ELSE Get(v, f.name)
        shaped == f.kind = "json" \/ f.list = IsList(result[1])
    IN  IF result = <<>> THEN IF f.ir = <<>> THEN Guard(f) ELSE <<>>
        ELSE IF f.ir = <<>> \/ shaped THEN Complete(f, result[1]) ELSE Guard(f)

Complete(f, v) ==
    Inner(f, v, IF IsList(v) THEN [i \in DOMAIN v[2] |-> Complete(f, v[2][i])] ELSE <<>>,
          [c \in ToSet(f.sel) |-> CompleteField(c, v)])

\* A resolver below a field without one reads the values its alias has.
RECURSIVE Aliased(_)
Aliased(f) ==
    \/ f.ir = <<>> /\ f.out # f.name /\ \E i \in DOMAIN f.sel : f.sel[i].ir # <<>>
    \/ \E i \in DOMAIN f.sel : Aliased(f.sel[i])

\* ConstValueExecutor::execute(), Synth::synthesize(): however deeply lists
\* are nested, and whatever members of a union they mix, each result is read
\* where it was resolved: the response is that of resolving every field on its
\* own parent, and an error in any of them is the only thing answered.
ResultsFindTheirPlace(fields) ==
    LET results == [i \in DOMAIN fields |-> CompleteField(fields[i], <<"object", <<>> >>)]
    IN  (\E i \in DOMAIN fields : Aliased(fields[i])) \/ Response(fields) = Object(fields, results)

\* merge_with(), into_response(), into_rest_response(): a reply has each field that either
\* half answered, the response's own as it was, and the errors of both; nobody is told to
\* keep an error; and an endpoint of one field answers with its value, of an error with all
\* there is to be told of it.
KeysOf(data) == IF data[1] = "object" THEN {p[1] : p \in ToSet(data[2])} ELSE {}
MergedHoldsBoth(request, reply) ==
    LET both == request.introspects /\ reply.errors = request.own.errors \o request.schema.errors
    IN  \/ reply.data = Null /\ reply.errors \in {request.before, request.input}
        \/ ~request.introspects /\ reply = request.own
        \/ /\ both
           /\ KeysOf(reply.data) = KeysOf(request.own.data) \cup KeysOf(request.schema.data)
           /\ reply.data # Null => Len(reply.data[2]) = Cardinality(KeysOf(reply.data))
           /\ \A k \in KeysOf(request.own.data) : Get(reply.data, k) = Get(request.own.data, k)
RepliesAreWhole(requests, body) ==
    LET replies == [i \in DOMAIN requests |-> ExecuteConst(requests[i])]
        failed == \E i \in DOMAIN replies : replies[i].errors # <<>>
        rest == IntoRestResponse(Len(requests) = 1, replies)
        sent == GraphqlRequest(body, replies[1], <<"max-age">>)
    IN  /\ \A i \in DOMAIN requests : MergedHoldsBoth(requests[i], replies[i])
        /\ IntoResponse(FALSE, replies, <<"max-age">>).cacheControl = <<>> <=> failed
        /\ rest.status = "OK" <=> ~failed
        /\ failed /\ Len(requests) > 1 => rest.body = replies
        /\ ~failed => \A i \in DOMAIN replies :
              LET own == IF Len(requests) = 1 THEN rest.body ELSE rest.body[i]
              IN  \A key \in KeysOf(replies[i].data) :
                     IF KeysOf(replies[i].data) = {key} THEN <<own>> = Get(replies[i].data, key)
                     ELSE Get(own, key) = Get(replies[i].data, key)
        /\ sent.cacheControl # <<>> => sent.body.errors = <<>>
        /\ body.type = "application/graphql" /\ ~body.backslash => sent.body = replies[1]
=============================================================================
