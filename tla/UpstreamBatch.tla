--------------------------- MODULE UpstreamBatch ---------------------------
(***************************************************************************)
(* What the loaders behind a DataLoader make of one batch: one request for *)
(* all of its keys, whose answer is taken apart again                      *)
(* (core/http/data_loader.rs, core/graphql/data_loader.rs,                 *)
(* core/grpc/data_loader.rs, core/postgres/data_loader.rs).                *)
(*                                                                         *)
(* A key is [params, body, id, headers]: the pairs of its URL's query, its *)
(* body, the batching value, the headers.  An outcome is <<value>>, or <<>>*)
(* for an error; a single record is a sequence of at most one, null if none.*)
(***************************************************************************)
EXTENDS Integers, SequencesExt

Fails == <<>>

\* filter(): SelectSeq, for a set and by recursion on the sequence's length.
Only(s, S) ==
    LET kept[n \in 0..Len(s)] ==
            IF n = 0 THEN <<>>
            ELSE IF s[n] \in S THEN Append(kept[n - 1], s[n]) ELSE kept[n - 1]
    IN  kept[Len(s)]

\* gather_path_matches(), group_by_key(): the records of a response by what
\* stands at the group's path; a record without it is in no group.
GroupBy(records, id) == Only(records, {r \in ToSet(records) : r.id = id})

\* get_body_value_single(), get_body_value_list()
Extract(records, id, list) ==
    LET own == GroupBy(records, id)
    IN  IF list THEN own ELSE SubSeq(own, 1, Min({1, Len(own)}))

PairsNamed(params, name) == Only(params, {p \in ToSet(params) : p[1] = name})
ValuesNamed(params, name) ==
    LET pairs == PairsNamed(params, name) IN [i \in DOMAIN pairs |-> pairs[i][2]]
Grouped(params, only) == IF only = <<>> THEN params ELSE PairsNamed(params, only[1])

\* Mutated form: the requests after the first are merged from the third on.
QueryBatching_FromThird(keys, only) ==
    keys[1].params \o FlattenSeq([i \in 1..Max({0, Len(keys) - 2}) |-> Grouped(keys[i + 2].params, only)])

\* QueryBatching: the first request's pairs, and of each other one's those of
\* the group's key, or all of them.
QueryBatching(keys, only) ==
    keys[1].params \o FlattenSeq([i \in 1..(Len(keys) - 1) |-> Grouped(keys[i + 1].params, only)])

\* BodyBatching: the bodies in a list.
BodyBatching(keys) == FlattenSeq([i \in DOMAIN keys |-> keys[i].body])

\* The one request of an HTTP batch: the first one, merged with the others.
HttpMerged(keys, get, name) ==
    [params |-> QueryBatching(keys, IF get THEN <<name>> ELSE <<>>),
     body |-> IF get THEN keys[1].body ELSE BodyBatching(keys),
     headers |-> keys[1].headers]

\* The id a key's records are found by: its last pair of that name, or its
\* batching value.
HttpId(key, get, name) ==
    LET values == ValuesNamed(key.params, name)
    IN  IF ~get THEN key.id ELSE IF values = <<>> THEN <<>> ELSE <<Last(values)>>

\* HttpDataLoader::load() with a group-by, given the answer to HttpMerged.
HttpGrouped(keys, get, name, list, answer) ==
    IF answer = Fails \/ \E i \in DOMAIN keys : HttpId(keys[i], get, name) = <<>>
    THEN Fails
    ELSE <<[i \in DOMAIN keys |-> Extract(answer[1], HttpId(keys[i], get, name)[1], list)]>>

\* load() without, load_dedupe_only(), PostgresDataLoader::load(): a request
\* for each key; the first that fails fails them all.
OneByOne(answers) ==
    IF \E i \in DOMAIN answers : answers[i] = Fails THEN Fails
    ELSE <<[i \in DOMAIN answers |-> answers[i][1]]>>

\* GraphqlDataLoader::load(), extract_responses(): by position.  A list too
\* short, a failure or anything but a list leaves null, to load_one()'s caller
\* the default response, which parse_graphql_response() does not take for one.
GraphqlMerged(keys) ==
    [body |-> [i \in DOMAIN keys |-> keys[i].body], headers |-> keys[1].headers]
GraphqlBatch(keys, answer) ==
    [i \in DOMAIN keys |->
        IF answer # Fails /\ i \in DOMAIN answer[1] THEN <<answer[1][i]>> ELSE Fails]

\* load_with_group_by(), convert_multiple_inputs(): the messages in a list,
\* each key's records found by its own message's id.
GrpcMerged(keys) ==
    [body |-> FlattenSeq([i \in DOMAIN keys |-> keys[i].body]), headers |-> keys[1].headers]
GrpcGrouped(keys, answer) ==
    IF answer = Fails \/ \E i \in DOMAIN keys : keys[i].id = <<>> THEN Fails
    ELSE <<[i \in DOMAIN keys |-> Extract(answer[1], keys[i].id[1], FALSE)]>>

-----------------------------------------------------------------------------
(* An upstream: external.  It has some records and returns those asked for, *)
(* in its own order, unless it fails.                                       *)
Asked(request, get, name) ==
    IF get THEN ToSet(ValuesNamed(request.params, name)) ELSE ToSet(request.body)

Grouping(records, get, name, fails, request) ==
    IF fails THEN Fails
    ELSE <<Only(records, {r \in ToSet(records) : r.id \in Asked(request, get, name)})>>

\* One response for each query it is sent, short of the last ones if it likes.
Listing(fails, short, request) ==
    IF fails THEN Fails
    ELSE <<[i \in 1..(Len(request.body) - short) |-> request.body[i]]>>

\* HttpDataLoader, GraphqlDataLoader, GrpcDataLoader: of requests that differ
\* in the group's key only, each gets of the merged answer what it gets alone;
\* a failed batch gives none of them a value, and no request is given another's
\* answer for one the upstream left out.
ApartAsAlone(kind, keys, list, records, fails, short) ==
    LET get == kind = "get"
        server(request) == Grouping(records, get, "id", fails, request)
        batch(ks) == IF kind = "grpc" THEN GrpcGrouped(ks, server(GrpcMerged(ks)))
                     ELSE HttpGrouped(ks, get, "id", list, server(HttpMerged(ks, get, "id")))
        failing(key) == IF key.id[1] = "2" /\ fails THEN Fails ELSE <<key.id[1]>>
    IN  CASE kind = "graphql" ->
              \A i \in DOMAIN keys :
                  GraphqlBatch(keys, Listing(fails, short, GraphqlMerged(keys)))[i] =
                      IF fails \/ i > Len(keys) - short THEN Fails ELSE <<keys[i].body>>
          [] kind = "single" ->
              OneByOne([i \in DOMAIN keys |-> failing(keys[i])]) =
                  IF \E i \in DOMAIN keys : failing(keys[i]) = Fails THEN Fails
                  ELSE <<[i \in DOMAIN keys |-> keys[i].id[1]]>>
          [] OTHER ->
              IF \E i \in DOMAIN keys : batch(<<keys[i]>>) = Fails
              THEN batch(keys) = Fails
              ELSE \A i \in DOMAIN keys : batch(keys)[1][i] = batch(<<keys[i]>>)[1][1]
=============================================================================
