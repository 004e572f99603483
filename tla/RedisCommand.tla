---------------------------- MODULE RedisCommand ----------------------------
(***************************************************************************)
(* @redis: what the blueprint accepts (blueprint/operators/redis.rs), the  *)
(* command a template renders (core/redis/request_template.rs), and what   *)
(* becomes of the server's reply (cli/redis/client.rs, core/redis/mod.rs). *)
(*                                                                         *)
(* Something optional is a sequence of at most one element.  A reply or a  *)
(* GraphQL value is <<kind, content>>; a map is a sequence of pairs.       *)
(***************************************************************************)
EXTENDS Integers, SequencesExt

CONSTANT Parse(_)   \* serde_json: a string -> <<its value>>, or <<>>

-----------------------------------------------------------------------------
(* compile_redis()                                                          *)
KeyOnly == {"GET", "DEL", "EXISTS", "INCR", "HGETALL", "SMEMBERS"}
KeyValue == {"LPUSH", "RPUSH", "SADD"}
Streams == {"SUBSCRIBE", "XREAD"}

\* The link named, or the only one of its kind; undecided with several.
Connection(d, links) ==
    LET redis == SelectSeq(links, LAMBDA l : l.type = "Redis")
    IN  IF d.db # <<>> THEN d.db
        ELSE IF Len(redis) > 1 THEN <<>>
        ELSE IF redis = <<>> \/ redis[1].id = <<>> THEN <<"default">> ELSE redis[1].id

\* Mutated form: HSET goes without a field, as HGET's check might suggest.
Required_NoField(op) ==
    CASE op \in KeyOnly \cup {"LRANGE"} -> {"key"}
      [] op \in KeyValue \cup {"SET", "XADD", "HSET"} -> {"key", "value"}
      [] op = "HGET" -> {"key", "field"}
      [] op = "PUBLISH" -> {"channel", "value"}

Required(op) ==
    CASE op \in KeyOnly \cup {"LRANGE"} -> {"key"}
      [] op \in KeyValue \cup {"SET", "XADD"} -> {"key", "value"}
      [] op = "HGET" -> {"key", "field"}
      [] op = "HSET" -> {"key", "field", "value"}
      [] op = "PUBLISH" -> {"channel", "value"}

Compile(d, root, links) ==
    LET id == Connection(d, links)
        source == IF d.op = "SUBSCRIBE" THEN d.channel ELSE d.key
        start == IF d.startId = <<>> THEN "$" ELSE d.startId[1]
    IN  IF id = <<>> THEN <<>>
        ELSE IF d.op \in Streams
        THEN IF root = "Subscription" /\ source \notin {<<>>, <<"">>}
             THEN <<[io |-> "RedisStream", id |-> id[1], source |-> source[1],
                     start |-> IF d.op = "XREAD" THEN start ELSE ""]>>
             ELSE <<>>
        ELSE IF root # "Subscription" /\ \A name \in Required(d.op) : d[name] # <<>>
        THEN <<[io |-> "Redis", id |-> id[1], template |-> d]>> ELSE <<>>

-----------------------------------------------------------------------------
(* RequestTemplate::render(): the arguments after the name; <<>> is an     *)
(* error.  A template is a literal, or "arg": what the request says.       *)
Text(template, arg) == IF template = "arg" THEN arg ELSE template

Rendered(args, arg) ==
    IF \E i \in DOMAIN args : args[i] = <<>> THEN <<>>
    ELSE <<[i \in DOMAIN args |-> Text(args[i][1], arg)]>>

\* An argument that renders to nothing takes its default.
Or(template, default, arg) ==
    IF template = <<>> THEN <<default>>
    ELSE IF Text(template[1], arg) = "" THEN <<default>> ELSE template

\* What XADD appends: an object's fields, or a payload.
Entry(value) ==
    LET json == Parse(value)
    IN  IF json # <<>> /\ json[1][1] = "obj"
        THEN FlattenSeq([i \in DOMAIN json[1][2] |-> <<json[1][2][i][1], "text">>])
        ELSE <<"payload", value>>

Render(t, arg) ==
    CASE t.op \in KeyOnly -> Rendered(<<t.key>>, arg)
      [] t.op \in KeyValue -> Rendered(<<t.key, t.value>>, arg)
      [] t.op = "SET" ->
            Rendered(IF Or(t.ttl, "", arg) = <<"">> THEN <<t.key, t.value>>
                     ELSE <<t.key, t.value, <<"EX">>, t.ttl>>, arg)
      [] t.op = "HGET" -> Rendered(<<t.key, t.field>>, arg)
      [] t.op = "HSET" -> Rendered(<<t.key, t.field, t.value>>, arg)
      [] t.op = "LRANGE" ->
            Rendered(<<t.key, Or(t.start, "0", arg), Or(t.stop, "-1", arg)>>, arg)
      [] t.op = "PUBLISH" -> Rendered(<<t.channel, t.value>>, arg)
      [] t.op = "XADD" ->
            LET kv == Rendered(<<t.key, t.value>>, arg)
            IN  IF kv = <<>> THEN <<>> ELSE << <<kv[1][1], "*">> \o Entry(kv[1][2]) >>
      [] OTHER -> <<>>

-----------------------------------------------------------------------------
(* redis_value_to_const(): <<>> is a server error.                         *)
RECURSIVE Const(_)
Const(reply) ==
    CASE reply[1] = "int" -> <<"num", reply[2]>>
      [] reply[1] = "bool" -> reply
      [] reply[1] = "okay" -> <<"str", "OK">>
      [] reply[1] = "bulk" -> <<"str", reply[2]>>
      [] reply[1] = "array" -> <<"list", [i \in DOMAIN reply[2] |-> Const(reply[2][i])]>>
      [] reply[1] = "map" ->
            <<"obj", [i \in DOMAIN reply[2] |->
                          <<reply[2][i][1], Const(reply[2][i][2])>>]>>
      [] reply[1] = "nil" -> <<"null", 0>>

\* decode_value_leaves(): decode_payload() of every string in it.
RECURSIVE Decode(_, _)
Decode(value, payload) ==
    CASE value[1] = "str" ->
            IF payload = "TEXT" \/ Parse(value[2]) = <<>> THEN value
            ELSE Parse(value[2])[1]
      [] value[1] = "list" ->
            <<"list", [i \in DOMAIN value[2] |-> Decode(value[2][i], payload)]>>
      [] value[1] = "obj" ->
            <<"obj", [i \in DOMAIN value[2] |->
                          <<value[2][i][1], Decode(value[2][i][2], payload)>>]>>
      [] OTHER -> value

\* map.insert(): a field that comes twice keeps its place and takes the new value.
Insert(pairs, name, value) ==
    LET here == SelectInSeq(pairs, LAMBDA p : p[1] = name)
    IN  IF here = 0 THEN Append(pairs, <<name, value>>)
        ELSE [pairs EXCEPT ![here][2] = value]

\* normalize_hgetall(): RESP2 sends the fields and values in one flat list.
NormalizeHgetall(value) ==
    IF /\ value[1] = "list"
       /\ Len(value[2]) % 2 = 0
       /\ \A i \in DOMAIN value[2] : value[2][i][1] = "str"
    THEN <<"obj", FoldLeft(LAMBDA pairs, i :
                               Insert(pairs, value[2][2 * i - 1][2], value[2][2 * i]),
                           <<>>, [i \in 1..(Len(value[2]) \div 2) |-> i])>>
    ELSE value

\* normalize_command_result()
Normalize(op, value) ==
    CASE op = "HGETALL" -> NormalizeHgetall(value)
      [] op = "EXISTS" /\ value[1] = "num" -> <<"bool", value[2] > 0>>
      [] op = "SET" /\ value = <<"str", "OK">> -> <<"bool", TRUE>>
      [] op = "SET" /\ value[1] = "null" -> <<"bool", FALSE>>
      [] OTHER -> value

\* Mutated form: the strings are decoded before the shape is put right.
Answer_DecodedFirst(t, reply) == Normalize(t.op, Decode(Const(reply), t.payload))

\* eval_io_inner(), after execute()
Answer(t, reply) == Decode(Normalize(t.op, Const(reply)), t.payload)

-----------------------------------------------------------------------------
\* What Redis expects of a command, and what it may reply: external.
Arity(op) ==
    CASE op \in KeyOnly -> {1}
      [] op \in KeyValue \cup {"HGET", "PUBLISH"} -> {2}
      [] op \in {"HSET", "LRANGE"} -> {3}
      [] op = "SET" -> {2, 4}
      [] op = "XADD" -> {4, 6}

\* The hash stored under the key, as either protocol version sends it.
Resp2(hash) ==
    <<"array", FlattenSeq([i \in DOMAIN hash |->
                               << <<"bulk", hash[i][1]>>, <<"bulk", hash[i][2]>> >>])>>
Resp3(hash) == <<"map", [i \in DOMAIN hash |-> <<hash[i][1], <<"bulk", hash[i][2]>> >>]>>

\* compile_redis(), render(), normalize_command_result(): a field the blueprint
\* accepts always renders a command Redis takes, but for XADD of an object
\* without fields; a subscription gets a stream and nothing else does; HGETALL
\* is an object with the same fields in either protocol, each decoded on its
\* own, and EXISTS and SET are Booleans whatever the payload type.
FieldIsServed(d, root, links, arg, hash) ==
    LET ir == Compile(d, root, links)
    IN  ir # <<>> =>
        /\ (ir[1].io = "RedisStream") <=> (root = "Subscription")
        /\ ir[1].io = "RedisStream" => ir[1].source # ""
        /\ Len(SelectSeq(links, LAMBDA l : l.type = "Redis")) > 1 => d.db = <<ir[1].id>>
        /\ ir[1].io = "Redis" =>
            LET t == ir[1].template
                cmd == Render(t, arg)
                answers(replies) == {Answer(t, r) : r \in replies}
            IN  /\ cmd # <<>>
                /\ \/ Len(cmd[1]) \in Arity(t.op)
                   \/ t.op = "XADD" /\ Parse(Text(t.value[1], arg)) = << <<"obj", <<>> >> >>
                /\ t.op = "HGETALL" =>
                    answers({Resp2(hash), Resp3(hash)}) =
                        {<<"obj", [i \in DOMAIN hash |->
                              <<hash[i][1], Decode(<<"str", hash[i][2]>>, t.payload)>>]>>}
                /\ t.op = "EXISTS" =>
                    answers({<<"int", 0>>, <<"int", 2>>}) = {<<"bool", FALSE>>, <<"bool", TRUE>>}
                /\ t.op = "SET" =>
                    answers({<<"nil", 0>>, <<"okay", 0>>}) = {<<"bool", FALSE>>, <<"bool", TRUE>>}
=============================================================================
