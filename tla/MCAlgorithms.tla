---------------------------- MODULE MCAlgorithms ----------------------------
(* The functions of the gateway that keep no state, each over a bounded set *)
(* of inputs: a step picks a function's input, and an invariant relates what*)
(* the function makes of it to what it should.                              *)
EXTENDS MCInputs

Camels == [id |-> "id", user_name |-> "userName", userName |-> "userName", name |-> "name"]

-----------------------------------------------------------------------------
Directive(name, op, db, table, filter, in) ==
    [name |-> name, op |-> op, db |-> db, table |-> table, filter |-> filter,
     input |-> in, limit |-> <<"arg">>, offset |-> <<"5">>, channel |-> "valid",
     order |-> <<[col |-> "userName", dir |-> "DESC"], [col |-> "other", dir |-> ""]>>]

Objects == {<<>>, << <<>> >>,
            << << <<"id", "arg">> >> >>,
            << << <<"userName", "arg">>, <<"id", "7">> >> >>,
            << << <<"other", "arg">> >> >>}

Stored(schema, name, view, columns) ==
    [schema |-> schema, name |-> name, view |-> view, columns |-> columns]
Tables == <<Stored("public", "users", FALSE, <<"id", "user_name">>),
            Stored("audit", "users", FALSE, <<"id">>),
            Stored("audit", "seen", TRUE, <<"id", "user_name", "userName">>)>>

Link(id, type) == [id |-> id, type |-> type]
Configs ==
    {[links |-> l, schemas |-> s] :
        l \in {<<>>, <<Link("default", "Postgres")>>,
               <<Link("a", "GreptimeDb"), Link("b", "AuroraDsql")>>,
               <<Link("a", "Postgres"), Link("b", "Postgres"), Link("c", "Redis")>>},
        s \in {<<>>, <<[id |-> "default", tables |-> Tables]>>,
               <<[id |-> "a", tables |-> Tables], [id |-> "b", tables |-> <<Tables[1]>>]>>}}

Operations(name) ==
    {"Select", "SelectOne", "Insert", "Delete"} \cup
    IF name = "@postgres" THEN {"Update", "Listen"} ELSE {}

SqlInputs ==
    {[d |-> Directive(x[1], x[2], db, x[3], x[4], x[5]), c |-> c, root |-> "Query", arg |-> arg] :
        x \in UNION {{name} \X Operations(name) \X {<<"users">>, <<"seen">>, <<"audit", "users">>} \X Objects \X Objects :
                      name \in {"@postgres", "@greptimedb"}},
        db \in {<<>>, <<"b">>}, c \in Configs, arg \in {"1", "null", ""}}
    \cup {[d |-> Directive("@postgres", op, <<>>, <<"users">>, <<>>, <<>>), c |-> c,
           root |-> "Subscription", arg |-> "1"] : op \in {"Select", "Listen"}, c \in Configs}

-----------------------------------------------------------------------------
\* serde_json over the strings used here.
Json(text) ==
    CASE text = "1" -> << <<"num", 1>> >>
      [] text = "{}" -> << <<"obj", <<>> >> >>
      [] text = "{a}" -> << <<"obj", << <<"a", <<"num", 1>> >> >> >> >>
      [] text = "{ab}" -> << <<"obj", << <<"a", <<"num", 1>> >>, <<"b", <<"str", "y">> >> >> >> >>
      [] OTHER -> <<>>

Redis == INSTANCE RedisCommand WITH Parse <- Json

RedisOps == {"GET", "SET", "EXISTS", "HGET", "HSET", "HGETALL", "LPUSH", "LRANGE",
             "PUBLISH", "XADD", "SUBSCRIBE", "XREAD"}

RedisInputs ==
    {[d |-> [op |-> op, db |-> db, key |-> key, field |-> field, value |-> value,
             ttl |-> more, start |-> more, stop |-> more, channel |-> channel,
             startId |-> <<>>, payload |-> variant.payload],
      root |-> variant.root, links |-> links, arg |-> arg, hash |-> variant.hash] :
        op \in RedisOps, db \in {<<>>, <<"b">>}, key \in {<<>>, <<"">>, <<"k">>},
        field \in {<<>>, <<"f">>}, value \in {<<>>, <<"arg">>}, more \in {<<>>, <<"arg">>},
        channel \in {<<>>, <<"c">>}, arg \in {"", "1", "{}", "{ab}"},
        links \in {<<>>, <<[id |-> <<>>, type |-> "Redis"]>>,
                   <<[id |-> <<"a">>, type |-> "Redis"], [id |-> <<"b">>, type |-> "Redis"]>>},
        variant \in {[payload |-> "JSON", root |-> "Query", hash |-> <<>>],
                     [payload |-> "TEXT", root |-> "Subscription", hash |-> <<>>],
                     [payload |-> "TEXT", root |-> "Query", hash |-> << <<"f", "1">>, <<"g", "{a}">> >>]}}

-----------------------------------------------------------------------------
\* The bytes, cut into chunks after the positions given.
Cut(bytes, at) ==
    LET ends == SetToSortSeq({i \in at : i <= Len(bytes)} \cup {Len(bytes)}, <)
    IN  [i \in DOMAIN ends |->
            SubSeq(bytes, IF i = 1 THEN 1 ELSE ends[i - 1] + 1, ends[i])]

\* Two cuts in one header or message, or in neighbouring ones; of the breaks every other fails.
StreamInputs ==
    UNION {{[kind |-> kind, messages |-> messages, fails |-> broken % 2 = 1,
             chunks |-> Cut(SubSeq(Wire(kind, messages), 1, broken), {i, i + d})] :
                i \in 1..n, d \in {0, 1, 5}, broken \in 0..n} :
           <<kind, messages, n>> \in
               {<<"grpc", << <<255>>, <<>>, <<7>> >>, 17>>,
                <<"http", << <<"bad", "x">>, <<"data", ":">> >>, 14>>,
                <<"graphql", << <<"errors">>, <<"data", ":">> >>, 13>>}}

TextInputs ==
    {[kind |-> "http", chunks |-> Cut(text, at), fails |-> FALSE] :
        text \in [1..5 -> {"\n", "data", ":", "x"}], at \in {{1, 3}, {2}, {1, 2, 3, 4}}}

-----------------------------------------------------------------------------
Contexts == {[arg |-> arg, headers |-> headers, directives |-> directives, selection |-> "{s}"] :
                arg \in {<<>>, << <<>> >>, << <<"1">> >>, << <<"1", "2">> >>},
                headers \in {<<>>, [n \in {"user"} |-> <<"1">>], [n \in {"user"} |-> <<"2">>]},
                directives \in {"", "@d"}}

Argument == {<<"arg">>, <<"1">>, <<"arg", "x">>}
Optional(S) == {<<>>} \cup {<<s>> : s \in S}

HttpFields ==
    {[method |-> m, url |-> url, base |-> base, encoder |-> "RepeatedKey", body |-> body,
      query |-> query, headers |-> headers, encoding |-> encoding] :
        m \in {"GET", "POST"}, url \in {<<"/u">>, <<"/", "arg">>},
        base \in {<<>>, << <<"q", "1">>, <<"e", "">> >>}, encoding \in {"json", "form"},
        query \in {<<>>} \cup {<<[key |-> "q", value |-> v, skip |-> skip]>> :
                                v \in Argument, skip \in BOOLEAN},
        headers \in {<<>>, [n \in {"user"} |-> <<"arg">>]},
        body \in Optional({<<"arg">>})}

OtherFields ==
    {[kind |-> "graphql",
      t |-> [url |-> url, operation |-> "users", args |-> args, selection |-> selection,
             headers |-> <<>>]] :
        url \in {"/a", "/b"}, selection \in {"", "{s}"},
        args \in {<<>>, << <<"id", <<"arg">> >> >>, << <<"id", <<"1">> >>, <<"n", <<"arg">> >> >>}}
    \cup {[kind |-> "grpc", t |-> [url |-> url, body |-> body, headers |-> <<>>]] :
            url \in {<<"/a">>, <<"/", "arg">>}, body \in Optional({<<"arg">>, <<"1">>})}
    \cup {[kind |-> "s3",
            t |-> [bucket |-> <<"b">>, operation |-> op, key |-> key, prefix |-> prefix,
                   type |-> <<>>, link |-> link]] :
            op \in {"List", "Delete"}, key \in Optional({<<"arg">>, <<"1">>}),
            prefix \in Optional({<<"arg">>}), link \in Optional({"a"})}

\* All the fields of a kind (of an @http field, of a method) at once.
KeyInputs ==
    [contexts : {Contexts},
     fields : {{[kind |-> "http", t |-> t] : t \in {u \in HttpFields : u.method = m}} : m \in {"GET", "POST"}}
              \cup {{f \in OtherFields : f.kind = kind} : kind \in {"graphql", "grpc", "s3"}}]

-----------------------------------------------------------------------------
Ids == UNION {{s \in [1..n -> {"1", "2", "3", "none"}] :
                 \A i, j \in 1..n : s[i] = s[j] => i = j} : n \in 1..3}

BatchInputs ==
    {[kind |-> kind, list |-> list, fails |-> fails, short |-> short, records |-> records,
      keys |-> [i \in DOMAIN ids |->
                  LET id == IF ids[i] = "none" THEN <<>> ELSE <<ids[i]>>
                      some == IF id = <<>> THEN <<>> ELSE << <<"id", ids[i]>> >>
                  IN  [params |-> base \o some, body |-> id, headers |-> "h",
                       id |-> IF kind = "get" THEN <<>> ELSE id]]] :
        kind \in {"get", "post", "grpc"}, list \in BOOLEAN, fails \in BOOLEAN, short \in {0},
        records \in UNION {[1..n -> [id : {"0", "1", "2"}, n : {1, 2}]] : n \in 0..2},
        base \in {<<>>, << <<"id", "0">>, <<"lang", "en">> >>}, ids \in Ids}
    \cup
    {[kind |-> kind, list |-> FALSE, fails |-> fails, short |-> short, records |-> <<>>,
      keys |-> [i \in DOMAIN ids |->
                  [params |-> <<>>, body |-> <<ids[i]>>, headers |-> "h", id |-> <<ids[i]>>]]] :
        kind \in {"graphql", "single"}, fails \in BOOLEAN, short \in {0, 1}, ids \in Ids}

-----------------------------------------------------------------------------
Io == <<"io", TRUE>>
Rule(name, expression, ir) == <<"protect", name, expression, ir>>

\* Query { user, static, secret, node }; user and node have fields of their own.
Index(type, field) ==
    LET of(t, ir) == <<[type |-> t, ir |-> ir]>>
    IN  CASE type = "Query" /\ field = "user" ->
                of("User", <<Rule("a", FALSE, <<"pipe", Rule("b", TRUE, Io), Rule("c", FALSE, Io)>>)>>)
          [] type = "Query" /\ field = "static" -> of("String", << <<"dynamic", TRUE>> >>)
          [] type = "Query" /\ field = "secret" ->
                of("String", <<Rule("d", TRUE, Rule("e", FALSE, <<"dynamic", TRUE>>))>>)
          [] type \in {"User", "Node"} /\ field = "id" -> of("String", <<>>)
          [] type = "User" /\ field = "plain" -> of("User", <<>>)
          [] type = "User" /\ field = "best" ->
                of("User", <<Rule("f", FALSE, <<"cache", 60, TRUE>>)>>)
          [] OTHER -> <<>>

Plans == INSTANCE JitPlan WITH Lookup <- Index

Item(name, alias, skip, include, sel) ==
    [kind |-> "field", name |-> name, alias |-> alias, skip |-> skip, include |-> include,
     sel |-> sel]
Plain(name, sel) == Item(name, <<>>, "none", "none", sel)
Fragment(on, sel) == [kind |-> "fragment", on |-> on, sel |-> sel]

Leaves == {Plain("id", <<>>), Plain("__typename", <<>>), Plain("unknown", <<>>)}
Conditions == {"none", "true", "false", "v", "w"}
Selections ==
    {<<Plain("user", s)>> : s \in
        {<<Item(n, <<>>, k, i, <<Plain("id", <<>>)>>), leaf>> :
            n \in {"best", "plain"}, k \in Conditions, i \in Conditions, leaf \in Leaves}
        \cup {<<Plain("plain", <<Plain("best", <<leaf>>)>>), Fragment("User", <<leaf, other>>)>> :
            leaf \in Leaves, other \in Leaves}}
    \cup {<<Fragment("Query", <<Plain(n, <<>>), Plain("user", <<Plain("id", <<>>)>>)>>),
             Item(m, alias, k, i, <<>>)>> :
            n \in {"static", "secret"}, m \in {"static", "secret"},
            alias \in {<<>>, <<"other">>}, k \in Conditions, i \in Conditions}
    \cup {<<Item("static", <<>>, k, "none", <<>>)>> : k \in {"none", "v"}}

Empty == [n \in {} |-> 0]
Givens(names) == UNION {[N -> {"true", "false", "other"}] : N \in SUBSET names}
TwoOperations ==
    LET a == {<<Plain("static", <<>>)>>, <<Item("static", <<>>, "v", "none", <<>>)>>,
              <<Item("user", <<>>, "none", "v", <<Plain("id", <<>>)>>)>>}
    IN  {<<[name |-> <<"A">>, sel |-> s], [name |-> <<"B">>, sel |-> <<Plain("secret", <<>>)>>]>> : s \in a}

PlanInputs ==
    {[document |-> <<[name |-> <<"A">>, sel |-> s]>>, name1 |-> before[1], first |-> before[2],
      name2 |-> <<>>, second |-> second] :
        s \in Selections,
        before \in {<< <<"A">>, Empty>>, << <<"A">>, [v |-> "true"]>>, << <<"C">>, Empty>>},
        second \in {Empty, [v |-> "true"], [v |-> "other", w |-> "true"]}
                      \cup [{"v", "w"} -> {"true", "false"}]}
    \cup {[document |-> document, name1 |-> name1, first |-> first, name2 |-> name2, second |-> second] :
        document \in TwoOperations, name1 \in {<<>>, <<"A">>, <<"B">>, <<"C">>}, first \in Givens({"v"}),
        name2 \in {<<>>, <<"A">>, <<"B">>, <<"C">>}, second \in Givens({"v"})}

-----------------------------------------------------------------------------
ListOf(type, required) == <<"list", type, required>>
Literal(x) == <<"leaf", x>>

\* input In { a: Int!, b: Int = 1, in: In, of: [Deep!]! = [] }   input Deep { a: Int! = 2 }
Accepts(name) ==
    LET of(n, type, default) == [name |-> n, type |-> type, default |-> default]
    IN  CASE name = "In" -> << <<of("a", Named("Int", TRUE), <<>>), of("b", Named("Int", FALSE), <<Literal(1)>>),
                                of("in", Named("In", FALSE), <<>>),
                                of("of", ListOf(Named("Deep", TRUE), TRUE), << <<"list", <<>> >> >>)>> >>
          [] name = "Deep" -> << <<of("a", Named("Int", TRUE), <<Literal(2)>>)>> >>
          [] OTHER -> <<>>

Given == INSTANCE JitInput WITH InputType <- Accepts

Deeps == {<<"object", Empty>>, <<"null">>, <<"object", [a |-> <<"var", "v">>]>>}
Ins == {<<"object", o>> : o \in
           UNION {[{"a"} -> {Literal(0), <<"null">>, <<"var", "v">>}],
                  [{"b"} -> {<<"null">>}],
                  [{"a", "of"} -> {Literal(0), <<"null">>} \cup {<<"list", <<d>> >> : d \in Deeps}],
                  [{"a", "in"} -> {Literal(0), <<"null">>, <<"object", Empty>>, <<"object", [a |-> Literal(3)]>>}]}}

InputInputs ==
    {[declared |-> <<[name |-> "x", type |-> type, default |-> default],
                     [name |-> "y", type |-> Named("Int", FALSE), default |-> <<>>]>>,
      given |-> given, vars |-> vars] :
        type \in {Named("In", r) : r \in BOOLEAN}
            \cup {ListOf(Named("In", r), r2) : r \in BOOLEAN, r2 \in BOOLEAN},
        default \in {<<>>, << <<"object", [a |-> Literal(4)]>> >>},
        given \in {Empty} \cup {[n \in {"x"} |-> v] : v \in Ins \cup {<<"null">>, <<"var", "v">>}
                                    \cup {<<"list", <<v, <<"object", [a |-> Literal(5)]>> >> >> : v \in Ins \cup {<<"null">>}}}
                   \cup {[x |-> <<"object", [a |-> Literal(6)]>>, y |-> <<"var", "w">>]},
        vars \in {Empty, [v |-> Literal(7)], [v |-> <<"null">>]}}

\* interface Node { id }   User and Post implement it; User has an upstream's
\* fields, one renamed and one with a resolver within another.
Declares(name, type, modify, resolver) ==
    [name |-> name, type |-> type, modify |-> modify, resolved |-> resolver # <<>>, resolver |-> resolver]
Upstreamed ==
    [types |-> [Node |-> <<Declares("id", "ID", <<>>, <<>>)>>,
                User |-> <<Declares("friend", "Node", <<>>, <<>>), Declares("full", "String", << <<"name">> >>, <<>>),
                           Declares("id", "ID", <<>>, <<>>), Declares("lost", "ID", << <<>> >>, <<>>),
                           Declares("posts", "Post", <<>>, <<>>), Declares("saved", "ID", <<>>, <<"other">>),
                           Declares("todo", "Post", <<>>, <<"io">>)>>,
                Post |-> <<Declares("by", "User", <<>>, <<"dynamic">>), Declares("id", "ID", <<>>, <<>>),
                           Declares("title", "ID", <<>>, <<>>)>>],
     unions |-> [Any |-> <<"Post", "User">>]]
TwicePosts ==
    [Upstreamed EXCEPT !.types = [@ EXCEPT !["User"] = Append(@, Declares("views", "Post", <<>>, <<>>))]]

Asking(name, alias, args, directives, sel) ==
    [name |-> name, alias |-> alias, args |-> args, directives |-> directives, sel |-> sel]
Simply(name) == Asking(name, <<>>, <<>>, <<>>, <<>>)

RECURSIVE Planned(_, _, _, _)
Planned(config, type, on, q) ==
    LET found == SelectSeq(config.types[type], LAMBDA d : Given!QueriedAs(d) = <<q.name>>)
        new(of, ir) ==
            [name |-> q.name, out |-> IF q.alias = <<>> THEN q.name ELSE q.alias[1], ir |-> ir, type |-> of,
             on |-> on, args |-> q.args, directives |-> q.directives,
             sel |-> [i \in DOMAIN q.sel |->
                        Planned(config, IF q.sel[i][1] = <<>> THEN of ELSE q.sel[i][1][1], q.sel[i][1], q.sel[i][2])]]
    IN  IF q.name = "__typename" THEN new("String", <<>>)
        ELSE new(found[1].type, IF found[1].resolved THEN found[1].resolver
                                ELSE IF found[1].modify = <<>> THEN <<>> ELSE <<"path", found[1].name>>)

InUser == {Simply("name"), Simply("saved"), Asking("todo", <<>>, <<>>, <<>>, << << <<>>, Simply("title")>> >>),
           Asking("posts", <<"p">>, << <<"first", << <<"leaf", 1>> >> >>, <<"last", <<>> >> >>, <<>>,
                 << << <<>>, Asking("title", <<>>, <<>>, << << <<"if", <<"var", "v">> >>, <<"of", <<"null">> >> >> >>, <<>>)>>,
                    << <<>>, Asking("by", <<>>, <<>>, <<>>, << << <<>>, Simply("id")>> >>)>> >>)}
InPost == {Simply("title"), Asking("by", <<"id">>, <<>>, <<>>, << << <<>>, Simply("name")>> >>)}
OfNode ==
    {<< << <<>>, Simply(n)>>, << <<"User">>, u>>, << <<"Post">>, p>> >> :
        n \in {"id"}, u \in InUser, p \in InPost}
    \cup {<< << <<on>>, Simply("__typename")>>, << <<"User">>, u>> >> : on \in {"User"}, u \in InUser}
    \cup {<< << <<>>, Simply("__typename")>> >>}

SelectInputs ==
    {[config |-> config, type |-> type, sel |-> sel, of |-> of, vars |-> vars] :
        config \in {Upstreamed, TwicePosts}, vars \in {Empty, [v |-> Literal("yes")]},
        <<type, sel, of>> \in
            {<<"Node", sel, (<<>> :> t)  @@ (<<"posts">> :> "Post")>> : sel \in OfNode, t \in {"User", "Post"}}
            \cup {<<"Any", << << <<"User">>, u>>, << <<"Post">>, Simply("title")>> >>, (<<>> :> t) @@ (<<"posts">> :> "Post")>> :
                   u \in InUser, t \in {"User", "Post"}}
            \cup {<<"User", << << <<>>, u>>, << <<>>, Asking("friend", <<>>, <<>>, <<>>, sel)>> >>,
                   (<<>> :> "User") @@ (<<"friend">> :> t) @@ (<<"posts">> :> "Post") @@ (<<"friend", "posts">> :> "Post")>> :
                   u \in InUser, sel \in OfNode, t \in {"User", "Post"}}}

RootOf(q) ==
    [name |-> "root", out |-> "root", ir |-> <<"io">>, type |-> q.type, on |-> <<>>, args |-> <<>>,
     directives |-> <<>>,
     sel |-> [i \in DOMAIN q.sel |->
                Planned(q.config, IF q.sel[i][1] = <<>> THEN q.type ELSE q.sel[i][1][1],
                        q.sel[i][1], q.sel[i][2])]]

-----------------------------------------------------------------------------
\* An object of a type, with a list of two objects in it; "3" cannot be resolved
\* further, and below "2" there is nothing.
Leaf(x) == <<"leaf", x>>
Plural(values) == <<"list", values>>
Bare(type, id) == <<"object", << <<"__typename", Leaf(type)>>, <<"id", Leaf(id)>> >> >>
Whole(type, id, items) ==
    <<"object", Append(Bare(type, id)[2], <<"items", Plural(items)>>)>>
Some == <<Bare("A", "4"), Bare("B", "5")>>

Resolvers == [one |-> <<Whole("A", "1", Some)>>,
              list |-> <<Plural(<<Whole("B", "1", Some), Whole("A", "2", <<>>)>>)>>,
              broken |-> <<Plural(<<Bare("A", "3"), Bare("B", "1")>>)>>,
              holes |-> <<Plural(<< <<"null">>, Whole("B", "4", <<Bare("A", "2")>>), Leaf("bad")>>)>>,
              nested |-> <<Plural(<<Plural(Some), Plural(<<>>), Plural(<<Bare("A", "1")>>)>>)>>,
              null |-> << <<"null">> >>, fails |-> <<>>]

ResolveOn(resolver, v) ==
    LET id == SelectSeq(v[2], LAMBDA p : p[1] = "id")[1][2]
    IN  IF resolver \in DOMAIN Resolvers THEN Resolvers[resolver]
        ELSE IF v[1] = "leaf" THEN << <<"null">> >>
        ELSE IF id = Leaf("3") THEN <<>>
        ELSE IF id = Leaf("2") THEN << <<"null">> >>
        ELSE IF resolver = "self" THEN <<Bare("A", id)>>
        ELSE <<Plural(<<Bare("A", id), Bare("B", "1")>>)>>

Responses == INSTANCE JitResponse WITH
    Resolve <- ResolveOn, Implements <- LAMBDA type, on : type = on \/ on = "Any"

Typed(id, name, out, ir, on, type, kind, sel) ==
    [id |-> id, name |-> name, out |-> out, ir |-> ir, on |-> on, type |-> "Any",
     list |-> type[1], nullable |-> type[2], elementNullable |-> type[3], kind |-> kind, sel |-> sel]
Single == <<FALSE, TRUE, TRUE>>
LeafOf(id, kind) == Typed(id, "id", "id", <<>>, "Any", Single, kind, <<>>)
Types == BOOLEAN \X BOOLEAN \X BOOLEAN

Children(id) ==
    {Typed(id, n[1], n[2], <<ir>>, on, type, "object", <<LeafOf(id + 1, "leaf")>>) :
        n \in {<<"by", "by">>}, ir \in {"self", "pair"}, on \in {"A", "Any"}, type \in Types}
    \cup {Typed(id, "__typename", "t", <<>>, "Any", Single, "leaf", <<>>),
          Typed(id, "gone", "gone", <<>>, "B", Single, "leaf", <<>>),
          LeafOf(id, "email"), LeafOf(id, "enum")}

Inner == {Typed(10, "items", out, <<>>, "Any", <<TRUE, TRUE, n>>, "object", <<child>>) :
            out \in {"items", "alias"}, n \in BOOLEAN, child \in Children(11)}

ResponseInputs ==
    {<<Typed(1, "root", "root", <<ir>>, "Any", type, kind, <<child>>)>> :
        ir \in DOMAIN Resolvers, type \in Types, kind \in {"object"}, child \in Children(2) \cup Inner}
    \cup {<<Typed(1, "root", "root", <<ir>>, "Any", type, kind, <<>>), LeafOf(2, "leaf")>> :
        ir \in DOMAIN Resolvers, type \in Types, kind \in {"json", "email", "enum", "leaf"}}

-----------------------------------------------------------------------------
Irs == INSTANCE IrEval

Said(x) == <<"str", x>>
Object(f) == <<"obj", f>>
World ==
    [object |-> <<Object([a |-> Said("x"), n |-> <<"null">>])>>,
     typed |-> <<Object([type |-> Said("A"), a |-> <<"enum", "x">>])>>,
     keyed |-> <<Object([B |-> Object([a |-> Said("1")])])>>,
     many |-> << <<"list", <<Object([type |-> Said("B")]), <<"null">>, Object([type |-> Said("A")])>> >> >>,
     mixed |-> << <<"list", <<Object([type |-> Said("C")]), Said("x")>> >> >>,
     known |-> << <<"list", <<Object([__typename |-> Said("A"), id |-> <<"num", 1>>])>> >> >>,
     other |-> <<Object([type |-> Said("C")])>>, text |-> <<Said("x")>>, null |-> << <<"null">> >>, fails |-> <<>>]

Template(path) == <<"mustache", path>>
Dynamics ==
    {<<"value", <<"num", 1>> >>, Template(<<"value", "a">>), Template(<<"args", "a">>), Template(<<"vars", "v">>),
     Template(<<"gone">>), <<"object", [a |-> Template(<<"args", "n">>), b |-> <<"value", Said("1")>>]>>,
     <<"object", [representations |-> Template(<<"value">>)]>>, <<"array", <<Template(<<"args">>)>> >>}
Reading == {<<"io", r>> : r \in DOMAIN World} \cup {<<"dynamic", d>> : d \in Dynamics}
             \cup {<<"context", <<"a">> >>}
Around(I) ==
    {<<"path", i, p>> : i \in I, p \in {<<"a">>, <<"0", "id">>}}
    \cup {<<"protect", {"p"}, i>> : i \in I} \cup {<<"map", [x |-> "y"], i>> : i \in I}
    \cup {<<"discriminate", {"A", "B"}, field, i>> : i \in I, field \in {<<>>, <<"type">>}}
    \cup {<<"entity", [t \in {"A"} |-> i]>> : i \in I}
Both == {<<kind, i, j>> : kind \in {"pipe"}, i \in Reading, j \in Reading \cup Around(Reading)}
            \cup {<<"merge", <<i, j>> >> : i \in Reading, j \in Reading}
            \cup {<<"merge", <<i, j, <<"io", "object">> >> >> : i \in Reading, j \in {<<"io", "keyed">>, <<"io", "typed">>}}

IrContext(value, auth) ==
    [value |-> value, args |-> <<Object([a |-> <<"enum", "x">>, n |-> <<"num", 2>>])>>, copied |-> {},
     vars |-> [v |-> "2"], auth |-> auth, world |-> World,
     kept |-> <<>>, keyed |-> DOMAIN World \ {"mixed"}]
IrInputs ==
    {[ir |-> ir, field |-> field, ctx |-> IrContext(value, auth)] :
        ir \in Reading \cup Around(Reading) \cup Both \cup Around({b \in Both : b[1] = "merge"}),
        field \in {<<>>, <<"type">>}, value \in {<<>>, World["object"]}, auth \in {{"p"}}}

-----------------------------------------------------------------------------
Tracker == INSTANCE NpoTracker

Of(name, type, list, resolver, batched) ==
    [name |-> name, type |-> type, list |-> list, resolver |-> resolver, batched |-> batched]

\* Q, A and B refer to each other, in lists or not; qb and ab have resolvers, or not.
TypeConfigs ==
    {[query |-> <<"Q">>, order |-> <<"A", "B">>,
      types |-> [Q |-> [entity |-> "none", fields |-> <<Of("qa", "A", l[1], FALSE, FALSE),
                                                       Of("qb", "B", l[2], r, FALSE)>>],
                 A |-> [entity |-> e, fields |-> <<Of("ab", "B", l[3], r, c), Of("aa", "A", l[4], FALSE, FALSE),
                                                  Of("ax", "Int", FALSE, TRUE, FALSE)>>],
                 B |-> [entity |-> "none", fields |-> <<Of("ba", "A", l[5], FALSE, FALSE),
                                                       Of("by", "Int", FALSE, TRUE, c)>>]]] :
        l \in [1..5 -> BOOLEAN], r \in BOOLEAN, c \in BOOLEAN, e \in {"none", "alone", "batched"}}

ChunkInputs == UNION {[1..n -> {"clone", "swap", "append", "prepend", "concat", "flatten", "materialize"}] :
                        n \in 0..5}

-----------------------------------------------------------------------------
Under(pieces) == FlattenSeq([i \in DOMAIN pieces |-> <<"/", pieces[i]>>])
Op(name, rest, type) ==
    [name |-> name, types |-> [v \in {"id", "q"} |-> IF v = "q" THEN "String" ELSE type], rest |-> rest]
At(method, path, body) ==
    <<[method |-> method, path |-> path, query |-> [k \in {"q"} |-> "q"], body |-> body]>>

Patterns == {<<>>, << <<"users">> >>, << <<"$", "id">> >>, << <<"users">>, <<"$", "id">> >>,
             << <<"$", "id">>, <<"users">> >>, << <<"$", "gone">> >>}
\* In either order, the operations being a hash map.
OperationSets ==
    LET a == {Op("a", At("GET", p, <<>>), t) : p \in Patterns, t \in {"String", "Int", "[Int]"}}
        b == {Op("b", r, "Int") :
                r \in {<<>>} \cup {At("GET", q, body) : q \in Patterns, body \in {<<>>, <<"id">>}}}
    IN  {<<x, y>> : x \in a, y \in b} \cup {<<y, x>> : x \in a, y \in b}

Server(ops, cors, extra) ==
    [operations |-> ops, cors |-> cors, graphql |-> <<"/", "graphql">>, status |-> <<"/", "status">>,
     metrics |-> <<"/", "metrics">>, showcase |-> extra, spa |-> extra,
     headers |-> [h \in {"allow-origin"} |-> "configured"]]

Cors == {c \in [credentials : BOOLEAN, origins : {<<>>, <<"*">>, <<"o", "p">>}, private : {FALSE},
                methods : {<<>>, <<"GET">>}, headers : {<<"*">>, <<"h">>}, expose : {<<>>}] :
           Handler!UsableCors(c)}

Ask(method, path, origin, body) ==
    [method |-> method, path |-> path, query |-> [k \in {"q"} |-> <<"x">>], origin |-> origin,
     private |-> FALSE, body |-> body]

Paths == {Under(<<"api">> \o p) : p \in UNION {[1..n -> {"users", "1", "api"}] : n \in 0..3}}
            \cup {Under(<<"users">>), <<"/", "api", "x">>, <<"/", "api", "x", "/", "users">>, Under(<<"users", "api", "1">>)}
OtherPaths == {Under(p) : p \in {<<"graphql">>, <<"status">>, <<"metrics">>, <<"gone">>,
                                 <<"showcase", "graphql">>, <<"api">>, <<"api", "users", "1">>}}

FromUpstream == [h \in {"allow-origin"} |-> "upstream"]
HttpInputs ==
    {[server |-> Server(ops, <<>>, FALSE), request |-> Ask(asked[1], path, <<>>, asked[2]), upstream |-> FromUpstream] :
        ops \in {o \in OperationSets : Handler!Accepted(o)}, path \in Paths,
        asked \in {<<"GET", <<>> >>, <<"GET", <<"body">> >>, <<"POST", <<>> >>}}
    \cup {[server |-> Server(<<Op("a", At("GET", << <<"users">>, <<"$", "id">> >>, <<>>), "Int")>>,
                             cors, extra), request |-> Ask(method, path, origin, <<>>), upstream |-> FromUpstream] :
        cors \in {<<>>} \cup {<<c>> : c \in Cors}, extra \in BOOLEAN,
        method \in {"GET", "POST", "OPTIONS"}, path \in OtherPaths,
        origin \in {<<>>, <<"o">>, <<"stranger">>, <<"gqlforge">>}}

Policies == [age : {<<>>, <<0>>, <<30>>, <<60>>}, success : BOOLEAN,
             scope : {"none", "public", "private", "no-cache"}]
CacheInputs ==
    {[enabled |-> enabled, size |-> size, policies |-> policies] :
        enabled \in BOOLEAN, size \in 1..2, policies \in UNION {[1..n -> Policies] : n \in 0..2}}

\* What a plan and the introspection answered, and a request as it arrives.
Halves(names) ==
    {[data |-> d, errors |-> e] :
        d \in {<<"null">>} \cup {<<"object", [i \in DOMAIN n |-> <<n[i], <<"leaf", v>> >>]>> : n \in names, v \in {1}},
        e \in {<<>>, <<"e">>}}
Bodies == [type : {"application/graphql", "application/json"}, json : BOOLEAN, backslash : BOOLEAN, quoted : BOOLEAN]
OneRequest ==
    {[before |-> b, input |-> i, introspects |-> x, own |-> own, schema |-> schema] :
        b \in {<<>>, <<"auth">>}, i \in {<<>>, <<"missing">>}, x \in BOOLEAN,
        own \in Halves({<<>>, <<"a">>, <<"a", "b">>, <<"__typename", "a">>}),
        schema \in {[data |-> <<"null">>, errors |-> <<"deep">>],
                    [data |-> <<"object", << <<"__schema", <<"leaf", 2>> >>, <<"__typename", <<"leaf", 2>> >> >> >>, errors |-> <<>>]}}
ReplyInputs ==
    {[requests |-> <<r>>, body |-> body] : r \in OneRequest, body \in Bodies}
    \cup {[requests |-> <<r, q>>, body |-> body] :
            r \in {x \in OneRequest : x.before = <<>> /\ x.introspects},
            q \in {x \in OneRequest : x.input = <<>> /\ ~x.introspects}, body \in {CHOOSE x \in Bodies : TRUE}}

-----------------------------------------------------------------------------
\* The families, one initial state each.
Families ==
    {"sql", "redis", "stream", "text", "key", "batch", "plan", "types",
     "chunk", "http", "cache", "unify", "keys", "transform", "ddl", "sdl",
     "doc", "response", "ir", "access", "auth", "field", "call", "added",
     "template", "roots", "keep", "schema", "answer", "args", "grouped",
     "proto", "imports", "column", "hook", "start", "upstream", "server",
     "limit", "loaders", "sample", "unwrap", "input", "select", "selecting",
     "https", "constant", "templated", "client", "streaming", "federation", "enum",
     "define", "codec", "link", "reply", "headers"}

MCInit == family = "none" /\ input \in Families

Pick(f, Inputs) == input = f /\ family' = f /\ input' \in Inputs

MCNext ==
    /\ family = "none"
    /\ \/ Pick("sql", SqlInputs)
       \/ Pick("redis", RedisInputs)
       \/ Pick("stream", StreamInputs)
       \/ Pick("text", TextInputs)
       \/ Pick("key", KeyInputs)
       \/ Pick("batch", BatchInputs)
       \/ Pick("plan", PlanInputs)
       \/ Pick("types", TypeConfigs)
       \/ Pick("chunk", ChunkInputs)
       \/ Pick("http", HttpInputs)
       \/ Pick("cache", CacheInputs)
       \/ Pick("unify", UnifyInputs)
       \/ Pick("keys", KeyedInputs)
       \/ Pick("transform", TransformInputs)
       \/ Pick("ddl", DdlInputs)
       \/ Pick("sdl", SdlInputs)
       \/ Pick("doc", DocInputs)
       \/ Pick("response", ResponseInputs)
       \/ Pick("reply", ReplyInputs)
       \/ Pick("headers", HeaderInputs)
       \/ Pick("ir", IrInputs)
       \/ Pick("access", AccessInputs)
       \/ Pick("auth", AuthInputs)
       \/ Pick("field", FieldInputs)
       \/ Pick("call", CallInputs)
       \/ Pick("added", AddedInputs)
       \/ Pick("template", TemplateInputs)
       \/ Pick("roots", RootInputs)
       \/ Pick("keep", KeepInputs)
       \/ Pick("schema", SchemaInputs)
       \/ Pick("answer", AnswerInputs)
       \/ Pick("define", DefineInputs)
       \/ Pick("args", ArgInputs)
       \/ Pick("grouped", GroupedInputs)
       \/ Pick("proto", ProtoInputs)
       \/ Pick("imports", ImportInputs)
       \/ Pick("link", LinkInputs)
       \/ Pick("column", ColumnInputs)
       \/ Pick("hook", HookInputs)
       \/ Pick("codec", CodecInputs)
       \/ Pick("start", StartInputs)
       \/ Pick("upstream", UpstreamInputs)
       \/ Pick("server", ServerInputs)
       \/ Pick("limit", LimitInputs)
       \/ Pick("loaders", LoaderInputs)
       \/ Pick("sample", SampleInputs)
       \/ Pick("unwrap", TransformConfigs)
       \/ Pick("input", InputInputs)
       \/ Pick("select", SelectInputs)
       \/ Pick("selecting", SelectingInputs)
       \/ Pick("https", HttpsInputs)
       \/ Pick("constant", ConstantInputs)
       \/ Pick("templated", TemplatedInputs)
       \/ Pick("client", ClientInputs)
       \/ Pick("streaming", StreamingInputs)
       \/ Pick("federation", FederationInputs)
       \/ Pick("enum", EnumInputs)

MCSpec == MCInit /\ [][MCNext]_<<family, input>>

\* compile_redis(), RequestTemplate::render(): a field that is accepted sends a
\* command Redis takes, and its reply is the field's value.
\* is_a(), validate_schema(), to_message(), load_with_group_by(): so it is with gRPC, and
\* row_value_to_const(), to_sql(): so are the columns of a row.
FieldIsServed ==
    /\ family = "redis" =>
        Redis!FieldIsServed(input.d, input.root, input.links, input.arg, input.hash)
    /\ GrpcIsServed
    /\ family = "column" => ColumnsAreRead(input)

\* JITExecutor::execute(), collect_fields(), AuthPlanner: the plan another
\* request of a query left behind serves it like its own, and as GraphQL selects.
\* InputResolver, GraphQL::transform(), create_related_fields(): its resolvers get
\* complete arguments, and an upstream is asked for what is read of its answer.
PlanServesQuery ==
    /\ family = "input" => Given!InputsAreComplete(input.declared, input.given, input.vars)
    /\ family = "select" =>
        /\ Given!SelectionIsRead(RootOf(input), {"Node"}, input.config, input.vars, input.of)
        /\ Given!StreamIsRead(RootOf(input), input.config, input.vars, input.of)
    /\ family = "plan" =>
        Plans!PlanServesQuery(input.document, input.name1, input.first, input.name2, input.second)

\* ExecutorInner::execute(), Synth: the response assembled from the store is the
\* one of every field resolved on its own parent.
\* IR::eval(), Discriminator, Cache::wrap(), AccessExpr: what a resolver's expression
\* yields is what its directives say, read from where it should be, once.
\* execute_with_worker(): a script sees every request and answer it is hooked to;
\* AuthVerifier::verify(): who gets through is who the providers let through.
ResultsFindTheirPlace ==
    /\ family = "response" => Responses!ResultsFindTheirPlace(input)
    /\ family = "reply" => Responses!RepliesAreWhole(input.requests, input.body)
    /\ family = "ir" =>
        /\ Irs!EvaluatesAsMeant(input.ir, {"A", "B"}, input.field, input.ctx)
        /\ input.ir[1] = "dynamic" =>
              Irs!ConstantsDoNotVary(input.ir[2], input.ctx, [input.ctx EXCEPT !.args = <<>>])
    /\ family = "hook" =>
        Hooks!HookedAsMeant(input.hooks, input.script, input.upstream, Hooks!Request("a", input.item))
    /\ family = "codec" => Hooks!CrossesUnharmed(input)
    /\ family = "access" =>
        /\ Access!ReadAsWritten(input.e) /\ Access!NothingSkipped(input.tokens)
        /\ \A a \in {<<"str", "1">>, <<"num", 1>>} : \A f \in SUBSET {<<"args">>} :
              Access!LackingIsNoLiteral([p \in f |-> a], <<"args">>, <<"num", 1>>)
    /\ family = "auth" =>
        /\ Access!LetThroughAsAsked(input.auth, input.header)
        /\ Access!ProtectedAsAsked(input.auth, input.expr, input.header, input.shared, [p \in {<<"args">>} |-> <<"num", 1>>])
        /\ \A users \in {<<>>, <<{"u"}>>} : \A keys \in {<<>>, <<{"k"}, {"l"}>>} :
              Access!NoHeaderIsBoth(users, [i \in DOMAIN keys |-> SetToSeq({Signing[k] : k \in keys[i]})],
                                    input.header)

\* PathTracker::find(): the fields reported are those a query can ask N + 1 times;
\* and the chunks its paths are built of, Chunk::concat(), hold what they held.
EveryProneFieldFound ==
    /\ family = "types" => Tracker!EveryProneFieldFound(input)
    /\ family = "chunk" =>
        Tracker!ChunkIsPersistent([handles |-> << <<"empty">>, <<"empty">> >>, nodes |-> <<>>,
                                   cells |-> <<>>], << <<>>, <<>> >>, input)
=============================================================================
