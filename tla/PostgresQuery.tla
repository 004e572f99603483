---------------------------- MODULE PostgresQuery ----------------------------
(***************************************************************************)
(* @postgres and @greptimedb: what the blueprint accepts                   *)
(* (src/core/blueprint/operators/postgres.rs) and the parameterised SQL a  *)
(* template renders for a request (src/core/postgres/request_template.rs). *)
(*                                                                         *)
(* Something optional is a sequence of at most one element.  A JSON object *)
(* is a sequence of <<key, value>> with distinct keys; a value is a        *)
(* literal, "null", or "arg": an expression over the field's arguments.    *)
(***************************************************************************)
EXTENDS Naturals, FiniteSets, SequencesExt

CONSTANT Camel   \* column -> its name in camel case

Databases == {"Postgres", "GreptimeDb", "AuroraDsql"}

\* filter(): SelectSeq, for a set and by recursion on the sequence's length.
Only(s, S) ==
    LET kept[n \in 0..Len(s)] ==
            IF n = 0 THEN <<>>
            ELSE IF s[n] \in S THEN Append(kept[n - 1], s[n]) ELSE kept[n - 1]
    IN  kept[Len(s)]

\* DatabaseDirective::matches_connection
Matches(d, type) ==
    type \in IF d.name = "@postgres" THEN {"Postgres", "AuroraDsql"} ELSE {"GreptimeDb"}

\* DatabaseDirective::result_mode
ResultMode(d) ==
    IF d.name = "@greptimedb" /\ d.op \in {"Insert", "Delete"} THEN "AffectedRows" ELSE "Rows"

(***************************************************************************)
(* compile_postgres(): the connection, by explicit id or because there is  *)
(* only one; none if the directive is refused.                             *)
(***************************************************************************)
Linked(c) == {l \in ToSet(c.links) : l.type \in Databases}
Named(c, id) == Only(c.links, {l \in Linked(c) : l.id = id})

\* Mutated form: any database link with the id will do.
ByName_AnyKind(d, c) == d.db

ByName(d, c) ==
    LET found == Named(c, d.db[1])
    IN  IF found # <<>>
        THEN IF Matches(d, found[1].type) THEN d.db ELSE <<>>
        ELSE IF Linked(c) # {} THEN <<>> ELSE d.db

ByDefault(d, c) ==
    LET own == Only(c.links, {l \in Linked(c) : Matches(d, l.type)})
    IN  IF Len(own) = 1 THEN <<own[1].id>>
        ELSE IF Linked(c) # {} \/ Len(c.schemas) > 1 THEN <<>>
        ELSE IF c.schemas = <<>> THEN <<"default">> ELSE <<c.schemas[1].id>>

Connection(d, c) == IF d.db # <<>> THEN ByName(d, c) ELSE ByDefault(d, c)

\* find_database_schema(): the first schema of that id.
Schema(c, id) ==
    LET s == Only(c.schemas, {x \in ToSet(c.schemas) : x.id = id})
    IN  IF s = <<>> THEN <<>> ELSE <<s[1].tables>>

QualifiedName(t) == <<t.schema, t.name>>

\* DatabaseSchema::find_table(): by its qualified name, in "public", or the
\* only one of that name; a qualified name is looked for nowhere else.
FindTable(tables, name) ==
    LET at(key) == Only(tables, {t \in ToSet(tables) : QualifiedName(t) = key})
        public == at(<<"public">> \o name)
        named == Only(tables, {t \in ToSet(tables) : <<t.name>> = name})
    IN  IF at(name) # <<>> THEN <<at(name)[1]>>
        ELSE IF public # <<>> THEN <<public[1]>>
        ELSE IF Len(named) = 1 THEN named ELSE <<>>

InSchema(schema, name) == IF schema = <<>> THEN <<>> ELSE FindTable(schema[1], name)
Table(d, c, id) == InSchema(Schema(c, id), d.table)

Writes == {"Insert", "Update", "Delete"}

TableValid(d, schema, table) ==
    /\ schema # <<>> => table # <<>>
    /\ \A i \in DOMAIN table : table[i].view => d.op \notin Writes

Template(d, id, table) ==
    [io |-> "Postgres", connection |-> id, op |-> d.op,
     mode |-> ResultMode(d), filter |-> d.filter, input |-> d.input,
     limit |-> d.limit, offset |-> d.offset, order |-> d.order,
     table |-> IF table = <<>> THEN d.table ELSE QualifiedName(table[1]),
     columns |-> IF table = <<>> THEN <<>> ELSE table[1].columns]

\* LISTEN belongs to subscriptions of @postgres, and to nothing else.
Compiled(d, root, id, schema, table) ==
    IF d.op = "Listen"
    THEN IF d.name = "@postgres" /\ d.channel = "valid" /\ root = "Subscription"
         THEN <<[io |-> "PostgresStream", connection |-> id]>> ELSE <<>>
    ELSE IF root = "Subscription" \/ ~TableValid(d, schema, table) THEN <<>>
    ELSE <<Template(d, id, table)>>

CompileOn(d, root, c, id) == Compiled(d, root, id, Schema(c, id), Table(d, c, id))
Compile(d, root, c) ==
    LET id == Connection(d, c)
    IN  IF id = <<>> THEN <<>> ELSE CompileOn(d, root, c, id[1])

(***************************************************************************)
(* RequestTemplate::render(), for the value the request's argument has.    *)
(***************************************************************************)
Value(v, arg) == IF v = "arg" THEN arg ELSE v

\* Mustache::render: a missing or null value is the empty string.
Text(v, arg) == IF Value(v, arg) = "null" THEN "" ELSE Value(v, arg)

Candidates(cols, name) ==
    IF cols = <<>> \/ name \in ToSet(cols) THEN {name} ELSE {c \in ToSet(cols) : Camel[c] = name}

\* resolve_columns(): every key is a column, or the camel case of just one.
Resolves(cols, object) ==
    \A i \in DOMAIN object : Cardinality(Candidates(cols, object[i][1])) = 1
Resolved(cols, object, arg) ==
    [i \in DOMAIN object |-> [col |-> CHOOSE c \in Candidates(cols, object[i][1]) : TRUE,
                              val |-> Value(object[i][2], arg)]]

Params(entries) == Only(entries, {e \in ToSet(entries) : e.val # "null"})

\* Mutated form: the clauses of the filter count from one again.
Where_FromOne(entries, offset) ==
    [i \in DOMAIN entries |->
        [col |-> entries[i].col,
         param |-> IF entries[i].val = "null" THEN 0
                   ELSE Len(Params(SubSeq(entries, 1, i)))]]

\* render_filter(): col = $n, or col IS NULL (param 0); none means TRUE.
Where(entries, offset) ==
    [i \in DOMAIN entries |->
        [col |-> entries[i].col,
         param |-> IF entries[i].val = "null" THEN 0
                   ELSE offset + Len(Params(SubSeq(entries, 1, i)))]]

Values(entries) == [i \in DOMAIN entries |-> entries[i].val]

\* sanitize_order_by(): unknown columns and odd directions are left out.
OrderBy(t) ==
    IF t.columns = <<>> THEN <<>>
    ELSE LET known == Only(t.order, {o \in ToSet(t.order) :
                          /\ Cardinality(Candidates(t.columns, o.col)) = 1
                          /\ o.dir \in {"", "ASC", "DESC"}})
         IN  [i \in DOMAIN known |->
                 [known[i] EXCEPT !.col = CHOOSE c \in Candidates(t.columns, @) : TRUE]]

\* select_columns(): a column whose camel case is no column comes twice.
Selected(t) ==
    IF t.columns = <<>> THEN <<"*">>
    ELSE FlattenSeq([i \in DOMAIN t.columns |->
            LET c == t.columns[i]
            IN  IF Camel[c] = c \/ Camel[c] \in ToSet(t.columns) THEN <<c>> ELSE <<c, Camel[c]>>])

Sql(t, where, set, tail, returning, params) ==
    <<[verb |-> t.op, table |-> t.table, where |-> where, set |-> set,
       order |-> IF t.op = "Select" THEN OrderBy(t) ELSE <<>>, tail |-> tail,
       returning |-> returning, params |-> params]>>

\* LIMIT and OFFSET, those that come to something.
Paging(given, arg) ==
    LET texts == [i \in DOMAIN given |-> Text(given[i], arg)]
    IN  Only(texts, ToSet(texts) \ {""})

RenderSelect(t, filter, arg) ==
    LET where == Params(filter)
        paging == IF t.op = "SelectOne" THEN <<>> ELSE Paging(t.limit \o t.offset, arg)
    IN  Sql(t, Where(filter, 0), <<>>,
            [i \in DOMAIN paging |-> Len(where) + i],
            Selected(t), Values(where) \o paging)

RenderInsert(t, input) ==
    IF input = <<>> THEN <<>>
    ELSE Sql(t, <<>>, [i \in DOMAIN input |-> [col |-> input[i].col, param |-> i]], <<>>,
             IF t.mode = "Rows" THEN Selected(t) ELSE <<>>, Values(input))

\* Mutated form: a filter that comes to nothing is not noticed.
Bounded_NotNoticed(t, filter) == t.filter # <<>>

\* Neither UPDATE nor DELETE goes without a filter that has a condition.
Bounded(t, filter) == t.filter # <<>> /\ filter # <<>>

RenderUpdate(t, input, filter) ==
    IF input = <<>> \/ ~Bounded(t, filter) THEN <<>>
    ELSE Sql(t, Where(filter, Len(input)),
             [i \in DOMAIN input |-> [col |-> input[i].col, param |-> i]], <<>>,
             Selected(t), Values(input) \o Values(Params(filter)))

RenderDelete(t, filter) ==
    IF ~Bounded(t, filter) THEN <<>>
    ELSE Sql(t, Where(filter, 0), <<>>, <<>>, <<>>, Values(Params(filter)))

Render(t, arg) ==
    LET object(o) == IF o = <<>> THEN <<>> ELSE o[1]
        input == object(t.input)
        filter == object(t.filter)
        F == Resolved(t.columns, filter, arg)
        I == Resolved(t.columns, input, arg)
    IN  IF t.op # "Insert" /\ ~Resolves(t.columns, filter) THEN <<>>
        ELSE IF t.op \in {"Insert", "Update"} /\ ~Resolves(t.columns, input) THEN <<>>
        ELSE CASE t.op \in {"Select", "SelectOne"} -> RenderSelect(t, F, arg)
               [] t.op = "Insert" -> RenderInsert(t, I)
               [] t.op = "Update" -> RenderUpdate(t, I, F)
               [] t.op = "Delete" -> RenderDelete(t, F)

-----------------------------------------------------------------------------
Bound(where) == Only(where, {w \in ToSet(where) : w.param # 0})
Used(q) ==
    {q.where[i].param : i \in DOMAIN q.where} \cup {q.set[i].param : i \in DOMAIN q.set}
        \cup ToSet(q.tail)

IsBounded(q, tables) ==
    /\ Used(q) \ {0} = 1..Len(q.params)
    /\ Len(Bound(q.where)) + Len(q.set) + Len(q.tail) = Len(q.params)
    /\ \A i \in DOMAIN q.params : q.params[i] = "null" => \E s \in ToSet(q.set) : s.param = i
    /\ q.verb \in {"Update", "Delete"} => q.where # <<>>
    /\ \A t \in tables :
          /\ \A w \in ToSet(q.where) \cup ToSet(q.set) : w.col \in ToSet(t.columns)
          /\ \A o \in ToSet(q.order) : o.col \in ToSet(t.columns)
          /\ t.view => q.verb \notin Writes

Statement(io, arg) == IF io # <<>> /\ io[1].io = "Postgres" THEN Render(io[1], arg) ELSE <<>>

BoundedIn(d, c, io, q) == q # <<>> => IsBounded(q[1], ToSet(Table(d, c, io[1].connection)))

\* compile_postgres(), render(): a statement sends each of its parameters under
\* exactly one placeholder and in order; it writes or deletes only rows that
\* meet a condition; and where the schema is known it touches only columns of
\* its table, and no view.
StatementIsBounded(d, root, c, arg) ==
    LET io == Compile(d, root, c)
    IN  BoundedIn(d, c, io, Statement(io, arg))

\* compile_postgres(): a directive runs against a connection of its own kind
\* of database whenever the configuration links any.
ConnectionOfItsKind(d, root, c) ==
    LET io == Compile(d, root, c)
    IN  io # <<>> =>
        \A i \in DOMAIN c.links :
            /\ c.links[i].type \in Databases
            /\ \A j \in 1..(i - 1) : c.links[j].id # io[1].connection
            /\ c.links[i].id = io[1].connection
            => Matches(d, c.links[i].type)
=============================================================================
