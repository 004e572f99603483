----------------------------- MODULE SqlSchema -----------------------------
(***************************************************************************)
(* The schema of a PostgreSQL database: as parse_migrations() reads it off *)
(* DDL (src/core/postgres/sql_parser.rs), as introspect() reads it off the *)
(* database that ran the same DDL (introspector.rs), and the configuration *)
(* from_database() makes of it (src/core/generator/from_database.rs).      *)
(*                                                                         *)
(* A name is <<table>> or <<schema, table>>; a schema maps such pairs to   *)
(* [columns, pk, fks, view].  Unique constraints, which nothing reads, are *)
(* left out.  Something optional is a sequence of at most one element.     *)
(***************************************************************************)
EXTENDS Naturals, FiniteSets, SequencesExt

CONSTANTS Camel(_), Pascal(_), Plural(_)

With(F, n, v) == [m \in DOMAIN F \cup {n} |-> IF m = n THEN v ELSE F[m]]
Names(columns) == {columns[i].name : i \in DOMAIN columns}
Find(columns, name) == SelectSeq(columns, LAMBDA c : c.name = name)

\* extract_schema_and_name(), format_object_name()
Qualified(name) == IF Len(name) = 1 THEN <<"public">> \o name ELSE name

\* DatabaseSchema::find_table(): as it is, in public, or where there is only one.
FindTable(schema, name) ==
    LET own == {q \in DOMAIN schema : q[2] = Last(name)}
    IN  IF Qualified(name) \in DOMAIN schema THEN <<schema[Qualified(name)]>>
        ELSE IF Len(name) = 1 /\ Cardinality(own) = 1 THEN <<schema[CHOOSE q \in own : TRUE]>>
        ELSE <<>>

-----------------------------------------------------------------------------
(* Types: PgType::from_sql_name(), data_type_to_pg_type(), graphql_scalar()  *)
Serials == {"smallserial", "serial", "bigserial"}

FromSqlName(name) ==
    CASE name \in {"smallint", "int2", "smallserial"} -> "SmallInt"
      [] name \in {"integer", "int", "int4", "serial"} -> "Integer"
      [] name \in {"bigint", "int8", "bigserial"} -> "BigInt"
      [] name \in {"double precision", "float8"} -> "DoublePrecision"
      [] name \in {"boolean", "bool"} -> "Boolean"
      [] name \in {"character varying", "varchar"} -> "Varchar"
      [] name \in {"timestamp with time zone", "timestamptz"} -> "TimestampTz"
      [] name \in {"timestamp", "timestamp without time zone"} -> "Timestamp"
      [] name = "text" -> "Text" [] name = "uuid" -> "Uuid" [] name = "jsonb" -> "Jsonb"
      [] name = "integer[]" -> "Array"
      [] OTHER -> name

\* sqlparser keeps TIMESTAMPTZ apart from TIMESTAMP WITH TIME ZONE.
DataType(type) ==
    CASE type = "timestamptz" -> "Timestamp"
      [] type = "varchar(9)" -> "Varchar"
      [] OTHER -> FromSqlName(type)

Scalar(pg) ==
    CASE pg \in {"SmallInt", "Integer"} -> "Int"
      [] pg = "DoublePrecision" -> "Float" [] pg = "Boolean" -> "Boolean"
      [] pg = "Uuid" -> "ID" [] pg \in {"Jsonb", "Array"} -> "JSON"
      [] pg \in {"Timestamp", "TimestampTz"} -> "DateTime"
      [] OTHER -> "String"

-----------------------------------------------------------------------------
(***************************************************************************)
(* parse_migrations().  A statement is one of                              *)
(*   [kind |-> "table", name, columns, pks, fks]  of [name, type, options] *)
(*     and [columns, table, refs]                                          *)
(*   [kind |-> "alter", name, ops] of <<"add", column>>, <<"drop", names>> *)
(*     and <<"constraint">>                                                *)
(*   [kind |-> "view", name, columns, items, from] of [name, type] and of  *)
(*     [path, as]: t.c, c, t.*, * or an expression, named or not           *)
(***************************************************************************)
Plain(name, pg) ==
    [name |-> name, pg |-> pg, nullable |-> TRUE, default |-> FALSE, generated |-> FALSE]

ColumnFromDef(def) ==
    LET serial == def.type \in Serials
    IN  [name |-> def.name, pg |-> DataType(def.type),
         nullable |-> ~serial /\ def.options \cap {"NotNull", "PrimaryKey"} = {},
         default |-> serial \/ "Default" \in def.options,
         generated |-> def.options \cap {"Generated", "Identity"} # {}]

\* The table's last PRIMARY KEY, or else its columns that say they are one.
PrimaryKey(stmt) ==
    LET inline == SelectSeq(stmt.columns, LAMBDA c : "PrimaryKey" \in c.options)
    IN  IF stmt.pks # <<>> THEN <<Last(stmt.pks)>>
        ELSE IF inline = <<>> THEN <<>> ELSE <<[i \in DOMAIN inline |-> inline[i].name]>>

\* Mutated form: the key's columns stay as nullable as they are declared.
CreateTable_NullableKey(stmt) ==
    [columns |-> [i \in DOMAIN stmt.columns |-> ColumnFromDef(stmt.columns[i])],
     pk |-> PrimaryKey(stmt), view |-> FALSE,
     fks |-> [i \in DOMAIN stmt.fks |-> [stmt.fks[i] EXCEPT !.table = Qualified(@)]]]

CreateTable(stmt) ==
    LET pk == PrimaryKey(stmt)
        column(def) == [ColumnFromDef(def) EXCEPT
                            !.nullable = @ /\ (pk # <<>> => def.name \notin ToSet(pk[1]))]
    IN  [columns |-> [i \in DOMAIN stmt.columns |-> column(stmt.columns[i])],
         pk |-> pk, view |-> FALSE,
         fks |-> [i \in DOMAIN stmt.fks |-> [stmt.fks[i] EXCEPT !.table = Qualified(@)]]]

AlterOp(table, op) ==
    CASE op[1] = "add" -> [table EXCEPT !.columns = Append(@, ColumnFromDef(op[2]))]
      [] op[1] = "drop" -> [table EXCEPT !.columns =
                               SelectSeq(@, LAMBDA c : c.name \notin ToSet(op[2]))]
      [] OTHER -> table

\* As it is written, or else of that name in public.
AlterTable(schema, stmt) ==
    LET found == SelectSeq(<<Qualified(stmt.name), <<"public", Last(stmt.name)>> >>,
                           LAMBDA q : q \in DOMAIN schema)
    IN  IF found = <<>> THEN schema
        ELSE [schema EXCEPT ![found[1]] = FoldLeft(AlterOp, @, stmt.ops)]

\* The columns of the tables, in FROM's order; those a qualifier t names only.
FromColumns(schema, tables) ==
    FlattenSeq([i \in DOMAIN tables |->
        LET t == FindTable(schema, Qualified(tables[i].name))
        IN  IF t = <<>> THEN <<>> ELSE t[1].columns])
Short(from, t) == SelectSeq(from, LAMBDA x : Last(x.name) = t)

\* find_col_type_in_tables(): in the qualifier's table, then in any.
TypeOf(schema, from, path) ==
    LET found == Find(FromColumns(schema, IF Len(path) = 1 THEN <<>> ELSE Short(from, path[1]))
                          \o FromColumns(schema, from), Last(path))
    IN  IF found = <<>> THEN "Text" ELSE found[1].pg

\* infer_view_columns_from_projection()
Projected(schema, from, item) ==
    LET star == item.path # <<>> /\ Last(item.path) = "*"
        all  == FromColumns(schema, IF Len(item.path) = 1 THEN from ELSE Short(from, item.path[1]))
    IN  IF star THEN [i \in DOMAIN all |-> Plain(all[i].name, all[i].pg)]
        ELSE IF item.as = <<>> /\ item.path = <<>> THEN <<>>
        ELSE <<Plain(IF item.as # <<>> THEN item.as[1] ELSE Last(item.path),
                     IF item.path = <<>> THEN "Text" ELSE TypeOf(schema, from, item.path))>>

\* infer_type_at_projection_pos()
AtPosition(schema, stmt, i) ==
    IF i \notin DOMAIN stmt.items THEN "Text"
    ELSE LET path == stmt.items[i].path
         IN  IF path = <<>> \/ Last(path) = "*" THEN "Text" ELSE TypeOf(schema, stmt.from, path)

CreateView(schema, stmt) ==
    [columns |->
        IF stmt.columns = <<>>
        THEN FlattenSeq([i \in DOMAIN stmt.items |-> Projected(schema, stmt.from, stmt.items[i])])
        ELSE [i \in DOMAIN stmt.columns |->
                 Plain(stmt.columns[i], AtPosition(schema, stmt, i))],
     pk |-> <<>>, fks |-> <<>>, view |-> TRUE]

Apply(schema, stmt) ==
    CASE stmt.kind = "table" -> With(schema, Qualified(stmt.name), CreateTable(stmt))
      [] stmt.kind = "view" -> With(schema, Qualified(stmt.name), CreateView(schema, stmt))
      [] stmt.kind = "alter" -> AlterTable(schema, stmt)
      [] OTHER -> schema

ParseMigrations(stmts) == FoldLeft(Apply, <<>>, stmts)

-----------------------------------------------------------------------------
(***************************************************************************)
(* PostgreSQL: external.  Its catalog after the same DDL, or none if it    *)
(* refuses a statement, in the words of its information_schema.            *)
(***************************************************************************)
CatalogType(type) ==
    CASE type \in {"int2", "smallserial"} -> "smallint"
      [] type \in {"int", "int4", "serial"} -> "integer"
      [] type \in {"int8", "bigserial"} -> "bigint"
      [] type = "float8" -> "double precision" [] type = "bool" -> "boolean"
      [] type \in {"varchar(9)", "varchar"} -> "character varying"
      [] type = "timestamptz" -> "timestamp with time zone"
      [] type = "timestamp" -> "timestamp without time zone"
      [] OTHER -> type

\* An identity has neither a default nor a generation expression.
Stored(def, key) ==
    [name |-> def.name, data_type |-> CatalogType(def.type),
     is_nullable |-> def.type \notin Serials /\ def.name \notin key
                     /\ def.options \cap {"NotNull", "PrimaryKey", "Identity"} = {},
     column_default |-> def.type \in Serials \/ "Default" \in def.options,
     is_generated |-> "Generated" \in def.options]

Relation(columns, pk, fks, view) ==
    [columns |-> columns, pk |-> pk, fks |-> fks, view |-> view]
Distinct(seq) == Cardinality(ToSet(seq)) = Len(seq)

Created(cat, stmt) ==
    LET keys == SelectSeq(stmt.columns, LAMBDA c : "PrimaryKey" \in c.options)
        pks  == stmt.pks \o [i \in DOMAIN keys |-> <<keys[i].name>>]
        own  == Names(stmt.columns)
        key  == IF pks = <<>> THEN <<>> ELSE pks[1]
        self == Qualified(stmt.name)
        target(fk) == IF Qualified(fk.table) = self THEN <<pks>>
                      ELSE IF Qualified(fk.table) \in DOMAIN cat THEN <<cat[Qualified(fk.table)].pk>>
                      ELSE <<>>
    IN  IF \/ self \in DOMAIN cat \/ Len(pks) > 1 \/ Cardinality(own) # Len(stmt.columns)
           \/ ~ToSet(key) \subseteq own \/ ~Distinct(key)
           \/ \E fk \in ToSet(stmt.fks) :
                 \/ ~ToSet(fk.columns) \subseteq own \/ ~Distinct(fk.columns)
                 \/ target(fk) = <<>> \/ target(fk) = << <<>> >>
                 \/ Len(fk.columns) # Len(target(fk)[1][1])
                 \/ fk.refs # <<>> /\ ToSet(fk.refs) # ToSet(target(fk)[1][1])
        THEN <<>>
        ELSE <<With(cat, self, Relation(
                   [i \in DOMAIN stmt.columns |-> Stored(stmt.columns[i], ToSet(key))], pks,
                   [i \in DOMAIN stmt.fks |-> [stmt.fks[i] EXCEPT !.table = Qualified(@),
                        !.refs = IF @ = <<>> THEN target(stmt.fks[i])[1][1] ELSE @]], FALSE))>>

\* Without CASCADE a column that a key or another relation needs stays.
Altered(cat, stmt) ==
    LET name == Qualified(stmt.name)
        used(t) == UNION {ToSet(k) : k \in ToSet(t.pk)} \cup UNION {ToSet(k.columns) : k \in ToSet(t.fks)}
        op(found, o) ==
            IF found = <<>> THEN <<>>
            ELSE LET t == found[1]
                 IN  CASE o[1] = "add" ->
                            IF o[2].name \in Names(t.columns) THEN <<>>
                            ELSE <<[t EXCEPT !.columns = Append(@, Stored(o[2], {}))]>>
                       [] o[1] = "drop" ->
                            IF ToSet(o[2]) \subseteq Names(t.columns) \ used(t)
                            THEN <<[t EXCEPT !.columns =
                                       SelectSeq(@, LAMBDA c : c.name \notin ToSet(o[2]))]>>
                            ELSE <<>>
                       [] OTHER -> found
        made == IF name \in DOMAIN cat /\ ~cat[name].view
                THEN FoldLeft(op, <<cat[name]>>, stmt.ops) ELSE <<>>
    IN  IF made = <<>> THEN <<>> ELSE <<[cat EXCEPT ![name] = made[1]]>>

\* A table goes by its alias alone, and a bare name is of one table only.
Shown(cat, stmt) ==
    LET alias(t) == (t.as \o <<Last(t.name)>>)[1]
        tables(q) == SelectSeq(stmt.from, LAMBDA t : q = <<>> \/ alias(t) = q[1])
        columns(q) == FlattenSeq([i \in DOMAIN tables(q) |-> cat[Qualified(tables(q)[i].name)].columns])
        shown(item) ==
            LET q == SubSeq(item.path, 1, Len(item.path) - 1)
                own == IF Last(item.path) = "*" THEN columns(q) ELSE Find(columns(q), Last(item.path))
            IN  IF item.path = <<>> THEN << <<item.as \o <<"?column?">>, "text">> >>
                ELSE [i \in DOMAIN own |-> <<item.as \o <<own[i].name>>, own[i].data_type>>]
        all == FlattenSeq([i \in DOMAIN stmt.items |-> shown(stmt.items[i])])
        name(i) == IF stmt.columns = <<>> THEN all[i][1][1] ELSE stmt.columns[i]
    IN  IF \/ Qualified(stmt.name) \in DOMAIN cat
           \/ \E t \in ToSet(stmt.from) : Qualified(t.name) \notin DOMAIN cat
           \/ \E i, j \in DOMAIN stmt.from : i < j /\ alias(stmt.from[i]) = alias(stmt.from[j])
        THEN <<>>
        ELSE IF \/ \E item \in ToSet(stmt.items) :
                     item.path # <<>> /\ Last(item.path) # "*" /\ Len(shown(item)) # 1
                \/ \E item \in ToSet(stmt.items) :
                     Len(item.path) = 2 /\ tables(<<item.path[1]>>) = <<>>
                \/ stmt.columns # <<>> /\ Len(stmt.columns) # Len(all)
        THEN <<>>
        ELSE IF ~Distinct([i \in DOMAIN all |-> name(i)]) THEN <<>>
        ELSE <<With(cat, Qualified(stmt.name), Relation(
                  [i \in DOMAIN all |-> [name |-> name(i), data_type |-> all[i][2],
                      is_nullable |-> TRUE, column_default |-> FALSE, is_generated |-> FALSE]],
                  <<>>, <<>>, TRUE))>>

Database(stmts) ==
    FoldLeft(LAMBDA cat, stmt :
                IF cat = <<>> THEN <<>>
                ELSE CASE stmt.kind = "table" -> Created(cat[1], stmt)
                       [] stmt.kind = "alter" -> Altered(cat[1], stmt)
                       [] stmt.kind = "view" -> Shown(cat[1], stmt)
                       [] OTHER -> cat,
             << <<>> >>, stmts)

\* fetch_columns()
FetchColumns(rows) ==
    [i \in DOMAIN rows |->
        [name |-> rows[i].name, pg |-> FromSqlName(rows[i].data_type),
         nullable |-> rows[i].is_nullable, default |-> rows[i].column_default,
         generated |-> rows[i].is_generated]]

\* introspect(), fetch_primary_key(), fetch_foreign_keys(): by constraint name.
Introspect(cat) ==
    [q \in DOMAIN cat |-> [cat[q] EXCEPT !.columns = FetchColumns(@)]]

-----------------------------------------------------------------------------
(***************************************************************************)
(* from_database(): types of fields, each [type, list, required, args,     *)
(* resolver]; a filter maps a column to <<"value", field>> or <<"args",    *)
(* arg>>.                                                                  *)
(***************************************************************************)
Field(type, list, required, args, resolver) ==
    [type |-> type, list |-> list, required |-> required, args |-> args, resolver |-> resolver]
Resolver(table, op, filter, batch) ==
    <<[table |-> table, op |-> op, filter |-> filter, batch |-> batch]>>

\* build_fk_filter()
Mutual(columns, others) ==
    [c \in ToSet(columns) |->
        <<"value", Camel(others[CHOOSE i \in DOMAIN columns : columns[i] = c])>>]

\* Mutated form: a second relationship with a table takes the place of the first.
Relate_Overwrites(fields, base, columns, field) == With(fields, base, field)

\* The relationship is named after its table, and by its columns too if that is taken.
Relate(fields, base, columns, field) ==
    LET camel == [i \in DOMAIN columns |-> Camel(columns[i])]
        by == FoldLeft(LAMBDA a, c : a \o "And" \o c, camel[1], Tail(camel))
    IN  With(fields, IF base \in DOMAIN fields THEN base \o "By" \o by ELSE base, field)

\* Tables are taken in the order of their names.
Ordered(schema) == SetToSeq(DOMAIN schema)

OutputType(schema, q) ==
    LET t == schema[q]
        plain == [n \in {Camel(c) : c \in Names(t.columns)} |->
                    LET c == SelectSeq(t.columns, LAMBDA x : Camel(x.name) = n)[1]
                    IN  Field(Scalar(c.pg), FALSE, ~c.nullable, <<>>, <<>>)]
        parent(fields, fk) ==
            Relate(fields, Camel(fk.table[2]), fk.columns,
                   Field(Pascal(fk.table[2]), FALSE, FALSE, <<>>,
                         Resolver(fk.table[2], "SelectOne", Mutual(fk.refs, fk.columns), fk.refs)))
        others == FlattenSeq([i \in DOMAIN Ordered(schema) |->
                    LET o == Ordered(schema)[i]
                    IN  [j \in DOMAIN schema[o].fks |-> <<o, schema[o].fks[j]>>]])
        mine == SelectSeq(others, LAMBDA x : x[2].table[2] = q[2])
        children(fields, x) ==
            Relate(fields, Plural(Camel(x[1][2])), x[2].columns,
                   Field(Pascal(x[1][2]), TRUE, TRUE, <<>>,
                         Resolver(x[1][2], "Select", Mutual(x[2].columns, x[2].refs), x[2].columns)))
    IN  FoldLeft(children, FoldLeft(parent, plain, t.fks), mine)

\* build_pk_args_and_filter()
KeyArgs(t) ==
    [a \in {Camel(c) : c \in ToSet(t.pk[1])} |->
        LET c == SelectSeq(t.columns, LAMBDA x : Camel(x.name) = a)
        IN  IF c = <<>> THEN "ID" ELSE Scalar(c[1].pg)]
KeyFilter(t) == [c \in ToSet(t.pk[1]) |-> <<"args", Camel(c)>>]

Queries(schema, q) ==
    LET t == schema[q]
        list == [n \in {Camel(q[2]) \o "List"} |->
                    Field(Pascal(q[2]), TRUE, TRUE, [a \in {"limit", "offset"} |-> "Int"],
                          Resolver(q[2], "Select", <<>>, <<>>))]
    IN  IF t.pk = <<>> THEN list
        ELSE With(list, Camel(q[2]) \o "ById",
                  Field(Pascal(q[2]), FALSE, FALSE, KeyArgs(t),
                        Resolver(q[2], "SelectOne", KeyFilter(t), <<>>)))

Input(columns, required(_)) ==
    [n \in {Camel(c) : c \in Names(columns)} |->
        LET c == SelectSeq(columns, LAMBDA x : Camel(x.name) = n)[1]
        IN  Field(Scalar(c.pg), FALSE, required(c), <<>>, <<>>)]

\* Mutated form: a key with a default is asked for all the same.
CreateInput_Key(t) ==
    Input(SelectSeq(t.columns, LAMBDA c : ~c.generated), LAMBDA c : ~c.nullable /\ ~c.default)

InKey(t, c) == t.pk # <<>> /\ c.name \in ToSet(t.pk[1])
CreateInput(t) ==
    Input(SelectSeq(t.columns, LAMBDA c : ~c.generated /\ ~(c.default /\ InKey(t, c))),
          LAMBDA c : ~c.nullable /\ ~c.default)
UpdateInput(t) ==
    Input(SelectSeq(t.columns, LAMBDA c : ~c.generated /\ ~InKey(t, c)), LAMBDA c : FALSE)

Mutations(schema, q) ==
    LET t == schema[q]
        type == Pascal(q[2])
        field(op, result, args, filter) ==
            Field(result, FALSE, FALSE, args, Resolver(q[2], op, filter, <<>>))
        create == [n \in {"create" \o type} |->
                     field("Insert", type, [a \in {"input"} |-> "Create" \o type \o "Input"], <<>>)]
    IN  IF t.view THEN <<>> ELSE IF t.pk = <<>> THEN create
        ELSE With(With(create, "update" \o type,
                       field("Update", type, With(KeyArgs(t), "input", "Update" \o type \o "Input"),
                             KeyFilter(t))),
                  "delete" \o type, field("Delete", "Boolean", KeyArgs(t), KeyFilter(t)))

Inputs(schema, q) ==
    LET t == schema[q]
        type == Pascal(q[2])
    IN  IF t.view THEN <<>>
        ELSE IF t.pk = <<>> THEN [n \in {"Create" \o type \o "Input"} |-> CreateInput(t)]
        ELSE [n \in {"Create" \o type \o "Input", "Update" \o type \o "Input"} |->
                 IF n = "Create" \o type \o "Input" THEN CreateInput(t) ELSE UpdateInput(t)]

Merged(F, G) == [n \in DOMAIN F \cup DOMAIN G |-> IF n \in DOMAIN G THEN G[n] ELSE F[n]]

\* Types of one name, of tables in two schemas, take each other's place.
FromDatabase(schema) ==
    LET all(of(_, _)) == FoldLeft(LAMBDA a, q : Merged(a, of(schema, q)), <<>>, Ordered(schema))
        outputs == FoldLeft(LAMBDA a, q : Merged(With(a, Pascal(q[2]), OutputType(schema, q)),
                                                 Inputs(schema, q)), <<>>, Ordered(schema))
    IN  With(With(outputs, "Query", all(Queries)), "Mutation", all(Mutations))

-----------------------------------------------------------------------------
\* The statements whose effect parse_migrations() means to follow.
Followed(stmts) ==
    \A s \in ToSet(stmts) :
        /\ s.kind = "table" =>
            /\ \A fk \in ToSet(s.fks) : fk.refs # <<>>
            /\ \A c \in ToSet(s.columns) : "Identity" \notin c.options /\ c.type # "integer[]"
        /\ s.kind = "view" =>
            /\ \A t \in ToSet(s.from) : t.as = <<>>
            /\ \A item \in ToSet(s.items) :
                  /\ item.path = <<>> => item.as # <<>> \/ s.columns # <<>>
                  /\ item.path # <<>> /\ Last(item.path) = "*" => s.columns = <<>>

\* A relation as the configuration sees it.
Seen(t) ==
    [columns |-> [i \in DOMAIN t.columns |->
                     [name |-> t.columns[i].name, scalar |-> Scalar(t.columns[i].pg),
                      nullable |-> t.columns[i].nullable, default |-> t.columns[i].default,
                      generated |-> t.columns[i].generated]],
     pk |-> t.pk, fks |-> ToSet(t.fks), view |-> t.view]

SameSeen(parsed, live) ==
    [q \in DOMAIN parsed |-> Seen(parsed[q])] = [q \in DOMAIN live |-> Seen(live[q])]

\* parse_migrations(), introspect(): the schema read off the migrations is the
\* one read off the database that ran them.
MigrationsMakeTheDatabase(stmts) ==
    \A cat \in ToSet(Database(stmts)) :
        Followed(stmts) => SameSeen(ParseMigrations(stmts), Introspect(cat))

Values(filter) == {filter[c] : c \in DOMAIN filter}

IsServed(schema, config) ==
    LET scalars == {"Int", "Float", "Boolean", "ID", "JSON", "DateTime", "String"}
        unambiguous == \A p, q \in DOMAIN schema : p[2] = q[2] => p = q
    IN  unambiguous /\ (\A q \in DOMAIN schema : \A fk \in ToSet(schema[q].fks) : fk.refs # <<>>) =>
        /\ \A n \in DOMAIN config : \A f \in DOMAIN config[n] :
            LET field == config[n][f]
            IN  /\ field.type \in DOMAIN config \cup scalars
                /\ \A a \in DOMAIN field.args : field.args[a] \in DOMAIN config \cup scalars
                /\ \A r \in ToSet(field.resolver) :
                    LET t == FindTable(schema, <<r.table>>)
                    IN  /\ t # <<>> /\ DOMAIN r.filter \cup ToSet(r.batch) \subseteq Names(t[1].columns)
                        /\ \A v \in Values(r.filter) :
                              v[2] \in IF v[1] = "args" THEN DOMAIN field.args ELSE DOMAIN config[n]
                        /\ field.type \in {Pascal(r.table), "Boolean"}
                        /\ r.op \in {"SelectOne", "Update", "Delete"} => r.filter # <<>>
                        /\ r.op \in {"Insert", "Update", "Delete"} => ~t[1].view
        /\ \A q \in DOMAIN schema :
            LET t == schema[q]
                out == config[Pascal(q[2])]
                links == {f \in DOMAIN out : out[f].resolver # <<>>}
                create == config["Create" \o Pascal(q[2]) \o "Input"]
                back == FlattenSeq([i \in DOMAIN Ordered(schema) |->
                            SelectSeq(schema[Ordered(schema)[i]].fks, LAMBDA fk : fk.table = q)])
            IN  /\ Cardinality(links) = Len(t.fks) + Len(back)
                /\ ~t.view =>
                    /\ {f \in DOMAIN create : create[f].required} =
                          {Camel(c.name) : c \in {x \in ToSet(t.columns) :
                              ~x.nullable /\ ~x.default /\ ~x.generated}}
                    /\ \A c \in ToSet(t.columns) :
                          c.default /\ InKey(t, c) => Camel(c.name) \notin DOMAIN create

\* from_database(): each field it makes is resolved from columns of its own
\* table with values that its parent or its arguments have, no relationship is
\* lost, and what may be created is what the database cannot fill in itself.
GeneratedIsServed(schema) == IsServed(schema, FromDatabase(schema))
=============================================================================
