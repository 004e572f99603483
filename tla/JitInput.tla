------------------------------ MODULE JitInput ------------------------------
(***************************************************************************)
(* What the fields of a plan are given, and what they ask for of a GraphQL *)
(* upstream.  The arguments, with their variables and defaults filled in:  *)
(* src/core/jit/transform/input_resolver.rs.  The selection sent below an  *)
(* @graphQL field: jit/transform/graphql.rs, and, where the plan has none, *)
(* ir/eval_context.rs by create_related_fields().                          *)
(*                                                                         *)
(* A value is <<"null">>, <<"leaf", x>>, <<"list", values>>, <<"object",   *)
(* values by name>> or, in a query, <<"var", name>>; a type <<"named",     *)
(* name, nonNull>> or <<"list", type, nonNull>>.  An option is <<>> or     *)
(* <<value>>, and a result is <<>>, an error, or <<what it yields>>.       *)
(***************************************************************************)
EXTENDS Naturals, FiniteSets, SequencesExt

CONSTANT InputType(_)   \* get_input_type_definition(): its fields, an option

Null == <<"null">>

RECURSIVE Name(_)
Name(type) == IF type[1] = "named" THEN type[2] ELSE Name(type[2])

\* collect::<Result<_, _>>()
Collected(results) ==
    IF \E i \in DOMAIN results : results[i] = <<>> THEN <<>>
    ELSE <<[i \in DOMAIN results |-> results[i][1]]>>

\* Value::into_const_with(): a variable the request does not have is an error.
RECURSIVE IntoConst(_, _)
IntoConst(v, vars) ==
    LET parts(kind, result) == IF result = <<>> THEN <<>> ELSE << <<kind, result[1]>> >>
    IN  CASE v[1] = "var" -> IF v[2] \in DOMAIN vars THEN <<vars[v[2]]>> ELSE <<>>
          [] v[1] \in {"list", "object"} ->
                parts(v[1], Collected([i \in DOMAIN v[2] |-> IntoConst(v[2][i], vars)]))
          [] OTHER -> <<v>>

-----------------------------------------------------------------------------
(* InputResolver                                                            *)

\* The fields' arguments, as the schema declares them: collect_fields().
Arguments(declared, given) ==
    [i \in DOMAIN declared |->
        [name |-> declared[i].name, type |-> declared[i].type, default |-> declared[i].default,
         value |-> IF declared[i].name \in DOMAIN given THEN <<given[declared[i].name]>> ELSE <<>>]]

\* Mutated form: an argument that is null is taken for one that is not given.
Taken_NullIsAbsent(type, default, value) ==
    IF type[3] /\ value \in {<<>>, <<Null>>} THEN IF default = <<>> THEN <<>> ELSE <<default>>
    ELSE IF value = <<>> THEN <<default>> ELSE <<value>>

\* The value given, or else the default; null is not what a required one may be.
Taken(type, default, value) ==
    IF type[3] /\ value = <<>> THEN IF default = <<>> THEN <<>> ELSE <<default>>
    ELSE IF type[3] /\ value = <<Null>> THEN <<>>
    ELSE IF value = <<>> THEN <<default>> ELSE <<value>>

\* insert_key(), of the fields that have a value.
Inserted(object, fields, parsed) ==
    LET some == {i \in DOMAIN fields : parsed[i] # <<>>}
        of(n) == CHOOSE i \in some : fields[i].name = n
        names == {fields[i].name : i \in some}
    IN  <<"object", [n \in DOMAIN object[2] \cup names |->
                        IF n \in names THEN parsed[of(n)][1] ELSE object[2][n]]>>

Key(object, name) == IF name \in DOMAIN object[2] THEN <<object[2][name]>> ELSE <<>>

\* Mutated form: the defaults of an input type's fields are those of its objects.
Default_OfObject(field, object) == Key(object, field.name)

Default(field, object) == field.default

\* recursive_parse_arg(): an item is parsed as its list is, and nothing but input
\* types is looked into.
RECURSIVE ParseArg(_, _, _), Within(_, _, _)
ParseArg(type, default, value) ==
    LET taken == Taken(type, default, value)
        input == InputType(Name(type))
    IN  IF taken \in {<<>>, << <<>> >>} \/ input = <<>> THEN taken
        ELSE Within(type, input[1], taken[1][1])

Within(type, fields, v) ==
    LET whole(result) == IF result = <<>> THEN <<>> ELSE << <<Inserted(v, fields, result[1])>> >>
        items(result) ==
            IF result = <<>> THEN <<>>
            ELSE << << <<"list", [i \in DOMAIN result[1] |-> result[1][i][1]]>> >> >>
    IN  CASE v[1] = "object" ->
                whole(Collected([i \in DOMAIN fields |->
                    ParseArg(fields[i].type, Default(fields[i], v), Key(v, fields[i].name))]))
          [] v[1] = "list" ->
                items(Collected([i \in DOMAIN v[2] |-> ParseArg(type, <<>>, <<v[2][i]>>)]))
          [] OTHER -> << <<v>> >>

\* Arg::try_map(), resolve_field(): first the variables of all fields, then the rest.
ResolveArgs(args, vars) ==
    LET const == Collected([i \in DOMAIN args |->
                    IF args[i].value = <<>> THEN << <<>> >>
                    ELSE LET v == IntoConst(args[i].value[1], vars)
                         IN  IF v = <<>> THEN <<>> ELSE <<v>>])
    IN  IF const = <<>> THEN <<>>
        ELSE Collected([i \in DOMAIN args |->
                ParseArg(args[i].type, args[i].default, const[1][i])])

\* Context::build_args(): what a resolver reads.
BuildArgs(args, resolved) ==
    LET some == {i \in DOMAIN args : resolved[i] # <<>>}
    IN  [n \in {args[i].name : i \in some} |->
            resolved[CHOOSE i \in some : args[i].name = n][1]]

-----------------------------------------------------------------------------
(* The same by GraphQL's rules: a value is coerced by its type, an item by  *)
(* the type of items.  (A list for a type that is none, which GraphQL       *)
(* refuses, is taken item by item.)                                         *)
RECURSIVE Coerce(_, _)
Coerce(type, v) ==
    LET input == InputType(Name(type))
        given(f) == IF f.name \in DOMAIN v[2] THEN Coerce(f.type, v[2][f.name])
                    ELSE IF f.default # <<>> THEN Coerce(f.type, f.default[1]) ELSE <<>>
        missing(f) == f.name \notin DOMAIN v[2] /\ f.default = <<>>
        names == {input[1][i].name : i \in {j \in DOMAIN input[1] : ~missing(input[1][j])}}
        ofItems == IF type[1] = "list" THEN type[2] ELSE type
        all == [n \in names |-> given(input[1][CHOOSE i \in DOMAIN input[1] : input[1][i].name = n])]
    IN  IF v = Null THEN IF type[3] THEN <<>> ELSE <<v>>
        ELSE IF input = <<>> THEN <<v>>
        ELSE IF v[1] = "list"
        THEN LET own == Collected([i \in DOMAIN v[2] |-> Coerce(ofItems, v[2][i])])
             IN  IF own = <<>> THEN <<>> ELSE << <<"list", own[1]>> >>
        ELSE IF v[1] # "object" THEN <<v>>
        ELSE IF \/ \E i \in DOMAIN input[1] : missing(input[1][i]) /\ input[1][i].type[3]
                \/ \E n \in names : all[n] = <<>>
             THEN <<>>
        ELSE << <<"object", [n \in names \cup DOMAIN v[2] |->
                                IF n \in names THEN all[n][1] ELSE v[2][n]]>> >>

Coerced(arg, vars) ==
    LET const == IF arg.value = <<>> THEN arg.default ELSE IntoConst(arg.value[1], vars)
        v == IF const = <<>> THEN <<>> ELSE Coerce(arg.type, const[1])
    IN  IF arg.value = <<>> /\ arg.default = <<>>
        THEN IF arg.type[3] THEN <<>> ELSE << <<>> >>
        ELSE IF v = <<>> THEN <<>> ELSE <<v>>

\* The lists whose items may be null exactly if the list may.
RECURSIVE Uniform(_)
Uniform(type) ==
    \/ type[1] = "named"
    \/ type[3] = type[2][3] /\ Uniform(type[2])

\* recursive_parse_arg(), build_args(): a field is resolved with arguments that
\* are complete, whatever is nested in whatever: what is required is there, what
\* is not given has its default, and a request that cannot be completed so, or
\* lacks a variable, is refused.  (Items are parsed by their list's type, so
\* that a list and its items must agree on null.)
InputsAreComplete(declared, given, vars) ==
    LET args == Arguments(declared, given)
        result == ResolveArgs(args, vars)
        meant == Collected([i \in DOMAIN args |-> Coerced(args[i], vars)])
    IN  (\A i \in DOMAIN args : Uniform(args[i].type)) =>
            /\ result = meant
            /\ result # <<>> =>
                  \A i \in DOMAIN args : args[i].type[3] =>
                     BuildArgs(args, result[1])[args[i].name] # Null

-----------------------------------------------------------------------------
(* The selection of an @graphQL field.  A field of a plan is [name, out,    *)
(* ir, type, on, args, directives, sel]: its resolver is <<>>, or <<kind>>, *)
(* "io", "dynamic", "other" or, with the name it reads, <<"path", name>>;   *)
(* on is the type of the fragment it is in, an option.  A selection is      *)
(* [fields, on]: the fields asked of every type, and those of some types.   *)

\* From<&JitDirective> for Directive: a variable becomes a template, and null is
\* left out.
Printed(arguments) ==
    LET some == SelectSeq(arguments, LAMBDA a : a[2] # Null)
    IN  [i \in DOMAIN some |->
            IF some[i][2][1] = "var" THEN <<some[i][1], <<"template", some[i][2][2]>> >> ELSE some[i]]

Given(args) == SelectSeq(args, LAMBDA a : a[2] # <<>>)

\* @modify(name:) is a path in the value of the parent.
SentName(f) == IF f.ir # <<>> /\ f.ir[1] = "path" THEN f.ir[2] ELSE f.name

Asks(f) == f.ir = <<>> \/ f.ir[1] \notin {"io", "dynamic"}

\* Mutated form: all fields are asked of every type.
InFragment_Flat(f, interface) == FALSE

InFragment(f, interface) == interface /\ f.on # <<>>

\* Mutated form: the type is only asked for by a query that asks for it.
AddsTypename_AsAsked(own, interface) == FALSE

AddsTypename(own, interface) ==
    interface /\ \A i \in DOMAIN own : SentName(own[i]) # "__typename" \/ own[i].on # <<>>

\* format_selection_set(), format_selection_field().
RECURSIVE FormatSelection(_, _, _)
FormatSelection(sel, interfaces, interface) ==
    LET own == SelectSeq(sel, Asks)
        format(f) ==
            [name |-> SentName(f), directives |-> [i \in DOMAIN f.directives |-> Printed(f.directives[i])],
             args |-> Given(f.args),
             sel |-> FormatSelection(f.sel, interfaces, f.type \in interfaces)]
        normal == SelectSeq(own, LAMBDA f : ~InFragment(f, interface))
        part(type) == SelectSeq(own, LAMBDA f : InFragment(f, interface) /\ f.on[1] = type)
        types == {own[i].on[1] : i \in {j \in DOMAIN own : InFragment(own[j], interface)}}
        typename == [name |-> "__typename", directives |-> <<>>, args |-> <<>>, sel |-> <<>>]
    IN  IF own = <<>> THEN <<>>
        ELSE <<[fields |-> [i \in DOMAIN normal |-> format(normal[i])]
                              \o IF AddsTypename(own, interface) THEN <<typename>> ELSE <<>>,
                on |-> [t \in types |-> [i \in DOMAIN part(t) |-> format(part(t)[i])]]]>>

\* Selection::resolve(): a variable's text, or nothing.
RECURSIVE Render(_, _)
Render(selection, vars) ==
    LET value(v) == IF v[1] # "template" THEN v
                    ELSE IF v[2] \in DOMAIN vars THEN vars[v[2]] ELSE <<"none">>
        args(d) == [i \in DOMAIN d |-> <<d[i][1], value(d[i][2])>>]
        all(fields) == [i \in DOMAIN fields |->
            [fields[i] EXCEPT !.directives = [j \in DOMAIN @ |-> args(@[j])],
                              !.sel = Render(@, vars)]]
    IN  IF selection = <<>> THEN <<>>
        ELSE <<[fields |-> all(selection[1].fields),
                on |-> [t \in DOMAIN selection[1].on |-> all(selection[1].on[t])]]>>

\* compute_selection_set(), resolve_graphql_selection_set(): what the plan has.
PlanSelection(f, interfaces, vars) ==
    Render(FormatSelection(f.sel, interfaces, f.type \in interfaces), vars)

-----------------------------------------------------------------------------
(* Without a plan, or with a plan that has no selection: the fields that    *)
(* the type of the field declares without a resolver.  A configuration is   *)
(* the fields of its types and the members of its unions; a field is [name, *)
(* type, resolved, modify], the last an option of an option of a name.      *)

\* create_related_fields(): a type is entered once; visited is shared.
RECURSIVE RelatedFields(_, _, _), RelatedOf(_, _, _), RelatedMembers(_, _, _)
RelatedFields(config, type, visited) ==
    IF type \in visited THEN [map |-> <<>>, visited |-> visited]
    ELSE IF type \in DOMAIN config.types
    THEN RelatedOf(config, config.types[type], visited \cup {type})
    ELSE IF type \in DOMAIN config.unions
    THEN RelatedMembers(config, config.unions[type], visited \cup {type})
    ELSE [map |-> <<>>, visited |-> visited \cup {type}]

Extended(map, more) ==
    [n \in DOMAIN map \cup DOMAIN more |-> IF n \in DOMAIN more THEN more[n] ELSE map[n]]

\* Of the fields from the last to the first that are related: under the name they
\* are queried by, the name they have.
QueriedAs(f) == IF f.modify = <<>> THEN <<f.name>> ELSE f.modify[1]

RelatedOf(config, fields, visited) ==
    IF fields = <<>> THEN [map |-> <<>>, visited |-> visited]
    ELSE IF Last(fields).resolved \/ QueriedAs(Last(fields)) = <<>>
    THEN RelatedOf(config, Front(fields), visited)
    ELSE LET before == RelatedOf(config, Front(fields), visited)
             below == RelatedFields(config, Last(fields).type, before.visited)
         IN  [map |-> Extended(before.map, [n \in ToSet(QueriedAs(Last(fields))) |->
                                               <<Last(fields).name, below.map>>]),
              visited |-> below.visited]

RelatedMembers(config, members, visited) ==
    IF members = <<>> THEN [map |-> <<>>, visited |-> visited]
    ELSE LET before == RelatedMembers(config, Front(members), visited)
             last == RelatedFields(config, Last(members), before.visited)
         IN  [map |-> Extended(before.map, last.map), visited |-> last.visited]

\* print_directives() of constants.
Const(arguments, vars) ==
    LET some == SelectSeq(arguments, LAMBDA a : a[2] # Null)
        value(v) == IF v[1] # "var" THEN v
                    ELSE IF v[2] \in DOMAIN vars THEN vars[v[2]] ELSE <<"none">>
    IN  [i \in DOMAIN some |-> <<some[i][1], value(some[i][2])>>]
ConstAll(directives, vars) == [i \in DOMAIN directives |-> Const(directives[i], vars)]

\* SelectionField::from_jit_field(): by the names of the output, of its own type.
RECURSIVE FromJitField(_, _)
FromJitField(f, vars) ==
    LET own == SelectSeq(f.sel, LAMBDA c : c.on = <<>> \/ c.on[1] = f.type)
    IN  [name |-> f.out, args |-> Given(f.args), directives |-> ConstAll(f.directives, vars),
         sel |-> [i \in DOMAIN own |-> FromJitField(own[i], vars)]]

\* from_async_selection_field(): by the fields' names, of all types.
RECURSIVE FromAsyncField(_, _)
FromAsyncField(f, vars) ==
    [name |-> f.name, args |-> Given(f.args), directives |-> ConstAll(f.directives, vars),
     sel |-> [i \in DOMAIN f.sel |-> FromAsyncField(f.sel[i], vars)]]

\* eval_context.rs, format_selection_set(): all the types' fields in one.
RECURSIVE FormatRelated(_, _)
FormatRelated(sel, related) ==
    LET own == SelectSeq(sel, LAMBDA f : f.name \in DOMAIN related)
    IN  IF own = <<>> THEN <<>>
        ELSE <<[fields |-> [i \in DOMAIN own |->
                    [name |-> related[own[i].name][1], args |-> own[i].args,
                     directives |-> own[i].directives,
                     sel |-> FormatRelated(own[i].sel, related[own[i].name][2])]],
                on |-> <<>>]>>

\* render_graphql_query(): the plan's selection, or the context's.
SentSelection(f, interfaces, config, vars) ==
    LET plan == PlanSelection(f, interfaces, vars)
    IN  IF plan # <<>> THEN plan
        ELSE FormatRelated(FromJitField(f, vars).sel, RelatedFields(config, f.type, {}).map)

\* The same of IO::GraphQLStream, which no plan reaches.
StreamSelection(f, config, vars) ==
    FormatRelated(FromAsyncField(f, vars).sel, RelatedFields(config, f.type, {}).map)

-----------------------------------------------------------------------------
(* What an upstream answers: the paths of names in a value, whose objects   *)
(* are of the types given by path, with the arguments and directives.       *)
RECURSIVE Answered(_, _, _)
Answered(selection, path, of) ==
    LET fields == selection[1].fields \o
                    IF of[path] \in DOMAIN selection[1].on THEN selection[1].on[of[path]] ELSE <<>>
    IN  IF selection = <<>> \/ path \notin DOMAIN of THEN {}
        ELSE UNION {{<<Append(path, fields[i].name), fields[i].args, fields[i].directives>>}
                      \cup Answered(fields[i].sel, Append(path, fields[i].name), of) :
                    i \in DOMAIN fields}

Applies(f, path, of) == path \in DOMAIN of /\ (f.on = <<>> \/ f.on[1] = of[path])

\* What the fields without a resolver read of it.
RECURSIVE Read(_, _, _, _)
Read(sel, path, of, vars) ==
    LET own == SelectSeq(sel, LAMBDA f : Applies(f, path, of) /\ (f.ir = <<>> \/ f.ir[1] = "path"))
        to(f) == Append(path, IF f.ir = <<>> THEN f.name ELSE f.ir[2])
    IN  UNION {{<<to(own[i]), Given(own[i].args), ConstAll(own[i].directives, vars)>>}
                 \cup Read(own[i].sel, to(own[i]), of, vars) : i \in DOMAIN own}

\* The objects below it whose types vary.
RECURSIVE Varying(_, _, _, _)
Varying(f, path, of, interfaces) ==
    UNION {Varying(c, Append(path, SentName(c)), of, interfaces) :
             c \in {d \in ToSet(f.sel) : Applies(d, path, of) /\ Asks(d)}}
    \cup {p \in {path} : f.type \in interfaces /\ \E c \in ToSet(f.sel) : Asks(c)}

RECURSIVE Below(_)
Below(f) == ToSet(f.sel) \cup UNION {Below(c) : c \in ToSet(f.sel)}

Paths(answered) == {a[1] : a \in answered}

\* GraphQL::transform(), format_selection_set(): below an @graphQL field the
\* upstream is asked for all that the fields without a resolver will read of its
\* answer, by the names they read it under and with the request's values,
\* whatever the types of its objects, and for the type of those that vary; and
\* for nothing else, but what a resolver within another answers anyway.  (Of a
\* union its members' fields are asked for as they are, which is no GraphQL.)
SelectionIsRead(f, interfaces, config, vars, of) ==
    LET sent == Answered(SentSelection(f, interfaces, config, vars), <<>>, of)
        read == Read(f.sel, <<>>, of, vars)
        typed == {Append(p, "__typename") : p \in Varying(f, <<>>, of, interfaces)}
        others == {c.name : c \in {d \in Below(f) : d.ir # <<>> /\ d.ir[1] = "other"}}
    IN  (\A c \in Below(f) \cup {f} : c.type \notin DOMAIN config.unions) =>
            /\ read \subseteq sent
            /\ typed \subseteq Paths(sent)
            /\ \A p \in Paths(sent) \ (Paths(read) \cup typed) : \E i \in DOMAIN p : p[i] \in others

\* The types entered from a type, one by one.
RECURSIVE Entered(_, _, _)
Entered(config, type, depth) ==
    IF type \in DOMAIN config.unions
    THEN FlattenSeq([i \in DOMAIN config.unions[type] |->
                        Entered(config, config.unions[type][i], depth)])
    ELSE IF type \notin DOMAIN config.types THEN <<>>
    ELSE IF depth = 0 THEN <<type>>
    ELSE <<type>> \o FlattenSeq([i \in DOMAIN config.types[type] |->
            IF config.types[type][i].resolved \/ QueriedAs(config.types[type][i]) = <<>> THEN <<>>
            ELSE Entered(config, config.types[type][i].type, depth - 1)])

\* Where fields are selected on a type that is not their parent's, it is a union.
OnlyUnions(f, config) ==
    \A c \in Below(f) \cup {f} :
        c.type \in DOMAIN config.unions \/ \A i \in DOMAIN c.sel : c.sel[i].on = <<>>

\* create_related_fields(), IO::GraphQLStream: a stream is asked for all that its
\* fields without a resolver read, under the names of the configuration, for
\* none with a resolver of its own, provided no two fields are of one type: a
\* type is entered once.  (The type of its values is not asked for, nor what an
\* interface's types have of their own.)
StreamIsRead(f, config, vars, of) ==
    IsInjective(Entered(config, f.type, 4)) /\ OnlyUnions(f, config) =>
        LET sent == Answered(StreamSelection(f, config, vars), <<>>, of)
            read == {r \in Read(f.sel, <<>>, of, vars) : Last(r[1]) # "__typename"}
        IN  /\ read \subseteq sent
            /\ \A c \in Below(f) : c.ir # <<>> /\ c.ir[1] # "path" =>
                  \A p \in Paths(sent) : \A i \in DOMAIN p : p[i] # c.name
=============================================================================
