----------------------------- MODULE Blueprint -----------------------------
(***************************************************************************)
(* The blueprint of a configuration (src/core/blueprint): which fields      *)
(* need a resolver, what each field's directives are compiled to, added     *)
(* fields and the types of their paths, the checks of templates, and the    *)
(* definitions that are kept.                                               *)
(*                                                                         *)
(* A configuration is [types, unions, enums, roots, providers, auth]; a     *)
(* type is [fields, added, implements, cache, protected], and a field is    *)
(* [type, args, resolvers, modify, omit, cache, protected, discriminate],   *)
(* where what may be absent is a sequence of at most one.  An enum is a     *)
(* function from its variants to their aliases.  A resolver is an IR        *)
(* (IrEval), <<"call", steps>> or <<"federation">>.  What can fail is <<>>  *)
(* or a sequence of one.                                                    *)
(***************************************************************************)
EXTENDS IrEval, Configuration

Predefined == {"Int", "Float", "String", "Boolean", "ID", "JSON"}
IsList(type) == type[1] = "list"
IsNullable(type) == ~type[3]
IntoNullable(type) == <<type[1], type[2], FALSE>>
IntoSingle(type) == <<"named", Name(type), type[3]>>

-----------------------------------------------------------------------------
\* validate_type_has_resolvers(), with the types visited so far.
\* Mutated form: it looks no further than the fields of the type itself.
Nested_Shallow(types, name, a) == a

RECURSIVE TypeHasResolvers(_, _, _)
Nested(types, name, a) ==
    LET of == TypeHasResolvers(types, name, a.visited)
    IN  [ok |-> a.ok /\ of.ok, visited |-> of.visited]
FieldHasResolver(types, field, a) ==
    IF field.resolvers # <<>> THEN a
    ELSE IF Name(field.type) \in DOMAIN types THEN Nested(types, Name(field.type), a)
    ELSE [a EXCEPT !.ok = FALSE]
TypeHasResolvers(types, name, visited) ==
    IF DOMAIN types[name].fields = {} \/ name \in visited THEN [ok |-> TRUE, visited |-> visited]
    ELSE FoldLeft(LAMBDA a, f : FieldHasResolver(types, types[name].fields[f], a),
                  [ok |-> TRUE, visited |-> visited \cup {name}], SetToSeq(DOMAIN types[name].fields))

\* validate_query(), validate_mutation(), validate_subscription()
SchemaAccepted(config) ==
    /\ config.roots.query # <<>>
    /\ \A op \in DOMAIN config.roots : \A i \in DOMAIN config.roots[op] :
          /\ config.roots[op][i] \in DOMAIN config.types
          /\ TypeHasResolvers(config.types, config.roots[op][i], {}).ok

-----------------------------------------------------------------------------
\* to_field_definition(): one step after another on [name, type, resolver].
OrContext(def) == IF def.resolver = <<>> THEN <<"context", <<def.name>>>> ELSE def.resolver[1]
Around(def, Of(_)) == [def EXCEPT !.resolver = <<Of(OrContext(def))>>]

\* update_resolver(); irs are the compiled ones, and none stands for a federation's.
Resolved(irs) ==
    CASE Len(irs) = 0 -> <<>>
      [] Len(irs) = 1 -> IF irs[1] = <<"none">> THEN <<>> ELSE irs
      [] OTHER -> << <<"merge", SelectSeq(irs, LAMBDA ir : ir # <<"none">>)>> >>

\* update_modify()
Modified(config, type, field, def) ==
    IF field.modify = <<>> THEN <<def>>
    ELSE IF \E i \in type.implements \cap DOMAIN config.types :
               field.modify[1] \in DOMAIN config.types[i].fields THEN <<>>
    ELSE <<[Around(def, LAMBDA ir : ir) EXCEPT !.name = field.modify[1]]>>

\* fix_dangling_resolvers(): what is below it asks upstreams of its own.
FixDangling(config, field, def) ==
    IF field.resolvers = <<>> /\ FieldHasResolver(config.types, field, [ok |-> TRUE, visited |-> {}]).ok
    THEN [def EXCEPT !.resolver = << <<"dynamic", <<"value", <<"obj", <<>> >> >> >> >>] ELSE def

\* update_cache_resolvers()
WithCache(type, field, def) ==
    IF def.resolver = <<>> \/ field.cache \o type.cache = <<>> THEN def
    ELSE [def EXCEPT !.resolver = <<Wrap((field.cache \o type.cache)[1], @[1])>>]

\* update_protected(): the field's, its type's and what its own type asks for.
\* Mutated form: the field's own type is not looked at.
IsProtected_NotByType(config, type, field) == field.protected \o type.protected # <<>>

IsProtected(config, type, field) ==
    \/ field.protected \o type.protected # <<>>
    \/ Name(field.type) \in DOMAIN config.types /\ config.types[Name(field.type)].protected # <<>>
Named(type, field) == UNION ToSet(type.protected \o field.protected)
WithProtection(config, type, field, isInput, def) ==
    IF ~IsProtected(config, type, field) THEN <<def>>
    ELSE IF isInput \/ config.providers = {} \/ ~(Named(type, field) \subseteq config.providers) THEN <<>>
    ELSE LET ids == IF Named(type, field) = {} THEN config.providers ELSE Named(type, field)
         IN  <<Around(def, LAMBDA ir : <<"protect", ids, ir>>)>>

\* update_enum_alias(): only of what is resolved.
AliasMap(enum) ==
    [name \in DOMAIN enum \cup UNION {enum[v] : v \in DOMAIN enum} |->
        IF \E v \in DOMAIN enum : name \in enum[v]
        THEN CHOOSE v \in DOMAIN enum : name \in enum[v] ELSE name]
WithAliases(config, field, def) ==
    IF /\ Name(field.type) \in DOMAIN config.enums /\ def.resolver # <<>>
       /\ \E v \in DOMAIN config.enums[Name(field.type)] : config.enums[Name(field.type)][v] # {}
    THEN [def EXCEPT !.resolver = << <<"map", AliasMap(config.enums[Name(field.type)]), @[1]>> >>]
    ELSE def

\* update_union_resolver(), update_interface_resolver()
Declaring(config, interface) ==
    {t \in DOMAIN config.types : interface \in config.types[t].implements}
\* interfaces_types_map(): of an interface that implements another, what implements it.
\* Mutated form: the interface itself.
Implementing_Declared(config, interface) == Declaring(config, interface)
RECURSIVE Implementing(_, _)
Implementing(config, interface) ==
    UNION {IF Declaring(config, t) = {} THEN {t} ELSE Implementing(config, t) : t \in Declaring(config, interface)}
Discriminating(field, types, def) == Around(def, LAMBDA ir : <<"discriminate", types, field.discriminate, ir>>)
UnionResolver(config, field, def) ==
    IF Name(field.type) \in DOMAIN config.unions
    THEN Discriminating(field, config.unions[Name(field.type)], def) ELSE def
InterfaceResolver(config, field, def) ==
    IF Declaring(config, Name(field.type)) # {}
    THEN Discriminating(field, Implementing(config, Name(field.type)), def) ELSE def
Discriminated(config, field, def) == InterfaceResolver(config, field, UnionResolver(config, field, def))

Finished(config, type, field, isInput, def) ==
    LET guarded == WithProtection(config, type, field, isInput, WithCache(type, field, def))
    IN  IF guarded = <<>> THEN <<>>
        ELSE <<Discriminated(config, field, WithAliases(config, field, guarded[1]))>>
Completed(config, type, field, isInput, modified) ==
    IF modified = <<>> THEN <<>>
    ELSE Finished(config, type, field, isInput, FixDangling(config, field, modified[1]))

RECURSIVE Compiled(_, _)
ToFieldDefinition(config, type, field, name, isInput) ==
    LET irs == [i \in DOMAIN field.resolvers |-> Compiled(config, field.resolvers[i])]
    IN  IF \E i \in DOMAIN irs : irs[i] = <<>> THEN <<>>
        ELSE Completed(config, type, field, isInput,
                 Modified(config, type, field,
                          [name |-> name, type |-> field.type, resolver |-> Resolved(FlattenSeq(irs))]))

\* compile_call(): a step is [root, field, args], and its arguments are piped into its field.
StepField(config, step) == config.types[step.root].fields[step.field]
StepFound(config, step) ==
    /\ step.root \in DOMAIN config.types /\ step.field \in DOMAIN config.types[step.root].fields
    /\ \A a \in DOMAIN StepField(config, step).args :
          IsNullable(StepField(config, step).args[a].type) \/ a \in DOMAIN step.args
Piped(step, def) ==
    IF def = <<>> \/ def[1].resolver = <<>> THEN <<>>
    ELSE IF step.args = <<>> THEN def[1].resolver
    ELSE << <<"pipe", <<"dynamic", <<"object", step.args>> >>, def[1].resolver[1]>> >>
StepResolver(config, step) ==
    IF ~StepFound(config, step) THEN <<>>
    ELSE Piped(step, ToFieldDefinition(config, config.types[step.root], StepField(config, step),
                                       Name(StepField(config, step).type), FALSE))
\* Mutated form: what the last of the steps is given is not what the one before it answered.
CompileCall_Unpiped(irs) ==
    IF irs = <<>> \/ \E i \in DOMAIN irs : irs[i] = <<>> THEN <<>> ELSE irs[Len(irs)]
CompileCall(irs) ==
    IF irs = <<>> \/ \E i \in DOMAIN irs : irs[i] = <<>> THEN <<>>
    ELSE <<FoldLeft(LAMBDA a, b : <<"pipe", a, b[1]>>, irs[1][1], Tail(irs))>>

Compiled(config, r) ==
    CASE r[1] = "federation" -> << <<"none">> >>
      [] r[1] = "call" -> CompileCall([i \in DOMAIN r[2] |-> StepResolver(config, r[2][i])])
      [] OTHER -> <<r>>

-----------------------------------------------------------------------------
\* process_path(), process_field_within_type(): the type that is at a path.
\* Mutated form: what is found is as it is declared.
AtEnd_AsDeclared(field) == field.type
AtEnd(field) == IntoNullable(field.type)

RECURSIVE ProcessPath(_, _, _, _)
InList(next, of) == IF of # <<>> /\ IsList(next.type) THEN << <<"list", of[1], FALSE>> >> ELSE of
Following(config, rest, next, type) ==
    IF next.resolvers # <<>> THEN <<>>
    ELSE IF Name(next.type) \in Predefined THEN ProcessPath(config, rest, next, type)
    ELSE IF Name(next.type) \in DOMAIN config.types
    THEN InList(next, ProcessPath(config, rest, next, config.types[Name(next.type)]))
    ELSE <<>>
WithinType(config, path, type) ==
    IF path[1] \in DOMAIN type.fields THEN Following(config, Tail(path), type.fields[path[1]], type)
    ELSE IF Len(path) > 1 /\ path[2] \in DOMAIN type.fields
    THEN ProcessPath(config, SubSeq(path, 3, Len(path)), type.fields[path[2]], type)
    ELSE <<>>
ProcessPath(config, path, field, type) ==
    IF path = <<>> THEN <<AtEnd(field)>>
    ELSE IF path[1] \in DOMAIN Numbers
    THEN ProcessPath(config, Tail(path), [field EXCEPT !.type = IntoSingle(@)], type)
    ELSE IF path[1] \in DOMAIN type.fields THEN WithinType(config, path, type)
    ELSE IF Name(field.type) \in DOMAIN config.types
    THEN WithinType(config, path, config.types[Name(field.type)])
    ELSE <<>>

\* update_resolver_from_path()
FromPath(path, def, type) ==
    IF def = <<>> \/ type = <<>> THEN <<>>
    ELSE <<[def[1] EXCEPT
              !.type = IF ToSet(path) \cap DOMAIN Numbers = {} THEN type[1]
                       ELSE <<"named", Name(type[1]), FALSE>>,
              !.resolver = IF @ = <<>> THEN << <<"context", path>> >> ELSE << <<"path", @[1], path>> >>]>>
AddedPath(type, added) ==
    IF type.fields[added.path[1]].resolvers = <<>> THEN added.path ELSE Tail(added.path)

\* to_fields(): the fields and then the added ones; isInput, the object is also an input type.
AddedField(config, type, isInput, added) ==
    IF added.path[1] \notin DOMAIN type.fields THEN <<>>
    ELSE FromPath(AddedPath(type, added),
                  ToFieldDefinition(config, type, type.fields[added.path[1]], added.name, isInput),
                  ProcessPath(config, AddedPath(type, added), type.fields[added.path[1]], type))
TypeExists(config, field) ==
    Name(field.type) \in Predefined \cup DOMAIN config.types \cup DOMAIN config.unions \cup DOMAIN config.enums
ToField(config, type, isInput, name) ==
    IF TypeExists(config, type.fields[name]) /\ ~type.fields[name].omit
    THEN ToFieldDefinition(config, type, type.fields[name], name, isInput) ELSE <<>>

-----------------------------------------------------------------------------
\* MustachePartsValidator, for a part of a path or url: whether it is there in any request.
\* Mutated form: whatever may be null is taken.
Demands_Nothing(type) == TRUE
Demands(type) == ~IsNullable(type)

RECURSIVE ValidateType(_, _, _)
ValidateType(config, parts, type) ==
    /\ parts[1] \in DOMAIN type.fields
    /\ Demands(type.fields[parts[1]].type)
    /\ IF Len(parts) = 1 THEN Name(type.fields[parts[1]].type) \in Predefined
       ELSE /\ Name(type.fields[parts[1]].type) \in DOMAIN config.types
            /\ ValidateType(config, Tail(parts), config.types[Name(type.fields[parts[1]].type)])
Validate(config, type, args, vars, parts) ==
    /\ Len(parts) > 1
    /\ CASE parts[1] = "value" -> ValidateType(config, Tail(parts), type)
         [] parts[1] = "args" ->
               /\ parts[2] \in DOMAIN args /\ ~IsList(args[parts[2]].type)
               /\ args[parts[2]].default = <<>> => Demands(args[parts[2]].type)
         [] parts[1] = "vars" -> parts[2] \in vars
         [] OTHER -> parts[1] \in {"headers", "env", "claims"}

-----------------------------------------------------------------------------
\* compress(): a definition is [kind, fields, args, implements, members].
\* Mutated form: an interface does not keep what implements it.
Dependencies_NotImplementing(defs, name) ==
    defs[name].fields \cup defs[name].args \cup defs[name].implements \cup defs[name].members

Dependencies(defs, name) ==
    CASE defs[name].kind = "object" -> defs[name].fields \cup defs[name].args \cup defs[name].implements
      [] defs[name].kind = "interface" ->
            defs[name].fields \cup {d \in DOMAIN defs : defs[d].kind = "object" /\ name \in defs[d].implements}
      [] OTHER -> defs[name].fields \cup defs[name].members

RECURSIVE Referenced(_, _)
Referenced(defs, names) ==
    LET more == UNION {Dependencies(defs, n) : n \in names \cap DOMAIN defs}
    IN  IF more \subseteq names THEN names ELSE Referenced(defs, names \cup more)

Compress(defs, query, mutation) ==
    DOMAIN defs \cap Referenced(defs, {"Query", "Mutation", "Subscription", query}
                                        \cup IF mutation = <<>> THEN {} ELSE {mutation[1]})

\* Index::is_type_implements()
IsTypeImplements(defs, name, of) ==
    \/ name = of
    \/ /\ name \in DOMAIN defs /\ defs[name].kind = "object"
       /\ \/ of \in defs[name].implements
          \/ of \in DOMAIN defs /\ defs[of].kind = "union" /\ name \in defs[of].members

-----------------------------------------------------------------------------
\* What has to be resolved by the parent, and the parent of it, up to the root.
RECURSIVE Unresolved(_, _)
Unresolved(types, names) ==
    LET more == {Name(types[t].fields[f].type) :
                   <<t, f>> \in {x \in names \X UNION {DOMAIN types[t].fields : t \in names} :
                                   x[2] \in DOMAIN types[x[1]].fields /\ types[x[1]].fields[x[2]].resolvers = <<>>}}
    IN  IF more \cap DOMAIN types \subseteq names THEN names
        ELSE Unresolved(types, names \cup (more \cap DOMAIN types))

\* validate_type_has_resolvers(): a root is accepted when, down from it, every scalar, enum
\* or union is below a resolver; what a configuration declares as a scalar is not seen.
RootsAreResolved(config) ==
    config.roots.query # <<>> =>
        (SchemaAccepted(config) <=>
            \A op \in DOMAIN config.roots : \A i \in DOMAIN config.roots[op] :
                config.roots[op][i] \in DOMAIN config.types /\
                \A t \in Unresolved(config.types, {config.roots[op][i]}) :
                    \A f \in DOMAIN config.types[t].fields :
                        \/ config.types[t].fields[f].resolvers # <<>>
                        \/ Name(config.types[t].fields[f].type) \in DOMAIN config.types)

\* What a field's value is: its resolver's, or the parent's at its name.
Served(def, ctx) == Eval(OrContext(def), ctx)
\* What the configuration says it is, from the answers of its resolvers or its parent's member.
Source(config, field, name, ctx) ==
    IF field.resolvers = <<>> /\ FieldHasResolver(config.types, field, [ok |-> TRUE, visited |-> {}]).ok
    THEN << <<"obj", <<>> >> >>
    ELSE LET own == SelectSeq(field.resolvers, LAMBDA r : r # <<"federation">>)
         IN  Eval(IF own = <<>> THEN <<"context", <<name>>>> ELSE <<"merge", own>>, ctx)
Aliased(config, field, plain, v) ==
    IF v = <<>> \/ plain \/ Name(field.type) \notin DOMAIN config.enums THEN v
    ELSE IF \E a \in DOMAIN config.enums[Name(field.type)] : config.enums[Name(field.type)][a] # {}
    THEN MapEnum(v[1], AliasMap(config.enums[Name(field.type)])) ELSE v
Possible(config, name) ==
    IF name \in DOMAIN config.unions THEN config.unions[name] ELSE Implementing(config, name)
Told(config, field, v) ==
    IF v = <<>> \/ Possible(config, Name(field.type)) = {} THEN v
    ELSE ResolveType(Possible(config, Name(field.type)), field.discriminate, v[1])
Asked(config, type, field) ==
    LET named == UNION ToSet(field.protected \o type.protected) IN IF named = {} THEN config.providers ELSE named
Protecting(config, type, field) ==
    field.protected # <<>> \/ type.protected # <<>> \/
    \E t \in DOMAIN config.types : t = Name(field.type) /\ config.types[t].protected # <<>>
MeansItsDirectives(config, type, name, field, ctx, def, served, source) ==
    /\ def.name = IF field.modify = <<>> THEN name ELSE field.modify[1]
    /\ IF Protecting(config, type, field) /\ ~(Asked(config, type, field) \subseteq ctx.auth)
       THEN served = <<>>
       ELSE served = Told(config, field, Aliased(config, field, def.resolver = <<>>, source))
    /\ field.cache \o type.cache # <<>> /\ def.resolver # <<>> => "io" \notin Reads(def.resolver[1])

\* to_field_definition(): whatever the directives of a field and in whichever order they are
\* compiled, it is its resolvers' merged answer or its parent's member of the field's first
\* name, to those its protection admits, cached where it says so, with aliases undone and
\* its type told.
FieldMeansItsDirectives(config, type, name, ctx) ==
    \A def \in ToSet(ToField(config, type, FALSE, name)) :
        MeansItsDirectives(config, type, name, type.fields[name], ctx, def, Served(def, ctx),
                           Source(config, type.fields[name], name, ctx))

\* compile_call(): each step has the answer of the one before for its arguments' templates.
CallIsItsSteps(config, steps, ctx) ==
    LET ir == Compiled(config, <<"call", steps>>)
        args(c, step) == IF step.args = <<>> THEN c.args ELSE <<RenderValue(<<"object", step.args>>, c)>>
        after(v, step) ==
            IF v = <<>> THEN <<>>
            ELSE Eval(StepField(config, step).resolvers[1],
                      [ctx EXCEPT !.args = args([ctx EXCEPT !.args = v, !.copied = {"args"}], step),
                                  !.copied = {"args"}])
        first == Eval(StepField(config, steps[1]).resolvers[1],
                      IF steps[1].args = <<>> THEN ctx
                      ELSE [ctx EXCEPT !.args = args(ctx, steps[1]), !.copied = {"args"}])
    IN  ir # <<>> => Eval(ir[1], ctx) = FoldLeft(after, first, Tail(steps))

\* What a value of a type may be.
RECURSIVE Fits(_, _, _)
Fits(config, type, v) ==
    CASE v = Null -> IsNullable(type)
      [] IsList(type) -> v[1] = "list" /\ \A i \in DOMAIN v[2] : Fits(config, type[2], v[2][i])
      [] type[2] \in DOMAIN config.types ->
            /\ v[1] = "obj"
            /\ \A f \in DOMAIN config.types[type[2]].fields :
                  config.types[type[2]].fields[f].resolvers = <<>> =>
                      Fits(config, config.types[type[2]].fields[f].type,
                           IF f \in DOMAIN v[2] THEN v[2][f] ELSE Null)
      [] OTHER -> v[1] \in {"num", "str"}

\* The types the path goes through, of the values themselves; and whether all of it is the parent's.
RECURSIVE Through(_, _, _)
Through(config, path, type) ==
    IF path = <<>> THEN <<type>>
    ELSE IF IsList(type) THEN IF path[1] \in DOMAIN Numbers THEN <<type>> \o Through(config, Tail(path), type[2]) ELSE <<type>>
    ELSE IF type[2] \in DOMAIN config.types /\ path[1] \in DOMAIN config.types[type[2]].fields
    THEN <<type>> \o Through(config, Tail(path), config.types[type[2]].fields[path[1]].type)
    ELSE <<type>>

RECURSIVE OfParent(_, _, _)
OfParent(config, path, type) ==
    path # <<>> =>
        /\ type.fields[path[1]].resolvers = <<>>
        /\ Len(path) > 1 => OfParent(config, Tail(path), config.types[Name(type.fields[path[1]].type)])

\* process_path() takes a sibling of the source for a member of it, wraps what ends in a list of
\* objects once more, and forgets the lists that an index does not enter.
TakenAsMeant(config, type, path, field) ==
    LET found == Through(config, path, field.type)
        last == found[Len(found)]
    IN  /\ field.resolvers # <<>> /\ path # <<>> => path[1] \notin DOMAIN type.fields
        /\ IsList(last) => Name(last) \in Predefined /\ ToSet(path) \cap DOMAIN Numbers = {}

\* to_added_field(): an added field's type is that of what its path leads to, in every value of
\* the field it begins with.
AddedFieldFits(config, type, added, ctx) ==
    \A def \in ToSet(AddedField(config, type, FALSE, added)) :
        LET path == AddedPath(type, added)
            field == type.fields[added.path[1]]
            rest == Tail(added.path)
            of == IF field.resolvers = <<>> THEN GetPath(ctx.value[1], <<added.path[1]>>)
                  ELSE Eval(field.resolvers[1], ctx)
        IN  /\ TakenAsMeant(config, type, IF field.resolvers = <<>> THEN rest ELSE path, field)
            /\ of # <<>> /\ Fits(config, field.type, of[1])
            => \E v \in ToSet(Served(def, ctx)) : Fits(config, def.type, v)

\* MustachePartsValidator::validate(): what it lets into a path or url renders to something,
\* unless a list or a field with a resolver of its own is on the way, or a default is set aside.
ValidatedRenders(config, type, args, vars, parts, ctx) ==
    /\ Validate(config, type, args, DOMAIN vars, parts) /\ parts[1] \in {"value", "args", "vars"}
    /\ parts[1] = "value" => \A t \in ToSet(Through(config, Tail(parts), <<"named", "T", TRUE>>)) : ~IsList(t)
    /\ parts[1] = "value" => OfParent(config, Tail(parts), type)
    /\ parts[1] = "args" => Len(parts) = 2
    => Rendered(ctx, parts) # <<>>

\* compress(), Index::is_type_implements(): all that a kept definition names is kept, and all
\* that a value of its type may be; but not what only a renamed subscription leads to.
KeptIsWhole(defs, query, mutation) ==
    LET kept == Compress(defs, query, mutation)
    IN  /\ {query} \cap DOMAIN defs \subseteq kept /\ ToSet(mutation) \cap DOMAIN defs \subseteq kept
        /\ \A n \in kept :
              /\ (defs[n].fields \cup defs[n].args \cup defs[n].implements \cup defs[n].members) \cap DOMAIN defs
                    \subseteq kept
              /\ \A m \in DOMAIN defs : IsTypeImplements(defs, m, n) => m \in kept
=============================================================================
