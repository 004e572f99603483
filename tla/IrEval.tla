------------------------------ MODULE IrEval ------------------------------
(***************************************************************************)
(* What a resolver's expression yields: IR::eval() and its rewriting        *)
(* (src/core/ir), templates and the paths they read (dynamic_value.rs,      *)
(* path.rs), the discriminators, and the merging of several results.        *)
(*                                                                         *)
(* A value is <<"null">>, <<"str", s>>, <<"num", n>>, <<"enum", e>>,        *)
(* <<"list", values>> or <<"obj", f>>; an index in a path is a number, as   *)
(* text.  A result is <<>> for an error, or <<value>>.                      *)
(***************************************************************************)
EXTENDS Naturals, Sequences, SequencesExt, FiniteSetsExt

Null == <<"null">>
Numbers == [n \in {"0", "1", "2"} |-> CASE n = "0" -> 0 [] n = "1" -> 1 [] OTHER -> 2]

\* JsonLike::get_path()
RECURSIVE GetPath(_, _)
GetPath(v, path) ==
    IF path = <<>> THEN <<v>>
    ELSE IF v[1] = "list"
    THEN IF path[1] \in DOMAIN Numbers /\ Numbers[path[1]] < Len(v[2])
         THEN GetPath(v[2][Numbers[path[1]] + 1], Tail(path)) ELSE <<>>
    ELSE IF v[1] = "obj" /\ path[1] \in DOMAIN v[2] THEN GetPath(v[2][path[1]], Tail(path))
    ELSE <<>>

\* to_raw_value(), of the parts a field's own request decides: a template's path
\* begins with where it looks.  What a pipe or an entity put there is a copy.
RawValue(ctx, path) ==
    LET in(at) == IF at = <<>> THEN <<>> ELSE GetPath(at[1], Tail(path))
    IN  CASE path[1] = "value" -> in(ctx.value)
          [] path[1] = "args" -> in(ctx.args)
          [] path[1] = "vars" /\ Len(path) > 1 ->
                IF path[2] \in DOMAIN ctx.vars THEN << <<"str", ctx.vars[path[2]]>> >> ELSE <<>>
          [] OTHER -> <<>>

\* path_string(), convert_value(): null renders as nothing, and so does an enum of a copy.
Rendered(ctx, path) ==
    SelectSeq(RawValue(ctx, path),
              LAMBDA v : v # Null /\ (v[1] = "enum" => path[1] \notin ctx.copied))

-----------------------------------------------------------------------------
\* DynamicValue: <<"value", v>>, <<"object", f>>, <<"array", s>>, <<"mustache", path>> or, of
\* several segments, <<"text", paths>>, where text without a template is <<>>.
\* prepend() does it to the first of the segments.
RECURSIVE Prepend(_, _)
Prepend(d, name) ==
    CASE d[1] = "mustache" -> <<"mustache", <<name>> \o d[2]>>
      [] d[1] = "text" -> <<"text", [d[2] EXCEPT ![1] = IF @ = <<>> THEN @ ELSE <<name>> \o @]>>
      [] d[1] = "object" -> <<"object", [k \in DOMAIN d[2] |-> Prepend(d[2][k], name)]>>
      [] d[1] = "array" -> <<"array", [i \in DOMAIN d[2] |-> Prepend(d[2][i], name)]>>
      [] OTHER -> d

RECURSIVE IsConst(_)
IsConst(d) ==
    CASE d[1] \in {"mustache", "text"} -> FALSE
      [] d[1] \in {"object", "array"} -> \A k \in DOMAIN d[2] : IsConst(d[2][k])
      [] OTHER -> TRUE

\* render_value(): text that is JSON is read as such, so a number's digits are the number.
RenderMustache(ctx, path) ==
    LET text == Rendered(ctx, path)
    IN  CASE text = <<>> -> <<"str", "">>
          [] text[1][1] = "str" /\ text[1][2] \in DOMAIN Numbers -> <<"num", Numbers[text[1][2]]>>
          [] text[1][1] = "enum" -> <<"str", text[1][2]>>
          [] OTHER -> text[1]

RECURSIVE RenderValue(_, _)
RenderValue(d, ctx) ==
    CASE d[1] = "value" -> d[2]
      [] d[1] = "mustache" -> RenderMustache(ctx, d[2])
      [] d[1] = "text" -> <<"text", [i \in DOMAIN d[2] |-> IF d[2][i] = <<>> THEN <<>> ELSE Rendered(ctx, d[2][i])]>>
      [] d[1] = "object" -> <<"obj", [k \in DOMAIN d[2] |-> RenderValue(d[2][k], ctx)]>>
      [] OTHER -> <<"list", [i \in DOMAIN d[2] |-> RenderValue(d[2][i], ctx)]>>

-----------------------------------------------------------------------------
\* MergeRight of ConstValue
RECURSIVE MergeRight(_, _)
MergeRight(a, b) ==
    CASE a[1] = "list" /\ b[1] = "list" -> <<"list", a[2] \o b[2]>>
      [] a[1] = "list" -> <<"list", Append(a[2], b)>>
      [] a[1] = "obj" /\ b[1] = "obj" ->
            <<"obj", [k \in DOMAIN a[2] \cup DOMAIN b[2] |->
                        IF k \notin DOMAIN b[2] THEN a[2][k]
                        ELSE IF k \notin DOMAIN a[2] THEN b[2][k] ELSE MergeRight(a[2][k], b[2][k])]>>
      [] OTHER -> b

\* recursive_map_enum()
RECURSIVE MapEnum(_, _)
MapEnum(v, map) ==
    CASE v = Null -> <<Null>>
      [] v[1] = "str" -> IF v[2] \in DOMAIN map THEN << <<"str", map[v[2]]>> >> ELSE <<>>
      [] v[1] = "list" ->
            LET mapped == [i \in DOMAIN v[2] |-> MapEnum(v[2][i], map)]
            IN  IF \E i \in DOMAIN mapped : mapped[i] = <<>> THEN <<>>
                ELSE << <<"list", FlattenSeq(mapped)>> >>
      [] OTHER -> <<>>

\* TypedValue
TypeName(v) ==
    IF v[1] = "obj" /\ "__typename" \in DOMAIN v[2] /\ v[2]["__typename"][1] = "str"
    THEN <<v[2]["__typename"][2]>> ELSE <<>>
SetTypeName(v, name) ==
    CASE v = Null -> <<v>>
      [] v[1] = "obj" ->
            << <<"obj", [k \in DOMAIN v[2] \cup {"__typename"} |->
                           IF k = "__typename" THEN <<"str", name>> ELSE v[2][k]]>> >>
      [] OTHER -> <<>>

\* KeyedDiscriminator: the only key, and what is under it.
Keyed(types, v) ==
    IF Cardinality(DOMAIN v[2]) = 1 /\ DOMAIN v[2] \subseteq types
    THEN LET name == CHOOSE n \in DOMAIN v[2] : TRUE IN SetTypeName(v[2][name], name) ELSE <<>>

\* TypeFieldDiscriminator: the name that a field of it says.
\* Mutated form: whatever the field says.
TypeField_Unchecked(types, field, v) ==
    IF field \in DOMAIN v[2] /\ v[2][field][1] = "str" THEN SetTypeName(v, v[2][field][2]) ELSE <<>>

TypeField(types, field, v) ==
    IF field \in DOMAIN v[2] /\ v[2][field][1] = "str" /\ v[2][field][2] \in types
    THEN SetTypeName(v, v[2][field][2]) ELSE <<>>

\* Discriminator::resolve_type()
RECURSIVE ResolveType(_, _, _)
ResolveType(types, field, v) ==
    CASE TypeName(v) # <<>> \/ v = Null -> <<v>>
      [] v[1] = "list" ->
            LET typed == [i \in DOMAIN v[2] |-> ResolveType(types, field, v[2][i])]
            IN  IF \E i \in DOMAIN typed : typed[i] = <<>> THEN <<>>
                ELSE << <<"list", FlattenSeq(typed)>> >>
      [] v[1] = "obj" -> IF field = <<>> THEN Keyed(types, v) ELSE TypeField(types, field[1], v)
      [] OTHER -> <<>>

-----------------------------------------------------------------------------
\* IR: <<"io", r>>, <<"cache", r, age>>, <<"dynamic", d>>, <<"context", path>>,
\* <<"path", ir, path>>, <<"protect", ids, ir>>, <<"map", map, ir>>, <<"pipe", a, b>>,
\* <<"discriminate", types, field, ir>>, <<"merge", irs>>, <<"entity", byType>>.
\* What r's upstream answers is ctx.world[r], <<>> where it fails; what the response cache
\* has of r is ctx.kept[r], which is never of a script or a stream: only ctx.keyed have keys.
FromCache(r, ctx) == IF r \in ctx.keyed \cap DOMAIN ctx.kept THEN <<ctx.kept[r]>> ELSE ctx.world[r]

RECURSIVE Eval(_, _)
Eval(ir, ctx) ==
    CASE ir[1] = "io" -> ctx.world[ir[2]]
      [] ir[1] = "cache" -> FromCache(ir[2], ctx)
      [] ir[1] = "dynamic" -> <<RenderValue(ir[2], ctx)>>
      [] ir[1] = "context" ->
            LET at == IF ctx.value = <<>> THEN <<>> ELSE GetPath(ctx.value[1], ir[2])
            IN  IF at = <<>> THEN <<Null>> ELSE at
      [] ir[1] = "path" ->
            LET of == Eval(ir[2], ctx)
                at == IF of = <<>> THEN <<>> ELSE GetPath(of[1], ir[3])
            IN  IF of # <<>> /\ at = <<>> THEN <<Null>> ELSE at
      [] ir[1] = "protect" -> IF ir[2] \subseteq ctx.auth THEN Eval(ir[3], ctx) ELSE <<>>
      [] ir[1] = "map" ->
            LET of == Eval(ir[3], ctx) IN IF of = <<>> THEN <<>> ELSE MapEnum(of[1], ir[2])
      [] ir[1] = "discriminate" ->
            LET of == Eval(ir[4], ctx) IN IF of = <<>> THEN <<>> ELSE ResolveType(ir[2], ir[3], of[1])
      [] ir[1] = "pipe" ->
            LET args == Eval(ir[2], ctx)
            IN  IF args = <<>> THEN <<>>
                ELSE Eval(ir[3], [ctx EXCEPT !.args = args, !.copied = @ \cup {"args"}])
      [] ir[1] = "merge" ->
            LET all == [i \in DOMAIN ir[2] |-> Eval(ir[2][i], ctx)]
            IN  CASE all = <<>> -> <<Null>>
                  [] \E i \in DOMAIN all : all[i] = <<>> -> <<>>
                  [] OTHER -> <<FoldLeft(LAMBDA a, b : MergeRight(a, b[1]), all[1][1], Tail(all))>>
      [] OTHER ->
            LET args == RawValue(ctx, <<"args", "representations">>)
                of == IF args = <<>> THEN Null ELSE args[1]
                typed(r) == TypeName(r) # <<>> /\ TypeName(r)[1] \in DOMAIN ir[2]
                own(r) == Eval(ir[2][TypeName(r)[1]], 
                    [ctx EXCEPT !.value = <<r>>, !.copied = @ \cup {"value"}])
                named == [i \in DOMAIN of[2] |->
                            IF ~typed(of[2][i]) \/ own(of[2][i]) = <<>> THEN <<>>
                            ELSE SetTypeName(own(of[2][i])[1], TypeName(of[2][i])[1])]
            IN  IF of[1] # "list" \/ \E i \in DOMAIN of[2] : named[i] = <<>> THEN <<>>
                ELSE << <<"list", FlattenSeq(named)>> >>

\* Cache::wrap(), IR::modify(): every input of it that is read from an upstream.
\* Mutated form: not those whose results are merged.
RECURSIVE Wrap_NotMerged(_, _)
Wrap_NotMerged(age, ir) ==
    CASE ir[1] \in {"io", "cache"} -> <<"cache", ir[2], age>>
      [] ir[1] = "path" -> <<"path", Wrap_NotMerged(age, ir[2]), ir[3]>>
      [] ir[1] \in {"protect", "map"} -> <<ir[1], ir[2], Wrap_NotMerged(age, ir[3])>>
      [] ir[1] = "pipe" -> <<"pipe", Wrap_NotMerged(age, ir[2]), Wrap_NotMerged(age, ir[3])>>
      [] ir[1] = "discriminate" -> <<ir[1], ir[2], ir[3], Wrap_NotMerged(age, ir[4])>>
      [] OTHER -> ir

RECURSIVE Wrap(_, _)
Wrap(age, ir) ==
    CASE ir[1] \in {"io", "cache"} -> <<"cache", ir[2], age>>
      [] ir[1] = "path" -> <<"path", Wrap(age, ir[2]), ir[3]>>
      [] ir[1] \in {"protect", "map"} -> <<ir[1], ir[2], Wrap(age, ir[3])>>
      [] ir[1] = "pipe" -> <<"pipe", Wrap(age, ir[2]), Wrap(age, ir[3])>>
      [] ir[1] = "discriminate" -> <<ir[1], ir[2], ir[3], Wrap(age, ir[4])>>
      [] ir[1] = "merge" -> <<"merge", [i \in DOMAIN ir[2] |-> Wrap(age, ir[2][i])]>>
      [] ir[1] = "entity" -> <<"entity", [t \in DOMAIN ir[2] |-> Wrap(age, ir[2][t])]>>
      [] OTHER -> ir

\* What an evaluation that succeeds leaves in the response cache.
RECURSIVE Kept(_, _)
Kept(ir, ctx) ==
    CASE ir[1] = "cache" -> IF ctx.world[ir[2]] = <<>> THEN {} ELSE {ir[2]} \cap ctx.keyed
      [] ir[1] = "path" -> Kept(ir[2], ctx)
      [] ir[1] \in {"protect", "map"} -> Kept(ir[3], ctx)
      [] ir[1] = "discriminate" -> Kept(ir[4], ctx)
      [] ir[1] = "pipe" ->
            Kept(ir[2], ctx) \cup
            Kept(ir[3], [ctx EXCEPT !.args = Eval(ir[2], ctx), !.copied = @ \cup {"args"}])
      [] ir[1] = "merge" -> UNION {Kept(ir[2][i], ctx) : i \in DOMAIN ir[2]}
      [] ir[1] = "entity" ->
            LET given == RawValue(ctx, <<"args", "representations">>)[1][2]
            IN  UNION {Kept(ir[2][TypeName(given[i])[1]],
                            [ctx EXCEPT !.value = <<given[i]>>, !.copied = @ \cup {"value"}]) :
                          i \in DOMAIN given}
      [] OTHER -> {}

\* The same evaluation later, when every upstream is down but those without a key.
Again(ir, ctx) ==
    Eval(ir, [ctx EXCEPT !.kept = [r \in Kept(ir, ctx) |-> ctx.world[r][1]],
                         !.world = [r \in DOMAIN @ |-> IF r \in ctx.keyed THEN <<>> ELSE @[r]]])

\* Where it reads an upstream, and of which kind; all that it is under.
RECURSIVE Reads(_)
Reads(ir) ==
    CASE ir[1] \in {"io", "cache"} -> {ir[1]}
      [] ir[1] \in {"path", "pipe"} -> Reads(ir[2]) \cup IF ir[1] = "pipe" THEN Reads(ir[3]) ELSE {}
      [] ir[1] \in {"protect", "map"} -> Reads(ir[3])
      [] ir[1] = "discriminate" -> Reads(ir[4])
      [] ir[1] \in {"merge", "entity"} -> UNION {Reads(ir[2][i]) : i \in DOMAIN ir[2]}
      [] OTHER -> {}

-----------------------------------------------------------------------------
RECURSIVE Typed(_, _)
Typed(types, v) ==
    CASE v = Null -> TRUE
      [] v[1] = "list" -> \A i \in DOMAIN v[2] : Typed(types, v[2][i])
      [] OTHER -> TypeName(v) # <<>> /\ TypeName(v)[1] \in types

RECURSIVE Untyped(_)
Untyped(v) ==
    CASE v[1] = "list" -> \A i \in DOMAIN v[2] : Untyped(v[2][i])
      [] v[1] = "obj" -> TypeName(v) = <<>> /\ \A k \in DOMAIN v[2] : Untyped(v[2][k])
      [] OTHER -> TRUE

DiscriminatedOnce(v, typed, types, field) ==
    typed # <<>> =>
        /\ Untyped(v) => Typed(types, typed[1])
        /\ ResolveType(types, field, typed[1]) = typed
        /\ v[1] = "list" => Len(typed[1][2]) = Len(v[2])

\* The last of the objects that has a member decides it, but for lists and objects.
MergedAsMeant(v, parts) ==
    (\A i \in DOMAIN parts : parts[i][1] = "obj") =>
        /\ DOMAIN v[2] = UNION {DOMAIN parts[i][2] : i \in DOMAIN parts}
        /\ \A k \in DOMAIN v[2] :
            LET having == {i \in DOMAIN parts : k \in DOMAIN parts[i][2]}
            IN  (\A i \in having : parts[i][2][k][1] \notin {"list", "obj"}) =>
                    v[2][k] = parts[Max(having)][2][k]

Meaning(ir, wrapped, types, field, ctx, v, parts) ==
    /\ Eval(wrapped, ctx) = v
    /\ v # <<>> => Again(wrapped, ctx) = v
    /\ "io" \notin Reads(wrapped)
    /\ Reads(ir) = {} <=> Reads(wrapped) = {}
    /\ v # <<>> => DiscriminatedOnce(v[1], ResolveType(types, field, v[1]), types, field)
    /\ ir[1] = "merge" /\ ir[2] # <<>> /\ v # <<>> =>
          MergedAsMeant(v[1], [i \in DOMAIN ir[2] |-> parts[i][1]])

\* Discriminator::resolve_type(), Cache::wrap(), MergeRight: what is discriminated is of a
\* member type all through, and stays as it is a second time; the cache is asked
\* instead of every upstream, with the same results, and as long as nothing expires an
\* answer that was given can be given again although the upstreams that have a key are
\* down; and several objects merge to one that has what each has.
EvaluatesAsMeant(ir, types, field, ctx) ==
    Meaning(ir, Wrap(1, ir), types, field, ctx, Eval(ir, ctx),
            IF ir[1] = "merge" THEN [i \in DOMAIN ir[2] |-> Eval(ir[2][i], ctx)] ELSE <<>>)

\* DynamicValue::is_const(): what is taken for constant is the same in every request.
ConstantsDoNotVary(d, ctx, other) == IsConst(d) => RenderValue(d, ctx) = RenderValue(d, other)
=============================================================================
