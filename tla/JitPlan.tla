------------------------------ MODULE JitPlan ------------------------------
(***************************************************************************)
(* From a query's text to the fields that are executed: collect_fields()   *)
(* of src/core/jit/builder.rs, the transformers of src/core/jit/transform, *)
(* and what JITExecutor keeps of a plan and of its answer                  *)
(* (src/core/jit/graphql_executor.rs).                                     *)
(*                                                                         *)
(* A selection is a sequence of items: a field, with its alias, its @skip  *)
(* and @include ("none", "true", "false" or a variable) and a selection;   *)
(* or a fragment, with the type it is on.  A request's variables are a     *)
(* function from the names it gives a value to "true", "false" or "other", *)
(* what is no boolean.  What a query declares as a variable's default is   *)
(* read nowhere.                                                           *)
(***************************************************************************)
EXTENDS Naturals, FiniteSets, SequencesExt

CONSTANT Lookup(_, _)   \* (type, field) -> <<[type, ir]>>, or <<>>

-----------------------------------------------------------------------------
(* Conditions, Builder::include()                                           *)
Skips(item) == IF item.skip = "none" THEN "false" ELSE item.skip
Includes(item) == IF item.include = "none" THEN "true" ELSE item.include
IsConstSkip(item) ==
    Skips(item) = "true" \/ (Skips(item) = "false" /\ Includes(item) = "false")

Variable(condition) == IF condition \in {"true", "false"} THEN <<>> ELSE <<condition>>
Output(item) == IF item.alias = <<>> THEN item.name ELSE item.alias[1]

(***************************************************************************)
(* collect_fields(): a name is taken by the first field of the selection   *)
(* that has it, then the fragments' fields whose names are not, all in the *)
(* order of the text (their ids).                                          *)
(***************************************************************************)
Visited(sel) == {Output(sel[i]) : i \in {j \in DOMAIN sel : sel[j].kind = "field"}}

RECURSIVE Collect(_, _)
Collect(sel, type) ==
    LET repeated(i) == \E j \in 1..(i - 1) :
                          sel[j].kind = "field" /\ Output(sel[j]) = Output(sel[i])
        field(item) ==
            LET found == Lookup(type, item.name)
                new(ir, of) ==
                    <<[name |-> item.name, out |-> Output(item), ir |-> ir, on |-> type,
                       skip |-> Variable(Skips(item)), include |-> Variable(Includes(item)),
                       sel |-> IF of = "String" THEN <<>> ELSE Collect(item.sel, of)]>>
            IN  IF found # <<>> THEN new(found[1].ir, found[1].type)
                ELSE IF item.name = "__typename" THEN new(<<>>, "String") ELSE <<>>
        collected(i) ==
            IF sel[i].kind = "fragment"
            THEN SelectSeq(Collect(sel[i].sel, sel[i].on), LAMBDA f : f.out \notin Visited(sel))
            ELSE IF repeated(i) \/ IsConstSkip(sel[i]) THEN <<>>
            ELSE field(sel[i])
    IN  FlattenSeq([i \in DOMAIN sel |-> collected(i)])

\* get_operation(): by name, or the only one.  A document with one anonymous
\* operation has none to be named.
Operation(document, name) ==
    IF name # <<>>
    THEN SelectSeq(document, LAMBDA op : op.name = name)
    ELSE IF Len(document) = 1 THEN document ELSE <<>>

-----------------------------------------------------------------------------
(* The IR, as far as a plan looks into it: <<"io", dedupe>>, <<"cache",    *)
(* max_age, dedupe>>, <<"dynamic", is_const>>, <<"path", ir>>,             *)
(* <<"protect", auth, expression, ir>>, <<"pipe", ir, ir>>, <<"merge",     *)
(* irs>>.                                                                   *)
RECURSIVE IsConst(_)
IsConst(ir) ==
    CASE ir[1] = "dynamic" -> ir[2]
      [] ir[1] \in {"io", "cache"} -> FALSE
      [] ir[1] = "path" -> IsConst(ir[2])
      [] ir[1] = "protect" -> IsConst(ir[4])
      [] ir[1] = "pipe" -> IsConst(ir[2]) /\ IsConst(ir[3])
      [] ir[1] = "merge" -> \A i \in DOMAIN ir[2] : IsConst(ir[2][i])

RECURSIVE IsProtected(_)
IsProtected(ir) ==
    CASE ir[1] \in {"dynamic", "io", "cache"} -> FALSE
      [] ir[1] = "path" -> IsProtected(ir[2])
      [] ir[1] = "protect" -> TRUE
      [] ir[1] = "pipe" -> IsProtected(ir[2]) \/ IsProtected(ir[3])
      [] ir[1] = "merge" -> \A i \in DOMAIN ir[2] : IsProtected(ir[2][i])

RECURSIVE CheckDedupe(_)
CheckDedupe(ir) ==
    CASE ir[1] = "dynamic" -> TRUE
      [] ir[1] = "io" -> ir[2]
      [] ir[1] = "cache" -> ir[3]
      [] ir[1] = "path" -> CheckDedupe(ir[2])
      [] ir[1] = "protect" -> CheckDedupe(ir[4])
      [] ir[1] = "pipe" -> CheckDedupe(ir[2]) /\ CheckDedupe(ir[3])
      [] ir[1] = "merge" -> \A i \in DOMAIN ir[2] : CheckDedupe(ir[2][i])

\* update_ir(): the rules without an expression leave the IR, in order.
RECURSIVE UpdateIr(_)
UpdateIr(ir) ==
    CASE ir[1] \in {"dynamic", "io", "cache"} -> [auth |-> <<>>, ir |-> ir]
      [] ir[1] = "path" ->
            LET inner == UpdateIr(ir[2]) IN [inner EXCEPT !.ir = <<"path", @>>]
      [] ir[1] = "protect" ->
            LET inner == UpdateIr(ir[4])
            IN  IF ir[3] THEN [inner EXCEPT !.ir = <<"protect", ir[2], TRUE, @>>]
                ELSE [inner EXCEPT !.auth = <<ir[2]>> \o @]
      [] ir[1] = "pipe" ->
            LET a == UpdateIr(ir[2])
                b == UpdateIr(ir[3])
            IN  [auth |-> a.auth \o b.auth, ir |-> <<"pipe", a.ir, b.ir>>]
      [] ir[1] = "merge" ->
            LET all == [i \in DOMAIN ir[2] |-> UpdateIr(ir[2][i])]
            IN  [auth |-> FlattenSeq([i \in DOMAIN all |-> all[i].auth]),
                 ir |-> <<"merge", [i \in DOMAIN all |-> all[i].ir]>>]

\* update_field(): not below a field without a resolver of its own.
RECURSIVE AuthPlanner(_)
AuthPlanner(fields) ==
    LET one(f) ==
            IF f.ir = <<>> THEN [auth |-> <<>>, field |-> f]
            ELSE LET own == UpdateIr(f.ir[1])
                     below == AuthPlanner(f.sel)
                 IN  [auth |-> own.auth \o below.auth,
                      field |-> [f EXCEPT !.ir = <<own.ir>>, !.sel = below.fields]]
        all == [i \in DOMAIN fields |-> one(fields[i])]
    IN  [auth |-> FlattenSeq([i \in DOMAIN all |-> all[i].auth]),
         fields |-> [i \in DOMAIN all |-> all[i].field]]

\* iter_dfs()
RECURSIVE Resolvers(_)
Resolvers(fields) ==
    FlattenSeq([i \in DOMAIN fields |-> fields[i].ir \o Resolvers(fields[i].sel)])

\* create_plan(): the flags are of the resolvers as the schema has them, but
\* is_dedupe, which looks at the root fields once the rules have left.
Flagged(irs, auth) ==
    [fields |-> auth.fields, before |-> auth.auth,
     is_const |-> \A ir \in irs : IsConst(ir),
     is_protected |-> \A ir \in irs : IsProtected(ir),
     is_dedupe |-> \A f \in ToSet(auth.fields) : f.ir # <<>> => CheckDedupe(f.ir[1])]

Built(fields) == Flagged(ToSet(Resolvers(fields)), AuthPlanner(fields))

CreatePlan(document, name) ==
    LET operation == Operation(document, name)
    IN  IF operation = <<>> THEN <<>> ELSE <<Built(Collect(operation[1].sel, "Query"))>>

-----------------------------------------------------------------------------
\* Field::skip(): a condition without a variable, and one whose variable is not given or is
\* no boolean, is what it is by default.
FieldSkips(f, vars) ==
    LET eval(variable, default) ==
            IF variable # <<>> /\ variable[1] \in DOMAIN vars /\ vars[variable[1]] # "other"
            THEN vars[variable[1]] = "true" ELSE default
    IN  eval(f.skip, FALSE) = eval(f.include, TRUE)

\* transform::Skip
RECURSIVE Skip(_, _)
Skip(fields, vars) ==
    LET kept == SelectSeq(fields, LAMBDA f : ~FieldSkips(f, vars))
    IN  [i \in DOMAIN kept |-> [kept[i] EXCEPT !.sel = Skip(@, vars)]]

\* What an execution of the plan depends on, besides the upstreams.
Execution(plan, vars) == <<plan.before, Skip(plan.fields, vars)>>

\* Mutated form: the plan is kept as the request's variables left it.
Execute_KeepsSkipped(plan, vars) == [plan EXCEPT !.fields = Skip(@, vars)]

\* ConstValueExecutor works on a copy of the plan.
Execute(plan, vars) == plan

\* JITExecutor::execute(), for the one query the caches are looked up by.
ServeBy(plan, kept, vars) ==
    IF kept.const # <<>> THEN [kept EXCEPT !.answer = kept.const]
    ELSE IF plan = <<>> THEN [kept EXCEPT !.answer = <<>>]
    ELSE LET answer == <<Execution(plan[1], vars)>>
         IN  [plan |-> <<Execute(plan[1], vars)>>, answer |-> answer,
              const |-> IF plan[1].is_const /\ ~plan[1].is_protected THEN answer ELSE <<>>]

Serve(kept, document, name, vars) ==
    ServeBy(IF kept.plan # <<>> THEN kept.plan ELSE CreatePlan(document, name), kept, vars)

-----------------------------------------------------------------------------
(* The selection GraphQL's CollectFields makes, for a selection that names *)
(* no output twice and whose fragments have no condition of their own; and *)
(* the one case of a field's own conditions the code decides otherwise.    *)
(* GraphQL asks for a boolean in every condition: one that has none is     *)
(* read as if it was not written.                                          *)
Says(condition, vars, value) ==
    condition = value \/ (condition \in DOMAIN vars /\ vars[condition] = value)

BothApply(item, vars) ==
    /\ ~IsConstSkip(item)
    /\ Says(Includes(item), vars, "false")
    /\ Says(Skips(item), vars, "true") \/ (Variable(Skips(item)) # <<>> /\ Includes(item) = "false")

RECURSIVE Selected(_, _, _)
Selected(sel, type, vars) ==
    FlattenSeq([i \in DOMAIN sel |->
        LET item == sel[i]
            found == Lookup(type, item.name)
        IN  IF item.kind = "fragment" THEN Selected(item.sel, item.on, vars)
            ELSE IF Says(Skips(item), vars, "true") \/ Says(Includes(item), vars, "false") THEN <<>>
            ELSE IF found # <<>>
            THEN << <<item.name, Output(item), type, Selected(item.sel, found[1].type, vars)>> >>
            ELSE IF item.name = "__typename" THEN << <<item.name, Output(item), type, <<>> >> >>
            ELSE <<>>])

RECURSIVE Shape(_)
Shape(fields) ==
    [i \in DOMAIN fields |-> <<fields[i].name, fields[i].out, fields[i].on, Shape(fields[i].sel)>>]

RECURSIVE Items(_)
Items(sel) == ToSet(sel) \cup UNION {Items(sel[i].sel) : i \in DOMAIN sel}

RECURSIVE Distinct(_)
Distinct(sel) ==
    LET RECURSIVE names(_)
        names(s) == FlattenSeq([i \in DOMAIN s |->
                        IF s[i].kind = "field" THEN <<Output(s[i])>> ELSE names(s[i].sel)])
    IN  /\ IsInjective(names(sel))
        /\ \A i \in DOMAIN sel : Distinct(sel[i].sel)

Decided(op, vars) ==
    Distinct(op.sel) /\ \A item \in Items(op.sel) :
                            item.kind = "field" => ~BothApply(item, vars)

\* The rules of a resolver, and the resolver without them.
RECURSIVE Rules(_)
Rules(ir) ==
    CASE ir[1] \in {"dynamic", "io", "cache"} -> <<>>
      [] ir[1] = "path" -> Rules(ir[2])
      [] ir[1] = "protect" -> << <<ir[2], ir[3]>> >> \o Rules(ir[4])
      [] ir[1] = "pipe" -> Rules(ir[2]) \o Rules(ir[3])
      [] ir[1] = "merge" -> FlattenSeq([i \in DOMAIN ir[2] |-> Rules(ir[2][i])])

Stage(fields, expression) ==
    LET all == Resolvers(fields)
        rules == FlattenSeq([i \in DOMAIN all |-> Rules(all[i])])
    IN  SelectSeq(rules, LAMBDA r : r[2] = expression)

-----------------------------------------------------------------------------
NoneKept == [plan |-> <<>>, const |-> <<>>, answer |-> <<>>]

\* An answer is that of the operation of this name alone, with these variables.
AnsweredAlone(answer, document, name, vars) ==
    LET of == Operation(document, name)
    IN  /\ answer = Serve(NoneKept, document, name, vars).answer
        /\ (answer # <<>>) = (of # <<>>)
        /\ of # <<>> /\ Decided(of[1], vars) =>
              Shape(answer[1][2]) = Selected(of[1].sel, "Query", vars)

\* No rule is lost between a selection as the schema has it and its plan.
RulesRemain(plan, original) ==
    /\ Stage(plan.fields, TRUE) = Stage(original, TRUE)
    /\ Len(plan.before) + Len(Stage(plan.fields, FALSE)) = Len(Stage(original, FALSE))
    /\ {<<a, FALSE>> : a \in ToSet(plan.before)} \subseteq ToSet(Stage(original, FALSE))

\* Constant and open to all: every resolver of the operation is constant, and one has no
\* rule.
Frozen(op) ==
    LET irs == ToSet(Resolvers(Collect(op.sel, "Query")))
    IN  (\A ir \in irs : IsConst(ir)) /\ (\E ir \in irs : ~IsProtected(ir))

Decides(document, first, second) == IF Operation(document, first) # <<>> THEN first ELSE second

ServedByFirst(document, name1, first, name2, second, kept, served) ==
    LET of == Operation(document, name1)
        by == Decides(document, name1, name2)
    IN  /\ AnsweredAlone(kept.answer, document, name1, first)
        /\ AnsweredAlone(served.answer, document, by,
                         IF of # <<>> /\ Frozen(of[1]) THEN first ELSE second)
        /\ served.plan # <<>> =>
              RulesRemain(served.plan[1], Collect(Operation(document, by)[1].sel, "Query"))

\* JITExecutor::execute(), collect_fields(), AuthPlanner: of two requests of
\* one text, the second is answered with the operation the first one named, if
\* the document has it, and else with its own, by exactly the fields that are
\* selected for its own variables, in order, as if it was alone; but a constant
\* answer that no rule protects stays what the first one's variables made of
\* it.  And no rule of @protected is lost on the way: one with an expression
\* stays at its field, and the others are all checked before.
PlanServesQuery(document, name1, first, name2, second) ==
    LET kept == Serve(NoneKept, document, name1, first)
    IN  ServedByFirst(document, name1, first, name2, second, kept,
                      Serve(kept, document, name2, second))
=============================================================================
