---------------------------- MODULE Transformers ----------------------------
(* The transformers of a configuration: unions of unions are flattened, the  *)
(* unions of arguments split into variants, types that go both in and out    *)
(* doubled; the types of a generated one are merged, shaken and renamed.     *)
EXTENDS Configuration, FiniteSets, TLC

\* The names of types and fields in order; the Pascal case of a name's singular.
CONSTANTS Alphabet, Pascal(_)

Sorted(S) == SelectSeq(Alphabet, LAMBDA n : n \in S)

RECURSIVE Renamed(_, _)
Renamed(type, lookup) ==
    IF type[1] = "list" THEN [type EXCEPT ![2] = Renamed(@, lookup)]
    ELSE IF type[2] \in DOMAIN lookup THEN [type EXCEPT ![2] = lookup[@]] ELSE type
RenamedSet(S, lookup) == {IF n \in DOMAIN lookup THEN lookup[n] ELSE n : n \in S}

\* NestedUnions: a union seen before fails, even by another way.
RECURSIVE WalkUnion(_, _, _)
WalkUnion(config, names, seen) ==
    IF names = {} THEN [ok |-> TRUE, types |-> {}, seen |-> seen]
    ELSE LET n     == CHOOSE n \in names : TRUE
             union == n \in DOMAIN config.unions
             inner == IF union /\ n \notin seen
                      THEN WalkUnion(config, config.unions[n], seen \cup {n})
                      ELSE [ok |-> ~union, types |-> {n}, seen |-> seen]
             rest  == WalkUnion(config, names \ {n}, inner.seen)
         IN  [ok |-> inner.ok /\ rest.ok, types |-> inner.types \cup rest.types, seen |-> rest.seen]

NestedUnions(config) ==
    LET walked == [u \in DOMAIN config.unions |-> WalkUnion(config, config.unions[u], {})]
    IN  IF \E u \in DOMAIN walked : ~walked[u].ok THEN <<>>
        ELSE <<[config EXCEPT !.unions = [u \in DOMAIN walked |-> walked[u].types]]>>

-----------------------------------------------------------------------------
\* UnionInputType: st.variants are the names that stand for a type with unions in it, named
\* here for their choices; types that refer to each other are visited once.
Picks(of) == {c \in [DOMAIN of -> UNION {of[f] : f \in DOMAIN of}] : \A f \in DOMAIN of : c[f] \in of[f]}
Chosen(name, c) == FoldLeft(LAMBDA acc, f : acc \o "__" \o f \o c[f], name, Sorted(DOMAIN c))

CreateTypes(fields, of) ==
    {[c |-> c, fields |-> [f \in DOMAIN fields |->
        IF f \in DOMAIN c THEN [fields[f] EXCEPT !.type = Renamed(@, [n \in {Name(@)} |-> c[f]])]
        ELSE fields[f]]] : c \in Picks(of)}

RECURSIVE Collect(_, _, _)
Collect(config, names, st) ==
    IF names \subseteq st.visited THEN st
    ELSE LET n == CHOOSE n \in names \ st.visited : TRUE
             below == IF n \in DOMAIN config.unions THEN config.unions[n]
                      ELSE IF n \in DOMAIN config.types
                      THEN {Name(config.types[n][f].type) : f \in DOMAIN config.types[n]} ELSE {}
             in == Collect(config, below, [st EXCEPT !.visited = @ \cup {n}])
             has(m) == m \in DOMAIN in.variants
             of == IF n \in DOMAIN config.types
                   THEN [f \in {g \in DOMAIN config.types[n] : has(Name(config.types[n][g].type))} |->
                           in.variants[Name(config.types[n][f].type)]]
                   ELSE <<>>
             made == CreateTypes(config.types[n], of)
             out == IF n \in DOMAIN config.unions
                    THEN [in EXCEPT !.variants = With(@, [u \in {n} |->
                            UNION {IF has(m) THEN in.variants[m] ELSE {m} : m \in below}])]
                    ELSE IF of = <<>> THEN in
                    ELSE [in EXCEPT !.variants = With(@, [u \in {n} |-> {Chosen(n, x.c) : x \in made}]),
                                    !.types = With(@, [t \in {Chosen(n, x.c) : x \in made} |->
                                                (CHOOSE x \in made : Chosen(n, x.c) = t).fields])]
         IN  Collect(config, names \ {n}, out)

\* A field becomes one for each choice of its arguments' variants.
ArgsToFields(name, field, variants) ==
    LET of == [a \in {x \in DOMAIN field.args : Name(field.args[x].type) \in DOMAIN variants} |->
                 variants[Name(field.args[a].type)]]
    IN  {[name |-> Chosen(name, c),
          field |-> [field EXCEPT !.args = [a \in DOMAIN field.args |->
             IF a \in DOMAIN c
             THEN [field.args[a] EXCEPT !.type = Renamed(@, [n \in {Name(@)} |-> c[a]])]
             ELSE field.args[a]]]] : c \in Picks(of)}

UnionInputType(config) ==
    LET st == Collect(config, {Name(t) : t \in Arguments(config)},
                      [visited |-> {}, variants |-> <<>>, types |-> <<>>])
        new(F) == LET all == UNION {ArgsToFields(f, F[f], st.variants) : f \in DOMAIN F}
                  IN  [n \in {x.name : x \in all} |-> (CHOOSE x \in all : x.name = n).field]
    IN  [config EXCEPT !.types = With(st.types, [t \in DOMAIN @ |-> new(@[t])])]

-----------------------------------------------------------------------------
\* AmbiguousType: a type on both sides gets a second name where it goes in.
Doubled(config, keys, inputs, outputs) ==
    LET doubled == keys \cap DOMAIN config.types
        in(n)   == n \o "Input"
        made    == With([t \in DOMAIN config.types \ doubled |-> config.types[t]],
                        [t \in doubled \cup {in(n) : n \in doubled} |->
                           config.types[CHOOSE n \in doubled : t \in {n, in(n)}]])
        ins     == (inputs \ keys) \cup {in(n) : n \in doubled}
        outs    == (outputs \ keys) \cup doubled
        lookup  == [n \in keys |-> in(n)]
        args(A) == [a \in DOMAIN A |-> [A[a] EXCEPT !.type = Renamed(@, lookup)]]
    IN  [config EXCEPT !.types = [t \in DOMAIN made |-> [f \in DOMAIN made[t] |->
            [type |-> IF t \in ins \ outs THEN Renamed(made[t][f].type, lookup) ELSE made[t][f].type,
             args |-> args(made[t][f].args)]]]]

AmbiguousType(config) ==
    LET inputs  == InputTypes(config)
        outputs == OutputTypes(config)
        both    == inputs \cap outputs \cap DOMAIN config.types
        args    == UNION {UNION {{Name(config.types[t][f].args[a].type) : a \in DOMAIN config.types[t][f].args} :
                                   f \in DOMAIN config.types[t]} : t \in both}
    IN  Doubled(config, both \cup (args \cap outputs), inputs, outputs)

-----------------------------------------------------------------------------
\* TreeShake: the names used from the operations, arguments and interfaces included.
RECURSIVE Used(_, _)
Used(config, names) ==
    LET more == UNION {
            IF n \in DOMAIN config.unions THEN config.unions[n]
            ELSE IF n \in DOMAIN config.types
            THEN UNION {{Name(config.types[n][f].type)} \cup
                        {Name(config.types[n][f].args[a].type) : a \in DOMAIN config.types[n][f].args} :
                          f \in DOMAIN config.types[n]}
                 \cup (IF n \in DOMAIN config.implements THEN config.implements[n] ELSE {})
            ELSE {} : n \in names}
    IN  IF more \subseteq names THEN names \cap (DOMAIN config.types \cup DOMAIN config.unions)
        ELSE Used(config, names \cup more)

Without(F, S) == [n \in DOMAIN F \ S |-> F[n]]
RemoveTypes(config, S) ==
    [config EXCEPT !.types = Without(@, S), !.unions = Without(@, S), !.implements = Without(@, S)]
TreeShake(config) ==
    RemoveTypes(config, (DOMAIN config.types \cup DOMAIN config.unions)
                          \ Used(config, UNION {ToSet(config.roots[r]) : r \in DOMAIN config.roots}))

-----------------------------------------------------------------------------
\* RenameTypes: one name after the other; the subscription's root is not looked at.
Moved(F, old, new) == IF old \notin DOMAIN F THEN F
                      ELSE With(Without(F, {old}), [n \in {new} |-> F[old]])

Relabel(config, lookup) ==
    LET type(T) == Renamed(T, lookup)
    IN  [config EXCEPT
           !.types = [t \in DOMAIN @ |-> [f \in DOMAIN @[t] |->
               [@[t][f] EXCEPT !.type = type(@),
                               !.args = [a \in DOMAIN @ |-> [@[a] EXCEPT !.type = type(@)]]]]],
           !.implements = [t \in DOMAIN @ |-> RenamedSet(@[t], lookup)],
           !.unions = [u \in DOMAIN @ |-> RenamedSet(@[u], lookup)]]

RECURSIVE RenameTypes(_, _, _)
RenameTypes(config, names, lookup) ==
    IF names = <<>> THEN <<Relabel(config, lookup)>>
    ELSE LET old   == names[1][1]
             new   == names[1][2]
             known == DOMAIN config.types \cup DOMAIN config.enums \cup DOMAIN config.unions
             root  == IF old \notin DOMAIN config.types THEN {}
                      ELSE IF config.roots.query = <<old>> THEN {"query"}
                      ELSE IF config.roots.mutation = <<old>> THEN {"mutation"} ELSE {}
             step  == [config EXCEPT !.types = Moved(@, old, new), !.enums = Moved(@, old, new),
                                     !.unions = Moved(@, old, new), !.implements = Moved(@, old, new),
                                     !.roots = [r \in DOMAIN @ |-> IF r \in root THEN <<new>> ELSE @[r]]]
         IN  IF old \notin known THEN <<>>
             ELSE RenameTypes(step, Tail(names), With(lookup, [n \in {old} |-> new]))

-----------------------------------------------------------------------------
\* ImproveTypeNames: each type by what most fields call it, unless a type has the name.
Candidates(config, t) ==
    LET uses == {u \in UNION {{<<n, f>> : f \in DOMAIN config.types[n]} : n \in DOMAIN config.types} :
                   Name(config.types[u[1]][u[2]].type) = t}
    IN  [c \in {Pascal(u[2]) : u \in uses} |->
           LET of == {u \in uses : Pascal(u[2]) = c}
           IN  <<Cardinality(of), IF \E r \in DOMAIN config.roots :
                   config.roots[r] = <<(CHOOSE u \in of : \A v \in of : \E i \in DOMAIN Alphabet :
                       Alphabet[i] = u[1] /\ v[1] \notin ToSet(SubSeq(Alphabet, 1, i - 1)))[1]>>
                 THEN 0 ELSE 1>>]

Better(a, b) == a[1] > b[1] \/ (a[1] = b[1] /\ a[2] >= b[2])
ImproveTypeNames(config) ==
    LET name(acc, t) ==
          LET c    == Candidates(config, t)
              free == {n \in DOMAIN c : n \notin DOMAIN config.types /\ \A i \in DOMAIN acc : acc[i][2] /= n}
              best == {n \in free : \A m \in free : Better(c[n], c[m])}
          IN  IF free = {} THEN acc ELSE Append(acc, <<t, Sorted(best)[Cardinality(best)]>>)
        named == {t \in UNION {{Name(config.types[n][f].type) : f \in DOMAIN config.types[n]} :
                                 n \in DOMAIN config.types} : ~IsScalar(config, t)}
    IN  RenameTypes(config, FoldLeft(name, <<>>, Sorted(named)), <<>>)

-----------------------------------------------------------------------------
\* Similarity: out is "yes", "no" or "fail"; a pair of types met again, by whatever way, is
\* similar whatever the fields still to come.
RECURSIVE Similar(_, _, _, _, _), Compare(_, _, _, _, _, _)
Similar(config, a, b, percent, st) ==
    LET known == {p \in {<<a, b>>, <<b, a>>} : p \in DOMAIN st.cache}
        F == config.types[a]
        G == config.types[b]
        r == Compare(config, <<a, b>>, Sorted(DOMAIN F \cap DOMAIN G), percent, 0, st)
        total == Cardinality(DOMAIN F) + Cardinality(DOMAIN G) - r.same
        out   == IF total > 0 /\ r.same * 100 >= percent * total THEN "yes" ELSE "no"
    IN  IF known /= {}
        THEN [st EXCEPT !.out = st.cache[IF <<a, b>> \in known THEN <<a, b>> ELSE <<b, a>>]]
        ELSE IF r.out /= "all" THEN r
        ELSE [r EXCEPT !.out = out, !.cache = With(@, [p \in {<<a, b>>} |-> out])]

Compare(config, pair, names, percent, same, st) ==
    IF names = <<>> THEN [st EXCEPT !.out = "all", !.same = same]
    ELSE LET x == config.types[pair[1]][names[1]].type
             y == config.types[pair[2]][names[1]].type
             m == Name(x)
             n == Name(y)
             fail == [st EXCEPT !.out = "fail"]
             next(more, s) == Compare(config, pair, Tail(names), percent, same + more, s)
             inner == Similar(config, m, n, percent, [st EXCEPT !.visited = @ \cup {<<m, n>>}])
         IN  IF IsScalar(config, m) /\ IsScalar(config, n)
             THEN IF (m = n \/ "JSON" \in {m, n}) /\ x[1] = y[1] THEN next(1, st) ELSE fail
             ELSE IF m = n THEN IF x[1] = y[1] THEN next(1, st) ELSE fail
             ELSE IF ~({m, n} \subseteq DOMAIN config.types) THEN next(0, st)
             ELSE IF {<<m, n>>, <<n, m>>} \cap st.visited /= {} THEN [st EXCEPT !.out = "yes"]
             ELSE IF inner.out = "fail" THEN inner
             ELSE next(IF inner.out = "yes" THEN 1 ELSE 0, inner)

\* TypeMerger: types of one use are grouped with the first they are similar to.
Kinds(config) == <<InputTypes(config), UNION {config.unions[u] : u \in DOMAIN config.unions},
                   OutputTypes(config), Interfaces(config)>>
Sharing(kinds, a, b) == {k \in DOMAIN kinds : {a, b} \subseteq kinds[k]}

\* A type the one of a group is compared with, once.
Try(config, kinds, n, percent, a, m) ==
    LET r == Similar(config, n, m, IF Sharing(kinds, n, m) = {3} THEN percent ELSE 100,
                     [cache |-> a.cache, visited |-> {}, out |-> "all", same |-> 0])
        joined(s) ==
            [a EXCEPT !.set = IF s.out = "yes" /\ ~Contains(a.set, m) THEN Append(a.set, m) ELSE a.set,
                       !.visited = a.visited \cup {n} \cup (IF s.out = "yes" THEN {m} ELSE {}),
                       !.cache = s.cache]
    IN  IF m \in a.visited \/ Sharing(kinds, n, m) = {} \/ m \notin DOMAIN config.types THEN a
        ELSE joined(r)

RECURSIVE Groups(_, _, _, _, _, _, _)
\* p is the place in the list of types, i the code's own count of it.
Groups(config, kinds, types, percent, p, i, acc) ==
    LET n == types[p]
        found == FoldLeft(LAMBDA a, m : Try(config, kinds, n, percent, a, m),
                          [acc EXCEPT !.set = <<n>>], SubSeq(types, i + 2, Len(types)))
        grouped(done) ==
            [done EXCEPT !.groups = IF Len(done.set) > 1 THEN Append(@, done.set) ELSE @]
    IN  IF p > Len(types) THEN acc.groups
        ELSE IF n \in DOMAIN config.types /\ n \in acc.visited
        THEN Groups(config, kinds, types, percent, p + 1, i, acc)
        ELSE Groups(config, kinds, types, percent, p + 1, i + 1,
                    IF n \notin DOMAIN config.types THEN acc ELSE grouped(found))

\* The later type's field is taken, but JSON when either is.
MergeFields(F, G) ==
    [f \in DOMAIN F \cup DOMAIN G |->
        IF f \notin DOMAIN G THEN F[f]
        ELSE IF f \in DOMAIN F /\ "JSON" \in {Name(F[f].type), Name(G[f].type)}
        THEN [G[f] EXCEPT !.type = <<"named", "JSON", FALSE>>]
        ELSE G[f]]

\* Each group of similar types becomes one of a new name.
MergedAs(config, groups, name) ==
    LET made   == {name[g] : g \in DOMAIN groups}
        of(n)  == CHOOSE g \in DOMAIN groups : name[g] = n
        lookup == FoldLeft(LAMBDA L, g : With(L, [t \in ToSet(groups[g]) |-> name[g]]), <<>>,
                           [g \in DOMAIN groups |-> g])
        given(g) == UNION {config.implements[t] : t \in ToSet(groups[g]) \cap DOMAIN config.implements}
        added  == [config EXCEPT
                     !.types = With(@, [n \in made |->
                         FoldLeft(LAMBDA F, t : MergeFields(F, config.types[t]), <<>>, groups[of(n)])]),
                     !.implements = With(@, [n \in made |-> given(of(n))])]
    IN  RemoveTypes(Relabel(added, lookup), DOMAIN lookup)

\* A type is in the list once for each of its uses.
Uses(kinds) ==
    FlattenSeq([i \in DOMAIN Alphabet |->
        [k \in 1..Cardinality({j \in DOMAIN kinds : Alphabet[i] \in kinds[j]}) |-> Alphabet[i]]])

RECURSIVE Merger(_, _, _), MergerOf(_, _, _, _)
Merger(config, percent, counter) ==
    MergerOf(config, percent, counter,
             Groups(config, Kinds(config), Uses(Kinds(config)), percent, 1, 0,
                    [set |-> <<>>, visited |-> {}, cache |-> <<>>, groups |-> <<>>]))

MergerOf(config, percent, counter, groups) ==
    IF groups = <<>> THEN config
    ELSE Merger(MergedAs(config, groups,
                         [g \in DOMAIN groups |-> "GEN__M" \o ToString(counter + g - 1)]),
                percent, counter + Len(groups))

-----------------------------------------------------------------------------
RequiredFlat(flat) == IF flat = <<>> THEN <<>> ELSE <<AmbiguousType(UnionInputType(flat[1]))>>
Required(config) == RequiredFlat(NestedUnions(config))

Known(config) == DOMAIN config.types \cup DOMAIN config.enums \cup DOMAIN config.unions
NothingDangles(config) ==
    /\ \A t \in DOMAIN config.types : \A f \in DOMAIN config.types[t] :
         LET F == config.types[t][f]
         IN  \A n \in {Name(F.type)} \cup {Name(F.args[a].type) : a \in DOMAIN F.args} :
               n \in Known(config) \/ IsScalar(config, n)
    /\ UNION {config.unions[u] : u \in DOMAIN config.unions} \subseteq Known(config)
    /\ Interfaces(config) \cup UNION {ToSet(config.roots[r]) : r \in DOMAIN config.roots}
         \subseteq DOMAIN config.types

Root(config) == config.types[config.roots.query[1]]

\* Every answer of a field of the query is still allowed, and the values its argument takes
\* are those some variant of the field takes; merged types, of which one is JSON, take more.
SameMeaning(before, after, exact, values) ==
    /\ NothingDangles(after)
    /\ \A f \in DOMAIN Root(before) :
         LET variants == {g \in DOMAIN Root(after) : g = f \/ (g \notin DOMAIN Root(before) /\
                             DOMAIN Root(after)[g].args = DOMAIN Root(before)[f].args)}
         IN  /\ variants /= {}
             /\ \A v \in values : \A g \in variants :
                  Conforms(before, FALSE, Root(before)[f].type, v) =>
                    Conforms(after, FALSE, Root(after)[g].type, v)
             /\ \A a \in DOMAIN Root(before)[f].args : \A v \in values :
                  LET was == Conforms(before, TRUE, Root(before)[f].args[a].type, v)
                      is  == \E g \in variants : Conforms(after, TRUE, Root(after)[g].args[a].type, v)
                  IN  (was => is) /\ (exact => is = was)

RequiredMeansTheSame(config, required, values) ==
    /\ SameMeaning(config, required, TRUE, values)
    /\ InputTypes(required) \cap
         ((OutputTypes(required) \cap DOMAIN required.types) \cup DOMAIN required.unions) = {}

NamedMeansTheSame(merged, named, values) ==
    /\ named /= <<>> /\ SameMeaning(merged, named[1], TRUE, values)
    /\ Cardinality(DOMAIN named[1].types) = Cardinality(DOMAIN merged.types)

MergedMeansTheSame(shaken, merged, values) ==
    /\ SameMeaning(shaken, merged, FALSE, values)
    /\ NamedMeansTheSame(merged, ImproveTypeNames(merged), values)

ShakenMeansTheSame(required, shaken, percent, values) ==
    /\ SameMeaning(required, shaken, TRUE, values)
    /\ MergedMeansTheSame(shaken, Merger(shaken, percent, 1), values)

AllMeanTheSame(config, required, percent, values) ==
    required /= <<>> =>
        /\ RequiredMeansTheSame(config, required[1], values)
        /\ ShakenMeansTheSame(required[1], TreeShake(required[1]), percent, values)

\* Preset::transform(): each step leaves what the schema accepts and answers.
TransformedMeansTheSame(config, percent, values) ==
    AllMeanTheSame(config, Required(config), percent, values)
=============================================================================
