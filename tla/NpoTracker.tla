---------------------------- MODULE NpoTracker ----------------------------
(***************************************************************************)
(* The paths of queries that can ask an upstream N + 1 times               *)
(* (PathTracker, src/core/config/npo/tracker.rs), collected in chunks, the *)
(* persistent lists of gqlforge-chunk.                                     *)
(*                                                                         *)
(* A configuration gives each type its fields in order, a field being      *)
(* [name, type, list, resolver, batched], and its resolver, if an entity;  *)
(* a path is a sequence of names.  A leaf's type is of no configuration.   *)
(***************************************************************************)
EXTENDS Naturals, SequencesExt, FiniteSets

Prone(field, list) == list /\ field.resolver /\ ~field.batched

\* Mutated form: what a type gave is kept whether or not it was in a list.
Key_TypeOnly(type, list) == <<type, TRUE>>

Key(type, list) == <<type, list>>

(***************************************************************************)
(* traverse(): the paths from a type on, and the cache.  A type on the way *)
(* to itself counts for nothing, and what it gave is never computed again. *)
(***************************************************************************)
RECURSIVE Traverse(_, _, _, _)
Traverse(config, type, list, cache) ==
    LET key == Key(type, list)
        fields == IF type \in DOMAIN config.types THEN config.types[type].fields ELSE <<>>
        step(s, field) ==
            LET below == Traverse(config, field.type, list \/ field.list, s.cache)
            IN  IF Prone(field, list) THEN [s EXCEPT !.paths = Append(@, <<field.name>>)]
                ELSE [paths |-> s.paths \o [i \in DOMAIN below.paths |->
                                               <<field.name>> \o below.paths[i]],
                      cache |-> below.cache]
        put(c, paths) == [k \in DOMAIN c \cup {key} |-> IF k = key THEN paths ELSE c[k]]
        all == FoldLeft(step, [paths |-> <<>>, cache |-> put(cache, <<>>)], fields)
    IN  IF key \in DOMAIN cache THEN [paths |-> cache[key], cache |-> cache]
        ELSE [paths |-> all.paths, cache |-> put(all.cache, all.paths)]

\* find_chunks(): from the query's type, then from each entity.
Find(config) ==
    LET empty == [k \in {} |-> <<>>]
        query == IF config.query = <<>> THEN [paths |-> <<>>, cache |-> empty]
                 ELSE Traverse(config, config.query[1], FALSE, empty)
        entity(s, type) ==
            LET below == Traverse(config, type, TRUE, s.cache)
            IN  CASE config.types[type].entity = "none" -> s
                  [] config.types[type].entity = "alone" -> [s EXCEPT !.paths = Append(@, <<type>>)]
                  [] config.types[type].entity = "batched" ->
                        [paths |-> s.paths \o [i \in DOMAIN below.paths |->
                                                  <<type>> \o below.paths[i]],
                         cache |-> below.cache]
    IN  FoldLeft(entity, query, config.order).paths

-----------------------------------------------------------------------------
(* Chunk: handles hold values, <<"empty">>, <<"single", a>>, <<"collect",  *)
(* cell>> of a vector that others may hold, <<"concat", node, node>> or    *)
(* <<"flatten", node>>, each node of a heap in which a value was left.     *)
InUse(h) ==
    LET RECURSIVE reached(_)
        reached(nodes) ==
            LET below == {n \in DOMAIN h.nodes : \E m \in nodes :
                            n \in ToSet(Tail(h.nodes[m])) /\ h.nodes[m][1] \in {"concat", "flatten"}}
            IN  IF below \subseteq nodes THEN nodes ELSE reached(nodes \cup below)
    IN  reached({n \in DOMAIN h.nodes : \E i \in DOMAIN h.handles :
                    h.handles[i][1] \in {"concat", "flatten"} /\ n \in ToSet(Tail(h.handles[i]))})

\* Rc::strong_count(), of a cell one holder of which is not a handle any more.
StrongCount(h, cell) ==
    1 + Cardinality({i \in DOMAIN h.handles : h.handles[i] = <<"collect", cell>>})
      + Cardinality({n \in InUse(h) : h.nodes[n] = <<"collect", cell>>})

\* Mutated form: a vector is pushed to whoever else holds it.
Owned_Always(h, cell) == TRUE

Owned(h, cell) == StrongCount(h, cell) = 1

\* Chunk::concat(): the heap after it, with the value in handle 1.
Concat(h, a, b) ==
    LET nodes == Len(h.nodes)
        give(value) == [h EXCEPT !.handles[1] = value]
    IN  CASE a = <<"empty">> -> give(b)
          [] b = <<"empty">> /\ a # <<"empty">> -> give(a)
          [] a[1] = "single" /\ b[1] = "single" ->
                [give(<<"collect", Len(h.cells) + 1>>) EXCEPT !.cells = Append(@, <<a[2], b[2]>>)]
          [] a[1] = "collect" /\ b[1] = "single" /\ Owned(h, a[2]) ->
                [give(a) EXCEPT !.cells[a[2]] = Append(@, b[2])]
          [] OTHER -> [give(<<"concat", nodes + 1, nodes + 2>>) EXCEPT !.nodes = @ \o <<a, b>>]

\* as_vec(); the function of a "flatten" says each element twice.
RECURSIVE AsVec(_, _)
AsVec(h, value) ==
    CASE value[1] = "empty" -> <<>>
      [] value[1] = "single" -> <<value[2]>>
      [] value[1] = "collect" -> h.cells[value[2]]
      [] value[1] = "concat" -> AsVec(h, h.nodes[value[2]]) \o AsVec(h, h.nodes[value[3]])
      [] value[1] = "flatten" -> LET v == AsVec(h, h.nodes[value[2]])
                                 IN  FlattenSeq([i \in DOMAIN v |-> <<v[i], v[i]>>])

\* is_null()
IsNull(h, value) ==
    value = <<"empty">> \/ (value[1] = "collect" /\ h.cells[value[2]] = <<>>)

\* An operation on the first handle, which it takes, and maybe the second.
Operate(h, op) ==
    LET taken == [h EXCEPT !.handles[1] = <<"empty">>]
        a == h.handles[1]
    IN  CASE op = "clone" -> [h EXCEPT !.handles[2] = a]
          [] op = "swap" -> [h EXCEPT !.handles = <<@[2], @[1]>>]
          [] op = "append" -> Concat(taken, a, <<"single", Len(h.cells)>>)
          [] op = "prepend" -> IF IsNull(h, a) THEN [taken EXCEPT !.handles[1] = <<"single", 0>>]
                               ELSE Concat(taken, <<"single", 0>>, a)
          [] op = "concat" -> Concat([taken EXCEPT !.handles[2] = <<"empty">>], a, h.handles[2])
          [] op = "flatten" -> [h EXCEPT !.handles[1] = <<"flatten", Len(h.nodes) + 1>>,
                                         !.nodes = Append(@, a)]
          [] op = "materialize" -> [h EXCEPT !.handles[1] = <<"collect", Len(h.cells) + 1>>,
                                             !.cells = Append(@, AsVec(h, a))]

-----------------------------------------------------------------------------
\* Fields of the types a query can come to, in a list or not, without asking
\* a prone one; a path's fields followed through the configuration.
RECURSIVE Reached(_, _)
Reached(config, pairs) ==
    LET next == {<<f.type, p[2] \/ f.list>> : <<p, f>> \in
                    {q \in pairs \X UNION {ToSet(config.types[t].fields) : t \in DOMAIN config.types} :
                        /\ q[1][1] \in DOMAIN config.types
                        /\ q[2] \in ToSet(config.types[q[1][1]].fields)
                        /\ ~Prone(q[2], q[1][2])}}
    IN  IF next \subseteq pairs THEN pairs ELSE Reached(config, pairs \cup next)

RECURSIVE EndsProne(_, _, _, _)
EndsProne(config, type, list, path) ==
    \E f \in ToSet(config.types[type].fields) :
        /\ f.name = path[1]
        /\ IF Len(path) = 1 THEN Prone(f, list)
           ELSE ~Prone(f, list) /\ EndsProne(config, f.type, list \/ f.list, Tail(path))

\* PathTracker::find(): every path found ends at a resolver asked once for each
\* element of a list, and every such field a query can come to ends some path,
\* however the types refer to each other.
EveryProneFieldFound(config) ==
    LET found == Find(config)
        reached == Reached(config, {<<config.query[1], FALSE>>})
    IN  /\ \A path \in ToSet(found) :
              \/ path[1] \notin DOMAIN config.types /\ EndsProne(config, config.query[1], FALSE, path)
              \/ /\ path[1] \in DOMAIN config.types
                 /\ IF Len(path) = 1 THEN config.types[path[1]].entity = "alone"
                    ELSE EndsProne(config, path[1], TRUE, Tail(path))
        /\ \A p \in reached : p[1] \in DOMAIN config.types =>
              \A f \in ToSet(config.types[p[1]].fields) :
                  Prone(f, p[2]) => \E path \in ToSet(found) : Last(path) = f.name

\* Chunk: a handle's elements are those its own operations put there, whatever
\* is done to what it was cloned from or shares its vectors with.
RECURSIVE ChunkIsPersistent(_, _, _)
ChunkIsPersistent(h, lists, ops) ==
    LET next == Operate(h, ops[1])
        a == lists[1]
        after == CASE ops[1] = "clone" -> <<a, a>>
                   [] ops[1] = "swap" -> <<lists[2], a>>
                   [] ops[1] = "append" -> <<Append(a, Len(h.cells)), lists[2]>>
                   [] ops[1] = "prepend" -> <<<<0>> \o a, lists[2]>>
                   [] ops[1] = "concat" -> <<a \o lists[2], <<>> >>
                   [] ops[1] = "flatten" -> <<FlattenSeq([i \in DOMAIN a |-> <<a[i], a[i]>>]), lists[2]>>
                   [] ops[1] = "materialize" -> lists
    IN  /\ \A i \in {1, 2} : AsVec(h, h.handles[i]) = lists[i]
        /\ ops # <<>> => ChunkIsPersistent(next, after, Tail(ops))
=============================================================================
