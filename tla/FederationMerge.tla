-------------------------- MODULE FederationMerge --------------------------
(* Several configuration files, or linked ones, become one: a type both have *)
(* is narrowed where values come in and widened where they go out, by the use*)
(* either side makes of it. Then the keys of the federated entities are read *)
(* off their resolvers. An optional is a sequence of at most one element; a  *)
(* failed merge is the empty one.                                            *)
EXTENDS Configuration

NonNull(mode, self, other) == IF mode = "shrink" THEN self \/ other ELSE self /\ other

RECURSIVE MergeType(_, _, _)
MergeType(mode, a, b) ==
    IF a[1] /= b[1] THEN <<>>
    ELSE IF a[1] = "named"
    THEN IF a[2] = b[2] THEN << <<"named", a[2], NonNull(mode, a[3], b[3])>> >> ELSE <<>>
    ELSE LET of == MergeType(mode, a[2], b[2])
         IN  IF of = <<>> THEN <<>> ELSE << <<"list", of[1], NonNull(mode, a[3], b[3])>> >>

RECURSIVE Entries(_, _, _)
\* Arguments are narrowed even where their field is widened.
Entry(mode, a, b) ==
    LET type == MergeType(mode, a.type, b.type)
        args == Entries("shrink", a.args, b.args)
    IN  IF type = <<>> \/ args = <<>> THEN <<>> ELSE <<[type |-> type[1], args |-> args[1]]>>

\* Mutated form: a field only one side requires is left out as well.
Entries_DropsRequired(mode, F, G) ==
    LET both == [n \in DOMAIN F \cap DOMAIN G |-> Entry(mode, F[n], G[n])]
        all  == IF mode = "shrink" THEN DOMAIN both ELSE DOMAIN F \cup DOMAIN G
    IN  IF \E n \in DOMAIN both : both[n] = <<>> THEN <<>>
        ELSE <<[n \in all |-> IF n \in DOMAIN both THEN both[n][1]
                              ELSE IF n \in DOMAIN F THEN F[n] ELSE G[n]]>>

Entries(mode, F, G) ==
    LET both == [n \in DOMAIN F \cap DOMAIN G |-> Entry(mode, F[n], G[n])]
        all  == IF mode = "shrink" THEN DOMAIN both ELSE DOMAIN F \cup DOMAIN G
    IN  IF \/ \E n \in DOMAIN both : both[n] = <<>>
           \/ /\ mode = "shrink"
              /\ \/ \E n \in Lost(F, G) : F[n].type[3]
                 \/ \E n \in Lost(G, F) : G[n].type[3]
        THEN <<>>
        ELSE <<[n \in all |-> IF n \in DOMAIN both THEN both[n][1]
                              ELSE IF n \in DOMAIN F THEN F[n] ELSE G[n]]>>

MergeEnum(mode, E, F) == IF mode = "shrink" THEN E \cap F ELSE E \cup F

-----------------------------------------------------------------------------
\* By the use on either side; "both" and "unknown" uses cannot be merged, except equal enums.
Mode(selfIn, selfOut, otherIn, otherOut) ==
    IF (selfIn /\ selfOut) \/ (otherIn /\ otherOut) THEN "both"
    ELSE IF (selfIn \/ otherIn) /\ (selfOut \/ otherOut) THEN "mixed"
    ELSE IF selfIn \/ otherIn THEN "shrink"
    ELSE IF selfOut \/ otherOut THEN "expand" ELSE "unknown"

UnifyTypes(self, other) ==
    LET F == self.config.types
        G == other.config.types
        mode(n) == Mode(n \in self.inputs, n \in self.outputs \cup self.interfaces,
                        n \in other.inputs, n \in other.outputs \cup other.interfaces)
        merged == [n \in DOMAIN F \cap DOMAIN G |->
                     IF mode(n) \in {"shrink", "expand"} THEN Entries(mode(n), F[n], G[n]) ELSE <<>>]
    IN  IF \E n \in DOMAIN merged : merged[n] = <<>> THEN <<>>
        ELSE <<[n \in DOMAIN F \cup DOMAIN G |->
                  IF n \in DOMAIN merged THEN merged[n][1] ELSE IF n \in DOMAIN F THEN F[n] ELSE G[n]]>>

UnifyEnums(self, other) ==
    LET E == self.config.enums
        F == other.config.enums
        mode(n) == Mode(n \in self.inputs, n \in self.outputs, n \in other.inputs, n \in other.outputs)
        merged == [n \in DOMAIN E \cap DOMAIN F |->
                     IF mode(n) \in {"shrink", "expand"} THEN <<MergeEnum(mode(n), E[n], F[n])>>
                     ELSE IF mode(n) = "both" /\ E[n] = F[n] THEN <<E[n]>> ELSE <<>>]
    IN  IF \E n \in DOMAIN merged : merged[n] = <<>> THEN <<>>
        ELSE <<[n \in DOMAIN E \cup DOMAIN F |->
                  IF n \in DOMAIN merged THEN merged[n][1] ELSE IF n \in DOMAIN E THEN E[n] ELSE F[n]]>>

MergeRight(F, G) ==
    [n \in DOMAIN F \cup DOMAIN G |-> (IF n \in DOMAIN F THEN F[n] ELSE {})
                                        \cup IF n \in DOMAIN G THEN G[n] ELSE {}]

\* The operations are the first one's where it has them.
UnifyRoots(R, S) == [r \in DOMAIN R |-> IF R[r] /= <<>> THEN R[r] ELSE S[r]]

Unify(self, other) ==
    LET types == UnifyTypes(self, other)
        enums == UnifyEnums(self, other)
    IN  IF types = <<>> \/ enums = <<>> THEN <<>>
        ELSE <<[config |-> [types |-> types[1], enums |-> enums[1],
                            unions |-> MergeRight(self.config.unions, other.config.unions),
                            implements |-> MergeRight(self.config.implements, other.config.implements),
                            roots |-> UnifyRoots(self.config.roots, other.config.roots)],
                inputs |-> self.inputs \cup other.inputs,
                outputs |-> self.outputs \cup other.outputs,
                interfaces |-> self.interfaces \cup other.interfaces]>>

-----------------------------------------------------------------------------
\* What a merged schema makes of the values, for those that had it in parts.
AcceptedByBoth(parts, m, input, values) ==
    (\A c \in parts : input \in DOMAIN c.types) /\ (\E c \in parts : input \in InputTypes(c)) =>
        \A v \in values :
            Conforms(m, TRUE, <<"named", input, FALSE>>, v)
              <=> \A c \in parts : Conforms(c, TRUE, <<"named", input, FALSE>>, v)

ArgumentIsAccepted(was, is, c, m, values) ==
    /\ \A x \in DOMAIN is : \A v \in values :
         Conforms(m, TRUE, is[x].type, v) => x \in DOMAIN was /\ Conforms(c, TRUE, was[x].type, v)
    /\ \A x \in Lost(was, is) : ~was[x].type[3]

AnswersAreAllowed(c, m, output, values) ==
    output \in DOMAIN c.types =>
        /\ \A v \in values : Conforms(c, FALSE, <<"named", output, FALSE>>, v) =>
                               Conforms(m, FALSE, <<"named", output, FALSE>>, v)
        /\ \A f \in DOMAIN c.types[output] :
             ArgumentIsAccepted(c.types[output][f].args, m.types[output][f].args, c, m, values)

Agree(parts, merged, swapped, input, output, values) ==
    /\ (merged = <<>>) = (swapped = <<>>)
    /\ merged /= <<>> =>
         /\ [swapped[1] EXCEPT !.config.roots = <<>>] = [merged[1] EXCEPT !.config.roots = <<>>]
         /\ AcceptedByBoth(parts, merged[1].config, input, values)
         /\ \A c \in parts : AnswersAreAllowed(c, merged[1].config, output, values)

\* The merged schema asks of a client what every subgraph accepts, and lets every subgraph
\* answer what it does now; and but for the names of the operations the order says nothing.
MergedServesBoth(a, b, input, output, values) ==
    Agree({a, b}, Unify(Cached(a), Cached(b)), Unify(Cached(b), Cached(a)), input, output, values)

-----------------------------------------------------------------------------
\* A resolver is [kind, parts]: parts are sequences of templates' expressions, paths of names.
\* A key is the set of the paths to each of its fields.
Steps(path) == {SubSeq(path, 1, n) : n \in 1..Len(path)}
ParseStr(expressions) ==
    IF \E i \in DOMAIN expressions : expressions[i][1] = "args" THEN <<>>
    ELSE <<UNION {Steps(Tail(e)) : e \in {x \in ToSet(expressions) : x[1] = "value"}}>>

\* What of a resolver is read for its keys: of the steps of a call only the first.
KeyParts(resolver) ==
    CASE resolver.kind = "http"    -> {"url", "body", "headers", "query"}
      [] resolver.kind = "grpc"    -> {"url", "method", "body", "headers"}
      [] resolver.kind = "graphql" -> {"headers", "args"}
      [] resolver.kind = "call"    -> {"first"}
      [] resolver.kind = "expr"    -> {"body"}
      [] OTHER -> {}
ExtractKeys(resolver) ==
    LET parsed == {ParseStr(resolver.parts[p]) : p \in KeyParts(resolver) \cap DOMAIN resolver.parts}
    IN  IF <<>> \in parsed THEN <<>> ELSE <<UNION {k[1] : k \in parsed}>>

RECURSIVE ValidPath(_, _, _)
ValidPath(config, type, path) ==
    path /= <<>> =>
        /\ type \in DOMAIN config.types /\ path[1] \in DOMAIN config.types[type]
        /\ ValidPath(config, Name(config.types[type][path[1]].type), Tail(path))

\* Only an @http resolver's url and query are checked.
ValidKeys(config, type, resolver) ==
    resolver.kind = "http" =>
        \A p \in {"url", "query"} \cap DOMAIN resolver.parts :
            \A e \in ToSet(resolver.parts[p]) :
                Len(e) > 1 /\ e[1] = "value" => ValidPath(config, type, Tail(e))

Field(type, args) == [type |-> type, args |-> args]
Service == [_service |-> Field(<<"named", "_Service", TRUE>>, <<>>)]
Entities == [_entities |-> Field(<<"list", <<"named", "_Entity", FALSE>>, TRUE>>,
                 [representations |-> Field(<<"list", <<"named", "_Any", TRUE>>, TRUE>>, <<>>)])]

\* resolvers: the sequence of resolvers of each type; directives: the keys a type has already.
Subgraph(config, resolvers, directives) ==
    LET entities == {t \in DOMAIN resolvers : resolvers[t] /= <<>>}
        query    == IF config.roots.query = <<>> THEN "Query" ELSE config.roots.query[1]
        fields   == IF query \in DOMAIN config.types THEN config.types[query] ELSE <<>>
        added    == IF entities = {} THEN Service ELSE With(Service, Entities)
        any      == IF entities = {} THEN <<>> ELSE [_Any |-> <<>>]
        types    == With(With(config.types, [_Service |-> [sdl |-> Field(<<"named", "String", FALSE>>, <<>>)]]), any)
    IN  IF \E t \in entities :
             \/ Len(resolvers[t]) > 1 \/ ~ValidKeys(config, t, resolvers[t][1])
             \/ ExtractKeys(resolvers[t][1]) = <<>>
        THEN <<>>
        ELSE <<[config |->
                  [config EXCEPT !.roots.query = <<query>>,
                     !.types = With(types, [q \in {query} |-> With(fields, added)]),
                     !.unions = IF entities = {} THEN @ ELSE With(@, [u \in {"_Entity"} |-> entities])],
                directives |-> [t \in DOMAIN directives |->
                   LET key == IF t \in entities THEN ExtractKeys(resolvers[t][1])[1] ELSE {}
                   IN  IF key = {} THEN directives[t] ELSE directives[t] \cup {key}]]>>

\* A router that sends an entity's key sends all the resolver reads of it, and nothing else; and
\* a configuration already prepared stays as it is.
KeysAreComplete(config, resolvers, directives) ==
    LET s == Subgraph(config, resolvers, directives)
    IN  s /= <<>> =>
          /\ \A t \in {u \in DOMAIN resolvers : resolvers[u] /= <<>> /\ resolvers[u][1].kind /= "postgres"} :
               LET read == {e \in UNION {ToSet(resolvers[t][1].parts[p]) : p \in DOMAIN resolvers[t][1].parts} :
                              e[1] = "value" /\ Len(e) > 1}
                   keys == s[1].directives[t] \ directives[t]
               IN  \A e \in read : \E k \in s[1].directives[t] :
                     Tail(e) \in k /\ (keys /= {} => \A x \in UNION keys : \E y \in read : x \in Steps(Tail(y)))
          /\ Subgraph(s[1].config, resolvers, s[1].directives) = s
=============================================================================
