--------------------------- MODULE Configuration ---------------------------
(* The configuration of a schema, as its transformers see it. A type is      *)
(* <<"named", name, nonNull>> or <<"list", type, nonNull>>; a field or an    *)
(* argument is [type, args]; a configuration has the fields of its types, the*)
(* variants of its enums, the members of its unions, what each type          *)
(* implements, and the roots of its operations, each at most one name.       *)
EXTENDS Naturals, Sequences, SequencesExt

Lost(F, G) == DOMAIN F \ DOMAIN G
With(F, G) == [n \in DOMAIN F \cup DOMAIN G |-> IF n \in DOMAIN G THEN G[n] ELSE F[n]]

RECURSIVE Name(_)
Name(type) == IF type[1] = "named" THEN type[2] ELSE Name(type[2])

\* A type without fields is a scalar.
IsScalar(config, name) ==
    IF name \in DOMAIN config.types THEN config.types[name] = <<>>
    ELSE name \in {"Int", "String", "Boolean", "ID", "Float", "JSON"}

RECURSIVE Connections(_, _)
Connections(config, names) ==
    LET known == {n \in names : n \in DOMAIN config.unions \cup DOMAIN config.types \cup DOMAIN config.enums}
        more  == UNION {IF n \in DOMAIN config.unions THEN config.unions[n]
                        ELSE IF n \in DOMAIN config.types
                        THEN {m \in {Name(config.types[n][f].type) : f \in DOMAIN config.types[n]} :
                                ~IsScalar(config, m)}
                        ELSE {} : n \in known}
    IN  IF more \subseteq names THEN known ELSE Connections(config, names \cup more)

Arguments(config) ==
    UNION {UNION {{config.types[t][f].args[a].type : a \in DOMAIN config.types[t][f].args} :
                     f \in DOMAIN config.types[t]} : t \in DOMAIN config.types}
InputTypes(config) ==
    Connections(config, {n \in {Name(t) : t \in Arguments(config)} : ~IsScalar(config, n)})
OutputTypes(config) ==
    Connections(config, UNION {ToSet(config.roots[r]) : r \in DOMAIN config.roots})
Interfaces(config) == UNION {config.implements[t] : t \in DOMAIN config.implements}

Cached(config) == [config |-> config, inputs |-> InputTypes(config), outputs |-> OutputTypes(config),
                   interfaces |-> Interfaces(config)]

-----------------------------------------------------------------------------
\* What a value of a type may be; one that comes in is whole and one that goes out is a selection.
RECURSIVE Conforms(_, _, _, _)
Conforms(config, whole, type, v) ==
    IF v[1] = "null" THEN ~type[3]
    ELSE IF type[1] = "list"
    THEN v[1] = "list" /\ \A i \in DOMAIN v[2] : Conforms(config, whole, type[2], v[2][i])
    ELSE IF type[2] \in DOMAIN config.enums
    THEN v[1] = "enum" /\ v[2] \in config.enums[type[2]]
    ELSE IF type[2] \in DOMAIN config.unions
    THEN \E m \in config.unions[type[2]] : Conforms(config, whole, <<"named", m, FALSE>>, v)
    ELSE IF IsScalar(config, type[2])
    THEN type[2] = "JSON" \/ v = <<"scalar", type[2]>>
    ELSE LET fields == config.types[type[2]]
         IN  /\ v[1] = "object" /\ DOMAIN v[2] \subseteq DOMAIN fields
             /\ \A n \in DOMAIN v[2] : Conforms(config, whole, fields[n].type, v[2][n])
             /\ whole => \A n \in Lost(fields, v[2]) : ~fields[n].type[3]
=============================================================================
