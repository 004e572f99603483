---------------------------- MODULE SdlDocument ----------------------------
(***************************************************************************)
(* A configuration as SDL: config_document() makes a document of it        *)
(* (src/core/config/into_document.rs), print() the text                    *)
(* (src/core/document.rs), from_document() a configuration again           *)
(* (src/core/config/from_document.rs).                                     *)
(*                                                                         *)
(* Something optional is a sequence of at most one element.  A directive is*)
(* <<name, payload>>, a documentation text the sequence of its lines; the  *)
(* text itself is left out but for what of a document it does not say.     *)
(***************************************************************************)
EXTENDS Configuration, FiniteSets

ResolverNames == {"http", "grpc", "graphQL", "call", "js", "expr", "postgres", "greptimedb", "redis", "s3"}
FederationNames == {"key", "extends", "shareable"}

\* What the transformers' view of the configuration is.
Shape(config) ==
    [types |-> [t \in DOMAIN config.types |->
                  LET fields == config.types[t].fields
                  IN  [f \in DOMAIN fields |-> [type |-> fields[f].type, args |-> fields[f].args]]],
     unions |-> [u \in DOMAIN config.unions |-> config.unions[u].types],
     enums |-> [e \in DOMAIN config.enums |-> config.enums[e].variants],
     implements |-> [t \in DOMAIN config.types |-> config.types[t].implements],
     roots |-> config.roots]

-----------------------------------------------------------------------------
\* DirectiveCodec::to_directive(), of what is there.
As(name, payloads) == [i \in DOMAIN payloads |-> <<name, payloads[i]>>]

\* Mutated form: what a field leaves out of the schema is printed without it.
FieldDirectives_Unomitted(f) ==
    f.resolvers \o As("modify", f.modify) \o As("cache", f.cache)
        \o As("protected", f.protected) \o f.directives

\* field_directives(): not the discriminator.
FieldDirectives(f) ==
    f.resolvers \o As("modify", f.modify) \o As("omit", f.omit) \o As("cache", f.cache)
        \o As("protected", f.protected) \o f.directives

TypeDirectives(t) ==
    As("addField", t.added) \o As("cache", t.cache) \o As("protected", t.protected)
        \o t.resolvers \o t.directives

Kind(config, n) ==
    IF n \in Interfaces(Shape(config)) THEN "interface"
    ELSE IF n \in InputTypes(Shape(config)) THEN "input"
    ELSE IF config.types[n].fields = <<>> THEN "scalar" ELSE "object"

\* config_document(): an argument's directives stay behind, an interface's arguments too.
Definition(config, n) ==
    LET t == config.types[n]
        kind == Kind(config, n)
        arg(a) == [doc |-> a.doc, type |-> a.type, default |-> a.default, directives |-> <<>>]
        field(f) == [doc |-> f.doc, type |-> f.type, directives |-> FieldDirectives(f),
                     args |-> IF kind = "object" THEN [a \in DOMAIN f.args |-> arg(f.args[a])] ELSE <<>>,
                     default |-> IF kind = "input" THEN f.default ELSE <<>>]
    IN  [kind |-> kind, doc |-> t.doc, directives |-> TypeDirectives(t),
         implements |-> IF kind \in {"interface", "object"} THEN t.implements ELSE {},
         fields |-> [f \in DOMAIN t.fields |-> field(t.fields[f])]]

ConfigDocument(config) ==
    [schema |-> [directives |-> << <<"server", config.server>>, <<"upstream", config.upstream>> >>
                                    \o As("link", config.links), roots |-> config.roots],
     types |-> [n \in DOMAIN config.types |-> Definition(config, n)],
     unions |-> [n \in DOMAIN config.unions |-> [members |-> config.unions[n].types, doc |-> <<>>]],
     enums |-> [n \in DOMAIN config.enums |->
                  [values |-> {[name |-> v[1], directives |-> As("alias", v[2])] :
                                  v \in config.enums[n].variants},
                   doc |-> config.enums[n].doc]]]

-----------------------------------------------------------------------------
\* LineBreaker: at least so long a line, and to the end of the word it is in.
RECURSIVE WordEnd(_, _)
WordEnd(text, i) ==
    IF i > Len(text) THEN Len(text) ELSE IF text[i] = " " THEN i ELSE WordEnd(text, i + 1)

\* Mutated form: a line ends where it is long enough.
LineBreaker_AnyWhere(text, breakAt) ==
    [i \in 1..((Len(text) + breakAt - 1) \div breakAt) |->
        SubSeq(text, (i - 1) * breakAt + 1, IF i * breakAt > Len(text) THEN Len(text) ELSE i * breakAt)]

RECURSIVE LineBreaker(_, _)
LineBreaker(text, breakAt) ==
    LET end == IF Len(text) <= breakAt THEN Len(text) ELSE WordEnd(text, breakAt + 1)
    IN  IF text = <<>> THEN <<>>
        ELSE <<SubSeq(text, 1, end)>> \o LineBreaker(SubSeq(text, end + 1, Len(text)), breakAt)

\* get_formatted_docs(): the lines run together, short enough to be one.
FormattedDocs(doc) ==
    IF doc = <<>> THEN <<>> ELSE <<FoldLeft(LAMBDA a, line : a \o line, doc[1], Tail(doc))>>

\* print_field(), print_type_def(): its first line is indented, and the others as they are.
Indented(doc) == IF Len(doc) <= 1 THEN doc ELSE <<"  " \o doc[1]>> \o Tail(doc)

\* print_schema(): nothing at all without a query or a mutation.
PrintSchema(s) ==
    IF s.roots.query \o s.roots.mutation = <<>>
    THEN [directives |-> <<>>, roots |-> [r \in DOMAIN s.roots |-> <<>>]] ELSE s

\* print_field(): of an argument its name, type and default.
PrintField(f) ==
    [f EXCEPT !.doc = Indented(@), !.args = [a \in DOMAIN @ |-> [@[a] EXCEPT !.doc = <<>>, !.directives = <<>>]]]

\* print_input_value(): a default comes last, where the grammar has it before directives.
PrintInputValue(f) == [f EXCEPT !.doc = FormattedDocs(@)]
Unreadable(f) == f.default # <<>> /\ f.directives # <<>>

\* print_type_def()
PrintTypeDef(d) ==
    CASE d.kind = "scalar" -> [d EXCEPT !.directives = <<>>, !.doc = FormattedDocs(@)]
      [] d.kind = "input" ->
           [d EXCEPT !.doc = FormattedDocs(@), !.fields = [f \in DOMAIN @ |-> PrintInputValue(@[f])]]
      [] d.kind = "interface" ->
           [d EXCEPT !.doc = <<>>, !.directives = <<>>, !.fields = [f \in DOMAIN @ |-> PrintField(@[f])]]
      [] OTHER -> [d EXCEPT !.doc = Indented(@), !.fields = [f \in DOMAIN @ |-> PrintField(@[f])]]

\* print(), and parse_schema() of what it printed: none if that is no SDL.
Printed(doc) ==
    IF \E n \in DOMAIN doc.types : \E f \in DOMAIN doc.types[n].fields :
          doc.types[n].kind = "input" /\ Unreadable(doc.types[n].fields[f])
    THEN <<>>
    ELSE <<[doc EXCEPT !.schema = PrintSchema(@),
                       !.types = [n \in DOMAIN @ |-> PrintTypeDef(@[n])]]>>

-----------------------------------------------------------------------------
\* DirectiveCodec::from_directives(): the first of the name; a schema's: the last.
First(directives, name) ==
    LET own == SelectSeq(directives, LAMBDA d : d[1] = name)
    IN  IF own = <<>> THEN <<>> ELSE <<own[1][2]>>
All(directives, names) == SelectSeq(directives, LAMBDA d : d[1] \in names)

SchemaDirective(schema, name) ==
    LET own == All(schema.directives, {name})
    IN  IF own = <<>> THEN "default" ELSE Last(own)[2]

ToArg(a) ==
    [type |-> a.type, doc |-> a.doc, default |-> a.default, modify |-> First(a.directives, "modify")]

\* to_common_field(), to_field() and to_input_object_field()
ToField(f, args, default) ==
    [type |-> f.type, args |-> args, doc |-> f.doc, default |-> default,
     modify |-> First(f.directives, "modify"), omit |-> First(f.directives, "omit"),
     cache |-> First(f.directives, "cache"), protected |-> First(f.directives, "protected"),
     discriminate |-> First(f.directives, "discriminate"),
     resolvers |-> All(f.directives, ResolverNames),
     directives |-> All(f.directives, FederationNames)]

EmptyType ==
    [fields |-> <<>>, added |-> <<>>, doc |-> <<>>, implements |-> {}, cache |-> <<>>,
     protected |-> <<>>, resolvers |-> <<>>, directives |-> <<>>]

\* to_add_fields_from_directives(), process_schema_multiple_directives()
Payloads(directives, name) ==
    LET own == All(directives, {name}) IN [i \in DOMAIN own |-> own[i][2]]

ToArgs(args) == [a \in DOMAIN args |-> ToArg(args[a])]
ToFields(fields) == [f \in DOMAIN fields |-> ToField(fields[f], ToArgs(fields[f].args), <<>>)]
ToInputFields(fields) == [f \in DOMAIN fields |-> ToField(fields[f], <<>>, fields[f].default)]

ToObjectType(d) ==
    [fields |-> ToFields(d.fields), added |-> Payloads(d.directives, "addField"), doc |-> d.doc,
     implements |-> d.implements,
     cache |-> First(d.directives, "cache"), protected |-> First(d.directives, "protected"),
     resolvers |-> All(d.directives, ResolverNames),
     directives |-> All(d.directives, FederationNames)]

ToInputObject(d) ==
    [EmptyType EXCEPT !.doc = d.doc, !.protected = First(d.directives, "protected"),
        !.fields = ToInputFields(d.fields)]

\* to_types(), to_scalar_type()
ToType(d) ==
    CASE d.kind = "scalar" -> EmptyType
      [] d.kind = "input" -> ToInputObject(d)
      [] OTHER -> ToObjectType(d)

ToUnion(u) == [types |-> u.members, doc |-> u.doc]
ToEnum(e) == [variants |-> {<<v.name, First(v.directives, "alias")>> : v \in e.values}, doc |-> e.doc]

FromDocument(doc) ==
    [server |-> SchemaDirective(doc.schema, "server"),
     upstream |-> SchemaDirective(doc.schema, "upstream"),
     telemetry |-> SchemaDirective(doc.schema, "telemetry"),
     links |-> Payloads(doc.schema.directives, "link"), roots |-> doc.schema.roots,
     types |-> [n \in DOMAIN doc.types |-> ToType(doc.types[n])],
     unions |-> [n \in DOMAIN doc.unions |-> ToUnion(doc.unions[n])],
     enums |-> [n \in DOMAIN doc.enums |-> ToEnum(doc.enums[n])]]

\* Config::from_sdl() of Config::to_sdl()
Parsed(sdl) == IF sdl = <<>> THEN <<>> ELSE <<FromDocument(sdl[1])>>
Reread(config) == Parsed(Printed(ConfigDocument(config)))

-----------------------------------------------------------------------------
(* What SDL has no place for, as it is written.                            *)
Short(doc) == Len(doc) <= 1
FieldFits(kind, f) ==
    /\ f.discriminate = <<>>
    /\ kind # "object" => f.args = <<>>
    /\ kind # "input" => f.default = <<>>
    /\ Short(f.doc) /\ (f.default = <<>> \/ FieldDirectives(f) = <<>>)
    /\ \A a \in DOMAIN f.args : f.args[a].doc = <<>> /\ f.args[a].modify = <<>>
TypeFits(kind, t) ==
    /\ kind = "scalar" => t = EmptyType
    /\ kind = "interface" => t = [EmptyType EXCEPT !.fields = t.fields, !.implements = t.implements]
    /\ Short(t.doc)
    /\ kind = "input" =>
          t = [EmptyType EXCEPT !.fields = t.fields, !.doc = t.doc, !.protected = t.protected]
    /\ \A f \in DOMAIN t.fields : FieldFits(kind, t.fields[f])
Fits(config) ==
    /\ config.roots.query \o config.roots.mutation # <<>>
    /\ config.telemetry = "default"
    /\ \A u \in DOMAIN config.unions : config.unions[u].doc = <<>>
    /\ \A n \in DOMAIN config.types : TypeFits(Kind(config, n), config.types[n])

OneWay(config) == InputTypes(Shape(config)) \cap OutputTypes(Shape(config)) = {}
Terse(config) ==
    \A n \in DOMAIN config.types :
        Kind(config, n) \in {"object", "interface"} =>
            /\ Short(config.types[n].doc)
            /\ \A f \in DOMAIN config.types[n].fields : Short(config.types[n].fields[f].doc)

FieldsRemain(was, is) ==
    /\ DOMAIN is = DOMAIN was
    /\ \A f \in DOMAIN was :
        /\ is[f].type = was[f].type /\ is[f].protected = was[f].protected
        /\ is[f].omit = was[f].omit /\ is[f].resolvers = was[f].resolvers
        /\ is[f].cache = was[f].cache

ReadBack(config, read) ==
    /\ Fits(config) => read = <<config>>
    /\ read # <<>> =>
        /\ OneWay(config) /\ Terse(config) => Reread(read[1]) = read
        /\ DOMAIN read[1].types = DOMAIN config.types
        /\ \A n \in DOMAIN config.types :
             FieldsRemain(config.types[n].fields, read[1].types[n].fields)

\* to_sdl(), from_sdl(): a configuration that fits is read back as it was; what
\* is lost of another is lost at once, but for long texts and types that go both ways; and whatever
\* is lost, each type keeps its fields and their types, and a field what resolves
\* and guards it.
SdlKeepsTheConfiguration(config) == ReadBack(config, Reread(config))

\* LineBreaker: the lines are the text, cut between its words.
LinesAreTheText(text, breakAt) ==
    LET lines == LineBreaker(text, breakAt)
    IN  /\ FlattenSeq(lines) = text
        /\ \A i \in 1..(Len(lines) - 1) : Len(lines[i]) > breakAt /\ Last(lines[i]) = " "
        /\ \A i \in DOMAIN lines : \A j \in breakAt..(Len(lines[i]) - 1) : j > breakAt => lines[i][j] # " "
=============================================================================
