---------------------------- MODULE ConfigReader ----------------------------
(***************************************************************************)
(* From the files a server is given to what it runs on: ConfigReader       *)
(* (core/config/reader.rs) with the resources its links name, ConfigModule *)
(* and the merge of its extensions, Links::try_from and the connections of *)
(* the blueprint, and the clients made of them (cli/runtime, ServerConfig).*)
(*                                                                         *)
(* A text of a configuration is <<"rel", name>>, <<"abs", directory,       *)
(* name>>, <<"url", u>>, or a template <<"env", x>> or <<"vars", v>>.  A   *)
(* configuration is [links, types, vars, telemetry]: links are [type, id,  *)
(* src, region, path], types what each name stands for, telemetry the URL  *)
(* of its exporter.  The world is its files by path, each [kind, is], its  *)
(* environment, the databases and reflecting gRPC services by their URL.   *)
(* An optional value is <<>> or <<x>>; what fails is <<>>.                 *)
(***************************************************************************)
EXTENDS Naturals, FiniteSets, SequencesExt

Failed == <<>>
Ok(x) == <<x>>
At(f, x) == IF x \in DOMAIN f THEN Ok(f[x]) ELSE Failed
OrElse(option, default) == IF option = <<>> THEN default ELSE option[1]
Empty == [x \in {} |-> x]
With(F, G) == [n \in DOMAIN F \cup DOMAIN G |-> IF n \in DOMAIN G THEN G[n] ELSE F[n]]

-----------------------------------------------------------------------------
(* Templates.  path_string() knows the environment, and the vars when it is *)
(* given some.                                                              *)

PathString(text, env, vars) ==
    CASE text = <<>> -> Failed
      [] text # <<>> /\ text[1] = "env" -> At(env, text[2])
      [] text # <<>> /\ text[1] = "vars" /\ vars # <<>> -> At(vars[1], text[2])
      [] OTHER -> Failed

\* eval_partial(): what is not known stays a template; eval(): it is empty.
Partially(text, env, vars) == OrElse(PathString(text, env, vars), text)
Fully(text, env, vars) ==
    IF text[1] \in {"env", "vars"} THEN OrElse(PathString(text, env, vars), <<>>) ELSE text

\* FileRead::render(): the text of a configuration, before it is parsed.
Render(config, env) ==
    [config EXCEPT !.links = [i \in DOMAIN @ |-> [@[i] EXCEPT !.src = Partially(@, env, <<>>)]],
                   !.telemetry = Partially(@, env, <<>>)]

-----------------------------------------------------------------------------
\* resolve_path(), of the file that has the link.
\* Mutated form: paths are taken from the first file's directory.
ResolvePath_Given(src, directory) == IF src[1] = "rel" THEN <<"home", src[2]>> ELSE Tail(src)
ResolvePath(src, directory) ==
    CASE src[1] = "rel" -> <<directory, src[2]>>
      [] src[1] = "abs" -> Tail(src)
      [] OTHER -> src

\* ResourceReader::read_file()
ReadFile(world, path) == At(world.files, path)
ReadAs(file, kind) == IF file # Failed /\ file[1].kind = kind THEN Ok(file[1].is) ELSE Failed

NoExtensions ==
    [protos |-> Empty, script |-> <<>>, certs |-> <<>>, keys |-> <<>>, endpoints |-> <<>>,
     htpasswd |-> <<>>, jwks |-> <<>>, schemas |-> <<>>, s3 |-> <<>>]
Content(id, content) == [id |-> id, content |-> content]

\* load_cert() fails for a block that is broken, load_private_key() passes it over.
LoadCert(file) ==
    IF file = Failed \/ file[1].kind = "broken" THEN Failed
    ELSE IF file[1].kind = "pem" THEN Ok(file[1].is.certs) ELSE Ok(<<>>)
LoadPrivateKey(file) == IF file[1].kind = "pem" THEN file[1].is.keys ELSE <<>>

\* An extension a link adds to those there are.
Extended(extensions, field, value) ==
    IF value = Failed THEN Failed ELSE Ok([extensions EXCEPT ![field] = Append(@, value[1])])
Replaced(extensions, field, value) ==
    IF value = Failed THEN Failed ELSE Ok([extensions EXCEPT ![field] = value[1]])
AsContent(link, value) == IF value = Failed THEN Failed ELSE Ok(Content(link.id, value[1]))
AsSchema(link, value) ==
    IF value = Failed THEN Failed ELSE Ok(Content(OrElse(link.id, "default"), value[1]))
AddProto(extensions, files) ==
    IF files = Failed THEN Failed ELSE Ok([extensions EXCEPT !.protos = With(@, files[1])])

\* The match of ext_links(), of the links that are not a configuration; the file is read
\* for those that name one.
Extension(extensions, link, file, world) ==
    CASE link.type = "Protobuf" -> AddProto(extensions, ReadAs(file, "proto"))
      [] link.type = "Grpc" -> AddProto(extensions, At(world.reflection, link.src))
      [] link.type = "Script" ->
            Replaced(extensions, "script", IF file = Failed THEN Failed ELSE Ok(file))
      [] link.type = "Cert" ->
            LET certs == LoadCert(file)
            IN  IF certs = Failed THEN Failed ELSE Ok([extensions EXCEPT !.certs = @ \o certs[1]])
      [] link.type = "Key" ->
            IF file = Failed THEN Failed ELSE Ok([extensions EXCEPT !.keys = LoadPrivateKey(file)])
      [] link.type = "Operation" -> Replaced(extensions, "endpoints", ReadAs(file, "operations"))
      [] link.type = "Htpasswd" -> Extended(extensions, "htpasswd", AsContent(link, file))
      [] link.type = "Jwks" -> Extended(extensions, "jwks", AsContent(link, ReadAs(file, "jwks")))
      [] link.type = "Sql" -> Extended(extensions, "schemas", AsSchema(link, ReadAs(file, "sql")))
      [] link.type \in {"Postgres", "GreptimeDB"} ->
            Extended(extensions, "schemas", AsSchema(link, At(world.databases, link.src)))
      [] link.type = "AuroraDsql" ->
            IF link.region = <<>> THEN Failed
            ELSE Extended(extensions, "schemas", AsSchema(link, At(world.databases, link.src)))
      [] link.type = "S3" ->
            Extended(extensions, "s3", Ok(Content(Ok(OrElse(link.id, "")), link.src)))
      [] link.type = "Redis" -> Ok(extensions)

\* Cache::unify(): types of both; the other settings are those of the left.  A name that
\* stands for different things does not merge (FederationMerge has what does).
Unify(a, b) ==
    IF \E n \in DOMAIN a.types \cap DOMAIN b.types : a.types[n] # b.types[n] THEN Failed
    ELSE Ok([a EXCEPT !.types = With(@, b.types)])

Linked(module, link, file, world) ==
    IF link.type = "Config"
    THEN LET config == ReadAs(file, "config")
             merged == IF config = Failed THEN Failed ELSE Unify(module.config, Render(config[1], world.env))
         IN  IF merged = Failed THEN Failed ELSE Ok([module EXCEPT !.config = merged[1]])
    ELSE LET extended == Extension(module.extensions, link, file, world)
         IN  IF extended = Failed THEN Failed ELSE Ok([module EXCEPT !.extensions = extended[1]])

\* ext_links(): in their order, those without a source passed over.
ExtLinks(module, directory, world) ==
    FoldLeft(LAMBDA acc, link :
                 IF acc = Failed THEN Failed
                 ELSE Linked(acc[1], link, ReadFile(world, ResolvePath(link.src, directory)), world),
             Ok(module), SelectSeq(module.config.links, LAMBDA link : link.src # <<>>))

\* resolve(): the telemetry is rendered with the vars of its own file.
Resolve(config, directory, world) ==
    ExtLinks([config |-> [config EXCEPT !.telemetry = Fully(@, world.env, Ok(config.vars))],
              extensions |-> NoExtensions],
             directory, world)

\* Extensions::merge_right(), of each field its own.
MergeExtensions(a, b) ==
    [protos |-> With(a.protos, b.protos),
     script |-> IF b.script = <<>> THEN a.script ELSE b.script,
     certs |-> a.certs \o b.certs, keys |-> a.keys \o b.keys,
     endpoints |-> a.endpoints \o b.endpoints, htpasswd |-> a.htpasswd \o b.htpasswd,
     jwks |-> a.jwks \o b.jwks, schemas |-> a.schemas \o b.schemas, s3 |-> a.s3 \o b.s3]

UnifyModules(a, b) ==
    IF a = Failed \/ b = Failed THEN Failed
    ELSE LET config == Unify(a[1].config, b[1].config)
         IN  IF config = Failed THEN Failed
             ELSE Ok([config |-> config[1],
                      extensions |-> MergeExtensions(a[1].extensions, b[1].extensions)])

ResolveFile(world, path) ==
    LET config == ReadAs(ReadFile(world, path), "config")
    IN  IF config = Failed THEN Failed ELSE Resolve(Render(config[1], world.env), path[1], world)

\* read_all(): the first file's module, unified with each of the others.
ReadAll(world, paths) ==
    IF paths = <<>> THEN Failed
    ELSE FoldLeft(LAMBDA acc, path : UnifyModules(acc, ResolveFile(world, path)),
                  ResolveFile(world, paths[1]), Tail(paths))

-----------------------------------------------------------------------------
OfType(links, types) == SelectSeq(links, LAMBDA link : link.type \in types)
Databases == {"Postgres", "GreptimeDB", "AuroraDsql"}
IdOf(link) == OrElse(link.id, "default")

\* Links::try_from(): whether the links may stand together.
\* Mutated form: a link without an id collides with none.
ConnectionsDiffer_Named(links) == Len(links) = Cardinality({links[i].id : i \in DOMAIN links})

ConnectionsDiffer(links) == Len(links) = Cardinality({IdOf(links[i]) : i \in DOMAIN links})

LinksAreValid(links) ==
    /\ \A i \in DOMAIN links : links[i].src # <<>>
    /\ \A i, j \in DOMAIN links : i # j /\ links[i].id # <<>> => links[i].id # links[j].id
    /\ Len(OfType(links, {"Script"})) <= 1
    /\ Len(OfType(links, {"Key"})) <= 1
    /\ ConnectionsDiffer(OfType(links, Databases))
    /\ LET redis == OfType(links, {"Redis"})
       IN  Len(redis) > 1 => \A i \in DOMAIN redis : redis[i].id # <<>>

\* link_to_connection_spec(), link_to_redis_connection_spec(): the later of an id stays.
ConnectionMap(links) ==
    [id \in {IdOf(links[i]) : i \in DOMAIN links} |->
        LET last == CHOOSE i \in DOMAIN links :
                        IdOf(links[i]) = id /\ \A j \in DOMAIN links : IdOf(links[j]) = id => j <= i
        IN  [type |-> links[last].type, url |-> links[last].src]]

\* init(): only a PostgreSQL URL has a listener.
Listening(connections) ==
    [id \in {i \in DOMAIN connections : connections[i].type \in {"Postgres", "Redis"}} |->
        connections[id].url]

\* ServerConfig::new() adds the S3 clients, the later of an id.
S3Clients(configs) ==
    [id \in {configs[i].id[1] : i \in DOMAIN configs} |->
        configs[CHOOSE i \in DOMAIN configs :
                    configs[i].id[1] = id /\ \A j \in DOMAIN configs : configs[j].id[1] = id => j <= i].content]

Runtime(links, extensions) ==
    LET postgres == ConnectionMap(OfType(links, Databases))
        redis    == ConnectionMap(OfType(links, {"Redis"}))
    IN  [postgres |-> postgres, postgresListeners |-> Listening(postgres),
         redis |-> redis, redisListeners |-> Listening(redis), s3 |-> S3Clients(extensions.s3)]

\* start_command(): read_all(), Blueprint::try_from(), ServerConfig::new().
StartWith(module) ==
    IF module = Failed THEN Failed
    ELSE IF ~LinksAreValid(module[1].config.links) THEN Failed
    ELSE Ok([config |-> module[1].config, extensions |-> module[1].extensions,
             runtime |-> Runtime(module[1].config.links, module[1].extensions)])
Start(world, paths) == StartWith(ReadAll(world, paths))

\* find_database_schema()
FindSchema(extensions, id) ==
    LET found == SelectSeq(extensions.schemas, LAMBDA c : id = <<>> \/ c.id = id[1])
    IN  CASE id # <<>> /\ found # <<>> -> Ok(found[1].content)
          [] id = <<>> /\ Len(found) = 1 -> Ok(found[1].content)
          [] OTHER -> Failed

-----------------------------------------------------------------------------
\* The links of a file as it means them: with the environment, and a path from itself.
Meant(world, path) ==
    LET links == world.files[path].is.links
    IN  [i \in DOMAIN links |->
            LET src == IF links[i].src # <<>> /\ links[i].src[1] = "env" /\ links[i].src[2] \in DOMAIN world.env
                       THEN world.env[links[i].src[2]] ELSE links[i].src
            IN  [link |-> [links[i] EXCEPT !.src = src],
                 at |-> CASE src = <<>> -> <<>>
                          [] src # <<>> /\ src[1] = "rel" -> <<path[1], src[2]>>
                          [] src # <<>> /\ src[1] = "abs" -> <<src[2], src[3]>>
                          [] OTHER -> src]]
AllMeant(world, paths) ==
    SelectSeq(FlattenSeq([i \in DOMAIN paths |-> Meant(world, paths[i])]), LAMBDA m : m.link.src # <<>>)
MeantAs(meant, types) == SelectSeq(meant, LAMBDA m : m.link.type \in types)
Each(meant, Of(_)) == [i \in DOMAIN meant |-> Of(meant[i])]

\* Every certificate, credential and schema of every link is there, in order and under its
\* id; of scripts, the last; of keys and operations, the last of each file.
ExtensionsAreLinked(world, paths, extensions) ==
    LET all == AllMeant(world, paths)
        It(m) == world.files[m.at]
        LastOf(type, Of(_)) ==
            FlattenSeq([i \in DOMAIN paths |->
                LET own == MeantAs(Meant(world, paths[i]), {type})
                IN  IF own = <<>> THEN <<>> ELSE Of(It(own[Len(own)]))])
        scripts == MeantAs(all, {"Script"})
        protos  == MeantAs(all, {"Protobuf", "Grpc"})
        Declared(m) == IF m.link.type = "Grpc" THEN world.reflection[m.link.src] ELSE It(m).is
    IN  /\ extensions.certs = FlattenSeq(Each(MeantAs(all, {"Cert"}),
                                              LAMBDA m : IF It(m).kind = "pem" THEN It(m).is.certs ELSE <<>>))
        /\ extensions.keys = LastOf("Key", LAMBDA f : IF f.kind = "pem" THEN f.is.keys ELSE <<>>)
        /\ extensions.endpoints = LastOf("Operation", LAMBDA f : f.is)
        /\ extensions.script = IF scripts = <<>> THEN <<>> ELSE <<It(scripts[Len(scripts)])>>
        /\ extensions.htpasswd = Each(MeantAs(all, {"Htpasswd"}), LAMBDA m : Content(m.link.id, It(m)))
        /\ extensions.jwks = Each(MeantAs(all, {"Jwks"}), LAMBDA m : Content(m.link.id, It(m).is))
        /\ DOMAIN extensions.protos = UNION {DOMAIN Declared(protos[i]) : i \in DOMAIN protos}
        /\ \A n \in DOMAIN extensions.protos :
              \E i \in DOMAIN protos :
                 /\ n \in DOMAIN Declared(protos[i]) /\ extensions.protos[n] = Declared(protos[i])[n]
                 /\ \A j \in i + 1..Len(protos) : n \notin DOMAIN Declared(protos[j])

\* Each link of the first file to a database or to Redis has a connection of its own, to
\* its URL, and a listener if there is one for its kind; its schema is of its database,
\* unless a link before it has taken its id.
ConnectionsAreLinked(world, paths, started) ==
    LET first == Meant(world, paths[1])
        all == MeantAs(AllMeant(world, paths), Databases \cup {"Sql"})
        Own(pools, listeners, types, listened) ==
            LET mine == MeantAs(first, types)
            IN  /\ Cardinality(DOMAIN pools) = Len(mine)
                /\ \A i \in DOMAIN mine :
                      LET id == IF mine[i].link.id = <<>> THEN "default" ELSE mine[i].link.id[1]
                      IN  /\ id \in DOMAIN pools /\ pools[id].url = mine[i].link.src
                          /\ id \in DOMAIN listeners <=> mine[i].link.type \in listened
                          /\ id \in DOMAIN listeners => listeners[id] = mine[i].link.src
    IN  /\ Own(started.runtime.postgres, started.runtime.postgresListeners, Databases, {"Postgres"})
        /\ Own(started.runtime.redis, started.runtime.redisListeners, {"Redis"}, {"Redis"})
        /\ \A i \in DOMAIN all :
              LET id == OrElse(all[i].link.id, "default")
                  before == {j \in 1..i - 1 : OrElse(all[j].link.id, "default") = id}
              IN  before = {} =>
                    FindSchema(started.extensions, <<id>>) =
                        <<IF all[i].link.type = "Sql" THEN world.files[all[i].at].is
                          ELSE world.databases[all[i].link.src]>>
        /\ \A i \in DOMAIN MeantAs(first, {"S3"}) :
              OrElse(MeantAs(first, {"S3"})[i].link.id, "") \in DOMAIN started.runtime.s3

\* What keeps a server from starting.
Unusable(world, m) ==
    LET type == m.link.type
        kind == CASE type = "Config" -> "config" [] type = "Protobuf" -> "proto" [] type = "Jwks" -> "jwks"
                  [] type = "Operation" -> "operations" [] type = "Sql" -> "sql" [] OTHER -> "any"
    IN  CASE type \in {"S3", "Redis"} -> FALSE
          [] type = "Grpc" -> m.link.src \notin DOMAIN world.reflection
          [] type \in Databases ->
                m.link.src \notin DOMAIN world.databases \/ (type = "AuroraDsql" /\ m.link.region = <<>>)
          [] m.at \notin DOMAIN world.files -> TRUE
          [] type = "Cert" -> world.files[m.at].kind = "broken"
          [] OTHER -> kind # "any" /\ world.files[m.at].kind # kind

Clashing(world, paths) ==
    LET configs == {world.files[m.at].is.types :
                       m \in ToSet(SelectSeq(AllMeant(world, paths),
                                             LAMBDA m : m.link.type = "Config" /\ ~Unusable(world, m)))}
                   \cup {world.files[paths[i]].is.types : i \in DOMAIN paths}
    IN  \E f, g \in configs : \E n \in DOMAIN f \cap DOMAIN g : f[n] # g[n]

Prevented(world, paths) ==
    LET first == Meant(world, paths[1])
        all   == AllMeant(world, paths)
        Same(i, j) == i # j /\ first[i].link.type = first[j].link.type
        Ident(m) == IF m.link.id = <<>> THEN "default" ELSE m.link.id[1]
    IN  \/ \E i \in DOMAIN all : Unusable(world, all[i])
        \/ Clashing(world, paths)
        \/ \E i \in DOMAIN first : first[i].link.src = <<>>
        \/ \E i, j \in DOMAIN first :
              \/ i # j /\ first[i].link.id # <<>> /\ first[i].link.id = first[j].link.id
              \/ Same(i, j) /\ first[i].link.type \in {"Script", "Key"}
              \/ /\ i # j /\ {first[i].link.type, first[j].link.type} \subseteq Databases
                 /\ Ident(first[i]) = Ident(first[j])
              \/ Same(i, j) /\ first[i].link.type = "Redis" /\ first[i].link.id = <<>>

\* It has what every link of every file names, found from that file, the types of all, the
\* rest of the first file, its telemetry with the vars beside it, and a client of its own
\* for each of that file's connections.
HasWhatIsLinked(world, paths, started) ==
    LET first == world.files[paths[1]].is
        Known(f, x) == IF x \in DOMAIN f THEN f[x] ELSE <<>>
    IN  /\ started.config.telemetry =
              CASE first.telemetry[1] = "env" -> Known(world.env, first.telemetry[2])
                [] first.telemetry[1] = "vars" -> Known(first.vars, first.telemetry[2])
                [] OTHER -> first.telemetry
        /\ DOMAIN started.config.types =
              UNION ({DOMAIN world.files[paths[i]].is.types : i \in DOMAIN paths}
                     \cup {DOMAIN world.files[m.at].is.types :
                              m \in ToSet(MeantAs(AllMeant(world, paths), {"Config"}))})
        /\ ExtensionsAreLinked(world, paths, started.extensions)
        /\ ConnectionsAreLinked(world, paths, started)

\* ConfigReader::read_all(), Links::try_from(), init(): a server starts unless a link of
\* its files is of no use or the first file's contradict each other, and has what they name.
IsAsLinked(world, paths, started) ==
    IF started = Failed THEN Prevented(world, paths)
    ELSE ~Prevented(world, paths) /\ HasWhatIsLinked(world, paths, started[1])
StartedAsLinked(world, paths) == IsAsLinked(world, paths, Start(world, paths))
=============================================================================
