----------------------------- MODULE WorkerHooks ----------------------------
(***************************************************************************)
(* An HTTP resolver with a JavaScript worker around it: EvalHttp           *)
(* (core/ir/eval_http.rs), WorkerHooks (core/worker_hooks.rs), the runtime *)
(* that calls the script's functions (cli/javascript), and the response    *)
(* that is made of what an upstream answers (core/http/response.rs).       *)
(*                                                                         *)
(* A request is [path, item]: the item is the value a batch is keyed by,   *)
(* <<>> if none.  A body is <<"text", s>>, <<"json", j>> or <<"none">>.    *)
(* A result is <<>> for an error, or <<response>>.                         *)
(***************************************************************************)
EXTENDS Naturals, FiniteSets, SequencesExt

CONSTANT MaxRedirects   \* bound: the redirects of a script that never ends them

Failed == <<>>
Ok(x) == <<x>>
Request(path, item) == [path |-> path, item |-> item]
Response(status, headers, location, body) ==
    [status |-> status, headers |-> headers, location |-> location, body |-> body]

-----------------------------------------------------------------------------
(* The runtime.  A script is [loads, functions]: a function is what it      *)
(* answers by path, or by body, and answers are <<"throws">>, <<"request",  *)
(* path>>, <<"response", response>>, <<"both", path, response>> or another  *)
(* value.  LOCAL_RUNTIME is made at the first call, in the one thread there *)
(* is, and a script that does not load is tried again at the next.          *)

\* init_rt(), and the lookup of the function that call() and execute_inner() share.
Found(script, name) == script.loads /\ name \in DOMAIN script.functions

\* Command::from_js(): a request comes before a response.
FromJs(answer) ==
    CASE answer[1] \in {"request", "both"} -> Ok(<<"request", answer[2]>>)
      [] answer[1] = "response" -> Ok(<<"response", answer[2]>>)
      [] OTHER -> Failed

\* call(): a function that throws has no answer, and that is no error.
\* Mutated form: a function that throws fails the request.
CallEvent_Throws(script, name, path) ==
    IF ~Found(script, name) THEN Failed
    ELSE IF script.functions[name][path] = <<"throws">> THEN Failed
    ELSE FromJs(script.functions[name][path])

CallEvent(script, name, path) ==
    IF ~Found(script, name) THEN Failed
    ELSE IF script.functions[name][path] = <<"throws">> THEN Ok(<<>>)
    ELSE FromJs(script.functions[name][path])

\* execute_inner(): it must return text, and the text be JSON.
CallValue(script, name, body) ==
    IF ~Found(script, name) \/ script.functions[name][body][1] # "json" THEN Failed
    ELSE Ok(script.functions[name][body])

\* WorkerHooks::on_request(), on_response(); a hook is <<>> or <<name>>.
OnRequest(hooks, script, path) ==
    IF hooks.request = <<>> THEN Ok(<<>>) ELSE CallEvent(script, hooks.request[1], path)

\* Mutated form: the answer of the hook is a response of its own.
OnResponse_Anew(hooks, script, response) ==
    IF hooks.response = <<>> THEN Ok(response)
    ELSE LET body == CallValue(script, hooks.response[1], response.body)
         IN  IF body = Failed THEN Failed ELSE Ok(Response(200, {}, <<>>, body[1]))

OnResponse(hooks, script, response) ==
    IF hooks.response = <<>> THEN Ok(response)
    ELSE LET body == CallValue(script, hooks.response[1], response.body)
         IN  IF body = Failed THEN Failed ELSE Ok([response EXCEPT !.body = body[1]])

-----------------------------------------------------------------------------
(* What an upstream answers by path: <<>>, when it cannot be reached, or    *)
(* <<response>>, of a text, a JSON value or of nothing.                     *)

\* Response::from_reqwest_with_error_handling(), to_json(): an error status is an
\* error, a body that is not there is null.
Received(answer) ==
    CASE answer = <<>> \/ answer[1].status >= 400 -> Failed
      [] answer[1].body[1] = "none" -> Ok([answer[1] EXCEPT !.body = <<"json", "null">>])
      [] answer[1].body[1] = "text" -> Failed
      [] OTHER -> answer

\* TryFrom<WorkerResponse>: whatever its status, a body of JSON; no body is no JSON.
Answered(response) == IF response.body[1] = "json" THEN Ok(response) ELSE Failed

\* What came of a resolver, the requests that left for an upstream, and the headers
\* of upstreams that set_headers() gave the client's answer.
Outcome(result, sent, headers) == [result |-> result, sent |-> sent, headers |-> headers]

\* EvalHttp::execute()
ExecutedAs(request, result) ==
    Outcome(result, <<request>>, IF result = Failed THEN {} ELSE result[1].headers)

Execute(upstream, request) == ExecutedAs(request, Received(upstream[request.path]))

Finished(hooks, script, outcome) ==
    IF outcome.result = Failed THEN outcome
    ELSE [outcome EXCEPT !.result = OnResponse(hooks, script, outcome.result[1])]

IsRedirect(response) == response.status \in {301, 302} /\ response.location # <<>>

\* execute_with_worker(): a redirect of the script's is followed with the request it
\* was about, its path replaced; each turn gives the response to the hook once more.
RECURSIVE ExecuteWithWorker(_, _, _, _, _)
Turn(hooks, script, upstream, request, command, turns) ==
    CASE command = Failed -> Outcome(Failed, <<>>, {})
      [] command[1] = <<>> -> Finished(hooks, script, Execute(upstream, request))
      [] command[1][1] = "request" ->
            Finished(hooks, script, Execute(upstream, Request(command[1][2], <<>>)))
      [] IsRedirect(command[1][2]) ->
            Finished(hooks, script,
                     ExecuteWithWorker(hooks, script, upstream,
                                       Request(command[1][2].location[1], request.item), turns + 1))
      [] Answered(command[1][2]) = Failed -> Outcome(Failed, <<>>, {})
      [] OTHER -> Finished(hooks, script, Outcome(Ok(command[1][2]), <<>>, {}))

ExecuteWithWorker(hooks, script, upstream, request, turns) ==
    IF turns > MaxRedirects THEN Outcome(Failed, <<>>, {})
    ELSE Turn(hooks, script, upstream, request, OnRequest(hooks, script, request.path), turns)

\* eval_io_inner(): the hooks need both workers, and there are none without a script.
\* try_new(): a resolver without a hook has none.
EvalHttp(hooks, script, upstream, request) ==
    IF script = <<>> \/ (hooks.request = <<>> /\ hooks.response = <<>>)
    THEN Execute(upstream, request)
    ELSE ExecuteWithWorker(hooks, script[1], upstream, request, 0)

-----------------------------------------------------------------------------
\* What the script has to say of a path: as good as a throw if it is not asked, and
\* no answer at all if it cannot be.
Says(hooks, script, path) ==
    CASE hooks.request = <<>> -> <<"throws">>
      [] hooks.request # <<>> /\ ~Found(script, hooks.request[1]) -> <<"nothing">>
      [] OTHER -> script.functions[hooks.request[1]][path]

Redirects(said) == said[1] = "response" /\ IsRedirect(said[2])

\* Where n redirects of the script lead, and how many there are of at most MaxRedirects.
PathAfter(hooks, script, path, n) ==
    FoldLeft(LAMBDA p, i : IF Redirects(Says(hooks, script, p))
                           THEN Says(hooks, script, p)[2].location[1] ELSE p,
             path, [i \in 1..n |-> i])
Hops(hooks, script, path) ==
    Cardinality({n \in 0..MaxRedirects : Redirects(Says(hooks, script, PathAfter(hooks, script, path, n)))})

\* The requests that may leave, of what the script says where it ends.
SentFor(said, last, item) ==
    CASE said[1] = "throws" -> <<Request(last, item)>>
      [] said[1] \in {"request", "both"} -> <<Request(said[2], <<>>)>>
      [] OTHER -> <<>>

\* The body that n calls of the second function make of one, <<"text">> of no JSON.
Seen(hooks, script, body, n) ==
    IF hooks.response = <<>> THEN body
    ELSE FoldLeft(LAMBDA b, i : IF b[1] = "json" /\ Found(script, hooks.response[1])
                                THEN script.functions[hooks.response[1]][b] ELSE <<"text">>,
                  body, [i \in 1..n |-> i])

\* The outcome is an error, or has this status and what the calls make of this body.
ShownAs(result, status, body) ==
    IF body[1] # "json" THEN result = Failed
    ELSE result # Failed /\ result[1].status = status /\ result[1].body = body

\* The body of an upstream's answer as it is read.
ReadAs(body) == IF body[1] = "none" THEN <<"json", "null">> ELSE body

\* An outcome from where the script has led a request, with the calls on the way back.
EndsAsSaid(outcome, said, sent, hooks, script, upstream, calls) ==
    /\ outcome.sent = sent
    /\ CASE sent # <<>> /\ upstream[sent[1].path] # <<>> ->
              LET answer == upstream[sent[1].path][1]
              IN  IF answer.status >= 400 \/ answer.body[1] = "text"
                  THEN outcome.result = Failed /\ outcome.headers = {}
                  ELSE /\ outcome.headers = answer.headers
                       /\ ShownAs(outcome.result, answer.status,
                                  Seen(hooks, script, ReadAs(answer.body), calls))
         [] sent = <<>> /\ said[1] = "response" /\ said[2].body[1] = "json" /\ ~Redirects(said) ->
              /\ outcome.headers = {}
              /\ ShownAs(outcome.result, said[2].status, Seen(hooks, script, said[2].body, calls))
         [] OTHER -> outcome.result = Failed /\ outcome.headers = {}

\* execute_with_worker(), on_request(), on_response(): the script's function decides
\* where a request goes and one that throws does not; its redirects are followed and
\* asked again; one request at most leaves, its failure is the resolver's; the second
\* function sees the body once, and once more for each redirect; and the client is
\* given the headers of no upstream but the one that was asked.
HookedAsMeant(hooks, script, upstream, request) ==
    LET outcome == EvalHttp(hooks, script, upstream, request)
        worked  == script # <<>> /\ (hooks.request # <<>> \/ hooks.response # <<>>)
        used    == IF worked THEN hooks ELSE [request |-> <<>>, response |-> <<>>]
        code    == IF worked THEN script[1] ELSE [loads |-> FALSE, functions |-> <<>>]
        last    == PathAfter(used, code, request.path, MaxRedirects)
        said    == Says(used, code, last)
    IN  EndsAsSaid(outcome, said, SentFor(said, last, request.item), used, code, upstream,
                   Hops(used, code, request.path) + 1)
-----------------------------------------------------------------------------
(* What crosses into the script and back.  A JavaScript value is <<"str",   *)
(* text>>, <<"num", n>>, <<"obj", members>>, <<"null">> or <<"undefined">>. *)
(* A request is [method, url, headers, body], a url [scheme, host, port,    *)
(* path, query], with texts as sequences of characters; headers and query   *)
(* are sequences of <<name, value>>, and what is optional is <<>> or <<x>>. *)
(* The value of a header is "unseen" if it is no visible ASCII, "broken" if *)
(* it is no header; a body is "bytes" if it is no UTF-8, or a "stream".     *)

\* BTreeMap: of what is there twice, the last.
\* Mutated form: the first.
ToMap_First(pairs) ==
    [n \in {p[1] : p \in ToSet(pairs)} |-> SelectSeq(pairs, LAMBDA p : p[1] = n)[1][2]]
ToMap(pairs) == [n \in {p[1] : p \in ToSet(pairs)} |-> Last(SelectSeq(pairs, LAMBDA p : p[1] = n))[2]]
Lossy(body) == IF body = "bytes" THEN "replaced" ELSE body

\* IntoJs, and FromJs of a text, a u16, a Scheme, a map of texts and of something optional.
JsMap(map) == <<"obj", [n \in DOMAIN map |-> <<"str", map[n]>>]>>
JsOption(kind, of) == IF of = <<>> THEN <<"undefined">> ELSE <<kind, of[1]>>
AsText(v) == IF v[1] = "str" THEN Ok(v[2]) ELSE Failed
AsWord(v) == IF v[1] = "num" /\ v[2] \in 0..65535 THEN Ok(v[2]) ELSE Failed
AsScheme(v) == IF v[1] = "str" /\ v[2] \in {"http", "https"} THEN Ok(v[2]) ELSE Failed
AsMap(v) ==
    IF v[1] = "obj" /\ \A n \in DOMAIN v[2] : v[2][n][1] = "str"
    THEN Ok([n \in DOMAIN v[2] |-> v[2][n][2]]) ELSE Failed
AsOption(v, As(_)) ==
    IF v[1] \in {"null", "undefined"} THEN Ok(<<>>) ELSE IF As(v) = Failed THEN Failed ELSE Ok(As(v))
Member(object, name) == IF name \in DOMAIN object THEN object[name] ELSE <<"undefined">>
Whole(parts) ==
    IF \E n \in DOMAIN parts : parts[n] = Failed THEN Failed ELSE Ok([n \in DOMAIN parts |-> parts[n][1]])

\* Uri: from a url, and what FromJs and IntoJs make of one.
UriOf(url) == [url EXCEPT !.query = ToMap(@), !.host = <<@>>]
UriIntoJs(uri) ==
    <<"obj", [path |-> <<"str", uri.path>>, query |-> JsMap(uri.query), scheme |-> <<"str", uri.scheme>>,
              host |-> JsOption("str", uri.host), port |-> JsOption("num", uri.port)]>>
UriFromJs(v) ==
    IF v[1] # "obj" THEN Failed
    ELSE Whole([path |-> AsText(Member(v[2], "path")), query |-> AsMap(Member(v[2], "query")),
                scheme |-> AsScheme(Member(v[2], "scheme")),
                host |-> AsOption(Member(v[2], "host"), AsText), port |-> AsOption(Member(v[2], "port"), AsWord)])

\* Uri::fmt(), and Url::parse() of it: what was decoded is not encoded again, and what does not
\* begin with a slash is more of the host's name.
Before(text, c) == LET i == SelectInSeq(text, LAMBDA x : x = c) IN IF i = 0 THEN text ELSE SubSeq(text, 1, i - 1)
After(text, c) == LET i == SelectInSeq(text, LAMBDA x : x = c) IN IF i = 0 THEN <<>> ELSE SubSeq(text, i + 1, Len(text))
Pieces(text, c) ==
    FoldLeft(LAMBDA all, x : IF x = c THEN Append(all, <<>>) ELSE Append(Front(all), Append(Last(all), x)), << <<>> >>, text)
Decoded(text) == [i \in DOMAIN text |-> IF text[i] = "+" THEN " " ELSE text[i]]
WrittenQuery(query) ==
    FoldLeft(LAMBDA a, name : IF a = <<>> THEN name \o <<"=">> \o query[name]
                              ELSE a \o <<"&">> \o name \o <<"=">> \o query[name], <<>>, SetToSeq(DOMAIN query))
ReadQuery(text) ==
    LET pieces == SelectSeq(Pieces(Before(text, "#"), "&"), LAMBDA piece : piece # <<>>)
    IN  [i \in DOMAIN pieces |-> <<Decoded(Before(pieces[i], "=")), Decoded(After(pieces[i], "="))>>]
UrlOf(uri) ==
    LET host == IF uri.host = <<>> THEN <<"localhost">> ELSE uri.host[1]
        usual == IF uri.scheme = "https" THEN 443 ELSE 80
    IN  IF Before(uri.path, "/") # <<>> /\ uri.port # <<>> THEN Failed
        ELSE Ok([scheme |-> uri.scheme, host |-> host \o Before(uri.path, "/"),
                 port |-> IF uri.port = <<usual>> THEN <<>> ELSE uri.port,
                 path |-> <<"/">> \o After(uri.path, "/"), query |-> ReadQuery(WrittenQuery(uri.query))])

\* create_header_map(), HeaderName::from_str(), HeaderValue::from_str()
AsHeaders(v) ==
    LET map == AsMap(v)
    IN  IF map = Failed \/ \E n \in DOMAIN map[1] : n = "not a token" \/ map[1][n] = "broken" THEN Failed
        ELSE Ok(SetToSeq({<<n, map[1][n]>> : n \in DOMAIN map[1]}))

\* WorkerRequest: a request that cannot be copied, or has a header that is no text, is not shown.
RequestIntoJs(request) ==
    IF request.body = <<"stream">> \/ \E i \in DOMAIN request.headers : request.headers[i][2] = "unseen" THEN Failed
    ELSE Ok(<<"obj", [uri |-> UriIntoJs(UriOf(request.url)), method |-> <<"str", request.method>>,
                      headers |-> JsMap(ToMap(request.headers)),
                      body |-> JsOption("str", [i \in DOMAIN request.body |-> Lossy(request.body[i])])]>>)
AsUrl(v) == LET uri == UriFromJs(v) IN IF uri = Failed THEN Failed ELSE UrlOf(uri[1])
AsMethod(v) == IF AsText(v) = Ok("not a token") THEN Failed ELSE AsText(v)
RequestFromJs(v) ==
    IF v[1] # "obj" THEN Failed
    ELSE Whole([method |-> AsMethod(Member(v[2], "method")), url |-> AsUrl(Member(v[2], "uri")),
                headers |-> AsHeaders(Member(v[2], "headers")), body |-> AsOption(Member(v[2], "body"), AsText)])

\* WorkerResponse: a header that is no text is left out.
ResponseIntoJs(response) ==
    <<"obj", [status |-> <<"num", response.status>>,
              headers |-> JsMap(ToMap(SelectSeq(response.headers, LAMBDA h : h[2] # "unseen"))),
              body |-> <<"str", Lossy(response.body)>>]>>
AsStatus(v) == IF AsWord(v) # Failed /\ v[2] \in 100..999 THEN AsWord(v) ELSE Failed
AsBody(v) == IF v[1] \in {"null", "undefined"} THEN Ok("") ELSE AsText(v)
ResponseFromJs(v) ==
    IF v[1] # "obj" THEN Failed
    ELSE Whole([status |-> AsStatus(Member(v[2], "status")), headers |-> AsHeaders(Member(v[2], "headers")),
                body |-> AsBody(Member(v[2], "body"))])

\* prepare_args(), Command::from_js()
PrepareArgs(label, v) == <<"obj", [l \in {label} |-> v]>>
Commanded(label, made) == IF made = Failed THEN Failed ELSE Ok(<<label, made[1]>>)
CommandFromJs(v) ==
    IF v[1] # "obj" THEN Failed
    ELSE IF "request" \in DOMAIN v[2] THEN Commanded("request", RequestFromJs(v[2].request))
    ELSE IF "response" \in DOMAIN v[2] THEN Commanded("response", ResponseFromJs(v[2].response))
    ELSE Failed

Plain(text) == ToSet(text) \cap {"&", "#", "+"} = {}
LastOfEach(pairs) ==
    {pairs[i] : i \in {j \in DOMAIN pairs : \A k \in DOMAIN pairs : k > j => pairs[k][1] # pairs[j][1]}}
SameBut(request, given) ==
    /\ given.method = request.method /\ [given.url EXCEPT !.query = <<>>] = [request.url EXCEPT !.query = <<>>]
    /\ IsInjective(given.headers) /\ ToSet(given.headers) = LastOfEach(request.headers)
    /\ (\A i \in DOMAIN request.url.query : Plain(request.url.query[i][2])) =>
          ToSet(given.url.query) = LastOfEach(request.url.query)

\* WorkerRequest, Uri, Command: a script that gives back the request that it was shown sends it as it
\* was, of its headers and of its query the last of each name, where no decoded text
\* was an escaped one.
GivenBack(request) ==
    LET shown == RequestIntoJs(request)
        back == IF shown = Failed THEN Failed ELSE CommandFromJs(PrepareArgs("request", shown[1]))
    IN  /\ back = Failed <=> shown = Failed
        /\ back # Failed =>
              /\ back[1][1] = "request" /\ SameBut(request, back[1][2])
              /\ request.body # <<"bytes">> => back[1][2].body = request.body

\* WorkerResponse: and a response of the same status, with each header that is text.
AnsweredBack(response) ==
    LET back == CommandFromJs(PrepareArgs("response", ResponseIntoJs(response)))
    IN  /\ back # Failed /\ back[1][1] = "response" /\ back[1][2].status = response.status
        /\ ToSet(back[1][2].headers) =
              LastOfEach(SelectSeq(response.headers, LAMBDA h : h[2] # "unseen"))

\* Command::from_js(): whatever a script makes up, a request that it leads to is one to an http host that it
\* named, or to this one, and its answer is a status that HTTP has.
MadeUp(v) ==
    \A command \in ToSet(CommandFromJs(v)) :
        IF command[1] = "request"
        THEN LET url == command[2].url
                 uri == v[2].request[2].uri[2]
             IN  /\ url.scheme \in {"http", "https"} /\ url.path[1] = "/" /\ url.port # <<IF url.scheme = "https" THEN 443 ELSE 80>>
                 /\ Before(uri.path[2], "/") = <<>> =>
                       <<"str", url.host>> = Member(uri, "host") \/ url.host = <<"localhost">>
                 /\ command[2].method # "not a token"
        ELSE command[2].status \in 100..999 /\ "request" \notin DOMAIN v[2]

CrossesUnharmed(of) ==
    CASE of.kind = "request" -> GivenBack(of.it)
      [] of.kind = "response" -> AnsweredBack(of.it)
      [] OTHER -> MadeUp(of.it)
=============================================================================
