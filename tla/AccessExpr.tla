----------------------------- MODULE AccessExpr -----------------------------
(***************************************************************************)
(* What @protected asks for: the providers (src/core/auth,                   *)
(* blueprint/auth.rs) that verify a request's Authorization header, and the  *)
(* expression (src/core/ir/access_expr.rs), read from tokens and evaluated   *)
(* in a request.  A token is an operator, a bracket or an operand,           *)
(* <<"path", names>> or <<"literal", value>>; a value is <<"str", s>>,       *)
(* <<"num", n>> or <<"bool", b>>.  An expression is                          *)
(* <<"cmp", left, "==", right>>, <<"not", e>>, <<"and", e, f>> or            *)
(* <<"or", e, f>>.  What is read is <<>> or <<expression, rest>>.            *)
(***************************************************************************)
EXTENDS Naturals, SequencesExt

Comparisons == { <<"op", "==">>, <<"op", "!=">> }
Is(tokens, op) == tokens # <<>> /\ tokens[1] = <<"op", op>>

RECURSIVE Atom(_), And(_), Or(_), Rest(_, _)

\* parse_comparison(): an operand, == or !=, and another.
Comparison(tokens) ==
    IF /\ Len(tokens) > 2 /\ tokens[2] \in Comparisons
       /\ tokens[1][1] # "op" /\ tokens[3][1] # "op"
    THEN << <<"cmp", tokens[1], tokens[2][2], tokens[3]>>, SubSeq(tokens, 4, Len(tokens))>>
    ELSE <<>>

Closed(read) ==
    IF read # <<>> /\ Is(read[2], ")") THEN <<read[1], Tail(read[2])>> ELSE <<>>
Negated(read) == IF read = <<>> THEN <<>> ELSE << <<"not", read[1]>>, read[2]>>

\* parse_atom(): in brackets, negated, or a comparison.
Atom(tokens) ==
    IF Is(tokens, "(") THEN Closed(Or(Tail(tokens)))
    ELSE IF Is(tokens, "!") THEN Negated(Atom(Tail(tokens)))
    ELSE Comparison(tokens)

\* many0(): as many more as can be read, folded from the left; "and" binds first.
Folded(op, read, more) ==
    IF more = <<>> THEN read ELSE Rest(op, << <<op, read[1], more[1]>>, more[2]>>)
Rest(op, read) ==
    CASE read = <<>> -> <<>>
      [] op = "and" /\ Is(read[2], "&&") -> Folded(op, read, Atom(Tail(read[2])))
      [] op = "or" /\ Is(read[2], "||") -> Folded(op, read, And(Tail(read[2])))
      [] OTHER -> read

And(tokens) == Rest("and", Atom(tokens))
Or(tokens) == Rest("or", And(tokens))

\* AccessExpr::parse(): nothing may be left.
Complete(read) == IF read = <<>> \/ read[2] # <<>> THEN <<>> ELSE <<read[1]>>
Parse(tokens) == Complete(Or(tokens))

-----------------------------------------------------------------------------
\* resolve_operand(): ctx has what each path leads to, claims as they are, the rest as text.
Operand(operand, ctx) ==
    IF operand[1] = "literal" THEN <<operand[2]>>
    ELSE IF operand[2] \in DOMAIN ctx THEN <<ctx[operand[2]]>> ELSE <<>>

RECURSIVE Evaluate(_, _)
Evaluate(e, ctx) ==
    CASE e[1] = "cmp" -> (Operand(e[2], ctx) = Operand(e[4], ctx)) = (e[3] = "==")
      [] e[1] = "not" -> ~Evaluate(e[2], ctx)
      [] e[1] = "and" -> Evaluate(e[2], ctx) /\ Evaluate(e[3], ctx)
      [] e[1] = "or" -> Evaluate(e[2], ctx) \/ Evaluate(e[3], ctx)

-----------------------------------------------------------------------------
(* A provider is [kind |-> "basic", users] or [kind |-> "jwt", keys, issuer,   *)
(* audiences, optionalKid]; a request's header is <<>>, <<"Basic", user>> or   *)
(* <<"Bearer", token>>, a token <<>> when it is none, or <<[kid, algorithm,     *)
(* secret, expired, claims]>>.  <<"succeed", claims>> has <<>> or <<claims>>;  *)
(* <<"fail", n>> has the rank of the error.                                   *)
Missing == 0
Unreadable == 1
Invalid == 2

\* BasicVerifier::verify()
BasicVerify(provider, header) ==
    CASE header = <<>> -> <<"fail", Missing>>
      [] header # <<>> /\ header[1] = "Basic" /\ header[2] \in provider.users -> <<"succeed", <<>> >>
      [] OTHER -> <<"fail", Invalid>>

\* decode_with_jwk(): the key says which algorithm signs.
DecodeWith(key, token) ==
    /\ key.algorithm = <<token.algorithm>>
    /\ key.secret = token.secret
    /\ ~token.expired

\* Jwks::decode(): with the key of its name; without one, with any that fits, if that is allowed.
\* Mutated form: any key will do.
Signer_AnyKey(provider, token) == SelectSeq(provider.keys, LAMBDA key : DecodeWith(key, token)) # <<>>
Signer(provider, token) ==
    LET named == SelectSeq(provider.keys, LAMBDA key : key.kid = token.kid)
    IN  IF token.kid # <<>> THEN named # <<>> /\ DecodeWith(named[1], token)
        ELSE /\ provider.optionalKid
             /\ SelectSeq(provider.keys, LAMBDA key : DecodeWith(key, token)) # <<>>

\* validate_iss(), validate_aud()
Has(claims, name) == name \in DOMAIN claims
ValidIss(provider, claims) ==
    provider.issuer # <<>> => Has(claims, "iss") /\ <<claims.iss>> = provider.issuer
ValidAud(provider, claims) ==
    provider.audiences # {} => Has(claims, "aud") /\ claims.aud \cap provider.audiences # {}

\* JwtVerifier::verify(): what cannot be decoded is unreadable, whatever the reason.
JwtVerify(provider, header) ==
    CASE header = <<>> -> <<"fail", Missing>>
      [] header # <<>> /\ header[1] # "Bearer" -> <<"fail", Invalid>>
      [] OTHER ->
            IF header[2] = <<>> \/ ~Signer(provider, header[2][1]) THEN <<"fail", Unreadable>>
            ELSE IF ValidIss(provider, header[2][1].claims) /\ ValidAud(provider, header[2][1].claims)
            THEN <<"succeed", <<header[2][1].claims>> >>
            ELSE <<"fail", Invalid>>

\* Verification::and(), merge_claims(): the right side's claims win.
BothVerified(a, b) ==
    IF a[1] = "fail" THEN a ELSE IF b[1] = "fail" THEN b
    ELSE IF a[2] = <<>> \/ b[2] = <<>> THEN <<"succeed", a[2] \o b[2]>>
    ELSE <<"succeed", << b[2][1] @@ a[2][1] >> >>

\* Verification::or(): of two errors the higher ranks.
EitherVerified(a, b) ==
    IF a[1] = "succeed" THEN a ELSE IF b[1] = "succeed" THEN b
    ELSE <<"fail", IF a[2] > b[2] THEN a[2] ELSE b[2]>>

RECURSIVE Verify(_, _)
Verify(auth, header) ==
    CASE auth[1] = "and" -> BothVerified(Verify(auth[2], header), Verify(auth[3], header))
      [] auth[1] = "or" -> EitherVerified(Verify(auth[2], header), Verify(auth[3], header))
      [] auth[1] = "provider" ->
            IF auth[2].kind = "basic" THEN BasicVerify(auth[2], header) ELSE JwtVerify(auth[2], header)

\* Provider::from_config(), Auth::from_config(): every file that is linked, all of them at once.
Provider(kind, content) ==
    <<"provider", IF kind = "basic" THEN [kind |-> kind, users |-> content]
                  ELSE [kind |-> kind, keys |-> content, issuer |-> <<>>, audiences |-> {}, optionalKid |-> FALSE]>>
\* Mutated form: any provider will do.
FromConfig_Or(htpasswd, jwks) ==
    LET all == [i \in DOMAIN htpasswd |-> Provider("basic", htpasswd[i])]
                   \o [i \in DOMAIN jwks |-> Provider("jwt", jwks[i])]
    IN  FoldLeft(LAMBDA a, p : IF a = <<>> THEN p ELSE <<"or", a, p>>, <<>>, all)
FromConfig(htpasswd, jwks) ==
    LET all == [i \in DOMAIN htpasswd |-> Provider("basic", htpasswd[i])]
                   \o [i \in DOMAIN jwks |-> Provider("jwt", jwks[i])]
    IN  FoldLeft(LAMBDA a, p : IF a = <<>> THEN p ELSE <<"and", a, p>>, <<>>, all)

\* IR::Protect: the claims go to the request, where the expression and the templates read them.
Claimed(verified, shared) == IF verified[2] = <<>> THEN shared ELSE verified[2]
InClaims(claims, args) ==
    LET names == IF claims = <<>> THEN {} ELSE DOMAIN claims[1]
    IN  [p \in {<<"claims", n>> : n \in names} |-> claims[1][p[2]]] @@ args
Protect(auth, expr, header, shared, args) ==
    LET verified == Verify(auth, header)
    IN  IF verified[1] = "fail" THEN <<>>
        ELSE IF expr # <<>> /\ ~Evaluate(expr[1], InClaims(Claimed(verified, shared), args)) THEN <<>>
        ELSE <<Claimed(verified, shared)>>

-----------------------------------------------------------------------------
\* Two operands that the request lacks are equal; a literal never equals one it lacks.
LackingIsNoLiteral(ctx, path, literal) ==
    Evaluate(<<"cmp", <<"path", path>>, "==", <<"literal", literal>> >>, ctx) => path \in DOMAIN ctx

\* An expression as a person writes it, with the brackets it needs.
RECURSIVE Written(_)
Bracketed(e, kinds) ==
    IF e[1] \in kinds THEN << <<"op", "(">> >> \o Written(e) \o << <<"op", ")">> >> ELSE Written(e)
Written(e) ==
    CASE e[1] = "cmp" -> <<e[2], <<"op", e[3]>>, e[4]>>
      [] e[1] = "not" -> << <<"op", "!">> >> \o Bracketed(e[2], {"and", "or"})
      [] e[1] = "and" -> Bracketed(e[2], {"or"}) \o << <<"op", "&&">> >> \o Bracketed(e[3], {"and", "or"})
      [] e[1] = "or" -> Written(e[2]) \o << <<"op", "||">> >> \o Bracketed(e[3], {"or"})

Unbracketed(tokens) == SelectSeq(tokens, LAMBDA t : t \notin { <<"op", "(">>, <<"op", ")">> })

\* AccessExpr::parse(): an expression is read as it is written, and whatever
\* is read holds every token but the brackets, in order.
ReadAsWritten(e) == Parse(Written(e)) = <<e>>
NothingSkipped(tokens) ==
    LET read == Parse(tokens)
    IN  read # <<>> => Unbracketed(Written(read[1])) = Unbracketed(tokens)

(* Who a provider admits: a user of its file; whoever bears a token one of its keys signed. *)
Admits(p, header) ==
    IF p.kind = "basic" THEN header \in {<<"Basic", u>> : u \in p.users}
    ELSE /\ header # <<>> /\ header[1] = "Bearer" /\ header[2] # <<>>
         /\ \E k \in ToSet(p.keys) :
               /\ header[2][1].secret = k.secret /\ <<header[2][1].algorithm>> = k.algorithm
               /\ ~header[2][1].expired
               /\ header[2][1].kid \in {k.kid} \cup (IF p.optionalKid THEN {<<>>} ELSE {})
         /\ p.issuer \in {<<>>} \cup {<<header[2][1].claims[n]>> : n \in DOMAIN header[2][1].claims \cap {"iss"}}
         /\ \A a \in p.audiences : p.audiences \cap header[2][1].claims.aud # {}
RECURSIVE Granted(_, _)
Granted(auth, header) ==
    CASE auth[1] = "provider" -> Admits(auth[2], header)
      [] auth[1] = "and" -> Granted(auth[2], header) /\ Granted(auth[3], header)
      [] auth[1] = "or" -> Granted(auth[2], header) \/ Granted(auth[3], header)

\* AuthVerifier::verify(), IR::Protect: who is let through was admitted as the
\* providers are combined, and the claims are those of the request's own token,
\* whichever providers verified it; nobody who sent a header hears that it is missing.
LetThroughAsAsked(auth, header) ==
    /\ Granted(auth, header) <=> Verify(auth, header)[1] = "succeed"
    /\ (Verify(auth, header) = <<"fail", Missing>>) = (header = <<>>)
    /\ Granted(auth, header) =>
          Verify(auth, header)[2] = IF header[1] = "Basic" THEN <<>> ELSE <<header[2][1].claims>>
ProtectedAsAsked(auth, expr, header, shared, args) ==
    Protect(auth, expr, header, shared, args) =
        IF ~Granted(auth, header) THEN <<>>
        ELSE IF /\ expr # <<>>
                /\ ~Evaluate(expr[1], InClaims(IF header[1] = "Basic" THEN shared
                                               ELSE <<header[2][1].claims>>, args)) THEN <<>>
        ELSE <<IF header[1] = "Basic" THEN shared ELSE <<header[2][1].claims>> >>
\* Auth::from_config(): one header cannot be both of a user and of a token.
NoHeaderIsBoth(htpasswd, jwks, header) ==
    htpasswd # <<>> /\ jwks # <<>> => Verify(FromConfig(htpasswd, jwks), header)[1] = "fail"
=============================================================================
