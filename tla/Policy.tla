------------------------------- MODULE Policy -------------------------------
(***************************************************************************)
(* Signatures (src/src/auth/sigv4.js), bucket policies                     *)
(* (src/src/auth/policy.js) and CORS rules (src/src/util/cors.js): whether *)
(* a request is allowed.                                                   *)
(*                                                                         *)
(* Actions, resources, origins and header names are sequences of tokens,   *)
(* of which a pattern gives the beginning, the end, or all.  Upper and     *)
(* lower case, which the code evens out, are the same token.               *)
(***************************************************************************)
EXTENDS Sequences, SequencesExt

CONSTANTS Nobody,        \* the principal of a request without a signature
          NullDocument   \* the policy "null", which is JSON and no object

\* How a request is signed: in the header "authorization", which is looked at first,
\* in the query (a presigned URL), or not at all; whether the credential is well
\* formed, its time is over, whose key it names, and whether the signature is the
\* one of the request as the server puts it into canonical form.
Unsigned        == [form |-> "none"]
Signed(form, k) == [form |-> form, wellFormed |-> TRUE, expired |-> FALSE, key |-> k, genuine |-> TRUE]

Accepted(principal) == [error |-> "none", principal |-> principal]
Denied(error)       == [error |-> error, principal |-> Nobody]

\* verifyRequest, verifyHeaderAuth and verifyQueryAuth, in the order of their tests;
\* the time counts in a presigned URL only.
VerifyRequest(a, users, anonymous) ==
  IF a.form = "none" THEN IF anonymous THEN Accepted(Nobody) ELSE Denied("AccessDenied")
  ELSE IF ~ a.wellFormed THEN Denied("AuthorizationMalformed")
  ELSE IF a.form = "query" /\ a.expired THEN Denied("AccessDenied")
  ELSE IF a.key \notin users THEN Denied("InvalidAccessKeyId")
  ELSE IF ~ a.genuine THEN Denied("SignatureDoesNotMatch")
  ELSE Accepted(a.key)

-----------------------------------------------------------------------------
\* A pattern without "*", with one at its end, or with one inside (origins).
Exactly(t)     == [head |-> t, star |-> FALSE, tail |-> <<>>]
Beginning(t)   == [head |-> t, star |-> TRUE, tail |-> <<>>]
Anything       == Beginning(<<>>)
Between(t, u)  == [head |-> t, star |-> TRUE, tail |-> u]

\* matchAction, matchResource, wildcardMatch.
Matches(p, t) ==
  IF ~ p.star THEN t = p.head
  ELSE /\ IsPrefix(p.head, t) /\ IsSuffix(p.tail, t)
       /\ Len(p.head) + Len(p.tail) <= Len(t)

-----------------------------------------------------------------------------
\* A principal: "*", an access key, an ARN that ends with one, or what stands
\* under "AWS" when that is a list of keys and ARNs.
Everybody  == [form |-> "any", names |-> <<>>]
Key(k)     == [form |-> "key", names |-> <<[arn |-> FALSE, key |-> k]>>]
Arn(k)     == [form |-> "key", names |-> <<[arn |-> TRUE, key |-> k]>>]
AwsList(s) == [form |-> "list", names |-> s]

\* matchPrincipal.  A list is turned into one string, its entries joined by
\* commas, of which only the end is compared: that of an ARN, or a lone key.
MatchPrincipal(p, principal) ==
  \/ p.form = "any"
  \/ /\ p.names # <<>> /\ Last(p.names).key = principal
     /\ Last(p.names).arn \/ Len(p.names) = 1

\* stmtMatches; matchPatterns finds no match for a value that is null.
StmtMatches(s, principal, action, resource) ==
  /\ principal # Nobody
  /\ \E p \in s.principals : MatchPrincipal(p, principal)
  /\ \E p \in s.actions : Matches(p, action)
  /\ \E p \in s.resources : Matches(p, resource)

\* evaluatePolicy.  A policy is a set of statements, for a matching Deny decides
\* wherever it stands; "throws" is a TypeError.
EvaluatePolicy(policy, principal, action, resource) ==
  LET hits == {s \in policy : s.effect \in {"allow", "deny"} /\ StmtMatches(s, principal, action, resource)}
  IN  IF policy = NullDocument THEN "throws"
      ELSE IF \E s \in hits : s.effect = "deny" THEN "deny"
      ELSE IF hits # {} \/ principal # Nobody THEN "allow"
      ELSE "deny"

-----------------------------------------------------------------------------
AnyMatches(patterns, value) == value # <<>> /\ \E p \in patterns : Matches(p, value)

\* matchCorsRule, for a preflight: a rule applies.
CorsAllows(rules, origin, method, headers) ==
  \E r \in rules : /\ AnyMatches(r.origins, origin)
                   /\ AnyMatches(r.methods, method)
                   /\ \A h \in headers : AnyMatches(r.headers, h)
=============================================================================
