------------------------------- MODULE MCGateway -------------------------------
(***************************************************************************)
(* Gateway for model checking: the requests on a bucket, and policies and  *)
(* CORS rules that tell them apart.                                        *)
(***************************************************************************)
EXTENDS Gateway

CONSTANT User

Own == Signed("header", User)
URL == Signed("query", User)

R(method, key, query, auth, arg) ==
  [internal |-> FALSE, method |-> method, bucket |-> TRUE, key |-> key, query |-> query,
   auth |-> auth, arg |-> arg]

Statement(effect, actions) ==
  [effect |-> effect, principals |-> {Everybody}, actions |-> actions, resources |-> {Anything}]

\* Nothing is read; for the rest, everybody is allowed.
NoReading == {Statement("deny", {Beginning(<<"s3:", "Get", "Object">>)}), Statement("allow", {Anything})}

Site    == <<"https://", "site">>
OneSite == {[origins |-> {Exactly(Site)}, methods |-> {Exactly(<<"GET">>)}, headers |-> {}]}

MCMenu ==
  {[R("GET", FALSE, {}, Unsigned, None) EXCEPT !.internal = TRUE],
   R("PATCH", TRUE, {}, Own, None),
   R("PUT", FALSE, {}, Own, None),
   R("DELETE", FALSE, {}, Own, None),
   R("PUT", FALSE, {"policy"}, Own, NoReading),
   R("PUT", FALSE, {"policy"}, Own, NullDocument),
   R("DELETE", FALSE, {"policy"}, Own, None),
   R("PUT", FALSE, {"versioning"}, Own, "Enabled"),
   R("PUT", FALSE, {"cors"}, Own, OneSite),
   R("PUT", FALSE, {"cors"}, Own, Malformed),
   R("OPTIONS", TRUE, {}, Unsigned, [origin |-> Site, method |-> <<"GET">>, headers |-> {}]),
   R("GET", FALSE, {"policy"}, Own, None),
   R("GET", TRUE, {}, Unsigned, None),
   R("GET", TRUE, {}, URL, None),
   R("GET", TRUE, {}, [URL EXCEPT !.expired = TRUE], None),
   R("PUT", TRUE, {}, Own, None),
   R("PUT", TRUE, {}, Own, "wrong digest"),
   R("DELETE", TRUE, {}, Own, None)}

\* The requests are of those that Denies and Allows can read.
ASSUME MenuAssumption == Plain(MCMenu)
=============================================================================
