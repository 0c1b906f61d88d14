------------------------------ MODULE MCFindings ------------------------------
(***************************************************************************)
(* Instances of Findings for TLC: small documents, pages, crawls and       *)
(* bundles that have each interesting case.                                *)
(***************************************************************************)
EXTENDS Findings, TLC

CONSTANTS Refs, RuleNames, t1, t2

(* Documents, rules and calls: paths under a base that a call leaves out,   *)
(* leaves to a variable or spells in full, and documents that have the base *)
(* in their servers or in a path.                                           *)

Endpoint(id, path, real) == [id |-> id, method |-> "GET", path |-> path, real |-> real]

Users == <<"api", "users", "{id}">>

Bare == Endpoint("tail", <<"users", "${id}">>, Users)
Full == Endpoint("full", Users, Users)
Based == Endpoint("based", <<"${base}", "users", "7">>, Users)
Twice == Endpoint("twice", <<"api", "api">>, <<"api", "api", "api">>)
Socket == [Endpoint("socket", <<"users", "7">>, Users) EXCEPT !.method = "WS"]
SomeEndpoints == {Bare, Full, Based, Twice, Socket}

SomeAssets == {
  {<<Bare, "relative">>, <<Based, "relative">>, <<Socket, "relative">>},
  {<<Bare, "absolute">>, <<Full, "relative">>, <<Twice, "relative">>},
  {<<Full, "absolute">>, <<Based, "capture">>}}

Server(path, defaults) == [path |-> path, defaults |-> defaults]
Item(path, methods) == [path |-> path, methods |-> methods]
Body(servers, paths) == [passes |-> Guards, servers |-> servers, paths |-> paths]

\* The tail of one document's path is a path of its own, for another method.
AllBodies == [
  served |-> Body({Server(<<"{v}">>, "{v}" :> "api")},
                  {Item(<<"users", "{user}">>, {"GET", "parameters"}),
                   Item(<<"api", "api">>, {"GET"})}),
  whole |-> Body({}, {Item(<<"api", "users", "{user}">>, {"GET"}),
                      Item(<<"users", "{user}">>, {"POST"})}),
  refused |-> [Body({}, {}) EXCEPT !.passes = Guards \ {"local refs"}]]
SomeBodies == [ref \in Refs |-> AllBodies[ref]]

Prefix(prefix, base) == [kind |-> "prefix", prefix |-> prefix, ids |-> {}, base |-> base]
Selection(ids, base) == [kind |-> "selection", prefix |-> << >>, ids |-> ids, base |-> base]

AllRules == [
  all    |-> Prefix(<< >>, <<"api">>),
  wrong  |-> Prefix(<<"users">>, <<"v2">>),
  picked |-> Selection({"tail", "twice"}, <<"api">>),
  based  |-> Selection({"based"}, <<"api">>)]
SomeRules == {AllRules[name] : name \in RuleNames}

TwoTasks == Permutations({t1, t2})

\* At most one of the accidents named, and the pairs of them that interact.
Only(names, all) == [n \in all |-> IF n \in names THEN 1 ELSE 0]
OneOf(sets, all) == {Only(names, all) : names \in sets}

\* A browser: two documents of a page and a worker; and the stages around it.
SomeScripts == {[target |-> "page", doc |-> 1, text |-> "a"],
            [target |-> "page", doc |-> 2, text |-> "b"],
            [target |-> "worker", doc |-> 1, text |-> "a"]}
SomeUpsets == OneOf({{"ends"}, {"moves"}, {"deaths"}}, {"ends", "moves", "deaths"})

SomeAccidents == OneOf({{"crashes", "lapses"}, {"lapses", "pauses"}, {"failures"}},
                   {"crashes", "lapses", "pauses", "failures"})

\* Tails that tie, that contain one another, and that hold a parameter.
AnySegment == "*"
Tails == {<<"a">>, <<AnySegment>>, <<"a", "a">>, <<"a", AnySegment>>, <<AnySegment, "a">>}
SomeUnplaced == [method : {"GET"}, var : BOOLEAN, tail : Tails]
  \cup {[method |-> "POST", var |-> FALSE, tail |-> <<"a">>]}
At(method, host, path) == [method |-> method, url |-> [host |-> host, path |-> path]]
SomeRequests ==
  {At("GET", "x", path) : path \in {<<"a">>, <<"b">>, <<"a", "a">>, <<"a", "b">>, <<"b", "a">>}}
  \cup {At("GET", "y", <<"a">>), At("POST", "x", <<"a">>)}

\* Chunks: the builders of a webpack runtime, from what one returns for an id.
Lit(t) == [is |-> "lit", text |-> t]
ChunkId == [is |-> "param"]
MapOf(m) == [is |-> "map", map |-> m]
Unfoldable == [is |-> "call"]
Chain(operands) == [kind |-> "chain", ops |-> operands]
Hashed == [i \in {"1", "3"} |-> IF i = "1" THEN "h1" ELSE "computed"]
Plainly == Chain(<<Lit("a"), ChunkId>>)
Chains == {Plainly, Chain(<<Lit("e"), ChunkId, MapOf(Hashed)>>),
           Chain(<<Lit("b"), Unfoldable>>), Chain(<<Lit("c"), MapOf(Hashed), ChunkId, Lit("d")>>)}
If(test, x) == [is |-> "if", test |-> test, value |-> x]
Ret(x) == [is |-> "return", value |-> x]
Tested == {"1", "2", "computed"}
Arms == UNION {[1 .. n -> {If(t, x) : t \in Tested, x \in Chains}] : n \in 1 .. 2}
  \union {<<If("1", Plainly), If("3", Plainly), If("2", Plainly)>>}
Ternaries == {[kind |-> "ternary", arms |-> a, default |-> x] : a \in Arms, x \in {Plainly}}
Blocks == {<<Ret(x)>> : x \in Chains} \union {Append(a, Ret(Plainly)) : a \in Arms}
  \union {<<[is |-> "other"], Ret(x)>> : x \in Chains}
  \union {<<If("computed", Plainly), Ret(t)>> : t \in Ternaries}
U(o, n, size, form, body) ==
  [is |-> "u", of |-> o, params |-> n, size |-> size, form |-> form, body |-> body]
Functions == {U("r", 1, s, "expr", x) : s \in {1, 2}, x \in Chains \union Ternaries}
  \union {U("r", 1, 1, "block", x) : x \in Blocks} \union {U("r", 2, 1, "expr", Plainly)}
Ensure(o, id) == [is |-> "e", of |-> o, id |-> id]
PublicPath(o, t) == [is |-> "p", of |-> o, text |-> t]
Around ==
  {<<>>, <<Ensure("r", "1"), Ensure("r", "1"), Ensure("s", "2")>>,
   <<Ensure("r", "1"), Ensure("r", "2"), Ensure("r", "3")>>,
   <<Ensure("r", "3"), Ensure("r", "computed"), PublicPath("r", "/p")>>,
   <<Ensure("r", "2"), PublicPath("s", "/q"), PublicPath("r", "computed")>>}
SomeBundles == {<<f>> \o around : f \in Functions, around \in Around}
  \union {<<U("s", 1, 1, "expr", x), f>> \o around :
            x \in {Plainly, Chain(<<ChunkId, Unfoldable>>)}, f \in Functions, around \in Around}
=============================================================================
