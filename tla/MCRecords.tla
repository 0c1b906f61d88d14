------------------------------- MODULE MCRecords -------------------------------
(***************************************************************************)
(* Instances of Records for TLC: small hosts, programs, pages, trees and   *)
(* assets that have each interesting case.                                 *)
(***************************************************************************)
EXTENDS Records, TLC

\* Sessions: hosts by their labels, one of them an address, one of them a name
\* that may resolve to an inside address.
Inner == <<"a", "x", "com">>
Other == <<"b", "com">>
Address == <<"10", "1">>
SomeHosts == {Inner, Other, Address}
NoSuffixes == {}
SomeLiterals == {Address}
SomeInside == {Inner}
SomeScopes == {{}, {Other, Address}}
SomeTargets == {Other}
NoHint == {<< >>}
SomeEdits == {Inner}
SomeRedirects == {Inner}

\* Identities: every URL of up to three segments, and pairs of call sites that
\* may come to one finding, under a build that keeps names and one that does not.
Seg(kind, name) == [k |-> kind, n |-> name]
Static == Seg("static", "a")
Segs == {Static, Seg("int", ""), Seg("uuid", ""), Seg("var", "user"), Seg("var", "e"),
         Seg("var", "f()"), Seg("mix", "e"), Seg("holder", "user"), Seg("expr", "")}
SomeNameIn == [x \in Texts |-> IF x = "f()" THEN NoName ELSE x]
SomeBuilds == {[x \in Texts |-> x],
           [x \in Texts |-> CASE x = "user" -> "e" [] x = "e" -> "t" [] OTHER -> x]}
Site(id, lane, path, keys, kind, auth) ==
  [id |-> id, lane |-> lane, method |-> "GET", path |-> path, keys |-> keys,
   kind |-> kind, auth |-> auth]
Paths == UNION {[1 .. n -> Segs] : n \in 1 .. 3}
Few == {<<Static, s>> : s \in {Seg("int", ""), Seg("uuid", ""), Seg("var", "user"),
                               Seg("var", "e"), Seg("holder", "user")}}
  \union {<<Seg("var", "e"), Static, Seg("var", "user")>>}
SomeCodes ==
  {{Site(1, lane, p, {"q", "${}"}, "fetch", {})} : lane \in {"call", "suspected"}, p \in Paths}
  \union
  {{Site(1, l1, p1, {"q"}, "fetch", {"h1"}), Site(2, l2, p2, {"q"}, kind, {"h2"})} :
     l1 \in {"call", "suspected"}, l2 \in {"call", "suspected"}, p1 \in Few, p2 \in Few,
     kind \in {"fetch", "xhr"}}

\* The page: the second URL is an inline script with two contents, the third is
\* what the second content of the first one imports.
SomeServed == [u |-> {"a", "b"}, v |-> {"a", "d"}, w |-> {"c"}]
SomeNeeds == [h \in Hashes |-> IF h = "b" THEN {"w"} ELSE {}]
TwoProcessors == Permutations(Processors)
SomeSize == [h \in Hashes |-> IF h = "d" THEN 2 ELSE 1]

\* Its requests: one of each host.
SomeKeyOf == [r \in Requests |-> <<IF r = 2 THEN "y" ELSE "x", r>>]
SomeSettings == {[hosts |-> {"x"}, bodies |-> TRUE], [hosts |-> {"x", "y"}, bodies |-> TRUE],
             [hosts |-> {"x"}, bodies |-> FALSE]}
Bound(changes, requests, deaths, failures) ==
  [changes |-> changes, requests |-> requests, deaths |-> deaths, failures |-> failures]
SomeBounds == {Bound(2, 0, 1, 0), Bound(2, 0, 0, 1), Bound(1, 2, 0, 0), Bound(0, 2, 1, 0)}

\* Routes: every way up to four of these spans nest, and what stands there.
Spans == {<<0, 7>>, <<0, 4>>, <<0, 1>>, <<3, 4>>, <<6, 7>>, <<9, 10>>}
Nests(s, t) == t[1] <= s[1] /\ s[2] <= t[2]
Laminar(S) == \A s, t \in S : Nests(s, t) \/ Nests(t, s) \/ s[2] < t[1] \/ t[2] < s[1]
Families == {S \in UNION {kSubset(n, Spans) : n \in 1 .. 4} : Laminar(S)}
What == {[text |-> "call", recorded |-> TRUE], [text |-> "relative", recorded |-> FALSE]}
  \union [text : {"route"}, recorded : BOOLEAN]
  \union {[text |-> "denied", recorded |-> FALSE]}
Units == UNION {[S -> What] : S \in Families}
SomeTrees == Units

\* Reveals: assets whose texts differ from their bytes, with and without a map.
Original == <<"other", "bad", "key", "quote", "key">>
Minified == <<";", "bad", ";", "key">>
Named(path, text) == [f \in {path} |-> text]
Scanned(text, map, files) == [code |-> text, map |-> map, files |-> files]
SomeRevealed == [{1, 2} ->
  {Scanned(<<"bad", "quote", "key", "key">>, "none", <<>>),
   Scanned(<<"bad", "encoded", "key">>, "none", <<>>),
   Scanned(<<"encoded", "other">>, "stored", Named("src/api.ts", Original)),
   Scanned(<<"other", "key">>, "stored", Named("src/api.ts", Minified)),
   Scanned(<<"key", "other">>, "inline", Named("src/api.ts", Minified)),
   Scanned(<<"key", "bad", "other">>, "stored", Named("input.js", Original))}]

\* Modules: what one file gives under the name x, and what another takes.
SomeCandidates == [m |-> <<"m", "m/index">>, chunk |-> <<"/chunk.js", "/chunk.js.js">>]

Value == [a |-> <<"/a">>, b |-> <<"/b">>, u |-> <<"http://u">>, x |-> <<"x">>]
Bind(m, n, how, expr, public) ==
  [is |-> "bind", mod |-> m, name |-> n, how |-> how, expr |-> expr, public |-> public]
Const(m, n, expr) == Bind(m, n, "const", expr, FALSE)
Public(expr) == Bind(0, "x", "const", expr, TRUE)
Assign(expr) == Bind(0, "x", "assign", expr, FALSE)
Local(m, n) == Bind(m, n, "param", <<>>, FALSE)
Object(expr) == [is |-> "bind", mod |-> 0, name |-> "o", how |-> "object", pairs |-> "o.x" :> expr]
SetTo(expr) == [is |-> "set", mod |-> 0, name |-> "o.x", expr |-> expr]
Taken(m, n, how, from) ==
  [is |-> "bind", mod |-> m, name |-> n, how |-> how, from |-> from, as |-> "x"]
Export(m, n) == [is |-> "export", mod |-> m, name |-> n, as |-> "x"]
Call(m, expr) == [is |-> "call", mod |-> m, expr |-> expr]
Import(from) == Taken(0, "x", "import", from)

Givers ==
  {<<Public(Value.a)>>, <<Public(Value.a), Assign(Value.b)>>,
   <<Const(0, "y", Value.a), Const(0, "x", <<"y", "/b">>), Export(0, "x")>>,
   <<Const(0, "x", Value.a), Local(0, "x"), Export(0, "x")>>}
Takers(from) ==
  {<<Import(from), Call(0, Value.x)>>,
   <<Import(from), Local(0, "x"), Call(0, Value.x)>>,
   <<Import(from), Const(0, "y", <<"x", "/b">>), Call(0, <<"x", "/b">>)>>,
   <<Const(0, "x", Value.u), Call(0, <<"x", "/a">>)>>,
   <<Const(0, "x", Value.u), Const(0, "y", <<"x", "/a">>), Call(0, Value.a)>>,
   <<Const(0, "x", Value.a), Call(0, Value.x), Call(0, Value.b), Assign(Value.b)>>,
   <<Const(0, "x", Value.u), Object(<<"x", "/a">>), Call(0, <<"o.x", "/b">>)>>,
   <<Object(Value.u), Call(0, <<"o.x", "/a">>), SetTo(Value.b)>>,
   <<Object(Value.u), Call(0, <<"o.x">>), Call(0, Value.b), Local(0, "o")>>}

Asset(url, map, engine, of, webpack, files, bundle) ==
  [url |-> url, map |-> map, engine |-> engine, build |-> of, webpack |-> webpack,
   files |-> files, bundle |-> bundle]
File(path, unit) == [path |-> path, unit |-> unit]
Mapped(url, of, engine, files) ==
  Asset(url, "stored", engine, of, FALSE, files, <<>>)
Plain(url, of, webpack, bundle) ==
  Asset(url, "none", "recovers", of, webpack, <<>>, bundle)

\* Originals of one map or of two, one of them cut off by the write budget.
Recovering ==
  {<<Mapped("/one.js", 1, e, <<File("t", t), File("q", <<>>), File("m", g)>>)>> :
     e \in {"recovers", "malformed"}, g \in Givers, t \in Takers("m")}
  \union
  {<<Mapped("/one.js", 1, "recovers", <<File("t", t)>>),
     Mapped("/two.js", 1, "recovers", <<File(k, g)>>)>> :
     g \in Givers, t \in Takers("m"), k \in {"m", "m/index"}}

\* A bundle that imports another, which may have a map that fails.
Bundled ==
  {<<Asset("/chunk.js", m, e, 1, FALSE, IF e = "recovers" THEN <<>> ELSE <<File("q", <<>>)>>, g),
     Plain("/two.js", 1, FALSE, t)>> :
     m \in {"none", "stored"}, e \in {"recovers", "malformed"},
     g \in Givers, t \in Takers("chunk")}

\* Two builds that both have a file m, beside an importer of the first.
TwoBuilds ==
  {<<Mapped("/one.js", 1, "recovers", <<File("m", <<Public(Value.a)>>), File("t", t)>>),
     Mapped("/two.js", 2, "recovers", <<File("m", <<Public(Value.b)>>)>>)>> : t \in Takers("m")}

\* Webpack chunks: two builds with a module 1, which module 2 requires.
Gives(text) == <<Const(1, "k", <<text>>), Export(1, "k")>>
Require(id) == Taken(2, "r", "require", id)
Chunks ==
  {<<Require(1), Call(2, <<"r">>)>>,
   <<Require(1), Local(2, "r"), Call(2, <<"r">>)>>,
   <<Require(1), Require(3), Call(2, <<"r">>)>>,
   <<Require(1), Const(3, "r", Value.b), Call(2, <<"r">>), Call(3, <<"r">>)>>}
Webpack ==
  {<<Plain("/one.js", 1, TRUE, Gives("/a")), Plain("/two.js", 2, TRUE, Gives("/b")),
     Plain("/three.js", b, TRUE, c)>> : b \in {1, 2, 3}, c \in Chunks}

SomeCrawls == Recovering \union Bundled \union TwoBuilds \union Webpack
================================================================================
