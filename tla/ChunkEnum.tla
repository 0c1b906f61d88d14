------------------------------ MODULE ChunkEnum ------------------------------
(***************************************************************************)
(* How the fetch stage learns the URLs of a webpack bundle's lazy chunks   *)
(* without running it (findings/chunkenum.py): it finds the function the   *)
(* runtime builds a chunk's URL with, <require>.u, folds it for each chunk *)
(* id the bundle names, and puts the public path, <require>.p, before it.  *)
(*                                                                         *)
(* A bundle is the sequence of its nodes that matter, in the order of the  *)
(* walk.  A text is a value; a URL is the sequence of the texts that are   *)
(* put together.  Computed stands for a value the bundle computes.  Which  *)
(* URLs are added before there are too many is left open.                  *)
(***************************************************************************)
EXTENDS Integers, Sequences, FiniteSets

CONSTANTS
  Bundles,      \* the bundles
  MaxUrls,      \* max_urls
  MaxUrlLen,    \* max_url_len, in texts
  MaxFold,      \* _MAX_FOLD_DEPTH: the operands of a chain
  MaxArms,      \* _MAX_COND_ARMS
  MaxTemplate,  \* _MAX_URL_SPAN: the size of a template builder
  MaxBody       \* _MAX_COND_BODY_SPAN: the size of a conditional builder

VARIABLES
  bundle,  \* the source of one asset
  phase,   \* "parse", "fold", or "done"
  todo,    \* the URLs the builder folds to, still to be looked at
  urls     \* the URLs enumerated

cvars == <<bundle, phase, todo, urls>>

Computed == "computed"
NoUrl == <<>>
-----------------------------------------------------------------------------
(* The nodes, of names the require alias of which is one:                    *)
(*   [is |-> "u", of, params, size, form, body]   <of>.u = function;          *)
(*   [is |-> "e", of, id]                         <of>.e(id);                 *)
(*   [is |-> "p", of, text]                       <of>.p = text.              *)
(* The body of form "expr" is an expression, that of form "block" a sequence  *)
(* of [is |-> "return", value], [is |-> "if", test, value] and                *)
(* [is |-> "other"]; a test is the id it compares the parameter with.         *)
(* An expression is [kind |-> "chain", ops], a +-chain of operands, or        *)
(* [kind |-> "ternary", arms, default], whose arms are as the ifs of a block. *)

Nodes(b, kind, o) == {i \in DOMAIN b : b[i].is = kind /\ b[i].of = o}
Least(S) == CHOOSE i \in S : \A j \in S : i <= j
Greatest(S) == CHOOSE i \in S : \A j \in S : i >= j

\* _string_object: the entries of a map whose values are literals.
StaticKeys(op) == {k \in DOMAIN op.map : op.map[k] # Computed}

\* _fold_into: literals, the parameter, and a map at the parameter.
Foldable(x) ==
  /\ x.kind = "chain" /\ Len(x.ops) <= MaxFold
  /\ \A i \in DOMAIN x.ops : x.ops[i].is \in {"lit", "param", "map"}

\* _fold: an id that a map does not give is skipped.
Fold(x, id) ==
  IF \E i \in DOMAIN x.ops : x.ops[i].is = "map" /\ id \notin StaticKeys(x.ops[i])
  THEN NoUrl
  ELSE [i \in DOMAIN x.ops |->
          CASE x.ops[i].is = "lit" -> x.ops[i].text
            [] x.ops[i].is = "param" -> id
            [] OTHER -> x.ops[i].map[id]]

\* _find_public_path: the first one that is a literal.
PublicPath(b, o) ==
  LET literal == {i \in Nodes(b, "p", o) : b[i].text # Computed}
  IN  IF literal = {} THEN NoUrl ELSE <<b[Least(literal)].text>>
-----------------------------------------------------------------------------
(* A builder that is one template for every id.                              *)

\* Mutant: a block is taken for the first value it returns.
CollapseAny(fn) ==
  IF fn.form = "expr" THEN {fn.body}
  ELSE LET returns == {i \in DOMAIN fn.body : fn.body[i].is = "return"}
       IN  IF returns = {} THEN {} ELSE {fn.body[Least(returns)].value}

\* _as_builder_fn: the expression a function returns, if that is all it does.
Collapse(fn) ==
  IF fn.form = "expr" THEN {fn.body}
  ELSE {fn.body[i].value : i \in {j \in DOMAIN fn.body : Len(fn.body) = 1 /\ fn.body[j].is = "return"}}

Builders(b) == {i \in DOMAIN b : b[i].is = "u" /\ b[i].params = 1}

\* _find_u_builder: the first one that folds.
Templates(b) ==
  {i \in Builders(b) : b[i].size <= MaxTemplate /\ \E x \in Collapse(b[i]) : Foldable(x)}

\* _collect_chunk_ids: those the alias is called with and those of the maps.
ChunkIds(b, o, x) ==
  ({b[i].id : i \in Nodes(b, "e", o)}
    \union UNION {StaticKeys(x.ops[i]) : i \in {j \in DOMAIN x.ops : x.ops[j].is = "map"}})
  \ {Computed}

\* enumerate_chunk_urls
FromTemplate(b) ==
  LET u == b[Least(Templates(b))]
      x == CHOOSE y \in Collapse(u) : TRUE
      folding == {id \in ChunkIds(b, u.of, x) : Fold(x, id) # NoUrl}
  IN  {PublicPath(b, u.of) \o Fold(x, id) : id \in folding}
-----------------------------------------------------------------------------
(* A builder with an arm for each id.                                        *)

\* _fold_conditional_chain, _fold_if_chain: of the first arms, those that name an
\* id and fold; the default is of no id and is dropped.
FoldArms(steps) ==
  LET arms == {i \in DOMAIN steps : steps[i].is = "if"}
      first == {i \in arms : Cardinality({j \in arms : j <= i}) <= MaxArms}
      named == {i \in first : steps[i].test # Computed /\ Foldable(steps[i].value)}
  IN  {Fold(steps[i].value, steps[i].test) : i \in named} \ {NoUrl}

Ternary(x) == IF x.kind = "ternary" THEN FoldArms(x.arms) ELSE {}

IfChain(block) ==
  LET returns == {i \in DOMAIN block : block[i].is = "return"}
      ifs == FoldArms(block)
  IN  IF ifs # {} \/ returns = {} THEN ifs ELSE Ternary(block[Least(returns)].value)

\* _find_u_fn_raw, _enumerate_conditional
FromArms(b) ==
  IF Builders(b) = {} THEN {}
  ELSE LET u == b[Least(Builders(b))]
           arms == IF u.form = "expr" THEN Ternary(u.body) ELSE IfChain(u.body)
       IN  IF u.size > MaxBody THEN {} ELSE {PublicPath(b, u.of) \o arm : arm \in arms}
-----------------------------------------------------------------------------
Init ==
  /\ bundle \in Bundles
  /\ phase = "parse" /\ todo = {} /\ urls = {}

FoldTemplate ==
  /\ phase = "parse" /\ Templates(bundle) # {}
  /\ todo' = FromTemplate(bundle)
  /\ phase' = "fold"
  /\ UNCHANGED <<bundle, urls>>

FoldConditional ==
  /\ phase = "parse" /\ Templates(bundle) = {}
  /\ todo' = FromArms(bundle)
  /\ phase' = "fold"
  /\ UNCHANGED <<bundle, urls>>

Room == Cardinality(urls) < MaxUrls

AddUrl(url) ==
  /\ phase = "fold" /\ Room /\ Len(url) <= MaxUrlLen
  /\ urls' = urls \union {url}
  /\ todo' = todo \ {url}
  /\ UNCHANGED <<bundle, phase>>

PassUrl(url) ==
  /\ phase = "fold" /\ Room /\ Len(url) > MaxUrlLen
  /\ todo' = todo \ {url}
  /\ UNCHANGED <<bundle, phase, urls>>

Done ==
  /\ phase = "fold" /\ (todo = {} \/ ~Room)
  /\ phase' = "done"
  /\ UNCHANGED <<bundle, todo, urls>>

Next ==
  \/ FoldTemplate
  \/ FoldConditional
  \/ \E url \in todo : AddUrl(url) \/ PassUrl(url)
  \/ Done

Spec == Init /\ [][Next]_cvars
-----------------------------------------------------------------------------
(* What the bundle does when it is run.                                      *)

\* The value of an expression: an id a map does not have gives "undefined".
Value(x, id) ==
  [i \in DOMAIN x.ops |->
     CASE x.ops[i].is = "lit" -> x.ops[i].text
       [] x.ops[i].is = "param" -> id
       [] x.ops[i].is = "map" -> IF id \in DOMAIN x.ops[i].map THEN x.ops[i].map[id] ELSE "undefined"
       [] OTHER -> Computed]

\* Statements run in order; one that is neither may return or not, and a test
\* that does not compare the parameter may go either way.
Reached(steps, k, id) ==
  /\ \A j \in 1 .. k - 1 : steps[j].is = "other" \/ (steps[j].is = "if" /\ steps[j].test # id)
  /\ \/ steps[k].is = "return"
     \/ steps[k].is = "if" /\ steps[k].test \in {id, Computed}

Returned(steps, id) == {steps[k].value : k \in {j \in DOMAIN steps : Reached(steps, j, id)}}

Return(x) == [is |-> "return", value |-> x]

\* The chains an expression may come to.
Chosen(x, id) == IF x.kind = "chain" THEN {x} ELSE Returned(Append(x.arms, Return(x.default)), id)

RuntimeUrls(b, o, id) ==
  LET u == b[Greatest(Nodes(b, "u", o))]
      last == {i \in Nodes(b, "p", o) : b[i].text # Computed /\ i = Greatest(Nodes(b, "p", o))}
      path == IF last = {} THEN NoUrl ELSE <<b[Least(last)].text>>
      steps == IF u.form = "expr" THEN <<Return(u.body)>> ELSE u.body
  IN  {path \o Value(y, id) : y \in UNION {Chosen(x, id) : x \in Returned(steps, id)}}

\* The ids a bundle names to a builder: those it is asked for, and those it has
\* an entry or an arm for.
NamedIn(x) ==
  IF x.kind = "ternary" THEN {x.arms[i].test : i \in DOMAIN x.arms}
  ELSE UNION {DOMAIN x.ops[i].map : i \in {j \in DOMAIN x.ops : x.ops[j].is = "map"}}

NamedIds(b, o) ==
  LET u == b[Greatest(Nodes(b, "u", o))]
      Of(s) == CASE s.is = "if" -> {s.test} [] s.is = "return" -> NamedIn(s.value) [] OTHER -> {}
  IN  {b[i].id : i \in Nodes(b, "e", o)}
      \union (IF u.form = "expr" THEN NamedIn(u.body) ELSE UNION {Of(u.body[i]) : i \in DOMAIN u.body})

\* What webpack writes: an alias has one builder and one public path, and a
\* builder one arm for an id and nothing after what it returns.
OneArmEach(arms) ==
  \A i, j \in DOMAIN arms :
    arms[i].is = "if" /\ arms[j].is = "if" /\ arms[i].test = arms[j].test => i = j \/ arms[i].test = Computed

OneEach(x) == x.kind = "chain" \/ OneArmEach(x.arms)

\* Of the ifs of a block and the ternary it returns.
OneOfBoth(block, x) ==
  x.kind = "chain" \/ \A i \in DOMAIN block, j \in DOMAIN x.arms :
    block[i].is = "if" /\ block[i].test = x.arms[j].test => block[i].test = Computed

AsWebpackWrites(b) ==
  /\ \A i, j \in DOMAIN b : b[i].is = b[j].is /\ b[i].of = b[j].of /\ b[i].is # "e" => i = j
  /\ \A i \in DOMAIN b : b[i].is = "u" =>
       IF b[i].form = "expr" THEN OneEach(b[i].body)
       ELSE /\ OneArmEach(b[i].body)
            /\ \A j \in DOMAIN b[i].body : b[i].body[j].is = "return" =>
                 /\ j = Len(b[i].body)
                 /\ OneEach(b[i].body[j].value) /\ OneOfBoth(b[i].body, b[i].body[j].value)

\* What a parse gives.
Listed(s) == s \in Seq({s[i] : i \in DOMAIN s})
IsExpression(x) ==
  /\ x.kind \in {"chain", "ternary"}
  /\ x.kind = "ternary" => Listed(x.arms) /\ \A i \in DOMAIN x.arms : x.arms[i].is = "if"
IsBlock(steps) ==
  /\ Listed(steps)
  /\ \A i \in DOMAIN steps :
       /\ steps[i].is \in {"return", "if", "other"}
       /\ steps[i].is = "return" => IsExpression(steps[i].value)

EnumConstants ==
  /\ MaxUrls \in Nat /\ MaxUrlLen \in Nat /\ MaxFold \in Nat /\ MaxArms \in Nat
  /\ MaxTemplate \in Nat /\ MaxBody \in Nat
  /\ Bundles # {}
  /\ \A b \in Bundles : Listed(b) /\ \A i \in DOMAIN b :
       /\ b[i].is \in {"u", "e", "p"}
       /\ b[i].is = "u" => IF b[i].form = "expr" THEN IsExpression(b[i].body) ELSE IsBlock(b[i].body)

\* No URL is invented: what is enumerated of a bundle as webpack writes them is
\* a URL its own code builds for an id it names, whatever the builder looks
\* like, and relative to the bundle where the public path is computed.
NeverInvented ==
  AsWebpackWrites(bundle) =>
    \A url \in urls :
      \E i \in DOMAIN bundle : bundle[i].is = "u" /\
        \E id \in NamedIds(bundle, bundle[i].of) \ {Computed} : url \in RuntimeUrls(bundle, bundle[i].of, id)
==============================================================================
