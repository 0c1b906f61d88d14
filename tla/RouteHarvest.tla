----------------------------- MODULE RouteHarvest -----------------------------
(***************************************************************************)
(* The second pass of an extract: the absolute URLs a unit builds away     *)
(* from any sink (findings/extract.py, _harvest_routes).  The walk visits  *)
(* the nodes in preorder and decides with two numbers, a pointer into the  *)
(* merged spans of what the first pass recorded and the end of the last    *)
(* builder taken.                                                          *)
(*                                                                         *)
(* A node is its span of bytes.  Spans nest or are apart: two siblings     *)
(* have a byte between them, a first operand begins where its parent does. *)
(***************************************************************************)
EXTENDS Integers, Sequences, FiniteSets, SequencesExt

CONSTANTS
  MaxSpan,    \* _MAX_HARVEST_SPAN
  MaxNodes,   \* _MAX_AST_NODES: the nodes the two passes look at
  Trees       \* the units: from the span of a node, what it is

VARIABLES
  tree,      \* the unit
  order,     \* its spans in preorder, as far as the budget goes
  claimed,   \* the merged spans of the recorded sinks and routes
  next,      \* the place of the next node in order
  claimAt,   \* claim_at
  lastEnd,   \* last_harvest_end
  taken      \* the builders harvested

hvars == <<tree, order, claimed, next, claimAt, lastEnd, taken>>

\* What a node may be: a call, or a builder by what its text comes to; and
\* whether the first pass recorded a row with its span.
Forms == {"call", "relative", "denied", "shapeless", "route", "api"}
-----------------------------------------------------------------------------
Within(s, t) == t[1] <= s[1] /\ s[2] <= t[2]
Before(s, t) == s[1] < t[1] \/ (s[1] = t[1] /\ s[2] > t[2])

\* A set in order: the i-th has i - 1 before it.
Sorted(S, op(_, _)) ==
  [i \in 1 .. Cardinality(S) |-> CHOOSE s \in S : Cardinality({t \in S : op(t, s)}) = i - 1]

\* _walk: a node before what it contains, and those by where they begin.
Preorder(spans) == Sorted(spans, Before)
Seen(t) == LET all == Preorder(DOMAIN t)
           IN  SubSeq(all, 1, IF Len(all) < MaxNodes THEN Len(all) ELSE MaxNodes)

\* Mutant: two spans become one that ends where the second does.
ExtendEnds(m, s) ==
  IF m # <<>> /\ s[1] <= Last(m)[2] THEN [m EXCEPT ![Len(m)][2] = s[2]] ELSE Append(m, s)

\* The last span takes in one that overlaps or touches it.
Extend(m, s) ==
  IF m # <<>> /\ s[1] <= Last(m)[2]
  THEN [m EXCEPT ![Len(m)][2] = IF @ > s[2] THEN @ ELSE s[2]]
  ELSE Append(m, s)

\* _merge_spans: overlapping or touching spans become one.
Earlier(s, t) == s[1] < t[1] \/ (s[1] = t[1] /\ s[2] < t[2])
MergeSpans(spans) ==
  LET ordered == Sorted(spans, Earlier)
      merged[k \in 0 .. Len(ordered)] ==
        IF k = 0 THEN <<>> ELSE Extend(merged[k - 1], ordered[k])
  IN  merged[Len(ordered)]

Recorded(t) == {s \in Range(Seen(t)) : t[s].recorded}

Init ==
  /\ tree \in Trees
  /\ order = Seen(tree)
  /\ claimed = MergeSpans(Recorded(tree))
  /\ next = 1 /\ claimAt = 1 /\ lastEnd = -1
  /\ taken = {}
-----------------------------------------------------------------------------
\* The pointer after the spans that end before this node begins.
Advance(s) ==
  CHOOSE k \in claimAt .. Len(claimed) + 1 :
    /\ \A j \in claimAt .. k - 1 : claimed[j][2] < s[1]
    /\ k <= Len(claimed) => claimed[k][2] >= s[1]

Claimed(s) == Advance(s) <= Len(claimed) /\ Within(s, claimed[Advance(s)])

\* _MAX_HARVEST_SPAN and the kinds of node that build a string.
Builder(s) == tree[s].text # "call" /\ s[2] - s[1] <= MaxSpan

Open(s) == Builder(s) /\ ~Claimed(s) /\ s[1] >= lastEnd

Visit(s) ==
  /\ next <= Len(order) /\ s = order[next]
  /\ next' = next + 1
  /\ claimAt' = (IF Builder(s) THEN Advance(s) ELSE claimAt)
  /\ UNCHANGED <<tree, order, claimed>>

\* A builder that is open and not absolute, or has no shape of a route, is
\* passed by, and what it contains is looked at in its turn.
PassBy(s) ==
  /\ Visit(s)
  /\ Open(s) => tree[s].text \in {"relative", "shapeless"}
  /\ UNCHANGED <<lastEnd, taken>>

\* Boilerplate is dropped with everything inside it.
Deny(s) ==
  /\ Visit(s) /\ Open(s) /\ tree[s].text = "denied"
  /\ lastEnd' = s[2]
  /\ UNCHANGED taken

Harvest(s) ==
  /\ Visit(s) /\ Open(s) /\ tree[s].text \in {"route", "api"}
  /\ lastEnd' = s[2]
  /\ taken' = taken \cup {s}

Next == \E s \in DOMAIN tree : PassBy(s) \/ Deny(s) \/ Harvest(s)

Spec == Init /\ [][Next]_hvars
-----------------------------------------------------------------------------
(* The harvest as one would define it, by the nodes around a node.         *)

Eligible(s) == s \in Range(order) /\ Builder(s) /\ \A t \in Recorded(tree) : ~Within(s, t)
Closes(s) == Eligible(s) /\ tree[s].text \in {"denied", "route", "api"}
Outermost(s) == Closes(s) /\ \A t \in DOMAIN tree \ {s} : Closes(t) => ~Within(s, t)

HarvestConstants ==
  /\ MaxSpan \in Nat /\ MaxNodes \in Nat
  /\ \A t \in Trees : IsFiniteSet(DOMAIN t) /\ DOMAIN t \subseteq Nat \X Nat
  /\ \A t \in Trees : \A s \in DOMAIN t :
       /\ s[1] < s[2] /\ t[s].text \in Forms /\ t[s].recorded \in BOOLEAN
       /\ \A r \in DOMAIN t : Within(s, r) \/ Within(r, s) \/ s[2] < r[1] \/ r[2] < s[1]

\* What is harvested is every URL builder that stands outside each recorded
\* sink and is not part of a larger builder, harvested or dropped: none is
\* lost, none is reported twice in part and in whole, and no piece of a
\* dropped one leaks, although the walk keeps no more than two numbers.
HarvestIsOutermost ==
  taken = {s \in Range(SubSeq(order, 1, next - 1)) : Outermost(s) /\ tree[s].text # "denied"}
==============================================================================
