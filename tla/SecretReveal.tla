---------------------------- MODULE SecretReveal ----------------------------
(***************************************************************************)
(* Secrets that are never stored (findings/analyze.py, probe/reveal.py).   *)
(*                                                                         *)
(* The analyze stage scans each asset's code and the originals its source  *)
(* map recovers, and keeps of a secret its hash and the place of its       *)
(* characters.  A reveal reads the stored code or map again, rebuilds the  *)
(* text that was scanned, takes the characters at that place and compares  *)
(* their hash with the finding before it shows them.  The two sides meet   *)
(* only if both decode, recover and beautify alike.                        *)
(***************************************************************************)
EXTENDS Integers, Sequences, FiniteSets, SequencesExt

CONSTANTS
  Crawls,       \* the assets of a run: [name -> [code, map, files]]
  MaxReveals,   \* attempts to reveal
  MaxFaults     \* objects lost, and calls the store or the database fails

\* What a text is made of: a secret, a secret as the text encodes it, a quote,
\* a semicolon, a byte that is no UTF-8, and anything else.
Characters == {"key", "encoded", "quote", ";", "bad", "other"}

RevealConstants ==
  /\ MaxReveals \in Nat /\ MaxFaults \in Nat
  /\ \A c \in Crawls : \A a \in DOMAIN c :
       /\ c[a].map \in {"none", "inline", "stored"}
       /\ c[a].map = "none" => DOMAIN c[a].files = {}
       /\ c[a].code \in Seq(Characters)
       /\ \A f \in DOMAIN c[a].files : c[a].files[f] \in Seq(Characters)

VARIABLES
  crawl,      \* the assets of this run
  rows,       \* occurrences of secrets recorded so far
  done,       \* assets analysed
  gone,       \* objects the store has lost: code and maps
  call,       \* the attempt under way
  audit,      \* audit rows committed, oldest first
  answers,    \* what callers were told, oldest first
  faults      \* faults so far

rvars == <<crawl, rows, done, gone, call, audit, answers, faults>>

-----------------------------------------------------------------------------
(* The texts *)

\* A byte that is no UTF-8 becomes a replacement character, of three bytes.
Decoded(raw) ==
  FlattenSeq([i \in DOMAIN raw |->
    IF raw[i] = "bad" THEN <<"r1", "r2", "r3">> ELSE <<raw[i]>>])

\* A minified original (here: one that begins with a semicolon) is beautified.
Beautified(text) ==
  IF text = <<>> \/ text[1] # ";" THEN text
  ELSE FlattenSeq([i \in DOMAIN text |->
         IF text[i] = ";" THEN <<";", "newline">> ELSE <<text[i]>>])

\* The match of a rule at p, as the scanner reports it: a quote may come with
\* it, and an encoded secret comes decoded, as the text does not hold it.
Snippet(text, p) ==
  IF text[p] = "encoded" THEN <<"key", "key">>
  ELSE IF p > 1 /\ text[p - 1] = "quote" THEN <<"quote", "key">> ELSE <<"key">>

\* The identity of a secret: the snippet without its delimiters, hashed.
SecretValue(snippet) == SelectSeq(snippet, LAMBDA c : c # "quote")

\* Where the copies of a snippet begin.
Copies(text, snippet) ==
  {p \in 1 .. Len(text) - Len(snippet) + 1 :
     SubSeq(text, p, p + Len(snippet) - 1) = snippet}

Sightings(text) == {p \in DOMAIN text : text[p] \in {"key", "encoded"}}

\* The n-th sighting of a snippet is placed at its n-th copy, whichever of them
\* the rule matched.
Nth(text, p) == Cardinality({q \in Sightings(text) : q <= p /\ Snippet(text, q) = Snippet(text, p)})
Place(text, p) ==
  LET copies == Copies(text, Snippet(text, p))
  IN  {s \in copies : Nth(text, p) = Cardinality({r \in copies : r <= s})}

\* What is kept of a sighting: start 0 when there is no place.
Sighting(text, p, asset, path) ==
  [asset |-> asset, path |-> path, line |-> p,
   value |-> SecretValue(Snippet(text, p)),
   start |-> IF Place(text, p) = {} THEN 0 ELSE CHOOSE s \in Place(text, p) : TRUE,
   size |-> Len(Snippet(text, p))]

\* The scan of one text.
RecordSecrets(text, asset, path) == {Sighting(text, p, asset, path) : p \in Sightings(text)}

-----------------------------------------------------------------------------
(* The analyze stage *)

Init ==
  /\ crawl \in Crawls
  /\ rows = {} /\ done = {} /\ gone = {} /\ faults = 0
  /\ call = [stage |-> "idle"]
  /\ audit = <<>> /\ answers = <<>>

\* The code as it was fetched, and every original its map recovers.
Analyze(a) ==
  /\ a \in DOMAIN crawl \ done
  /\ {<<"code", a>>, <<"map", a>>} \intersect gone = {}
  /\ done' = done \union {a}
  /\ rows' = rows \union RecordSecrets(Decoded(crawl[a].code), a, "input.js")
                  \union UNION {RecordSecrets(Beautified(Decoded(crawl[a].files[f])), a, f) :
                                  f \in DOMAIN crawl[a].files}
  /\ UNCHANGED <<crawl, gone, call, audit, answers, faults>>

\* The store loses an object, or a purge removes it.
Lost(object) ==
  /\ faults < MaxFaults
  /\ object \in ({"code"} \X DOMAIN crawl) \union
                ({"map"} \X {a \in DOMAIN crawl : crawl[a].map = "stored"})
  /\ object \notin gone
  /\ gone' = gone \union {object}
  /\ faults' = faults + 1
  /\ UNCHANGED <<crawl, rows, done, call, audit, answers>>

-----------------------------------------------------------------------------
(* A reveal *)

\* The sightings of one finding that have a place; it is read from the first
\* of them, two with one place in an order their hashes decide.
Located(finding) == {r \in rows : <<r.value, r.path>> = finding /\ r.start > 0}

LoadTarget(finding) ==
  /\ call.stage = "idle" /\ Len(answers) < MaxReveals
  /\ finding \in {<<r.value, r.path>> : r \in rows}
  /\ \/ /\ Located(finding) = {}
        /\ call' = [stage |-> "audit", rows |-> {r \in rows : <<r.value, r.path>> = finding},
                    outcome |-> "no_offsets", shown |-> <<>>]
     \/ \E r \in Located(finding) :
          /\ \A other \in Located(finding) : r.start <= other.start
          /\ call' = [stage |-> "derive", row |-> r]
  /\ UNCHANGED <<crawl, rows, done, gone, audit, answers, faults>>

\* A sighting is read from the map when it has a path of its own and its asset
\* a stored map.
IsRecovered(r) == r.path # "input.js" /\ crawl[r.asset].map = "stored"
ObjectOf(r) == <<IF IsRecovered(r) THEN "map" ELSE "code", r.asset>>

\* Mutant: the bytes as they are stored are cut, where no place was found in.
ByteSpaceRaw(r) ==
  IF IsRecovered(r) THEN Beautified(crawl[r.asset].files[r.path])
  ELSE crawl[r.asset].code

\* The text a reveal takes the characters from.
ByteSpace(r) ==
  IF IsRecovered(r) THEN Beautified(Decoded(crawl[r.asset].files[r.path]))
  ELSE Decoded(crawl[r.asset].code)

Sliced(r) ==
  SubSeq(ByteSpace(r), r.start, IF r.start + r.size - 1 <= Len(ByteSpace(r))
                                THEN r.start + r.size - 1 ELSE Len(ByteSpace(r)))

SameSecret(r) == SecretValue(Sliced(r)) = r.value

Concluded(outcome) ==
  call' = [stage |-> "audit", rows |-> {call.row}, outcome |-> outcome,
           shown |-> IF outcome = "revealed" THEN Sliced(call.row) ELSE <<>>]

Derive ==
  /\ call.stage = "derive" /\ ObjectOf(call.row) \notin gone
  /\ Concluded(IF SameSecret(call.row) THEN "revealed" ELSE "integrity")
  /\ UNCHANGED <<crawl, rows, done, gone, audit, answers, faults>>

SourceGone ==
  /\ call.stage = "derive" /\ ObjectOf(call.row) \in gone
  /\ Concluded("source_gone")
  /\ UNCHANGED <<crawl, rows, done, gone, audit, answers, faults>>

\* The store answers with an error, which reads like a lost object, or gives no
\* answer, which is raised.
StoreFails ==
  /\ call.stage = "derive" /\ faults < MaxFaults
  /\ Concluded("source_gone") \/ Concluded("error")
  /\ faults' = faults + 1
  /\ UNCHANGED <<crawl, rows, done, gone, audit, answers>>

\* The attempt is recorded, in a transaction of its own, then answered.
Audit ==
  /\ call.stage = "audit"
  /\ audit' = Append(audit, call.outcome)
  /\ call' = [call EXCEPT !.stage = "answer"]
  /\ UNCHANGED <<crawl, rows, done, gone, answers, faults>>

AuditFails ==
  /\ call.stage = "audit" /\ faults < MaxFaults
  /\ call' = [call EXCEPT !.stage = "answer", !.outcome = "unrecorded", !.shown = <<>>]
  /\ faults' = faults + 1
  /\ UNCHANGED <<crawl, rows, done, gone, audit, answers>>

Answer ==
  /\ call.stage = "answer"
  /\ answers' = Append(answers, [outcome |-> call.outcome, shown |-> call.shown])
  /\ call' = [stage |-> "idle"]
  /\ UNCHANGED <<crawl, rows, done, gone, audit, faults>>

Next ==
  \/ \E a \in DOMAIN crawl : Analyze(a)
  \/ \E a \in DOMAIN crawl, what \in {"code", "map"} : Lost(<<what, a>>)
  \/ \E r \in rows : LoadTarget(<<r.value, r.path>>)
  \/ Derive \/ SourceGone \/ StoreFails \/ Audit \/ AuditFails \/ Answer

RevealSpec == Init /\ [][Next]_rvars

-----------------------------------------------------------------------------
(* Properties *)

\* The texts a sighting may have been made in: an original may have the name
\* the code goes by.
TextsOf(r) ==
  (IF r.path = "input.js" THEN {Decoded(crawl[r.asset].code)} ELSE {})
  \union {Beautified(Decoded(crawl[r.asset].files[f])) : f \in {r.path} \intersect DOMAIN crawl[r.asset].files}

\* The secret is encoded there, and no copy of it as it is reported is in the text.
Unplaceable(r) ==
  \E text \in TextsOf(r) :
    /\ r.line \in DOMAIN text /\ text[r.line] = "encoded"
    /\ Copies(text, Snippet(text, r.line)) = {}

\* What was found is what is revealed: the value shown is the secret of the
\* finding.  A refusal for its integrity concerns an original that no stored map
\* holds or that has the name the code goes by.  One for a missing place
\* concerns a secret that every text it was found in holds encoded and nowhere
\* as it is reported: whatever a text does hold was given a place.  An answer
\* that the source is gone follows an object that was lost or a store that
\* failed (probe/reveal.py:263-286, which rebuilds the texts that
\* analyze.py:1415-1644 scanned).
FoundIsRevealed ==
  call.stage = "audit" =>
    /\ call.outcome = "revealed" => \A r \in call.rows : SecretValue(call.shown) = r.value
    /\ call.outcome = "integrity" =>
         \A r \in call.rows :
           /\ r.path \in DOMAIN crawl[r.asset].files
           /\ crawl[r.asset].map = "inline" \/ r.path = "input.js"
    /\ call.outcome = "no_offsets" => \A r \in call.rows : Unplaceable(r)
    /\ call.outcome = "source_gone" => faults > 0
=============================================================================
