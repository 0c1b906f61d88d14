------------------------------ MODULE RunAssets ------------------------------
(***************************************************************************)
(* The run_asset table (runs/assets.py): one row for each asset of a run,  *)
(* keyed by its url, and the statements the stages change it with.  A      *)
(* table is a function from urls to rows; Absent is no row.                *)
(***************************************************************************)
EXTENDS Naturals, FiniteSets

CONSTANT Url

Status == {"pending", "ok", "failed"}

AssetRow == [fetch : Status, analyze : Status, input : BOOLEAN,
             map : BOOLEAN, skipped : BOOLEAN]

NewRow == [fetch |-> "pending", analyze |-> "pending", input |-> FALSE,
           map |-> FALSE, skipped |-> FALSE]

Absent == [NewRow EXCEPT !.fetch = "absent"]

NoRows == [u \in Url |-> Absent]

Present(rows) == {u \in Url : rows[u] # Absent}

\* ON CONFLICT DO NOTHING: a url that has a row keeps it.
SeedPending(rows, urls) ==
  [u \in Url |-> IF u \in urls /\ rows[u] = Absent THEN NewRow ELSE rows[u]]

\* The bytes are in hand: the row starts fetched.  mapped and missed are the
\* urls whose source map was recovered and those whose map was soft-missed.
SeedCaptured(rows, urls, mapped, missed) ==
  [u \in Url |->
     IF u \in urls /\ rows[u] = Absent
     THEN [NewRow EXCEPT !.fetch = "ok", !.input = TRUE,
                         !.map = u \in mapped, !.skipped = u \in missed]
     ELSE rows[u]]

SetFetchOk(rows, u) == [rows EXCEPT ![u].fetch = "ok", ![u].input = TRUE]

SetFetchFailed(rows, u) == [rows EXCEPT ![u].fetch = "failed"]

SetSourceMapRef(rows, u) == [rows EXCEPT ![u].map = TRUE, ![u].skipped = FALSE]

SetSourceMapSkipped(rows, u) == [rows EXCEPT ![u].skipped = TRUE]

SetAnalyzeOk(rows, u) == [rows EXCEPT ![u].analyze = "ok"]

SetAnalyzeFailed(rows, u) == [rows EXCEPT ![u].analyze = "failed"]

\* What a stage's loop skips on a redelivery.
FetchSettled(row) == row.fetch \in {"ok", "failed"} \/ row.input
=============================================================================
