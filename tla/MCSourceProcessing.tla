------------------------- MODULE MCSourceProcessing -------------------------
(* Small instances of SourceProcessing for TLC.                            *)
EXTENDS SourceProcessing, TLC

\* Requests and workers are interchangeable, and so are contents with chunks and
\* contents without.
Symmetry == Permutations(Requests) \union Permutations(Workers)
            \union Permutations(Revisions \ Empty) \union Permutations(Empty)

\* What nobody reads any more does not tell states apart: what a run remembers
\* of its content once it is past extraction, what a retry remembers of a
\* receipt it is past comparing, versions held by what no longer runs, and the
\* jobs, requests and retries of a removed source, which can change nothing.
RunView(w) ==
    CASE run[w].at \in {"returned", "thrown"} ->
           IF run[w].locked THEN <<run[w].at, run[w].op>> ELSE <<Idle, FALSE>>
      [] run[w].at = "caught" -> <<run[w].at, run[w].op, run[w].locked>>
      [] run[w].at = "finish" ->
           <<run[w].at, run[w].op, run[w].locked, run[w].final, Ran(w) \in fresh>>
      [] OTHER -> <<run[w], Ran(w) \in fresh>>

RetryView ==
    CASE retry.at \in {"inspect", "validate"} -> <<retry, Retried \in fresh>>
      [] retry.at = "restore" -> <<retry.at, retry.op, Retried \in fresh>>
      [] OTHER -> <<retry.at, retry.op, retry.job>>

RequestView(q) ==
    IF request[q].at = "create"
    THEN <<request[q], Asked(q) \in fresh>> ELSE <<request[q]>>

View == <<source, receipts, claims, [w \in Workers |-> RunView(w)],
          IF ~Live THEN <<>>
          ELSE <<jobs, overlap, RetryView, [q \in Requests |-> RequestView(q)],
                 {i \in Receipts : /\ Kept(i) \in fresh
                                   /\ receipts[i].status \in Open}>> >>

=============================================================================
