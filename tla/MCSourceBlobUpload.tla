------------------------- MODULE MCSourceBlobUpload -------------------------
(* Small instances of SourceBlobUpload for TLC.                            *)
EXTENDS SourceBlobUpload, TLC

\* Uploaders are interchangeable, and so are the bytes they send.
Symmetry == Permutations(Uploaders) \union Permutations(Contents)


=============================================================================
