--------------------------- MODULE ErasureReceipt ---------------------------
(***************************************************************************)
(* What a storage cleanup receipt promises to the caller who asked for a   *)
(* source to be erased, whatever protocol keeps the promise: from the      *)
(* moment it is given the bytes that exist or may still appear only become *)
(* fewer, and it reports completion only when there are none.  A void      *)
(* receipt promises nothing about bytes, but never takes a report back.    *)
(***************************************************************************)

VARIABLES
    bytes,     \* the bytes that are stored or may still become stored
    receipt,   \* "none", "pending" or "completed"
    void       \* something happened the promise does not cover

vars == <<bytes, receipt, void>>

Init == bytes = {} /\ receipt = "none" /\ void = FALSE

\* Before any erasure was asked for, bytes come and go.
Work == receipt = "none" /\ UNCHANGED <<receipt, void>>

\* The erasure is asked for; nothing is gained by asking.
Request == /\ receipt = "none" /\ receipt' = "pending"
           /\ UNCHANGED <<bytes, void>>

\* A pending erasure only removes.
Remove == /\ receipt = "pending"
          /\ bytes' \subseteq bytes
          /\ UNCHANGED <<receipt, void>>

Complete == /\ receipt = "pending" /\ receipt' = "completed"
            /\ bytes' = {}
            /\ UNCHANGED void

Void == void' = TRUE /\ UNCHANGED <<bytes, receipt>>

\* Under a void receipt bytes do as they please; the report only advances.
Unprotected ==
    /\ void /\ void'
    /\ <<receipt, receipt'>> \in {<<"none", "pending">>,
                                  <<"pending", "completed">>}
         \union {<<r, r>> : r \in {"none", "pending", "completed"}}

Next == Work \/ Request \/ Remove \/ Complete \/ Void \/ Unprotected

Spec == Init /\ [][Next]_vars

=============================================================================
