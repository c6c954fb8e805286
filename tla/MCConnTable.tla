----------------------------- MODULE MCConnTable -----------------------------
(* Small instances of ConnTable for TLC. *)
EXTENDS ConnTable, TLC

\* Structures and sessions are interchangeable; slots are not (0 .. MaxConn-1
\* are scanned in order).
Symm == Permutations(Handle) \cup Permutations(Session)
=============================================================================
