--------------------------- MODULE MCTaskControl ---------------------------
(***************************************************************************)
(* Small instances of TaskControl for TLC.  Workers and request handlers   *)
(* are interchangeable, which is sound for the invariants; the liveness    *)
(* configurations do not use the symmetry.                                 *)
(***************************************************************************)
EXTENDS TaskControl, TLC

Interchangeable == Permutations(Runners) \cup Permutations(Handlers)
=============================================================================
